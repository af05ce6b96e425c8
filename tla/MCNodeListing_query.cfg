\* Search queries of up to two words over two nodes; no sorting.
CONSTANTS
  Nodes = {n1, n2}
  Macs = {}
  MacsByAge <- NoMacsByAge
  MacAddrRank <- NoMacAddrRank
  HostNames = {1}
  Zones <- MCZones
  ZoneRank <- MCZoneRank
  ZoneKey <- ZoneKeyName
  Queries <- SearchQueries
  SortParams = {None}
  DirParams = {None}
  None = None
SPECIFICATION Spec
INVARIANTS
  ParsedAsWritten
