\* One-word search queries whose words may contain "&".
CONSTANTS
  Nodes = {n1}
  Macs = {}
  MacsByAge <- NoMacsByAge
  MacAddrRank <- NoMacAddrRank
  HostNames = {1}
  Zones <- MCZones
  ZoneRank <- MCZoneRank
  ZoneKey <- ZoneKeyName
  Queries <- SearchQueriesWithAmp
  SortParams = {None}
  DirParams = {None}
  None = None
SPECIFICATION Spec
INVARIANT AnyNeverForwarded
