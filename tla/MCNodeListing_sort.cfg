\* Three nodes, three MACs, every sort column and direction; no search, or
\* a search whose words hold a "+".
CONSTANTS
  Nodes = {n1, n2, n3}
  Macs = {"m1", "m2"}
  MacsByAge <- MCMacsByAge
  MacAddrRank <- MCMacAddrRank
  HostNames = {1, 2}
  Zones <- MCZones
  ZoneRank <- MCZoneRank
  ZoneKey <- ZoneKeyName
  Queries <- SortQueries
  SortParams = {None, "hostname", "zone", "primary_mac", "junk"}
  DirParams = {None, "asc", "desc"}
  None = None
SPECIFICATION Spec
INVARIANTS
  ListingOrdered
  SortLinkFlipsListing
  SortLinksKeepQuery
