\* Two BMC rows, a small and a large payload, an IPMI and a manual power
\* type, three saves by the region and one crash of migrate.
CONSTANTS
  Bmcs = {b1, b2}
  PowerTypes = {"ipmi", "manual"}
  Params = {"small", "large"}
  Big = {"large"}
  MD5 <- MCMD5
  None = None
  MaxSaves = 3
  MaxCrashes = 1
SPECIFICATION Spec
INVARIANTS
  NoDuplicateBmcs
  SaveRejectedOnlyForDuplicate
PROPERTIES
  MigrationEventuallyApplied
