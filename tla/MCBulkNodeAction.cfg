\* Three nodes in four statuses, every permission level and every action.
CONSTANTS
  Nodes = {n1, n2, n3}
  Statuses <- AllStatuses
  Actions <- MCActions
  SetZone = "set-zone"
  Delete = "delete"
  Allocated = "ALLOCATED"
  Deleted = "DELETED"
  RequiredPerm <- MCRequiredPerm
  LegalFrom <- MCLegalFrom
  Target <- MCTarget
  External <- MCExternal
  InitStatuses <- MCInitStatuses
  InitPerms = {"view", "edit", "admin"}
SYMMETRY NodeSymmetry
SPECIFICATION Spec
INVARIANTS
  TypeOK
  BulkReportAccountsForSelection
  
