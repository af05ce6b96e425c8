\* NodeEdit racing an acquire on a READY node.
CONSTANTS
  Nodes = {n1, n2}
  Requests = {r1, r2}
  RequestKinds = {"action", "edit"}
  RequestActions <- AcquireOnly
  NoNode = NoNode
  Macs = {}
  NoMac = NoMac
  Statuses <- AllStatuses
  Actions <- MCActions
  SetZone = "set-zone"
  Delete = "delete"
  Allocated = "ALLOCATED"
  Deleted = "DELETED"
  RequiredPerm <- MCRequiredPerm
  LegalFrom <- MCLegalFrom
  Target <- MCTarget
  External <- MCExternal
  InitStatuses <- ReadyOnly
  InitPerms = {"edit", "admin"}
SYMMETRY RequestSymmetry
SPECIFICATION Spec
PROPERTY LifecycleRefined
