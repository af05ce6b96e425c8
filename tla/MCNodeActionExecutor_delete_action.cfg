\* Two delete and acquire actions (the ActionExecutor of the spec, with its
\* locked is_legal re-check) racing on one READY node.
CONSTANTS
  Nodes = {n1}
  Requests = {r1, r2}
  RequestKinds = {"action"}
  RequestActions <- AcquireOrDelete
  NoNode = NoNode
  Macs = {}
  NoMac = NoMac
  Statuses <- AllStatuses
  Actions <- MCActions
  SetZone = "set-zone"
  Delete = "delete"
  Allocated = "ALLOCATED"
  Deleted = "DELETED"
  RequiredPerm <- MCRequiredPerm
  LegalFrom <- MCLegalFrom
  Target <- MCTarget
  External <- MCExternal
  InitStatuses <- ReadyOnly
  InitPerms = {"admin"}
SYMMETRY RequestSymmetry
SPECIFICATION Spec
PROPERTY LifecycleRefined
