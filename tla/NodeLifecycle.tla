--------------------------- MODULE NodeLifecycle ---------------------------
(***************************************************************************)
(* The node lifecycle state machine, the action registry and the          *)
(* permission gate (maasserver.node_action / NODE_PERMISSION, imported by *)
(* views/nodes.py but not part of this source tree: modelled from the     *)
(* spec, sections 4.1 and 4.2).  The registry is data, so it is a set of  *)
(* CONSTANTS that an MC module fills in with the table of actions.        *)
(***************************************************************************)
EXTENDS Naturals

CONSTANTS
  Statuses,     \* NODE_STATUS values
  Actions,      \* identifiers of ACTIONS_DICT, plus the set-zone bulk action
  SetZone,      \* SetZoneBulkAction.name: no status transition
  Delete,       \* the delete action: the node is removed
  Allocated,    \* NODE_STATUS.ALLOCATED
  Deleted,      \* status of a node row that no longer exists
  RequiredPerm, \* action -> NODE_PERMISSION level it needs
  LegalFrom,    \* action -> statuses it is invocable from
  Target,       \* action -> status a successful execution commits
  External      \* action -> TRUE when it calls the power/commissioning collaborator

PermLevels == {"view", "edit", "admin"}
Rank == [p \in PermLevels |-> CASE p = "view" -> 1 [] p = "edit" -> 2 [] p = "admin" -> 3]

ASSUME /\ SetZone \in Actions /\ Delete \in Actions
       /\ Allocated \in Statuses /\ Deleted \notin Statuses
       /\ RequiredPerm \in [Actions -> PermLevels]
       /\ LegalFrom \in [Actions -> SUBSET Statuses]
       /\ Target \in [Actions -> Statuses \cup {Deleted}]
       /\ External \in [Actions -> BOOLEAN]
       /\ Target[Delete] = Deleted

(***************************************************************************)
(* PermissionGate.can_perform: the actor's permission on the node reaches *)
(* the level the action requires.  Deleting an ALLOCATED node is denied   *)
(* whatever the level (NodeDelete.get_object raises PermissionDenied).    *)
(***************************************************************************)
CanPerformNoPolicy(p, a, s) == Rank[p] >= Rank[RequiredPerm[a]]
CanPerform(p, a, s) ==
  /\ Rank[p] >= Rank[RequiredPerm[a]]
  /\ ~(a = Delete /\ s = Allocated)

\* StateMachine.is_legal
IsLegal(s, a) == s \in LegalFrom[a]

\* The status a successful execution leaves: set-zone keeps the status.
NextStatus(s, a) == IF a = SetZone THEN s ELSE Target[a]

=============================================================================
