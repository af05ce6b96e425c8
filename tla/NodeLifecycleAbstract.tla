----------------------- MODULE NodeLifecycleAbstract -----------------------
(***************************************************************************)
(* What the node lifecycle promises (spec, section 4.1): a node's status  *)
(* changes only as the declared effect of one action applied in a status  *)
(* that action is legal from, and an allocated node is never deleted.     *)
(* Each change is one atomic step; nothing else ever changes a status.    *)
(***************************************************************************)
EXTENDS NodeLifecycle

CONSTANTS Nodes, InitStatuses

VARIABLE status

Init == status \in [Nodes -> InitStatuses]

Apply(n, a) ==
  /\ status[n] \in Statuses
  /\ IsLegal(status[n], a)
  /\ ~(a = Delete /\ status[n] = Allocated)
  /\ status' = [status EXCEPT ![n] = NextStatus(@, a)]

Next == \E n \in Nodes, a \in Actions : Apply(n, a)

Spec == Init /\ [][Next]_status
=============================================================================
