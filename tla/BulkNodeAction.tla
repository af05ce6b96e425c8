--------------------------- MODULE BulkNodeAction ---------------------------
(***************************************************************************)
(* One POST of the node listing page (NodeListView, views/nodes.py): the  *)
(* bulk form applies one action to the selected nodes in the order given  *)
(* (BulkNodeActionForm.save, modelled from the spec, section 4.4), then   *)
(* form_valid turns the three counts into the message shown to the user  *)
(* (message_from_form_stats).                                             *)
(*                                                                         *)
(* Each node is handled by one atomic step, as the spec's transaction per *)
(* node requires: the permission gate first, then the status check, then *)
(* the action's effect, committed together with its audit event.  A      *)
(* failing external collaborator leaves the status alone, records an     *)
(* ERROR event and propagates out of the loop (section 7).               *)
(***************************************************************************)
EXTENDS NodeLifecycle, Sequences, SequencesExt, FiniteSets

CONSTANTS
  Nodes,          \* machines listed on the page
  InitStatuses,   \* statuses the nodes may be in when the form is posted
  InitPerms       \* permission levels the posting user may hold on a node

ASSUME /\ InitStatuses \subseteq Statuses
       /\ InitPerms \subseteq PermLevels

Kinds == <<"done", "notActionable", "notPermitted">>

VARIABLES
  status,     \* Node.status of each node (Deleted once the row is gone)
  initStatus, \* history: the statuses when the form was posted
  perm,       \* highest NODE_PERMISSION the user holds on each node
  action,     \* cleaned_data['action']
  selection,  \* cleaned_data['system_id'], in the order posted
  queue,      \* nodes of the selection still to be handled
  stats,      \* running counts: kind -> number of nodes
  outcome,    \* history: how each node was classified ("none" if not yet)
  events,     \* Event rows appended by this request: [node, level]
  pc,         \* "loop", "report", "returned" or "faulted"
  message     \* the message passed to messages.info

vars == <<status, initStatus, perm, action, selection, queue, stats, outcome, events, pc, message>>

(***************************************************************************)
(* message_from_form_stats: the buckets in the fixed order (done,         *)
(* not_actionable, not_permitted); a zero bucket says nothing; singular   *)
(* template when the number is 1; after the first sentence the action is *)
(* referred to as "It".  A sentence is kept as the template it was built  *)
(* from: its bucket, its number, plural or not, and its subject.          *)
(***************************************************************************)
RECURSIVE ComposeResetAlways(_, _)
ComposeResetAlways(rows, name) ==
  IF rows = <<>> THEN <<>>
  ELSE LET r == Head(rows)
       IN IF r.number # 0
          THEN <<[kind |-> r.kind, count |-> r.number,
                  plural |-> r.number # 1, subject |-> name]>>
                 \o ComposeResetAlways(Tail(rows), "It")
          ELSE ComposeResetAlways(Tail(rows), "It")
RECURSIVE Compose(_, _)
Compose(rows, name) ==
  IF rows = <<>> THEN <<>>
  ELSE LET r == Head(rows)
       IN IF r.number # 0
          THEN <<[kind |-> r.kind, count |-> r.number,
                  plural |-> r.number # 1, subject |-> name]>>
                 \o Compose(Tail(rows), "It")
          ELSE Compose(Tail(rows), name)

MessageFromFormStats(actionClass, done, notActionable, notPermitted) ==
  Compose(<<[kind |-> "done", number |-> done],
            [kind |-> "notActionable", number |-> notActionable],
            [kind |-> "notPermitted", number |-> notPermitted]>>,
          <<"The action", actionClass>>)

(***************************************************************************)
(* The form posts an action the registry knows and at least one node.    *)
(***************************************************************************)
Init ==
  /\ status \in [Nodes -> InitStatuses]
  /\ initStatus = status
  /\ perm \in [Nodes -> InitPerms]
  /\ action \in Actions
  /\ selection \in SetToAllKPermutations(Nodes) \ {<<>>}
  /\ queue = selection
  /\ stats = [k \in Range(Kinds) |-> 0]
  /\ outcome = [n \in Nodes |-> "none"]
  /\ events = <<>>
  /\ pc = "loop"
  /\ message = <<>>

\* Classify node n as kind k and move on to the next selected node.
TallyNoAdvance(n, k) ==
  /\ queue' = queue
  /\ stats' = [stats EXCEPT ![k] = @ + 1]
  /\ outcome' = [outcome EXCEPT ![n] = k]
Tally(n, k) ==
  /\ queue' = Tail(queue)
  /\ stats' = [stats EXCEPT ![k] = @ + 1]
  /\ outcome' = [outcome EXCEPT ![n] = k]

(***************************************************************************)
(* The user may not perform the action on the node (or it is the delete  *)
(* of an allocated node): counted as not permitted, nothing is called.   *)
(***************************************************************************)
RejectNotPermitted ==
  /\ pc = "loop" /\ queue # <<>>
  /\ LET n == Head(queue)
     IN /\ ~CanPerform(perm[n], action, status[n])
        /\ Tally(n, "notPermitted")
  /\ UNCHANGED <<status, initStatus, perm, action, selection, events, pc, message>>

\* Permitted, but the node's status does not allow the action.
RejectNotActionable ==
  /\ pc = "loop" /\ queue # <<>>
  /\ LET n == Head(queue)
     IN /\ CanPerform(perm[n], action, status[n])
        /\ ~IsLegal(status[n], action)
        /\ Tally(n, "notActionable")
  /\ UNCHANGED <<status, initStatus, perm, action, selection, events, pc, message>>

(***************************************************************************)
(* The effect succeeds: the status transition and its INFO event commit  *)
(* in one transaction.                                                    *)
(***************************************************************************)
Perform ==
  /\ pc = "loop" /\ queue # <<>>
  /\ LET n == Head(queue)
     IN /\ CanPerform(perm[n], action, status[n])
        /\ IsLegal(status[n], action)
        /\ status' = [status EXCEPT ![n] = NextStatus(@, action)]
        /\ events' = Append(events, [node |-> n, level |-> "INFO"])
        /\ Tally(n, "done")
  /\ UNCHANGED <<initStatus, perm, action, selection, pc, message>>

PerformFailed ==
  /\ pc = "loop" /\ queue # <<>>
  /\ External[action]
  /\ LET n == Head(queue)
     IN /\ CanPerform(perm[n], action, status[n])
        /\ IsLegal(status[n], action)
        /\ events' = Append(events, [node |-> n, level |-> "ERROR"])
        /\ outcome' = [outcome EXCEPT ![n] = "fault"]
  /\ queue' = Tail(queue)
  /\ pc' = "faulted"
  /\ UNCHANGED <<status, initStatus, perm, action, selection, stats, message>>

\* save() returns the counts once every selected node is handled.
SaveReturns ==
  /\ pc = "loop" /\ queue = <<>>
  /\ pc' = "report"
  /\ UNCHANGED <<status, initStatus, perm, action, selection, queue, stats, outcome, events, message>>

(***************************************************************************)
(* NodeListView.form_valid: the set-zone bulk action is looked up by its  *)
(* own name, any other in ACTIONS_DICT; the message is composed from the  *)
(* stats tuple (done, not_actionable, not_permitted) and queued.          *)
(***************************************************************************)
FormValid ==
  /\ pc = "report"
  /\ LET actionClass == IF action = SetZone THEN SetZone ELSE action
     IN message' = MessageFromFormStats(actionClass, stats["done"],
                                        stats["notActionable"], stats["notPermitted"])
  /\ pc' = "returned"
  /\ UNCHANGED <<status, initStatus, perm, action, selection, queue, stats, outcome, events>>

\* The request has ended, with a message or with the exception.
Ended == pc \in {"returned", "faulted"} /\ UNCHANGED vars

Next ==
  \/ RejectNotPermitted
  \/ RejectNotActionable
  \/ Perform
  \/ PerformFailed
  \/ SaveReturns
  \/ FormValid
  \/ Ended

Spec == Init /\ [][Next]_vars

-----------------------------------------------------------------------------
TypeOK ==
  /\ status \in [Nodes -> Statuses \cup {Deleted}]
  /\ perm \in [Nodes -> PermLevels]
  /\ action \in Actions
  /\ queue \in Seq(Nodes) /\ IsSuffix(queue, selection)
  /\ stats \in [Range(Kinds) -> 0 .. Len(selection)]
  /\ outcome \in [Nodes -> {"none", "fault"} \cup Range(Kinds)]
  /\ events \in Seq([node : Nodes, level : {"INFO", "ERROR"}])
  /\ pc \in {"loop", "report", "returned", "faulted"}

\* The number a message states for bucket k (0 when it has no sentence).
Said(k) ==
  LET idx == {i \in DOMAIN message : message[i].kind = k}
  IN IF idx = {} THEN 0 ELSE message[CHOOSE i \in idx : TRUE].count

\* Nodes of the selection that were classified as k.
Classified(k) == {n \in Range(selection) : outcome[n] = k}

(***************************************************************************)
(* The message shown after the bulk action accounts for every selected    *)
(* node as it was really handled: each bucket states exactly the number   *)
(* of nodes the loop put in it, in the order done, not actionable, not    *)
(* permitted, plural exactly when that number is not 1, and only the      *)
(* first sentence names the action -- the rest say "It" (the user-facing  *)
(* contract of message_from_form_stats and form_valid).                  *)
(***************************************************************************)
BulkReportAccountsForSelection ==
  pc = "returned" =>
    /\ \A k \in Range(Kinds) : Said(k) = Cardinality(Classified(k))
    /\ \A i, j \in DOMAIN message : i < j =>
          \E x, y \in DOMAIN Kinds : x < y /\ Kinds[x] = message[i].kind
                                       /\ Kinds[y] = message[j].kind
    /\ \A i \in DOMAIN message :
          /\ message[i].plural <=> message[i].count # 1
          /\ (message[i].subject = "It") <=> i # 1

=============================================================================
