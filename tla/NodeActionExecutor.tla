------------------------- MODULE NodeActionExecutor -------------------------
(***************************************************************************)
(* Concurrent requests acting on nodes.                                    *)
(*                                                                         *)
(* "action" requests are the ActionExecutor of the spec (sections 4.3 and  *)
(* 5; node_action is not part of this source tree): check permission and  *)
(* status, call the external collaborator without holding the node's row  *)
(* lock, then under the lock re-read the status, re-check it and commit   *)
(* the transition together with its Event row.  The locked re-check and   *)
(* commit is one atomic step.                                              *)
(*                                                                         *)
(* "delete-view" requests are NodeDelete in views/nodes.py: get_object()  *)
(* reads the node with ADMIN permission and refuses an ALLOCATED one, and *)
(* the delete that follows removes the row without reading it again.      *)
(* Deleting a node keeps its events with a null node reference            *)
(* (migration 0195: Event.node on_delete=SET_NULL).                        *)
(*                                                                         *)
(* "edit" requests are NodeEdit (an UpdateView): get_object() reads the   *)
(* node with EDIT permission and the form is bound to that instance; a    *)
(* valid form's save() writes the whole row back, so the status read at   *)
(* get_object() is written again.  "mac-add" and "mac-delete" are MacAdd  *)
(* and MacDelete: a permission-checked get_node(), then a MACAddress row  *)
(* is inserted or deleted.  Each view fetches the node once more for its  *)
(* redirect or its re-rendered form.                                      *)
(***************************************************************************)
EXTENDS NodeLifecycle, Sequences, SequencesExt, FiniteSets

CONSTANTS
  Nodes,          \* machines
  Requests,       \* concurrent HTTP requests, one node operation each
  RequestKinds,   \* the kinds of request present in a run
  RequestActions, \* actions "action" requests may ask for in a run
  InitStatuses,   \* statuses nodes may be in initially
  InitPerms,      \* permission levels a requesting user may hold
  NoNode,         \* a null Event.node; a MAC address with no row
  Macs,           \* MAC addresses requests may add or delete
  NoMac           \* the MAC field of a request that names none

Kinds == {"action", "delete-view", "edit", "mac-add", "mac-delete"}

ASSUME /\ RequestKinds \subseteq Kinds /\ NoMac \notin Macs
       /\ RequestActions \subseteq Actions
       /\ InitStatuses \subseteq Statuses /\ InitPerms \subseteq PermLevels
       /\ NoNode \notin Nodes

VARIABLES
  status,    \* Node.status (Deleted once the row is gone)
  events,    \* the Event table, in insertion order: [node, level]
  mac,       \* MACAddress table: address -> its node, or NoNode
  macGen,    \* inserts per address so far: a row's primary key is (address, macGen)
  req,       \* what each request asks for: [kind, node, action, mac, perm]
  phase,     \* where each request is
  seen,      \* the status in the instance an edit form is bound to
  lookedUp   \* the MAC row (its macGen) a MacDelete looked up

vars == <<status, events, mac, macGen, req, phase, seen, lookedUp>>

Finished == {"done", "notPermitted", "notActionable", "notFound", "faulted"}

\* The action field matters only to "action" requests, the mac field only
\* to the MAC views.
Request ==
  [kind : {"action"} \cap RequestKinds, node : Nodes, action : RequestActions,
   mac : {NoMac}, perm : InitPerms]
  \cup [kind : {"delete-view"} \cap RequestKinds, node : Nodes, action : {Delete},
        mac : {NoMac}, perm : InitPerms]
  \cup [kind : {"edit"} \cap RequestKinds, node : Nodes, action : {SetZone},
        mac : {NoMac}, perm : InitPerms]
  \cup [kind : {"mac-add", "mac-delete"} \cap RequestKinds, node : Nodes,
        action : {SetZone}, mac : Macs, perm : InitPerms]

(***************************************************************************)
(* Event.node on_delete: what happens to a node's events when its row is  *)
(* deleted.                                                               *)
(***************************************************************************)
EventsOnNodeDelete(evts, n) ==
  [i \in DOMAIN evts |-> IF evts[i].node = n THEN [evts[i] EXCEPT !.node = NoNode]
                                             ELSE evts[i]]

\* MACAddress.node: a node's MAC rows go with it (on_delete CASCADE).
MacsOnNodeDelete(m, n) == [a \in DOMAIN m |-> IF m[a] = n THEN NoNode ELSE m[a]]

\* Insert one Event row.
Record(n, level) == events' = Append(events, [node |-> n, level |-> level])

Init ==
  /\ status \in [Nodes -> InitStatuses]
  /\ events = <<>>
  /\ mac \in [Macs -> Nodes \cup {NoNode}]
  /\ macGen = [a \in Macs |-> 0]
  /\ req \in [Requests -> Request]
  /\ phase = [r \in Requests |-> "start"]
  /\ seen = [r \in Requests |-> Deleted]
  /\ lookedUp = [r \in Requests |-> 0]

Goto(r, p) == phase' = [phase EXCEPT ![r] = p]

\* get_node_or_404(system_id, user, perm): 404 for a deleted node,
\* PermissionDenied below the level; otherwise the request goes on to ok.
FetchNode(r, level, ok) ==
  CASE status[req[r].node] = Deleted       -> Goto(r, "notFound")
    [] Rank[req[r].perm] < Rank[level]    -> Goto(r, "notPermitted")
    [] OTHER                              -> Goto(r, ok)

-----------------------------------------------------------------------------
(* ActionExecutor.execute                                                  *)

(***************************************************************************)
(* Steps 1 and 2: the node is looked up, the permission gate and then the *)
(* status check run against the status read now.                          *)
(***************************************************************************)
Check(r) ==
  LET n == req[r].node  a == req[r].action  s == status[n]
  IN /\ req[r].kind = "action" /\ phase[r] = "start"
     /\ CASE s = Deleted                 -> Goto(r, "notFound")
          [] ~CanPerform(req[r].perm, a, s) -> Goto(r, "notPermitted")
          [] ~IsLegal(s, a)              -> Goto(r, "notActionable")
          [] External[a]                 -> Goto(r, "external")
          [] OTHER                       -> Goto(r, "commit")
     /\ UNCHANGED <<status, events, mac, macGen, req, seen, lookedUp>>

(***************************************************************************)
(* Step 3: the collaborator is called with no lock held.  It returns, or  *)
(* fails, or times out (turned into ExternalOperationError): the status   *)
(* is left alone and an ERROR event is recorded.                          *)
(***************************************************************************)
ExternalSucceeded(r) ==
  /\ phase[r] = "external"
  /\ Goto(r, "commit")
  /\ UNCHANGED <<status, events, mac, macGen, req, seen, lookedUp>>

ExternalFailed(r) ==
  LET n == req[r].node
  IN /\ phase[r] = "external"
     /\ Record(IF status[n] = Deleted THEN NoNode ELSE n, "ERROR")
     /\ Goto(r, "faulted")
     /\ UNCHANGED <<status, mac, macGen, req, seen, lookedUp>>

(***************************************************************************)
(* Step 4 under the row lock: re-read the status and re-check it; commit  *)
(* the transition and its INFO event, or give up as not actionable if     *)
(* another request changed the status since the check.  Committing a     *)
(* delete removes the row: its events, the new one included, are kept     *)
(* with a null node, and its MACs go with it.                              *)
(***************************************************************************)
Transition(r) ==
  LET n == req[r].node  a == req[r].action
  IN /\ status' = [status EXCEPT ![n] = NextStatus(status[n], a)]
     /\ IF a = Delete
        THEN /\ events' = EventsOnNodeDelete(Append(events, [node |-> n, level |-> "INFO"]), n)
             /\ mac' = MacsOnNodeDelete(mac, n)
        ELSE Record(n, "INFO") /\ UNCHANGED mac
     /\ Goto(r, "done")

Commit(r) ==
  LET s == status[req[r].node]
  IN /\ phase[r] = "commit"
     /\ CASE s = Deleted ->
               Goto(r, "notFound") /\ UNCHANGED <<status, events, mac>>
          [] ~IsLegal(s, req[r].action) ->
               Goto(r, "notActionable") /\ UNCHANGED <<status, events, mac>>
          [] OTHER -> Transition(r)
     /\ UNCHANGED <<macGen, req, seen, lookedUp>>

-----------------------------------------------------------------------------
(* NodeDelete (views/nodes.py)                                            *)

(***************************************************************************)
(* get_object: get_node_or_404 with NODE_PERMISSION.ADMIN (404 when the    *)
(* node is gone, PermissionDenied when the user lacks the level), then    *)
(* PermissionDenied when the node is ALLOCATED.                           *)
(***************************************************************************)
GetObject(r) ==
  LET n == req[r].node
  IN /\ req[r].kind = "delete-view" /\ phase[r] = "start"
     /\ CASE status[n] = Deleted          -> Goto(r, "notFound")
          [] req[r].perm # "admin"        -> Goto(r, "notPermitted")
          [] status[n] = Allocated        -> Goto(r, "notPermitted")
          [] OTHER                        -> Goto(r, "deleting")
     /\ UNCHANGED <<status, events, mac, macGen, req, seen, lookedUp>>

(***************************************************************************)
(* HelpfulDeleteView then deletes the object get_object returned, without *)
(* looking at its status again; its events are kept with a null node and  *)
(* its MACs are deleted with it.                                          *)
(***************************************************************************)
DeleteObject(r) ==
  LET n == req[r].node
  IN /\ phase[r] = "deleting"
     /\ status' = [status EXCEPT ![n] = Deleted]
     /\ events' = IF status[n] = Deleted THEN events ELSE EventsOnNodeDelete(events, n)
     /\ mac' = MacsOnNodeDelete(mac, n)
     /\ Goto(r, "done")
     /\ UNCHANGED <<macGen, req, seen, lookedUp>>

-----------------------------------------------------------------------------
(* NodeEdit (views/nodes.py), an UpdateView                               *)

(***************************************************************************)
(* post(): get_object() fetches the node with EDIT permission, and the    *)
(* form is bound to that instance, status included.                       *)
(***************************************************************************)
EditGetObject(r) ==
  LET n == req[r].node
  IN /\ req[r].kind = "edit" /\ phase[r] = "start"
     /\ FetchNode(r, "edit", "editing")
     /\ seen' = [seen EXCEPT ![r] = status[n]]
     /\ UNCHANGED <<status, events, mac, macGen, req, lookedUp>>

(***************************************************************************)
(* form_valid: form.save() saves the bound instance.  Model.save() writes *)
(* every column of the row, so the status read by get_object() is written *)
(* back; when no row is left to UPDATE it INSERTs the node again.         *)
(***************************************************************************)
EditSave(r) ==
  LET n == req[r].node
  IN /\ phase[r] = "editing"
     /\ status' = [status EXCEPT ![n] = seen[r]]
     /\ Goto(r, "redirect")
     /\ UNCHANGED <<events, mac, macGen, req, seen, lookedUp>>

(***************************************************************************)
(* form_invalid: the form is rendered again; get_context_data() calls     *)
(* get_object() (MacAdd: get_node()) once more, which may now 404.        *)
(***************************************************************************)
FormInvalid(r) ==
  /\ phase[r] \in {"editing", "macForm"}
  /\ FetchNode(r, "edit", "done")
  /\ UNCHANGED <<status, events, mac, macGen, req, seen, lookedUp>>

(***************************************************************************)
(* The redirect after a save or a delete: NodeEdit.get_success_url,       *)
(* MacAdd.get_success_url and MacDelete.get_next_url fetch the node again *)
(* to build the URL, and 404 when it is gone by now.                      *)
(***************************************************************************)
SuccessRedirect(r) ==
  /\ phase[r] = "redirect"
  /\ FetchNode(r, "edit", "done")
  /\ UNCHANGED <<status, events, mac, macGen, req, seen, lookedUp>>

-----------------------------------------------------------------------------
(* MacAdd and MacDelete (views/nodes.py)                                  *)

\* get_node(): MacAdd's get_form_kwargs, MacDelete's get_object.
MacGetNode(r) ==
  /\ req[r].kind \in {"mac-add", "mac-delete"} /\ phase[r] = "start"
  /\ FetchNode(r, "edit", IF req[r].kind = "mac-add" THEN "macForm" ELSE "macLookup")
  /\ UNCHANGED <<status, events, mac, macGen, req, seen, lookedUp>>

\* MACAddressForm.is_valid(): mac_address is unique, so a free address.
MacFormValid(r) ==
  /\ phase[r] = "macForm"
  /\ mac[req[r].mac] = NoNode
  /\ Goto(r, "macSaving")
  /\ UNCHANGED <<status, events, mac, macGen, req, seen, lookedUp>>

(***************************************************************************)
(* CreateView.form_valid: form.save() INSERTs the row for the node that   *)
(* get_node() returned.  The database refuses it (IntegrityError, a 500)  *)
(* when that node's row is gone or the address was taken since is_valid.  *)
(***************************************************************************)
MacSave(r) ==
  LET a == req[r].mac
  IN /\ phase[r] = "macSaving"
     /\ IF mac[a] # NoNode \/ status[req[r].node] = Deleted
        THEN Goto(r, "faulted") /\ UNCHANGED <<mac, macGen>>
        ELSE /\ mac' = [mac EXCEPT ![a] = req[r].node]
             /\ macGen' = [macGen EXCEPT ![a] = @ + 1]
             /\ Goto(r, "redirect")
     /\ UNCHANGED <<status, events, req, seen, lookedUp>>

\* MacDelete.get_object: get_object_or_404(MACAddress, node=node, mac_address).
MacLookup(r) ==
  LET a == req[r].mac
  IN /\ phase[r] = "macLookup"
     /\ IF mac[a] = req[r].node
        THEN Goto(r, "macDeleting") /\ lookedUp' = [lookedUp EXCEPT ![r] = macGen[a]]
        ELSE Goto(r, "notFound") /\ UNCHANGED lookedUp
     /\ UNCHANGED <<status, events, mac, macGen, req, seen>>

\* HelpfulDeleteView: obj.delete() deletes the row looked up, by primary
\* key: nothing when it is gone, even if the address was added again.
MacDeleteObject(r) ==
  LET a == req[r].mac
  IN /\ phase[r] = "macDeleting"
     /\ mac' = IF macGen[a] = lookedUp[r] THEN [mac EXCEPT ![a] = NoNode] ELSE mac
     /\ Goto(r, "redirect")
     /\ UNCHANGED <<status, events, macGen, req, seen, lookedUp>>

-----------------------------------------------------------------------------
\* Every request has answered; the system is idle.
Idle == (\A r \in Requests : phase[r] \in Finished) /\ UNCHANGED vars

Step(r) ==
  \/ Check(r)
  \/ ExternalSucceeded(r)
  \/ ExternalFailed(r)
  \/ Commit(r)
  \/ GetObject(r)
  \/ DeleteObject(r)
  \/ EditGetObject(r)
  \/ EditSave(r)
  \/ FormInvalid(r)
  \/ SuccessRedirect(r)
  \/ MacGetNode(r)
  \/ MacFormValid(r)
  \/ MacSave(r)
  \/ MacLookup(r)
  \/ MacDeleteObject(r)

Next == (\E r \in Requests : Step(r)) \/ Idle

Spec == Init /\ [][Next]_vars

-----------------------------------------------------------------------------
TypeOK ==
  /\ status \in [Nodes -> Statuses \cup {Deleted}]
  /\ events \in Seq([node : Nodes \cup {NoNode}, level : {"INFO", "ERROR"}])
  /\ mac \in [Macs -> Nodes \cup {NoNode}]
  /\ macGen \in [Macs -> Nat]
  /\ req \in [Requests -> Request]
  /\ phase \in [Requests -> Finished \cup {"start", "external", "commit", "deleting",
                "editing", "redirect", "macForm", "macSaving", "macLookup", "macDeleting"}]

\* Rows of the Event table at level l naming node n.
EventsOf(n, l) == Len(SelectSeq(events, LAMBDA e : e.node = n /\ e.level = l))

\* Action requests on node n that have answered with phase p.
ExecutionsOf(n, p) ==
  Cardinality({r \in Requests : req[r].kind = "action" /\ req[r].node = n /\ phase[r] = p})

\* Node n is deleted by no request of the run (NodeDelete or a delete action).
NotDeletedByAny(n) ==
  \A r \in Requests : req[r].node = n => req[r].kind # "delete-view" /\ req[r].action # Delete

Abstract == INSTANCE NodeLifecycleAbstract WITH status <- status
LifecycleRefined == Abstract!Spec
=============================================================================
