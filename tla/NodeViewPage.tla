---------------------------- MODULE NodeViewPage ----------------------------
(***************************************************************************)
(* A GET of a node's page (NodeView, views/nodes.py) racing with other     *)
(* requests that change the node.  The page is built from several         *)
(* separate queries: UpdateView fetches the object for the action form,   *)
(* get_context_data fetches it again for the messages, and again for the  *)
(* event list and for the event count (self.get_object() at each use).    *)
(* Each fetch is get_node_or_404 with VIEW permission: a node deleted      *)
(* meanwhile turns the page into a 404.  The event list is a lazy          *)
(* QuerySet: it is put in the context unevaluated and runs when the       *)
(* template renders, after the count query.  The messages and texts       *)
(* computed from the node are left out: no property reads them.  The       *)
(* events page (NodeEventListView) lists the node's events newest first.  *)
(***************************************************************************)
EXTENDS Naturals, Sequences, SequencesExt

CONSTANTS
  Statuses,       \* node statuses the other requests move the node through
  InitStatuses,   \* statuses the node may be in when the page is requested
  Levels,         \* event levels; "DEBUG" is one of them
  Deleted,        \* status of a deleted node
  NoNode,         \* a null Event.node
  EventsShown,    \* number_of_events_shown
  MaxEvents       \* bound on the events other requests record

ASSUME /\ "DEBUG" \in Levels /\ Deleted \notin Statuses
       /\ EventsShown \in Nat \ {0} /\ MaxEvents \in Nat

VARIABLES
  status,       \* Node.status of the viewed node (Deleted once gone)
  events,       \* Event table: [node \in {"N", NoNode}, level]
  page,         \* where the GET is: "object", "context", "list", "countFetch",
                \* "count", "render", "rendered" or "404"
  eventList,    \* the rendered event_list: event indices, newest first
  eventCount,   \* context['event_count']
  evPage,       \* where the GET of the events page is: "queryset", "context", "rendered", "404"
  evList        \* NodeEventListView's event_list: event indices, newest first

vars == <<status, events, page, eventList, eventCount, evPage, evList>>

\* Indices of the viewed node's events, as Event.objects.filter(node=node).
NodeEvents(evts) == {i \in DOMAIN evts : evts[i].node = "N"}

(***************************************************************************)
(* .exclude(type__level=DEBUG).order_by('-id')[:number_of_events_shown]    *)
(***************************************************************************)
LatestEventsUncut(evts) ==
  SetToSortSeq({i \in NodeEvents(evts) : evts[i].level # "DEBUG"}, >)
LatestEvents(evts) ==
  LET shown  == {i \in NodeEvents(evts) : evts[i].level # "DEBUG"}
      newest == SetToSortSeq(shown, >)
  IN SubSeq(newest, 1, IF Len(newest) < EventsShown THEN Len(newest) ELSE EventsShown)

Init ==
  /\ status \in InitStatuses
  /\ events = <<>>
  /\ page = "object"
  /\ eventList = <<>>
  /\ eventCount = 0
  /\ evPage = "queryset"
  /\ evList = <<>>

-----------------------------------------------------------------------------
(* Other requests                                                         *)

\* An action commits a new status with its event.
ChangeStatus(s) ==
  /\ status # Deleted /\ Len(events) < MaxEvents
  /\ status' = s
  /\ events' = Append(events, [node |-> "N", level |-> "INFO"])
  /\ UNCHANGED <<page, eventList, eventCount, evPage, evList>>

\* Something records an event of some level against the node.
RecordEvent(l) ==
  /\ status # Deleted /\ Len(events) < MaxEvents
  /\ events' = Append(events, [node |-> "N", level |-> l])
  /\ UNCHANGED <<status, page, eventList, eventCount, evPage, evList>>

\* The node is deleted; its events stay with a null node (on_delete=SET_NULL).
DeleteNode ==
  /\ status # Deleted
  /\ status' = Deleted
  /\ events' = [i \in DOMAIN events |->
                  IF events[i].node = "N" THEN [events[i] EXCEPT !.node = NoNode]
                  ELSE events[i]]
  /\ UNCHANGED <<page, eventList, eventCount, evPage, evList>>

-----------------------------------------------------------------------------
(* The page                                                               *)

\* NodeViewMixin.get_object: get_node_or_404(system_id, user, VIEW).
Fetch(next) ==
  IF status = Deleted THEN page' = "404" ELSE page' = next

\* UpdateView.get: self.object = self.get_object(), for the action form.
GetObject ==
  /\ page = "object"
  /\ Fetch("context")
  /\ UNCHANGED <<status, events, eventList, eventCount, evPage, evList>>

\* get_context_data: node = self.get_object(); the messages come from it.
ContextNode ==
  /\ page = "context"
  /\ Fetch("list")
  /\ UNCHANGED <<status, events, eventList, eventCount, evPage, evList>>

(***************************************************************************)
(* event_list = Event.objects.filter(node=self.get_object())...: the node *)
(* is fetched now, the QuerySet is only built.                            *)
(***************************************************************************)
ContextEventList ==
  /\ page = "list"
  /\ Fetch("countFetch")
  /\ UNCHANGED <<status, events, eventList, eventCount, evPage, evList>>

(***************************************************************************)
(* event_count = Event.objects.filter(node=self.get_object()).count():    *)
(* the fetch of the node and the COUNT are two queries.                   *)
(***************************************************************************)
ContextCountFetch ==
  /\ page = "countFetch"
  /\ Fetch("count")
  /\ UNCHANGED <<status, events, eventList, eventCount, evPage, evList>>

ContextEventCount ==
  /\ page = "count"
  /\ page' = "render"
  /\ eventCount' = Cardinality(NodeEvents(events))
  /\ UNCHANGED <<status, events, eventList, evPage, evList>>

\* render_to_response: the template evaluates the event_list QuerySet now.
RenderPage ==
  /\ page = "render"
  /\ page' = "rendered"
  /\ eventList' = LatestEvents(events)
  /\ UNCHANGED <<status, events, eventCount, evPage, evList>>

-----------------------------------------------------------------------------
(* NodeEventListView, requested at the same time                          *)

\* get_queryset: Event.objects.filter(node=self.get_object()).order_by('-id')
EvGetQueryset ==
  /\ evPage = "queryset"
  /\ evPage' = IF status = Deleted THEN "404" ELSE "context"
  /\ evList' = SetToSortSeq(NodeEvents(events), >)
  /\ UNCHANGED <<status, events, page, eventList, eventCount>>

\* get_context_data: node = self.get_object() once more.
EvContext ==
  /\ evPage = "context"
  /\ evPage' = IF status = Deleted THEN "404" ELSE "rendered"
  /\ UNCHANGED <<status, events, page, eventList, eventCount, evList>>

\* Both responses have been sent (the page, or the 404).
Answered ==
  /\ page \in {"rendered", "404"} /\ evPage \in {"rendered", "404"}
  /\ UNCHANGED vars

Next ==
  \/ \E s \in Statuses : ChangeStatus(s)
  \/ \E l \in Levels : RecordEvent(l)
  \/ DeleteNode
  \/ GetObject
  \/ ContextNode
  \/ ContextEventList
  \/ ContextCountFetch
  \/ ContextEventCount
  \/ RenderPage
  \/ EvGetQueryset
  \/ EvContext
  \/ Answered

Spec == Init /\ [][Next]_vars

-----------------------------------------------------------------------------
TypeOK ==
  /\ status \in Statuses \cup {Deleted}
  /\ events \in Seq([node : {"N", NoNode}, level : Levels])
  /\ page \in {"object", "context", "list", "countFetch", "count", "render", "rendered", "404"}
  /\ eventList \in Seq(DOMAIN events) /\ Len(eventList) <= EventsShown
  /\ eventCount \in Nat
  /\ evPage \in {"queryset", "context", "rendered", "404"}
  /\ evList \in Seq(DOMAIN events)
=============================================================================
