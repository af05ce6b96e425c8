\* The node page with number_of_events_shown = 5 and up to six events
\* recorded by other requests, so that the [:5] cut is reached, with a
\* concurrent GET of the events page and a delete of the node.
CONSTANTS
  Statuses = {"READY", "DEPLOYED"}
  InitStatuses = {"READY"}
  Levels = {"INFO", "DEBUG"}
  Deleted = "DELETED"
  NoNode = NoNode
  EventsShown = 5
  MaxEvents = 6
SPECIFICATION Spec
INVARIANTS
  TypeOK
