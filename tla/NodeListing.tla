---------------------------- MODULE NodeListing ----------------------------
(***************************************************************************)
(* A GET of the node listing page, NodeListView in views/nodes.py:         *)
(* populate_modifiers reads query, sort and dir; get_queryset takes the    *)
(* nodes the user may VIEW, orders them in the database                   *)
(* (_compose_sort_order), narrows them by the search query                *)
(* (_constrain_nodes over _parse_constraints), attaches the MACs          *)
(* (configure_macs); get_context_data then sorts by the late sort fields  *)
(* in Python (late_sort).                                                  *)
(*                                                                         *)
(* Strings the user types are sequences of atoms: "=" and "&" stand for   *)
(* themselves, "any" for the word any, other atoms for ordinary text.      *)
(***************************************************************************)
EXTENDS Naturals, Sequences, SequencesExt, FiniteSets

CONSTANTS
  Nodes,        \* node rows
  Macs,         \* MACAddress rows, listed in creation order by MacsByAge
  MacsByAge,    \* the MACs as a sequence, oldest first
  MacAddrRank,  \* MAC -> rank of its address string (for sorting)
  HostNames,    \* hostnames, as ranks of their sort order
  Zones,        \* zone names (atom sequences) a node can be in
  ZoneRank,     \* zone name -> rank of the name in sort order
  ZoneKey,      \* the juju constraint name of the zone field
  Queries,      \* search queries: sequences of whitespace-separated words
  SortParams,   \* values of ?sort=, including a missing one and junk
  DirParams,    \* values of ?dir=
  None          \* a missing parameter / Python None

ASSUME /\ MacsByAge \in SetToSeqs(Macs)
       /\ MacAddrRank \in [Macs -> Nat]
       /\ HostNames \subseteq Nat
       /\ ZoneRank \in [Zones -> Nat]

VARIABLES
  created,      \* Node.created, as a rank (larger is newer)
  hostname,     \* Node.hostname
  zone,         \* Node.zone name
  macOwner,     \* MACAddress.node of each MAC (None: another node's)
  visible,      \* nodes get_nodes(user, VIEW) returns
  query,        \* request.GET "query"
  sortBy,       \* request.GET "sort"
  sortDir,      \* request.GET "dir"
  data,         \* the QueryDict handed to AcquireNodeForm
  listing,      \* context['node_list'] as rendered
  queryError,   \* self.query_error
  handled,      \* the GET has been answered
  sortLinks     \* context['sort_links']: the dir each column header requests

vars == <<created, hostname, zone, macOwner, visible, query, sortBy, sortDir,
          data, listing, queryError, handled, sortLinks>>

(***************************************************************************)
(* Sort fields the database orders by (sort_fields; hostname and zone     *)
(* stand for all of them) and the one sorted in Python afterwards.        *)
(***************************************************************************)
SortFields == {"hostname", "zone"}
LateSortFields == {"primary_mac"}

-----------------------------------------------------------------------------
(* Strings                                                                 *)

\* s.split(sep, 1)
SplitAt(s, sep) ==
  LET at == {i \in DOMAIN s : s[i] = sep}
  IN IF at = {} THEN <<s>>
     ELSE LET i == Min(at) IN <<SubSeq(s, 1, i - 1), SubSeq(s, i + 1, Len(s))>>

\* s.split(sep): every piece between two separators (or an end)
SplitAll(s, sep) ==
  LET cuts == <<0>> \o SetToSortSeq({i \in DOMAIN s : s[i] = sep}, <) \o <<Len(s) + 1>>
  IN [k \in 1 .. Len(cuts) - 1 |-> SubSeq(s, cuts[k] + 1, cuts[k + 1] - 1)]

\* sep.join(pieces)
Join(pieces, sep) ==
  IF pieces = <<>> THEN <<>>
  ELSE FoldLeft(LAMBDA acc, p : acc \o <<sep>> \o p, Head(pieces), Tail(pieces))

(***************************************************************************)
(* quote_plus and unquote_plus, per atom: a space becomes "+" and the     *)
(* characters a query string reserves become one escape atom each;        *)
(* decoding maps them back, and "+" to a space.                           *)
(***************************************************************************)
QuoteAtom == ("&" :> "%26") @@ ("=" :> "%3D") @@ ("+" :> "%2B") @@ ("%" :> "%25")
               @@ (" " :> "+")
UnquoteAtom == ("%26" :> "&") @@ ("%3D" :> "=") @@ ("%2B" :> "+") @@ ("%25" :> "%")
                 @@ ("+" :> " ")
QuotePlus(s) == [i \in DOMAIN s |-> IF s[i] \in DOMAIN QuoteAtom THEN QuoteAtom[s[i]] ELSE s[i]]
UnquotePlus(s) == [i \in DOMAIN s |-> IF s[i] \in DOMAIN UnquoteAtom THEN UnquoteAtom[s[i]] ELSE s[i]]

(***************************************************************************)
(* QueryDict(qs) (parse_qsl with keep_blank_values): split on "&", skip   *)
(* empty pieces, split each on its first "=", a piece without "=" gets    *)
(* the empty value; names and values are unquoted.  The result is the    *)
(* list of (key, value) pairs.                                            *)
(***************************************************************************)
QueryDict(qs) ==
  LET pieces == SelectSeq(SplitAll(qs, "&"), LAMBDA p : p # <<>>)
  IN [i \in DOMAIN pieces |->
        LET nv == SplitAt(pieces[i], "=")
        IN IF Len(nv) = 2 THEN <<UnquotePlus(nv[1]), UnquotePlus(nv[2])>>
                          ELSE <<UnquotePlus(nv[1]), <<>>>>]

\* QueryDict.urlencode(): key=value pairs, both quoted, joined with "&".
UrlencodeUnquoted(pairs) ==
  Join([i \in DOMAIN pairs |-> pairs[i][1] \o <<"=">> \o pairs[i][2]], "&")
Urlencode(pairs) ==
  Join([i \in DOMAIN pairs |-> QuotePlus(pairs[i][1]) \o <<"=">> \o QuotePlus(pairs[i][2])], "&")

\* request.GET.get(key) on a parsed query: the last value given, or None.
GetParam(d, key) ==
  LET at == {i \in DOMAIN d : d[i][1] = key}
  IN IF at = {} THEN None ELSE d[Max(at)][2]

(***************************************************************************)
(* _parse_constraints: a word without "=" becomes "word="; a word whose   *)
(* value is exactly "any" is dropped; any other is kept as "key=value".   *)
(* The kept strings are joined with "&" and parsed back by QueryDict.     *)
(***************************************************************************)
WordToConstraintSplitAll(word) ==
  LET parts == SplitAll(word, "=")
  IN IF Len(parts) # 2 THEN <<parts[1] \o <<"=">>>>
     ELSE IF parts[2] # <<"any">> THEN <<parts[1] \o <<"=">> \o parts[2]>>
     ELSE <<>>
WordToConstraint(word) ==
  LET parts == SplitAt(word, "=")
  IN IF Len(parts) # 2 THEN <<parts[1] \o <<"=">>>>
     ELSE IF parts[2] # <<"any">> THEN <<parts[1] \o <<"=">> \o parts[2]>>
     ELSE <<>>

ParseConstraints(words) ==
  QueryDict(Join(FlattenSeq([i \in DOMAIN words |-> WordToConstraint(words[i])]), "&"))

-----------------------------------------------------------------------------
(* Filtering and ordering                                                  *)

(***************************************************************************)
(* AcquireNodeForm.Strict, with the juju field names: an unknown field is *)
(* an error; the zone field takes the last value given for it (QueryDict  *)
(* .get), the empty value meaning no constraint.                          *)
(***************************************************************************)
FormIsValid(d) == \A i \in DOMAIN d : d[i][1] = ZoneKey

ZoneWanted(d) ==
  LET given == {i \in DOMAIN d : d[i][1] = ZoneKey}
  IN IF given = {} THEN <<>> ELSE d[Max(given)][2]

FilterNodes(d, nodes) ==
  LET want == ZoneWanted(d)
  IN SelectSeq(nodes, LAMBDA n : want = <<>> \/ zone[n] = want)

(***************************************************************************)
(* _constrain_nodes: a valid form filters, an invalid one sets            *)
(* query_error and yields no node at all.                                 *)
(***************************************************************************)
ConstrainNodes(d, nodes) ==
  IF FormIsValid(d) THEN [nodes |-> FilterNodes(d, nodes), error |-> "none"]
  ELSE [nodes |-> <<>>, error |-> "invalid"]

(***************************************************************************)
(* Python's sorted(key=..., reverse=...): stable, also when reversed --   *)
(* elements with equal keys keep their order.  key is a function from    *)
(* the elements to numbers.                                                *)
(***************************************************************************)
SortedReversedAfter(s, key, reverse) ==
  LET asc == CHOOSE p \in SetToSeqs(DOMAIN s) :
               \A i \in 1 .. Len(p) - 1 :
                 \/ key[s[p[i]]] < key[s[p[i + 1]]]
                 \/ key[s[p[i]]] = key[s[p[i + 1]]] /\ p[i] < p[i + 1]
      up == [i \in DOMAIN s |-> s[asc[i]]]
  IN IF reverse THEN Reverse(up) ELSE up
StableSorted(s, key, reverse) ==
  LET p == CHOOSE p \in SetToSeqs(DOMAIN s) :
             \A i \in 1 .. Len(p) - 1 :
               \/ IF reverse THEN key[s[p[i]]] > key[s[p[i + 1]]]
                             ELSE key[s[p[i]]] < key[s[p[i + 1]]]
               \/ key[s[p[i]]] = key[s[p[i + 1]]] /\ p[i] < p[i + 1]
  IN [i \in DOMAIN s |-> s[p[i]]]

\* configure_macs: the node's MACs by creation time; the first is primary.
PrimaryMac(n) ==
  LET own == SelectSeq(MacsByAge, LAMBDA m : macOwner[m] = n)
  IN IF own = <<>> THEN None ELSE Head(own)

(***************************************************************************)
(* The sort key of a node for field f, as a number: hostname and zone by  *)
(* their order, primary_mac by its address with None first (Python 2      *)
(* orders None before any string).                                        *)
(***************************************************************************)
FieldKey(f, n) ==
  CASE f = "hostname"    -> hostname[n]
    [] f = "zone"        -> ZoneRank[zone[n]]
    [] f = "primary_mac" -> IF PrimaryMac(n) = None THEN 0
                            ELSE 1 + MacAddrRank[PrimaryMac(n)]

(***************************************************************************)
(* _compose_sort_order and order_by: the requested field when it is a     *)
(* database sort field (descending when dir is "desc"), then -created.    *)
(***************************************************************************)
OrderedNodes ==
  LET byAge == StableSorted(SetToSeq(visible), created, TRUE)
  IN IF sortBy \in SortFields
     THEN StableSorted(byAge, [n \in Nodes |-> FieldKey(sortBy, n)], sortDir = "desc")
     ELSE byAge

\* late_sort: a late sort field is sorted in Python after the query ran.
LateSort(nodes) ==
  IF sortBy \in LateSortFields
  THEN StableSorted(nodes, [n \in Nodes |-> FieldKey(sortBy, n)], sortDir = "desc")
  ELSE nodes

(***************************************************************************)
(* _prepare_sort_links: every column header links to the same page sorted *)
(* by that column; the header of the current column asks for the reverse *)
(* of sort_dir ("asc" unless sort_dir is "desc"), every other for "asc".  *)
(* The CSS classes are presentation and left out.                         *)
(***************************************************************************)
PrepareSortLinksKeepDir ==
  LET reverse_dir == IF sortDir = "asc" THEN "asc" ELSE "desc"
  IN [f \in SortFields \cup LateSortFields |-> IF f = sortBy THEN reverse_dir ELSE "asc"]
PrepareSortLinks ==
  LET reverse_dir == IF sortDir = "desc" THEN "asc" ELSE "desc"
  IN [f \in SortFields \cup LateSortFields |-> IF f = sortBy THEN reverse_dir ELSE "asc"]

(***************************************************************************)
(* The query string of a header link: request.GET.copy() -- the search    *)
(* query as typed, its words separated by spaces, when one was given --   *)
(* with sort set to the column and dir to the link's direction, then     *)
(* params.urlencode().  The link of column f is "?" and this string; the  *)
(* links are determined by the request, so they are not kept in a         *)
(* variable of their own.                                                 *)
(***************************************************************************)
SortLinkQueryString(f) ==
  LET given == IF query # <<>> THEN <<<<<<"query">>, Join(query, " ")>>>> ELSE <<>>
  IN Urlencode(given \o <<<<<<"sort">>, <<f>>>>, <<<<"dir">>, <<PrepareSortLinks[f]>>>>>>)

\* The search query the next GET reads from the link of column f.
LinkQuery(f) == GetParam(QueryDict(SortLinkQueryString(f)), <<"query">>)

-----------------------------------------------------------------------------
Init ==
  /\ created \in {f \in [Nodes -> 1 .. Cardinality(Nodes)] : IsInjective(f)}
  /\ hostname \in [Nodes -> HostNames]
  /\ zone \in [Nodes -> Zones]
  /\ macOwner \in [Macs -> Nodes \cup {None}]
  /\ visible \in SUBSET Nodes
  /\ query \in Queries
  /\ sortBy \in SortParams
  /\ sortDir \in DirParams
  /\ data = <<>>
  /\ listing = <<>>
  /\ queryError = "none"
  /\ handled = FALSE
  /\ sortLinks = [f \in SortFields \cup LateSortFields |-> None]

(***************************************************************************)
(* NodeListView.get: get_queryset (visible nodes, database order, search  *)
(* constraints when a query was given), then late_sort in                 *)
(* get_context_data.                                                      *)
(***************************************************************************)
HandleGet ==
  /\ ~handled
  /\ LET d  == IF query # <<>> THEN ParseConstraints(query) ELSE <<>>
         c  == IF query # <<>> THEN ConstrainNodes(d, OrderedNodes)
               ELSE [nodes |-> OrderedNodes, error |-> "none"]
     IN /\ data' = d
        /\ listing' = LateSort(c.nodes)
        /\ queryError' = c.error
  /\ handled' = TRUE
  /\ sortLinks' = PrepareSortLinks
  /\ UNCHANGED <<created, hostname, zone, macOwner, visible, query, sortBy, sortDir>>

\* The page has been rendered.
Rendered == handled /\ UNCHANGED vars

Next == HandleGet \/ Rendered

Spec == Init /\ [][Next]_vars

-----------------------------------------------------------------------------
TypeOK ==
  /\ created \in [Nodes -> 1 .. Cardinality(Nodes)]
  /\ macOwner \in [Macs -> Nodes \cup {None}]
  /\ visible \subseteq Nodes
  /\ listing \in Seq(visible)
  /\ queryError \in {"none", "invalid"}
  /\ handled \in BOOLEAN

(***************************************************************************)
(* What the docstring of _parse_constraints and the spec (section 4.5)    *)
(* say the constraints are: one pair per word, in order; a word without   *)
(* "=" is the key with the empty value; a word is split at its first "="; *)
(* a word whose value is "any" gives nothing.                             *)
(***************************************************************************)
AsWritten(words) ==
  FlattenSeq([i \in DOMAIN words |->
    LET w == words[i]
        eq == SelectInSeq(w, LAMBDA c : c = "=")
    IN IF eq = 0 THEN <<<<w, <<>>>>>>
       ELSE IF SubSeq(w, eq + 1, Len(w)) = <<"any">> THEN <<>>
       ELSE <<<<SubSeq(w, 1, eq - 1), SubSeq(w, eq + 1, Len(w))>>>>])

(***************************************************************************)
(* The QueryDict built by joining the constraints with "&" and parsing    *)
(* them again holds exactly the constraints the user wrote, in order --   *)
(* bare keys included, values containing "=" intact.                      *)
(***************************************************************************)
ParsedAsWritten ==
  handled /\ query # <<>> => data = AsWritten(query)

(***************************************************************************)
(* The docstring's juju rule: a constraint whose value is "any" never     *)
(* reaches AcquireNodeForm.                                               *)
(***************************************************************************)
AnyNeverForwarded ==
  handled => \A i \in DOMAIN data : data[i][2] # <<"any">>

(***************************************************************************)
(* The listing is ordered by the requested column, in the requested       *)
(* direction, and nodes equal in that column appear newest first          *)
(* (_compose_sort_order's tie-breaker) -- also when the column is sorted  *)
(* late, in Python, after the database ordered the rows.                  *)
(***************************************************************************)
ListingOrdered ==
  handled =>
    \A i \in 1 .. Len(listing) - 1 :
      LET a == listing[i]  b == listing[i + 1]
      IN IF sortBy \in SortFields \cup LateSortFields
         THEN \/ IF sortDir = "desc" THEN FieldKey(sortBy, a) > FieldKey(sortBy, b)
                                     ELSE FieldKey(sortBy, a) < FieldKey(sortBy, b)
              \/ FieldKey(sortBy, a) = FieldKey(sortBy, b) /\ created[a] > created[b]
         ELSE created[a] > created[b]

(***************************************************************************)
(* Clicking the header of the column the listing is sorted by shows it    *)
(* the other way round: when the listing's first and last nodes differ in *)
(* that column, the link asks for "desc" exactly when the listing is      *)
(* ascending -- whatever dir parameter (none, junk, asc, desc) produced   *)
(* the listing and whether the column is sorted by the database or late  *)
(* in Python.  Every other header asks for "asc".                         *)
(***************************************************************************)
SortLinkFlipsListing ==
  handled =>
    \A f \in SortFields \cup LateSortFields :
      IF f # sortBy THEN sortLinks[f] = "asc"
      ELSE Len(listing) >= 2 =>
             LET first == FieldKey(f, listing[1])
                 last  == FieldKey(f, listing[Len(listing)])
             IN first # last => (sortLinks[f] = "desc" <=> first < last)

(***************************************************************************)
(* Every column header's link keeps the search query exactly as typed:   *)
(* the next GET reads back the same words, "+", "=" and spaces included,  *)
(* so re-sorting never changes which nodes are listed.                    *)
(***************************************************************************)
SortLinksKeepQuery ==
  handled /\ query # <<>> =>
    \A f \in SortFields \cup LateSortFields : LinkQuery(f) = Join(query, " ")
=============================================================================
