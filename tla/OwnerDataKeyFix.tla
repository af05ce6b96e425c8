-------------------------- MODULE OwnerDataKeyFix --------------------------
(***************************************************************************)
(* Data migration maasserver 0240_ownerdata_key_fix, function             *)
(* fix_ownerdata_keys.  Every OwnerData row whose key does not match      *)
(* ^[\w.-]+$ is rewritten: each disallowed character becomes "_", and     *)
(* "_" is appended until the key is unique among the keys of the same     *)
(* node.  The rows are visited in the order of an unordered query, so the *)
(* model lets the migration pick any pending row next.                    *)
(*                                                                         *)
(* A key is a sequence over a small alphabet Chars; WordChars are the     *)
(* characters that both [\w.-] (Postgres, the exclude() filter) and the   *)
(* complement of REPLACE_RE (Python) accept.                              *)
(***************************************************************************)
EXTENDS Naturals, Sequences, SequencesExt, FiniteSets

CONSTANTS
  Nodes,       \* nodes that own metadata
  Entries,     \* OwnerData rows
  Chars,       \* the alphabet keys are written in
  WordChars,   \* characters matching [\w.-]
  MinKeyLen,   \* shortest key present before the migration
  MaxKeyLen    \* longest key present before the migration

ASSUME /\ WordChars \subseteq Chars
       /\ "_" \in WordChars
       /\ Chars \ WordChars # {}
       /\ MinKeyLen \in Nat /\ MaxKeyLen \in Nat /\ MinKeyLen <= MaxKeyLen

VARIABLES
  node,        \* OwnerData.node_id of each row (never written)
  key,         \* OwnerData.key of each row, as stored in the database
  origKey,     \* history: each row's key before the migration ran
  nodeKeys,    \* existing_node_keys: node -> set of keys in use
  pending,     \* rows of the exclude() query not yet visited
  pc           \* "start", "loop" or "done"

vars == <<node, key, origKey, nodeKeys, pending, pc>>

Key == {k \in BoundedSeq(Chars, MaxKeyLen) : Len(k) >= MinKeyLen}

\* Rows that belong to node n.
RowsOf(n) == {e \in Entries : node[e] = n}

(***************************************************************************)
(* Postgres: key__regex=r"^[\w.-]+$" -- at least one character, every    *)
(* character in [\w.-].                                                   *)
(***************************************************************************)
Matches(k) ==
  Len(k) >= 1 /\ \A i \in 1..Len(k) : k[i] \in WordChars

(***************************************************************************)
(* Python: REPLACE_RE.sub("_", key) with REPLACE_RE = [^\w.-].            *)
(***************************************************************************)
SanitizeFirstOnly(k) ==
  LET bad == {i \in 1..Len(k) : k[i] \notin WordChars}
  IN IF bad = {} THEN k
     ELSE LET j == CHOOSE i \in bad : \A m \in bad : i <= m
          IN [k EXCEPT ![j] = "_"]
Sanitize(k) ==
  [i \in 1..Len(k) |-> IF k[i] \in WordChars THEN k[i] ELSE "_"]

(***************************************************************************)
(* while new_key in node_keys: new_key += "_"                             *)
(***************************************************************************)
DedupOnce(k, used) == IF k \in used THEN k \o <<"_">> ELSE k
RECURSIVE Dedup(_, _)
Dedup(k, used) == IF k \in used THEN Dedup(k \o <<"_">>, used) ELSE k

(***************************************************************************)
(* Rows before the migration: OwnerData has unique_together (node, key),  *)
(* so the keys of one node are distinct.                                  *)
(***************************************************************************)
Init ==
  /\ node \in [Entries -> Nodes]
  /\ key \in [Entries -> Key]
  /\ \A e1, e2 \in Entries : e1 # e2 /\ node[e1] = node[e2] => key[e1] # key[e2]
  /\ origKey = key
  /\ nodeKeys = [n \in Nodes |-> {}]
  /\ pending = {}
  /\ pc = "start"

(***************************************************************************)
(* Build existing_node_keys from ArrayAgg("key") grouped by node, then    *)
(* evaluate the exclude() query that the loop iterates over.              *)
(***************************************************************************)
CollectKeysIds ==
  /\ pc = "start"
  /\ nodeKeys' = [n \in Nodes |-> RowsOf(n)]
  /\ pending' = {e \in Entries : ~Matches(key[e])}
  /\ pc' = "loop"
  /\ UNCHANGED <<node, key, origKey>>
CollectKeys ==
  /\ pc = "start"
  /\ nodeKeys' = [n \in Nodes |-> {key[e] : e \in RowsOf(n)}]
  /\ pending' = {e \in Entries : ~Matches(key[e])}
  /\ pc' = "loop"
  /\ UNCHANGED <<node, key, origKey>>

(***************************************************************************)
(* One iteration of the loop body: drop the old key from the node's set,  *)
(* sanitize, append "_" until free, record the new key and save the row.  *)
(***************************************************************************)
FixEntryKeepOld(e) ==
  /\ pc = "loop"
  /\ e \in pending
  /\ LET n       == node[e]
         new_key == Dedup(Sanitize(key[e]), nodeKeys[n])
     IN /\ nodeKeys' = [nodeKeys EXCEPT ![n] = @ \cup {new_key}]
        /\ key' = [key EXCEPT ![e] = new_key]
  /\ pending' = pending \ {e}
  /\ UNCHANGED <<node, origKey, pc>>
FixEntryAllNodes(e) ==
  /\ pc = "loop"
  /\ e \in pending
  /\ LET n       == node[e]
         others  == UNION {nodeKeys[m] : m \in Nodes} \ {key[e]}
         new_key == Dedup(Sanitize(key[e]), others)
     IN /\ nodeKeys' = [nodeKeys EXCEPT ![n] = (nodeKeys[n] \ {key[e]}) \cup {new_key}]
        /\ key' = [key EXCEPT ![e] = new_key]
  /\ pending' = pending \ {e}
  /\ UNCHANGED <<node, origKey, pc>>
FixEntry(e) ==
  /\ pc = "loop"
  /\ e \in pending
  /\ LET n       == node[e]
         others  == nodeKeys[n] \ {key[e]}
         new_key == Dedup(Sanitize(key[e]), others)
     IN /\ nodeKeys' = [nodeKeys EXCEPT ![n] = others \cup {new_key}]
        /\ key' = [key EXCEPT ![e] = new_key]
  /\ pending' = pending \ {e}
  /\ UNCHANGED <<node, origKey, pc>>

LoopExit ==
  /\ pc = "loop"
  /\ pending = {}
  /\ pc' = "done"
  /\ UNCHANGED <<node, key, origKey, nodeKeys, pending>>

\* The migration has returned; the database stays as it left it.
Terminated == pc = "done" /\ UNCHANGED vars

Next ==
  \/ CollectKeys
  \/ \E e \in Entries : FixEntry(e)
  \/ LoopExit
  \/ Terminated

Spec == Init /\ [][Next]_vars /\ WF_vars(Next)

-----------------------------------------------------------------------------
TypeOK ==
  /\ node \in [Entries -> Nodes]
  /\ key \in [Entries -> Seq(Chars)]
  /\ origKey \in [Entries -> Key]
  /\ nodeKeys \in [Nodes -> SUBSET Seq(Chars)]
  /\ pending \subseteq Entries
  /\ pc \in {"start", "loop", "done"}

(***************************************************************************)
(* Every entry.save() leaves the keys of each node pairwise distinct: the *)
(* unique (node, key) constraint is never hit, whatever order the         *)
(* unordered query yields the rows in and however many rows of one node   *)
(* sanitize to the same key.                                              *)
(***************************************************************************)
KeysUniquePerNode ==
  \A e1, e2 \in Entries :
    e1 # e2 /\ node[e1] = node[e2] => key[e1] # key[e2]

(***************************************************************************)
(* existing_node_keys, computed once before the loop, stays an exact      *)
(* copy of the keys stored for each node after every save: the old key of *)
(* a row is released and its new key claimed in the same iteration, so   *)
(* the collision test of later rows never works from stale keys.          *)
(***************************************************************************)
NodeKeysMirrorDb ==
  pc = "loop" => \A n \in Nodes : nodeKeys[n] = {key[e] : e \in RowsOf(n)}

(***************************************************************************)
(* When the migration returns, every OwnerData key matches ^[\w.-]+$ --   *)
(* the pattern the migration filters on and that the spec promises for    *)
(* all owner-metadata keys afterwards.                                    *)
(***************************************************************************)
AllKeysMatchWhenDone ==
  pc = "done" => \A e \in Entries : Matches(key[e])


(***************************************************************************)
(* The appended "_" never lengthen a key by as many characters as its     *)
(* node has rows: the while loop only steps past keys of the same node,   *)
(* whatever order the rows are visited in.  This is the headroom the      *)
(* OwnerData.key column needs for the save at the end of each iteration   *)
(* to succeed.                                                            *)
(***************************************************************************)
KeyGrowthBounded ==
  \A e \in Entries : Len(key[e]) < Len(origKey[e]) + Cardinality(RowsOf(node[e]))
=============================================================================
