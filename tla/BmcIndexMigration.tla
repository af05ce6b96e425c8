------------------------- MODULE BmcIndexMigration -------------------------
(***************************************************************************)
(* Schema migration maasserver 0245_bmc_power_parameters_index_hash, run   *)
(* by `migrate` while the region keeps saving BMC rows.  Its four          *)
(* operations run in order:                                                *)
(*   1. AlterField power_type with db_index=True  (CREATE INDEX)           *)
(*   2. AddIndex HashIndex(power_parameters)      (CREATE INDEX ... hash)  *)
(*   3. RunSQL DROP INDEX maasserver_bmc_power_type_parameters_idx         *)
(*   4. RunSQL CREATE UNIQUE INDEX maasserver_bmc_power_type_parameters_idx*)
(*      ON (power_type, md5(power_parameters::text))                       *)
(*      WHERE power_type != 'manual'                                       *)
(* On PostgreSQL a Django migration is one transaction (Migration.atomic   *)
(* defaults to True): each CREATE/DROP INDEX locks the table against       *)
(* writes until the commit, and a failing statement or a crash rolls all   *)
(* of it back, after which `migrate` runs it again from the start.         *)
(*                                                                         *)
(* The index being replaced is from an earlier migration, not in this      *)
(* tree: per the spec (section 6) it is the same partial unique index on   *)
(* the raw (power_type, power_parameters), whose btree entries cannot hold *)
(* a large payload -- the reason given in the migration's comment.         *)
(***************************************************************************)
EXTENDS Naturals, FiniteSets

CONSTANTS
  Bmcs,         \* BMC row ids
  PowerTypes,   \* power_type values; "manual" is one of them
  Params,       \* power_parameters payloads
  Big,          \* payloads too large for a btree index entry
  MD5,          \* md5(power_parameters::text): Params -> digests
  None,         \* no row
  MaxSaves,     \* bound on the BMC saves other sessions make
  MaxCrashes    \* bound on crashes of the migrate process

ASSUME /\ "manual" \in PowerTypes /\ Big \subseteq Params
       /\ MaxSaves \in Nat /\ MaxCrashes \in Nat

Value == [ptype : PowerTypes, params : Params]

\* Index names: the old and new unique index share one name in the code.
IndexNames == {"raw", "ptype", "phash", "md5"}

VARIABLES
  bmc,       \* maasserver_bmc: row id -> Value or None
  indexes,   \* indexes on maasserver_bmc visible to the next statement
  mstate,    \* migrate: "idle", "running", "committed" or "failed"
  step,      \* the next of the four operations to run
  snapshot,  \* the indexes when the transaction began (for the rollback)
  crashes,   \* crashes of the migrate process so far
  saves,     \* saves other sessions made so far
  lastSave,  \* the last save: [row, value, result]
  migratedAtSave \* history: the migration had committed when the last save ran

vars == <<bmc, indexes, mstate, step, snapshot, crashes, saves, lastSave, migratedAtSave>>

\* Migration.atomic: Django's default for a migration on PostgreSQL.
AtomicOff == FALSE
Atomic == TRUE

\* The partial-index predicate WHERE (power_type != 'manual').
ConstrainedAll(v) == TRUE
Constrained(v) == v.ptype # "manual"

RawKey(v) == <<v.ptype, v.params>>
Md5Key(v) == <<v.ptype, MD5[v.params]>>
IndexKey(v, md5) == IF md5 THEN Md5Key(v) ELSE RawKey(v)

\* Rows other than b that the unique index (md5 or raw) makes collide with v.
Clash(b, v, md5) ==
  {o \in Bmcs \ {b} : bmc[o] # None /\ Constrained(bmc[o])
                     /\ IndexKey(bmc[o], md5) = IndexKey(v, md5)}

(***************************************************************************)
(* Whether the unique indexes present accept saving v into row b: the raw  *)
(* index refuses a duplicate and a payload too large for its entry; the    *)
(* md5 index refuses a duplicate digest.  Rows the predicate excludes are  *)
(* not indexed.                                                            *)
(***************************************************************************)
Accepts(ix, b, v) ==
  /\ "raw" \in ix /\ Constrained(v) =>
       v.params \notin Big /\ Clash(b, v, FALSE) = {}
  /\ "md5" \in ix /\ Constrained(v) => Clash(b, v, TRUE) = {}

\* The table's writers wait while the migration's transaction holds a lock.
Locked == Atomic /\ mstate = "running" /\ step > 1

Init ==
  /\ bmc \in {f \in [Bmcs -> Value \cup {None}] :
                \A b \in Bmcs : f[b] # None =>
                  /\ Constrained(f[b]) => f[b].params \notin Big
                  /\ \A o \in Bmcs \ {b} :
                       f[o] # None /\ Constrained(f[o]) /\ Constrained(f[b])
                         => RawKey(f[o]) # RawKey(f[b])}
  /\ indexes = {"raw"}
  /\ mstate = "idle"
  /\ step = 1
  /\ snapshot = {"raw"}
  /\ crashes = 0
  /\ saves = 0
  /\ lastSave = [row |-> None, value |-> None, result |-> "none"]
  /\ migratedAtSave = FALSE

-----------------------------------------------------------------------------
(* Other sessions                                                         *)

\* A BMC row is saved (inserted or updated), or refused by a unique index.
Save(b, v) ==
  /\ ~Locked /\ saves < MaxSaves
  /\ IF Accepts(indexes, b, v)
     THEN bmc' = [bmc EXCEPT ![b] = v] /\ lastSave' = [row |-> b, value |-> v, result |-> "saved"]
     ELSE UNCHANGED bmc /\ lastSave' = [row |-> b, value |-> v, result |-> "rejected"]
  /\ migratedAtSave' = (mstate = "committed")
  /\ saves' = saves + 1
  /\ UNCHANGED <<indexes, mstate, step, snapshot, crashes>>

-----------------------------------------------------------------------------
(* migrate                                                                 *)

\* The executor begins the migration (and its transaction).
Begin ==
  /\ mstate = "idle"
  /\ mstate' = "running" /\ step' = 1 /\ snapshot' = indexes
  /\ UNCHANGED <<bmc, indexes, crashes, saves, lastSave, migratedAtSave>>

(***************************************************************************)
(* Operation i on the indexes ix: the indexes after it, or None when the  *)
(* statement fails (CREATE of an index that exists, DROP of one that does *)
(* not, a unique index the rows already violate).                         *)
(***************************************************************************)
Operation(i, ix) ==
  CASE i = 1 -> IF "ptype" \in ix THEN None ELSE ix \cup {"ptype"}
    [] i = 2 -> IF "phash" \in ix THEN None ELSE ix \cup {"phash"}
    [] i = 3 -> IF "raw" \notin ix THEN None ELSE ix \ {"raw"}
    [] i = 4 -> IF "md5" \in ix \/ \E b \in Bmcs : bmc[b] # None /\ Clash(b, bmc[b], TRUE) # {}
                THEN None ELSE ix \cup {"md5"}

\* The statement fails: a transaction is rolled back, an autocommitted one is not.
Abort(final) ==
  /\ indexes' = IF Atomic THEN snapshot ELSE indexes
  /\ mstate' = final

RunOperation ==
  /\ mstate = "running" /\ step \in 1..4
  /\ IF Operation(step, indexes) = None
     THEN Abort("failed") /\ UNCHANGED step
     ELSE indexes' = Operation(step, indexes) /\ step' = step + 1 /\ UNCHANGED mstate
  /\ UNCHANGED <<bmc, snapshot, crashes, saves, lastSave, migratedAtSave>>

\* All four operations done: the migration is recorded and committed.
Commit ==
  /\ mstate = "running" /\ step = 5
  /\ mstate' = "committed"
  /\ UNCHANGED <<bmc, indexes, step, snapshot, crashes, saves, lastSave, migratedAtSave>>

\* The migrate process dies mid-way; the next `migrate` starts it over.
Crash ==
  /\ mstate = "running" /\ crashes < MaxCrashes
  /\ Abort("idle")
  /\ crashes' = crashes + 1
  /\ UNCHANGED <<bmc, step, snapshot, saves, lastSave, migratedAtSave>>

\* Nothing is left to do.
Quiescent ==
  /\ mstate \in {"committed", "failed"} /\ saves = MaxSaves
  /\ UNCHANGED vars

MigrateStep == Begin \/ RunOperation \/ Commit

Next ==
  \/ \E b \in Bmcs, v \in Value : Save(b, v)
  \/ MigrateStep
  \/ Crash
  \/ Quiescent

(***************************************************************************)
(* `migrate` runs to completion unless its process is killed (bounded by  *)
(* MaxCrashes) and it is never blocked by the writers, which wait on its   *)
(* locks: its steps are weakly fair.  Saves need not happen.               *)
(***************************************************************************)
Spec == Init /\ [][Next]_vars /\ WF_vars(MigrateStep)

-----------------------------------------------------------------------------
TypeOK ==
  /\ bmc \in [Bmcs -> Value \cup {None}]
  /\ indexes \subseteq IndexNames
  /\ mstate \in {"idle", "running", "committed", "failed"}
  /\ step \in 1..5

(***************************************************************************)
(* Two BMCs that are not "manual" never have the same power type and      *)
(* power parameters, however the migration's statements, a crash of the  *)
(* migrate process and the region's saves interleave: there is no moment  *)
(* between the DROP INDEX and the CREATE UNIQUE INDEX in which a          *)
(* duplicate gets in.                                                      *)
(***************************************************************************)
NoDuplicateBmcs ==
  \A b, o \in Bmcs :
    b # o /\ bmc[b] # None /\ bmc[o] # None /\ Constrained(bmc[b]) /\ Constrained(bmc[o])
      => RawKey(bmc[b]) # RawKey(bmc[o])

(***************************************************************************)
(* What the migration is for: once it has committed, saving a BMC is      *)
(* refused only when another non-manual BMC of the same power type has    *)
(* the same parameters -- never because the payload is large, and never   *)
(* for manual BMCs.                                                        *)
(***************************************************************************)
SaveRejectedOnlyForDuplicate ==
  migratedAtSave /\ lastSave.result = "rejected" =>
    LET v == lastSave.value
    IN /\ v.ptype # "manual"
       /\ \E b \in Bmcs \ {lastSave.row} : bmc[b] # None /\ RawKey(bmc[b]) = RawKey(v)

(***************************************************************************)
(* The migration is eventually applied, whatever crash (within the bound) *)
(* interrupts it: a re-run after a crash starts from the old schema.      *)
(***************************************************************************)
MigrationEventuallyApplied == <>(mstate = "committed")
=============================================================================
