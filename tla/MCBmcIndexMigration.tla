------------------------ MODULE MCBmcIndexMigration ------------------------
(***************************************************************************)
(* Model values for BmcIndexMigration: md5 is injective on the payloads   *)
(* (no collision among the few payloads of a run).                        *)
(***************************************************************************)
EXTENDS BmcIndexMigration

MCMD5 == [p \in {"small", "large"} |-> IF p = "small" THEN "d1" ELSE "d2"]
=============================================================================
