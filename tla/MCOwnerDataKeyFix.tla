------------------------ MODULE MCOwnerDataKeyFix ------------------------
(* Model-checking instance of OwnerDataKeyFix: two nodes, three rows and  *)
(* an alphabet with one letter, the allowed punctuation "-" and "_", and  *)
(* one disallowed character "!".  Keys of length two already let three    *)
(* rows of one node sanitize to the same key ("!!", "!_", "_!" -> "__").  *)
EXTENDS OwnerDataKeyFix

MCChars == {"a", "-", "_", "!"}
MCWordChars == {"a", "-", "_"}
=============================================================================
