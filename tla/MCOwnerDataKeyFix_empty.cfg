\* Keys of length 0..1: an empty key is stored before the migration runs.
CONSTANTS
  Nodes = {n1, n2}
  Entries = {e1, e2, e3}
  Chars <- MCChars
  WordChars <- MCWordChars
  MinKeyLen = 0
  MaxKeyLen = 1
SPECIFICATION Spec
INVARIANT AllKeysMatchWhenDone
