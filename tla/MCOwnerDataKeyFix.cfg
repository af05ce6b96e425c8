\* Keys of length 1..2: the migration over every legal starting table.
CONSTANTS
  Nodes = {n1, n2}
  Entries = {e1, e2, e3}
  Chars <- MCChars
  WordChars <- MCWordChars
  MinKeyLen = 1
  MaxKeyLen = 2
SPECIFICATION Spec
INVARIANTS
  TypeOK
  KeysUniquePerNode
  NodeKeysMirrorDb
  AllKeysMatchWhenDone
  KeyGrowthBounded
