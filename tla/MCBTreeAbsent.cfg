\* A client that may remove a key that is not in the tree.
SPECIFICATION Spec
CONSTANTS
  Kinds = {"btree3"}
  Keys <- MCKeys
  MaxSize <- MCMaxSize
  MaxNulls = 12
  Careful = FALSE
INVARIANT ContentsExact
CHECK_DEADLOCK FALSE
