\* The readers of documents, requests and archives stop when they are done.
SPECIFICATION AnySpec
CONSTANTS
  Kinds = {"btree3", "btree5", "tree", "set", "sorted"}
  Keys <- MCKeys
  MaxSize <- MCMaxSize
  MaxNulls = 12
  Careful = TRUE
INVARIANTS
  ContentsExact
  Findable
  Balanced
  ReadBackExact
CHECK_DEADLOCK FALSE
