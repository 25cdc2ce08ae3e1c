SPECIFICATION Spec
CONSTANTS
  MemWords = 2
  PageBytes = 4
  BlockLen = 1
  Ops = {"op"}
  Jumps = {"jump"}
  PCs <- ThreePlaces
  CompileRoom = 1
  CodeRoom = 1
  Waterline = 2
  Unprotected = FALSE
INVARIANTS NoDanglingCode SomeChannelHasRoom WatchedCodeIsFresh
PROPERTIES RequestsAnswered CollectionsEnd
