SPECIFICATION Spec
CONSTANTS
  MemWords = 3
  PageBytes = 8
  BlockLen = 2
  Ops = {"op"}
  Jumps = {"jump"}
  PCs <- Overlapping
  CompileRoom = 2
  CodeRoom = 1
  Waterline = 2
  Unprotected = TRUE
INVARIANTS WatchedCodeIsFresh
