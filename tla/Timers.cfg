SPECIFICATION Spec
CONSTANTS
  Which = 0
  Regular <- MCRegular
  Top = 2
  Word = 64
  Line = 3
  DotDivider = 2
  CpuDivider = 2
  Modes <- MCModes
  Stored = {4}
  Blocks = {2}
  HBlankBound = 0
  ElapsedBound = 20
INVARIANTS QueueSound TargetOnTime
PROPERTIES EventsRecur
