SPECIFICATION HostSpec
CONSTANTS
  Disk = TRUE
  Tracks <- TwoTracks
  XaSectors <- MCXa
  Opcodes = {"readn", "gettn", "pause", "stop", "nop"}
  Bytes = {}
  Masks = {}
  CpuMasks = {}
  Acks <- AllFlags
  FifoSize = 3
  ReportFrames = 2
  StatFirst = TRUE
INVARIANTS NoLostEdge
PROPERTIES CommandsFinish QueuedCommandsStart
CHECK_DEADLOCK FALSE
