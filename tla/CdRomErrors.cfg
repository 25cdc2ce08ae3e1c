SPECIFICATION Spec
CONSTANTS
  Disk = FALSE
  Tracks <- TwoTracks
  XaSectors <- MCXa
  Opcodes = {"nop", "gettn", "gettd", "test", "getid", "unhandled", "setfilter", "readtoc", "play", "seekl"}
  Bytes = {32, 153}
  Masks <- MCMasks
  CpuMasks <- MCCpuMasks
  Acks <- AnyFlags
  FifoSize = 2
  ReportFrames = 2
INVARIANTS IrqRegistersAgree
CHECK_DEADLOCK FALSE
