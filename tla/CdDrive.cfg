SPECIFICATION DriveSpec
CONSTANTS
  Disk = TRUE
  Tracks <- TwoTracks
  XaSectors <- MCXa
  Opcodes = {"setloc", "readn", "pause", "seekl", "stop", "play", "setmode", "init"}
  Bytes = {0, 1, 70}
  Masks = {}
  CpuMasks = {}
  Acks <- SomeFlags
  FifoSize = 3
  ReportFrames = 2
INVARIANTS TypeOK QueuedCommandHasWaker
PROPERTIES NoInterruptOverwritten SectorsAreAnnounced ImplementsProtocol
CONSTRAINT KeepsTo
CHECK_DEADLOCK FALSE
