SPECIFICATION Spec
CONSTANTS
    Ports = {0}
    SectorLen = 2
    File <- CardFile
    Sectors = {0, 1}
    Bytes = {0, 1, 66, 129, 82, 83, 87}
    Data = {1}
    Controls <- ControlSet
    FifoLen = 1
    BitXor <- MCXor
CONSTRAINT TakesInOrder
INVARIANTS ReadsAreTrue OneMissAtMost
PROPERTIES WritesAreWhole
