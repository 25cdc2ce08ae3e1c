SPECIFICATION Spec
CHECK_DEADLOCK FALSE
CONSTANTS
    ByteBits = 2
    Reg = {0, 1, 2, 31}
    GteCommand <- GteStep
    HandlerBoot = 192
    HandlerCompiled = 224
    HandlerRam = 160
    Starts <- StartStates
    Code <- CodeAt
    Slot <- SlotAt
    BlockLen = 3
INVARIANTS BlocksAgree CyclesAgree PartingsConfined
