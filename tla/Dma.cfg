SPECIFICATION Spec
CONSTANTS
    BlockLen = 3
    ColourPixels = 4
    MonoWords = 2
    TableWords = 1
    ParamWrap = 8
    Frame <- FrameWords
    Table = 3
    Packets = {10, 11}
    Maddrs <- AddressesOf
    BlockControls <- BlocksOf
    Controls <- ControlsOf
    Enables <- AllEnables
    DicrStores <- AllDicr
    MdecStores <- GuestWords
    MdecControls <- GuestControls
CONSTRAINT KeepsTo
INVARIANTS RequestsAgree OutputsDrain
PROPERTIES DrawOrder MasterRaisesEdge
