SPECIFICATION Spec
CONSTANTS
    Opcodes <- MCOpcodes
    Areas = {0, 1}
    MaskValues = {0, 1}
    Images <- MCImages
    WholeVram <- MCWholeVram
    Renderer = "compute"
    Capacity = 2
    FullFrames = 1
INVARIANTS HandlersHaveTheirWords AnswersMatch ReadsAreServed RendererFollows
PROPERTIES WaitsEnd
