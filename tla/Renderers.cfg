SPECIFICATION Spec
CONSTANTS
    left = left
    right = right
    Cells = {left, right}
    Areas <- MCAreas
    ResetArea <- MCResetArea
    Masks <- MCMasks
    Blendings = {"opaque", "subtract"}
    Room = 3
    MaxTriangles = 3
INVARIANTS ComputeKeepsUp BatchesAreTrue
PROPERTIES ShownAsDrawn
