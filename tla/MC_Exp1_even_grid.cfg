\* An 8x8 grid, which has no centre cell (spec 4.2).
CONSTANTS
    Den = 4
    Dp = 4
    MaxSteps = 6
    BufCap = 6
    Missing = Missing
    Inputs <- MCInputs
    MCShapes <- ShapesEven
    MCTsLens = {6}
SPECIFICATION Spec
INVARIANT
    EvenGridRejected
CHECK_DEADLOCK FALSE
