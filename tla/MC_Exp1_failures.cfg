\* Small and non-square grids, short buffers: every failure of the script.
CONSTANTS
    Den = 4
    Dp = 4
    MaxSteps = 4
    BufCap = 2
    Missing = Missing
    Inputs <- MCInputs
    MCShapes <- ShapesSmall
    MCTsLens = {5, 6}
SPECIFICATION Spec
INVARIANT
    FailuresLeaveNoOutput
CHECK_DEADLOCK FALSE
