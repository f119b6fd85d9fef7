\* A zero thickness cell sampled by a profile (spec 8 scenario).
CONSTANTS
    Den = 4
    Dp = 4
    MaxSteps = 4
    BufCap = 5
    Missing = Missing
    Inputs <- MCInputs
    MCShapes <- ShapesSquare7
    MCTsLens = {6}
SPECIFICATION Spec
INVARIANT
    ProfileZeroIsMissing
CHECK_DEADLOCK FALSE
