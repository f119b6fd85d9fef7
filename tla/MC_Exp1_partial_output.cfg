\* A failed netCDF write after the file is created (spec 7).
CONSTANTS
    Den = 4
    Dp = 3
    MaxSteps = 4
    BufCap = 5
    Missing = Missing
    Inputs <- MCInputs
    MCShapes <- ShapesSquare7
    MCTsLens = {6}
SPECIFICATION Spec
INVARIANT
    NoPartialOutput
CHECK_DEADLOCK FALSE
