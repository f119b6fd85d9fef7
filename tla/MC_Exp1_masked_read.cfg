\* A damaged lithk next to readable primary names (spec 5, spec 7).
CONSTANTS
    Den = 4
    Dp = 4
    MaxSteps = 4
    BufCap = 5
    Missing = Missing
    Inputs <- MCInputs
    MCShapes <- ShapesSquare7
    MCTsLens = {6}
SPECIFICATION Spec
INVARIANT
    FallbackOnlyWhenAbsent
CHECK_DEADLOCK FALSE
