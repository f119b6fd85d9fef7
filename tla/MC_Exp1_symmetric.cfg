\* Lengths of opposite transects on a 7x7 grid (spec 4.2).
CONSTANTS
    Den = 4
    Dp = 4
    MaxSteps = 4
    BufCap = 5
    Missing = Missing
    Inputs <- MCInputs
    MCShapes <- ShapesSquare7
    MCTsLens = {6}
SPECIFICATION Spec
INVARIANT
    TransectsSymmetric
CHECK_DEADLOCK FALSE
