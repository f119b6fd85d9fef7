\* Ice-free bedrock on the outer rings, sampled by the profiles (line 448).
CONSTANTS
    Den = 4
    Dp = 4
    MaxSteps = 4
    BufCap = 5
    Missing = Missing
    Inputs <- MCInputs
    MCShapes <- ShapesSquare7
    MCTsLens = {6}
SPECIFICATION Spec
INVARIANT
    MaskCodesDeclared
CHECK_DEADLOCK FALSE
