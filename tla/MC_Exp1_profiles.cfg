\* The script on a centred 7x7 grid with dp = 0.75 cells: the sampling
\* loop, the distances and the written profiles.
CONSTANTS
    Den = 4
    Dp = 3
    MaxSteps = 4
    BufCap = 5
    Missing = Missing
    Inputs <- MCInputs
    MCShapes <- ShapesSquare7
    MCTsLens = {5, 6}
SPECIFICATION Spec
INVARIANTS
    TypeOK
    DistanceIsRadial
    ProfileFaithful
CHECK_DEADLOCK FALSE
