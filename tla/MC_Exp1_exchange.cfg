\* The script refines the exchange-file specification, on the 7x7 grid and
\* on the small grids where sampling or the mesh fails.
CONSTANTS
    Den = 4
    Dp = 3
    MaxSteps = 4
    BufCap = 5
    Missing = Missing
    Inputs <- MCInputs
    MCShapes <- ShapesMixed
    MCTsLens = {5, 6}
SPECIFICATION Spec
PROPERTIES
    Exchange
CHECK_DEADLOCK FALSE
