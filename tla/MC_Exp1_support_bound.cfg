\* Square grids of 3 to 6 rows, at the lattice and spacing of the
\* profiles run, with buffers that hold every transect: where the sampling
\* loop can read outside the grid.
CONSTANTS
    Den = 4
    Dp = 3
    MaxSteps = 6
    BufCap = 8
    Missing = Missing
    Inputs <- MCInputs
    MCShapes <- ShapesSquareRange
    MCTsLens = {6}
SPECIFICATION Spec
INVARIANT
    SupportErrorOnlyOnTinyGrid
CHECK_DEADLOCK FALSE
