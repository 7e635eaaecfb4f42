SPECIFICATION ProcessSpec
CONSTANTS
    MaxCount = 2
    PipeCapacity = 2
    Budget = 80
    RouteCells = 203
    MaxRoutes = 2
    SeedCells = 43
    MaxCandidates = 2
INVARIANT NothingRefused
CHECK_DEADLOCK FALSE
