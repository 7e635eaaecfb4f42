SPECIFICATION ProcessSpec
CONSTANTS
    MaxCount = 2
    PipeCapacity = 2
    Budget = 64
    RouteCells = 203
    MaxRoutes = 2
    SeedCells = 43
    MaxCandidates = 2
INVARIANTS
    NothingRefused
    CompleteMeansDone
    CancelBeatsComplete
    CancelIsPrompt
    ExitedWithVerdict
    ProgressKeepsUp
PROPERTIES
    ImplementsEventStream
    VerdictArrives
CHECK_DEADLOCK FALSE
