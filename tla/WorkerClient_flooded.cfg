SPECIFICATION FairSpec
CONSTANTS
    Cap = 2
    PreStartCancel = TRUE
    MaxRuns = 1
    MaxLines = 0
PROPERTIES
    CancellationEscalates
CHECK_DEADLOCK FALSE
