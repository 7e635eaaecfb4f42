SPECIFICATION FairSpec
CONSTANTS
    Cap = 2
    PreStartCancel = TRUE
    MaxRuns = 2
    MaxLines = 2
INVARIANTS
    ChildIsOwned
    VerdictIsEarned
    QueueIsNewest
PROPERTIES
    TerminalSurvives
    ImplementsSupervisor
    RunEnds
    CloseCompletes
CHECK_DEADLOCK FALSE
