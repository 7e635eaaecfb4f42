SPECIFICATION WindowSpec
CONSTANTS
    Sources = {s1, s2}
    NoSource = none
    MaxRuns = 2
    MaxProgress = 1
    MaxChecks = 4
INVARIANTS
    ControlsFollowRun
    HandlersMeetTheirRun
    OfferedResultIsSaveable
    NoTimerLost
PROPERTIES
    CloseCompletes
    ButtonReturns
CHECK_DEADLOCK FALSE
