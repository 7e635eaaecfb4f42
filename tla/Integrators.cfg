SPECIFICATION CallSpec
CONSTANTS
    Start = 1
    End = 8
    CoverageEnd = 9
    MinStep = 1
    MaxStep = 4
    MaxAccepted = 4
    Burns = 2
    MaxInside = 2
    Segments = 2
    StepTicks = 12
    MaxDepth = 2
    MinTicks = 1
    Tolerance = 1
INVARIANTS
    BurnsInOrder
    ClearToLastValid
    MonitorCoversLateStay
    OutcomeIsTrue
PROPERTIES CallEnds
CHECK_DEADLOCK FALSE
