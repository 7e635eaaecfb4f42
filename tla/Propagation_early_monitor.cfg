SPECIFICATION Spec
CONSTANTS
    Start = 1
    End = 8
    CoverageEnd = 9
    MinStep = 1
    MaxStep = 4
    MaxAccepted = 4
    Burns = 1
    MaxInside = 0
INVARIANT MonitorCoversStay
CHECK_DEADLOCK FALSE
