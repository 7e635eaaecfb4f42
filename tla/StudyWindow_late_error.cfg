SPECIFICATION Spec
CONSTANTS
    Sources = {s1}
    NoSource = none
    MaxRuns = 1
    MaxProgress = 1
INVARIANT NoReportOfFailedRun
CHECK_DEADLOCK FALSE
