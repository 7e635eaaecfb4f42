SPECIFICATION FairSpec
CONSTANTS
    MaxProbes = 10
    MaxIterations = 2
    Attempts = 2
    Reasons = {"missing_venus", "mars_stay_failed"}
INVARIANTS
    ReportsExact
    DiagnosticsOfTrial
    StatusExplained
PROPERTIES
    Terminates
    ImplementsProbeRun
CHECK_DEADLOCK FALSE
