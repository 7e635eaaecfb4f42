SPECIFICATION Spec
CONSTANTS
    First = w1
    Second = w2
    Late = w3
    Savers = {w1, w2, w3}
    Temporary <- TemporarySuffixes
    Boot <- Boots
    MaxBoot = 2
    Original = original
    NoFile = noFile
    Partial = partial
INVARIANT OpenedIsWhole
PROPERTY ImplementsReportStore
CHECK_DEADLOCK FALSE
