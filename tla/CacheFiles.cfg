SPECIFICATION Spec
CONSTANTS
    Workers = {w1, w2, w3}
    NoWorker = none
    Stranger = stranger
    Lone = w3
    Odd = w2
    Asks <- Requests
    Temporary <- TemporaryPaths
INVARIANT PublishedIsGood
PROPERTY NeverReplaced
CHECK_DEADLOCK FALSE
