SPECIFICATION MissionSpec
CONSTANTS
    MaxIntervals = 4
    MaxCells = 28
    Wrap = 32
    Launches = 2
    Flights <- FlightsOfLegs
    MaxRoutes = 2
    Ranks = {1, 2, 3, 4}
INVARIANTS
    GatesAgree
    KeepsTheBest
PROPERTY ImplementsCellRun
CHECK_DEADLOCK FALSE
