SPECIFICATION Spec
CONSTANTS
    MaxVisits = 2
    MaxLeaves = 2
    MaxDrops = 1
    MaxErrors = 1
    MaxSlow = 1
    MaxClicks = 2
    MaxLate = 1
    MaxLost = 1
INVARIANTS
    AwayIsQuiet
    NeverStuck
    ShownSinceJob
    SpinnerTellsMount
PROPERTIES
    KeptAlive
    BackOn
CHECK_DEADLOCK FALSE
