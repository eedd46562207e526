SPECIFICATION ProgramSpec
CONSTANTS
    retried = retried
    once = once
    Jobs = {retried, once}
    Tracked = {retried}
    Workers = {w1, w2}
    MaxAttempts <- MCAttempts
    CleanUp = TRUE
    None = None
    rails = rails
    MaxFaults = 1
    Services = {rails, backend, w1, w2}
    install = install
    backendInstall = backendInstall
    migrate = migrate
    Stages <- MCStages
    Commands <- MCCommands
    Isos = {iso1, iso2}
    Limit = 1
INVARIANTS
    ToldTheTruth
    AttemptsBounded
    NothingSkipped
PROPERTIES
    EventuallyTold
CHECK_DEADLOCK FALSE
