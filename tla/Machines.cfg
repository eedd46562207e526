SPECIFICATION AccountsSpec
CONSTANTS
    Requests = {r1, r2}
    Hosts = {h1}
    HostOf <- MCHostOf
    Deletions = {d1, cleanup}
    cleanup = cleanup
    Guest = {r1}
    MaxAttempts = 2
    MaxCrashes = 1
    MaxDeleteCrashes = 1
    MaxFaults = 1
    MaxSilent = 1
    MaxStarts = 2
    MaxEarly = 1
    MaxTogether = 2
    None = None
INVARIANTS
    RowIsWhole
    DeletedIsGone
    NoOrphan
    GuestLeavesNothing
PROPERTY DeletesOwnMachine
CHECK_DEADLOCK FALSE
