SPECIFICATION FairSpec
CONSTANTS
    Requests = {r1, r2}
    Hosts = {h1}
    HostOf <- MCHostOf
    Deletions = {d1}
    MaxAttempts = 2
    MaxCrashes = 1
    MaxDeleteCrashes = 1
    MaxFaults = 1
    MaxSilent = 1
    MaxStarts = 2
    MaxEarly = 0
    MaxTogether = 2
    None = None
 
PROPERTY EventuallyReported
CHECK_DEADLOCK FALSE
