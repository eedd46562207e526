SPECIFICATION FairSpec
CONSTANTS
    Threads = {t1, t2}
    Credentials = {c1, c2}
    Unsupported = {c2}
    MaxObjects = 2
    MaxHandles = 3
    None = None
INVARIANTS
    UniqueObject
    NoLockLeftHeld
PROPERTIES
    ReconnectOnce
    CallReturns
