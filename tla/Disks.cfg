SPECIFICATION Spec
CONSTANTS
    Creates = {c1, c2}
    Deletes = {d1, d2}
    Mounts = {m1}
    Workers = 2
    MaxAttempts = 2
    MaxDevices = 7
    MaxMishaps = 1
    Root = Root
    None = None
SYMMETRY Symmetry
CONSTRAINT Known
INVARIANTS
    DiskHasVolume
    NoLeftover
    RightDisk
CHECK_DEADLOCK FALSE
