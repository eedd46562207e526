SPECIFICATION Spec
CONSTANTS
    Threads = {t1, t2}
    Credentials = {c1}
    Unsupported = {}
    MaxObjects = 1
    MaxHandles = 2
    None = None
PROPERTY LiveConnectionKept
