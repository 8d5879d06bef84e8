SPECIFICATION Spec
CONSTANTS
    None = None
    MaxCounter = 3
    Word = 6
    Sessions = 2
    MaxFactor = 2
    Seeds = {0, 2}
    MaxKeys = 2
INVARIANTS NextIsNew ConfigsKept
