CONSTANTS
    Keys = {k1, k2, k3}
    Zeros = Zeros
    Junk = Junk
    Broken = Broken
    None = None
    MaxCount = 2
    MaxOdd = 2

SPECIFICATION Spec
INVARIANTS KeyKept MadeUnderKeys LockHolds CertMatches CountsGrow BootCompletes
