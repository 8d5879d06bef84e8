SPECIFICATION Spec
CONSTANTS
    Names = {a, ab}
    Short = a
    Long = ab
    Begins <- MCBegins
    Codes = {k1, k2}
    Pins = {p1, p2}
    None = None
    Slots = 2
    MaxKeys = 3
    MaxImf = 2
    MaxLost = 1
SYMMETRY Symmetry
INVARIANTS CodeOnce SessionProven GuessBudget NamesUnique
PROPERTY LockedKeeps
