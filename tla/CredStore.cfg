SPECIFICATION Spec
CONSTANTS
    RPs = {r1, r2}
    Users = {a, ab, ac}
    Short = a
    Clash <- MCClash
    Free = Free
    NoHash = NoHash
    Freed = Freed
    Slots = 3
SYMMETRY Symmetry
INVARIANTS CountsExact EnumerationsComplete HashLive
