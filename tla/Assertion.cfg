SPECIFICATION AssertionSpec
CONSTANTS
    RPs = {r1, r2}
    None = None
    Slots = 3
    MaxList = 3
    Protects = {1, 2, 3}
    MaxMade = 3
    MaxBoots = 2
    MaxAllow = 2
SYMMETRY Symmetry
INVARIANTS  PromiseKept ListLawful OffersAll
