SPECIFICATION Spec
CONSTANTS
    PINs = {"p4", "q4", "p6", "long"}
    PinLen <- MCPinLen
    NoPin = NoPin
    Finger = Finger
    Nobody = Nobody
    RPs = {r1, r2}
    NoRp = NoRp
    Perms <- MCPerms
    PermSets <- MCPermSets
    NewMinLens = {0, 5, 256}
    MaxPinRetries = 4
    MaxMismatches = 3
    MaxUvRetries = 2
    DefaultMinPin = 4
    MaxPinLen = 63
    ByteMod = 256
    Templates = TRUE
INVARIANTS PinMeetsPolicy TokensHeld TokenUses
PROPERTIES PolicyTightens BlockedIsFinal
