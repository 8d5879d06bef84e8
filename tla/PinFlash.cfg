SPECIFICATION Spec
CONSTANTS
    PINs = {p1, p2, p3}
    Garbled = Garbled
    NoPin = NoPin
    MaxPinRetries = 3
INVARIANTS GuessBudget KeyRecoverable SessionHoldsKey TokenDiesWithPin
PROPERTY ImplementsVault
