SPECIFICATION SensorSpec
CONSTANTS
    Prints = {f1, f2}
    Slots = {0, 1}
    None = None
    MaxLate = 1
SYMMETRY Symmetry
INVARIANTS MatchFromSearch OutcomeTrue
