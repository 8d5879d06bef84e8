CONSTANTS
    Blank = Blank
    Short1 = Short1
    Short2 = Short2
    Long1 = Long1
    Long2 = Long2
    Zero = Zero
    Arrays <- MCArrays
    Length <- MCLength
    MaxSize = 3
    MaxFragment = 2

SPECIFICATION Spec
INVARIANTS SentWhole
PROPERTIES ImplementsStore
