SPECIFICATION Spec
CONSTANTS
    NumNames = 3
    Start = 1
    Length = 7
    Leftover = 3
    Nul = Nul
    Units <- Characters
    Size <- Sizes
INVARIANTS
    StoredWithin
    Listed
    WholeLines
PROPERTY ImplementsStream
CHECK_DEADLOCK FALSE
