CONSTANTS
    Taps = {12, 28, 35, 51}
    MaxTaps = 7
    MaxSaves = 0
    Patient = FALSE
SPECIFICATION Spec
INVARIANTS
    NoPieceIsMissing
CHECK_DEADLOCK FALSE
