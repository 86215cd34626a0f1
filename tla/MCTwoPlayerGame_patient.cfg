CONSTANTS
    Taps = {1, 12, 18, 28, 35, 51, 59}
    MaxTaps = 10
    MaxSaves = 0
    Patient = TRUE
SPECIFICATION Spec
INVARIANTS
    NoPieceIsMissing
    ButtonsFollowTheirSquares
CHECK_DEADLOCK FALSE
