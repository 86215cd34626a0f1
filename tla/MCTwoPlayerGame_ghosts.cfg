CONSTANTS
    Taps = {12, 28, 35, 51}
    MaxTaps = 6
    MaxSaves = 0
    Patient = TRUE
SPECIFICATION Spec
INVARIANTS
    ScreenShowsTheBoard
CHECK_DEADLOCK FALSE
