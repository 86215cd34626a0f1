CONSTANTS
    Taps = {12, 28}
    MaxTaps = 2
    MaxSaves = 1
    Patient = FALSE
SPECIFICATION Spec
PROPERTIES
    SavedGameIsThePosition
CHECK_DEADLOCK FALSE
