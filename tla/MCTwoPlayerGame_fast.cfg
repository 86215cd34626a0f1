CONSTANTS
    Taps = {12, 28, 51, 35}
    MaxTaps = 6
    MaxSaves = 1
    Patient = FALSE
SPECIFICATION Spec
INVARIANTS
    TypeOK
    ProbesLeaveNoTrace
    ChosenPieceIsOwn
    TapsPayForMoves
    TapsStayOnTheBoard
PROPERTIES
    ImplementsChessTurns
    TapsAreTaken
CHECK_DEADLOCK FALSE
