CONSTANTS
    Touched = {4, 5, 6, 12, 21, 28, 30, 33, 36, 42, 51, 58, 60, 61}
    MaxMoves = 5
SPECIFICATION Spec
INVARIANTS
    TypeOK
    PawnsNeverRetreat
    BishopsKeepTheirShade
    BishopsFollowTheRules
    KnightsFollowTheRules
    NoPieceTakesItsOwn
    OnlyRooksAndQueensTrap
PROPERTIES
    MaterialNeverGrows
CHECK_DEADLOCK FALSE
