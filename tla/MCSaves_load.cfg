CONSTANTS
    Ids = {k1}
    Games = {g1}
    NoGame = NoGame
    LastSquare = 1
SPECIFICATION Spec
INVARIANTS
    LinkedSavesLoad
CHECK_DEADLOCK FALSE
