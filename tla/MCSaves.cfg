CONSTANTS
    Ids = {k1, k2, k3}
    Games = {g1, g2}
    NoGame = NoGame
    LastSquare = 2
SPECIFICATION Spec
INVARIANTS
    TypeOK
    LinkedSavesAreComplete
CHECK_DEADLOCK FALSE
