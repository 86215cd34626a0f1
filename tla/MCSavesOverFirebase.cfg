SPECIFICATION SavesSpec
CONSTANTS
    Payloads <- MCPayloads
    Queries = {}
    MaxWrites = 0
    MaxListens = 0
    MaxFaults = 1
    Ids = {id1, id2}
    Games = {g1}
    NoGame = none
    LastSquare = 0
INVARIANTS
    LinkedSavesAreComplete
PROPERTIES
    ImplementsSaves
CHECK_DEADLOCK FALSE
