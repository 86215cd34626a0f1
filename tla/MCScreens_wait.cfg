SPECIFICATION Spec
CONSTANTS
    Emails = {e1}
    Passwords = {p1}
    NoOne = none
    MaxRequests = 1
    MaxGames = 1
    MaxBlocks = 2
PROPERTIES
    GameStarts
