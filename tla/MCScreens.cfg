SPECIFICATION Spec
CONSTANTS
    Emails = {e1, e2}
    Passwords = {p1, p2}
    NoOne = none
    MaxRequests = 2
    MaxGames = 1
    MaxBlocks = 2
INVARIANTS
    TypeOK
    ProfilesMatchAccounts
    SetupIsWhatIsShown
    OnlyGuestsMissTheUser
