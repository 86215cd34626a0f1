SPECIFICATION Spec
CONSTANTS
    Payloads = {p}
    Queries = {q}
    MaxWrites = 2
    MaxListens = 1
    MaxFaults = 2
INVARIANTS
    TypeOK
    AssertionsHold
    NeverStranded
    InterruptedStaysAway
    ListensAreCounted
    WritesArriveInOrder
    AcksAreTrue
PROPERTIES
    WritesGetThrough
    CompletionsAreCalled
