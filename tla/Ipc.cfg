SPECIFICATION Spec
CONSTANTS
    p1 = p1
    p2 = p2
    Process = {p1, p2}
    Master = Master
    None = None
    MaxCalls = 2
CHECK_DEADLOCK FALSE
INVARIANTS
    TypeOK
    AnswerFindsCaller
    NoLeakedChannels
    CacheInOrder
PROPERTIES
    KeepsPromise
