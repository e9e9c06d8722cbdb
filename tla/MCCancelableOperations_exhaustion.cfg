\* As many cancellations as slots.
CONSTANTS
    script = script
    copy = copy
    plain = plain
    query = query
    id1 = id1
    id2 = id2
    NoId = NoId
    NoCall = NoCall
    NoBackend = NoBackend
    Calls = {query, script}
    Cancellers = {k1, k2}
    Ids = {id1, id2}
    Backends = {b1, b2}
    IdOf <- MCIdOf
    Kind <- MCKind
SPECIFICATION FairSpec
PROPERTY
    CancelledIsUnregistered
CHECK_DEADLOCK FALSE
