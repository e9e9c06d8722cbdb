\* Three calls, two of them with one operation id and one without, and one cancellation
\* on a pool of two: more calls than slots, fewer cancellations than slots.
CONSTANTS
    script = script
    copy = copy
    plain = plain
    query = query
    id1 = id1
    id2 = id2
    NoId = NoId
    NoCall = NoCall
    NoBackend = NoBackend
    Calls = {script, copy, plain}
    Cancellers = {k1}
    Ids = {id1}
    Backends = {b1, b2}
    IdOf <- MCIdOf
    Kind <- MCKind
SPECIFICATION FairSpec
INVARIANTS
    TypeOK
    RegistrationMatchesRun
    AnswersComeBack
    CancelHitsOwnStatement
    TruthfulVerdict
PROPERTIES
    ImplementsLifecycle
    EveryCallReturns
