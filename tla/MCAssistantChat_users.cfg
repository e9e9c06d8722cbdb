SPECIFICATION Spec
CONSTANTS
    Sends = {s1, s2}
    Clears = {k1}
    Conns = {c1, c2}
    None = None
    Users <- SomeUsers
    Limit = 1
    Rounds = 2
INVARIANTS
    AnswersFollowQuestions
    DailyLimit
    ConversationsAreIndependent
PROPERTIES
    AnswersLandWhereAsked
CHECK_DEADLOCK FALSE
