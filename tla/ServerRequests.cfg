CONSTANTS
    Responders = {r1, r2}
    Threads = {t1, t2}
    NoReply = NoReply
    Kinds = {"approval", "other"}
    Capacity = 1
    MaxSessions = 2
    MaxRequests <- RequestBounds
    MaxTurns = 1
SPECIFICATION Spec
SYMMETRY Symmetry
INVARIANTS TypeOK AnsweredOnce AnswerMeantForIt EntriesAreOpen NothingForgotten
