CONSTANTS
    c1 = c1
    c2 = c2
    Callers = {c1, c2}
    NoCaller = NoCaller
    MaxSessions = 2
    MaxCalls = 2
SPECIFICATION Spec
SYMMETRY CallerSymmetry
INVARIANTS
    TypeOK
    TableSound
    ReplyIsTrue
    SessionSound
PROPERTIES
    HandshakeOrder
    ExitIsFinal
