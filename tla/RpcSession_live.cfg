CONSTANTS
    c1 = c1
    c2 = c2
    Callers = {c1, c2}
    NoCaller = NoCaller
    MaxSessions = 1
    MaxCalls = 2
SPECIFICATION FairSpec
PROPERTIES
    
    DeathIsNoticed
