SPECIFICATION FairSpec
CONSTANTS
    Callers = {c1, c2, c3}
    NoCaller = NoCaller
    Clients = {p1, p2}
    FirstClient = p1
    MaxMessages = 2
PROPERTIES
    TurnsAreAtomic
    CallsReturn
