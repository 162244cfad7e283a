SPECIFICATION Spec
CONSTANTS
    c1 = c1
    c2 = c2
    c3 = c3
    p1 = p1
    p2 = p2
    Nil = Nil
    NoSession = NoSession
    Caller = {c1, c2}
    Proc = {p1, p2}
    ProcOf <- OneEach
    Session = {s1, s2}
    Name = {n1}
    TTL = 1
    TicksPerSecond = 2
    MaxTime = 2
    MaxHead = 0
    DataLinked = FALSE
    MaxTip = 0
    Events = {"crash", "switch"}
    Calls <- ClaimCalls
SYMMETRY Sessions
INVARIANTS
    IInv
    ToldIsHeld
PROPERTIES
    LiveClaimRespected
    ImplementsLedger
