SPECIFICATION Spec
CONSTANTS
    c1 = c1
    c2 = c2
    c3 = c3
    p1 = p1
    p2 = p2
    Nil = Nil
    NoSession = NoSession
    Caller = {c1}
    Proc = {p1}
    ProcOf <- OneEach
    Session = {s1}
    Name = {n1}
    TTL = 0
    TicksPerSecond = 1
    MaxTime = 0
    MaxHead = 0
    DataLinked = FALSE
    MaxTip = 2
    Events = {"commit"}
    Calls <- BranchCalls
PROPERTY
    UnmergedRefused
