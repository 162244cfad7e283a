SPECIFICATION Spec
CONSTANTS
    c1 = c1
    c2 = c2
    c3 = c3
    p1 = p1
    p2 = p2
    Nil = Nil
    NoSession = NoSession
    Caller = {c1, c2}
    Proc = {p1, p2}
    ProcOf <- OneEach
    Session = {}
    Name = {n1, n2}
    TTL = 0
    TicksPerSecond = 1
    MaxTime = 0
    MaxHead = 0
    DataLinked = TRUE
    MaxTip = 0
    Events = {"crash", "orphan", "saveerr", "remove", "rmdir", "edit"}
    Calls <- RegistryCalls
SYMMETRY Names
INVARIANTS
    TypeOK
    SnapshotIsCurrent
    NoStrandedWorktree
    HandedOutIsListed
PROPERTY
    ForgottenOnlyWhenGone
