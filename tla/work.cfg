SPECIFICATION Spec
CONSTANTS
    c1 = c1
    c2 = c2
    c3 = c3
    p1 = p1
    p2 = p2
    Nil = Nil
    NoSession = NoSession
    Caller = {c1}
    Proc = {p1, p2}
    ProcOf <- OneEach
    Session = {}
    Name = {n1}
    TTL = 0
    TicksPerSecond = 1
    MaxTime = 0
    MaxHead = 1
    DataLinked = FALSE
    MaxTip = 2
    Events = {"crash", "orphan", "commit", "push", "edit", "rmdir", "remove", "rogue", "lock", "head", "branch", "giterr", "saveerr"}
    Calls <- WorkCalls
INVARIANT
    NoStrandedWorktree
PROPERTIES
    ForgottenOnlyWhenGone
    UncommittedKept
    CommitsKept
    FreshWorkRefused
