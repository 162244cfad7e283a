SPECIFICATION Spec
CHECK_DEADLOCK FALSE
CONSTANTS
    s1 = s1
    s2 = s2
    Nil = Nil
    NoSession = NoSession
    NoCwd = NoCwd
    Session = {s1, s2}
    Protocols = {2, 3, 4}
    Trees <- SomeTrees
    Cwds <- SomeCwds
    Roots <- SomeRoots
    Filters <- SomeFilters
    RawNames <- Typed
    NameOrder <- Names
    MaxRepoProbe = 2
    MaxRepoHints = 1
    MaxNameLen = 3
    MaxStarts = 3
    MaxInbox = 2
INVARIANTS
    QuietIffUseless
    KeyIsRepository
    HintsResolve
    RowPerWorktree
    CwdWorktreeTold
    NameIsStable
PROPERTY
    PinnedInSession
