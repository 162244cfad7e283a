SPECIFICATION Spec
CHECK_DEADLOCK FALSE
CONSTANTS
    s1 = s1
    s2 = s2
    Nil = Nil
    NoSession = NoSession
    NoCwd = NoCwd
    Session = {s1, s2}
    Protocols = {4}
    Trees <- OneTree
    Cwds <- LinkCwds
    Roots <- OnlyCwd
    Filters <- SomeFilters
    RawNames <- NoNames
    NameOrder <- Names
    MaxRepoProbe = 2
    MaxRepoHints = 1
    MaxNameLen = 3
    MaxStarts = 1
    MaxInbox = 2
INVARIANT
    KeyIsRepository
