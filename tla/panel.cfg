SPECIFICATION Spec
CONSTANTS
    Worktree <- Two
    Handler = {h1, h2}
    UI = h1
    Nil = Nil
    MayFail = TRUE
INVARIANTS
    PanelTypeOK
    SelectionInRange
    PanelOpenAgrees
    ViewAgrees
PROPERTY
    EnterFollowsFresh
