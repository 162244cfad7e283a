SPECIFICATION Spec
CONSTANTS
    Worktree <- Two
    Handler = {h1, h2}
    UI = h1
    Nil = Nil
    MayFail = FALSE
PROPERTY
    EnterFollowsCursor
