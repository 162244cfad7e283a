------------------------- MODULE MCWorktreeManager -------------------------
(***************************************************************************)
(* Small instances of WorktreeManager for TLC: who runs where, and the     *)
(* calls each configuration makes.                                         *)
(***************************************************************************)
EXTENDS WorktreeManager, TLC

CONSTANTS c1, c2, c3, p1, p2

\* Two handlers of one process beside a handler of another process; with c3
\* left out, one handler in each.
SharedProc == [c \in Caller |-> IF c = c3 THEN p2 ELSE p1]
OneEach    == [c \in Caller |-> IF c = c1 THEN p1 ELSE p2]

\* Sessions, and names, are only ever compared with each other.
Sessions == Permutations(Session)
Names == Permutations(Name)

CallsOf(op, reuse, based, force, del) ==
    [op : {op}, name : Name, reuse : reuse, based : based, force : force, del : del]

No == {FALSE}
Yes == {TRUE}

Create  == CallsOf("create", Yes, No, No, No)
ClaimIt == CallsOf("claim", No, No, No, No)
Release == CallsOf("release", No, No, No, No)
ListAll == CallsOf("list", No, No, No, No)
Remove  == CallsOf("remove", No, No, BOOLEAN, No)

\* Who holds a worktree.
ClaimCalls == Create \cup ClaimIt \cup Release \cup CallsOf("remove", No, No, Yes, No)

\* What the registry records.
RegistryCalls == Create \cup CallsOf("collect", No, No, No, No) \cup Remove

\* What becomes of the work in a worktree: every argument of Create and Remove.
WorkCalls ==
    CallsOf("create", BOOLEAN, BOOLEAN, No, No)
        \cup CallsOf("remove", No, No, BOOLEAN, BOOLEAN)

\* The life of one worktree and its branch, without a base.
BranchCalls == Create \cup CallsOf("remove", No, No, BOOLEAN, BOOLEAN)

\* A call of each kind of path through the locks.
LockCalls == Create \cup ListAll

CreateCalls == Create

\* A worktree, and the operations that say they only read.
ReadCalls == Create \cup ListAll \cup CallsOf("collect", No, No, No, No)
============================================================================
