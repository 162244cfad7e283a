----------------------------- MODULE WorkProofs -----------------------------
(***************************************************************************)
(* What becomes of the worktrees and of the work in them: what the manager *)
(* may take away, which Remove it refuses, and when the registry forgets a *)
(* worktree or git keeps one it does not know.                             *)
(***************************************************************************)
EXTENDS LedgerProofs, FiniteSetTheorems

----------------------------------------------------------------------------
(* Who changes what in git.                                                *)

\* The steps in which a caller's git command changes the repository.
GitStep(c) == GitAdd(c) \/ GitRemove(c) \/ GitPrune(c) \/ DeleteBranch(c) \/ SaveFails(c)

\* A caller's other steps leave the repository alone.
LEMMA CallerGit ==
    ASSUME NEW c \in Caller, CallerStep(c)
    PROVE  /\ UNCHANGED <<head, orphan>>
           /\ ~GitStep(c) => UNCHANGED <<branch, checkout>>
<1> USE DEF gitVars
<1>1. CASE (\E k \in Calls : Invoke(c, k)) \/ TakeMutex(c) \/ TakeFlock(c) \/ Load(c)
  BY <1>1 DEF Invoke, TakeMutex, TakeFlock, Load
<1>2. CASE \/ EarlyError(c) \/ CreateExisting(c) \/ CreateFresh(c)
           \/ ClaimBody(c) \/ ReleaseBody(c) \/ ListBody(c) \/ RemoveBody(c)
  BY <1>2, BodyMoves
<1>3. CASE ResolveBase(c) \/ Unlock(c)
  BY <1>3 DEF ResolveBase, Unlock
<1>4. CASE GitStep(c)
  BY <1>4 DEF GitStep, GitAdd, GitRemove, PruneFails, GitPrune, DeleteBranch, SaveFails
<1>5. CASE Writes(c)
  BY <1>5 DEF Writes, SaveNew, SaveClaim, SaveRelease, SaveRemove, SaveList
<1> QED
  BY <1>1, <1>2, <1>3, <1>4, <1>5 DEF CallerStep, Work, Writes, GitStep

\* Besides its callers' steps, the manager's own are its processes' deaths,
\* which change no branch and no worktree, and the ends of the commands that
\* outlived them.
LEMMA ManagerSteps ==
    ASSUME [Next]_vars, ManagerStep, branch' # branch \/ checkout' # checkout
    PROVE  (\E c \in Caller : CallerStep(c) /\ GitStep(c)) \/ OrphanEnds
<1>1. ASSUME HostStep PROVE OrphanEnds
  <2>1. orphan' # orphan
    BY <1>1, HostStands DEF ManagerStep
  <2> QED
    BY <1>1, <2>1 DEF HostStep, SwitchSession, Tick, User, vars, gitVars
<1>2. ASSUME NEW p \in Proc, Crash(p) PROVE FALSE
  BY <1>2 DEF Crash
<1> QED
  BY <1>1, <1>2, StepCases, CallerGit

----------------------------------------------------------------------------
(* Work in the worktrees.                                                  *)

\* The caller whose step changes a branch that exists deletes it, as asked.
LEMMA BranchStep ==
    ASSUME TypeOK, NEW c \in Caller, GitStep(c), DecisionOf(c),
           NEW n \in Name, branch[n] # Nil, branch'[n] # branch[n]
    PROVE  /\ branch'[n] = Nil
           /\ checkout[n] = Nil \/ ~checkout[n].own
           /\ pc[c] = "branch" /\ call[c].op = "remove"
           /\ call[c].name = n /\ call[c].del
<1> USE DEF TypeOK, GitTypeOK
<1>1. CASE GitAdd(c)
  BY <1>1 DEF GitAdd, WorktreeAdd, CanAdd
<1>2. CASE GitRemove(c) \/ GitPrune(c) \/ SaveFails(c)
  BY <1>2 DEF GitRemove, PruneFails, GitPrune, SaveFails, WorktreeRemove, WorktreePrune
<1>3. CASE DeleteBranch(c)
  BY <1>3 DEF DeleteBranch, BranchDelete, CanDeleteBranch, WantsBranchDeleted, DecisionOf
<1> QED
  BY <1>1, <1>2, <1>3 DEF GitStep

\* The branches that dead processes' commands will delete: as they were asked.
Asked == \A k \in orphan : k.cmd = "branch" => k.flag

\* Every step keeps it so.
LEMMA StepAsked ==
    ASSUME TypeOK, Asked, [Next]_vars
    PROVE  Asked'
<1>1. ASSUME orphan' \subseteq orphan PROVE Asked'
  BY <1>1 DEF Asked
<1>2. ASSUME NEW p \in Proc, Crash(p) PROVE Asked'
  <2> SUFFICES ASSUME NEW k \in orphan', k \notin orphan, k.cmd = "branch" PROVE k.flag
    BY DEF Asked
  <2>1. PICK c \in Caller : k \in GitRunning(c)
    BY <1>2 DEF Crash, LeftRunning
  <2>2. k = Child(c, "branch", call[c].del) /\ WantsBranchDeleted(c)
    BY <2>1 DEF GitRunning, Child
  <2>3. k.flag = call[c].del
    BY <2>2 DEF Child
  <2> QED
    BY <2>2, <2>3 DEF WantsBranchDeleted
<1>3. CASE HostStep
  BY <1>1, <1>3 DEF HostStep, SwitchSession, Tick, User, OrphanEnds, vars, gitVars
<1> QED
  BY <1>1, <1>2, <1>3, StepCases, CallerGit

\* The orphaned command whose end changes a branch that exists deletes it.
LEMMA OrphanBranch ==
    ASSUME TypeOK, Asked, OrphanEnds, NEW n \in Name, branch[n] # Nil, branch'[n] # branch[n]
    PROVE  /\ branch'[n] = Nil
           /\ checkout[n] = Nil \/ ~checkout[n].own
           /\ \E k \in Ended : k.cmd = "branch" /\ k.name = n /\ k.flag
<1> USE DEF TypeOK, GitTypeOK
<1>1. PICK k \in orphan :
        /\ orphan' = orphan \ {k}
        /\ \/ k.cmd = "add" /\ \E at \in Commits : WorktreeAdd(k.name, k.flag, at, TRUE)
           \/ k.cmd = "remove" /\ WorktreeRemove(k.name, k.flag)
           \/ k.cmd = "prune" /\ WorktreePrune
           \/ k.cmd = "branch" /\ BranchDelete(k.name)
           \/ UNCHANGED <<branch, checkout>>
  BY DEF OrphanEnds
<1>2. k \in Ended
  BY <1>1 DEF Ended
<1>3. ~\E at \in Commits : WorktreeAdd(k.name, k.flag, at, TRUE)
  BY DEF WorktreeAdd, CanAdd
<1>4. ~WorktreeRemove(k.name, k.flag) /\ ~WorktreePrune
  BY DEF WorktreeRemove, WorktreePrune
<1>5. k.cmd = "branch" /\ BranchDelete(k.name)
  BY <1>1, <1>3, <1>4
<1>6. k.name = n /\ branch'[n] = Nil /\ (checkout[n] = Nil \/ ~checkout[n].own)
  BY <1>5 DEF BranchDelete, CanDeleteBranch
<1> QED
  BY <1>2, <1>5, <1>6 DEF Asked

\* The manager never moves a branch, and deletes one only as it was asked to:
\* neither a caller nor a command that has outlived its process.
THEOREM CommitsAreKept == Spec => CommitsKept
<1> DEFINE Kept ==
      \A n \in Name :
          ManagerStep /\ branch[n] # Nil /\ branch'[n] # branch[n]
          => /\ branch'[n] = Nil
             /\ checkout[n] = Nil \/ ~checkout[n].own
             /\ \/ \E c \in Caller :
                      /\ pc[c] = "branch" /\ call[c].op = "remove"
                      /\ call[c].name = n /\ call[c].del
                \/ \E k \in Ended : k.cmd = "branch" /\ k.name = n /\ k.flag
<1>1. IInv /\ Asked /\ [Next]_vars => [Kept]_vars
  <2> SUFFICES ASSUME IInv, Asked, [Next]_vars, NEW n \in Name, ManagerStep,
                      branch[n] # Nil, branch'[n] # branch[n]
               PROVE  /\ branch'[n] = Nil
                      /\ checkout[n] = Nil \/ ~checkout[n].own
                      /\ \/ \E c \in Caller :
                               /\ pc[c] = "branch" /\ call[c].op = "remove"
                               /\ call[c].name = n /\ call[c].del
                         \/ \E k \in Ended : k.cmd = "branch" /\ k.name = n /\ k.flag
    OBVIOUS
  <2>1. CASE OrphanEnds
    BY <2>1, OrphanBranch DEF IInv
  <2>2. CASE ~OrphanEnds
    <3>1. PICK c \in Caller : GitStep(c)
      BY <2>2, ManagerSteps
    <3> QED
      BY <3>1, BranchStep DEF IInv, DecisionStands
  <2> QED
    BY <2>1, <2>2
<1>2. Init => Asked
  BY DEF Init, GitInit, Asked
<1>3. TypeOK /\ Asked /\ [Next]_vars => Asked'
  BY StepAsked
<1> QED
  BY <1>1, <1>2, <1>3, TypeCorrect, Invariance, PTL DEF Spec, CommitsKept

\* Only a directory that is there has uncommitted changes.
DirtyHasDir == \A n \in Name : checkout[n] # Nil /\ checkout[n].dirty => checkout[n].dir

\* git's commands keep that so.
LEMMA CommandDirty ==
    ASSUME GitTypeOK, DirtyHasDir, NEW n, NEW at, NEW resume, NEW force, NEW late,
           \/ WorktreeAdd(n, resume, at, late) \/ WorktreeRemove(n, force)
           \/ WorktreePrune \/ UNCHANGED checkout
    PROVE  DirtyHasDir'
BY DEF GitTypeOK, DirtyHasDir, WorktreeAdd, WorktreeRemove, WorktreePrune, Pruned, NewCheckout

\* So does marking one that could not be removed, pruned before or not.
LEMMA KeptDirty ==
    ASSUME GitTypeOK, DirtyHasDir, NEW n \in Name,
           checkout' = KeptIn(checkout, n) \/ checkout' = KeptIn(Pruned, n)
    PROVE  DirtyHasDir'
<1> USE DEF GitTypeOK, DirtyHasDir
<1>1. CASE checkout' = KeptIn(checkout, n)
  BY <1>1 DEF KeptIn, Checkout
<1>2. CASE checkout' = KeptIn(Pruned, n)
  <2>1. \A m \in Name : Pruned[m] # Nil => Pruned[m] = checkout[m]
    BY DEF Pruned
  <2>2. Pruned \in [Name -> Checkout \cup {Nil}]
    BY PrunedType
  <2>3. \A m \in Name \ {n} : checkout'[m] = Pruned[m]
    BY <1>2, <2>2 DEF KeptIn
  <2>4. checkout'[n] # Nil => Pruned[n] # Nil /\ checkout'[n] = [Pruned[n] EXCEPT !.kept = TRUE]
    BY <1>2, <2>2 DEF KeptIn
  <2>5. checkout'[n] # Nil =>
            checkout'[n].dirty = Pruned[n].dirty /\ checkout'[n].dir = Pruned[n].dir
    BY <2>2, <2>4 DEF Checkout
  <2> QED
    BY <2>1, <2>3, <2>4, <2>5
<1> QED
  BY <1>1, <1>2

\* So does the user.
LEMMA UserDirty ==
    ASSUME GitTypeOK, DirtyHasDir, User
    PROVE  DirtyHasDir'
<1> USE DEF GitTypeOK, DirtyHasDir, Checkout
<1>1. CASE MoveHead
  BY <1>1 DEF MoveHead
<1>2. ASSUME NEW n \in Name, Commit(n) \/ Edit(n) PROVE DirtyHasDir'
  BY <1>2 DEF Commit, Edit, HasDir
<1>3. ASSUME NEW n \in Name, Push(n) \/ MakeBranch(n) PROVE DirtyHasDir'
  BY <1>3 DEF Push, MakeBranch
<1>4. ASSUME NEW n \in Name, DeleteDir(n) PROVE DirtyHasDir'
  BY <1>4 DEF DeleteDir, HasDir
<1>5. ASSUME NEW n \in Name, RemoveOutOfBand(n) PROVE DirtyHasDir'
  BY <1>5 DEF RemoveOutOfBand, WorktreeRemove
<1>6. ASSUME NEW n \in Name, AddOutOfBand(n) PROVE DirtyHasDir'
  BY <1>6 DEF AddOutOfBand, NewCheckout
<1>7. ASSUME NEW n \in Name, ToggleLock(n) PROVE DirtyHasDir'
  BY <1>7 DEF ToggleLock
<1> QED
  BY <1>1, <1>2, <1>3, <1>4, <1>5, <1>6, <1>7 DEF User

\* And an orphaned command that ends.
LEMMA OrphanDirty ==
    ASSUME GitTypeOK, DirtyHasDir, OrphanEnds
    PROVE  DirtyHasDir'
<1>1. \E k \in orphan :
        \/ \E at \in Commits : WorktreeAdd(k.name, k.flag, at, TRUE)
        \/ WorktreeRemove(k.name, k.flag) \/ WorktreePrune \/ UNCHANGED checkout
  BY DEF OrphanEnds, BranchDelete
<1> QED
  BY <1>1, CommandDirty

\* And the manager's steps.
LEMMA StepDirty == TypeOK /\ DirtyHasDir /\ [Next]_vars => DirtyHasDir'
<1> SUFFICES ASSUME TypeOK, DirtyHasDir, [Next]_vars PROVE DirtyHasDir'
  OBVIOUS
<1>0. GitTypeOK
  BY DEF TypeOK
<1>1. ASSUME UNCHANGED checkout PROVE DirtyHasDir'
  BY <1>1 DEF DirtyHasDir
<1>2. ASSUME NEW c \in Caller, CallerStep(c), GitStep(c) PROVE DirtyHasDir'
  <2>0. pc[c] # "idle" => call[c].name \in Name
    BY DEF TypeOK, Call
  <2>1. CASE SaveFails(c)
    <3>1. CASE CanRemove(call[c].name, TRUE) /\ checkout' = [checkout EXCEPT ![call[c].name] = Nil]
      BY <1>0, <3>1 DEF DirtyHasDir, GitTypeOK
    <3>2. CASE checkout' = KeptIn(checkout, call[c].name)
      BY <1>0, <2>0, <2>1, <3>2, KeptDirty DEF SaveFails, Saving
    <3> QED
      BY <1>1, <2>1, <3>1, <3>2 DEF SaveFails, TakenBack
  <2>2. CASE GitAdd(c)
    BY <1>0, <2>2, CommandDirty DEF GitAdd
  <2>3. CASE GitRemove(c)
    <3>1. CASE checkout' = KeptIn(Pruned, call[c].name)
      BY <1>0, <2>0, <2>3, <3>1, KeptDirty DEF GitRemove, PruneFails
    <3> QED
      BY <1>0, <2>3, <3>1, CommandDirty DEF GitRemove, PruneFails
  <2>4. CASE GitPrune(c) \/ DeleteBranch(c)
    BY <1>0, <2>4, CommandDirty DEF GitPrune, DeleteBranch, BranchDelete
  <2> QED
    BY <1>2, <2>1, <2>2, <2>3, <2>4 DEF GitStep
<1>3. ASSUME NEW p \in Proc, Crash(p) PROVE DirtyHasDir'
  BY <1>1, <1>3 DEF Crash
<1>4. CASE HostStep
  BY <1>0, <1>1, <1>4, UserDirty, OrphanDirty
     DEF HostStep, SwitchSession, Tick, vars, gitVars
<1> QED
  BY <1>1, <1>2, <1>3, <1>4, StepCases, CallerGit

\* A command that loses a worktree's uncommitted changes is a remove of it.
LEMMA CommandLoses ==
    ASSUME GitTypeOK, DirtyHasDir, NEW n \in Name, checkout[n] # Nil, checkout[n].dirty,
           checkout'[n] = Nil \/ ~checkout'[n].dirty
    PROVE  /\ ~WorktreePrune /\ checkout' # checkout
           /\ \A m \in Name : checkout' # KeptIn(checkout, m) /\ checkout' # KeptIn(Pruned, m)
           /\ \A m, force : WorktreeRemove(m, force) => m = n /\ force
<1> USE DEF GitTypeOK
<1>0. Pruned[n] = checkout[n] /\ Pruned \in [Name -> Checkout \cup {Nil}]
  BY PrunedType DEF Pruned, DirtyHasDir, HasDir
<1>2. ~WorktreePrune /\ checkout' # checkout
  BY <1>0 DEF WorktreePrune
<1>3. ASSUME NEW wts \in [Name -> Checkout \cup {Nil}], wts[n] = checkout[n],
             NEW m \in Name, checkout' = KeptIn(wts, m)
      PROVE  FALSE
  <2>1. [wts[n] EXCEPT !.kept = TRUE].dirty /\ [wts[n] EXCEPT !.kept = TRUE] # Nil
    BY <1>3, NilAssumption DEF Checkout
  <2> QED
    BY <1>3, <2>1 DEF KeptIn
<1>4. \A m, force : WorktreeRemove(m, force) => m = n /\ force
  BY DEF WorktreeRemove, CanRemove
<1> QED
  BY <1>0, <1>2, <1>3, <1>4

\* The caller whose step loses a worktree's uncommitted changes removes it with
\* force, or takes back what it could not save.
LEMMA CheckoutStep ==
    ASSUME TypeOK, DirtyHasDir, NEW c \in Caller, GitStep(c), NEW n \in Name,
           checkout[n] # Nil, checkout[n].dirty, checkout'[n] = Nil \/ ~checkout'[n].dirty
    PROVE  /\ call[c].name = n
           /\ \/ pc[c] = "gitrm" /\ call[c].force
              \/ pc[c] = "saveNew"
<1>0. GitTypeOK /\ (pc[c] # "idle" => call[c].name \in Name)
  BY DEF TypeOK, Call
<1>1. CASE GitAdd(c)
  BY <1>0, <1>1, CommandLoses DEF GitAdd, WorktreeAdd, CanAdd, GitTypeOK
<1>2. CASE GitRemove(c)
  BY <1>0, <1>2, CommandLoses DEF GitRemove, PruneFails, Forced
<1>3. CASE GitPrune(c) \/ DeleteBranch(c)
  BY <1>0, <1>3, CommandLoses DEF GitPrune, DeleteBranch, BranchDelete
<1>4. CASE SaveFails(c)
  <2>1. pc[c] = "saveNew" /\ checkout' = [checkout EXCEPT ![call[c].name] = Nil]
    BY <1>0, <1>4, CommandLoses DEF SaveFails, TakenBack, Saving
  <2> QED
    BY <1>0, <2>1 DEF GitTypeOK
<1> QED
  BY <1>1, <1>2, <1>3, <1>4 DEF GitStep

\* Uncommitted changes go only in a forced Remove of their worktree, or with
\* the new worktree of a Create that could not save, though the command may
\* have outlived its process.
THEOREM UncommittedIsKept == Spec => UncommittedKept
<1> DEFINE Kept ==
      \A n \in Name :
          /\ ManagerStep /\ checkout[n] # Nil /\ checkout[n].dirty
          /\ checkout'[n] = Nil \/ ~checkout'[n].dirty
          => \/ \E c \in Caller :
                   /\ call[c].name = n
                   /\ \/ pc[c] = "gitrm" /\ call[c].force
                      \/ pc[c] = "saveNew"
             \/ \E k \in Ended : k.cmd = "remove" /\ k.name = n /\ k.flag
<1>1. Init => DirtyHasDir
  BY DEF Init, GitInit, DirtyHasDir
<1>2. TypeOK /\ DirtyHasDir /\ [Next]_vars => DirtyHasDir'
  BY StepDirty
<1>3. TypeOK /\ DirtyHasDir /\ [Next]_vars => [Kept]_vars
  <2> SUFFICES ASSUME TypeOK, DirtyHasDir, [Next]_vars, NEW n \in Name, ManagerStep,
                      checkout[n] # Nil, checkout[n].dirty,
                      checkout'[n] = Nil \/ ~checkout'[n].dirty
               PROVE  \/ \E c \in Caller :
                            /\ call[c].name = n
                            /\ \/ pc[c] = "gitrm" /\ call[c].force
                               \/ pc[c] = "saveNew"
                      \/ \E k \in Ended : k.cmd = "remove" /\ k.name = n /\ k.flag
    OBVIOUS
  <2>0. GitTypeOK
    BY DEF TypeOK
  <2>1. CASE OrphanEnds
    <3>1. PICK k \in orphan :
            /\ orphan' = orphan \ {k}
            /\ \/ \E at \in Commits : WorktreeAdd(k.name, k.flag, at, TRUE)
               \/ k.cmd = "remove" /\ WorktreeRemove(k.name, k.flag)
               \/ WorktreePrune \/ UNCHANGED checkout
      BY <2>1 DEF OrphanEnds, BranchDelete
    <3>2. k.cmd = "remove" /\ WorktreeRemove(k.name, k.flag)
      BY <2>0, <3>1, CommandLoses DEF WorktreeAdd, CanAdd, GitTypeOK
    <3>3. k.name = n /\ k.flag
      BY <2>0, <3>2 DEF WorktreeRemove, CanRemove, GitTypeOK
    <3> QED
      BY <3>1, <3>2, <3>3 DEF Ended
  <2>2. CASE ~OrphanEnds
    <3>0. checkout' # checkout
      BY <2>0, CommandLoses
    <3>1. PICK c \in Caller : GitStep(c)
      BY <2>2, <3>0, ManagerSteps
    <3> QED
      BY <3>1, CheckoutStep
  <2> QED
    BY <2>1, <2>2
<1> QED
  BY <1>1, <1>2, <1>3, TypeCorrect, PTL DEF Spec, UncommittedKept

\* Remove reads what it decides on from the registry as it stands, and its
\* commits against the upstream or, without one, against the recorded base.
LEMMA RemoveReads ==
    ASSUME IInv, "probeerr" \notin Events, NEW c \in Caller, RemoveBody(c),
           NEW n \in Name, PassesChecks(c, n), HasDir(n), checkout[n].own,
           ~registry[n].resumed
    PROVE  ~Unmerged(n)
<1>0. TypeOK /\ reg[c] = registry /\ call[c].name = n
  BY DEF IInv, SnapshotIsCurrent, PassesChecks, Working
<1>1. pc \in [Caller -> PC] /\ pc'[c] = "gitrm" /\ ~call[c].force
  BY <1>0 DEF PassesChecks, TypeOK
<1>2. PICK unmerged \in UnmergedReports(c) : ~unmerged
  <2>1. \E unmerged \in UnmergedReports(c) :
           IF unmerged THEN Return(c, "error") ELSE Goto(c, "gitrm")
    BY <1>0, <1>1 DEF RemoveBody, Goto, Return
  <2> QED
    BY <1>1, <2>1 DEF Return
<1>3. CASE branch[n] = Nil
  BY <1>3 DEF Unmerged
<1>4. CASE branch[n] # Nil /\ branch[n].up # NoUpstream
  <2>1. unmerged \in AheadOfUpstream(n)
    BY <1>0, <1>2, <1>4 DEF UnmergedReports
  <2>2. unmerged = (branch[n].tip > branch[n].up)
    BY <1>4, <2>1 DEF AheadOfUpstream
  <2> QED
    BY <1>2, <2>2 DEF Unmerged
<1>5. CASE branch[n] # Nil /\ branch[n].up = NoUpstream
  <2>1. unmerged \in AheadOfBase(n, registry[n].base, registry[n].resumed)
    BY <1>0, <1>2, <1>5 DEF UnmergedReports
  <2>2. unmerged = (branch[n].tip > registry[n].base \/ branch[n].tip > branch[n].from)
    BY <1>5, <2>1 DEF AheadOfBase
  <2> QED
    BY <1>2, <2>2 DEF Unmerged
<1> QED
  BY <1>3, <1>4, <1>5

\* An unforced Remove never passes its checks over commits that a branch new at
\* its creation has and no upstream: the registry the decision is made on is
\* the one on disk, and no other caller's or process's step lets it by.  A
\* probe of git's that fails is left out: the code takes it for no work.
THEOREM FreshWorkIsRefused ==
    ASSUME "probeerr" \notin Events PROVE Spec => FreshWorkRefused
<1> DEFINE Refused ==
      \A c \in Caller, n \in Name :
          PassesChecks(c, n) /\ HasDir(n) /\ checkout[n].own /\ ~registry[n].resumed
          => ~Unmerged(n)
<1>1. IInv /\ [Next]_vars => [Refused]_vars
  <2> SUFFICES ASSUME IInv, [Next]_vars, NEW c \in Caller, NEW n \in Name,
                      PassesChecks(c, n), HasDir(n), checkout[n].own,
                      ~registry[n].resumed
               PROVE  ~Unmerged(n)
    OBVIOUS
  <2>0. TypeOK /\ pc[c] = "body" /\ pc'[c] = "gitrm"
    BY DEF IInv, PassesChecks
  <2>1. ASSUME NEW p \in Proc, Crash(p) PROVE FALSE
    BY <2>0, <2>1, CrashStands DEF FrameOf
  <2>2. ~HostStep
    BY <2>0, HostStands
  <2>3. PICK d \in Caller : CallerStep(d)
    BY <2>1, <2>2, StepCases
  <2>4. d = c
    BY <2>0, <2>3, OthersStand DEF FrameOf
  <2>5. RemoveBody(c)
    <3> USE <2>0, <2>3, <2>4 DEF Goto, Return, TypeOK
    <3>1. Work(c)
      BY DEF CallerStep, Invoke, TakeMutex, TakeFlock
    <3>2. \/ EarlyError(c) \/ CreateExisting(c) \/ CreateFresh(c) \/ ClaimBody(c)
          \/ ReleaseBody(c) \/ ListBody(c) \/ RemoveBody(c)
      BY <3>1, WriterReturns
         DEF Work, Writes, Load, ResolveBase, GitAdd, GitRemove, PruneFails, GitPrune, DeleteBranch,
             SaveFails, Unlock, Saving
    <3> QED
      BY <3>2 DEF EarlyError, CreateExisting, CreateFresh, ClaimBody, ReleaseBody, ListBody
  <2> QED
    BY <2>5, RemoveReads
<1> QED
  BY <1>1, Invariance, PTL DEF Spec, FreshWorkRefused

----------------------------------------------------------------------------
(* Worktrees that are gone.                                                *)

\* The registry, the branches and the worktrees stand still under a caller
\* that holds the file lock, but for its own steps.
LEMMA LockedOut ==
    ASSUME IInv, NEW d \in Caller, flock = d, NEW c \in Caller \ {d}, CallerStep(c)
    PROVE  UNCHANGED <<registry, head, branch, checkout, orphan>>
<1>1. pc[c] \notin Working
  BY DEF IInv, WorkersHoldFlock
<1>2. ~GitStep(c)
  BY <1>1 DEF GitStep, GitAdd, GitRemove, PruneFails, GitPrune, DeleteBranch, SaveFails, Working, Saving
<1>3. ~Writes(c)
  BY <1>1, WriterReturns DEF IInv, Working
<1> QED
  BY <1>2, <1>3, CallerGit, CallerOnlySaves

\* The registry may forget the worktree: it is not one that it has to know, or
\* a dead process's command added it.
GoneFor(n) == ~Managed(n) \/ checkout[n].late

\* What a caller at work is about to drop is gone: the entries that it has
\* not seen in git, and the one it removes.
DropsTheGone(c) ==
    /\ pc[c] \in Working => \A n \in Name :
          registry[n] # Nil /\ n \notin seen[c] =>
              GoneFor(n) \/ (pc[c] = "saveNew" /\ n = call[c].name)
    /\ pc[c] \in {"prune", "branch", "saveRemove"} => GoneFor(call[c].name)

\* The worktrees that callers have added and not yet registered.
InHand == {call[c].name : c \in {d \in Caller : pc[d] = "saveNew"}}

\* The worktrees that dead processes' commands have added, and may yet add.
LateOnes == {n \in Name : checkout[n] # Nil /\ checkout[n].late}
AddedByDead == {k.name : k \in {j \in orphan : j.cmd = "add"}}

\* The worktrees git has, or may yet have, that nobody is going to register.
Loose == (Stranded \ InHand) \cup LateOnes \cup AddedByDead

\* Each process that died left at most one.
LooseBounded == IsFiniteSet(Loose) /\ Cardinality(Loose) <= Cardinality(Proc \ alive)

GoneInv == \A c \in Caller : DropsTheGone(c)

\* Marking a worktree that could not be removed lets the registry forget it,
\* and changes no other.
LEMMA KeptIsGone ==
    ASSUME NEW wts \in [Name -> Checkout \cup {Nil}], NEW m \in Name,
           checkout' = KeptIn(wts, m)
    PROVE  /\ GoneFor(m)'
           /\ \A n \in Name \ {m} : checkout'[n] = wts[n]
           /\ checkout'[m] # Nil => wts[m] # Nil /\ checkout'[m].late = wts[m].late
<1>1. CASE wts[m] = Nil
  BY <1>1 DEF KeptIn, GoneFor, Managed
<1>2. CASE wts[m] # Nil
  <2>1. /\ checkout'[m] = [wts[m] EXCEPT !.kept = TRUE]
        /\ \A n \in Name \ {m} : checkout'[n] = wts[n]
    BY <1>2 DEF KeptIn
  <2>2. checkout'[m].kept /\ checkout'[m].late = wts[m].late
    BY <1>2, <2>1 DEF Checkout
  <2> QED
    BY <1>2, <2>1, <2>2 DEF GoneFor, Managed
<1> QED
  BY <1>1, <1>2

\* What git's commands, but for an add, leave of a worktree is as it was, or is
\* marked as kept.
Lessened(n) == checkout'[n] = Nil \/ checkout'[n] = checkout[n] \/ (checkout[n] # Nil
                  /\ checkout'[n].kept /\ checkout'[n].late = checkout[n].late)

\* So it is after every step of a caller that adds none.
LEMMA CallerLessens ==
    ASSUME TypeOK, NEW c \in Caller, CallerStep(c), NEW n \in Name,
           ~(GitAdd(c) /\ call[c].name = n /\ pc'[c] = "saveNew")
    PROVE  Lessened(n)
<1> DEFINE m == call[c].name
<1>0. /\ checkout \in [Name -> Checkout \cup {Nil}]
      /\ Pruned \in [Name -> Checkout \cup {Nil}]
      /\ \A j \in Name : Pruned[j] = Nil \/ Pruned[j] = checkout[j]
      /\ pc[c] # "idle" => m \in Name
  BY PrunedType DEF TypeOK, GitTypeOK, Pruned, Call
<1>1. ASSUME NEW wts \in [Name -> Checkout \cup {Nil}], m \in Name, checkout' = KeptIn(wts, m),
             wts[n] = Nil \/ wts[n] = checkout[n]
      PROVE  Lessened(n)
  <2>1. CASE wts[m] = Nil \/ n # m
    BY <1>1, <2>1 DEF KeptIn, Lessened
  <2>2. CASE wts[m] # Nil /\ n = m
    <3>1. checkout'[n] = [checkout[n] EXCEPT !.kept = TRUE] /\ checkout[n] # Nil
      BY <1>1, <2>2 DEF KeptIn
    <3>2. checkout'[n].kept /\ checkout'[n].late = checkout[n].late
      BY <1>0, <3>1 DEF Checkout
    <3> QED
      BY <3>1, <3>2 DEF Lessened
  <2> QED
    BY <2>1, <2>2
<1>2. ASSUME NEW force, WorktreeRemove(m, force) PROVE Lessened(n)
  BY <1>0, <1>2 DEF WorktreeRemove, Lessened
<1>3. CASE WorktreePrune \/ UNCHANGED checkout
  BY <1>0, <1>3 DEF WorktreePrune, Lessened
<1>4. CASE GitAdd(c)
  BY <1>0, <1>3, <1>4 DEF GitAdd, WorktreeAdd, Goto, TypeOK, Lessened
<1>5. CASE GitRemove(c)
  BY <1>0, <1>1, <1>2, <1>3, <1>5 DEF GitRemove, PruneFails
<1>6. CASE GitPrune(c) \/ DeleteBranch(c)
  BY <1>3, <1>6 DEF GitPrune, DeleteBranch, BranchDelete
<1>7. CASE SaveFails(c)
  BY <1>0, <1>1, <1>3, <1>7 DEF SaveFails, TakenBack, Saving, Lessened
<1>8. CASE ~GitStep(c)
  BY <1>3, <1>8, CallerGit
<1> QED
  BY <1>4, <1>5, <1>6, <1>7, <1>8 DEF GitStep

\* A user's step adds no worktree of the extension's, and makes none that the
\* registry may forget one that it may not.
LEMMA UserLessens ==
    ASSUME TypeOK, User, NEW n \in Name
    PROVE  /\ GoneFor(n) => GoneFor(n)'
           /\ checkout'[n] # Nil /\ checkout'[n].late => checkout[n] # Nil /\ checkout[n].late
<1> USE DEF TypeOK, GitTypeOK, GoneFor, Managed, Hidden, HasDir
<1>1. CASE MoveHead
  BY <1>1 DEF MoveHead
<1> DEFINE Touched(m) ==
      /\ \A j \in Name \ {m} : checkout'[j] = checkout[j]
      /\ checkout[m] # Nil
      /\ checkout'[m].own = checkout[m].own /\ checkout'[m].kept = checkout[m].kept
      /\ checkout'[m].late = checkout[m].late
      /\ checkout'[m].dir => checkout[m].dir
<1>2. ASSUME NEW m \in Name, Commit(m) \/ Edit(m) \/ DeleteDir(m) \/ ToggleLock(m)
      PROVE  Touched(m)
  <2>1. CASE Commit(m)
    BY <2>1 DEF Commit, Checkout
  <2>2. CASE Edit(m)
    BY <2>2 DEF Edit, Checkout
  <2>3. CASE DeleteDir(m)
    BY <2>3 DEF DeleteDir, Checkout
  <2>4. CASE ToggleLock(m)
    BY <2>4 DEF ToggleLock, Checkout
  <2> QED
    BY <1>2, <2>1, <2>2, <2>3, <2>4
<1>3. ASSUME NEW m \in Name, Push(m) \/ MakeBranch(m) PROVE UNCHANGED checkout
  BY <1>3 DEF Push, MakeBranch
<1>4. ASSUME NEW m \in Name, RemoveOutOfBand(m) PROVE checkout' = [checkout EXCEPT ![m] = Nil]
  BY <1>4 DEF RemoveOutOfBand, WorktreeRemove
<1>5. ASSUME NEW m \in Name, AddOutOfBand(m)
      PROVE  /\ \A j \in Name \ {m} : checkout'[j] = checkout[j]
             /\ ~checkout'[m].own /\ ~checkout'[m].late
  BY <1>5 DEF AddOutOfBand, NewCheckout
<1> QED
  BY <1>1, <1>2, <1>3, <1>4, <1>5 DEF User

\* The end of an orphaned command adds no worktree but a late one.
LEMMA OrphanLessens ==
    ASSUME TypeOK, OrphanEnds, NEW n \in Name
    PROVE  \/ checkout'[n] = Nil \/ checkout'[n] = checkout[n]
           \/ checkout'[n].late /\ n \in AddedByDead
<1> USE DEF TypeOK, GitTypeOK
<1>1. PICK k \in orphan :
        \/ k.cmd = "add" /\ \E at \in Commits : WorktreeAdd(k.name, k.flag, at, TRUE)
        \/ WorktreeRemove(k.name, k.flag) \/ WorktreePrune \/ UNCHANGED checkout
  BY DEF OrphanEnds, BranchDelete
<1>2. ASSUME NEW at \in Commits, WorktreeAdd(k.name, k.flag, at, TRUE), k.cmd = "add"
      PROVE  checkout'[n] = checkout[n] \/ (checkout'[n].late /\ n \in AddedByDead)
  <2>1. checkout' = [checkout EXCEPT ![k.name] = [NewCheckout EXCEPT !.late = TRUE]]
    BY <1>2 DEF WorktreeAdd
  <2>2. [NewCheckout EXCEPT !.late = TRUE].late
    BY DEF NewCheckout
  <2> QED
    BY <1>2, <2>1, <2>2 DEF AddedByDead
<1> QED
  BY <1>1, <1>2 DEF WorktreeRemove, WorktreePrune, Pruned

\* What is gone stays gone, unless a caller adds it anew.
LEMMA GoneStays ==
    ASSUME TypeOK, [Next]_vars, NEW n \in Name, GoneFor(n)
    PROVE  \/ GoneFor(n)'
           \/ \E c \in Caller : GitAdd(c) /\ call[c].name = n /\ pc'[c] = "saveNew"
<1>1. ASSUME Lessened(n) PROVE GoneFor(n)'
  BY <1>1 DEF Lessened, GoneFor, Managed, Hidden
<1>2. ASSUME NEW p \in Proc, Crash(p) PROVE GoneFor(n)'
  BY <1>1, <1>2 DEF Crash, Lessened
<1>3. CASE HostStep
  <2>1. CASE OrphanEnds
    <3>1. CASE checkout'[n] = Nil \/ checkout'[n] = checkout[n]
      BY <1>1, <3>1 DEF Lessened
    <3>2. CASE checkout'[n].late
      BY <3>2 DEF GoneFor
    <3> QED
      BY <2>1, <3>1, <3>2, OrphanLessens
  <2> QED
    BY <1>1, <1>3, <2>1, UserLessens
       DEF HostStep, SwitchSession, Tick, vars, gitVars, Lessened
<1> QED
  BY <1>1, <1>2, <1>3, StepCases, CallerLessens

\* Only an orphan's end makes a worktree late, one of those it was to add, and
\* only a death leaves more of these.
LEMMA LateStays ==
    ASSUME TypeOK, [Next]_vars, \A p \in Proc : ~Crash(p)
    PROVE  (LateOnes \cup AddedByDead)' \subseteq LateOnes \cup AddedByDead
<1>1. AddedByDead' \subseteq AddedByDead
  <2>1. orphan' \subseteq orphan
    BY StepCases, CallerGit
       DEF HostStep, SwitchSession, Tick, User, OrphanEnds, vars, gitVars
  <2> QED
    BY <2>1 DEF AddedByDead
<1>2. ASSUME NEW n \in Name, checkout'[n] # Nil, checkout'[n].late
      PROVE  n \in LateOnes \cup AddedByDead
  <2>1. CASE Lessened(n)
    BY <1>2, <2>1 DEF Lessened, LateOnes
  <2>2. ASSUME NEW c \in Caller, GitAdd(c), call[c].name = n, pc'[c] = "saveNew" PROVE FALSE
    <3>1. PICK resume, at : WorktreeAdd(n, resume, at, FALSE)
      BY <2>2 DEF GitAdd, Return, TypeOK
    <3> QED
      BY <1>2, <3>1 DEF WorktreeAdd, NewCheckout, TypeOK, GitTypeOK
  <2>3. CASE HostStep
    <3>1. CASE User
      BY <1>2, <3>1, UserLessens DEF LateOnes
    <3>2. CASE OrphanEnds
      BY <1>2, <3>2, OrphanLessens DEF LateOnes
    <3> QED
      BY <2>1, <2>3, <3>1, <3>2 DEF HostStep, SwitchSession, Tick, vars, gitVars, Lessened
  <2> QED
    BY <2>1, <2>2, <2>3, StepCases, CallerLessens
<1> QED
  BY <1>1, <1>2 DEF LateOnes

\* A caller's own step keeps what it is about to drop gone.
LEMMA OwnDrops ==
    ASSUME IInv, LedgerInv, [Next]_vars, NEW c \in Caller, CallerStep(c), DropsTheGone(c)
    PROVE  DropsTheGone(c)'
<1> DEFINE n == call[c].name
<1>0. /\ TypeOK /\ PlaceFits(c) /\ SnapshotIsCurrent
      /\ pc[c] # "idle" => n \in Name
      /\ checkout \in [Name -> Checkout \cup {Nil}]
  BY DEF IInv, LedgerInv, TypeOK, GitTypeOK, Call
<1>1. CASE pc'[c] \notin Working
  BY <1>1 DEF DropsTheGone, Working, Saving
<1>2. CASE Load(c)
  <2>1. pc'[c] = "body" /\ seen'[c] = Found /\ UNCHANGED checkout
    BY <1>0, <1>2 DEF Load, Goto, TypeOK, gitVars
  <2> QED
    BY <2>1 DEF DropsTheGone, GoneFor, Managed, Hidden, Found, Listed
<1>3. CASE pc'[c] \in Working /\ ~Load(c)
  <2>0. pc[c] \in Working
    <3>1. Work(c) /\ ~Unlock(c)
      BY <1>0, <1>3
         DEF CallerStep, Invoke, TakeMutex, TakeFlock, Unlock, Goto, TypeOK, Working, Saving
    <3> QED
      BY <1>0, <1>3, <3>1, WorkFrame
  <2>1. UNCHANGED <<registry, call, reg, seen>> /\ pc[c] \notin Saving
    <3>1. Work(c) /\ ~Unlock(c) /\ ~Load(c)
      BY <1>0, <1>3, <2>0
         DEF CallerStep, Invoke, TakeMutex, TakeFlock, Unlock, Goto, TypeOK, Working, Saving
    <3>2. ~Writes(c) /\ ~SaveFails(c)
      BY <1>0, <1>3, WriterReturns DEF SaveFails, Return, TypeOK, Working, Saving
    <3>3. pc[c] \notin Saving
      BY <3>1, <3>2
         DEF Work, Writes, EarlyError, CreateExisting, CreateFresh, ResolveBase, GitAdd, ClaimBody,
             ReleaseBody, ListBody, RemoveBody, GitRemove, PruneFails, GitPrune, DeleteBranch, Saving
    <3> QED
      BY <1>0, <3>1, <3>2, <3>3, WorkFrame, CallerOnlySaves
  <2>2. ASSUME NEW m \in Name, GoneFor(m)
        PROVE  GoneFor(m)' \/ (pc'[c] = "saveNew" /\ m = n)
    <3>1. ASSUME NEW d \in Caller, GitAdd(d), pc'[d] = "saveNew" PROVE d = c
      BY <1>0, <1>3, <2>0, <3>1 DEF IInv, WorkersHoldFlock, GitAdd, Working
    <3> QED
      BY <1>0, <2>2, <3>1, GoneStays
  <2>3. ASSUME NEW m \in Name, registry[m] # Nil, m \notin seen[c]
        PROVE  GoneFor(m)' \/ (pc'[c] = "saveNew" /\ m = n)
    BY <2>0, <2>1, <2>2, <2>3 DEF DropsTheGone, Saving
  <2>4. ASSUME pc'[c] \in {"prune", "branch", "saveRemove"} PROVE GoneFor(n)'
    <3>1. CASE pc[c] \in {"prune", "branch", "saveRemove"}
      BY <1>0, <2>0, <2>1, <2>2, <2>4, <3>1 DEF DropsTheGone, GoneFor, Managed, Hidden, Working, Saving
    <3>2. CASE RemoveBody(c)
      <4>1. reg[c] = registry /\ n \in Name
        BY <1>0, <2>0 DEF SnapshotIsCurrent, Working, Saving
      <4>2. registry[n] # Nil /\ n \notin seen[c]
        BY <1>0, <2>4, <3>2, <4>1 DEF RemoveBody, Goto, Return, TypeOK
      <4> QED
        BY <2>1, <2>3, <2>4, <4>1, <4>2 DEF GoneFor, Managed, Hidden
    <3>3. CASE GitRemove(c)
      <4>1. n \in Name
        BY <1>0, <3>3 DEF GitRemove, PruneFails
      <4>2. CASE WorktreeRemove(n, Forced(c))
        BY <1>0, <2>1, <4>1, <4>2 DEF WorktreeRemove, GoneFor, Managed
      <4>3. CASE checkout' = KeptIn(Pruned, n)
        <5>1. Pruned \in [Name -> Checkout \cup {Nil}]
          BY <1>0, PrunedType DEF TypeOK
        <5> QED
          BY <2>1, <4>1, <4>3, <5>1, KeptIsGone DEF GoneFor, Managed, Hidden
      <4>4. ~Return(c, "error")
        BY <1>0, <2>4 DEF Return, TypeOK
      <4> QED
        BY <3>3, <4>2, <4>3, <4>4 DEF GitRemove, PruneFails
    <3>4. CASE pc[c] \notin {"prune", "branch", "saveRemove"} /\ ~RemoveBody(c) /\ ~GitRemove(c)
      <4>1. pc'[c] \notin {"prune", "branch", "saveRemove"}
        <5> USE DEF Goto, Return, TypeOK
        <5>1. CASE (\E k \in Calls : Invoke(c, k)) \/ TakeMutex(c) \/ TakeFlock(c) \/ Unlock(c)
          BY <1>0, <5>1 DEF Invoke, TakeMutex, TakeFlock, Unlock
        <5>2. CASE \/ EarlyError(c) \/ CreateExisting(c) \/ CreateFresh(c) \/ ClaimBody(c)
                   \/ ReleaseBody(c) \/ ListBody(c)
          BY <1>0, <5>2 DEF EarlyError, CreateExisting, CreateFresh, ClaimBody, ReleaseBody,
                            ListBody
        <5>3. CASE ResolveBase(c) \/ GitAdd(c)
          BY <1>0, <5>3 DEF ResolveBase, GitAdd
        <5>4. CASE GitPrune(c) \/ DeleteBranch(c) \/ Writes(c) \/ SaveFails(c)
          BY <1>0, <2>1, <3>4, <5>4, WriterReturns DEF GitPrune, DeleteBranch, SaveFails
        <5> QED
          BY <1>3, <3>4, <5>1, <5>2, <5>3, <5>4 DEF CallerStep, Work, Writes
      <4> QED
        BY <2>4, <4>1
    <3> QED
      BY <3>1, <3>2, <3>3, <3>4
  <2> QED
    BY <2>1, <2>3, <2>4 DEF DropsTheGone
<1> QED
  BY <1>1, <1>2, <1>3

\* Every step keeps it so.
LEMMA StepGone ==
    ASSUME IInv, LedgerInv, GoneInv, [Next]_vars
    PROVE  GoneInv'
<1>0. TypeOK
  BY DEF IInv
<1>2. ASSUME NEW d \in Caller PROVE DropsTheGone(d)'
  <2>0. DropsTheGone(d)
    BY DEF GoneInv
  <2>1. ASSUME UNCHANGED <<FrameOf(d), registry>>,
               pc[d] \in Working =>
                   \A m \in Name : GoneFor(m) => GoneFor(m)'
        PROVE  DropsTheGone(d)'
    <3>1. UNCHANGED <<pc[d], call[d], seen[d], registry>>
      BY <2>1 DEF FrameOf
    <3>2. CASE pc[d] \notin Working
      BY <3>1, <3>2 DEF DropsTheGone, Working, Saving
    <3>3. CASE pc[d] \in Working
      <4>1. call[d].name \in Name
        BY <1>0, <3>3 DEF TypeOK, Call, Working, Saving
      <4> QED
        BY <2>0, <2>1, <3>1, <3>3, <4>1 DEF DropsTheGone
    <3> QED
      BY <3>2, <3>3
  <2>2. ASSUME NEW c \in Caller, CallerStep(c) PROVE DropsTheGone(d)'
    <3>1. CASE c = d
      BY <1>0, <2>0, <2>2, <3>1, OwnDrops
    <3>2. CASE c # d /\ pc[d] \in Working
      <4>1. UNCHANGED <<registry, checkout, orphan>>
        BY <2>2, <3>2, LockedOut DEF IInv, WorkersHoldFlock
      <4>2. \A m \in Name : GoneFor(m) => GoneFor(m)'
        BY <4>1 DEF GoneFor, Managed, Hidden
      <4> QED
        BY <1>0, <2>1, <2>2, <3>2, <4>1, <4>2, OthersStand
    <3>3. CASE c # d /\ pc[d] \notin Working
      BY <1>0, <2>2, <3>3, OthersStand DEF FrameOf, DropsTheGone, Working, Saving
    <3> QED
      BY <3>1, <3>2, <3>3
  <2>3. ASSUME ~\E c \in Caller : GitAdd(c)
        PROVE  \A m \in Name : GoneFor(m) => GoneFor(m)'
    BY <1>0, <2>3, GoneStays
  <2>4. ASSUME NEW p \in Proc, Crash(p) PROVE DropsTheGone(d)'
    <3>1. CASE pc'[d] = "idle"
      BY <3>1 DEF DropsTheGone, Working, Saving
    <3>2. CASE UNCHANGED FrameOf(d)
      <4>1. \A m \in Name : GoneFor(m) => GoneFor(m)'
        BY <2>4 DEF Crash, GoneFor, Managed, Hidden
      <4> QED
        BY <2>1, <2>4, <3>2, <4>1 DEF Crash
    <3> QED
      BY <2>4, <3>1, <3>2, CrashStands
  <2>5. CASE HostStep
    <3>1. ~\E c \in Caller : GitAdd(c) /\ pc'[c] = "saveNew"
      BY <1>0, <2>5, HostStands DEF GitAdd
    <3>2. \A m \in Name : GoneFor(m) => GoneFor(m)'
      BY <1>0, <3>1, GoneStays
    <3> QED
      BY <2>1, <2>5, <3>2, HostStands
  <2> QED
    BY <2>2, <2>4, <2>5, StepCases
<1> QED
  BY <1>2 DEF GoneInv

\* A save forgets only what it is about to drop.
LEMMA Forgets ==
    ASSUME IInv, NEW c \in Caller, Writes(c), DropsTheGone(c),
           NEW n \in Name, registry[n] # Nil, registry'[n] = Nil
    PROVE  GoneFor(n)
<1> DEFINE m == call[c].name
<1>0. /\ TypeOK /\ DecisionOf(c) /\ reg[c] = registry /\ m \in Name
      /\ pc[c] \in Working /\ Reconciled(c) \in [Name -> Entry \cup {Nil}]
  BY SaveFinds, WriterReturns, ReconciledType DEF Working, Registry
<1>1. CASE SaveRemove(c)
  <2>1. n = m
    BY <1>0, <1>1 DEF SaveRemove, TypeOK, Registry
  <2> QED
    BY <1>1, <2>1 DEF SaveRemove, DropsTheGone
<1>2. CASE ~SaveRemove(c)
  <2>1. n \notin seen[c] /\ ~(pc[c] = "saveNew" /\ n = m)
    <3>1. CASE SaveNew(c)
      <4>1. registry'[m] # Nil /\ \A j \in Name \ {m} : registry'[j] = Reconciled(c)[j]
        BY <1>0, <3>1, NewEntryType, NilAssumption DEF SaveNew, NewEntry
      <4> QED
        BY <1>0, <4>1 DEF Reconciled
    <3>2. ASSUME NEW cl \in Claim \cup {Nil}, Reconciled(c)[m] # Nil,
                 registry' = WithClaim(c, cl), pc[c] # "saveNew"
          PROVE  n \notin seen[c] /\ ~(pc[c] = "saveNew" /\ n = m)
      <4>1. Reconciled(c)[m] \in Entry
        BY <1>0, <3>2
      <4>2. [Reconciled(c)[m] EXCEPT !.claim = cl] \in Entry
        BY <4>1, EntryWithClaim
      <4>3. registry' = [Reconciled(c) EXCEPT ![m] = [Reconciled(c)[m] EXCEPT !.claim = cl]]
        BY <1>0, <3>2 DEF WithClaim
      <4>4. registry'[m] # Nil /\ \A j \in Name \ {m} : registry'[j] = Reconciled(c)[j]
        BY <1>0, <4>2, <4>3, NilAssumption
      <4> QED
        BY <1>0, <3>2, <4>4 DEF Reconciled
    <3>3. CASE SaveClaim(c)
      BY <1>0, <3>2, <3>3, NewClaimType DEF SaveClaim, DecisionOf
    <3>4. CASE SaveRelease(c)
      BY <1>0, <3>2, <3>4 DEF SaveRelease, DecisionOf
    <3>5. CASE SaveList(c)
      BY <1>0, <3>5 DEF SaveList, Reconciled
    <3> QED
      BY <1>2, <3>1, <3>3, <3>4, <3>5 DEF Writes
  <2> QED
    BY <1>0, <2>1 DEF DropsTheGone
<1> QED
  BY <1>1, <1>2

\* The invariant holds throughout.
THEOREM GoneInvariance == Spec => []GoneInv
<1>1. Init => GoneInv
  BY DEF Init, GitInit, GoneInv, DropsTheGone, Working, Saving
<1>2. IInv /\ LedgerInv /\ GoneInv /\ [Next]_vars => GoneInv'
  BY StepGone
<1> QED
  BY <1>1, <1>2, Invariance, LedgerInvariance, PTL DEF Spec

\* The registry forgets a worktree only once git has, under every event there
\* is: neither the reconcile of an old listing nor a Remove drops the entry of
\* one that it has to know, unless a dead process's command added it.
THEOREM ForgetsTheGone == Spec => ForgottenOnlyWhenGone
<1> DEFINE Gone ==
      \A n \in Name :
          registry[n] # Nil /\ registry'[n] = Nil
          => ~Managed(n) \/ checkout[n].late
<1>1. IInv /\ GoneInv /\ [Next]_vars => [Gone]_vars
  <2> SUFFICES ASSUME IInv, GoneInv, [Next]_vars, NEW n \in Name,
                      registry[n] # Nil, registry'[n] = Nil
               PROVE  ~Managed(n) \/ checkout[n].late
    OBVIOUS
  <2>1. PICK c \in Caller : Writes(c)
    BY OnlySavesWrite
  <2> QED
    BY <2>1, Forgets DEF GoneInv, GoneFor
<1> QED
  BY <1>1, GoneInvariance, Invariance, PTL DEF Spec, ForgottenOnlyWhenGone

\* A caller that has a new worktree in hand registers it, takes it back, or
\* fails to.
LEMMA InHandStays ==
    ASSUME IInv, NEW d \in Caller, pc[d] = "saveNew",
           NEW n \in Name, n = call[d].name,
           [Next]_vars, \A p \in Proc : ~Crash(p)
    PROVE  \/ pc'[d] = "saveNew" /\ call'[d] = call[d]
           \/ registry'[n] # Nil
           \/ ~Managed(n)'
<1>0. TypeOK
  BY DEF IInv
<1>1. CASE CallerStep(d)
  <2>1. SaveNew(d) \/ SaveFails(d)
    BY <1>1
       DEF CallerStep, Work, Invoke, TakeMutex, TakeFlock, Load, EarlyError, CreateExisting,
           CreateFresh, ResolveBase, GitAdd, ClaimBody, ReleaseBody, ListBody, RemoveBody,
           GitRemove, PruneFails, GitPrune, DeleteBranch, SaveClaim, SaveRelease, SaveRemove, SaveList,
           Unlock
  <2>2. CASE SaveNew(d)
    <3>1. registry' = [Reconciled(d) EXCEPT ![n] = NewEntry(d)]
      BY <2>2 DEF SaveNew, NewEntry
    <3> QED
      BY <1>0, <3>1, ReconciledType, NewEntryType, NilAssumption DEF Registry
  <2>3. CASE SaveFails(d)
    <3>0. checkout \in [Name -> Checkout \cup {Nil}]
      BY <1>0 DEF TypeOK, GitTypeOK
    <3>1. CASE checkout' = [checkout EXCEPT ![n] = Nil]
      BY <1>0, <3>0, <3>1 DEF Managed
    <3>2. CASE checkout' = KeptIn(checkout, n)
      <4>1. CASE checkout[n] = Nil
        BY <3>2, <4>1 DEF KeptIn, Managed
      <4>2. CASE checkout[n] # Nil
        <5>1. checkout'[n] = [checkout[n] EXCEPT !.kept = TRUE]
          BY <1>0, <3>0, <3>2, <4>2 DEF KeptIn
        <5> QED
          BY <1>0, <3>0, <4>2, <5>1 DEF Checkout, Managed
      <4> QED
        BY <4>1, <4>2
    <3> QED
      BY <2>3, <3>1, <3>2 DEF SaveFails, TakenBack
  <2> QED
    BY <2>1, <2>2, <2>3
<1>2. CASE ~CallerStep(d)
  <2>1. UNCHANGED FrameOf(d)
    BY <1>0, <1>2, StepCases, OthersStand, HostStands
  <2> QED
    BY <2>1 DEF FrameOf
<1> QED
  BY <1>1, <1>2

\* Only a death leaves more loose worktrees.
LEMMA LooseStays ==
    ASSUME IInv, GoneInv, [Next]_vars, \A p \in Proc : ~Crash(p)
    PROVE  Loose' \subseteq Loose
<1> SUFFICES ASSUME NEW n \in Stranded', n \notin InHand', n \notin LateOnes'
             PROVE  n \in Stranded \ InHand
  BY LateStays DEF IInv, Loose
<1>0. TypeOK /\ n \in Name /\ Managed(n)' /\ ~GoneFor(n)' /\ registry'[n] = Nil
  BY DEF IInv, Stranded, GoneFor, Managed, LateOnes
<1>1. ~GoneFor(n)
  <2>1. ASSUME NEW c \in Caller, GitAdd(c), call[c].name = n, pc'[c] = "saveNew" PROVE FALSE
    <3>1. UNCHANGED call
      BY <2>1 DEF GitAdd, frameVars
    <3> QED
      BY <2>1, <3>1 DEF InHand
  <2> QED
    BY <1>0, <2>1, GoneStays
<1>2. registry[n] = Nil
  <2> SUFFICES ASSUME registry[n] # Nil PROVE FALSE
    OBVIOUS
  <2>1. PICK c \in Caller : Writes(c)
    BY <1>0, OnlySavesWrite
  <2> QED
    BY <1>0, <1>1, <2>1, Forgets DEF GoneInv
<1>3. n \notin InHand
  <2> SUFFICES ASSUME NEW d \in Caller, pc[d] = "saveNew", call[d].name = n PROVE FALSE
    BY DEF InHand
  <2>1. pc'[d] = "saveNew" /\ call'[d] = call[d]
    BY <1>0, InHandStays
  <2> QED
    BY <2>1 DEF InHand
<1> QED
  BY <1>0, <1>1, <1>2, <1>3 DEF GoneFor, Stranded

\* And a death leaves at most one: only the holder of the file lock adds.
LEMMA CrashLoose ==
    ASSUME IInv, NEW p \in Proc, Crash(p)
    PROVE  \E n : Loose' \subseteq Loose \cup {n}
<1> DEFINE n == call[flock].name
<1>0. TypeOK /\ WorkersHoldFlock
  BY DEF IInv
<1>1. ASSUME NEW c \in Caller, pc[c] \in {"add", "saveNew"} PROVE call[c].name = n
  BY <1>0, <1>1 DEF WorkersHoldFlock, Working, Saving
<1>2. AddedByDead' \subseteq AddedByDead \cup {n}
  <2> SUFFICES ASSUME NEW k \in orphan', k.cmd = "add", k \notin orphan PROVE k.name = n
    BY DEF AddedByDead
  <2>1. PICK c \in Caller : k \in GitRunning(c)
    BY DEF Crash, LeftRunning
  <2>2. pc[c] = "add" /\ k.name = call[c].name
    BY <2>1 DEF GitRunning, Child
  <2> QED
    BY <1>1, <2>2
<1>3. InHand \subseteq InHand' \cup {n}
  BY <1>1 DEF InHand
<1>4. Stranded' = Stranded /\ LateOnes' = LateOnes
  BY DEF Crash, Stranded, Managed, Hidden, LateOnes
<1>5. Loose' \subseteq Loose \cup {n}
  BY <1>2, <1>3, <1>4 DEF Loose
<1> QED
  BY <1>5

\* Every step keeps the loose worktrees as few as the dead.
LEMMA StepLoose ==
    ASSUME IsFiniteSet(Proc), IInv, GoneInv, LooseBounded, [Next]_vars
    PROVE  LooseBounded'
<1>0. TypeOK /\ TypeOK'
  BY StepTyping DEF IInv
<1>1. CASE \A p \in Proc : ~Crash(p)
  <2>1. alive' = alive
    BY <1>0, <1>1, StepCases, OthersStand, HostStands DEF hostVars
  <2>2. IsFiniteSet(Loose') /\ Cardinality(Loose') <= Cardinality(Loose)
    BY <1>1, LooseStays, FS_Subset DEF LooseBounded
  <2>3. IsFiniteSet(Proc \ alive) /\ IsFiniteSet(Loose)
    BY FS_Subset DEF LooseBounded
  <2> QED
    BY <2>1, <2>2, <2>3, FS_CardinalityType DEF LooseBounded
<1>2. ASSUME NEW p \in Proc, Crash(p) PROVE LooseBounded'
  <2>1. PICK n : Loose' \subseteq Loose \cup {n}
    BY <1>2, CrashLoose
  <2>2. /\ IsFiniteSet(Loose \cup {n})
        /\ Cardinality(Loose \cup {n}) <= Cardinality(Loose) + 1
    <3>1. IsFiniteSet(Loose) /\ Cardinality(Loose) \in Nat
      BY FS_CardinalityType DEF LooseBounded
    <3>2. /\ IsFiniteSet(Loose \cup {n})
          /\ Cardinality(Loose \cup {n}) =
                IF n \in Loose THEN Cardinality(Loose) ELSE Cardinality(Loose) + 1
      BY <3>1, FS_AddElement
    <3> QED
      BY <3>1, <3>2
  <2>3. IsFiniteSet(Loose') /\ Cardinality(Loose') <= Cardinality(Loose \cup {n})
    BY <2>1, <2>2, FS_Subset
  <2>4. IsFiniteSet(Proc \ alive)
    BY FS_Subset
  <2>5. Proc \ alive' = (Proc \ alive) \cup {p} /\ p \notin Proc \ alive
    BY <1>2 DEF Crash
  <2>6. Cardinality(Proc \ alive') = Cardinality(Proc \ alive) + 1
    BY <2>4, <2>5, FS_AddElement
  <2> QED
    BY <2>2, <2>3, <2>4, <2>6, FS_CardinalityType DEF LooseBounded
<1> QED
  BY <1>1, <1>2

\* While nobody is at work, each process that died has left at most one
\* worktree that the registry has to know and does not, and nothing else has
\* left any, under every event there is.
THEOREM FewAreStranded ==
    ASSUME IsFiniteSet(Proc) PROVE Spec => []NoStrandedWorktree
<1>1. Init => LooseBounded
  <2> SUFFICES ASSUME Init PROVE LooseBounded
    OBVIOUS
  <2>1. Loose = {} /\ Proc \ alive = {}
    BY DEF Init, GitInit, Loose, Stranded, Managed, LateOnes, AddedByDead
  <2> QED
    BY <2>1, FS_EmptySet DEF LooseBounded
<1>2. IInv /\ GoneInv /\ LooseBounded /\ [Next]_vars => LooseBounded'
  BY StepLoose
<1>3. IInv /\ LooseBounded => NoStrandedWorktree
  <2> SUFFICES ASSUME IInv, LooseBounded, flock = Nil
               PROVE  Cardinality(Stranded) <= Cardinality(Proc \ alive)
    BY DEF NoStrandedWorktree
  <2>1. InHand = {}
    BY ManagerAssumption DEF IInv, WorkersHoldFlock, InHand, Working, Saving, ManagerAssumption
  <2>2. Stranded \subseteq Loose
    BY <2>1 DEF Loose
  <2>3. IsFiniteSet(Stranded) /\ Cardinality(Stranded) <= Cardinality(Loose)
    BY <2>2, FS_Subset DEF LooseBounded
  <2>4. IsFiniteSet(Proc \ alive)
    BY FS_Subset
  <2> QED
    BY <2>3, <2>4, FS_CardinalityType DEF LooseBounded
<1> QED
  BY <1>1, <1>2, <1>3, GoneInvariance, Invariance, PTL DEF Spec
============================================================================
