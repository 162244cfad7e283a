----------------------- MODULE WorktreeManagerProofs -----------------------
(***************************************************************************)
(* What holds of WorktreeManager for every set of names, processes,        *)
(* callers and sessions, every TTL, every set of calls and every set of    *)
(* environment events.                                                     *)
(***************************************************************************)
EXTENDS WorktreeManager, TLAPS

----------------------------------------------------------------------------
(* Types.                                                                  *)

\* claimed_at, cut to a second, is a time.
LEMMA StampType == ASSUME now \in Nat PROVE Stamp \in Int
BY ManagerAssumption DEF ManagerAssumption, Stamp

\* newClaim makes a claim.
LEMMA NewClaimType ==
    ASSUME TypeOK, NEW c \in Caller
    PROVE  NewClaim(c) \in Claim
BY StampType, ManagerAssumption DEF TypeOK, NewClaim, Claim, ManagerAssumption

\* reconcile leaves a registry.
LEMMA ReconciledType ==
    ASSUME TypeOK, NEW c \in Caller
    PROVE  Reconciled(c) \in Registry
BY DEF TypeOK, Reconciled, Registry

\* A prune leaves each name a worktree or none.
LEMMA PrunedType ==
    ASSUME GitTypeOK
    PROVE  Pruned \in [Name -> Checkout \cup {Nil}]
BY DEF GitTypeOK, Pruned

\* So does marking one that could not be removed.
LEMMA KeptType ==
    ASSUME NEW wts \in [Name -> Checkout \cup {Nil}], NEW n \in Name
    PROVE  KeptIn(wts, n) \in [Name -> Checkout \cup {Nil}]
<1>1. CASE wts[n] = Nil
  BY <1>1 DEF KeptIn
<1>2. CASE wts[n] # Nil
  <2>1. [wts[n] EXCEPT !.kept = TRUE] \in Checkout
    BY <1>2 DEF Checkout
  <2> QED
    BY <1>2, <2>1 DEF KeptIn
<1> QED
  BY <1>1, <1>2

\* A branch off a commit of the main line is a branch.
LEMMA NewBranchType == ASSUME NEW at \in Nat PROVE NewBranch(at) \in Branch
BY DEF NewBranch, Branch, NoUpstream

\* A worktree just added is one.
LEMMA NewCheckoutType == NewCheckout \in Checkout
BY DEF NewCheckout, Checkout

\* The commands that change the repository keep it well typed.
LEMMA CommandTyping ==
    ASSUME GitTypeOK, NEW n \in Name, NEW at \in Nat, NEW resume, NEW force,
           NEW late \in BOOLEAN,
           \/ WorktreeAdd(n, resume, at, late) \/ WorktreeRemove(n, force)
           \/ WorktreePrune \/ BranchDelete(n)
    PROVE  /\ branch' \in [Name -> Branch \cup {Nil}]
           /\ checkout' \in [Name -> Checkout \cup {Nil}]
<1>1. CASE WorktreeAdd(n, resume, at, late)
  <2>1. [NewCheckout EXCEPT !.late = late] \in Checkout
    BY NewCheckoutType DEF Checkout
  <2> QED
    BY <1>1, <2>1, NewBranchType DEF WorktreeAdd, GitTypeOK
<1>2. CASE WorktreeRemove(n, force)
  BY <1>2 DEF WorktreeRemove, GitTypeOK
<1>3. CASE WorktreePrune
  BY <1>3, PrunedType DEF WorktreePrune, GitTypeOK
<1>4. CASE BranchDelete(n)
  BY <1>4 DEF BranchDelete, GitTypeOK
<1> QED
  BY <1>1, <1>2, <1>3, <1>4

\* An orphaned command that ends keeps the repository well typed.
LEMMA OrphanTyping == GitTypeOK /\ OrphanEnds => GitTypeOK'
<1> SUFFICES ASSUME GitTypeOK, OrphanEnds PROVE GitTypeOK'
  OBVIOUS
<1>1. PICK k \in orphan :
        /\ orphan' = orphan \ {k}
        /\ \/ k.cmd = "add" /\ \E at \in Commits : WorktreeAdd(k.name, k.flag, at, TRUE)
           \/ k.cmd = "remove" /\ WorktreeRemove(k.name, k.flag)
           \/ k.cmd = "prune" /\ WorktreePrune
           \/ k.cmd = "branch" /\ BranchDelete(k.name)
           \/ UNCHANGED <<branch, checkout>>
        /\ UNCHANGED head
  BY DEF OrphanEnds
<1>2. k \in Command
  BY DEF GitTypeOK
<1>3. k.name \in Name /\ Commits \subseteq Nat
  BY <1>2 DEF Command, Commits
<1>4. orphan' \subseteq Command
  BY <1>1 DEF GitTypeOK
<1>5. /\ branch' \in [Name -> Branch \cup {Nil}]
      /\ checkout' \in [Name -> Checkout \cup {Nil}]
  <2>1. CASE UNCHANGED <<branch, checkout>>
    BY <2>1 DEF GitTypeOK
  <2>2. CASE ~UNCHANGED <<branch, checkout>>
    BY <1>1, <1>3, <2>2, CommandTyping
  <2> QED
    BY <2>1, <2>2
<1> QED
  BY <1>1, <1>4, <1>5 DEF GitTypeOK

\* The user's actions keep the repository well typed.
LEMMA UserTyping == GitTypeOK /\ User => GitTypeOK'
<1> SUFFICES ASSUME GitTypeOK, User PROVE GitTypeOK'
  OBVIOUS
<1>0. UNCHANGED orphan
  BY DEF User
<1>1. CASE MoveHead
  BY <1>0, <1>1 DEF MoveHead, Commits, GitTypeOK
<1>2. ASSUME NEW n \in Name, Commit(n) PROVE GitTypeOK'
  <2>1. branch[n] \in Branch /\ checkout[n] \in Checkout
    BY <1>2 DEF Commit, GitTypeOK, HasDir
  <2>2. [branch[n] EXCEPT !.tip = @ + 1] \in Branch
    BY <2>1 DEF Branch
  <2>3. [checkout[n] EXCEPT !.dirty = FALSE] \in Checkout
    BY <2>1 DEF Checkout
  <2> QED
    BY <1>0, <1>2, <2>2, <2>3 DEF Commit, GitTypeOK
<1>3. ASSUME NEW n \in Name, Push(n) PROVE GitTypeOK'
  BY <1>0, <1>3 DEF Push, GitTypeOK, Branch
<1>4. ASSUME NEW n \in Name, Edit(n) PROVE GitTypeOK'
  BY <1>0, <1>4 DEF Edit, GitTypeOK, HasDir, Checkout
<1>5. ASSUME NEW n \in Name, DeleteDir(n) PROVE GitTypeOK'
  BY <1>0, <1>5 DEF DeleteDir, GitTypeOK, HasDir, Checkout
<1>6. ASSUME NEW n \in Name, RemoveOutOfBand(n) PROVE GitTypeOK'
  BY <1>0, <1>6 DEF RemoveOutOfBand, WorktreeRemove, GitTypeOK
<1>7. ASSUME NEW n \in Name, AddOutOfBand(n) PROVE GitTypeOK'
  BY <1>0, <1>7 DEF AddOutOfBand, NewCheckout, GitTypeOK, Checkout
<1>8. ASSUME NEW n \in Name, ToggleLock(n) PROVE GitTypeOK'
  BY <1>0, <1>8 DEF ToggleLock, GitTypeOK, Checkout
<1>9. ASSUME NEW n \in Name, MakeBranch(n) PROVE GitTypeOK'
  BY <1>0, <1>9, NewBranchType DEF MakeBranch, GitTypeOK
<1> QED
  BY <1>1, <1>2, <1>3, <1>4, <1>5, <1>6, <1>7, <1>8, <1>9 DEF User

\* Moving a caller on to a label.
LEMMA GotoType ==
    ASSUME TypeOK, NEW c \in Caller, NEW label \in PC, Goto(c, label)
    PROVE  pc' \in [Caller -> PC] /\ out' \in [Caller -> Result]
BY DEF TypeOK, Goto

\* Returning a result from a call.
LEMMA ReturnType ==
    ASSUME TypeOK, NEW c \in Caller, NEW result \in Result, Return(c, result)
    PROVE  pc' \in [Caller -> PC] /\ out' \in [Caller -> Result]
BY DEF TypeOK, Return, PC

\* A step of a body moves its caller, or returns, and changes nothing else.
Moves(c) ==
    \/ \E label \in PC : Goto(c, label)
    \/ \E result \in Result : Return(c, result)

\* A body that writes nothing only moves its caller.
LEMMA BodyMoves ==
    ASSUME NEW c \in Caller,
           \/ EarlyError(c) \/ CreateExisting(c) \/ CreateFresh(c)
           \/ ClaimBody(c) \/ ReleaseBody(c) \/ ListBody(c) \/ RemoveBody(c)
    PROVE  /\ Moves(c)
           /\ UNCHANGED <<gitVars, registry, hostVars, lockVars, frameVars>>
<1> USE DEF Moves, PC, Working, Saving, Result
<1>1. CASE EarlyError(c)
  BY <1>1 DEF EarlyError
<1>2. CASE CreateExisting(c)
  BY <1>2 DEF CreateExisting
<1>3. CASE CreateFresh(c)
  BY <1>3 DEF CreateFresh
<1>4. CASE ClaimBody(c)
  BY <1>4 DEF ClaimBody
<1>5. CASE ReleaseBody(c)
  BY <1>5 DEF ReleaseBody
<1>6. CASE ListBody(c)
  BY <1>6 DEF ListBody
<1>7. CASE RemoveBody(c)
  BY <1>7 DEF RemoveBody
<1> QED
  BY <1>1, <1>2, <1>3, <1>4, <1>5, <1>6, <1>7

\* Such a move keeps the places and the results well typed.
LEMMA MovesType ==
    ASSUME TypeOK, NEW c \in Caller, Moves(c)
    PROVE  pc' \in [Caller -> PC] /\ out' \in [Caller -> Result]
BY GotoType, ReturnType DEF Moves

\* The initial states are well typed.
LEMMA InitTyping == Init => TypeOK
BY ManagerAssumption
   DEF Init, TypeOK, GitInit, GitTypeOK, Registry, NoEntries, PC, NoPlan, Owner,
       Result, ManagerAssumption

\* The arguments of a call stay with it until it returns.
LEMMA CallStays ==
    ASSUME TypeOK, NEW c \in Caller, pc[c] # "idle", UNCHANGED call,
           \A d \in Caller \ {c} : pc'[d] = pc[d]
    PROVE  \A d \in Caller : pc'[d] # "idle" => call'[d] \in Call
BY DEF TypeOK

\* What a caller writes to the registry.
LEMMA WithClaimType ==
    ASSUME TypeOK, NEW c \in Caller, NEW cl \in Claim \cup {Nil},
           call[c].name \in Name, Reconciled(c)[call[c].name] # Nil
    PROVE  WithClaim(c, cl) \in Registry
<1> DEFINE n == call[c].name
           e == Reconciled(c)[n]
<1>1. Reconciled(c) \in Registry
  BY ReconciledType
<1>2. e \in Entry
  BY <1>1 DEF Registry
<1>3. [e EXCEPT !.claim = cl] \in Entry
  BY <1>2 DEF Entry
<1>4. WithClaim(c, cl) = [Reconciled(c) EXCEPT ![n] = [e EXCEPT !.claim = cl]]
  BY <1>1 DEF WithClaim, Registry
<1> QED
  BY <1>1, <1>3, <1>4 DEF Registry

\* Every step of a caller keeps the types.
LEMMA CallerTyping ==
    ASSUME IInv, NEW c \in Caller,
           (\E k \in Calls : Invoke(c, k)) \/ TakeMutex(c) \/ TakeFlock(c) \/ Work(c)
    PROVE  TypeOK'
<1> DEFINE n == call[c].name
<1> TypeOK
  BY DEF IInv
<1> USE DEF TypeOK, gitVars, hostVars, lockVars, frameVars
<1>0. ProcOf[c] \in Proc
  BY ManagerAssumption DEF ManagerAssumption
<1>a. ASSUME pc[c] # "idle" PROVE call[c] \in Call /\ n \in Name
  BY <1>a DEF Call
<1>b. ASSUME Moves(c), pc[c] # "idle", UNCHANGED call
      PROVE  /\ pc' \in [Caller -> PC] /\ out' \in [Caller -> Result]
             /\ \A d \in Caller : pc'[d] # "idle" => call'[d] \in Call
  <2>1. \A d \in Caller \ {c} : pc'[d] = pc[d]
    BY <1>b DEF Moves, Goto, Return
  <2> QED
    BY <1>b, <2>1, MovesType, CallStays
<1>1. ASSUME NEW k \in Calls, Invoke(c, k) PROVE TypeOK'
  <2>1. k \in Call
    BY ManagerAssumption DEF ManagerAssumption
  <2>2. pc' \in [Caller -> PC] /\ out' \in [Caller -> Result]
    BY <1>1, GotoType DEF Invoke, PC
  <2>3. \A d \in Caller : pc'[d] # "idle" => call'[d] \in Call
    BY <1>1, <2>1 DEF Invoke, Goto
  <2> QED
    BY <1>0, <1>1, <2>1, <2>2, <2>3 DEF Invoke, GitTypeOK
<1>2. CASE TakeMutex(c)
  <2>1. Moves(c)
    BY <1>2 DEF TakeMutex, Moves, PC
  <2> QED
    BY <1>0, <1>2, <1>b, <2>1 DEF TakeMutex, GitTypeOK
<1>3. CASE TakeFlock(c)
  <2>1. Moves(c)
    BY <1>3 DEF TakeFlock, Moves, PC
  <2> QED
    BY <1>3, <1>b, <2>1 DEF TakeFlock, GitTypeOK
<1>4. CASE Load(c)
  <2>1. Moves(c)
    BY <1>4 DEF Load, Moves, PC, Working
  <2> QED
    BY <1>4, <1>b, <2>1 DEF Load, Found, Listed, GitTypeOK
<1>5. CASE \/ EarlyError(c) \/ CreateExisting(c) \/ CreateFresh(c)
           \/ ClaimBody(c) \/ ReleaseBody(c) \/ ListBody(c) \/ RemoveBody(c)
  <2>1. pc[c] # "idle"
    BY <1>5 DEF EarlyError, CreateExisting, CreateFresh, ClaimBody, ReleaseBody,
                ListBody, RemoveBody
  <2> QED
    BY <1>5, <1>b, <2>1, BodyMoves DEF GitTypeOK
<1>6. CASE ResolveBase(c)
  <2>1. Moves(c)
    BY <1>6 DEF ResolveBase, Moves, PC, Working, Result
  <2>2. plan' \in [Caller -> [base : Nat, resumed : BOOLEAN]]
    <3>1. CASE UNCHANGED plan
      BY <3>1
    <3>2. CASE /\ branch[n] # Nil
               /\ plan' = [plan EXCEPT ![c] = [base |-> branch[n].tip, resumed |-> TRUE]]
      <4>1. branch[n] \in Branch
        BY <1>6, <1>a, <3>2 DEF GitTypeOK, ResolveBase
      <4> QED
        BY <3>2, <4>1 DEF Branch
    <3>3. CASE \E at \in (IF call[c].based THEN Commits ELSE {head}) :
                 plan' = [plan EXCEPT ![c] = [base |-> at, resumed |-> FALSE]]
      BY <3>3 DEF GitTypeOK, Commits
    <3> QED
      BY <1>6, <3>1, <3>2, <3>3 DEF ResolveBase
  <2> QED
    BY <1>6, <1>b, <2>1, <2>2 DEF ResolveBase, GitTypeOK
<1>7. CASE GitAdd(c)
  <2>1. Moves(c)
    BY <1>7 DEF GitAdd, Moves, PC, Working, Saving, Result
  <2>2. n \in Name
    BY <1>7, <1>a DEF GitAdd
  <2>3. \A at \in AddPoints(c) : at \in Nat /\ NewBranch(at) \in Branch
    BY NewBranchType DEF AddPoints, Commits, GitTypeOK
  <2>4. /\ branch' \in [Name -> Branch \cup {Nil}]
        /\ checkout' \in [Name -> Checkout \cup {Nil}]
    <3>1. ASSUME NEW at \in AddPoints(c), WorktreeAdd(n, plan[c].resumed, at, FALSE)
          PROVE  /\ branch' \in [Name -> Branch \cup {Nil}]
                 /\ checkout' \in [Name -> Checkout \cup {Nil}]
      BY <2>2, <2>3, <3>1, CommandTyping
    <3>2. CASE UNCHANGED checkout
      BY <1>7, <2>2, <2>3, <3>2 DEF GitAdd, GitTypeOK, WorktreeAdd
    <3> QED
      BY <1>7, <3>1, <3>2 DEF GitAdd
  <2>5. GitTypeOK'
    BY <1>7, <2>4 DEF GitAdd, GitTypeOK
  <2> QED
    BY <1>7, <1>b, <2>1, <2>5 DEF GitAdd
<1>8. CASE GitRemove(c)
  <2>1. Moves(c)
    BY <1>8 DEF GitRemove, PruneFails, Moves, PC, Working, Result
  <2>2. GitTypeOK'
    <3>1. n \in Name
      BY <1>8, <1>a DEF GitRemove, PruneFails
    <3>2. KeptIn(Pruned, n) \in [Name -> Checkout \cup {Nil}]
      BY <3>1, PrunedType, KeptType
    <3> QED
      BY <1>8, <3>1, <3>2 DEF GitRemove, PruneFails, WorktreeRemove, GitTypeOK
  <2> QED
    BY <1>8, <1>b, <2>1, <2>2 DEF GitRemove, PruneFails
<1>9. CASE GitPrune(c)
  <2>1. Moves(c)
    BY <1>9 DEF GitPrune, Moves, PC, Working
  <2>2. GitTypeOK'
    BY <1>9, PrunedType DEF GitPrune, WorktreePrune, GitTypeOK
  <2> QED
    BY <1>9, <1>b, <2>1, <2>2 DEF GitPrune
<1>10. CASE DeleteBranch(c)
  <2>1. Moves(c)
    BY <1>10 DEF DeleteBranch, Moves, PC, Working, Saving
  <2>2. GitTypeOK'
    BY <1>10 DEF DeleteBranch, BranchDelete, GitTypeOK
  <2> QED
    BY <1>10, <1>b, <2>1, <2>2 DEF DeleteBranch
<1>11. CASE SaveNew(c)
  <2>1. Moves(c)
    BY <1>11 DEF SaveNew, Moves, Result
  <2>2. [base |-> plan[c].base, resumed |-> plan[c].resumed, claim |-> NewClaim(c)] \in Entry
    BY NewClaimType DEF Entry
  <2>3. registry' \in Registry
    BY <1>11, <2>2, ReconciledType DEF SaveNew, Registry
  <2> QED
    BY <1>11, <1>b, <2>1, <2>3 DEF SaveNew, GitTypeOK
<1>12. CASE SaveClaim(c)
  <2>1. Moves(c)
    BY <1>12 DEF SaveClaim, ClaimResult, Moves, Result
  <2>2. n \in Name /\ Reconciled(c)[n] # Nil
    BY <1>12, <1>a DEF SaveClaim, IInv, DecisionStands, DecisionOf
  <2>3. registry' \in Registry
    BY <1>12, <2>2, NewClaimType, WithClaimType DEF SaveClaim
  <2> QED
    BY <1>12, <1>b, <2>1, <2>3 DEF SaveClaim, GitTypeOK
<1>13. CASE SaveRelease(c)
  <2>1. Moves(c)
    BY <1>13 DEF SaveRelease, Moves, Result
  <2>2. n \in Name /\ Reconciled(c)[n] # Nil
    BY <1>13, <1>a DEF SaveRelease, IInv, DecisionStands, DecisionOf
  <2>3. registry' \in Registry
    BY <1>13, <2>2, WithClaimType DEF SaveRelease
  <2> QED
    BY <1>13, <1>b, <2>1, <2>3 DEF SaveRelease, GitTypeOK
<1>14. CASE SaveRemove(c) \/ SaveList(c)
  <2>1. Moves(c)
    BY <1>14 DEF SaveRemove, SaveList, Moves, Result
  <2>2. registry' \in Registry
    <3>1. CASE SaveRemove(c)
      BY <3>1 DEF SaveRemove, Registry
    <3>2. CASE SaveList(c)
      BY <3>2, ReconciledType DEF SaveList
    <3> QED
      BY <1>14, <3>1, <3>2
  <2> QED
    <3>1. pc[c] # "idle" /\ UNCHANGED <<gitVars, hostVars, lockVars, frameVars>>
      BY <1>14 DEF SaveRemove, SaveList
    <3> QED
      BY <1>b, <2>1, <2>2, <3>1 DEF GitTypeOK
<1>15. CASE SaveFails(c)
  <2>1. Moves(c) /\ pc[c] # "idle"
    BY <1>15 DEF SaveFails, Moves, Result, Saving
  <2>2. GitTypeOK'
    <3>1. n \in Name
      BY <1>a, <2>1
    <3>2. KeptIn(checkout, n) \in [Name -> Checkout \cup {Nil}]
      BY <3>1, KeptType DEF GitTypeOK
    <3> QED
      BY <1>15, <3>1, <3>2 DEF SaveFails, TakenBack, GitTypeOK
  <2> QED
    BY <1>15, <1>b, <2>1, <2>2 DEF SaveFails
<1>16. CASE Unlock(c)
  <2>1. \A d \in Caller : pc'[d] # "idle" => call'[d] \in Call
    BY <1>16 DEF Unlock
  <2> QED
    BY <1>0, <1>16, <2>1
       DEF Unlock, FlockReleased, GitTypeOK, PC, Result, Owner, Registry, NoEntries, NoPlan
<1> QED
  BY <1>1, <1>2, <1>3, <1>4, <1>5, <1>6, <1>7, <1>8, <1>9, <1>10, <1>11, <1>12, <1>13,
     <1>14, <1>15, <1>16 DEF Work

\* What a dead process leaves running are commands.
LEMMA LeftRunningType ==
    ASSUME TypeOK, NEW p \in Proc
    PROVE  LeftRunning(p) \subseteq Command
<1>1. ASSUME NEW c \in Caller PROVE GitRunning(c) \subseteq Command
  <2>1. CASE pc[c] = "idle"
    BY <2>1 DEF GitRunning
  <2>2. CASE pc[c] # "idle"
    <3>1. /\ call[c].name \in Name /\ Forced(c) \in BOOLEAN
          /\ call[c].del \in BOOLEAN /\ plan[c].resumed \in BOOLEAN
      BY <2>2 DEF TypeOK, Call, Forced
    <3>2. ASSUME NEW cmd \in {"add", "remove", "prune", "branch"}, NEW flag \in BOOLEAN
          PROVE  Child(c, cmd, flag) \in Command
      BY <3>1 DEF Child, Command
    <3> QED
      BY <3>1, <3>2 DEF GitRunning
  <2> QED
    BY <2>1, <2>2
<1> QED
  BY <1>1 DEF LeftRunning

\* A crash, a switch of session and a tick keep the types.
LEMMA HostTyping ==
    ASSUME TypeOK,
           (\E p \in Proc : Crash(p) \/ SwitchSession(p)) \/ Tick
    PROVE  TypeOK'
<1> USE DEF TypeOK, gitVars, hostVars, lockVars, frameVars
<1>1. ASSUME NEW p \in Proc, Crash(p) PROVE TypeOK'
  <2>1. /\ pc' \in [Caller -> PC]
        /\ call' \in [Caller -> Call \cup {NoCall}]
        /\ out' \in [Caller -> Result]
    BY <1>1 DEF Crash, PC, Result
  <2>2. /\ owner' \in [Caller -> Owner]
        /\ reg' \in [Caller -> Registry]
        /\ seen' \in [Caller -> SUBSET Name]
    BY <1>1 DEF Crash, Owner, Registry, NoEntries
  <2>3. plan' \in [Caller -> [base : Nat, resumed : BOOLEAN]]
    BY <1>1 DEF Crash, NoPlan
  <2>4. \A c \in Caller : pc'[c] # "idle" => call'[c] \in Call
    BY <1>1 DEF Crash
  <2>5. flock' \in Caller \cup {Nil} /\ mu' \in [Proc -> Caller \cup {Nil}]
    BY <1>1 DEF Crash
  <2>6. GitTypeOK'
    BY <1>1, LeftRunningType DEF Crash, GitTypeOK
  <2>7. /\ registry' \in Registry /\ now' \in Nat
        /\ alive' \subseteq Proc /\ session' \in [Proc -> Owner]
    BY <1>1 DEF Crash
  <2> QED
    BY <2>1, <2>2, <2>3, <2>4, <2>5, <2>6, <2>7
<1>2. ASSUME NEW p \in Proc, SwitchSession(p) PROVE TypeOK'
  BY <1>2 DEF SwitchSession, GitTypeOK
<1>3. CASE Tick
  BY <1>3 DEF Tick, GitTypeOK
<1> QED
  BY <1>1, <1>2, <1>3

\* Every step of the system keeps the types.
LEMMA StepTyping == IInv /\ [Next]_vars => TypeOK'
<1> SUFFICES ASSUME IInv, [Next]_vars PROVE TypeOK'
  OBVIOUS
<1>0. TypeOK
  BY DEF IInv
<1>1. CASE \E c \in Caller :
             \/ \E k \in Calls : Invoke(c, k)
             \/ TakeMutex(c) \/ TakeFlock(c) \/ Work(c)
  BY <1>1, CallerTyping
<1>2. CASE (\E p \in Proc : Crash(p) \/ SwitchSession(p)) \/ Tick
  BY <1>0, <1>2, HostTyping
<1>3. CASE (User \/ OrphanEnds) /\ UNCHANGED toolVars
  BY <1>0, <1>3, UserTyping, OrphanTyping DEF TypeOK, toolVars, hostVars, lockVars, frameVars
<1>4. CASE UNCHANGED vars
  BY <1>0, <1>4
     DEF TypeOK, GitTypeOK, vars, gitVars, toolVars, hostVars, lockVars, frameVars
<1> QED
  BY <1>1, <1>2, <1>3, <1>4 DEF Next

----------------------------------------------------------------------------
(* The file lock and the snapshots it protects.                            *)

\* The initial states satisfy the invariant: nobody is at work.
LEMMA InitInv == Init => IInv
BY InitTyping DEF Init, IInv, WorkersHoldFlock, SnapshotIsCurrent, DecisionStands,
                  DecisionOf, Working, Saving

\* A caller's own step leaves the locks, the clock, the sessions and the
\* other callers alone, and does not begin any work.
LEMMA WorkFrame ==
    ASSUME TypeOK, NEW c \in Caller, Work(c), ~Unlock(c)
    PROVE  /\ UNCHANGED <<hostVars, lockVars, call, owner>>
           /\ \A d \in Caller \ {c} : pc'[d] = pc[d] /\ reg'[d] = reg[d] /\ seen'[d] = seen[d]
           /\ pc'[c] # "load"
           /\ pc'[c] \in Working => pc[c] \in Working \/ (pc[c] = "load" /\ Load(c))
           /\ ~Load(c) => UNCHANGED <<reg, seen>>
<1> USE DEF TypeOK, frameVars, Goto, Return, Working, Saving
<1>1. CASE Load(c)
  BY <1>1 DEF Load
<1>2. CASE \/ EarlyError(c) \/ CreateExisting(c) \/ CreateFresh(c)
           \/ ClaimBody(c) \/ ReleaseBody(c) \/ ListBody(c) \/ RemoveBody(c)
  <2>1. Moves(c) /\ UNCHANGED <<hostVars, lockVars, frameVars>>
    BY <1>2, BodyMoves
  <2>2. pc'[c] # "load" /\ (pc'[c] \in Working => pc[c] \in Working)
    BY <1>2 DEF EarlyError, CreateExisting, CreateFresh, ClaimBody, ReleaseBody,
                ListBody, RemoveBody
  <2> QED
    BY <2>1, <2>2 DEF Moves
<1>3. CASE ResolveBase(c)
  BY <1>3 DEF ResolveBase
<1>4. CASE GitAdd(c) \/ GitRemove(c) \/ GitPrune(c) \/ DeleteBranch(c)
  BY <1>4 DEF GitAdd, GitRemove, PruneFails, GitPrune, DeleteBranch
<1>5. CASE SaveNew(c) \/ SaveClaim(c) \/ SaveRelease(c) \/ SaveRemove(c) \/ SaveList(c)
  BY <1>5 DEF SaveNew, SaveClaim, SaveRelease, SaveRemove, SaveList
<1>6. CASE SaveFails(c)
  BY <1>6 DEF SaveFails
<1> QED
  BY <1>1, <1>2, <1>3, <1>4, <1>5, <1>6 DEF Work

\* Only the holder of the file lock works, and every step keeps it so.
LEMMA StepFlock == IInv /\ [Next]_vars => WorkersHoldFlock'
<1> SUFFICES ASSUME IInv, [Next]_vars PROVE WorkersHoldFlock'
  OBVIOUS
<1> DEFINE Held == {"load"} \cup Working
<1>0. /\ TypeOK
      /\ \A c \in Caller : pc[c] \in Held => flock = c
  BY DEF IInv, WorkersHoldFlock
<1> USE DEF Working, Saving
<1>1. ASSUME NEW c \in Caller, NEW k \in Calls, Invoke(c, k) PROVE WorkersHoldFlock'
  BY <1>0, <1>1 DEF Invoke, Goto, lockVars, WorkersHoldFlock, TypeOK
<1>2. ASSUME NEW c \in Caller, TakeMutex(c) PROVE WorkersHoldFlock'
  BY <1>0, <1>2 DEF TakeMutex, Goto, WorkersHoldFlock, TypeOK
<1>3. ASSUME NEW c \in Caller, TakeFlock(c) PROVE WorkersHoldFlock'
  BY <1>0, <1>3, ManagerAssumption
     DEF TakeFlock, FlockFree, Goto, WorkersHoldFlock, TypeOK, ManagerAssumption
<1>4. ASSUME NEW c \in Caller, Work(c), ~Unlock(c) PROVE WorkersHoldFlock'
  <2>1. UNCHANGED flock /\ \A d \in Caller \ {c} : pc'[d] = pc[d]
    BY <1>0, <1>4, WorkFrame DEF lockVars
  <2>2. pc'[c] \in Held => flock = c
    BY <1>0, <1>4, WorkFrame
  <2> QED
    BY <1>0, <2>1, <2>2 DEF WorkersHoldFlock
<1>5. ASSUME NEW c \in Caller, Unlock(c) PROVE WorkersHoldFlock'
  BY <1>0, <1>5 DEF Unlock, FlockReleased, WorkersHoldFlock, TypeOK
<1>6. ASSUME NEW p \in Proc, Crash(p) PROVE WorkersHoldFlock'
  BY <1>0, <1>6 DEF Crash, WorkersHoldFlock, TypeOK
<1>7. CASE (\E p \in Proc : SwitchSession(p)) \/ Tick \/ ((User \/ OrphanEnds) /\ UNCHANGED toolVars)
           \/ UNCHANGED vars
  <2>1. UNCHANGED <<pc, flock>>
    BY <1>7 DEF SwitchSession, Tick, toolVars, vars, lockVars
  <2> QED
    BY <1>0, <2>1 DEF WorkersHoldFlock
<1> QED
  BY <1>1, <1>2, <1>3, <1>4, <1>5, <1>6, <1>7 DEF Next

\* A step of a caller's own.
CallerStep(c) ==
    (\E k \in Calls : Invoke(c, k)) \/ TakeMutex(c) \/ TakeFlock(c) \/ Work(c)

\* A step of the surroundings that no caller takes and no caller dies of.
HostStep ==
    \/ \E p \in Proc : SwitchSession(p)
    \/ Tick
    \/ (User \/ OrphanEnds) /\ UNCHANGED toolVars
    \/ UNCHANGED vars

\* Every step is a caller's, a crash or one of the surroundings.
LEMMA StepCases ==
    ASSUME [Next]_vars
    PROVE  (\E c \in Caller : CallerStep(c)) \/ (\E p \in Proc : Crash(p)) \/ HostStep
BY DEF Next, CallerStep, HostStep

\* The five ways to write the registry.
Writes(c) == SaveNew(c) \/ SaveClaim(c) \/ SaveRelease(c) \/ SaveRemove(c) \/ SaveList(c)

\* A caller's step that is none of them leaves the registry.
LEMMA CallerOnlySaves ==
    ASSUME NEW c \in Caller, CallerStep(c), ~Writes(c)
    PROVE  registry' = registry
<1>1. CASE (\E k \in Calls : Invoke(c, k)) \/ TakeMutex(c) \/ TakeFlock(c) \/ Unlock(c)
  BY <1>1 DEF Invoke, TakeMutex, TakeFlock, Unlock
<1>2. CASE \/ EarlyError(c) \/ CreateExisting(c) \/ CreateFresh(c)
           \/ ClaimBody(c) \/ ReleaseBody(c) \/ ListBody(c) \/ RemoveBody(c)
  BY <1>2, BodyMoves
<1>3. CASE \/ Load(c) \/ ResolveBase(c) \/ GitAdd(c) \/ GitRemove(c) \/ GitPrune(c)
           \/ DeleteBranch(c) \/ SaveFails(c)
  BY <1>3 DEF Load, ResolveBase, GitAdd, GitRemove, PruneFails, GitPrune, DeleteBranch, SaveFails
<1> QED
  BY <1>1, <1>2, <1>3 DEF CallerStep, Work, Writes

\* Nothing but a save changes the registry.
LEMMA OnlySavesWrite ==
    ASSUME [Next]_vars, registry' # registry
    PROVE  \E c \in Caller : Writes(c)
<1>1. ASSUME NEW p \in Proc, Crash(p) PROVE FALSE
  BY <1>1 DEF Crash
<1>2. CASE HostStep
  BY <1>2 DEF HostStep, SwitchSession, Tick, toolVars, vars
<1> QED
  BY <1>1, <1>2, StepCases, CallerOnlySaves

\* A save ends its caller's work.
LEMMA WriterReturns ==
    ASSUME TypeOK, NEW c \in Caller, Writes(c)
    PROVE  /\ pc[c] \in Saving
           /\ pc' = [pc EXCEPT ![c] = "unlock"]
           /\ UNCHANGED <<now, alive, call, owner, reg, seen, plan>>
BY DEF Writes, SaveNew, SaveClaim, SaveRelease, SaveRemove, SaveList, Saving, Return,
       hostVars, frameVars

\* Every step keeps the loaded registries current.
LEMMA StepSnapshot == IInv /\ [Next]_vars => SnapshotIsCurrent'
<1> SUFFICES ASSUME IInv, [Next]_vars PROVE SnapshotIsCurrent'
  OBVIOUS
<1>0. TypeOK /\ WorkersHoldFlock /\ SnapshotIsCurrent
  BY DEF IInv
<1>1. CASE registry' # registry
  <2>1. PICK c \in Caller : Writes(c)
    BY <1>1, OnlySavesWrite
  <2>2. \A d \in Caller : pc[d] \in Working => d = c
    BY <1>0, <2>1, WriterReturns DEF WorkersHoldFlock, Working
  <2>3. \A d \in Caller : pc'[d] \notin Working
    BY <1>0, <2>1, <2>2, WriterReturns DEF TypeOK, Working, Saving
  <2> QED
    BY <2>3 DEF SnapshotIsCurrent
<1>2. CASE registry' = registry
  <2> SUFFICES ASSUME NEW d \in Caller, pc'[d] \in Working
               PROVE  reg'[d] = registry
    BY <1>2 DEF SnapshotIsCurrent
  <2>1. CASE reg'[d] = reg[d] /\ pc[d] \in Working
    BY <1>0, <2>1 DEF SnapshotIsCurrent
  <2>2. ASSUME NEW c \in Caller,
               (\E k \in Calls : Invoke(c, k)) \/ TakeMutex(c) \/ TakeFlock(c) \/ Unlock(c)
        PROVE  reg'[d] = registry
    BY <1>0, <2>1, <2>2
       DEF Invoke, TakeMutex, TakeFlock, Unlock, Goto, frameVars, TypeOK, Working, Saving
  <2>3. ASSUME NEW c \in Caller, Load(c) PROVE reg'[d] = registry
    BY <1>0, <2>1, <2>3 DEF Load, Goto, TypeOK
  <2>4. ASSUME NEW c \in Caller, Work(c), ~Load(c), ~Unlock(c) PROVE reg'[d] = registry
    BY <1>0, <2>1, <2>4, WorkFrame
  <2>5. ASSUME NEW p \in Proc, Crash(p) PROVE reg'[d] = registry
    BY <1>0, <2>1, <2>5 DEF Crash, Working, Saving
  <2>6. CASE (\E p \in Proc : SwitchSession(p)) \/ Tick \/ ((User \/ OrphanEnds) /\ UNCHANGED toolVars)
             \/ UNCHANGED vars
    BY <2>1, <2>6 DEF SwitchSession, Tick, toolVars, vars, frameVars
  <2> QED
    BY <2>2, <2>3, <2>4, <2>5, <2>6 DEF Next
<1> QED
  BY <1>1, <1>2

----------------------------------------------------------------------------
(* Decisions outlive the clock and the other processes.                    *)

\* A claim that is stale stays stale: time does not go back and a process
\* that is gone does not return.
LEMMA StaleStays ==
    ASSUME TypeOK, NEW cl \in Claim, Stale(cl),
           now' \in Nat, now' >= now, alive' \subseteq alive
    PROVE  Stale(cl)'
BY ManagerAssumption DEF TypeOK, Stale, Expired, Claim, ManagerAssumption

\* The claim of an entry that a caller has loaded.
LEMMA LoadedClaim ==
    ASSUME TypeOK, NEW c \in Caller, NEW n \in Name, Reconciled(c)[n] # Nil
    PROVE  Reconciled(c)[n].claim \in Claim \cup {Nil}
BY ReconciledType DEF Registry, Entry

\* A caller's decision stands as long as it does not move itself.
LEMMA DecisionUndisturbed ==
    ASSUME TypeOK, NEW d \in Caller, DecisionOf(d),
           UNCHANGED <<pc[d], call[d], owner[d], reg[d], seen[d]>>,
           now' \in Nat, now' >= now, alive' \subseteq alive
    PROVE  DecisionOf(d)'
<1> DEFINE e == Reconciled(d)[call[d].name]
<1>1. e' = e
  BY DEF Reconciled
<1>2. ASSUME pc[d] # "idle", e # Nil, e.claim # Nil, Stale(e.claim)
      PROVE  Stale(e.claim)'
  <2>1. e.claim \in Claim
    BY <1>2, LoadedClaim DEF TypeOK, Call
  <2>2. \A cl \in Claim : Stale(cl) => Stale(cl)'
    BY StaleStays
  <2> QED
    BY <1>1, <1>2, <2>1, <2>2 DEF Stale, Expired
<1> QED
  BY <1>1, <1>2 DEF DecisionOf

\* The places between a body's decision and the save it leads to.
Deciding == {"saveClaim", "saveRelease", "resolve", "add", "saveNew",
             "gitrm", "prune", "branch", "saveRemove"}

\* A caller that is not between the two has decided nothing.
LEMMA NotDeciding ==
    ASSUME NEW c \in Caller, pc'[c] \notin Deciding
    PROVE  DecisionOf(c)'
BY DEF DecisionOf, Deciding

\* A caller's own step decides rightly, or keeps what was decided.
LEMMA OwnDecision ==
    ASSUME TypeOK, NEW c \in Caller, Work(c), ~Unlock(c), DecisionOf(c)
    PROVE  DecisionOf(c)'
<1> DEFINE e == Reconciled(c)[call[c].name]
<1> USE DEF TypeOK, Goto, Return
<1>1. CASE Load(c) \/ EarlyError(c) \/ ListBody(c) \/ SaveFails(c)
  <2>1. pc'[c] \notin Deciding
    BY <1>1 DEF Load, EarlyError, ListBody, SaveFails, Deciding
  <2> QED
    BY <2>1, NotDeciding
<1>2. CASE Writes(c)
  <2>1. pc'[c] \notin Deciding
    BY <1>2, WriterReturns DEF Deciding
  <2> QED
    BY <2>1, NotDeciding
<1>3. CASE \/ CreateExisting(c) \/ CreateFresh(c) \/ ClaimBody(c) \/ ReleaseBody(c)
           \/ RemoveBody(c)
  <2>0. UNCHANGED <<now, alive, call, owner, reg, seen>>
    BY <1>3, BodyMoves DEF hostVars, frameVars
  <2>1. e' = e
    BY <2>0 DEF Reconciled
  <2>2. CASE CreateExisting(c)
    BY <2>0, <2>1, <2>2 DEF CreateExisting, DecisionOf, DeriveStatus, Stale, Expired
  <2>3. CASE CreateFresh(c)
    BY <2>0, <2>1, <2>3 DEF CreateFresh, DecisionOf
  <2>4. CASE ClaimBody(c)
    BY <2>0, <2>1, <2>4 DEF ClaimBody, DecisionOf, DeriveStatus, Stale, Expired
  <2>5. CASE ReleaseBody(c)
    BY <2>0, <2>1, <2>5 DEF ReleaseBody, DecisionOf, DeriveStatus, Stale, Expired
  <2>6. CASE RemoveBody(c)
    BY <2>0, <2>1, <2>6 DEF RemoveBody, DecisionOf
  <2> QED
    BY <1>3, <2>2, <2>3, <2>4, <2>5, <2>6
<1>4. CASE \/ ResolveBase(c) \/ GitAdd(c) \/ GitRemove(c) \/ GitPrune(c) \/ DeleteBranch(c)
  <2>0. UNCHANGED <<call, reg, seen>>
    BY <1>4 DEF ResolveBase, GitAdd, GitRemove, PruneFails, GitPrune, DeleteBranch, frameVars
  <2>1. e' = e
    BY <2>0 DEF Reconciled
  <2>2. CASE ResolveBase(c)
    BY <2>0, <2>1, <2>2 DEF ResolveBase, DecisionOf
  <2>3. CASE GitAdd(c)
    BY <2>0, <2>1, <2>3 DEF GitAdd, DecisionOf
  <2>4. CASE GitRemove(c) \/ GitPrune(c) \/ DeleteBranch(c)
    BY <2>0, <2>1, <2>4 DEF GitRemove, PruneFails, GitPrune, DeleteBranch, DecisionOf
  <2> QED
    BY <1>4, <2>2, <2>3, <2>4
<1> QED
  BY <1>1, <1>2, <1>3, <1>4 DEF Work, Writes

\* Every step keeps every decision standing.
LEMMA StepDecision == IInv /\ [Next]_vars => DecisionStands'
<1> SUFFICES ASSUME IInv, [Next]_vars, NEW d \in Caller PROVE DecisionOf(d)'
  BY DEF DecisionStands
<1>0. TypeOK /\ DecisionOf(d)
  BY DEF IInv, DecisionStands
<1>a. now \in Nat
  BY <1>0 DEF TypeOK
<1>1. ASSUME NEW c \in Caller,
             (\E k \in Calls : Invoke(c, k)) \/ TakeMutex(c) \/ TakeFlock(c) \/ Unlock(c)
      PROVE  DecisionOf(d)'
  <2>1. CASE d = c
    <3>1. pc'[c] \notin Deciding
      BY <1>0, <1>1 DEF Invoke, TakeMutex, TakeFlock, Unlock, Goto, TypeOK, Deciding
    <3> QED
      BY <2>1, <3>1, NotDeciding
  <2>2. CASE d # c
    <3>1. UNCHANGED <<pc[d], call[d], owner[d], reg[d], seen[d], now, alive>>
      BY <1>0, <1>1, <2>2
         DEF Invoke, TakeMutex, TakeFlock, Unlock, Goto, hostVars, frameVars, TypeOK
    <3> QED
      BY <1>0, <1>a, <3>1, DecisionUndisturbed
  <2> QED
    BY <2>1, <2>2
<1>2. ASSUME NEW c \in Caller, Work(c), ~Unlock(c) PROVE DecisionOf(d)'
  <2>1. CASE d = c
    BY <1>0, <1>2, <2>1, OwnDecision
  <2>2. CASE d # c
    <3>1. UNCHANGED <<pc[d], call[d], owner[d], reg[d], seen[d], now, alive>>
      BY <1>0, <1>2, <2>2, WorkFrame DEF hostVars
    <3> QED
      BY <1>0, <1>a, <3>1, DecisionUndisturbed
  <2> QED
    BY <2>1, <2>2
<1>3. ASSUME NEW p \in Proc, Crash(p) PROVE DecisionOf(d)'
  <2>1. CASE ProcOf[d] = p
    <3>1. pc'[d] \notin Deciding
      BY <1>3, <2>1 DEF Crash, Deciding
    <3> QED
      BY <3>1, NotDeciding
  <2>2. CASE ProcOf[d] # p
    <3>1. UNCHANGED <<pc[d], call[d], owner[d], reg[d], seen[d], now>> /\ alive' \subseteq alive
      BY <1>3, <2>2 DEF Crash
    <3> QED
      BY <1>0, <1>a, <3>1, DecisionUndisturbed
  <2> QED
    BY <2>1, <2>2
<1>4. CASE (\E p \in Proc : SwitchSession(p)) \/ Tick \/ ((User \/ OrphanEnds) /\ UNCHANGED toolVars)
           \/ UNCHANGED vars
  <2>1. UNCHANGED <<pc, frameVars, alive>> /\ now' \in Nat /\ now' >= now
    BY <1>a, <1>4 DEF SwitchSession, Tick, toolVars, vars, hostVars
  <2> QED
    BY <1>0, <2>1, DecisionUndisturbed DEF frameVars
<1> QED
  BY <1>1, <1>2, <1>3, <1>4 DEF Next

----------------------------------------------------------------------------
(* The theorems.                                                           *)

\* The inductive invariant holds throughout: types, the file lock's mutual
\* exclusion, the current snapshots and the standing decisions.
THEOREM Invariance == Spec => []IInv
<1>1. Init => IInv
  BY InitInv
<1>2. IInv /\ [Next]_vars => IInv'
  BY StepTyping, StepFlock, StepSnapshot, StepDecision DEF IInv
<1> QED
  BY <1>1, <1>2, PTL DEF Spec

\* Type correctness, whatever the instance.
THEOREM TypeCorrect == Spec => []TypeOK
<1>1. IInv => TypeOK
  BY DEF IInv
<1> QED
  BY <1>1, Invariance, PTL

\* No process saves over a registry that has changed since it loaded it.
THEOREM NoLostUpdate == Spec => []SnapshotIsCurrent
<1>1. IInv => SnapshotIsCurrent
  BY DEF IInv
<1> QED
  BY <1>1, Invariance, PTL

\* A claim the code calls stale is not a live one.
LEMMA StaleIsNotLive ==
    ASSUME TypeOK, NEW cl \in Claim, Stale(cl)
    PROVE  ~Live(cl)
BY ManagerAssumption DEF TypeOK, Stale, Expired, Live, Claim, ManagerAssumption

\* A writer that knew of the worktree touches a live claim only as it may.
LEMMA WriterRespects ==
    ASSUME IInv, NEW c \in Caller, Writes(c), NEW n \in Name, HeldLive(n),
           registry'[n] = Nil \/ registry'[n].claim # registry[n].claim
    PROVE  MayTouch(c, n)
<1> DEFINE m == call[c].name
           e == Reconciled(c)[m]
<1> SUFFICES ASSUME n \in seen[c] PROVE MayTouch(c, n)
  BY DEF MayTouch
<1>0. /\ TypeOK /\ DecisionOf(c) /\ reg[c] = registry
      /\ m \in Name
  BY WriterReturns
     DEF IInv, DecisionStands, SnapshotIsCurrent, Working, Saving, TypeOK, Call
<1>1. Reconciled(c)[n] = registry[n] /\ Reconciled(c) \in Registry /\ registry \in Registry
  BY <1>0, ReconciledType DEF Reconciled, TypeOK
<1>2. /\ registry[n] # Nil /\ registry[n].claim # Nil
      /\ registry[n].claim \in Claim /\ ~Stale(registry[n].claim)
  <2>1. registry[n] # Nil /\ registry[n].claim # Nil /\ registry[n].claim \in Claim \cup {Nil}
    BY <1>1 DEF HeldLive, Live, Registry, Entry
  <2> QED
    BY <1>0, <2>1, StaleIsNotLive DEF HeldLive
<1>3. CASE SaveNew(c)
  <2>1. m # n
    BY <1>0, <1>1, <1>2, <1>3 DEF SaveNew, DecisionOf
  <2>2. registry'[n] = registry[n]
    BY <1>1, <1>3, <2>1 DEF SaveNew, Registry
  <2> QED
    BY <1>2, <2>2
<1>4. ASSUME NEW cl \in Claim \cup {Nil}, registry' = WithClaim(c, cl), m # n PROVE FALSE
  <2>1. registry'[n] = registry[n]
    BY <1>0, <1>1, <1>4 DEF WithClaim, Registry
  <2> QED
    BY <1>2, <2>1
<1>5. CASE SaveClaim(c)
  <2>1. m = n
    BY <1>0, <1>4, <1>5, NewClaimType DEF SaveClaim
  <2> QED
    BY <1>0, <1>1, <1>2, <1>5, <2>1 DEF SaveClaim, DecisionOf
<1>6. CASE SaveRelease(c)
  <2>1. m = n
    BY <1>4, <1>6 DEF SaveRelease
  <2> QED
    BY <1>0, <1>1, <1>2, <1>6, <2>1 DEF SaveRelease, DecisionOf, MayTouch
<1>7. CASE SaveRemove(c)
  <2>1. m = n
    BY <1>0, <1>1, <1>2, <1>7 DEF SaveRemove, Registry
  <2> QED
    BY <1>0, <1>7, <2>1 DEF SaveRemove, DecisionOf, MayTouch
<1>8. CASE SaveList(c)
  BY <1>1, <1>2, <1>8 DEF SaveList
<1> QED
  BY <1>3, <1>5, <1>6, <1>7, <1>8 DEF Writes

\* The live claim of another session is never taken nor cleared, for any
\* number of processes, callers, sessions and names, and any TTL.
THEOREM ClaimsAreRespected == Spec => LiveClaimRespected
<1> DEFINE Respect ==
      \A n \in Name :
          HeldLive(n) /\ (registry'[n] = Nil \/ registry'[n].claim # registry[n].claim)
          => \E c \in Caller : pc[c] \in Saving /\ MayTouch(c, n)
<1>1. IInv /\ [Next]_vars => [Respect]_vars
  <2> SUFFICES ASSUME IInv, [Next]_vars, NEW n \in Name, HeldLive(n),
                      registry'[n] = Nil \/ registry'[n].claim # registry[n].claim
               PROVE  \E c \in Caller : pc[c] \in Saving /\ MayTouch(c, n)
    OBVIOUS
  <2>1. registry' # registry
    BY DEF HeldLive
  <2>2. PICK c \in Caller : Writes(c)
    BY <2>1, OnlySavesWrite
  <2> QED
    BY <2>2, WriterReturns, WriterRespects DEF IInv
<1> QED
  BY <1>1, Invariance, PTL DEF Spec, LiveClaimRespected

----------------------------------------------------------------------------
(* Who a step disturbs: the frames that the other proof modules rest on.   *)

\* All that a caller keeps for itself.
FrameOf(d) == <<pc[d], call[d], owner[d], reg[d], seen[d], plan[d], out[d]>>

\* A caller's step leaves every other caller as it is, the clock and the
\* processes too.
LEMMA OthersStand ==
    ASSUME TypeOK, NEW c \in Caller, CallerStep(c)
    PROVE  /\ \A d \in Caller \ {c} : UNCHANGED FrameOf(d)
           /\ UNCHANGED hostVars
<1> USE DEF TypeOK, frameVars, lockVars, Goto, Return, FrameOf
<1>1. CASE (\E k \in Calls : Invoke(c, k)) \/ TakeMutex(c) \/ TakeFlock(c) \/ Load(c)
  BY <1>1 DEF Invoke, TakeMutex, TakeFlock, Load
<1>2. CASE \/ EarlyError(c) \/ CreateExisting(c) \/ CreateFresh(c)
           \/ ClaimBody(c) \/ ReleaseBody(c) \/ ListBody(c) \/ RemoveBody(c)
  BY <1>2, BodyMoves DEF Moves
<1>3. CASE ResolveBase(c) \/ GitAdd(c) \/ GitRemove(c) \/ GitPrune(c) \/ DeleteBranch(c)
  BY <1>3 DEF ResolveBase, GitAdd, GitRemove, PruneFails, GitPrune, DeleteBranch
<1>4. CASE Writes(c)
  BY <1>4 DEF Writes, SaveNew, SaveClaim, SaveRelease, SaveRemove, SaveList
<1>5. CASE SaveFails(c) \/ Unlock(c)
  BY <1>5 DEF SaveFails, Unlock
<1> QED
  BY <1>1, <1>2, <1>3, <1>4, <1>5 DEF CallerStep, Work, Writes

\* A crash sends the callers of its process home and leaves the others.
LEMMA CrashStands ==
    ASSUME NEW p \in Proc, Crash(p), NEW d \in Caller
    PROVE  \/ UNCHANGED FrameOf(d) /\ ProcOf[d] # p
           \/ pc'[d] = "idle" /\ out'[d] = "none" /\ ProcOf[d] = p
BY DEF Crash, FrameOf

\* The surroundings leave every caller, the registry and the locks alone.
LEMMA HostStands ==
    ASSUME HostStep
    PROVE  /\ \A d \in Caller : UNCHANGED FrameOf(d)
           /\ UNCHANGED <<registry, lockVars, pc, frameVars, out, alive>>
BY DEF HostStep, SwitchSession, Tick, toolVars, vars, frameVars, lockVars, hostVars, FrameOf
============================================================================
