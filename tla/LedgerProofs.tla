---------------------------- MODULE LedgerProofs ----------------------------
(***************************************************************************)
(* WorktreeManager implements ClaimLedger, and a caller that is told it    *)
(* has a worktree has it, for every instance.                              *)
(***************************************************************************)
EXTENDS WorktreeManagerProofs

----------------------------------------------------------------------------
(* What a place says of the call that is there.                            *)

\* A call is answered exactly when it is on its way out, and a caller on its
\* way to a save makes the call that save belongs to; only a known entry is
\* removed.
PlaceFits(c) ==
    /\ out[c] = "none" <=> pc[c] # "unlock"
    /\ pc[c] \in {"resolve", "add", "saveNew"} => call[c].op = "create"
    /\ pc[c] = "saveClaim" => call[c].op \in {"create", "claim"}
    /\ pc[c] = "saveRelease" => call[c].op = "release"
    /\ pc[c] = "saveList" => call[c].op \in {"list", "collect"}
    /\ pc[c] \in {"gitrm", "prune", "branch", "saveRemove"} =>
          reg[c][call[c].name] # Nil

\* An answer that says more than an error is given under the file lock, and
\* one that promises the worktree is true of the file.
AnswerFits(c) ==
    /\ pc[c] = "unlock" /\ out[c] # "error" => flock = c
    /\ pc[c] = "unlock" /\ out[c] \in {"created", "reused", "claimed", "reclaimed"} =>
          LET e == registry[call[c].name] IN
          e # Nil /\ e.claim # Nil /\ e.claim.sess = owner[c]

\* The inductive invariant of this module, beside IInv.
LedgerInv == \A c \in Caller : PlaceFits(c) /\ AnswerFits(c)

\* A caller's own step keeps its place and its call together.
LEMMA OwnPlace ==
    ASSUME TypeOK, NEW c \in Caller, CallerStep(c), PlaceFits(c)
    PROVE  PlaceFits(c)'
<1> USE DEF TypeOK, Goto, Return, frameVars, PlaceFits
<1>1. CASE (\E k \in Calls : Invoke(c, k)) \/ TakeMutex(c) \/ TakeFlock(c) \/ Load(c)
  BY <1>1 DEF Invoke, TakeMutex, TakeFlock, Load
<1>2. CASE EarlyError(c) \/ CreateExisting(c) \/ CreateFresh(c) \/ ClaimBody(c)
  BY <1>2 DEF EarlyError, CreateExisting, CreateFresh, ClaimBody
<1>3. CASE ReleaseBody(c) \/ ListBody(c) \/ RemoveBody(c)
  BY <1>3 DEF ReleaseBody, ListBody, RemoveBody
<1>4. CASE ResolveBase(c)
  BY <1>4 DEF ResolveBase
<1>5. CASE GitAdd(c) \/ GitRemove(c) \/ GitPrune(c) \/ DeleteBranch(c)
  BY <1>5 DEF GitAdd, GitRemove, PruneFails, GitPrune, DeleteBranch
<1>6. CASE SaveNew(c) \/ SaveClaim(c) \/ SaveRelease(c) \/ SaveRemove(c) \/ SaveList(c)
  BY <1>6 DEF SaveNew, SaveClaim, ClaimResult, SaveRelease, SaveRemove, SaveList
<1>7. CASE SaveFails(c)
  BY <1>7 DEF SaveFails
<1>8. CASE Unlock(c)
  BY <1>8 DEF Unlock
<1> QED
  BY <1>1, <1>2, <1>3, <1>4, <1>5, <1>6, <1>7, <1>8 DEF CallerStep, Work

\* The entry of a new worktree.
NewEntry(c) ==
    [base |-> plan[c].base, resumed |-> plan[c].resumed, claim |-> NewClaim(c)]

\* It is one that the registry can have.
LEMMA NewEntryType ==
    ASSUME TypeOK, NEW c \in Caller
    PROVE  NewEntry(c) \in Entry
BY NewClaimType DEF TypeOK, NewEntry, Entry

\* Setting an entry's claim changes that and nothing else.
LEMMA EntryWithClaim ==
    ASSUME NEW e \in Entry, NEW cl \in Claim \cup {Nil}
    PROVE  /\ [e EXCEPT !.claim = cl] \in Entry
           /\ [e EXCEPT !.claim = cl].claim = cl
           /\ [e EXCEPT !.claim = cl].base = e.base
           /\ [e EXCEPT !.claim = cl].resumed = e.resumed
BY DEF Entry

\* The answer of a caller that returns is given under the lock, and is true.
LEMMA OwnAnswer ==
    ASSUME IInv, NEW c \in Caller, CallerStep(c), PlaceFits(c), AnswerFits(c)
    PROVE  AnswerFits(c)'
<1> DEFINE n == call[c].name
<1>0. TypeOK /\ WorkersHoldFlock /\ SnapshotIsCurrent /\ DecisionOf(c)
  BY DEF IInv, DecisionStands
<1>1. CASE pc'[c] # "unlock" \/ out'[c] = "error"
  BY <1>1 DEF AnswerFits
<1>2. ASSUME pc[c] \in Working, UNCHANGED flock PROVE flock' = c
  BY <1>0, <1>2 DEF WorkersHoldFlock
<1>3. CASE CreateExisting(c) \/ ClaimBody(c)
  <2>0. UNCHANGED <<registry, call, owner, flock>>
    BY <1>3, BodyMoves DEF lockVars, frameVars
  <2>1. pc[c] \in Working
    BY <1>3 DEF CreateExisting, ClaimBody, Working
  <2>2. reg[c] = registry /\ n \in Name
    BY <1>0, <2>1 DEF SnapshotIsCurrent, Working, Saving, TypeOK, Call
  <2>3. CASE DeriveStatus(Reconciled(c)[n].claim, owner[c]) = "self" /\ Reconciled(c)[n] # Nil
    <3>1. /\ registry[n] = Reconciled(c)[n]
          /\ registry[n].claim # Nil /\ registry[n].claim.sess = owner[c]
      BY <2>2, <2>3 DEF Reconciled, DeriveStatus
    <3> QED
      BY <1>2, <2>0, <2>1, <2>3, <3>1 DEF AnswerFits
  <2>4. CASE ~(DeriveStatus(Reconciled(c)[n].claim, owner[c]) = "self" /\ Reconciled(c)[n] # Nil)
    <3>1. pc'[c] # "unlock" \/ out'[c] = "error"
      BY <1>0, <1>3, <2>4 DEF CreateExisting, ClaimBody, Goto, Return, TypeOK
    <3> QED
      BY <1>1, <3>1
  <2> QED
    BY <2>3, <2>4
<1>4. CASE ReleaseBody(c) \/ ListBody(c) \/ SaveFails(c) \/ SaveRelease(c) \/ SaveRemove(c) \/ SaveList(c)
  <2>1. pc[c] \in Working /\ UNCHANGED flock
    BY <1>4 DEF ReleaseBody, ListBody, SaveFails, SaveRelease, SaveRemove, SaveList,
                Working, Saving, lockVars
  <2>2. pc'[c] = "unlock" => out'[c] \notin {"created", "reused", "claimed", "reclaimed"}
    BY <1>0, <1>4 DEF ReleaseBody, ListBody, SaveFails, SaveRelease, SaveRemove, SaveList,
                      Goto, Return, TypeOK
  <2> QED
    BY <1>2, <2>1, <2>2 DEF AnswerFits
<1>5. CASE SaveNew(c) \/ SaveClaim(c)
  <2>1. pc[c] \in Working /\ UNCHANGED <<flock, call, owner>>
    BY <1>5 DEF SaveNew, SaveClaim, Working, Saving, lockVars, frameVars
  <2>2. n \in Name /\ Reconciled(c) \in Registry
    BY <1>0, <2>1, ReconciledType DEF Working, Saving, TypeOK, Call
  <2>3. NewClaim(c) \in Claim /\ NewClaim(c).sess = owner[c]
    BY <1>0, NewClaimType DEF NewClaim
  <2>4. registry'[n] # Nil /\ registry'[n].claim = NewClaim(c)
    <3>1. CASE SaveNew(c)
      <4>1. NewEntry(c) \in Entry /\ NewEntry(c).claim = NewClaim(c)
        BY <1>0, NewEntryType DEF NewEntry
      <4>2. registry'[n] = NewEntry(c)
        BY <2>2, <3>1 DEF SaveNew, NewEntry, Registry
      <4> QED
        BY <4>1, <4>2, NilAssumption
    <3>2. CASE SaveClaim(c)
      <4>1. Reconciled(c)[n] \in Entry
        BY <1>0, <2>2, <3>2 DEF SaveClaim, DecisionOf, Registry
      <4>2. registry'[n] = [Reconciled(c)[n] EXCEPT !.claim = NewClaim(c)]
        BY <2>2, <3>2 DEF SaveClaim, WithClaim, Registry
      <4> QED
        BY <2>3, <4>1, <4>2, EntryWithClaim, NilAssumption
    <3> QED
      BY <1>5, <3>1, <3>2
  <2> QED
    BY <1>2, <2>1, <2>3, <2>4, NilAssumption DEF AnswerFits
<1>6. CASE \/ (\E k \in Calls : Invoke(c, k)) \/ TakeMutex(c) \/ TakeFlock(c) \/ Load(c)
           \/ EarlyError(c) \/ CreateFresh(c) \/ ResolveBase(c) \/ GitAdd(c)
           \/ RemoveBody(c) \/ GitRemove(c) \/ GitPrune(c) \/ DeleteBranch(c) \/ Unlock(c)
  <2>1. pc'[c] # "unlock" \/ out'[c] = "error"
    BY <1>0, <1>6
       DEF Invoke, TakeMutex, TakeFlock, Load, EarlyError, CreateFresh, ResolveBase, GitAdd,
           RemoveBody, GitRemove, PruneFails, GitPrune, DeleteBranch, Unlock, Goto, Return, TypeOK
  <2> QED
    BY <1>1, <2>1
<1> QED
  BY <1>3, <1>4, <1>5, <1>6 DEF CallerStep, Work

\* A caller that has been told keeps the file lock, so nobody else changes
\* what it has been told of.
LEMMA OthersAnswer ==
    ASSUME IInv, NEW c \in Caller, CallerStep(c), NEW d \in Caller \ {c}, AnswerFits(d)
    PROVE  AnswerFits(d)'
<1>0. TypeOK /\ WorkersHoldFlock
  BY DEF IInv
<1>1. UNCHANGED <<pc[d], out[d], call[d], owner[d]>>
  BY <1>0, OthersStand DEF FrameOf
<1>2. ASSUME flock = d PROVE UNCHANGED <<registry, flock>>
  <2>1. pc[c] \notin {"load"} \cup Working
    BY <1>0, <1>2 DEF WorkersHoldFlock
  <2>2. ~Writes(c)
    BY <1>0, <2>1, WriterReturns DEF Working
  <2>3. registry' = registry
    BY <2>2, CallerOnlySaves
  <2>4. flock' = flock
    <3>1. CASE (\E k \in Calls : Invoke(c, k)) \/ TakeMutex(c)
      BY <3>1 DEF Invoke, TakeMutex, lockVars
    <3>2. CASE TakeFlock(c)
      BY <1>2, <3>2, ManagerAssumption DEF TakeFlock, FlockFree, ManagerAssumption
    <3>3. CASE Unlock(c)
      BY <1>2, <3>3 DEF Unlock, FlockReleased
    <3>4. CASE Work(c) /\ ~Unlock(c)
      BY <1>0, <3>4, WorkFrame DEF lockVars
    <3> QED
      BY <3>1, <3>2, <3>3, <3>4 DEF CallerStep
  <2> QED
    BY <2>3, <2>4
<1> QED
  BY <1>1, <1>2 DEF AnswerFits

\* Every step keeps the invariant.
LEMMA StepLedgerInv == IInv /\ LedgerInv /\ [Next]_vars => LedgerInv'
<1> SUFFICES ASSUME IInv, LedgerInv, [Next]_vars, NEW d \in Caller
             PROVE  PlaceFits(d)' /\ AnswerFits(d)'
  BY DEF LedgerInv
<1>0. TypeOK /\ PlaceFits(d) /\ AnswerFits(d)
  BY DEF IInv, LedgerInv
<1>1. ASSUME NEW c \in Caller, CallerStep(c) PROVE PlaceFits(d)' /\ AnswerFits(d)'
  <2>1. CASE d = c
    BY <1>0, <1>1, <2>1, OwnPlace, OwnAnswer
  <2>2. CASE d # c
    <3>1. PlaceFits(d)'
      BY <1>0, <1>1, <2>2, OthersStand DEF PlaceFits, FrameOf
    <3> QED
      BY <1>0, <1>1, <2>2, <3>1, OthersAnswer
  <2> QED
    BY <2>1, <2>2
<1>2. ASSUME NEW p \in Proc, Crash(p) PROVE PlaceFits(d)' /\ AnswerFits(d)'
  <2>1. CASE pc'[d] = "idle" /\ out'[d] = "none"
    BY <2>1 DEF PlaceFits, AnswerFits
  <2>2. CASE UNCHANGED FrameOf(d) /\ ProcOf[d] # p
    <3>1. registry' = registry /\ (flock = d => flock' = d)
      BY <1>2, <2>2 DEF Crash
    <3> QED
      BY <1>0, <2>2, <3>1 DEF PlaceFits, AnswerFits, FrameOf
  <2> QED
    BY <1>2, <2>1, <2>2, CrashStands
<1>3. CASE HostStep
  BY <1>0, <1>3, HostStands DEF PlaceFits, AnswerFits, FrameOf, lockVars
<1> QED
  BY <1>1, <1>2, <1>3, StepCases

\* The places and the answers fit throughout.
THEOREM LedgerInvariance == Spec => []LedgerInv
<1>1. Init => LedgerInv
  BY DEF Init, LedgerInv, PlaceFits, AnswerFits
<1>2. IInv /\ LedgerInv /\ [Next]_vars => LedgerInv'
  BY StepLedgerInv
<1> QED
  BY <1>1, <1>2, Invariance, PTL DEF Spec

\* Whoever is told that it has a worktree is the one that registry.json names
\* when it is told.
THEOREM ToldTheTruth == Spec => []ToldIsHeld
<1>1. LedgerInv => ToldIsHeld
  BY DEF LedgerInv, AnswerFits, ToldIsHeld
<1> QED
  BY <1>1, LedgerInvariance, PTL

----------------------------------------------------------------------------
(* What is handed out, or given back, is there.                            *)

Given(c) ==
    pc[c] = "unlock" /\ out[c] \in {"reused", "claimed", "reclaimed", "released"}
    => call[c].name \in seen[c]

\* A known name has an entry in the reconciled copy, so that a caller is past
\* the checks of its body, or at the save of a claim, only with a listed one.
LEMMA OwnGiven ==
    ASSUME IInv, NEW c \in Caller, CallerStep(c), Given(c)
    PROVE  Given(c)'
<1> DEFINE n == call[c].name
<1>0. TypeOK /\ DecisionOf(c)
  BY DEF IInv, DecisionStands
<1>1. CASE \/ CreateExisting(c) \/ ClaimBody(c) \/ ReleaseBody(c)
           \/ SaveClaim(c) \/ SaveRelease(c)
  <2>1. UNCHANGED <<call, seen>> /\ call[c] \in Call
    BY <1>0, <1>1 DEF CreateExisting, ClaimBody, ReleaseBody, SaveClaim, SaveRelease,
                      TypeOK, frameVars
  <2>2. CASE n \in seen[c]
    BY <2>1, <2>2 DEF Given
  <2>3. CASE n \notin seen[c]
    <3>1. Reconciled(c)[n] = Nil
      BY <2>1, <2>3 DEF Reconciled, Call
    <3>2. ~CreateExisting(c) /\ ~SaveClaim(c) /\ ~SaveRelease(c)
      BY <1>0, <3>1 DEF CreateExisting, SaveClaim, SaveRelease, DecisionOf
    <3>3. out'[c] = "error"
      BY <1>0, <1>1, <3>1, <3>2 DEF ClaimBody, ReleaseBody, Return, TypeOK
    <3> QED
      BY <3>3 DEF Given
  <2> QED
    BY <2>2, <2>3
<1>2. CASE \/ SaveNew(c) \/ SaveRemove(c) \/ SaveList(c) \/ SaveFails(c) \/ ListBody(c)
  <2>1. pc'[c] = "unlock" => out'[c] \in {"created", "removed", "listed", "error"}
    BY <1>0, <1>2 DEF SaveNew, SaveRemove, SaveList, SaveFails, ListBody, Return, Goto, TypeOK
  <2> QED
    BY <2>1 DEF Given
<1>3. CASE \/ (\E k \in Calls : Invoke(c, k)) \/ TakeMutex(c) \/ TakeFlock(c) \/ Load(c)
           \/ EarlyError(c) \/ CreateFresh(c) \/ ResolveBase(c) \/ GitAdd(c)
           \/ RemoveBody(c) \/ GitRemove(c) \/ GitPrune(c) \/ DeleteBranch(c) \/ Unlock(c)
  <2>1. pc'[c] # "unlock" \/ out'[c] = "error"
    BY <1>0, <1>3
       DEF Invoke, TakeMutex, TakeFlock, Load, EarlyError, CreateFresh, ResolveBase, GitAdd,
           RemoveBody, GitRemove, PruneFails, GitPrune, DeleteBranch, Unlock, Goto, Return, TypeOK
  <2> QED
    BY <2>1 DEF Given
<1> QED
  BY <1>1, <1>2, <1>3 DEF CallerStep, Work

LEMMA StepGiven ==
    ASSUME IInv, [Next]_vars, NEW d \in Caller, Given(d)
    PROVE  Given(d)'
<1>0. TypeOK
  BY DEF IInv
<1>1. ASSUME NEW c \in Caller, CallerStep(c) PROVE Given(d)'
  <2>1. CASE d = c
    BY <1>1, <2>1, OwnGiven
  <2>2. CASE d # c
    BY <1>0, <1>1, <2>2, OthersStand DEF Given, FrameOf
  <2> QED
    BY <2>1, <2>2
<1>2. ASSUME NEW p \in Proc, Crash(p) PROVE Given(d)'
  BY <1>2, CrashStands DEF Given, FrameOf
<1>3. CASE HostStep
  BY <1>3, HostStands DEF Given, FrameOf
<1> QED
  BY <1>1, <1>2, <1>3, StepCases

\* No entry that outlived its worktree is handed out, claimed or released,
\* whoever removed it and whatever died in between.
THEOREM TheGoneAreNotGiven == Spec => []HandedOutIsListed
<1>1. Init => \A d \in Caller : Given(d)
  BY DEF Init, Given
<1>2. IInv /\ (\A d \in Caller : Given(d)) /\ [Next]_vars => (\A d \in Caller : Given(d))'
  BY StepGiven
<1>3. (\A d \in Caller : Given(d)) => HandedOutIsListed
  BY DEF Given, HandedOutIsListed
<1> QED
  BY <1>1, <1>2, <1>3, Invariance, PTL DEF Spec

----------------------------------------------------------------------------
(* The ledger's state, as the manager's state shows it.                    *)

\* A step that writes nothing, and neither starts, answers nor ends a call,
\* does not show.
LEMMA Unseen ==
    ASSUME UNCHANGED <<registry, now, alive, call, owner, out>>,
           \A c \in Caller : pc'[c] = "idle" <=> pc[c] = "idle"
    PROVE  UNCHANGED Ledger!ledger
BY DEF Ledger!ledger, Ledger!written

\* Without a write the ledger stands.
LEMMA Unwritten ==
    ASSUME registry' = registry
    PROVE  UNCHANGED Ledger!written
BY DEF Ledger!written

\* A caller that returns answers its request.
LEMMA Answers ==
    ASSUME TypeOK, NEW c \in Caller, PlaceFits(c), pc[c] \notin {"idle", "unlock"},
           NEW result, Return(c, result), UNCHANGED <<call, owner, now, alive>>,
           NEW ops, call[c].op \in ops
    PROVE  Ledger!Answer(c, ops, result)
<1>1. [op |-> call[c].op, name |-> call[c].name, who |-> owner[c]] # Nil
  BY NilAssumption DEF TypeOK, Call
<1> QED
  BY <1>1 DEF Ledger!Answer, Return, PlaceFits, TypeOK

\* The request of a caller that is at work.
LEMMA RequestOf ==
    ASSUME NEW c \in Caller, pc[c] # "idle"
    PROVE  /\ Ledger!Owns(c, registry[call[c].name].claim) <=>
                 owner[c] # NoSession /\ registry[call[c].name].claim.sess = owner[c]
           /\ \A t \in (now - TicksPerSecond + 1) .. now :
                 [sess |-> owner[c], pid |-> ProcOf[c], at |-> t] \in Ledger!FreshClaims(c)
BY DEF Ledger!Owns, Ledger!FreshClaims

\* claimed_at is less than a second old.
LEMMA StampIsFresh ==
    ASSUME now \in Nat
    PROVE  Stamp \in (now - TicksPerSecond + 1) .. now
<1>1. TicksPerSecond \in Nat \ {0}
  BY ManagerAssumption DEF ManagerAssumption
<1>2. now % TicksPerSecond \in 0 .. (TicksPerSecond - 1)
  BY <1>1
<1> QED
  BY <1>1, <1>2 DEF Stamp

\* What the code calls stale the ledger calls lapsed.
LEMMA StaleIsLapsed ==
    ASSUME TypeOK, NEW cl \in Claim
    PROVE  Stale(cl) <=> Ledger!Lapsed(cl)
BY ManagerAssumption DEF TypeOK, Stale, Expired, Ledger!Lapsed, Claim, ManagerAssumption

\* The entries that reconcile drops.
Dropped(c) == {n \in Name : registry[n] # Nil /\ n \notin seen[c]}

\* A save of one entry over the reconciled registry is one write of the
\* ledger.
LEMMA EntryWritten ==
    ASSUME TypeOK, NEW c \in Caller, reg[c] = registry, NEW n \in Name, NEW e \in Entry,
           registry' = [Reconciled(c) EXCEPT ![n] = e]
    PROVE  Ledger!Write(n, e.claim, Dropped(c))
<1>1. Reconciled(c) \in [Name -> Entry \cup {Nil}]
  BY ReconciledType DEF Registry
<1>2. /\ registry'[n] = e /\ e # Nil
      /\ \A m \in Name \ {n} : registry'[m] = IF m \in seen[c] THEN registry[m] ELSE Nil
  BY <1>1, NilAssumption DEF Reconciled
<1> QED
  BY <1>2 DEF Ledger!Write, Dropped

\* Saving the reconciled registry forgets what reconcile dropped.
LEMMA DroppedForgotten ==
    ASSUME NEW c \in Caller, reg[c] = registry, registry' = Reconciled(c)
    PROVE  Ledger!Forget(Dropped(c))
<1>1. \A m \in Name : registry'[m] = IF m \in seen[c] THEN registry[m] ELSE Nil
  BY DEF Reconciled
<1> QED
  BY <1>1 DEF Ledger!Forget, Dropped

\* What every save finds: its frame, a call with a name, the current registry.
LEMMA SaveFinds ==
    ASSUME IInv, NEW c \in Caller, Writes(c)
    PROVE  /\ TypeOK /\ DecisionOf(c) /\ reg[c] = registry
           /\ call[c].name \in Name
           /\ pc[c] \notin {"idle", "unlock"}
           /\ UNCHANGED <<call, owner, now, alive>>
           /\ Dropped(c) \in SUBSET {n \in Name : registry[n] # Nil}
BY WriterReturns
   DEF IInv, DecisionStands, SnapshotIsCurrent, TypeOK, Call, Working, Saving, Dropped

\* Create's save registers the name.
LEMMA NewRegisters ==
    ASSUME IInv, NEW c \in Caller, PlaceFits(c), SaveNew(c)
    PROVE  Ledger!Register(c, Dropped(c))
<1> DEFINE n == call[c].name
<1>0. /\ TypeOK /\ DecisionOf(c) /\ reg[c] = registry /\ n \in Name
      /\ pc[c] \notin {"idle", "unlock"} /\ UNCHANGED <<call, owner, now, alive>>
      /\ Dropped(c) \in SUBSET {m \in Name : registry[m] # Nil}
  BY SaveFinds DEF Writes
<1>1. Ledger!Answer(c, {"create"}, "created")
  <2>1. call[c].op \in {"create"} /\ Return(c, "created")
    BY DEF SaveNew, PlaceFits
  <2> QED
    BY <1>0, <2>1, Answers
<1>2. n \notin {m \in Name : registry[m] # Nil} \ Dropped(c)
  BY <1>0 DEF SaveNew, DecisionOf, Reconciled, Dropped
<1>3. Ledger!Write(n, NewClaim(c), Dropped(c))
  <2>1. NewEntry(c) \in Entry /\ NewEntry(c).claim = NewClaim(c)
    BY <1>0, NewEntryType DEF NewEntry
  <2>2. registry' = [Reconciled(c) EXCEPT ![n] = NewEntry(c)]
    BY DEF SaveNew, NewEntry
  <2> QED
    BY <1>0, <2>1, <2>2, EntryWritten
<1>4. NewClaim(c) \in Ledger!FreshClaims(c)
  BY <1>0, RequestOf, StampIsFresh DEF NewClaim, TypeOK
<1> QED
  BY <1>0, <1>1, <1>2, <1>3, <1>4 DEF Ledger!Register

\* A caller's step that forgets what reconcile dropped settles its call.
LEMMA Settles ==
    ASSUME NEW c \in Caller, Dropped(c) \in SUBSET {n \in Name : registry[n] # Nil},
           \/ Ledger!Register(c, Dropped(c)) \/ Ledger!Take(c, Dropped(c))
           \/ Ledger!Retake(c, Dropped(c)) \/ Ledger!Clear(c, Dropped(c))
           \/ Ledger!ListAll(c, Dropped(c)),
           out[c] = "none", out'[c] # "none"
    PROVE  Ledger!Settle(c)
<1> DEFINE gone == Dropped(c)
<1>1. CASE Ledger!Register(c, gone)
  BY <1>1 DEF Ledger!Settle, Ledger!Register, Ledger!Write
<1>2. CASE Ledger!Take(c, gone)
  BY <1>2 DEF Ledger!Settle, Ledger!Take, Ledger!Write
<1>3. CASE Ledger!Retake(c, gone)
  BY <1>3 DEF Ledger!Settle, Ledger!Retake, Ledger!Write
<1>4. CASE Ledger!Clear(c, gone)
  BY <1>4 DEF Ledger!Settle, Ledger!Clear, Ledger!Write
<1>5. CASE Ledger!ListAll(c, gone)
  BY <1>5 DEF Ledger!Settle, Ledger!ListAll, Ledger!Forget
<1> QED
  BY <1>1, <1>2, <1>3, <1>4, <1>5

\* The entry that SaveClaim and SaveRelease write.
LEMMA ClaimWritten ==
    ASSUME TypeOK, NEW c \in Caller, reg[c] = registry, call[c].name \in Name,
           Reconciled(c)[call[c].name] # Nil, NEW cl \in Claim \cup {Nil},
           registry' = WithClaim(c, cl)
    PROVE  /\ Ledger!Write(call[c].name, cl, Dropped(c))
           /\ call[c].name \in {n \in Name : registry[n] # Nil} \ Dropped(c)
           /\ registry[call[c].name] = Reconciled(c)[call[c].name]
<1> DEFINE n == call[c].name
           e == Reconciled(c)[n]
<1>1. /\ Reconciled(c) \in [Name -> Entry \cup {Nil}]
      /\ e \in Entry /\ n \in seen[c] /\ registry[n] = e
  BY ReconciledType DEF Registry, Reconciled
<1>2. [e EXCEPT !.claim = cl] \in Entry /\ [e EXCEPT !.claim = cl].claim = cl
  BY <1>1, EntryWithClaim
<1>3. registry' = [Reconciled(c) EXCEPT ![n] = [e EXCEPT !.claim = cl]]
  BY <1>1 DEF WithClaim
<1>4. Ledger!Write(n, cl, Dropped(c))
  BY <1>2, <1>3, EntryWritten
<1> QED
  BY <1>1, <1>4, NilAssumption DEF Dropped

\* A claim that is saved is taken from nobody, or from a claim that has lapsed.
LEMMA ClaimTakes ==
    ASSUME IInv, NEW c \in Caller, PlaceFits(c), SaveClaim(c)
    PROVE  Ledger!Take(c, Dropped(c)) \/ Ledger!Retake(c, Dropped(c))
<1> DEFINE n == call[c].name
           cl == registry[n].claim
<1>0. /\ TypeOK /\ DecisionOf(c) /\ reg[c] = registry /\ n \in Name
      /\ pc[c] \notin {"idle", "unlock"} /\ UNCHANGED <<call, owner, now, alive>>
  BY SaveFinds DEF Writes
<1>1. /\ Ledger!Write(n, NewClaim(c), Dropped(c))
      /\ n \in {m \in Name : registry[m] # Nil} \ Dropped(c)
      /\ registry[n] = Reconciled(c)[n]
  <2>1. Reconciled(c)[n] # Nil /\ NewClaim(c) \in Claim \cup {Nil}
    BY <1>0, NewClaimType DEF SaveClaim, DecisionOf
  <2> QED
    BY <1>0, <2>1, ClaimWritten DEF SaveClaim
<1>2. NewClaim(c) \in Ledger!FreshClaims(c)
  BY <1>0, RequestOf, StampIsFresh DEF NewClaim, TypeOK
<1>3. call[c].op \in {"create", "claim"} /\ Return(c, ClaimResult(c))
  BY DEF SaveClaim, PlaceFits
<1>4. \A result : Return(c, result) /\ call[c].op = "create"
                    => Ledger!Answer(c, {"create"}, result)
  BY <1>0, Answers
<1>5. \A result : Return(c, result) /\ call[c].op = "claim"
                    => Ledger!Answer(c, {"claim"}, result)
  BY <1>0, Answers
<1>6. CASE cl = Nil
  <2>1. Ledger!Answer(c, {"create"}, "reused") \/ Ledger!Answer(c, {"claim"}, "claimed")
    BY <1>0, <1>3, <1>4, <1>5, <1>6 DEF ClaimResult
  <2>2. Ledger!Take(c, Dropped(c))
    BY <1>0, <1>1, <1>2, <1>6, <2>1 DEF Ledger!Take
  <2> QED
    BY <2>2
<1>7. CASE cl # Nil
  <2>1. Ledger!Answer(c, {"create"}, "reused") \/ Ledger!Answer(c, {"claim"}, "reclaimed")
    BY <1>0, <1>3, <1>4, <1>5, <1>7 DEF ClaimResult
  <2>2. Ledger!Lapsed(cl)
    <3>1. cl \in Claim /\ Stale(cl)
      BY <1>0, <1>1, <1>7, LoadedClaim DEF SaveClaim, DecisionOf
    <3> QED
      BY <1>0, <3>1, StaleIsLapsed
  <2>3. Ledger!Retake(c, Dropped(c))
    BY <1>0, <1>1, <1>2, <1>7, <2>1, <2>2 DEF Ledger!Retake
  <2> QED
    BY <2>3
<1> QED
  BY <1>6, <1>7

\* A claim that is cleared is the caller's own, or has lapsed.
LEMMA ReleaseClears ==
    ASSUME IInv, NEW c \in Caller, PlaceFits(c), SaveRelease(c)
    PROVE  Ledger!Clear(c, Dropped(c))
<1> DEFINE n == call[c].name
           cl == registry[n].claim
<1>0. /\ TypeOK /\ DecisionOf(c) /\ reg[c] = registry /\ n \in Name
      /\ pc[c] \notin {"idle", "unlock"} /\ UNCHANGED <<call, owner, now, alive>>
  BY SaveFinds DEF Writes
<1>1. /\ Ledger!Write(n, Nil, Dropped(c))
      /\ n \in {m \in Name : registry[m] # Nil} \ Dropped(c)
      /\ registry[n] = Reconciled(c)[n]
  <2>1. Reconciled(c)[n] # Nil
    BY <1>0 DEF SaveRelease, DecisionOf
  <2> QED
    BY <1>0, <2>1, ClaimWritten DEF SaveRelease
<1>2. Ledger!Answer(c, {"release"}, "released")
  <2>1. call[c].op \in {"release"} /\ Return(c, "released")
    BY DEF SaveRelease, PlaceFits
  <2> QED
    BY <1>0, <2>1, Answers
<1>3. cl # Nil /\ (Ledger!Owns(c, cl) \/ Ledger!Lapsed(cl))
  <2>1. cl \in Claim /\ ((owner[c] # NoSession /\ cl.sess = owner[c]) \/ Stale(cl))
    BY <1>0, <1>1, LoadedClaim DEF SaveRelease, DecisionOf
  <2> QED
    BY <1>0, <2>1, RequestOf, StaleIsLapsed, NilAssumption
<1> QED
  BY <1>0, <1>1, <1>2, <1>3 DEF Ledger!Clear

\* Remove drops the one name, and List and Collect those that git has lost.
LEMMA RemoveDrops ==
    ASSUME IInv, NEW c \in Caller, PlaceFits(c), SaveRemove(c)
    PROVE  Ledger!Drop(c)
<1> DEFINE n == call[c].name
<1>0. /\ TypeOK /\ DecisionOf(c) /\ reg[c] = registry /\ n \in Name
      /\ pc[c] \notin {"idle", "unlock"} /\ UNCHANGED <<call, owner, now, alive>>
  BY SaveFinds DEF Writes
<1>1. Ledger!Answer(c, {"remove"}, "removed")
  <2>1. call[c].op \in {"remove"} /\ Return(c, "removed")
    BY <1>0 DEF SaveRemove, DecisionOf
  <2> QED
    BY <1>0, <2>1, Answers
<1>2. \A m \in Name : registry'[m] = IF m = n THEN Nil ELSE registry[m]
  BY <1>0 DEF SaveRemove, TypeOK, Registry
<1>3. registry[n] # Nil
  BY <1>0 DEF SaveRemove, PlaceFits
<1> QED
  BY <1>0, <1>1, <1>2, <1>3 DEF Ledger!Drop, Ledger!Forget

\* The save of a list or a collect forgets what its reconcile dropped.
LEMMA ListForgets ==
    ASSUME IInv, NEW c \in Caller, PlaceFits(c), SaveList(c)
    PROVE  Ledger!ListAll(c, Dropped(c))
<1>0. /\ TypeOK /\ reg[c] = registry
      /\ pc[c] \notin {"idle", "unlock"} /\ UNCHANGED <<call, owner, now, alive>>
  BY SaveFinds DEF Writes
<1>1. Ledger!Answer(c, {"list", "collect"}, "listed")
  <2>1. call[c].op \in {"list", "collect"} /\ Return(c, "listed")
    BY DEF SaveList, PlaceFits
  <2> QED
    BY <1>0, <2>1, Answers
<1>2. Ledger!Forget(Dropped(c))
  BY <1>0, DroppedForgotten DEF SaveList
<1> QED
  BY <1>1, <1>2 DEF Ledger!ListAll

----------------------------------------------------------------------------
(* Every step is a step of the ledger, or none.                            *)

\* What a caller's step looks like in the ledger.
Shows(c) ==
    Ledger!Ask(c) \/ Ledger!Settle(c) \/ Ledger!Return(c) \/ UNCHANGED Ledger!ledger

\* A call that fails is refused, and a caller that only moves does not show.
LEMMA QuietShows ==
    ASSUME TypeOK, NEW c \in Caller, PlaceFits(c), pc[c] \notin {"idle", "unlock"},
           UNCHANGED <<registry, now, alive, call, owner>>,
           \/ \E label \in PC \ {"idle"} : Goto(c, label)
           \/ Return(c, "error")
    PROVE  Shows(c)
<1>1. ASSUME NEW label \in PC \ {"idle"}, Goto(c, label) PROVE UNCHANGED Ledger!ledger
  BY <1>1, Unseen DEF Goto, TypeOK
<1>2. CASE Return(c, "error")
  <2>1. call[c].op \in Ledger!Operation
    BY DEF TypeOK, Call, Op, Ledger!Operation
  <2>2. Ledger!Answer(c, Ledger!Operation, "error")
    BY <1>2, <2>1, Answers
  <2>3. Ledger!Refuse(c)
    BY <2>2, Unwritten DEF Ledger!Refuse
  <2>4. out[c] = "none" /\ out'[c] # "none"
    BY <1>2 DEF Return, PlaceFits, TypeOK
  <2> QED
    BY <2>3, <2>4 DEF Ledger!Settle, Shows
<1> QED
  BY <1>1, <1>2 DEF Shows

\* A list that writes nothing forgets nothing.
LEMMA UnwrittenList ==
    ASSUME TypeOK, NEW c \in Caller, PlaceFits(c), pc[c] \notin {"idle", "unlock"},
           UNCHANGED <<registry, now, alive, call, owner>>,
           call[c].op \in {"list", "collect"}, Return(c, "listed")
    PROVE  Shows(c)
<1>1. Ledger!Answer(c, {"list", "collect"}, "listed")
  BY Answers
<1>2. Ledger!Forget({})
  BY DEF Ledger!Forget
<1>3. Ledger!ListAll(c, {})
  BY <1>1, <1>2 DEF Ledger!ListAll
<1>4. out[c] = "none" /\ out'[c] # "none"
  BY DEF Return, PlaceFits, TypeOK
<1> QED
  BY <1>3, <1>4 DEF Ledger!Settle, Shows

\* A caller that finds its own claim confirms it.
LEMMA OwnIsConfirmed ==
    ASSUME IInv, NEW c \in Caller, PlaceFits(c), pc[c] = "body",
           UNCHANGED <<registry, now, alive, call, owner>>,
           Reconciled(c)[call[c].name] # Nil,
           DeriveStatus(Reconciled(c)[call[c].name].claim, owner[c]) = "self",
           \/ call[c].op = "create" /\ Return(c, "reused")
           \/ call[c].op = "claim" /\ Return(c, "claimed")
    PROVE  Shows(c)
<1> DEFINE n == call[c].name
<1>0. TypeOK /\ reg[c] = registry /\ n \in Name
  BY DEF IInv, SnapshotIsCurrent, Working, TypeOK, Call
<1>1. /\ registry[n] # Nil /\ registry[n].claim # Nil
      /\ owner[c] # NoSession /\ registry[n].claim.sess = owner[c]
  BY <1>0 DEF Reconciled, DeriveStatus
<1>2. Ledger!Answer(c, {"create"}, "reused") \/ Ledger!Answer(c, {"claim"}, "claimed")
  BY <1>0, Answers
<1>3. Ledger!Confirm(c)
  BY <1>0, <1>1, <1>2, RequestOf, Unwritten DEF Ledger!Confirm
<1>4. out[c] = "none" /\ out'[c] # "none"
  BY <1>0 DEF Return, PlaceFits, TypeOK
<1> QED
  BY <1>3, <1>4 DEF Ledger!Settle, Shows

\* What create, claim and release decide shows as it should.
LEMMA BodyShows ==
    ASSUME IInv, NEW c \in Caller, PlaceFits(c),
           CreateExisting(c) \/ ClaimBody(c) \/ ReleaseBody(c) \/ ListBody(c)
    PROVE  Shows(c)
<1> DEFINE n == call[c].name
           e == Reconciled(c)[n]
           st == DeriveStatus(e.claim, owner[c])
<1>0. /\ TypeOK /\ pc[c] = "body" /\ UNCHANGED <<registry, now, alive, call, owner>>
      /\ reg[c] = registry /\ n \in Name
  BY BodyMoves
     DEF IInv, SnapshotIsCurrent, Working, TypeOK, Call, hostVars, frameVars,
         CreateExisting, ClaimBody, ReleaseBody, ListBody
<1>1. CASE CreateExisting(c)
  <2>1. CASE st = "self" /\ Return(c, "reused")
    BY <1>0, <1>1, <2>1, OwnIsConfirmed DEF CreateExisting
  <2>2. CASE Goto(c, "saveClaim") \/ Return(c, "error")
    BY <1>0, <2>2, QuietShows DEF PC, Working, Saving
  <2> QED
    BY <1>1, <2>1, <2>2 DEF CreateExisting
<1>2. CASE ClaimBody(c)
  <2>1. CASE e # Nil /\ st = "self" /\ Return(c, "claimed")
    BY <1>0, <1>2, <2>1, OwnIsConfirmed DEF ClaimBody
  <2>2. CASE Goto(c, "saveClaim") \/ Return(c, "error")
    BY <1>0, <2>2, QuietShows DEF PC, Working, Saving
  <2> QED
    BY <1>2, <2>1, <2>2 DEF ClaimBody
<1>3. CASE ReleaseBody(c)
  <2>1. CASE e # Nil /\ st = "available" /\ Return(c, "released")
    <3>1. registry[n] # Nil /\ registry[n].claim = Nil
      BY <1>0, <2>1 DEF Reconciled, DeriveStatus
    <3>2. Ledger!Answer(c, {"release"}, "released")
      BY <1>0, <1>3, <2>1, Answers DEF ReleaseBody
    <3>3. Ledger!AlreadyFree(c)
      BY <1>0, <3>1, <3>2, Unwritten DEF Ledger!AlreadyFree
    <3>4. out[c] = "none" /\ out'[c] # "none"
      BY <1>0, <2>1 DEF Return, PlaceFits, TypeOK
    <3> QED
      BY <3>3, <3>4 DEF Ledger!Settle, Shows
  <2>2. CASE Goto(c, "saveRelease") \/ Return(c, "error")
    BY <1>0, <2>2, QuietShows DEF PC, Working, Saving
  <2> QED
    BY <1>3, <2>1, <2>2 DEF ReleaseBody
<1>4. CASE ListBody(c)
  <2>1. CASE Return(c, "listed")
    BY <1>0, <1>4, <2>1, UnwrittenList DEF ListBody
  <2>2. CASE Goto(c, "saveList")
    BY <1>0, <2>2, QuietShows DEF PC, Working, Saving
  <2> QED
    BY <1>4, <2>1, <2>2 DEF ListBody
<1> QED
  BY <1>1, <1>2, <1>3, <1>4

\* Every step of a caller is one of the ledger's, or none.
LEMMA CallerShows ==
    ASSUME IInv, LedgerInv, NEW c \in Caller, CallerStep(c)
    PROVE  Shows(c)
<1>0. TypeOK /\ PlaceFits(c)
  BY DEF IInv, LedgerInv
<1>1. ASSUME NEW k \in Calls, Invoke(c, k) PROVE Shows(c)
  <2>1. k \in Call /\ session[ProcOf[c]] \in Owner
    BY <1>0, ManagerAssumption DEF ManagerAssumption, TypeOK
  <2>2. [op |-> k.op, name |-> k.name, who |-> session[ProcOf[c]]] \in Ledger!Request
    BY <2>1 DEF Call, Op, Owner, Ledger!Request, Ledger!Operation
  <2>3. Ledger!Ask(c)
    BY <1>0, <1>1, <2>2 DEF Invoke, Goto, hostVars, TypeOK, Ledger!Ask, Ledger!written
  <2> QED
    BY <2>3 DEF Shows
<1>2. CASE TakeMutex(c) \/ TakeFlock(c) \/ Load(c)
  <2>1. /\ pc[c] \notin {"idle", "unlock"}
        /\ UNCHANGED <<registry, now, alive, call, owner>>
        /\ \E label \in PC \ {"idle"} : Goto(c, label)
    BY <1>2 DEF TakeMutex, TakeFlock, Load, hostVars, frameVars, PC, Working
  <2> QED
    BY <1>0, <2>1, QuietShows
<1>3. CASE EarlyError(c) \/ CreateFresh(c) \/ RemoveBody(c)
  <2>1. UNCHANGED <<registry, now, alive, call, owner>>
    BY <1>3, BodyMoves DEF hostVars, frameVars
  <2>2. /\ pc[c] \notin {"idle", "unlock"}
        /\ \/ \E label \in PC \ {"idle"} : Goto(c, label)
           \/ Return(c, "error")
    BY <1>3 DEF EarlyError, CreateFresh, RemoveBody, PC, Working
  <2> QED
    BY <1>0, <2>1, <2>2, QuietShows
<1>4. CASE ResolveBase(c) \/ GitAdd(c) \/ GitRemove(c) \/ GitPrune(c) \/ DeleteBranch(c)
  <2>1. UNCHANGED <<registry, now, alive, call, owner>>
    BY <1>4 DEF ResolveBase, GitAdd, GitRemove, PruneFails, GitPrune, DeleteBranch, hostVars, frameVars
  <2>2. /\ pc[c] \notin {"idle", "unlock"}
        /\ \/ \E label \in PC \ {"idle"} : Goto(c, label)
           \/ Return(c, "error")
    BY <1>4 DEF ResolveBase, GitAdd, GitRemove, PruneFails, GitPrune, DeleteBranch, PC, Working, Saving
  <2> QED
    BY <1>0, <2>1, <2>2, QuietShows
<1>5. CASE CreateExisting(c) \/ ClaimBody(c) \/ ReleaseBody(c) \/ ListBody(c)
  BY <1>0, <1>5, BodyShows
<1>6. CASE Writes(c)
  <2>1. Dropped(c) \in SUBSET {n \in Name : registry[n] # Nil}
    BY <1>6, SaveFinds
  <2>2. out[c] = "none" /\ out'[c] # "none"
    BY <1>0, <1>6
       DEF Writes, SaveNew, SaveClaim, ClaimResult, SaveRelease, SaveRemove, SaveList,
           Return, PlaceFits, TypeOK
  <2>3. CASE SaveRemove(c)
    BY <1>0, <2>2, <2>3, RemoveDrops DEF Ledger!Settle, Shows
  <2>4. CASE ~SaveRemove(c)
    <3>1. \/ Ledger!Register(c, Dropped(c)) \/ Ledger!Take(c, Dropped(c))
          \/ Ledger!Retake(c, Dropped(c)) \/ Ledger!Clear(c, Dropped(c))
          \/ Ledger!ListAll(c, Dropped(c))
      BY <1>0, <1>6, <2>4, NewRegisters, ClaimTakes, ReleaseClears, ListForgets DEF Writes
    <3>2. Ledger!Settle(c)
      BY <2>1, <2>2, <3>1, Settles
    <3> QED
      BY <3>2 DEF Shows
  <2> QED
    BY <2>3, <2>4
<1>7. CASE SaveFails(c)
  <2>1. pc[c] \notin {"idle", "unlock"} /\ UNCHANGED <<registry, now, alive, call, owner>>
    BY <1>7 DEF SaveFails, Saving, hostVars, frameVars
  <2>2. CASE pc[c] = "saveList"
    BY <1>0, <1>7, <2>1, <2>2, UnwrittenList DEF SaveFails, PlaceFits
  <2>3. CASE pc[c] # "saveList"
    BY <1>0, <1>7, <2>1, <2>3, QuietShows DEF SaveFails
  <2> QED
    BY <2>2, <2>3
<1>8. CASE Unlock(c)
  <2>1. Ledger!Return(c)
    BY <1>0, <1>8
       DEF Unlock, PlaceFits, hostVars, TypeOK, Ledger!Return, Ledger!written
  <2> QED
    BY <2>1 DEF Shows
<1> QED
  BY <1>1, <1>2, <1>3, <1>4, <1>5, <1>6, <1>7, <1>8 DEF CallerStep, Work, Writes

\* Every step of the manager and its surroundings is a step of the ledger.
LEMMA StepImplements ==
    ASSUME IInv, LedgerInv, [Next]_vars
    PROVE  [Ledger!Next]_(Ledger!ledger)
<1>1. ASSUME NEW c \in Caller, CallerStep(c) PROVE [Ledger!Next]_(Ledger!ledger)
  BY <1>1, CallerShows DEF Shows, Ledger!Next
<1>2. ASSUME NEW p \in Proc, Crash(p) PROVE [Ledger!Next]_(Ledger!ledger)
  <2>1. Ledger!Die(p)
    BY <1>2, Unwritten DEF Crash, Ledger!Die
  <2> QED
    BY <2>1 DEF Ledger!Next
<1>3. CASE HostStep
  <2>1. CASE Tick
    <3>1. Ledger!Tick
      BY <2>1, Unwritten DEF Tick, frameVars, Ledger!Tick
    <3> QED
      BY <3>1 DEF Ledger!Next
  <2>2. CASE ~Tick
    <3>1. UNCHANGED <<registry, now, alive, call, owner, out, pc>>
      BY <1>3, <2>2 DEF HostStep, SwitchSession, toolVars, vars, frameVars, hostVars
    <3>2. UNCHANGED Ledger!ledger
      BY <3>1, Unseen
    <3> QED
      BY <3>2
  <2> QED
    BY <2>1, <2>2
<1> QED
  BY <1>1, <1>2, <1>3, StepCases

\* The worktree manager implements the ledger, for every number of callers,
\* processes, sessions and names, every TTL and every set of events.
THEOREM LedgerRefined == Spec => ImplementsLedger
<1>1. Init => Ledger!Init
  BY DEF Init, NoEntries, Ledger!Init
<1>2. IInv /\ LedgerInv /\ [Next]_vars => [Ledger!Next]_(Ledger!ledger)
  BY StepImplements
<1> QED
  BY <1>1, <1>2, Invariance, LedgerInvariance, PTL DEF Spec, ImplementsLedger, Ledger!Spec
============================================================================
