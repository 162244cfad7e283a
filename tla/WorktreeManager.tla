-------------------------- MODULE WorktreeManager --------------------------
(***************************************************************************)
(* The worktree manager: the tool operations of                            *)
(* src/internal/worktree/worktree.go on the per-repository registry, run   *)
(* by several extension processes at once, each with several handlers.     *)
(*                                                                         *)
(* Every operation takes the process's Manager.mu, then the repository's   *)
(* flock, loads registry.json, lists git's worktrees, does its work in git *)
(* and saves the registry.  The model has one step for each point where    *)
(* another process, the user, the clock or a crash can get in between.     *)
(***************************************************************************)
EXTENDS GitRepo, FiniteSets

CONSTANTS
    Session,         \* session ids of the host
    NoSession,       \* the empty id a sessionless caller has
    Proc,            \* extension processes: a pid each, never reused
    Caller,          \* handler calls in flight: a goroutine each
    ProcOf,          \* the process a caller runs in
    TTL,             \* age a claim is live up to, in ticks
    TicksPerSecond,  \* claimed_at is cut to a whole second of so many ticks
    MaxTime,         \* bound: ticks of the clock
    DataLinked,      \* whether a symbolic link leads to the data directory
    Calls            \* the calls a configuration makes

Op == {"create", "claim", "release", "list", "collect", "remove"}

\* reuse, based: Create's reuse_if_available and an explicit base;
\* force, del: Remove's force and delete_branch.
Call == [op : Op, name : Name, reuse : BOOLEAN, based : BOOLEAN,
         force : BOOLEAN, del : BOOLEAN]

ASSUME ManagerAssumption ==
    /\ NoSession \notin Session
    /\ Nil \notin Caller
    /\ ProcOf \in [Caller -> Proc]
    /\ TTL \in Nat
    /\ TicksPerSecond \in Nat \ {0}
    /\ MaxTime \in Nat
    /\ DataLinked \in BOOLEAN
    /\ Calls \subseteq Call

VARIABLES
    registry,   \* registry.json: name -> entry, Nil when it has none
    now,        \* the clock, in ticks
    alive,      \* the processes that run
    session,    \* app.sessionID of each process
    mu,         \* Manager.mu of each process: its holder, or Nil
    flock,      \* registry.lock: its holder, or Nil
    pc,         \* where each caller is
    call,       \* its arguments,
    owner,      \* env.SessionID, read when the call began,
    reg,        \* the registry as it loaded it,
    seen,       \* the names whose paths it found in git's list,
    plan,       \* Create's baseCommit and resume,
    out         \* what it is about to return

hostVars  == <<now, alive, session>>
lockVars  == <<mu, flock>>
frameVars == <<call, owner, reg, seen, plan>>
toolVars  == <<registry, hostVars, lockVars, pc, frameVars, out>>
vars      == <<gitVars, toolVars>>

Owner == Session \cup {NoSession}
Claim == [sess : Owner, pid : Proc, at : Int]

\* base: base_commit; resumed: base_ref is the branch itself.
Entry == [base : Nat, resumed : BOOLEAN, claim : Claim \cup {Nil}]
Registry == [Name -> Entry \cup {Nil}]

\* A missing entry, claim, branch, worktree or request is no record.
ASSUME NilAssumption ==
    /\ Nil \notin Entry /\ Nil \notin Claim
    /\ Nil \notin Branch /\ Nil \notin Checkout
    /\ Nil \notin [op : Op, name : Name, who : Owner]

Saving  == {"saveNew", "saveClaim", "saveRelease", "saveRemove", "saveList"}
Working == {"body", "resolve", "add", "gitrm", "prune", "branch"} \cup Saving
PC      == {"idle", "mutex", "flock", "load", "unlock"} \cup Working
Result  == {"none", "error", "created", "reused", "claimed", "reclaimed",
            "released", "removed", "listed"}

NoCall == [op |-> "none", name |-> Nil, reuse |-> FALSE, based |-> FALSE,
           force |-> FALSE, del |-> FALSE]
NoEntries == [n \in Name |-> Nil]
NoPlan == [base |-> 0, resumed |-> FALSE]

----------------------------------------------------------------------------
(* Claims.                                                                 *)

\* Mutant: a claim of exactly the TTL's age is expired already.
ExpiredTooSoon(cl) == now - cl.at >= TTL

Expired(cl) == now - cl.at > TTL

Stale(cl) == cl.pid \notin alive \/ Expired(cl)

\* The status of a claim as a caller of session s sees it: "stale" is
\* available with a stale reason, "held" is claimed by another owner.
DeriveStatus(cl, s) ==
    IF cl = Nil THEN "available"
    ELSE IF s # NoSession /\ cl.sess = s THEN "self"
    ELSE IF Stale(cl) THEN "stale"
    ELSE "held"

\* claimed_at has RFC3339's resolution.
Stamp == now - (now % TicksPerSecond)

\* Mutant: the claim is written without the process it belongs to.
ClaimWithoutPid(c) == [sess |-> owner[c], pid |-> Nil, at |-> Stamp]

NewClaim(c) == [sess |-> owner[c], pid |-> ProcOf[c], at |-> Stamp]

\* canonPath resolves a worktree's path only while its directory is there, and
\* git lists resolved paths: behind a link, a deleted directory's is not found.
Hidden(n) == DataLinked /\ checkout[n] # Nil /\ ~checkout[n].dir

\* Mutant: paths compared without canonPath, which behind a link never match.
FoundRaw == IF DataLinked THEN {} ELSE Listed

Found == {n \in Listed : ~Hidden(n)}

\* Mutant: the entries whose worktrees are gone are kept.
ReconciledRaw(c) == reg[c]

\* The loaded registry without the entries whose paths git did not list.
Reconciled(c) == [n \in Name |-> IF n \in seen[c] THEN reg[c][n] ELSE Nil]

\* Mutant: the claim is set on a copy of the entry.
WithClaimOnCopy(c, cl) == Reconciled(c)

\* The registry a caller writes to give its worktree the claim cl.
WithClaim(c, cl) == [Reconciled(c) EXCEPT ![call[c].name].claim = cl]

----------------------------------------------------------------------------
(* A call's way in and out.                                                *)

Init ==
    /\ GitInit
    /\ registry = NoEntries
    /\ now = 0
    /\ alive = Proc
    /\ session \in [Proc -> Owner]
    /\ mu = [p \in Proc |-> Nil]
    /\ flock = Nil
    /\ pc = [c \in Caller |-> "idle"]
    /\ call = [c \in Caller |-> NoCall]
    /\ owner = [c \in Caller |-> NoSession]
    /\ reg = [c \in Caller |-> NoEntries]
    /\ seen = [c \in Caller |-> {}]
    /\ plan = [c \in Caller |-> NoPlan]
    /\ out = [c \in Caller |-> "none"]

Goto(c, label) ==
    /\ pc' = [pc EXCEPT ![c] = label]
    /\ UNCHANGED out

Return(c, result) ==
    /\ pc' = [pc EXCEPT ![c] = "unlock"]
    /\ out' = [out EXCEPT ![c] = result]

Invoke(c, k) ==
    /\ pc[c] = "idle" /\ ProcOf[c] \in alive
    /\ call' = [call EXCEPT ![c] = k]
    /\ owner' = [owner EXCEPT ![c] = session[ProcOf[c]]]
    /\ Goto(c, "mutex")
    /\ UNCHANGED <<gitVars, registry, hostVars, lockVars, reg, seen, plan>>

TakeMutex(c) ==
    /\ pc[c] = "mutex" /\ mu[ProcOf[c]] = Nil
    /\ mu' = [mu EXCEPT ![ProcOf[c]] = c]
    /\ Goto(c, "flock")
    /\ UNCHANGED <<gitVars, registry, hostVars, flock, frameVars>>

\* Mutant: flock taken in shared mode.
FlockShared == TRUE

FlockFree == flock = Nil

TakeFlock(c) ==
    /\ pc[c] = "flock" /\ FlockFree
    /\ flock' = c
    /\ Goto(c, "load")
    /\ UNCHANGED <<gitVars, registry, hostVars, mu, frameVars>>

\* loadRegistry, listWorktrees and the look-ups of paths in its answer.
Load(c) ==
    /\ pc[c] = "load"
    /\ reg' = [reg EXCEPT ![c] = registry]
    /\ seen' = [seen EXCEPT ![c] = Found]
    /\ Goto(c, "body")
    /\ UNCHANGED <<gitVars, registry, hostVars, lockVars, call, owner, plan>>

\* A call that fails before it has changed anything: a blank name, no
\* repository, no lock, an unreadable registry, a git command that fails.
EarlyError(c) ==
    /\ "giterr" \in Events
    /\ \/ pc[c] \in {"flock", "load", "resolve"}
       \/ pc[c] = "body" /\ call[c].op = "remove"
    /\ Return(c, "error")
    /\ UNCHANGED <<gitVars, registry, hostVars, lockVars, frameVars>>

\* Mutant: a path that forgets to release the file lock.
FlockKept(c) == flock

FlockReleased(c) == IF flock = c THEN Nil ELSE flock

\* The deferred release and unlock, and the result to the caller.
Unlock(c) ==
    /\ pc[c] = "unlock"
    /\ mu' = [mu EXCEPT ![ProcOf[c]] = Nil]
    /\ flock' = FlockReleased(c)
    /\ pc' = [pc EXCEPT ![c] = "idle"]
    /\ call' = [call EXCEPT ![c] = NoCall]
    /\ owner' = [owner EXCEPT ![c] = NoSession]
    /\ reg' = [reg EXCEPT ![c] = NoEntries]
    /\ seen' = [seen EXCEPT ![c] = {}]
    /\ plan' = [plan EXCEPT ![c] = NoPlan]
    /\ out' = [out EXCEPT ![c] = "none"]
    /\ UNCHANGED <<gitVars, registry, hostVars>>

----------------------------------------------------------------------------
(* The bodies: what each operation decides from what it loaded.            *)

CreateExisting(c) ==
    LET k  == call[c]
        e  == Reconciled(c)[k.name]
        st == DeriveStatus(e.claim, owner[c])
    IN
    /\ pc[c] = "body" /\ k.op = "create" /\ e # Nil
    /\ \/ st = "self" /\ Return(c, "reused")
       \/ st \in {"available", "stale"} /\ k.reuse /\ Goto(c, "saveClaim")
       \/ st \in {"available", "stale"} /\ ~k.reuse /\ Return(c, "error")
       \/ st = "held" /\ Return(c, "error")
    /\ UNCHANGED <<gitVars, registry, hostVars, lockVars, frameVars>>

CreateFresh(c) ==
    LET n == call[c].name IN
    /\ pc[c] = "body" /\ call[c].op = "create" /\ Reconciled(c)[n] = Nil
    /\ IF n \in seen[c] THEN Return(c, "error") ELSE Goto(c, "resolve")
    /\ UNCHANGED <<gitVars, registry, hostVars, lockVars, frameVars>>

\* A leftover branch is resumed on its tip and refuses an explicit base;
\* otherwise the base is HEAD, or any commit that the caller named.
ResolveBase(c) ==
    LET b == branch[call[c].name] IN
    /\ pc[c] = "resolve"
    /\ \/ /\ b # Nil /\ call[c].based
          /\ Return(c, "error")
          /\ UNCHANGED plan
       \/ /\ b # Nil /\ ~call[c].based
          /\ plan' = [plan EXCEPT ![c] = [base |-> b.tip, resumed |-> TRUE]]
          /\ Goto(c, "add")
       \/ /\ b = Nil
          /\ \E at \in (IF call[c].based THEN Commits ELSE {head}) :
                plan' = [plan EXCEPT ![c] = [base |-> at, resumed |-> FALSE]]
          /\ Goto(c, "add")
    /\ UNCHANGED <<gitVars, registry, hostVars, lockVars, call, owner, reg, seen>>

\* git is given HEAD, or the ref the caller named, and reads it again itself.
AddPoints(c) ==
    IF ~call[c].based THEN {head}
    ELSE IF "head" \in Events THEN Commits
    ELSE {plan[c].base}

GitAdd(c) ==
    LET n == call[c].name
        resume == plan[c].resumed
    IN
    /\ pc[c] = "add"
    /\ \/ /\ \E at \in AddPoints(c) : WorktreeAdd(n, resume, at, FALSE)
          /\ Goto(c, "saveNew")
       \/ /\ ~CanAdd(n, resume) \/ "giterr" \in Events
          /\ UNCHANGED <<branch, checkout>>
          /\ Return(c, "error")
       \/ /\ "giterr" \in Events  \* -b made the branch, the checkout failed
          /\ CanAdd(n, resume) /\ ~resume
          /\ \E at \in AddPoints(c) : branch' = [branch EXCEPT ![n] = NewBranch(at)]
          /\ UNCHANGED checkout
          /\ Return(c, "error")
    /\ UNCHANGED <<head, orphan, registry, hostVars, lockVars, frameVars>>

ClaimBody(c) ==
    LET e == Reconciled(c)[call[c].name]
        st == DeriveStatus(e.claim, owner[c])
    IN
    /\ pc[c] = "body" /\ call[c].op = "claim"
    /\ \/ e = Nil /\ Return(c, "error")
       \/ e # Nil /\ st = "self" /\ Return(c, "claimed")
       \/ e # Nil /\ st \in {"available", "stale"} /\ Goto(c, "saveClaim")
       \/ e # Nil /\ st = "held" /\ Return(c, "error")
    /\ UNCHANGED <<gitVars, registry, hostVars, lockVars, frameVars>>

ReleaseBody(c) ==
    LET e == Reconciled(c)[call[c].name]
        st == DeriveStatus(e.claim, owner[c])
    IN
    /\ pc[c] = "body" /\ call[c].op = "release"
    /\ \/ e = Nil /\ Return(c, "error")
       \/ e # Nil /\ st = "held" /\ Return(c, "error")
       \/ e # Nil /\ st = "available" /\ Return(c, "released")
       \/ e # Nil /\ st \in {"self", "stale"} /\ Goto(c, "saveRelease")
    /\ UNCHANGED <<gitVars, registry, hostVars, lockVars, frameVars>>

\* List and Collect write only what reconcile dropped.
ListBody(c) ==
    /\ pc[c] = "body" /\ call[c].op \in {"list", "collect"}
    /\ IF Reconciled(c) # reg[c] THEN Goto(c, "saveList") ELSE Return(c, "listed")
    /\ UNCHANGED <<gitVars, registry, hostVars, lockVars, frameVars>>

----------------------------------------------------------------------------
(* Remove, which works on the registry as loaded, not reconciled.          *)

\* Mutant: a branch that has an upstream is taken to be pushed.
PushedOnce(c) ==
    LET n == call[c].name
        e == reg[c][n]
    IN
    IF branch[n] # Nil /\ branch[n].up # NoUpstream THEN {FALSE}
    ELSE AheadOfBase(n, e.base, e.resumed)

\* Whether hasUnmergedWork reports work.  A probe for the upstream that fails
\* leads to the base, and a count that fails is taken for none.
UnmergedReports(c) ==
    LET n == call[c].name
        e == reg[c][n]
        tracks == branch[n] # Nil /\ branch[n].up # NoUpstream
        probefails == "probeerr" \in Events
    IN
    (IF tracks THEN AheadOfUpstream(n) ELSE {})
        \cup (IF ~tracks \/ probefails THEN AheadOfBase(n, e.base, e.resumed) ELSE {})
        \cup (IF probefails THEN {FALSE} ELSE {})

RemoveBody(c) ==
    LET k == call[c]
        n == k.name
        known == n \in seen[c]
    IN
    /\ pc[c] = "body" /\ k.op = "remove"
    /\ \/ reg[c][n] = Nil /\ Return(c, "error")
       \/ /\ reg[c][n] # Nil /\ known /\ ~k.force /\ HasDir(n)
          /\ \/ checkout[n].dirty /\ Return(c, "error")
             \/ /\ ~checkout[n].dirty
                /\ \E unmerged \in UnmergedReports(c) :
                      IF unmerged THEN Return(c, "error") ELSE Goto(c, "gitrm")
       \/ /\ reg[c][n] # Nil /\ known /\ (k.force \/ ~HasDir(n))
          /\ Goto(c, "gitrm")
       \/ reg[c][n] # Nil /\ ~known /\ Goto(c, "prune")
    /\ UNCHANGED <<gitVars, registry, hostVars, lockVars, frameVars>>

\* Mutant: --force is always passed, the checks before being thought enough.
AlwaysForced(c) == TRUE

Forced(c) == call[c].force

\* Mutant: the prune's error is not looked at.
PruneErrorUnseen(c) == UNCHANGED <<branch, checkout>> /\ Goto(c, "prune")

PruneFails(c) == UNCHANGED <<branch, checkout>> /\ Return(c, "error")

\* A `worktree remove` that fails is followed by a prune, and counts as done
\* when the prune exits with 0.
GitRemove(c) ==
    LET n == call[c].name IN
    /\ pc[c] = "gitrm"
    /\ \/ WorktreeRemove(n, Forced(c)) /\ Goto(c, "prune")
       \/ /\ ~CanRemove(n, Forced(c)) \/ "giterr" \in Events
          /\ checkout' = KeptIn(Pruned, n)
          /\ UNCHANGED branch
          /\ Goto(c, "prune")
       \/ "giterr" \in Events /\ PruneFails(c)
    /\ UNCHANGED <<head, orphan, registry, hostVars, lockVars, frameVars>>

GitPrune(c) ==
    /\ pc[c] = "prune"
    /\ \/ WorktreePrune
       \/ "giterr" \in Events /\ UNCHANGED <<branch, checkout>>
    /\ Goto(c, "branch")
    /\ UNCHANGED <<head, orphan, registry, hostVars, lockVars, frameVars>>

\* Mutant: the branch goes with its worktree.
BranchGoesToo(c) == TRUE

WantsBranchDeleted(c) == call[c].del

DeleteBranch(c) ==
    LET n == call[c].name IN
    /\ pc[c] = "branch"
    /\ \/ WantsBranchDeleted(c) /\ BranchDelete(n)
       \/ /\ ~WantsBranchDeleted(c) \/ ~CanDeleteBranch(n) \/ "giterr" \in Events
          /\ UNCHANGED <<branch, checkout>>
    /\ Goto(c, "saveRemove")
    /\ UNCHANGED <<head, orphan, registry, hostVars, lockVars, frameVars>>

----------------------------------------------------------------------------
(* The saves.                                                              *)

SaveNew(c) ==
    /\ pc[c] = "saveNew"
    /\ registry' = [Reconciled(c) EXCEPT ![call[c].name] =
           [base |-> plan[c].base, resumed |-> plan[c].resumed,
            claim |-> NewClaim(c)]]
    /\ Return(c, "created")
    /\ UNCHANGED <<gitVars, hostVars, lockVars, frameVars>>

\* Mutant: claim does not say that it has replaced a stale claim.
ReclaimUnsaid(c) == IF call[c].op = "create" THEN "reused" ELSE "claimed"

ClaimResult(c) ==
    IF call[c].op = "create" THEN "reused"
    ELSE IF reg[c][call[c].name].claim = Nil THEN "claimed"
    ELSE "reclaimed"

SaveClaim(c) ==
    /\ pc[c] = "saveClaim"
    /\ registry' = WithClaim(c, NewClaim(c))
    /\ Return(c, ClaimResult(c))
    /\ UNCHANGED <<gitVars, hostVars, lockVars, frameVars>>

SaveRelease(c) ==
    /\ pc[c] = "saveRelease"
    /\ registry' = WithClaim(c, Nil)
    /\ Return(c, "released")
    /\ UNCHANGED <<gitVars, hostVars, lockVars, frameVars>>

SaveRemove(c) ==
    /\ pc[c] = "saveRemove"
    /\ registry' = [reg[c] EXCEPT ![call[c].name] = Nil]
    /\ Return(c, "removed")
    /\ UNCHANGED <<gitVars, hostVars, lockVars, frameVars>>

SaveList(c) ==
    /\ pc[c] = "saveList"
    /\ registry' = Reconciled(c)
    /\ Return(c, "listed")
    /\ UNCHANGED <<gitVars, hostVars, lockVars, frameVars>>

\* Mutant: Create returns the error without taking the worktree back.
NotTakenBack(c) == UNCHANGED checkout

\* The forced remove of the worktree that Create could not record.
TakenBack(c) ==
    LET n == call[c].name IN
    \/ CanRemove(n, TRUE) /\ checkout' = [checkout EXCEPT ![n] = Nil]
    \/ /\ ~CanRemove(n, TRUE) \/ "giterr" \in Events
       /\ checkout' = KeptIn(checkout, n)

\* saveRegistry fails: Create takes its new worktree back, List and Collect
\* go on without the write.
SaveFails(c) ==
    /\ "saveerr" \in Events
    /\ pc[c] \in Saving
    /\ IF pc[c] = "saveNew" THEN TakenBack(c) ELSE UNCHANGED checkout
    /\ Return(c, IF pc[c] = "saveList" THEN "listed" ELSE "error")
    /\ UNCHANGED <<head, branch, orphan, registry, hostVars, lockVars, frameVars>>

----------------------------------------------------------------------------
(* The host, the clock and the whole.                                      *)

\* A command as runGit starts it for c.
Child(c, cmd, flag) == [cmd |-> cmd, name |-> call[c].name, flag |-> flag]

\* The git command a caller waits for, which outlives the caller's process:
\* nothing ties the child to it, and the child does not inherit the flock.
\* The remove of a Create that could not save is among them.
GitRunning(c) ==
    IF pc[c] = "add" THEN {Child(c, "add", plan[c].resumed)}
    ELSE IF pc[c] = "gitrm" THEN {Child(c, "remove", Forced(c))}
    ELSE IF pc[c] = "saveNew" /\ "saveerr" \in Events THEN {Child(c, "remove", TRUE)}
    ELSE IF pc[c] = "prune" THEN {Child(c, "prune", FALSE)}
    ELSE IF pc[c] = "branch" /\ WantsBranchDeleted(c) THEN {Child(c, "branch", call[c].del)}
    ELSE {}

LeftRunning(p) ==
    IF "orphan" \in Events
    THEN UNION {GitRunning(c) : c \in {d \in Caller : ProcOf[d] = p}} ELSE {}

\* A process dies between two steps: its callers' frames, its mutex and its
\* flock go with it.  Some process is left, so that the system goes on.
Crash(p) ==
    LET clear(f, v) == [c \in Caller |-> IF ProcOf[c] = p THEN v ELSE f[c]] IN
    /\ "crash" \in Events
    /\ p \in alive /\ alive # {p}
    /\ alive' = alive \ {p}
    /\ mu' = [mu EXCEPT ![p] = Nil]
    /\ flock' = IF flock \in Caller /\ ProcOf[flock] = p THEN Nil ELSE flock
    /\ pc' = clear(pc, "idle")
    /\ call' = clear(call, NoCall)
    /\ owner' = clear(owner, NoSession)
    /\ reg' = clear(reg, NoEntries)
    /\ seen' = clear(seen, {})
    /\ plan' = clear(plan, NoPlan)
    /\ out' = clear(out, "none")
    /\ orphan' = orphan \cup LeftRunning(p)
    /\ UNCHANGED <<head, branch, checkout, registry, now, session>>

\* The host tells a process of another session, or of none.
SwitchSession(p) ==
    /\ "switch" \in Events
    /\ p \in alive
    /\ \E s \in Owner : session' = [session EXCEPT ![p] = s]
    /\ UNCHANGED <<gitVars, registry, now, alive, lockVars, pc, frameVars, out>>

Tick ==
    /\ now < MaxTime
    /\ now' = now + 1
    /\ UNCHANGED <<gitVars, registry, alive, session, lockVars, pc, frameVars, out>>

\* What a caller does by itself once it holds what it waited for.
Work(c) ==
    \/ Load(c) \/ EarlyError(c)
    \/ CreateExisting(c) \/ CreateFresh(c) \/ ResolveBase(c) \/ GitAdd(c)
    \/ ClaimBody(c) \/ ReleaseBody(c) \/ ListBody(c)
    \/ RemoveBody(c) \/ GitRemove(c) \/ GitPrune(c) \/ DeleteBranch(c)
    \/ SaveNew(c) \/ SaveClaim(c) \/ SaveRelease(c) \/ SaveRemove(c) \/ SaveList(c)
    \/ SaveFails(c)
    \/ Unlock(c)

Next ==
    \/ \E c \in Caller :
        \/ \E k \in Calls : Invoke(c, k)
        \/ TakeMutex(c) \/ TakeFlock(c) \/ Work(c)
    \/ \E p \in Proc : Crash(p) \/ SwitchSession(p)
    \/ Tick
    \/ (User \/ OrphanEnds) /\ UNCHANGED toolVars

Spec == Init /\ [][Next]_vars

\* A handler that can go on does; sync.Mutex and flock serve every waiter in
\* the end.  Nothing makes a call arrive, the clock move or the user act, nor a
\* wait for the file lock end in an error.
Fairness ==
    \A c \in Caller :
        /\ WF_vars(pc[c] # "flock" /\ Work(c))
        /\ SF_vars(TakeMutex(c))
        /\ SF_vars(TakeFlock(c))

FairSpec == Spec /\ Fairness
----------------------------------------------------------------------------
(* Properties.                                                             *)

\* Every variable has its type, and a call under way has its arguments.
TypeOK ==
    /\ GitTypeOK
    /\ registry \in Registry
    /\ now \in Nat
    /\ alive \subseteq Proc
    /\ session \in [Proc -> Owner]
    /\ mu \in [Proc -> Caller \cup {Nil}]
    /\ flock \in Caller \cup {Nil}
    /\ pc \in [Caller -> PC]
    /\ call \in [Caller -> Call \cup {NoCall}]
    /\ \A c \in Caller : pc[c] # "idle" => call[c] \in Call
    /\ owner \in [Caller -> Owner]
    /\ reg \in [Caller -> Registry]
    /\ seen \in [Caller -> SUBSET Name]
    /\ plan \in [Caller -> [base : Nat, resumed : BOOLEAN]]
    /\ out \in [Caller -> Result]

\* A caller that works on a loaded registry works on what the file holds:
\* no process writes between another one's load and its save, so no save
\* undoes a claim or an entry of somebody else.
SnapshotIsCurrent ==
    \A c \in Caller : pc[c] \in Working => reg[c] = registry

\* Whoever has loaded the registry, or is about to, holds its file lock.
WorkersHoldFlock ==
    \A c \in Caller : pc[c] \in {"load"} \cup Working => flock = c

\* What a body decided still stands when its caller gets to the save, though
\* the clock has moved and processes have died in between: the worktree to
\* claim is free or its claim stale, the claim to clear is the caller's own
\* or stale, the entry to add is not there, and only Remove drops one.
DecisionOf(c) ==
    LET e == Reconciled(c)[call[c].name] IN
    /\ pc[c] = "saveClaim" => e # Nil /\ (e.claim = Nil \/ Stale(e.claim))
    /\ pc[c] = "saveRelease" =>
          /\ e # Nil /\ e.claim # Nil
          /\ (owner[c] # NoSession /\ e.claim.sess = owner[c]) \/ Stale(e.claim)
    /\ pc[c] \in {"resolve", "add", "saveNew"} => e = Nil
    /\ pc[c] \in {"gitrm", "prune", "branch", "saveRemove"} => call[c].op = "remove"

DecisionStands == \A c \in Caller : DecisionOf(c)

\* The inductive invariant: SnapshotIsCurrent alone is not inductive, since
\* only the file lock keeps two workers apart.
IInv == TypeOK /\ WorkersHoldFlock /\ SnapshotIsCurrent /\ DecisionStands

\* A live claim by the code's own terms, stated apart from Stale: made by a
\* process that runs, and no older than the TTL.
Live(cl) == cl # Nil /\ cl.pid \in alive /\ now <= cl.at + TTL

HeldLive(n) == registry[n] # Nil /\ Live(registry[n].claim)

\* Who may change the claim of a name: the claim's own session, a remove of
\* that name, or whoever did not find the worktree's path in git's list.
MayTouch(c, n) ==
    \/ owner[c] # NoSession /\ registry[n].claim.sess = owner[c]
    \/ call[c].op = "remove" /\ call[c].name = n
    \/ n \notin seen[c]

\* "Refused if held by another live session": from the moment the status is
\* derived to the moment the registry is saved, no step takes or clears the
\* live claim of another session, whatever the clock, crashes and other
\* processes do in between.
LiveClaimRespected ==
    [][\A n \in Name :
          HeldLive(n) /\ (registry'[n] = Nil \/ registry'[n].claim # registry[n].claim)
          => \E c \in Caller : pc[c] \in Saving /\ MayTouch(c, n)]_vars

\* A caller that is told it has the worktree has it: the file on disk names
\* its session before the lock is given up.
ToldIsHeld ==
    \A c \in Caller :
        pc[c] = "unlock" /\ out[c] \in {"created", "reused", "claimed", "reclaimed"}
        => LET e == registry[call[c].name] IN
           e # Nil /\ e.claim # Nil /\ e.claim.sess = owner[c]

\* An entry that outlived its worktree, be it removed out of band or by a
\* Remove whose process died before its save, is never acted on: a worktree
\* that is handed out or given back is one whose path git listed in that call.
HandedOutIsListed ==
    \A c \in Caller :
        pc[c] = "unlock" /\ out[c] \in {"reused", "claimed", "reclaimed", "released"}
        => call[c].name \in seen[c]

\* The worktree git lists at n's path is one the registry has to know: the
\* extension made it, has passed over no failed removal of it, and its directory
\* is not one that a link hides.
Managed(n) ==
    checkout[n] # Nil /\ checkout[n].own /\ ~checkout[n].kept /\ ~Hidden(n)

\* Those of them that the registry does not know.
Stranded == {n \in Name : Managed(n) /\ registry[n] = Nil}

\* "Don't strand a worktree git knows about but our registry doesn't": when
\* nobody is at work on the registry, each process that died has left at most
\* one such worktree, and nothing else has left any: no failed save, no stale
\* listing, no git error but a failed remove, and nothing the user did.
NoStrandedWorktree ==
    flock = Nil => Cardinality(Stranded) <= Cardinality(Proc \ alive)

\* The registry forgets a worktree only once git has, whatever happens between
\* the listing and the save: neither reconcile nor Remove drops the entry of a
\* worktree of the extension's that git still lists, but for one that git
\* failed to remove, one whose deleted directory was behind a link, and one
\* that a dead process's command added after the listing.
ForgottenOnlyWhenGone ==
    [][\A n \in Name :
          registry[n] # Nil /\ registry'[n] = Nil
          => ~Managed(n) \/ checkout[n].late]_vars

\* A step of the manager's own, or of a command it has started, as against one
\* of the user's.
ManagerStep == pc' # pc \/ orphan' # orphan

\* The orphaned commands that end in a step.
Ended == orphan \ orphan'

\* The manager loses uncommitted changes only in a forced Remove, or when a
\* Create that could not save takes its new worktree back, though either may
\* come to its end after its process's death; an edit made after Remove's
\* check is caught by git itself.
UncommittedKept ==
    [][\A n \in Name :
          /\ ManagerStep /\ checkout[n] # Nil /\ checkout[n].dirty
          /\ checkout'[n] = Nil \/ ~checkout'[n].dirty
          => \/ \E c \in Caller :
                   /\ call[c].name = n
                   /\ \/ pc[c] = "gitrm" /\ call[c].force
                      \/ pc[c] = "saveNew"
             \/ \E k \in Ended : k.cmd = "remove" /\ k.name = n /\ k.flag]_vars

\* The manager never moves a branch that exists, and deletes one only in a
\* Remove that asks for it, once its worktree is gone, though the command may
\* come to its end after the process's death: a Create on a leftover branch
\* resumes it with its commits.
CommitsKept ==
    [][\A n \in Name :
          ManagerStep /\ branch[n] # Nil /\ branch'[n] # branch[n]
          => /\ branch'[n] = Nil
             /\ checkout[n] = Nil \/ ~checkout[n].own
             /\ \/ \E c \in Caller :
                      /\ pc[c] = "branch" /\ call[c].op = "remove"
                      /\ call[c].name = n /\ call[c].del
                \/ \E k \in Ended : k.cmd = "branch" /\ k.name = n /\ k.flag]_vars

\* An unforced Remove's step past its safety checks, for name n.
PassesChecks(c, n) ==
    /\ pc[c] = "body" /\ pc'[c] = "gitrm"
    /\ call[c].op = "remove" /\ call[c].name = n /\ ~call[c].force

\* Commits of wt/n that are on no other branch and on no upstream.
Unmerged(n) ==
    branch[n] # Nil /\ branch[n].tip > branch[n].from /\ branch[n].tip > branch[n].up

\* An unforced Remove of a worktree on a branch that was new when it was
\* created never passes its checks while that branch has commits of its own
\* that are not pushed, wherever HEAD or the base has moved since, and though
\* the recorded base need not be the commit the branch was made from.
FreshWorkRefused ==
    [][\A c \in Caller, n \in Name :
          PassesChecks(c, n) /\ HasDir(n) /\ checkout[n].own /\ ~registry[n].resumed
          => ~Unmerged(n)]_vars

\* Every call returns, or its process dies: no order of mu and flock, no
\* early return and no crash leaves a caller waiting for ever.
CallReturns == \A c \in Caller : (pc[c] # "idle") ~> (pc[c] = "idle")

----------------------------------------------------------------------------
(* What the manager promises about claims, as one atomic ledger.           *)

Ledger == INSTANCE ClaimLedger WITH
    managed <- {n \in Name : registry[n] # Nil},
    holder  <- [n \in Name |-> IF registry[n] = Nil THEN Nil ELSE registry[n].claim],
    request <- [c \in Caller |->
                   IF pc[c] = "idle" THEN Nil
                   ELSE [op |-> call[c].op, name |-> call[c].name, who |-> owner[c]]],
    reply   <- out

\* However the steps of several calls interleave, whoever dies between two of
\* them and whatever git has lost, each call acts on the claims in one step,
\* and its answer is about that step: a claim is new, replaces none or a
\* lapsed one, or is confirmed; an error has changed nothing.
ImplementsLedger == Ledger!Spec

----------------------------------------------------------------------------
(* What the documents and comments of the code say, and the code does not. *)

\* Remove's comment: a failed `worktree remove` counts as done only "if
\* prune clears it".
RemovedIsGone ==
    \A c \in Caller :
        pc[c] = "unlock" /\ out[c] = "removed" => call[c].name \notin Listed

\* reconcile's comment: it "drops registry entries git no longer knows about".
UnknownDropped ==
    [][\A n \in Name :
          registry[n] # Nil /\ registry'[n] = Nil
          => n \notin Listed \/ \E c \in Caller : pc[c] = "saveRemove"]_vars

\* README: Remove "refuses on ... unmerged/unpushed work unless force: true",
\* said here of a worktree whose directory exists.
UnmergedRefused ==
    [][\A c \in Caller, n \in Name :
          PassesChecks(c, n) /\ HasDir(n) /\ checkout[n].own => ~Unmerged(n)]_vars

\* Remove's comment: "If the dir was deleted out from under git, there's
\* nothing to protect", said here of a Remove that deletes the branch as well.
NothingToProtect ==
    [][\A c \in Caller, n \in Name :
          PassesChecks(c, n) /\ ~HasDir(n) /\ call[c].del => ~Unmerged(n)]_vars
=============================================================================
