---------------------------- MODULE ClaimLedger ----------------------------
(***************************************************************************)
(* What the worktree manager promises about claims, without its locks, its *)
(* file, its processes' steps or git: a ledger of the managed names and of *)
(* who holds each.  A call is asked, takes effect in a single step that    *)
(* also settles its answer, and returns.  WorktreeManager implements it.   *)
(*                                                                         *)
(* A step that writes the ledger may forget other names with it: those of  *)
(* worktrees that are gone from the repository, which the ledger does not  *)
(* know about.                                                             *)
(***************************************************************************)
EXTENDS Integers

CONSTANTS
    Name, Nil, Session, NoSession, Proc, Caller,
    ProcOf,          \* the process a caller runs in
    TTL,             \* age a claim holds up to
    TicksPerSecond   \* a claim's time is exact to a second of so many ticks

VARIABLES
    managed,   \* the names in the ledger
    holder,    \* holder[n]: the claim on n, or Nil
    request,   \* request[c]: what a caller asked for, Nil when nothing
    reply,     \* reply[c]: the answer that is settled, or "none"
    now,       \* the clock
    alive      \* the processes that run

written == <<managed, holder>>
ledger  == <<written, request, reply, now, alive>>

Operation == {"create", "claim", "release", "list", "collect", "remove"}

Init ==
    /\ managed = {}
    /\ holder = [n \in Name |-> Nil]
    /\ request = [c \in Caller |-> Nil]
    /\ reply = [c \in Caller |-> "none"]
    /\ now = 0
    /\ alive = Proc

Request == [op : Operation, name : Name, who : Session \cup {NoSession}]

\* A claim whose process is gone, or that is older than the TTL.
Lapsed(cl) == cl.pid \notin alive \/ now > cl.at + TTL

\* A claim made by the session that asks now.
Owns(c, cl) == request[c].who # NoSession /\ cl.sess = request[c].who

\* The claims the asking session may be given: of its own process, not older
\* than a second and not of the future.
FreshClaims(c) ==
    {[sess |-> request[c].who, pid |-> ProcOf[c], at |-> t] :
        t \in (now - TicksPerSecond + 1) .. now}

----------------------------------------------------------------------------
Ask(c) ==
    /\ request[c] = Nil /\ ProcOf[c] \in alive
    /\ \E r \in Request : request' = [request EXCEPT ![c] = r]
    /\ UNCHANGED <<written, reply, now, alive>>

\* c's request, for one of the operations ops, is answered with result.
Answer(c, ops, result) ==
    /\ reply[c] = "none"
    /\ reply' = [reply EXCEPT ![c] = result]
    /\ request[c] # Nil /\ request[c].op \in ops
    /\ UNCHANGED <<request, now, alive>>

\* n gets the claim cl, or none, and the names in gone are forgotten.
Write(n, cl, gone) ==
    /\ managed' = (managed \ gone) \cup {n}
    /\ holder' = [m \in Name |->
           IF m = n THEN cl ELSE IF m \in gone THEN Nil ELSE holder[m]]

\* The names in gone are forgotten.
Forget(gone) ==
    /\ managed' = managed \ gone
    /\ holder' = [m \in Name |-> IF m \in gone THEN Nil ELSE holder[m]]

\* A name that is not in the ledger, or is forgotten now, comes in claimed.
Register(c, gone) ==
    LET n == request[c].name IN
    /\ Answer(c, {"create"}, "created")
    /\ n \notin managed \ gone
    /\ \E cl \in FreshClaims(c) : Write(n, cl, gone)

\* A name nobody holds gets a holder.
Take(c, gone) ==
    LET n == request[c].name IN
    /\ Answer(c, {"create"}, "reused") \/ Answer(c, {"claim"}, "claimed")
    /\ n \in managed \ gone /\ holder[n] = Nil
    /\ \E cl \in FreshClaims(c) : Write(n, cl, gone)

\* A name whose claim has lapsed gets a new holder, and claim says so.
Retake(c, gone) ==
    LET n == request[c].name IN
    /\ Answer(c, {"create"}, "reused") \/ Answer(c, {"claim"}, "reclaimed")
    /\ n \in managed \ gone /\ holder[n] # Nil /\ Lapsed(holder[n])
    /\ \E cl \in FreshClaims(c) : Write(n, cl, gone)

\* Asking for what one holds already changes nothing.
Confirm(c) ==
    LET n == request[c].name IN
    /\ Answer(c, {"create"}, "reused") \/ Answer(c, {"claim"}, "claimed")
    /\ n \in managed /\ holder[n] # Nil /\ Owns(c, holder[n])
    /\ UNCHANGED written

\* Its holder clears a claim, or anybody once it has lapsed.
Clear(c, gone) ==
    LET n == request[c].name IN
    /\ Answer(c, {"release"}, "released")
    /\ n \in managed \ gone /\ holder[n] # Nil
    /\ Owns(c, holder[n]) \/ Lapsed(holder[n])
    /\ Write(n, Nil, gone)

\* There is no claim to clear.
AlreadyFree(c) ==
    /\ Answer(c, {"release"}, "released")
    /\ request[c].name \in managed /\ holder[request[c].name] = Nil
    /\ UNCHANGED written

\* A name goes, whoever holds it.
Drop(c) ==
    /\ Answer(c, {"remove"}, "removed")
    /\ request[c].name \in managed
    /\ Forget({request[c].name})

ListAll(c, gone) ==
    /\ Answer(c, {"list", "collect"}, "listed")
    /\ Forget(gone)

\* An operation that reports an error has changed nothing.
Refuse(c) ==
    /\ Answer(c, Operation, "error")
    /\ UNCHANGED written

\* The one step in which a call takes effect and its answer is settled.
Settle(c) ==
    /\ reply[c] = "none" /\ reply'[c] # "none"
    /\ \/ Confirm(c) \/ AlreadyFree(c) \/ Drop(c) \/ Refuse(c)
       \/ \E gone \in SUBSET managed :
            \/ Register(c, gone) \/ Take(c, gone) \/ Retake(c, gone)
            \/ Clear(c, gone) \/ ListAll(c, gone)

Return(c) ==
    /\ reply[c] # "none"
    /\ request' = [request EXCEPT ![c] = Nil]
    /\ reply' = [reply EXCEPT ![c] = "none"]
    /\ UNCHANGED <<written, now, alive>>

\* A process dies, and its callers' requests with it, answered or not.
Die(p) ==
    LET clear(f, v) == [c \in Caller |-> IF ProcOf[c] = p THEN v ELSE f[c]] IN
    /\ alive' = alive \ {p}
    /\ request' = clear(request, Nil)
    /\ reply' = clear(reply, "none")
    /\ UNCHANGED <<written, now>>

Tick == now' = now + 1 /\ UNCHANGED <<written, request, reply, alive>>

Next ==
    \/ \E c \in Caller : Ask(c) \/ Settle(c) \/ Return(c)
    \/ \E p \in Proc : Die(p)
    \/ Tick

Spec == Init /\ [][Next]_ledger
============================================================================
