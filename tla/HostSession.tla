---------------------------- MODULE HostSession ----------------------------
(***************************************************************************)
(* The extension's side of a host session: which session and directory it  *)
(* has been told of (app.onSession and app.env), what it has pinned for    *)
(* the session (app.pinContext), and what a call from there answers.       *)
(*                                                                         *)
(* The host, which is external, tells of a session's start, of its end (an *)
(* empty id) and of a /cd within it with the same event, and takes changes *)
(* of the standing policy and of the tools only from the handler of its    *)
(* latest event.                                                           *)
(***************************************************************************)
EXTENDS Listing, Slug

CONSTANTS
    Protocols,   \* host protocol versions
    Trees,       \* file systems
    NoCwd,       \* an event or a handshake without a directory
    Cwds,        \* directories the host may be in
    Roots,       \* repo_root arguments of calls
    Filters,     \* filters of list calls
    RawNames,    \* names of calls, as they are typed
    MaxStarts,   \* bound: events of the host
    MaxInbox     \* bound: events told and not handled yet

ASSUME HostAssumption ==
    /\ Protocols \subseteq 2..4
    /\ NoSession \notin Session
    /\ NoCwd \notin Cwds
    /\ \A t \in Trees : IsFileSystem(t)
    /\ Cwds \subseteq Path /\ Roots \subseteq RepoRoot
    /\ Filters \subseteq Filter /\ RawNames \subseteq Seq(Character)
    /\ MaxStarts \in Nat /\ MaxInbox \in Nat /\ MaxNameLen \in Nat
    /\ MaxRepoProbe \in Nat /\ MaxRepoHints \in Nat

VARIABLES
    proto,    \* the host's protocol version
    waits,    \* whether the host awaits a handler before its next event
    host,     \* the host's session, its directory, the directory and the
              \* event it was entered with, and the latest event
    inbox,    \* events on their way to the extension
    policy,   \* whether the model is told the worktree policy
    tools,    \* whether the model is shown the five tools
    told,     \* Host(): the session and the cwd the extension knows
    pinned,   \* ctxDecided and ctxSession
    handler,  \* the session handler at work
    answer    \* what the last call answered

hostVars == <<tree, entries, proto, waits, host>>
shown    == <<policy, tools>>
vars     == <<hostVars, inbox, shown, told, pinned, handler, answer>>

Owner == Session \cup {NoSession}
NoEvent == [id |-> NoSession, cwd |-> NoCwd, nr |-> 0]
Resting == [pc |-> "idle", event |-> NoEvent, git |-> FALSE]
NoAnswer == [kind |-> "none"]

Init ==
    /\ tree \in Trees /\ entries = tree.entries
    /\ proto \in Protocols
    /\ waits \in BOOLEAN
    /\ \E cwd \in Cwds \cup {NoCwd} :
          /\ host = [session |-> NoSession, cwd |-> cwd, home |-> cwd, entered |-> 0, nr |-> 0]
          /\ told = [session |-> NoSession, cwd |-> cwd]
    /\ inbox = <<>>
    /\ policy = TRUE /\ tools = TRUE
    /\ pinned = [decided |-> FALSE, session |-> NoSession]
    /\ handler = Resting
    /\ answer = NoAnswer

\* No event is on its way or in hand.
Quiet == inbox = <<>> /\ handler = Resting

----------------------------------------------------------------------------
(* The host.                                                               *)

\* A session starts, ends, or moves; an older host names no directory.
Tell(id, cwd) ==
    LET at == IF cwd = NoCwd THEN host.cwd ELSE cwd
        nr == host.nr + 1
    IN
    /\ host.nr < MaxStarts /\ Len(inbox) < MaxInbox
    /\ waits => Quiet
    /\ host' = IF id = host.session THEN [host EXCEPT !.cwd = at, !.nr = nr]
               ELSE [session |-> id, cwd |-> at, home |-> at, entered |-> nr, nr |-> nr]
    /\ inbox' = Append(inbox, [id |-> id, cwd |-> cwd, nr |-> nr])
    /\ answer' = NoAnswer
    /\ UNCHANGED <<tree, entries, proto, waits, shown, told, pinned, handler>>

\* RefreshContext and WithdrawAllTools or RestoreAllTools, through the handle of
\* an event, which the host heeds while the event is its latest.
Heeded(e) == e.nr = host.nr

----------------------------------------------------------------------------
(* The session handler.                                                    *)

\* The SDK brings Host() up to date and calls onSession.
Receive ==
    /\ handler.pc = "idle" /\ inbox # <<>>
    /\ LET e == Head(inbox) IN
       /\ told' = [session |-> e.id, cwd |-> IF e.cwd = NoCwd THEN told.cwd ELSE e.cwd]
       /\ handler' = [Resting EXCEPT !.pc = "decide", !.event = e]
    /\ inbox' = Tail(inbox)
    /\ UNCHANGED <<hostVars, shown, pinned, answer>>

Pinned(e) == [decided |-> TRUE, session |-> e.id]

\* Mutant: every event is decided anew.
EveryEvent(e) == TRUE

IsNew(e) == ~pinned.decided \/ e.id # pinned.session

Decide ==
    LET e == handler.event IN
    /\ handler.pc = "decide"
    /\ pinned' = IF proto < 3 THEN pinned ELSE Pinned(e)
    /\ handler' = IF proto < 3 \/ ~IsNew(e) \/ e.id = NoSession THEN Resting
                  ELSE [handler EXCEPT !.pc = "probe"]
    /\ UNCHANGED <<hostVars, inbox, shown, told, answer>>

Probe ==
    LET cwd == IF handler.event.cwd = NoCwd THEN told.cwd ELSE handler.event.cwd IN
    /\ handler.pc = "probe"
    /\ handler' = [handler EXCEPT !.pc = "policy", !.git = cwd # NoCwd /\ GitAvailable(cwd)]
    /\ UNCHANGED <<hostVars, inbox, shown, told, pinned, answer>>

ShowPolicy ==
    /\ handler.pc = "policy"
    /\ policy' = IF Heeded(handler.event) THEN handler.git ELSE policy
    /\ handler' = IF proto < 4 THEN Resting ELSE [handler EXCEPT !.pc = "tools"]
    /\ UNCHANGED <<hostVars, inbox, tools, told, pinned, answer>>

\* Mutant: tools that were withdrawn are not brought back.
NeverRestored(git) == tools /\ git

ToolsFor(git) == git

ShowTools ==
    /\ handler.pc = "tools"
    /\ tools' = IF Heeded(handler.event) THEN ToolsFor(handler.git) ELSE tools
    /\ handler' = Resting
    /\ UNCHANGED <<hostVars, inbox, policy, told, pinned, answer>>

----------------------------------------------------------------------------
(* Calls, which know of the host what env reads.                           *)

\* worktree_list, which saves the registry it has reconciled and does not heed
\* whether it could.  It reads told and no event reads what it changes, so it is
\* enough to call it where no event is under way.
ListCall(root, filter) ==
    /\ Quiet /\ answer = NoAnswer
    /\ told.cwd # NoCwd
    /\ answer' = List(told.cwd, told.session, root, filter)
    /\ entries' \in {entries, Reconciled(told.cwd, root)}
    /\ UNCHANGED <<tree, proto, waits, host, inbox, shown, told, pinned, handler>>

\* The name of a call, which nothing else has a bearing on: called before the
\* first event only.
NameCall(raw) ==
    /\ host.nr = 0 /\ answer = NoAnswer
    /\ answer' = IF Slugify(raw) = <<>> THEN [kind |-> "unnamed", raw |-> raw]
                 ELSE [kind |-> "named", raw |-> raw, name |-> Slugify(raw)]
    /\ UNCHANGED <<hostVars, inbox, shown, told, pinned, handler>>

Next ==
    \/ \E id \in Owner, cwd \in Cwds \cup {NoCwd} : Tell(id, cwd)
    \/ Receive \/ Decide \/ Probe \/ ShowPolicy \/ ShowTools
    \/ \E root \in Roots, filter \in Filters : ListCall(root, filter)
    \/ \E raw \in RawNames : NameCall(raw)

Spec == Init /\ [][Next]_vars
----------------------------------------------------------------------------
(* Properties.                                                             *)

\* What the model is shown changes only at the event that enters a session:
\* never in mid-session by a /cd, however late a handler comes, since the
\* policy and the tools are in the cached prompt.
PinnedInSession == [][shown' # shown => host.nr = host.entered]_vars

\* A call from a directory finds a repository: its own, or with repo_root that
\* of an immediate child.
Serves(cwd) ==
    /\ cwd # NoCwd
    /\ \/ ResolveRepo(cwd, NoRoot).ok
       \/ \E i \in DOMAIN NameOrder :
             /\ HasDirectory(Append(Resolved(cwd), NameOrder[i]))
             /\ ResolveRepo(cwd, Rel(<<NameOrder[i]>>)).ok

\* The extension goes quiet in a session exactly when no call from where it was
\* entered could do anything: policy and tools, as far as the host's protocol
\* has them, agree with what the calls would find, if the host awaits the
\* handler and the scan for repositories is not cut short.
QuietIffUseless ==
    Quiet /\ waits /\ told.session # NoSession
        /\ (host.home # NoCwd => Len(Candidates(host.home)) <= MaxRepoProbe)
    => /\ policy = (proto < 3 \/ Serves(host.home))
       /\ tools = (proto < 4 \/ Serves(host.home))

\* "Stable whether cwd is the main repo or any worktree of it": the registry a
\* call uses is that of the repository its directory belongs to.
KeyIsRepository ==
    answer.kind = "listed" => answer.key = RepositoryOf(answer.dir)

\* What an error names can be used as it says: given as repo_root, each
\* repository it names is found, and is that child's.
HintsResolve ==
    answer.kind = "refused" =>
        \A n \in Range(answer.hints) :
            LET found == ResolveRepo(answer.cwd, Rel(<<Here, n>>)) IN
            /\ found.ok
            /\ found.key = RepositoryOf(Append(answer.cwd, n))

\* The worktrees whose directory is in the worktrees directory of a call's
\* repository, without any link in their paths.
WorktreesOf(key) ==
    {r \in DOMAIN tree.linked :
        /\ HasDirectory(r)
        /\ Append(tree.linked[r], GitDir) = key
        /\ Front(r) = Resolved(WorktreesDir(key))}

\* Each worktree that is there has exactly one row, in whatever way the paths
\* of git, of the registry and of the host's data directory lead to it, and is
\* managed if there is an entry for it, which the list has left in place.
RowPerWorktree ==
    answer.kind = "listed" /\ answer.filter = [status |-> "", mine |-> FALSE] =>
        \A r \in WorktreesOf(answer.key) :
            LET rows == {row \in answer.rows : CanonPath(row.path) = r} IN
            /\ Cardinality(rows) = 1
            /\ \A row \in rows :
                  /\ row.name = Last(r)
                  /\ row.unmanaged <=> Last(r) \notin DOMAIN EntriesOf(answer.key)

\* A call from inside a worktree of the repository it is about is told so,
\* whatever the filter keeps.
CwdWorktreeTold ==
    answer.kind = "listed" /\ InRepo(answer.cwd) =>
        LET top == TopLevel(answer.cwd) IN
        IF top \in WorktreesOf(answer.key) THEN answer.here = Last(top)
        ELSE answer.here = Nil

\* A name that an answer gives back, typed again, is the same name, and is one
\* that a branch and a directory can have: no dash at an end, none doubled.
NameIsStable ==
    answer.kind = "named" =>
        LET n == answer.name IN
        /\ Slugify(n) = n
        /\ Len(n) <= MaxNameLen
        /\ n[1] # Dash /\ Last(n) # Dash
        /\ \A i \in 1..(Len(n) - 1) : ~(n[i] = Dash /\ n[i + 1] = Dash)
============================================================================
