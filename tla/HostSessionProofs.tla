------------------------- MODULE HostSessionProofs -------------------------
(***************************************************************************)
(* Proofs about a host session: what the model is shown changes only at    *)
(* the event that enters the session, for every file system, protocol and  *)
(* number of sessions and of events on their way; it is what a call finds  *)
(* there, if the host awaits the handler of an event; and what the calls   *)
(* answer, about repositories, worktrees and names.                        *)
(***************************************************************************)
EXTENDS HostSession, SlugProofs, PathProofs, TLAPS

\* What the host tells: a directory or none, and the events with it.
Directory == Cwds \cup {NoCwd}
Event == [id : Owner, cwd : Directory, nr : Nat]

\* The handler has taken its event and not pinned the session yet.
Undecided == handler.pc = "decide"

\* The handler is past its decision: it will show the model something.
Showing == handler.pc \in {"probe", "policy", "tools"}

EventTypes ==
    /\ host \in [session : Owner, cwd : Directory, home : Directory, entered : Nat, nr : Nat]
    /\ inbox \in Seq(Event)
    /\ handler \in [pc : {"idle", "decide", "probe", "policy", "tools"}, event : Event,
                    git : BOOLEAN]
    /\ pinned \in [decided : BOOLEAN, session : Owner]

\* The events on their way are the host's latest, in order, and the one in hand
\* comes right before them.
InOrder ==
    /\ \A i \in 1..Len(inbox) : inbox[i].nr = host.nr - Len(inbox) + i
    /\ handler.pc # "idle" => handler.event.nr = host.nr - Len(inbox)

\* The session that the extension will have pinned once it has handled the
\* events up to the i-th of those on their way.
Sessions ==
    [i \in 0..Len(inbox) |->
        IF i > 0 THEN inbox[i].id
        ELSE IF Undecided THEN handler.event.id
        ELSE pinned.session]

\* Once all are handled it is the host's, and if the latest event changes it,
\* it is the one that the session was entered with.
LatestEnters ==
    proto >= 3 =>
        /\ Sessions[Len(inbox)] = host.session
        /\ inbox # <<>> /\ Sessions[Len(inbox) - 1] # host.session => host.entered = host.nr
        /\ inbox = <<>> /\ Undecided /\ pinned.session # host.session => host.entered = host.nr

\* A handler about to show something was set off by an event that enters a
\* session, which is the one the host is in while the event is its latest.
ShowsAtEntry == Showing /\ Heeded(handler.event) => host.entered = host.nr

PinInv ==
    /\ EventTypes /\ proto \in Int
    /\ ~pinned.decided => pinned.session = NoSession
    /\ InOrder
    /\ LatestEnters
    /\ ShowsAtEntry

----------------------------------------------------------------------------
(* The host's step and the extension's.                                    *)

\* It holds before the first event.
LEMMA InitPinInv == Init => PinInv
<1> SUFFICES ASSUME Init PROVE PinInv
  OBVIOUS
<1>1. PICK cwd \in Directory :
         host = [session |-> NoSession, cwd |-> cwd, home |-> cwd, entered |-> 0, nr |-> 0]
  BY DEF Init, Directory
<1>2. /\ inbox = <<>> /\ handler = Resting
      /\ pinned = [decided |-> FALSE, session |-> NoSession]
  BY DEF Init
<1>3. EventTypes
  BY <1>1, <1>2 DEF EventTypes, Owner, Resting, NoEvent, Event, Directory
<1>4. proto \in Int
  BY HostAssumption DEF Init
<1> QED  BY <1>1, <1>2, <1>3, <1>4
         DEF PinInv, InOrder, LatestEnters, ShowsAtEntry, Sessions, Undecided, Showing, Resting

\* The host's next event keeps the types.
LEMMA TellTypes ==
    ASSUME NEW id \in Owner, NEW cwd \in Directory, EventTypes, Tell(id, cwd)
    PROVE  /\ EventTypes'
           /\ inbox' = Append(inbox, [id |-> id, cwd |-> cwd, nr |-> host.nr + 1])
           /\ host'.nr = host.nr + 1 /\ host'.session = id
           /\ id # host.session => host'.entered = host'.nr
           /\ UNCHANGED <<proto, pinned, handler>>
<1> USE DEF EventTypes
<1>1. /\ inbox' = Append(inbox, [id |-> id, cwd |-> cwd, nr |-> host.nr + 1])
      /\ UNCHANGED <<proto, pinned, handler>>
  BY DEF Tell
<1>2. [id |-> id, cwd |-> cwd, nr |-> host.nr + 1] \in Event
  BY DEF Event
<1> DEFINE at == IF cwd = NoCwd THEN host.cwd ELSE cwd
<1>3. /\ at \in Directory
      /\ host' = IF id = host.session THEN [host EXCEPT !.cwd = at, !.nr = host.nr + 1]
                 ELSE [session |-> id, cwd |-> at, home |-> at, entered |-> host.nr + 1,
                       nr |-> host.nr + 1]
  <2>1. host.cwd \in Directory
    OBVIOUS
  <2> QED  BY <2>1 DEF Tell
<1> HIDE DEF at
<1>4. host' \in [session : Owner, cwd : Directory, home : Directory, entered : Nat, nr : Nat]
  <2>1. CASE id = host.session
    <3>1. host' = [host EXCEPT !.cwd = at, !.nr = host.nr + 1]
      BY <1>3, <2>1
    <3>2. host.nr + 1 \in Nat
      OBVIOUS
    <3> QED  BY <1>3, <3>1, <3>2
  <2>2. CASE id # host.session
    BY <1>3, <2>2
  <2> QED  BY <2>1, <2>2
<1>5. host'.nr = host.nr + 1 /\ host'.session = id /\ (id # host.session => host'.entered = host'.nr)
  BY <1>3
<1> QED  BY <1>1, <1>2, <1>4, <1>5

\* The host's next event is the last on its way; it enters a session if its
\* session is another than the host's, which is the one that the events before
\* it lead to.
LEMMA TellPinInv ==
    ASSUME NEW id \in Owner, NEW cwd \in Directory, PinInv, Tell(id, cwd)
    PROVE  PinInv'
<1>0. EventTypes /\ InOrder /\ LatestEnters /\ ShowsAtEntry
  BY DEF PinInv
<1> DEFINE e == [id |-> id, cwd |-> cwd, nr |-> host.nr + 1]
<1>1. /\ EventTypes' /\ inbox' = Append(inbox, e)
      /\ host'.nr = host.nr + 1 /\ host'.session = id
      /\ id # host.session => host'.entered = host'.nr
      /\ UNCHANGED <<proto, pinned, handler>>
  BY <1>0, TellTypes
<1>2. /\ inbox \in Seq(Event) /\ host.nr \in Nat
      /\ Len(inbox') = Len(inbox) + 1 /\ inbox'[Len(inbox) + 1] = e
      /\ \A i \in 1..Len(inbox) : inbox'[i] = inbox[i]
  BY <1>0, <1>1 DEF EventTypes
<1>3. e.nr = host.nr + 1 /\ e.id = id
  OBVIOUS
<1> HIDE DEF e
<1>4. InOrder'
  <2>1. \A i \in 1..Len(inbox') : inbox'[i].nr = host'.nr - Len(inbox') + i
    <3> SUFFICES ASSUME NEW i \in 1..Len(inbox') PROVE inbox'[i].nr = host'.nr - Len(inbox') + i
      OBVIOUS
    <3>1. i \in 1..Len(inbox) => inbox[i].nr = host.nr - Len(inbox) + i
      BY <1>0 DEF InOrder
    <3>2. i \in 1..Len(inbox) \/ i = Len(inbox) + 1
      BY <1>2
    <3>3. CASE i \in 1..Len(inbox)
      BY <3>1, <3>3, <1>1, <1>2
    <3>4. CASE i = Len(inbox) + 1
      BY <3>4, <1>1, <1>2, <1>3
    <3> QED  BY <3>2, <3>3, <3>4
  <2>2. handler'.pc # "idle" => handler'.event.nr = host'.nr - Len(inbox')
    BY <1>0, <1>1, <1>2 DEF InOrder
  <2> QED  BY <2>1, <2>2 DEF InOrder
<1>5. Sessions'[Len(inbox)] = Sessions[Len(inbox)]
  BY <1>1, <1>2 DEF Sessions, Undecided
<1>6. Sessions'[Len(inbox) + 1] = id
  BY <1>1, <1>2, <1>3 DEF Sessions
<1>7. LatestEnters'
  BY <1>0, <1>1, <1>2, <1>5, <1>6 DEF LatestEnters
<1>8. ShowsAtEntry'
  BY <1>0, <1>1, <1>2 DEF ShowsAtEntry, Showing, Heeded, InOrder
<1> QED  BY <1>1, <1>4, <1>7, <1>8 DEF PinInv

\* Taking an event from the queue leaves their order, and who comes last.
LEMMA ReceivePinInv ==
    ASSUME PinInv, Receive
    PROVE  PinInv'
<1>0. EventTypes /\ InOrder /\ LatestEnters
  BY DEF PinInv
<1> DEFINE n == Len(inbox)
<1>1. /\ handler.pc = "idle" /\ inbox \in Seq(Event) /\ n \in Nat /\ n > 0
      /\ inbox' = Tail(inbox) /\ Len(inbox') = n - 1
      /\ \A i \in 1..(n - 1) : inbox'[i] = inbox[i + 1]
      /\ inbox' \in Seq(Event)
  BY <1>0 DEF Receive, EventTypes
<1>2. /\ handler'.pc = "decide" /\ handler'.event = inbox[1]
      /\ handler' \in [pc : {"idle", "decide", "probe", "policy", "tools"}, event : Event,
                       git : BOOLEAN]
      /\ UNCHANGED <<host, proto, pinned>>
  <2>1. inbox[1] \in Event /\ Head(inbox) = inbox[1]
    BY <1>1
  <2> QED  BY <1>1, <2>1 DEF Receive, Resting, hostVars
<1>3. EventTypes'
  BY <1>0, <1>1, <1>2 DEF EventTypes
<1>4. host.nr \in Nat
  BY <1>0 DEF EventTypes
<1>5. InOrder'
  <2>1. \A i \in 1..(n - 1) : inbox[i + 1].nr = host.nr - n + (i + 1)
    BY <1>0, <1>1 DEF InOrder
  <2>2. inbox[1].nr = host.nr - n + 1
    BY <1>0, <1>1 DEF InOrder
  <2> QED  BY <1>1, <1>2, <1>4, <2>1, <2>2 DEF InOrder
<1>6. \A i \in 0..(n - 1) : Sessions'[i] = Sessions[i + 1]
  BY <1>1, <1>2 DEF Sessions, Undecided
<1>7. LatestEnters'
  <2> SUFFICES ASSUME proto >= 3 PROVE LatestEnters'
    BY <1>2 DEF LatestEnters
  <2>1. Sessions'[n - 1] = host.session
    BY <1>0, <1>1, <1>6 DEF LatestEnters
  <2>2. CASE n > 1
    <3>1. Sessions'[n - 2] = Sessions[n - 1]
      BY <1>1, <1>6, <2>2
    <3>2. Sessions[n - 1] # host.session => host.entered = host.nr
      BY <1>0, <1>1 DEF LatestEnters
    <3>3. Len(inbox') # 0 /\ Len(inbox') - 1 = n - 2
      BY <1>1, <2>2
    <3>4. inbox' # <<>>
      BY <3>3
    <3> QED  BY <1>1, <1>2, <2>1, <3>1, <3>2, <3>3, <3>4 DEF LatestEnters
  <2>3. CASE n = 1
    <3>1. Sessions[n - 1] = pinned.session
      BY <1>1, <2>3 DEF Sessions, Undecided
    <3> QED  BY <1>0, <1>1, <1>2, <2>1, <2>3, <3>1 DEF LatestEnters
  <2> QED  BY <1>1, <2>2, <2>3
<1>8. ShowsAtEntry'
  BY <1>2 DEF ShowsAtEntry, Showing
<1> QED  BY <1>2, <1>3, <1>5, <1>7, <1>8 DEF PinInv

\* Pinning the session of the event in hand; the handler goes on only if that
\* is another session than the one pinned, so that the event entered it.
LEMMA DecidePinInv ==
    ASSUME PinInv, Decide
    PROVE  PinInv'
<1>0. /\ EventTypes /\ InOrder /\ LatestEnters
      /\ ~pinned.decided => pinned.session = NoSession
      /\ proto \in Int
  BY DEF PinInv
<1> DEFINE n == Len(inbox)
           e == handler.event
<1>1. /\ handler.pc = "decide" /\ UNCHANGED <<host, proto, inbox>>
      /\ handler' \in {Resting, [handler EXCEPT !.pc = "probe"]}
      /\ n \in Nat /\ inbox \in Seq(Event) /\ host.nr \in Nat /\ e \in Event
  BY <1>0 DEF Decide, hostVars, EventTypes
<1>2. EventTypes'
  <2>1. handler' \in [pc : {"idle", "decide", "probe", "policy", "tools"}, event : Event,
                      git : BOOLEAN]
    <3>1. Resting \in [pc : {"idle"}, event : Event, git : BOOLEAN]
      BY DEF Resting, NoEvent, Event, Owner, Directory
    <3> QED  BY <1>0, <1>1, <3>1 DEF EventTypes
  <2>2. pinned' \in [decided : BOOLEAN, session : Owner]
    BY <1>0, <1>1 DEF EventTypes, Decide, Pinned, Event
  <2> QED  BY <1>0, <1>1, <2>1, <2>2 DEF EventTypes
<1>3. handler'.pc \in {"idle", "probe"}
  BY <1>0, <1>1 DEF EventTypes, Resting
<1>4. handler'.pc = "probe" => /\ handler'.event = e /\ proto >= 3
                               /\ e.id # pinned.session
  <2> SUFFICES ASSUME handler'.pc = "probe"
               PROVE  handler'.event = e /\ proto >= 3 /\ e.id # pinned.session
    OBVIOUS
  <2>1. handler' # Resting
    BY DEF Resting
  <2>2. ~(proto < 3) /\ IsNew(e) /\ e.id # NoSession
    BY <2>1 DEF Decide
  <2>3. e.id # pinned.session
    BY <1>0, <2>2 DEF IsNew
  <2>4. handler'.event = e
    BY <1>0, <1>1, <2>1 DEF EventTypes
  <2> QED  BY <1>0, <2>2, <2>3, <2>4
<1>5. InOrder'
  BY <1>0, <1>1, <1>3, <1>4 DEF InOrder
<1>6. proto >= 3 => Sessions' = Sessions
  <2> SUFFICES ASSUME proto >= 3 PROVE Sessions' = Sessions
    OBVIOUS
  <2>1. pinned'.session = e.id /\ Undecided /\ ~Undecided'
    BY <1>0, <1>1, <1>3 DEF Decide, Pinned, Undecided
  <2> QED  BY <1>1, <2>1 DEF Sessions
<1>7. LatestEnters'
  BY <1>0, <1>1, <1>3, <1>6 DEF LatestEnters, Undecided
<1>8. ShowsAtEntry'
  <2> SUFFICES ASSUME handler'.pc = "probe", e.nr = host.nr PROVE host.entered = host.nr
    BY <1>1, <1>3, <1>4 DEF ShowsAtEntry, Showing, Heeded
  <2>1. inbox = <<>>
    BY <1>0, <1>1 DEF InOrder
  <2>2. Sessions[0] = e.id
    BY <1>1 DEF Sessions, Undecided
  <2> QED  BY <1>0, <1>1, <1>4, <2>1, <2>2 DEF LatestEnters, Undecided
<1>9. ~pinned'.decided => pinned'.session = NoSession
  BY <1>0 DEF Decide, Pinned
<1> QED  BY <1>0, <1>1, <1>2, <1>5, <1>7, <1>8, <1>9 DEF PinInv

\* Looking for a repository and showing the model what it found leave the
\* events and what is pinned, and the handler its event.
LEMMA ShowPinInv ==
    ASSUME PinInv, Probe \/ ShowPolicy \/ ShowTools
    PROVE  PinInv'
<1>0. EventTypes /\ InOrder /\ LatestEnters /\ ShowsAtEntry
  BY DEF PinInv
<1>1. UNCHANGED <<host, proto, inbox, pinned>> /\ ~Undecided
  BY DEF Probe, ShowPolicy, ShowTools, hostVars, Undecided
<1>2. \/ handler' = Resting
      \/ /\ Showing
         /\ \E git \in BOOLEAN : handler' \in {[handler EXCEPT !.pc = "policy", !.git = git],
                                               [handler EXCEPT !.pc = "tools"]}
  <2>1. CASE Probe
    <3> DEFINE cwd == IF handler.event.cwd = NoCwd THEN told.cwd ELSE handler.event.cwd
               git == cwd # NoCwd /\ GitAvailable(cwd)
    <3>1. handler' = [handler EXCEPT !.pc = "policy", !.git = git] /\ handler.pc = "probe"
      BY <2>1 DEF Probe
    <3>2. git \in BOOLEAN
      BY Zenon
    <3> HIDE DEF git
    <3> QED  BY <3>1, <3>2 DEF Showing
  <2>2. CASE ShowPolicy
    BY <2>2 DEF ShowPolicy, Showing
  <2>3. CASE ShowTools
    BY <2>3 DEF ShowTools
  <2> QED  BY <2>1, <2>2, <2>3
<1>3. /\ handler' \in [pc : {"idle", "policy", "tools"}, event : Event, git : BOOLEAN]
      /\ handler'.pc # "idle" => Showing /\ handler'.event = handler.event
  <2>1. CASE handler' = Resting
    BY <2>1 DEF Resting, NoEvent, Event, Owner, Directory
  <2>2. CASE handler' # Resting
    <3>1. PICK git \in BOOLEAN : handler' \in {[handler EXCEPT !.pc = "policy", !.git = git],
                                               [handler EXCEPT !.pc = "tools"]}
      BY <1>2, <2>2
    <3> QED  BY <1>0, <1>2, <2>2, <3>1 DEF EventTypes
  <2> QED  BY <2>1, <2>2
<1>4. EventTypes'
  BY <1>0, <1>1, <1>3 DEF EventTypes
<1>5. InOrder'
  BY <1>0, <1>1, <1>3 DEF InOrder, Showing
<1>6. ~Undecided'
  BY <1>3 DEF Undecided
<1>7. LatestEnters'
  <2>1. Sessions' = Sessions
    BY <1>1, <1>6 DEF Sessions
  <2> QED  BY <1>0, <1>1, <1>6, <2>1 DEF LatestEnters
<1>8. ShowsAtEntry'
  BY <1>0, <1>1, <1>3 DEF ShowsAtEntry, Showing, Heeded
<1> QED  BY <1>1, <1>4, <1>5, <1>7, <1>8 DEF PinInv

\* A call changes nothing that it is about.
LEMMA CallPinInv ==
    ASSUME PinInv, UNCHANGED <<host, proto, inbox, pinned, handler>>
    PROVE  PinInv'
<1>1. Sessions' = Sessions /\ Undecided' = Undecided
  BY DEF Sessions, Undecided
<1> QED  BY <1>1 DEF PinInv, EventTypes, InOrder, LatestEnters, ShowsAtEntry, Showing, Heeded

\* Each step keeps the invariant.
LEMMA StepPinInv ==
    ASSUME PinInv, [Next]_vars
    PROVE  PinInv'
<1>1. CASE \E id \in Owner, cwd \in Directory : Tell(id, cwd)
  BY <1>1, TellPinInv
<1>2. CASE Receive
  BY <1>2, ReceivePinInv
<1>3. CASE Decide
  BY <1>3, DecidePinInv
<1>4. CASE Probe \/ ShowPolicy \/ ShowTools
  BY <1>4, ShowPinInv
<1>5. CASE UNCHANGED <<host, proto, inbox, pinned, handler>>
  BY <1>5, CallPinInv
<1>6. \/ \E id \in Owner, cwd \in Directory : Tell(id, cwd)
      \/ Receive \/ Decide \/ Probe \/ ShowPolicy \/ ShowTools
      \/ UNCHANGED <<host, proto, inbox, pinned, handler>>
  BY DEF Next, vars, hostVars, Directory, ListCall, NameCall
<1> QED  BY <1>1, <1>2, <1>3, <1>4, <1>5, <1>6

\* The invariant holds in every reachable state.
THEOREM PinInvariance == Spec => []PinInv
<1> QED  BY InitPinInv, StepPinInv, PTL DEF Spec

\* What the model is shown changes at the event that enters a session and at
\* no other, however many events overtake a handler: a handler that goes on to
\* show something was set off by an event that enters a session, so if that is
\* still the latest the host has just entered it, and if not it is not heeded.
THEOREM PinnedForTheSession == Spec => PinnedInSession
<1>1. PinInv /\ [Next]_vars => [shown' # shown => host.nr = host.entered]_vars
  <2> SUFFICES ASSUME PinInv, Next, shown' # shown PROVE host.nr = host.entered
    BY DEF vars
  <2>1. ShowPolicy \/ ShowTools
    BY DEF Next, Tell, Receive, Decide, Probe, ListCall, NameCall, shown
  <2>2. Showing /\ Heeded(handler.event)
    BY <2>1 DEF ShowPolicy, ShowTools, Showing, shown
  <2> QED  BY <2>2 DEF PinInv, ShowsAtEntry
<1> QED  BY <1>1, PinInvariance, PTL DEF Spec, PinnedInSession

----------------------------------------------------------------------------
(* A host that awaits the handler of an event before its next event.       *)

\* The directories where the probe finds a repository.
Available == {cwd \in Cwds : GitAvailable(cwd)}

\* At rest in a session the model is told the policy and shown the tools, as
\* far as the host's protocol has them, exactly when the probe finds a
\* repository where the session was entered.
QuietAsProbed ==
    Quiet /\ waits /\ told.session # NoSession =>
        /\ policy <=> (proto < 3 \/ host.home \in Available)
        /\ tools <=> (proto < 4 \/ host.home \in Available)

\* There is one event on its way or in hand, or none.
OneEvent == inbox = <<>> \/ (handler.pc = "idle" /\ Len(inbox) = 1)

\* The directory that the extension knows once it has taken the event e.
CwdAfter(e) == IF e.cwd = NoCwd THEN told.cwd ELSE e.cwd

\* What the extension knows is what the host is at, but for an event on its way.
KnowsTheHost ==
    /\ inbox = <<>> => told.session = host.session /\ told.cwd = host.cwd
    /\ inbox # <<>> => inbox[1].id = host.session /\ CwdAfter(inbox[1]) = host.cwd
    /\ handler.pc # "idle" =>
          handler.event.id = host.session /\ CwdAfter(handler.event) = host.cwd

\* While the event that enters a session is on its way or in hand, the session
\* is where it was entered.
StillAtHome ==
    /\ inbox # <<>> \/ Undecided => pinned.session = host.session \/ host.home = host.cwd
    /\ handler.pc = "probe" => host.home = host.cwd

\* The model is shown what a probe of that directory finds: once the handler is
\* through with the session, and in the order it goes about it.
ShownAsProbed ==
    /\ pinned.session = host.session /\ host.session # NoSession /\ ~Showing =>
          /\ policy <=> host.home \in Available
          /\ proto >= 4 => (tools <=> host.home \in Available)
    /\ handler.pc \in {"policy", "tools"} => (handler.git <=> host.home \in Available)
    /\ handler.pc = "tools" => (policy <=> host.home \in Available)

\* An older host is never told to withdraw what its protocol does not have.
ShownByProtocol ==
    /\ policy \in BOOLEAN /\ tools \in BOOLEAN
    /\ proto < 3 => policy
    /\ proto < 4 => tools
    /\ Showing => proto >= 3
    /\ handler.pc = "tools" => proto >= 4

QuietInv ==
    /\ ShownByProtocol
    /\ waits => OneEvent /\ KnowsTheHost
    /\ waits /\ proto >= 3 => StillAtHome /\ ShownAsProbed

\* What the probe finds is a matter of the file system, which stays.
LEMMA ResolvedStays ==
    ASSUME UNCHANGED tree
    PROVE  \A p : Resolved(p)' = Resolved(p)
BY DEF Resolved, FoldLeft, MapThenFoldSet

\* Which directories are in a repository stays.
LEMMA InRepoStays ==
    ASSUME NEW p, UNCHANGED tree
    PROVE  InRepo(p)' <=> InRepo(p)
BY ResolvedStays DEF HasDirectory, InRepo, RootsAbove

\* The children with a .git entry stay.
LEMMA CandidatesStay ==
    ASSUME NEW p, UNCHANGED tree
    PROVE  Candidates(p)' = Candidates(p)
BY ResolvedStays DEF HasDirectory, Candidates, HasDotGit

\* The repositories among them stay.
LEMMA NearbyStay ==
    ASSUME NEW p, UNCHANGED tree
    PROVE  NearbyRepos(p)' = NearbyRepos(p)
BY CandidatesStay, InRepoStays DEF NearbyRepos

\* And so do the directories that can be worked from.
LEMMA AvailableStays ==
    ASSUME UNCHANGED tree
    PROVE  Available' = Available
BY NearbyStay, InRepoStays DEF Available, GitAvailable

\* It holds before the first event.
LEMMA InitQuietInv == Init => QuietInv
<1> SUFFICES ASSUME Init PROVE QuietInv
  OBVIOUS
<1>1. PICK cwd \in Cwds \cup {NoCwd} :
         /\ host = [session |-> NoSession, cwd |-> cwd, home |-> cwd, entered |-> 0, nr |-> 0]
         /\ told = [session |-> NoSession, cwd |-> cwd]
  BY DEF Init
<1>2. /\ inbox = <<>> /\ handler = Resting /\ policy = TRUE /\ tools = TRUE
      /\ pinned = [decided |-> FALSE, session |-> NoSession]
  BY DEF Init
<1>3. policy \in BOOLEAN /\ tools \in BOOLEAN /\ policy /\ tools
  BY <1>2
<1> QED  BY <1>1, <1>2, <1>3
         DEF QuietInv, ShownByProtocol, OneEvent, KnowsTheHost, StillAtHome, ShownAsProbed,
             Undecided, Showing, Resting

\* The next event finds the extension at rest with the session pinned; if it
\* enters another, that is where it enters it.
LEMMA TellQuietInv ==
    ASSUME NEW id \in Owner, NEW cwd \in Directory, PinInv, QuietInv, Tell(id, cwd)
    PROVE  QuietInv'
<1> DEFINE e == [id |-> id, cwd |-> cwd, nr |-> host.nr + 1]
           at == IF cwd = NoCwd THEN host.cwd ELSE cwd
<1>1. /\ UNCHANGED <<tree, proto, waits, policy, tools, told, pinned, handler>>
      /\ inbox' = Append(inbox, e)
      /\ waits => inbox = <<>> /\ handler = Resting
  BY DEF Tell, Quiet, shown
<1>2. /\ host'.session = id /\ host'.cwd = at
      /\ IF id = host.session THEN host'.home = host.home ELSE host'.home = at
  BY DEF Tell, PinInv, EventTypes
<1>3. Available' = Available
  BY <1>1, AvailableStays
<1>4. ShownByProtocol'
  BY <1>1 DEF QuietInv, ShownByProtocol, Showing
<1> SUFFICES ASSUME waits
             PROVE  OneEvent' /\ KnowsTheHost' /\ (proto >= 3 => StillAtHome' /\ ShownAsProbed')
  BY <1>1, <1>4 DEF QuietInv
<1>5. /\ Len(inbox') = 1 /\ inbox'[1] = e /\ inbox' # <<>>
      /\ handler'.pc = "idle" /\ handler.pc = "idle"
  BY <1>1 DEF Resting
<1>6. OneEvent'
  BY <1>5 DEF OneEvent
<1>7. KnowsTheHost'
  BY <1>1, <1>2, <1>5 DEF KnowsTheHost, CwdAfter, QuietInv
<1>8. ASSUME proto >= 3 PROVE StillAtHome' /\ ShownAsProbed'
  <2>1. pinned.session = host.session
    BY <1>1, <1>5, <1>8 DEF PinInv, LatestEnters, Sessions, Undecided
  <2>2. StillAtHome'
    BY <1>1, <1>2, <1>5, <2>1 DEF StillAtHome, Undecided
  <2>3. ShownAsProbed'
    BY <1>1, <1>2, <1>3, <1>5, <1>8, <2>1 DEF QuietInv, ShownAsProbed, Showing
  <2> QED  BY <2>2, <2>3
<1> QED  BY <1>6, <1>7, <1>8

\* Taking the event makes known what it says.
LEMMA ReceiveQuietInv ==
    ASSUME PinInv, QuietInv, Receive
    PROVE  QuietInv'
<1>1. /\ UNCHANGED <<tree, proto, waits, host, policy, tools, pinned>>
      /\ handler.pc = "idle" /\ inbox # <<>> /\ inbox' = Tail(inbox)
      /\ inbox \in Seq(Event) /\ inbox[1] \in Event /\ Head(inbox) = inbox[1]
  BY DEF Receive, hostVars, shown, PinInv, EventTypes
<1>2. /\ handler'.pc = "decide" /\ handler'.event = inbox[1]
      /\ told'.session = inbox[1].id /\ told'.cwd = CwdAfter(inbox[1])
  BY <1>1 DEF Receive, Resting, CwdAfter
<1>3. Available' = Available
  BY <1>1, AvailableStays
<1>4. ShownByProtocol'
  BY <1>1, <1>2 DEF QuietInv, ShownByProtocol, Showing
<1> SUFFICES ASSUME waits
             PROVE  OneEvent' /\ KnowsTheHost' /\ (proto >= 3 => StillAtHome' /\ ShownAsProbed')
  BY <1>1, <1>4 DEF QuietInv
<1>5. inbox' = <<>>
  BY <1>1 DEF QuietInv, OneEvent
<1>6. /\ inbox[1].id = host.session /\ CwdAfter(inbox[1]) = host.cwd
  BY <1>1 DEF QuietInv, KnowsTheHost
<1>7. told'.session = host'.session /\ told'.cwd = host'.cwd
  BY <1>1, <1>2, <1>6
<1>8. KnowsTheHost'
  <2>1. handler'.event.cwd = NoCwd \/ handler'.event.cwd = told'.cwd
    BY <1>2 DEF CwdAfter
  <2> QED  BY <1>1, <1>2, <1>5, <1>6, <1>7, <2>1 DEF KnowsTheHost, CwdAfter
<1>9. proto >= 3 => StillAtHome' /\ ShownAsProbed'
  BY <1>1, <1>2, <1>3 DEF QuietInv, StillAtHome, ShownAsProbed, Undecided, Showing
<1> QED  BY <1>5, <1>8, <1>9 DEF OneEvent

\* The handler of an event that enters a session goes on to probe, and that of
\* any other leaves what is shown, which was found for this session.
LEMMA DecideQuietInv ==
    ASSUME PinInv, QuietInv, Decide
    PROVE  QuietInv'
<1> DEFINE e == handler.event
<1>1. /\ UNCHANGED <<tree, proto, waits, host, inbox, policy, tools, told>>
      /\ handler.pc = "decide" /\ proto \in Int
  BY DEF Decide, hostVars, shown, PinInv
<1>2. \/ handler' = Resting /\ (proto < 3 \/ ~IsNew(e) \/ e.id = NoSession)
      \/ /\ handler'.pc = "probe" /\ handler'.event = e
         /\ proto >= 3 /\ e.id # pinned.session
  <2>1. CASE proto < 3 \/ ~IsNew(e) \/ e.id = NoSession
    BY <2>1 DEF Decide
  <2>2. CASE ~(proto < 3 \/ ~IsNew(e) \/ e.id = NoSession)
    <3>1. handler' = [handler EXCEPT !.pc = "probe"]
      BY <2>2 DEF Decide
    <3>2. e.id # pinned.session
      BY <2>2 DEF IsNew, PinInv
    <3> QED  BY <1>1, <2>2, <3>1, <3>2 DEF PinInv, EventTypes
  <2> QED  BY <2>1, <2>2
<1>3. handler'.pc \in {"idle", "probe"} /\ (handler'.pc = "probe" => proto >= 3 /\ handler'.event = e)
  BY <1>2 DEF Resting
<1>4. Available' = Available
  BY <1>1, AvailableStays
<1>5. ShownByProtocol'
  BY <1>1, <1>3 DEF QuietInv, ShownByProtocol, Showing
<1> SUFFICES ASSUME waits
             PROVE  OneEvent' /\ KnowsTheHost' /\ (proto >= 3 => StillAtHome' /\ ShownAsProbed')
  BY <1>1, <1>5 DEF QuietInv
<1>6. inbox = <<>>
  BY <1>1 DEF QuietInv, OneEvent
<1>7. /\ e.id = host.session /\ CwdAfter(e) = host.cwd
      /\ told.session = host.session /\ told.cwd = host.cwd
  BY <1>1, <1>6 DEF QuietInv, KnowsTheHost
<1>8. KnowsTheHost'
  BY <1>1, <1>3, <1>6, <1>7 DEF KnowsTheHost, CwdAfter
<1>9. ASSUME proto >= 3 PROVE StillAtHome' /\ ShownAsProbed'
  <2>1. pinned'.session = host.session
    BY <1>1, <1>7, <1>9 DEF Decide, Pinned
  <2>2. pinned.session = host.session \/ host.home = host.cwd
    BY <1>1, <1>9 DEF QuietInv, StillAtHome, Undecided
  <2>3. CASE handler' = Resting /\ (~IsNew(e) \/ e.id = NoSession)
    <3>1. handler'.pc = "idle"
      BY <2>3 DEF Resting
    <3>2. host.session # NoSession => pinned.session = host.session
      BY <1>7, <2>3 DEF IsNew
    <3> QED  BY <1>1, <1>4, <1>6, <1>9, <2>1, <3>1, <3>2
             DEF QuietInv, StillAtHome, ShownAsProbed, Undecided, Showing
  <2>4. CASE handler'.pc = "probe" /\ e.id # pinned.session
    BY <1>1, <1>6, <1>7, <2>1, <2>2, <2>4
       DEF StillAtHome, ShownAsProbed, Undecided, Showing
  <2> QED  BY <1>1, <1>2, <1>9, <2>3, <2>4
<1> QED  BY <1>1, <1>6, <1>8, <1>9 DEF OneEvent

\* The probe looks where the session was entered.
LEMMA ProbeQuietInv ==
    ASSUME PinInv, QuietInv, Probe
    PROVE  QuietInv'
<1> DEFINE cwd == CwdAfter(handler.event)
           git == cwd # NoCwd /\ GitAvailable(cwd)
<1>1. /\ UNCHANGED <<tree, proto, waits, host, inbox, policy, tools, told, pinned>>
      /\ handler.pc = "probe"
      /\ handler' = [handler EXCEPT !.pc = "policy", !.git = git]
  BY DEF Probe, hostVars, shown, CwdAfter
<1>2. handler'.pc = "policy" /\ handler'.event = handler.event /\ handler'.git = git
  BY <1>1 DEF PinInv, EventTypes
<1>3. Available' = Available
  BY <1>1, AvailableStays
<1>4. ShownByProtocol'
  BY <1>1, <1>2 DEF QuietInv, ShownByProtocol, Showing
<1> SUFFICES ASSUME waits
             PROVE  OneEvent' /\ KnowsTheHost' /\ (proto >= 3 => StillAtHome' /\ ShownAsProbed')
  BY <1>1, <1>4 DEF QuietInv
<1>5. inbox = <<>>
  BY <1>1 DEF QuietInv, OneEvent
<1>6. KnowsTheHost'
  BY <1>1, <1>2, <1>5 DEF QuietInv, KnowsTheHost, CwdAfter
<1>7. ASSUME proto >= 3 PROVE StillAtHome' /\ ShownAsProbed'
  <2>1. cwd = host.home /\ host.home \in Directory
    BY <1>1, <1>7 DEF QuietInv, KnowsTheHost, StillAtHome, PinInv, EventTypes
  <2>2. cwd \in Directory => (git <=> cwd \in Available)
    BY HostAssumption DEF Available, Directory
  <2> HIDE DEF git, cwd
  <2>3. handler'.git <=> host.home \in Available
    BY <1>2, <2>1, <2>2
  <2> QED  BY <1>1, <1>2, <1>3, <1>5, <2>3 DEF StillAtHome, ShownAsProbed, Undecided, Showing
<1> QED  BY <1>1, <1>5, <1>6, <1>7 DEF OneEvent

\* The policy is set to what the probe found: the event is the latest.
LEMMA PolicyQuietInv ==
    ASSUME PinInv, QuietInv, ShowPolicy
    PROVE  QuietInv'
<1>1. /\ UNCHANGED <<tree, proto, waits, host, inbox, tools, told, pinned>>
      /\ handler.pc = "policy" /\ proto \in Int
      /\ policy' = IF Heeded(handler.event) THEN handler.git ELSE policy
  BY DEF ShowPolicy, hostVars, PinInv
<1>2. \/ handler' = Resting /\ proto < 4
      \/ /\ handler'.pc = "tools" /\ handler'.event = handler.event
         /\ handler'.git = handler.git /\ proto >= 4
  BY <1>1 DEF ShowPolicy, PinInv, EventTypes
<1>3. handler'.pc \in {"idle", "tools"} /\ (handler'.pc = "tools" =>
          handler'.event = handler.event /\ handler'.git = handler.git /\ proto >= 4)
  BY <1>2 DEF Resting
<1>4. Available' = Available
  BY <1>1, AvailableStays
<1>5. proto >= 3
  BY <1>1 DEF QuietInv, ShownByProtocol, Showing
<1>6. ShownByProtocol'
  BY <1>1, <1>3, <1>5 DEF QuietInv, ShownByProtocol, Showing, PinInv, EventTypes
<1> SUFFICES ASSUME waits
             PROVE  OneEvent' /\ KnowsTheHost' /\ StillAtHome' /\ ShownAsProbed'
  BY <1>1, <1>6 DEF QuietInv
<1>7. inbox = <<>>
  BY <1>1 DEF QuietInv, OneEvent
<1>8. KnowsTheHost'
  BY <1>1, <1>3, <1>7 DEF QuietInv, KnowsTheHost, CwdAfter
<1>9. Heeded(handler.event)
  BY <1>1, <1>7 DEF Heeded, PinInv, InOrder, EventTypes
<1>10. handler.git <=> host.home \in Available
  BY <1>1, <1>5 DEF QuietInv, ShownAsProbed
<1>11. policy' <=> host.home \in Available
  BY <1>1, <1>9, <1>10
<1>12. handler'.pc = "idle" => ~(proto >= 4)
  BY <1>1, <1>2
<1> QED  BY <1>1, <1>3, <1>4, <1>7, <1>8, <1>10, <1>11, <1>12
         DEF OneEvent, StillAtHome, ShownAsProbed, Undecided, Showing

\* And so are the tools.
LEMMA ToolsQuietInv ==
    ASSUME PinInv, QuietInv, ShowTools
    PROVE  QuietInv'
<1>1. /\ UNCHANGED <<tree, proto, waits, host, inbox, policy, told, pinned>>
      /\ handler.pc = "tools" /\ handler' = Resting /\ handler'.pc = "idle" /\ proto \in Int
      /\ tools' = IF Heeded(handler.event) THEN handler.git ELSE tools
  BY DEF ShowTools, ToolsFor, Resting, hostVars, PinInv
<1>2. Available' = Available
  BY <1>1, AvailableStays
<1>3. proto >= 4
  BY <1>1 DEF QuietInv, ShownByProtocol
<1>4. handler.git \in BOOLEAN
  BY DEF PinInv, EventTypes
<1>5. ASSUME waits
      PROVE  OneEvent' /\ KnowsTheHost' /\ StillAtHome' /\ ShownAsProbed'
  <2>1. inbox = <<>>
    BY <1>1, <1>5 DEF QuietInv, OneEvent
  <2>2. Heeded(handler.event)
    BY <1>1, <2>1 DEF Heeded, PinInv, InOrder, EventTypes
  <2>3. /\ handler.git <=> host.home \in Available
        /\ policy <=> host.home \in Available
    BY <1>1, <1>3, <1>5 DEF QuietInv, ShownAsProbed
  <2>4. tools' <=> host.home \in Available
    BY <1>1, <2>2, <2>3
  <2>5. KnowsTheHost'
    BY <1>1, <1>5, <2>1 DEF QuietInv, KnowsTheHost
  <2> QED  BY <1>1, <1>2, <2>1, <2>3, <2>4, <2>5
           DEF OneEvent, StillAtHome, ShownAsProbed, Undecided, Showing
<1> QED  BY <1>1, <1>3, <1>4, <1>5 DEF QuietInv, ShownByProtocol, Showing

\* A call leaves what it reads.
LEMMA CallQuietInv ==
    ASSUME QuietInv, UNCHANGED <<tree, proto, waits, host, inbox, shown, told, pinned, handler>>
    PROVE  QuietInv'
<1>1. UNCHANGED <<tree, proto, waits, host, inbox, policy, tools, told, pinned, handler>>
  BY DEF shown
<1>2. Available' = Available
  BY <1>1, AvailableStays
<1> QED  BY <1>1, <1>2
         DEF QuietInv, ShownByProtocol, OneEvent, KnowsTheHost, CwdAfter, StillAtHome,
             ShownAsProbed, Undecided, Showing

\* What the handlers keep up, with a host that awaits them.
THEOREM QuietInvariance == Spec => []QuietInv
<1>1. PinInv /\ QuietInv /\ [Next]_vars => QuietInv'
  <2> SUFFICES ASSUME PinInv, QuietInv, [Next]_vars PROVE QuietInv'
    OBVIOUS
  <2>1. CASE \E id \in Owner, cwd \in Directory : Tell(id, cwd)
    BY <2>1, TellQuietInv
  <2>2. CASE Receive \/ Decide \/ Probe \/ ShowPolicy \/ ShowTools
    BY <2>2, ReceiveQuietInv, DecideQuietInv, ProbeQuietInv, PolicyQuietInv, ToolsQuietInv
  <2>3. CASE UNCHANGED <<tree, proto, waits, host, inbox, shown, told, pinned, handler>>
    BY <2>3, CallQuietInv
  <2>4. \/ \E id \in Owner, cwd \in Directory : Tell(id, cwd)
        \/ Receive \/ Decide \/ Probe \/ ShowPolicy \/ ShowTools
        \/ UNCHANGED <<tree, proto, waits, host, inbox, shown, told, pinned, handler>>
    BY DEF Next, vars, hostVars, Directory, ListCall, NameCall
  <2> QED  BY <2>1, <2>2, <2>3, <2>4
<1> QED  BY <1>1, InitQuietInv, PinInvariance, PTL DEF Spec

\* What the model is shown at rest, with a host that awaits the handlers, is
\* what the probe finds where the session was entered: through any sequence of
\* sessions that start and end and of directories the host moves to, for every
\* file system and protocol.  QuietIsUseless, below, adds that the probe finds
\* what a call finds.
THEOREM ShownIsProbed == Spec => []QuietAsProbed
<1>1. PinInv /\ QuietInv => QuietAsProbed
  <2> SUFFICES ASSUME PinInv, QuietInv, Quiet, waits, told.session # NoSession
               PROVE  /\ policy <=> (proto < 3 \/ host.home \in Available)
                      /\ tools <=> (proto < 4 \/ host.home \in Available)
    BY DEF QuietAsProbed
  <2>1. inbox = <<>> /\ handler.pc = "idle" /\ proto \in Int
    BY DEF Quiet, Resting, PinInv
  <2>2. host.session # NoSession
    BY <2>1 DEF QuietInv, KnowsTheHost
  <2>3. proto >= 3 => pinned.session = host.session
    BY <2>1 DEF PinInv, LatestEnters, Sessions, Undecided
  <2>4. /\ proto < 3 => policy
        /\ proto < 4 => tools
    BY DEF QuietInv, ShownByProtocol
  <2>5. proto >= 3 => /\ policy <=> host.home \in Available
                      /\ proto >= 4 => (tools <=> host.home \in Available)
    BY <2>1, <2>2, <2>3 DEF QuietInv, ShownAsProbed, Showing
  <2> QED  BY <2>1, <2>4, <2>5
<1> QED  BY <1>1, QuietInvariance, PinInvariance, PTL

----------------------------------------------------------------------------
(* What calls answer.                                                      *)

\* The file system is one of the given ones, and the extension knows one of the
\* given directories or none.
CallInv == tree \in Trees /\ told.cwd \in Directory

\* It holds always.
LEMMA CallInvariance == Spec => []CallInv
<1>1. Init => CallInv
  BY DEF Init, CallInv, Directory
<1>2. PinInv /\ CallInv /\ [Next]_vars => CallInv'
  <2> SUFFICES ASSUME PinInv, CallInv, [Next]_vars PROVE CallInv'
    OBVIOUS
  <2>1. CASE Receive
    <3>1. inbox \in Seq(Event) /\ inbox # <<>>
      BY <2>1 DEF PinInv, EventTypes, Receive
    <3>2. Head(inbox) \in Event
      BY <3>1
    <3> QED  BY <2>1, <3>2 DEF Receive, CallInv, hostVars, Event
  <2>2. CASE UNCHANGED <<tree, told>>
    BY <2>2 DEF CallInv
  <2>3. Receive \/ UNCHANGED <<tree, told>>
    BY DEF Next, vars, hostVars, shown, Tell, Decide, Probe, ShowPolicy, ShowTools, ListCall,
           NameCall
  <2> QED  BY <2>1, <2>2, <2>3
<1> QED  BY <1>1, <1>2, PinInvariance, PTL DEF Spec

\* A step that leaves an answer is a list call, or gives a name.
LEMMA AnswerSteps ==
    ASSUME CallInv, [Next]_vars
    PROVE  /\ tree' = tree
           /\ \/ answer' = answer /\ entries' = entries
              \/ answer' = NoAnswer
              \/ \E raw \in RawNames :
                    answer' = IF Slugify(raw) = <<>> THEN [kind |-> "unnamed", raw |-> raw]
                              ELSE [kind |-> "named", raw |-> raw, name |-> Slugify(raw)]
              \/ \E root \in Roots, filter \in Filters :
                    /\ told.cwd \in Cwds /\ answer' = List(told.cwd, told.session, root, filter)
                    /\ entries' \in {entries, Reconciled(told.cwd, root)}
<1>1. CASE \E id \in Owner, cwd \in Cwds \cup {NoCwd} : Tell(id, cwd)
  BY <1>1 DEF Tell
<1>2. CASE Receive \/ Decide \/ Probe \/ ShowPolicy \/ ShowTools \/ UNCHANGED vars
  BY <1>2 DEF Receive, Decide, Probe, ShowPolicy, ShowTools, vars, hostVars
<1>3. ASSUME NEW root \in Roots, NEW filter \in Filters, ListCall(root, filter)
      PROVE  /\ tree' = tree /\ told.cwd \in Cwds
             /\ answer' = List(told.cwd, told.session, root, filter)
             /\ entries' \in {entries, Reconciled(told.cwd, root)}
  BY <1>3 DEF ListCall, CallInv, Directory
<1>4. ASSUME NEW raw \in RawNames, NameCall(raw)
      PROVE  /\ tree' = tree
             /\ answer' = IF Slugify(raw) = <<>> THEN [kind |-> "unnamed", raw |-> raw]
                          ELSE [kind |-> "named", raw |-> raw, name |-> Slugify(raw)]
  BY <1>4 DEF NameCall, hostVars
<1> QED  BY <1>1, <1>2, <1>3, <1>4 DEF Next

\* What a list call answers.
LEMMA ListAnswers ==
    ASSUME NEW cwd, NEW session, NEW root, NEW filter
    PROVE  LET a == List(cwd, session, root, filter)
               dir == TargetDir(cwd, root)
           IN /\ a.kind \in {"refused", "listed"} /\ a.cwd = cwd /\ a.root = root
              /\ a.kind = "listed" =>
                    /\ InRepo(dir) /\ a.dir = dir /\ a.key = Key(dir) /\ a.filter = filter
                    /\ LET rows == RowsOf(Key(dir), RepositoryOf(dir), session) IN
                       /\ a.rows = {row \in rows : Matches(filter, row)}
                       /\ a.here = CwdWorktree(cwd, rows)
              /\ a.kind = "refused" =>
                    a.hints = IF root.kind = "none" THEN AtMost(MaxRepoHints, NearbyRepos(cwd))
                              ELSE <<>>
<1> DEFINE repo == ResolveRepo(cwd, root)
<1>1. CASE repo.ok
  <2>1. /\ InRepo(TargetDir(cwd, root))
        /\ repo = [ok |-> TRUE, dir |-> TargetDir(cwd, root), key |-> Key(TargetDir(cwd, root)),
                   hints |-> <<>>]
    BY <1>1 DEF ResolveRepo
  <2> HIDE DEF repo
  <2> QED  BY <1>1, <2>1 DEF List, repo, RowsOf, CwdAmong, Worktrees
<1>2. CASE ~repo.ok
  <2>1. repo.hints = IF root.kind = "none" THEN AtMost(MaxRepoHints, NearbyRepos(cwd)) ELSE <<>>
    BY <1>2 DEF ResolveRepo
  <2> HIDE DEF repo
  <2> QED  BY <1>2, <2>1 DEF List, repo
<1> QED  BY <1>1, <1>2

\* A name that is given back is stable, for every name that is typed and every
\* limit: the loop of slugify never doubles a dash or starts with one, what is
\* trimmed and cut has none at its end, and such a name goes through unchanged.
THEOREM NamesAreStable == Spec => []NameIsStable
<1>1. Init => NameIsStable
  BY DEF Init, NameIsStable, NoAnswer
<1>2. CallInv /\ NameIsStable /\ [Next]_vars => NameIsStable'
  <2> SUFFICES ASSUME CallInv, NameIsStable, [Next]_vars, answer'.kind = "named"
               PROVE  LET n == answer'.name IN
                      /\ Slugify(n) = n
                      /\ Len(n) <= MaxNameLen
                      /\ n[1] # Dash /\ Last(n) # Dash
                      /\ \A i \in 1..(Len(n) - 1) : ~(n[i] = Dash /\ n[i + 1] = Dash)
    BY DEF NameIsStable
  <2>1. CASE answer' = answer
    BY <2>1 DEF NameIsStable
  <2>2. CASE \E raw \in RawNames : answer' = [kind |-> "named", raw |-> raw, name |-> Slugify(raw)]
                                   /\ Slugify(raw) # <<>>
    <3>1. PICK raw \in RawNames : answer'.name = Slugify(raw) /\ Slugify(raw) # <<>>
      BY <2>2
    <3>2. raw \in Seq(Character) /\ MaxNameLen \in Nat
      BY HostAssumption
    <3>3. Trim(Slugify(raw)) /\ Len(Slugify(raw)) <= MaxNameLen
          /\ Slugify(Slugify(raw)) = Slugify(raw)
      BY <3>2, SlugifyIsStable
    <3> QED  BY <3>1, <3>3 DEF Trim, Tidy
  <2>3. answer' # NoAnswer
    BY DEF NoAnswer
  <2>4. ASSUME NEW root, NEW filter, answer' = List(told.cwd, told.session, root, filter)
        PROVE  FALSE
    BY <2>4, ListAnswers
  <2> QED  BY <2>1, <2>2, <2>3, <2>4, AnswerSteps
<1> QED  BY <1>1, <1>2, CallInvariance, PTL DEF Spec

\* The repository that a directory belongs to is a matter of the file system.
LEMMA RepositoryStays ==
    ASSUME UNCHANGED tree
    PROVE  \A p : RepositoryOf(p)' = RepositoryOf(p)
<1>1. \A p : RootsAbove(p)' = RootsAbove(p)
  BY ResolvedStays DEF RootsAbove
<1>2. \A p : TopLevel(p)' = TopLevel(p)
  BY <1>1 DEF TopLevel
<1> QED  BY <1>2 DEF RepositoryOf

\* No directory that the host may be in is reached through a link that leads
\* below a main checkout's root.
CwdsAreOutside == \A cwd \in Cwds : LinksStayOutside(cwd)

\* Which is a matter of the file system too.
LEMMA OutsideStays ==
    ASSUME UNCHANGED tree, CwdsAreOutside
    PROVE  CwdsAreOutside'
BY ResolvedStays DEF CwdsAreOutside, LinksStayOutside

\* A path that may be asked about.
LEMMA PathsAreTyped ==
    /\ Path \subseteq Place
    /\ \A cwd \in Path, root \in RepoRoot :
          cwd \o root.path \in Seq(Typed) /\ root.path \in Seq(Typed)
<1>1. Path \subseteq Place /\ Path \subseteq Seq(Typed)
  BY DEF Path, Place, Piece, Typed
<1>2. \A root \in RepoRoot : root.path \in Seq(Typed)
  <2> TAKE root \in RepoRoot
  <2>1. root.path \in Seq(Range(NameOrder) \cup {GitDir, Up, Here})
    BY DEF RepoRoot
  <2> QED  BY <2>1 DEF Typed, Piece
<1> QED  BY <1>1, <1>2

\* The directory that a call is about is reached through no link that leads below
\* a repository's root: its cwd by assumption, a repo_root as it was made
\* canonical first.
LEMMA TargetIsPlain ==
    ASSUME tree \in Trees, CwdsAreOutside, NEW cwd \in Cwds, NEW root \in Roots,
           InRepo(TargetDir(cwd, root))
    PROVE  /\ TargetDir(cwd, root) \in Place
           /\ Key(TargetDir(cwd, root)) = RepositoryOf(TargetDir(cwd, root))
<1> DEFINE dir == TargetDir(cwd, root)
<1>1. IsFileSystem(tree) /\ cwd \in Path /\ root \in RepoRoot /\ LinksStayOutside(cwd)
  BY HostAssumption DEF CwdsAreOutside
<1>2. dir \in Place /\ LinksStayOutside(dir)
  <2>1. CASE root.kind = "none"
    BY <1>1, <2>1, PathsAreTyped DEF TargetDir
  <2>2. ASSUME NEW x \in Seq(Typed), dir = CanonPath(x)
        PROVE  dir \in Place /\ LinksStayOutside(dir)
    BY <1>1, <2>2, CanonInRepo, DirectoryIsPlain
  <2>3. CASE root.kind = "rel"
    <3>1. cwd \o root.path \in Seq(Typed)
      BY <1>1, PathsAreTyped
    <3>2. Clean(cwd \o root.path) \in Place
      BY <3>1, CleanType
    <3>3. Place \subseteq Seq(Typed)
      BY DEF Place, Typed
    <3>4. Join(cwd, root.path) \in Seq(Typed)
      BY <3>2, <3>3 DEF Join
    <3> QED  BY <2>2, <2>3, <3>4 DEF TargetDir
  <2>4. CASE root.kind = "abs"
    <3>1. root.path \in Seq(Typed)
      BY <1>1, PathsAreTyped
    <3> QED  BY <2>2, <2>4, <3>1 DEF TargetDir
  <2>5. root.kind \in {"none", "rel", "abs"}
    BY <1>1 DEF RepoRoot
  <2> QED  BY <2>1, <2>3, <2>4, <2>5
<1> HIDE DEF dir
<1>3. Key(dir) = RepositoryOf(dir)
  BY <1>1, <1>2, KeyOfPlain DEF dir
<1> QED  BY <1>2, <1>3 DEF dir

\* The registry of a call is that of its directory's repository, in every file
\* system in which the host reaches no directory through a link that leads below
\* a repository's root: git's relative answer is joined to the letters of the
\* path, and these end as those of the directory that the path leads to.  A
\* repo_root may go through any links, as it is made canonical first.  The run
\* linked_cwd shows what happens without the hypothesis.
THEOREM KeysAreRepositories == Spec /\ CwdsAreOutside => []KeyIsRepository
<1>1. Init => KeyIsRepository
  BY DEF Init, KeyIsRepository, NoAnswer
<1>2. CallInv /\ CwdsAreOutside /\ KeyIsRepository /\ [Next]_vars
         => CwdsAreOutside' /\ KeyIsRepository'
  <2> SUFFICES ASSUME CallInv, CwdsAreOutside, KeyIsRepository, [Next]_vars
               PROVE  CwdsAreOutside' /\ KeyIsRepository'
    OBVIOUS
  <2>1. tree' = tree /\ \A p : RepositoryOf(p)' = RepositoryOf(p)
    BY AnswerSteps, RepositoryStays
  <2>2. ASSUME answer' = answer PROVE KeyIsRepository'
    BY <2>1, <2>2 DEF KeyIsRepository
  <2>3. ASSUME answer'.kind # "listed" PROVE KeyIsRepository'
    BY <2>3 DEF KeyIsRepository
  <2>4. ASSUME NEW root \in Roots, NEW filter \in Filters, told.cwd \in Cwds,
               answer' = List(told.cwd, told.session, root, filter), answer'.kind = "listed"
        PROVE  KeyIsRepository'
    <3> DEFINE dir == TargetDir(told.cwd, root)
    <3>1. InRepo(dir) /\ answer'.dir = dir /\ answer'.key = Key(dir)
      BY <2>4, ListAnswers
    <3>2. Key(dir) = RepositoryOf(dir)
      BY <2>4, <3>1, TargetIsPlain DEF CallInv
    <3> HIDE DEF dir
    <3> QED  BY <2>1, <3>1, <3>2 DEF KeyIsRepository
  <2>5. answer' = answer \/ answer'.kind # "listed"
        \/ \E root \in Roots, filter \in Filters :
              told.cwd \in Cwds /\ answer' = List(told.cwd, told.session, root, filter)
    BY AnswerSteps DEF NoAnswer
  <2>6. KeyIsRepository'
    BY <2>2, <2>3, <2>4, <2>5
  <2> QED  BY <2>1, <2>6, OutsideStays
<1> QED  BY <1>1, <1>2, CallInvariance, PTL DEF Spec

\* The repository of a child that is named by repo_root, with or without a dot
\* before it.
LEMMA ChildRepository ==
    ASSUME tree \in Trees, NEW cwd \in Cwds, NEW n \in Range(NameOrder),
           NEW root \in {Rel(<<n>>), Rel(<<Here, n>>)},
           HasDirectory(Append(Resolved(cwd), n))
    PROVE  /\ ResolveRepo(cwd, root).ok <=> InRepo(Append(cwd, n))
           /\ InRepo(Append(cwd, n)) =>
                 ResolveRepo(cwd, root).key = RepositoryOf(Append(cwd, n))
<1> DEFINE child == Append(Resolved(cwd), n)
           dir == TargetDir(cwd, root)
<1>1. IsFileSystem(tree) /\ cwd \in Path
  BY HostAssumption
<1>2. Resolved(Append(cwd, n)) = child /\ Resolved(child) = child /\ dir = child
  BY <1>1, ChildTarget
<1>3. child \in Place /\ LinksStayOutside(child)
  BY <1>1, DirectoryIsPlain DEF HasDirectory
<1> HIDE DEF child, dir
<1>4. /\ InRepo(dir) <=> InRepo(Append(cwd, n))
      /\ RepositoryOf(dir) = RepositoryOf(Append(cwd, n))
  BY <1>2, InRepoByResolved
<1>5. InRepo(dir) => Key(dir) = RepositoryOf(dir)
  BY <1>1, <1>2, <1>3, KeyOfPlain
<1>6. /\ ResolveRepo(cwd, root).ok <=> InRepo(dir)
      /\ InRepo(dir) => ResolveRepo(cwd, root).key = Key(dir)
  BY DEF ResolveRepo, dir
<1> QED  BY <1>4, <1>5, <1>6

\* A directory's child of that name has a repository.
ChildInRepo(cwd, n) ==
    /\ n \in Range(NameOrder)
    /\ HasDirectory(Append(Resolved(cwd), n))
    /\ InRepo(Append(cwd, n))

\* What an error names are such children of the directory that the call was
\* made in.
HintsInv ==
    answer.kind = "refused" =>
        answer.cwd \in Cwds /\ \A n \in Range(answer.hints) : ChildInRepo(answer.cwd, n)

\* Which is a matter of the file system.
LEMMA ChildrenStay ==
    ASSUME UNCHANGED tree
    PROVE  \A cwd, n : ChildInRepo(cwd, n)' <=> ChildInRepo(cwd, n)
<1>1. \A p : Resolved(p)' = Resolved(p)
  BY ResolvedStays
<1>2. \A p : InRepo(p)' <=> InRepo(p)
  BY InRepoStays
<1> QED  BY <1>1, <1>2 DEF ChildInRepo, HasDirectory

\* A list call names such children.
LEMMA ListHints ==
    ASSUME CallInv, NEW root, NEW filter, told.cwd \in Cwds,
           answer' = List(told.cwd, told.session, root, filter), tree' = tree
    PROVE  HintsInv'
<1>1. /\ answer'.cwd = told.cwd
      /\ answer'.kind = "refused" =>
            answer'.hints = IF root.kind = "none"
                            THEN AtMost(MaxRepoHints, NearbyRepos(told.cwd)) ELSE <<>>
  BY ListAnswers
<1>2. /\ NearbyRepos(told.cwd) \in Seq(Range(NameOrder))
      /\ \A n \in Range(NearbyRepos(told.cwd)) : ChildInRepo(told.cwd, n)
  BY NearbyRange, HostAssumption DEF ChildInRepo
<1>3. Range(AtMost(MaxRepoHints, NearbyRepos(told.cwd))) \subseteq Range(NearbyRepos(told.cwd))
  BY <1>2, AtMostRange, HostAssumption
<1>4. Range(<<>>) = {}
  BY DEF Range
<1>5. answer'.kind = "refused" => Range(answer'.hints) \subseteq Range(NearbyRepos(told.cwd))
  BY <1>1, <1>3, <1>4
<1>6. \A cwd, n : ChildInRepo(cwd, n)' <=> ChildInRepo(cwd, n)
  BY ChildrenStay
<1>7. ASSUME answer'.kind = "refused" PROVE \A n \in Range(answer'.hints) : ChildInRepo(answer'.cwd, n)
  BY <1>1, <1>2, <1>5, <1>7
<1> QED  BY <1>1, <1>6, <1>7 DEF HintsInv

\* It holds always.
LEMMA HintsInvariance == Spec => []HintsInv
<1>1. Init => HintsInv
  BY DEF Init, HintsInv, NoAnswer
<1>2. CallInv /\ HintsInv /\ [Next]_vars => HintsInv'
  <2> SUFFICES ASSUME CallInv, HintsInv, [Next]_vars PROVE HintsInv'
    OBVIOUS
  <2>1. tree' = tree
    BY AnswerSteps
  <2>2. \A cwd, n : ChildInRepo(cwd, n)' <=> ChildInRepo(cwd, n)
    BY <2>1, ChildrenStay
  <2>3. ASSUME answer' = answer PROVE HintsInv'
    BY <2>2, <2>3 DEF HintsInv
  <2>4. ASSUME answer'.kind # "refused" PROVE HintsInv'
    BY <2>4 DEF HintsInv
  <2>5. ASSUME NEW root \in Roots, NEW filter \in Filters, told.cwd \in Cwds,
               answer' = List(told.cwd, told.session, root, filter)
        PROVE  HintsInv'
    BY <2>1, <2>5, ListHints
  <2>6. answer' = answer \/ answer'.kind # "refused"
        \/ \E root \in Roots, filter \in Filters :
              told.cwd \in Cwds /\ answer' = List(told.cwd, told.session, root, filter)
    BY AnswerSteps DEF NoAnswer
  <2> QED  BY <2>3, <2>4, <2>5, <2>6
<1> QED  BY <1>1, <1>2, CallInvariance, PTL DEF Spec

\* What an error names can be used as it says, in every file system and with
\* every bound on how much is probed and named: each name given as repo_root
\* leads to that child and to the registry of its repository.
THEOREM HintsCanBeUsed == Spec => []HintsResolve
<1>1. CallInv /\ HintsInv => HintsResolve
  <2> SUFFICES ASSUME CallInv, HintsInv, answer.kind = "refused",
                      NEW n \in Range(answer.hints)
               PROVE  LET found == ResolveRepo(answer.cwd, Rel(<<Here, n>>)) IN
                      found.ok /\ found.key = RepositoryOf(Append(answer.cwd, n))
    BY DEF HintsResolve
  <2>1. /\ tree \in Trees /\ answer.cwd \in Cwds /\ n \in Range(NameOrder)
        /\ HasDirectory(Append(Resolved(answer.cwd), n))
        /\ InRepo(Append(answer.cwd, n))
    BY DEF CallInv, HintsInv, ChildInRepo
  <2> QED  BY <2>1, ChildRepository
<1> QED  BY <1>1, CallInvariance, HintsInvariance, PTL

\* A call from a directory finds a repository exactly when the probe finds one
\* there, if the scan is not cut short.
LEMMA ServesAsProbed ==
    ASSUME tree \in Trees, NEW cwd \in Cwds, Len(Candidates(cwd)) <= MaxRepoProbe
    PROVE  Serves(cwd) <=> GitAvailable(cwd)
<1>1. IsFileSystem(tree) /\ cwd \in Path /\ cwd # NoCwd /\ MaxRepoProbe \in Nat
  BY HostAssumption
<1>2. ResolveRepo(cwd, NoRoot).ok <=> InRepo(cwd)
  BY DEF ResolveRepo, TargetDir, NoRoot
<1>3. Serves(cwd) <=> InRepo(cwd) \/ \E n \in Range(NameOrder) : ChildInRepo(cwd, n)
  <2>1. \A n \in Range(NameOrder) :
           HasDirectory(Append(Resolved(cwd), n)) /\ ResolveRepo(cwd, Rel(<<n>>)).ok
           <=> ChildInRepo(cwd, n)
    BY ChildRepository DEF ChildInRepo
  <2>2. Range(NameOrder) = {NameOrder[i] : i \in DOMAIN NameOrder}
    BY DEF Range
  <2> QED  BY <1>1, <1>2, <2>1, <2>2 DEF Serves
<1>4. /\ NearbyRepos(cwd) \in Seq(Range(NameOrder))
      /\ \A n : n \in Range(NearbyRepos(cwd))
                <=> ChildInRepo(cwd, n) /\ HasDotGit(Append(Resolved(cwd), n))
  BY <1>1, NearbyRange DEF ChildInRepo
<1>5. NearbyRepos(cwd) # <<>> <=> \E n : n \in Range(NearbyRepos(cwd))
  <2> DEFINE found == NearbyRepos(cwd)
  <2>1. found \in Seq(Range(NameOrder)) /\ Range(found) = {found[i] : i \in 1..Len(found)}
    BY <1>4 DEF Range
  <2> HIDE DEF found
  <2>2. found # <<>> => found[1] \in Range(found)
    BY <2>1
  <2>3. found = <<>> => Range(found) = {}
    BY <2>1
  <2> QED  BY <2>2, <2>3 DEF found
<1>6. ASSUME ~InRepo(cwd), NEW n, ChildInRepo(cwd, n)
      PROVE  HasDotGit(Append(Resolved(cwd), n))
  BY <1>1, <1>6, ChildRootIsSeen DEF ChildInRepo
<1>7. \A n : ChildInRepo(cwd, n) => n \in Range(NameOrder)
  BY DEF ChildInRepo
<1> QED  BY <1>3, <1>4, <1>5, <1>6, <1>7 DEF GitAvailable

\* In a session, the extension is quiet exactly when no call from where it was
\* entered finds a repository: ShownIsProbed, where what is probed is what calls
\* find, in every file system, with every cap on the scan that does not cut it
\* short.
THEOREM QuietIsUseless == Spec => []QuietIffUseless
<1>1. PinInv /\ QuietInv /\ CallInv /\ QuietAsProbed => QuietIffUseless
  <2> SUFFICES ASSUME PinInv, QuietInv, CallInv, QuietAsProbed,
                      Quiet, waits, told.session # NoSession,
                      host.home # NoCwd => Len(Candidates(host.home)) <= MaxRepoProbe
               PROVE  /\ policy = (proto < 3 \/ Serves(host.home))
                      /\ tools = (proto < 4 \/ Serves(host.home))
    BY DEF QuietIffUseless
  <2>1. host.home \in Cwds \cup {NoCwd}
    BY DEF PinInv, EventTypes, Directory
  <2>2. Serves(host.home) <=> host.home \in Available
    <3>1. CASE host.home = NoCwd
      BY <3>1, HostAssumption DEF Serves, Available
    <3>2. CASE host.home \in Cwds
      BY <3>2, ServesAsProbed, HostAssumption DEF CallInv, Available
    <3> QED  BY <2>1, <3>1, <3>2
  <2>3. policy \in BOOLEAN /\ tools \in BOOLEAN
    BY DEF QuietInv, ShownByProtocol
  <2>4. /\ policy <=> (proto < 3 \/ host.home \in Available)
        /\ tools <=> (proto < 4 \/ host.home \in Available)
    BY DEF QuietAsProbed
  <2> QED  BY <2>2, <2>3, <2>4
<1> QED  BY <1>1, PinInvariance, QuietInvariance, CallInvariance, ShownIsProbed, PTL

\* a lists the repository of a main checkout.
Lists(a, main, cwd, session, filter) ==
    LET key == Append(main, GitDir) IN
    /\ a.cwd = cwd /\ a.key = key /\ a.filter = filter
    /\ a.rows = {row \in RowsOf(key, key, session) : Matches(filter, row)}
    /\ a.here = CwdWorktree(cwd, RowsOf(key, key, session))

\* The registries once that of a key has lost the entries git does not list.
Saved(key) ==
    LET known == Known(key, ParsePorcelain(Porcelain(key)))
    IN [entries EXCEPT ![key] = [n \in known |-> @[n]]]

\* What is listed does, and its registry is the one that is saved.
LEMMA ListedRepository ==
    ASSUME CallInv, CwdsAreOutside, NEW cwd \in Cwds, NEW session, NEW root \in Roots, NEW filter,
           List(cwd, session, root, filter).kind = "listed"
    PROVE  \E main \in tree.repos :
              /\ Lists(List(cwd, session, root, filter), main, cwd, session, filter)
              /\ Reconciled(cwd, root) = Saved(Append(main, GitDir))
<1> DEFINE a == List(cwd, session, root, filter)
           dir == TargetDir(cwd, root)
           top == TopLevel(dir)
           main == IF top \in DOMAIN tree.linked THEN tree.linked[top] ELSE top
           rows == RowsOf(Key(dir), RepositoryOf(dir), session)
<1>1. /\ InRepo(dir) /\ a.cwd = cwd /\ a.key = Key(dir) /\ a.filter = filter
      /\ a.rows = {row \in rows : Matches(filter, row)} /\ a.here = CwdWorktree(cwd, rows)
  BY ListAnswers
<1>2. IsFileSystem(tree) /\ dir \in Place /\ Key(dir) = RepositoryOf(dir)
  BY <1>1, TargetIsPlain, HostAssumption DEF CallInv
<1>3. RepositoryOf(dir) = Append(main, GitDir)
  BY DEF RepositoryOf
<1>4. main \in tree.repos
  <2>1. RootsAbove(dir) # {}
    BY <1>1 DEF InRepo
  <2>2. top \in RootsAbove(dir)
    <3> HIDE DEF dir
    <3> QED  BY <1>2, <2>1, TopLevelIs
  <2> QED  BY <1>2, <2>2 DEF RootsAbove, IsFileSystem
<1>5. LET known == Known(Key(dir), Worktrees(dir))
      IN Reconciled(cwd, root) = [entries EXCEPT ![Key(dir)] = [n \in known |-> @[n]]]
  <2> DEFINE repo == ResolveRepo(cwd, root)
  <2>1. repo.ok /\ repo.dir = dir /\ repo.key = Key(dir)
    BY <1>1 DEF ResolveRepo
  <2> HIDE DEF repo, dir
  <2> QED  BY <2>1 DEF Reconciled, repo
<1> HIDE DEF a, dir, main
<1> QED  BY <1>1, <1>2, <1>3, <1>4, <1>5 DEF a, Lists, Saved, Worktrees

\* Where paths lead, and the worktrees of a key, are matters of the file system.
LEMMA ListingStays ==
    ASSUME UNCHANGED tree
    PROVE  /\ \A p : CanonPath(p)' = CanonPath(p)
           /\ \A k : WorktreesOf(k)' = WorktreesOf(k)
           /\ \A p : InRepo(p)' <=> InRepo(p)
           /\ \A p : TopLevel(p)' = TopLevel(p)
<1>1. \A p : Resolved(p)' = Resolved(p)
  BY ResolvedStays
<1>2. \A p : CanonPath(p)' = CanonPath(p)
  BY <1>1 DEF CanonPath, Exists, HasDirectory
<1>3. \A k : WorktreesDir(k)' = WorktreesDir(k)
  BY DEF WorktreesDir
<1>4. \A k : WorktreesOf(k)' = WorktreesOf(k)
  BY <1>1, <1>3 DEF WorktreesOf, HasDirectory
<1>5. \A p : InRepo(p)' <=> InRepo(p)
  BY InRepoStays
<1>6. \A p : RootsAbove(p)' = RootsAbove(p)
  BY <1>1 DEF RootsAbove
<1>7. \A p : TopLevel(p)' = TopLevel(p)
  BY <1>6 DEF TopLevel
<1> QED  BY <1>2, <1>4, <1>5, <1>7

\* And so are the hypotheses about it.
LEMMA OwnDirectoryStays ==
    ASSUME UNCHANGED tree
    PROVE  /\ RootsAreReal => RootsAreReal'
           /\ NoLinkAmongWorktrees => NoLinkAmongWorktrees'
           /\ OnlyWorktrees => OnlyWorktrees'
<1>1. \A p : Resolved(p)' = Resolved(p)
  BY ResolvedStays
<1>2. \A k : WorktreesDir(k)' = WorktreesDir(k)
  BY DEF WorktreesDir
<1>3. \A m : DirectoryOf(m)' = DirectoryOf(m)
  BY <1>1, <1>2 DEF DirectoryOf
<1> QED  BY <1>1, <1>3 DEF RootsAreReal, NoLinkAmongWorktrees, OnlyWorktrees

\* The worktrees that a call can find are linked to the main checkout.
LEMMA WorktreesAreLinked ==
    ASSUME tree \in Trees, NEW main \in tree.repos, NEW r
    PROVE  r \in WorktreesOf(Append(main, GitDir)) <=>
           /\ r \in DOMAIN tree.linked \cap tree.dirs /\ tree.linked[r] = main
           /\ Front(r) = DirectoryOf(main)
<1>1. main \in Path /\ \A s \in DOMAIN tree.linked : tree.linked[s] \in Path
  BY HostAssumption DEF IsFileSystem
<1>2. \A p \in Path, q \in Path : Append(p, GitDir) = Append(q, GitDir) => p = q
  <2> TAKE p \in Path, q \in Path
  <2>1. Front(Append(p, GitDir)) = p /\ Front(Append(q, GitDir)) = q
    BY DEF Path, Front
  <2> QED  BY <2>1
<1> QED  BY <1>1, <1>2 DEF WorktreesOf, DirectoryOf, HasDirectory

\* A list without a filter has one row for each worktree that is there, managed
\* exactly if there is an entry for it: for every file system in which git knows
\* the worktrees by their directories' own paths and no link was put among them,
\* whatever links lead to the data directory, for every registry, and with the
\* directories of other worktrees gone or made elsewhere by hand.
THEOREM RowsAreWorktrees ==
    Spec /\ CwdsAreOutside /\ RootsAreReal /\ NoLinkAmongWorktrees => []RowPerWorktree
<1>1. Init => RowPerWorktree
  <2>1. Init => answer.kind # "listed"
    BY DEF Init, NoAnswer
  <2> QED  BY <2>1 DEF RowPerWorktree
<1> DEFINE Given == CwdsAreOutside /\ RootsAreReal /\ NoLinkAmongWorktrees
<1>2. CallInv /\ Given /\ RowPerWorktree /\ [Next]_vars => Given' /\ RowPerWorktree'
  <2> SUFFICES ASSUME CallInv, Given, RowPerWorktree, [Next]_vars PROVE Given' /\ RowPerWorktree'
    OBVIOUS
  <2>1. tree' = tree
    BY AnswerSteps
  <2>2. Given'
    BY <2>1, OutsideStays, OwnDirectoryStays
  <2>3. /\ \A p : CanonPath(p)' = CanonPath(p)
        /\ \A k : WorktreesOf(k)' = WorktreesOf(k)
    BY <2>1, ListingStays
  <2>4. ASSUME answer' = answer, entries' = entries PROVE RowPerWorktree'
    <3>1. \A k : EntriesOf(k)' = EntriesOf(k)
      BY <2>4 DEF EntriesOf
    <3> QED  BY <2>3, <2>4, <3>1 DEF RowPerWorktree
  <2>5. ASSUME answer'.kind # "listed" PROVE RowPerWorktree'
    BY <2>5 DEF RowPerWorktree
  <2>6. ASSUME NEW root \in Roots, NEW filter \in Filters, told.cwd \in Cwds,
               answer' = List(told.cwd, told.session, root, filter), answer'.kind = "listed",
               entries' \in {entries, Reconciled(told.cwd, root)}
        PROVE  RowPerWorktree'
    <3>1. PICK main \in tree.repos :
             /\ Lists(answer', main, told.cwd, told.session, filter)
             /\ Reconciled(told.cwd, root) = Saved(Append(main, GitDir))
      BY <2>6, ListedRepository
    <3> DEFINE key == Append(main, GitDir)
               known == Known(key, ParsePorcelain(Porcelain(key)))
    <3>2. ASSUME answer'.filter = [status |-> "", mine |-> FALSE]
          PROVE  answer'.rows = RowsOf(key, key, told.session)
      <4>1. filter = [status |-> "", mine |-> FALSE]
        <5>1. answer'.filter = filter
          BY <3>1 DEF Lists
        <5> QED  BY <3>2, <5>1
      <4>2. \A row : Matches(filter, row)
        BY <4>1 DEF Matches
      <4>3. answer'.rows = {row \in RowsOf(key, key, told.session) : Matches(filter, row)}
        BY <3>1 DEF Lists
      <4> HIDE DEF key
      <4> QED  BY <4>2, <4>3
    <3>3. ASSUME NEW r \in WorktreesOf(key)
          PROVE  \E row : /\ {a \in RowsOf(key, key, told.session) : CanonPath(a.path) = r} = {row}
                          /\ row.name = Last(r)
                          /\ row.unmanaged <=> Last(r) \notin DOMAIN EntriesOf(key)'
      <4>1. /\ r \in DOMAIN tree.linked \cap tree.dirs /\ tree.linked[r] = main
            /\ Front(r) = DirectoryOf(main)
        BY <3>3, WorktreesAreLinked DEF CallInv
      <4>2. Last(r) \in known <=> Last(r) \in DOMAIN EntriesOf(key)
        BY <4>1, EntryIsKnown, HostAssumption DEF CallInv
      <4>3. Last(r) \in DOMAIN EntriesOf(key)' <=> Last(r) \in DOMAIN EntriesOf(key)
        <5>1. CASE entries' = entries
          BY <5>1 DEF EntriesOf
        <5>2. CASE entries' = Saved(key)
          <6>0. Saved(key) = [entries EXCEPT ![key] = [n \in known |-> @[n]]]
            BY DEF Saved
          <6> HIDE DEF key, known
          <6>1. DOMAIN entries' = DOMAIN entries
            BY <5>2, <6>0
          <6>2. key \in DOMAIN entries => DOMAIN EntriesOf(key)' = known
            BY <5>2, <6>0, <6>1 DEF EntriesOf
          <6>3. key \notin DOMAIN entries => EntriesOf(key)' = EntriesOf(key)
            BY <6>1 DEF EntriesOf
          <6> QED  BY <4>2, <6>2, <6>3
        <5> QED  BY <2>6, <3>1, <5>1, <5>2
      <4>4. PICK row : /\ {a \in RowsOf(key, key, told.session) : CanonPath(a.path) = r} = {row}
                       /\ row.name = Last(r)
                       /\ row.unmanaged <=> Last(r) \notin DOMAIN EntriesOf(key)
        BY <4>1, OneRow, HostAssumption DEF CallInv
      <4> QED  BY <4>3, <4>4
    <3>4. ASSUME answer'.filter = [status |-> "", mine |-> FALSE], NEW r \in WorktreesOf(key)
          PROVE  LET rows == {row \in answer'.rows : CanonPath(row.path) = r} IN
                 /\ Cardinality(rows) = 1
                 /\ \A row \in rows :
                       /\ row.name = Last(r)
                       /\ row.unmanaged <=> Last(r) \notin DOMAIN EntriesOf(key)'
      <4>1. PICK row : /\ {a \in RowsOf(key, key, told.session) : CanonPath(a.path) = r} = {row}
                       /\ row.name = Last(r)
                       /\ row.unmanaged <=> Last(r) \notin DOMAIN EntriesOf(key)'
        BY <3>3, <3>4
      <4>2. {a \in answer'.rows : CanonPath(a.path) = r} = {row}
        BY <3>2, <3>4, <4>1
      <4>3. Cardinality({row}) = 1
        BY FS_Singleton
      <4> QED  BY <4>1, <4>2, <4>3
    <3>5. answer'.key = key
      BY <3>1 DEF Lists
    <3> HIDE DEF key, known
    <3> QED  BY <2>3, <3>4, <3>5 DEF RowPerWorktree
  <2>7. (answer' = answer /\ entries' = entries) \/ answer'.kind # "listed"
        \/ \E root \in Roots, filter \in Filters :
              /\ told.cwd \in Cwds /\ answer' = List(told.cwd, told.session, root, filter)
              /\ entries' \in {entries, Reconciled(told.cwd, root)}
    BY AnswerSteps DEF NoAnswer
  <2> QED  BY <2>2, <2>4, <2>5, <2>6, <2>7
<1> QED  BY <1>1, <1>2, CallInvariance, PTL DEF Spec

\* A call from inside a worktree of the repository that it is about is told so,
\* and no other is, whatever the filter keeps: where the worktrees directory has
\* in it only worktrees that are directly in it, too.
THEOREM CwdsAreTold ==
    Spec /\ CwdsAreOutside /\ RootsAreReal /\ NoLinkAmongWorktrees /\ OnlyWorktrees
        => []CwdWorktreeTold
<1>1. Init => CwdWorktreeTold
  <2>1. Init => answer.kind # "listed"
    BY DEF Init, NoAnswer
  <2> QED  BY <2>1 DEF CwdWorktreeTold
<1> DEFINE Given == CwdsAreOutside /\ RootsAreReal /\ NoLinkAmongWorktrees /\ OnlyWorktrees
<1>2. CallInv /\ Given /\ CwdWorktreeTold /\ [Next]_vars => Given' /\ CwdWorktreeTold'
  <2> SUFFICES ASSUME CallInv, Given, CwdWorktreeTold, [Next]_vars PROVE Given' /\ CwdWorktreeTold'
    OBVIOUS
  <2>1. tree' = tree
    BY AnswerSteps
  <2>2. Given'
    BY <2>1, OutsideStays, OwnDirectoryStays
  <2>3. /\ \A k : WorktreesOf(k)' = WorktreesOf(k)
        /\ \A p : InRepo(p)' <=> InRepo(p)
        /\ \A p : TopLevel(p)' = TopLevel(p)
    BY <2>1, ListingStays
  <2>4. ASSUME answer' = answer PROVE CwdWorktreeTold'
    BY <2>3, <2>4 DEF CwdWorktreeTold
  <2>5. ASSUME answer'.kind # "listed" PROVE CwdWorktreeTold'
    BY <2>5 DEF CwdWorktreeTold
  <2>6. ASSUME NEW root \in Roots, NEW filter \in Filters, told.cwd \in Cwds,
               answer' = List(told.cwd, told.session, root, filter), answer'.kind = "listed"
        PROVE  CwdWorktreeTold'
    <3>1. PICK main \in tree.repos : Lists(answer', main, told.cwd, told.session, filter)
      BY <2>6, ListedRepository
    <3> DEFINE key == Append(main, GitDir)
               cwd == told.cwd
               top == TopLevel(cwd)
               rows == RowsOf(key, key, told.session)
               here == {r \in rows : InRepo(cwd) /\ CanonPath(r.path) = CanonPath(top)}
    <3>2. answer'.cwd = cwd /\ answer'.key = key /\ answer'.here = CwdWorktree(cwd, rows)
      BY <3>1 DEF Lists
    <3>3. ASSUME InRepo(cwd)
          PROVE  answer'.here = IF top \in WorktreesOf(key) THEN Last(top) ELSE Nil
      <4>1. IsFileSystem(tree) /\ cwd \in Place
        BY <2>6, HostAssumption, PathsAreTyped DEF CallInv
      <4>2. top \in tree.dirs
        BY <3>3, <4>1, TopLevelIs DEF InRepo
      <4>3. CanonPath(top) = top
        BY <4>1, <4>2, ResolvedOfDirectory, RootIsCanonical DEF IsFileSystem
      <4>4. here = {r \in rows : CanonPath(r.path) = top}
        BY <3>3, <4>3
      <4>5. top \in WorktreesOf(key) <=>
               /\ top \in DOMAIN tree.linked \cap tree.dirs /\ tree.linked[top] = main
               /\ Front(top) = DirectoryOf(main)
        BY WorktreesAreLinked DEF CallInv
      <4>6. answer'.here = IF here = {} THEN Nil ELSE (CHOOSE r \in here : TRUE).name
        BY <3>2 DEF CwdWorktree
      <4>7. CASE top \in WorktreesOf(key)
        <5>1. PICK row : /\ {a \in rows : CanonPath(a.path) = top} = {row}
                         /\ row.name = Last(top)
          BY <4>1, <4>5, <4>7, OneRow
        <5> HIDE DEF rows, here, top
        <5>2. here = {row} /\ (CHOOSE r \in here : TRUE) = row
          BY <4>4, <5>1
        <5> QED  BY <4>6, <4>7, <5>1, <5>2
      <4>8. CASE top \notin WorktreesOf(key)
        <5>1. \A row \in rows : CanonPath(row.path) # top
          BY <4>1, <4>2, <4>5, <4>8, RowsAreOfWorktrees
        <5> HIDE DEF rows, here, top
        <5> QED  BY <4>4, <4>6, <4>8, <5>1
      <4> QED  BY <4>7, <4>8
    <3> HIDE DEF key, cwd, rows
    <3> QED  BY <2>3, <3>2, <3>3 DEF CwdWorktreeTold
  <2>7. answer' = answer \/ answer'.kind # "listed"
        \/ \E root \in Roots, filter \in Filters :
              told.cwd \in Cwds /\ answer' = List(told.cwd, told.session, root, filter)
    BY AnswerSteps DEF NoAnswer
  <2> QED  BY <2>2, <2>4, <2>5, <2>6, <2>7
<1> QED  BY <1>1, <1>2, CallInvariance, PTL DEF Spec
============================================================================
