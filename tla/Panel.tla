------------------------------- MODULE Panel -------------------------------
(***************************************************************************)
(* The /worktree panel of src/app.go: what the application keeps of it     *)
(* (panelOpen, mode, selected, last), what the host shows, and the         *)
(* handlers that refresh it: a command, a key, a session start and the     *)
(* end of each tool call, which may all run at once.  Each section under   *)
(* app.mu is a step, and so is each call of the manager and of the host.   *)
(*                                                                         *)
(* Between two fetches other processes, the user and git may have changed  *)
(* any worktree, so each fetch brings any listing; WorktreeManager is      *)
(* about who changes what.  lastCollect is written and never read, and is  *)
(* left out with the texts.                                                *)
(***************************************************************************)
EXTENDS Integers, SequencesExt

CONSTANTS
    Worktree,   \* names, in their sort order
    Handler,    \* handlers that may run at once
    UI,         \* the one that serves the user: /worktree, keys and close
    Nil,
    MayFail     \* whether List and Collect may fail

ASSUME PanelAssumption ==
    /\ Worktree \subseteq Int /\ IsFiniteSet(Worktree)
    /\ Nil \notin Seq(Worktree)
    /\ UI \in Handler
    /\ MayFail \in BOOLEAN

VARIABLES
    panelOpen, mode, selected, last,    \* the fields of app
    shown,      \* what the host's panel shows, Nil when it is not open
    went,       \* where the last Enter asked the host to go
    reply,      \* what the last /worktree command answered, Nil before it does
    pc,         \* where each handler is,
    task,       \* "open" for the command, "refresh" for the rest,
    want,       \* the mode it read,
    view,       \* what it is about to show,
    picture     \* history: what the way the panel was drawn says of it

appVars  == <<panelOpen, mode, selected, last>>
hostVars == <<shown, went, reply>>
frameVars == <<task, want, view>>
vars == <<appVars, hostVars, pc, frameVars, picture>>

Kind == {"list", "collect"}
View == [kind : Kind, rows : Seq(Worktree), sel : Nat]
NoView == [kind |-> "list", rows |-> <<>>, sel |-> 0]

\* Nil is no view: a panel that shows nothing is not an open one.
ASSUME NilAssumption == Nil \notin View

\* List's rows: the managed worktrees by name, then the unmanaged ones in the
\* order of a map iteration, which is any.  Collect's are the managed ones.
Listings == {rows \in SeqOf(Worktree, Cardinality(Worktree)) : IsInjective(rows)}
Collected == {rows \in Listings : \A i, j \in 1..Len(rows) : i < j => rows[i] < rows[j]}

Init ==
    /\ panelOpen = FALSE
    /\ mode = "list"
    /\ selected = 0
    /\ last = Nil
    /\ shown = Nil
    /\ went = Nil
    /\ reply = Nil
    /\ picture = "stale"
    /\ pc = [h \in Handler |-> "idle"]
    /\ task = [h \in Handler |-> "refresh"]
    /\ want = [h \in Handler |-> "list"]
    /\ view = [h \in Handler |-> NoView]

----------------------------------------------------------------------------
(* Fetching and showing.                                                   *)

Goto(h, label) == pc' = [pc EXCEPT ![h] = label]

Idle == \A h \in Handler : pc[h] = "idle"

\* A handler begins.  The picture is "crowded" from the moment that two are at
\* work until one begins by itself again, and is no better then than "stale".
Begin(h, label) ==
    /\ pc[h] = "idle"
    /\ Goto(h, label)
    /\ picture' = IF ~Idle THEN "crowded"
                  ELSE IF picture = "crowded" THEN "stale"
                  ELSE picture

\* A fetch that fails leaves a stale picture, and a handler that shows its view
\* makes a fresh one, if it has been alone.
Drawn(p) == picture' = IF picture = "crowded" THEN "crowded" ELSE p

\* A handler returns, and its frame is gone.
Finish(h) ==
    /\ Goto(h, "idle")
    /\ task' = [task EXCEPT ![h] = "refresh"]
    /\ want' = [want EXCEPT ![h] = "list"]
    /\ view' = [view EXCEPT ![h] = NoView]

\* snapshot's first section.
ReadMode(h) ==
    /\ pc[h] = "snapshot"
    /\ want' = [want EXCEPT ![h] = mode]
    /\ Goto(h, "fetch")
    /\ UNCHANGED <<appVars, hostVars, task, view, picture>>

\* Manager.List or Manager.Collect.
Fetch(h) ==
    /\ pc[h] = "fetch"
    /\ \E rows \in (IF want[h] = "collect" THEN Collected ELSE Listings) :
          view' = [view EXCEPT ![h] = [kind |-> want[h], rows |-> rows, sel |-> 0]]
    /\ Goto(h, "store")
    /\ UNCHANGED <<appVars, hostVars, task, want, picture>>

\* It fails: a refresh gives up, the command answers with an error and the
\* host opens no panel.
FetchFails(h) ==
    /\ MayFail
    /\ pc[h] = "fetch"
    /\ reply' = IF task[h] = "open" THEN "error" ELSE reply
    /\ Finish(h) /\ Drawn("stale")
    /\ UNCHANGED <<appVars, shown, went>>

\* Mutant: the second of the two checks is missing.
NotRaised(rows) == IF selected >= Len(rows) THEN Len(rows) - 1 ELSE selected

Clamped(rows) ==
    IF selected < Len(rows) THEN selected
    ELSE IF Len(rows) = 0 THEN 0
    ELSE Len(rows) - 1

\* snapshot's last section.
Store(h) ==
    LET rows == view[h].rows IN
    /\ pc[h] = "store"
    /\ IF want[h] = "collect"
       THEN UNCHANGED <<last, selected, view>>
       ELSE /\ last' = rows
            /\ selected' = Clamped(rows)
            /\ view' = [view EXCEPT ![h].sel = Clamped(rows)]
    /\ Goto(h, IF task[h] = "open" THEN "open" ELSE "check")
    /\ UNCHANGED <<panelOpen, mode, hostVars, task, want, picture>>

\* The command's response opens the host's panel.
OpenPanel(h) ==
    /\ pc[h] = "open"
    /\ shown' = view[h]
    /\ reply' = "panel"
    /\ Finish(h) /\ Drawn("fresh")
    /\ UNCHANGED <<appVars, went>>

CheckOpen(h) ==
    /\ pc[h] = "check"
    /\ IF panelOpen THEN Goto(h, "render") /\ UNCHANGED frameVars ELSE Finish(h)
    /\ UNCHANGED <<appVars, hostVars, picture>>

\* RenderPanel: the host drops it when the panel is not open.
RenderPanel(h) ==
    /\ pc[h] = "render"
    /\ shown' = IF shown = Nil THEN Nil ELSE view[h]
    /\ Finish(h) /\ Drawn("fresh")
    /\ UNCHANGED <<appVars, went, reply>>

\* render: redraws from last, in list mode only.
Redraw(h) ==
    /\ pc[h] = "redraw"
    /\ IF ~panelOpen \/ mode = "collect" \/ last = Nil
       THEN Finish(h)
       ELSE /\ view' = [view EXCEPT ![h] = [kind |-> "list", rows |-> last, sel |-> selected]]
            /\ Goto(h, "render")
            /\ UNCHANGED <<task, want>>
    /\ UNCHANGED <<appVars, hostVars, picture>>

----------------------------------------------------------------------------
(* What sets a handler off.                                                *)

Start(h, t) ==
    /\ Begin(h, "snapshot")
    /\ task' = [task EXCEPT ![h] = t]
    /\ UNCHANGED <<selected, last, shown, went, want, view>>

\* /worktree and /worktree collect.
Command(h, m) ==
    /\ panelOpen' = TRUE
    /\ mode' = m
    /\ reply' = Nil
    /\ Start(h, "open")

\* The end of a tool call; it refreshes whether or not the panel is open.
ToolDone(h) == Start(h, "refresh") /\ UNCHANGED <<panelOpen, mode, reply>>

SessionStart(h) ==
    /\ panelOpen
    /\ Start(h, "refresh")
    /\ UNCHANGED <<panelOpen, mode, reply>>

KeyUp(h) ==
    /\ shown # Nil
    /\ selected' = IF mode # "collect" /\ selected > 0 THEN selected - 1 ELSE selected
    /\ Begin(h, "redraw")
    /\ UNCHANGED <<panelOpen, mode, last, hostVars, frameVars>>

\* Mutant: the last row has the number of the rows.
NoRoomCheck == last # Nil /\ selected < Len(last)

RoomBelow == last # Nil /\ selected < Len(last) - 1

KeyDown(h) ==
    /\ shown # Nil
    /\ selected' = IF mode # "collect" /\ RoomBelow THEN selected + 1 ELSE selected
    /\ Begin(h, "redraw")
    /\ UNCHANGED <<panelOpen, mode, last, hostVars, frameVars>>

\* Mutant: Enter counts the rows from the end.
RowFromEnd == last[Len(last) - selected]

SelectedRow == last[selected + 1]

KeyEnter(h) ==
    /\ pc[h] = "idle" /\ shown # Nil
    /\ mode # "collect" /\ last # Nil /\ selected < Len(last)
    /\ went' = SelectedRow
    /\ UNCHANGED <<appVars, shown, reply, pc, frameVars, picture>>

\* Mutant: c and l redraw from last, as the arrows do, instead of fetching.
KeyModeRedraws(h, m) ==
    /\ shown # Nil
    /\ mode' = m
    /\ Begin(h, "redraw")
    /\ UNCHANGED <<panelOpen, selected, last, hostVars, frameVars>>

\* c and l.
KeyMode(h, m) ==
    /\ shown # Nil
    /\ mode' = m
    /\ UNCHANGED <<panelOpen, reply>>
    /\ Start(h, "refresh")

\* r.
KeyRefresh(h) == shown # Nil /\ ToolDone(h)

\* The host closes the panel, then calls handleClose.
Close(h) ==
    /\ shown # Nil
    /\ shown' = Nil
    /\ Begin(h, "close")
    /\ UNCHANGED <<appVars, went, reply, frameVars>>

\* Mutant: the application is not told of the close.
CloseUnheard(h) ==
    /\ pc[h] = "close"
    /\ Goto(h, "idle")
    /\ UNCHANGED <<appVars, hostVars, frameVars, picture>>

HandleClose(h) ==
    /\ pc[h] = "close"
    /\ panelOpen' = FALSE
    /\ Goto(h, "idle")
    /\ UNCHANGED <<mode, selected, last, hostVars, frameVars, picture>>

Next ==
    \E h \in Handler :
        \/ ReadMode(h) \/ Fetch(h) \/ FetchFails(h) \/ Store(h)
        \/ OpenPanel(h) \/ CheckOpen(h) \/ RenderPanel(h) \/ Redraw(h)
        \/ ToolDone(h) \/ SessionStart(h)
        \/ /\ h = UI
           /\ \/ \E m \in Kind : Command(h, m) \/ KeyMode(h, m)
              \/ KeyUp(h) \/ KeyDown(h) \/ KeyEnter(h) \/ KeyRefresh(h)
              \/ Close(h) \/ HandleClose(h)

Spec == Init /\ [][Next]_vars

----------------------------------------------------------------------------
(* Properties.                                                             *)

PanelTypeOK ==
    /\ panelOpen \in BOOLEAN
    /\ mode \in Kind
    /\ selected \in Nat
    /\ last \in Seq(Worktree) \cup {Nil}
    /\ shown \in View \cup {Nil}
    /\ went \in Worktree \cup {Nil}
    /\ reply \in {"panel", "error", Nil}
    /\ picture \in {"fresh", "stale", "crowded"}
    /\ pc \in [Handler -> {"idle", "snapshot", "fetch", "store", "open", "check",
                           "render", "redraw", "close"}]
    /\ task \in [Handler -> {"open", "refresh"}]
    /\ want \in [Handler -> Kind]
    /\ view \in [Handler -> View]

\* The selection is a row of the last list whenever that has rows, and the
\* first place otherwise, however refreshes and keys interleave and however
\* the list shrinks between them.
SelectionInRange ==
    IF last = Nil \/ last = <<>> THEN selected = 0 ELSE selected < Len(last)

\* With nothing under way, a panel the host shows is one the application
\* refreshes, and the application takes the panel for open when the host shows
\* none only after a command that answered with an error.
PanelOpenAgrees ==
    Idle => /\ shown # Nil => panelOpen
            /\ panelOpen /\ shown = Nil => reply = "error"

\* What the panel shows is what the keys act on: the view of the current mode
\* and, in list mode, the last list with its selection.
ShowsTheKeys ==
    /\ shown.kind = mode
    /\ mode = "list" => shown.rows = last /\ shown.sel = selected

\* With nothing under way, the panel shows what the keys act on, since the last
\* handler that drew it by itself, until a fetch fails or two handlers are at
\* work at once: no key, refresh, mode or reopening breaks it.
ViewAgrees == Idle /\ shown # Nil /\ picture = "fresh" => ShowsTheKeys

\* Enter goes where the cursor the user sees is: the path sent with /cd is
\* the row highlighted in the panel.
FollowsCursor ==
    shown.kind = "list" /\ shown.sel < Len(shown.rows) /\ went' = shown.rows[shown.sel + 1]

\* It does in such a panel.
EnterFollowsFresh ==
    [][\A h \in Handler :
          KeyEnter(h) /\ Idle /\ picture = "fresh" => FollowsCursor]_vars

----------------------------------------------------------------------------
(* What a document of the code says, and the code does not.                *)

\* README: "Pressing Enter on a selected worktree switches the host into it",
\* said here of the row that the panel shows as the selected one.
EnterFollowsCursor == [][\A h \in Handler : KeyEnter(h) => FollowsCursor]_vars
============================================================================
