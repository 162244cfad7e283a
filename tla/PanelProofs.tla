---------------------------- MODULE PanelProofs ----------------------------
(***************************************************************************)
(* Proofs about the /worktree panel, for any handlers at once and fetches  *)
(* that may fail: its types and its selection, that it is refreshed while  *)
(* it is open, and that in a panel drawn by a handler that ran by itself   *)
(* the keys act on what the user sees.                                     *)
(***************************************************************************)
EXTENDS Panel, TLAPS

----------------------------------------------------------------------------
(* Listings.                                                               *)

\* What List and Collect give is a sequence of worktrees.
LEMMA Fetched ==
    ASSUME NEW rows \in Listings \cup Collected
    PROVE  rows \in Seq(Worktree)
<1>1. rows \in SeqOf(Worktree, Cardinality(Worktree))
  BY DEF Listings, Collected
<1> QED  BY <1>1 DEF SeqOf

\* A clamped selection is one of the rows, or the first place of none.
LEMMA ClampedInRange ==
    ASSUME NEW rows \in Seq(Worktree), selected \in Nat
    PROVE  /\ Clamped(rows) \in Nat
           /\ rows = <<>> => Clamped(rows) = 0
           /\ rows # <<>> => Clamped(rows) < Len(rows)
BY DEF Clamped

----------------------------------------------------------------------------
(* Types and the selection, for any handlers at once.                      *)

\* What one handler of the extension does in a step.
HandlerStep(h) ==
    \/ ReadMode(h) \/ Fetch(h) \/ FetchFails(h) \/ Store(h)
    \/ OpenPanel(h) \/ CheckOpen(h) \/ RenderPanel(h) \/ Redraw(h)
    \/ ToolDone(h) \/ SessionStart(h)

\* What the user sets off.
UserStep(h) ==
    /\ h = UI
    /\ \/ \E m \in Kind : Command(h, m) \/ KeyMode(h, m)
       \/ KeyUp(h) \/ KeyDown(h) \/ KeyEnter(h) \/ KeyRefresh(h)
       \/ Close(h) \/ HandleClose(h)

\* A step is a handler's or the user's.
LEMMA PanelCases ==
    ASSUME Next
    PROVE  \E h \in Handler : HandlerStep(h) \/ UserStep(h)
BY DEF Next, HandlerStep, UserStep

\* Each step keeps the types.
LEMMA StepTypes ==
    ASSUME PanelTypeOK, [Next]_vars
    PROVE  PanelTypeOK'
<1> USE PanelAssumption DEF PanelTypeOK
<1>1. CASE UNCHANGED vars
  BY <1>1 DEF vars, appVars, hostVars, frameVars
<1>2. CASE Next
  <2>1. PICK h \in Handler : HandlerStep(h) \/ UserStep(h)
    BY <1>2, PanelCases
  <2>2. NoView \in View
    BY DEF NoView, View, Kind
  <2>a. CASE ReadMode(h)
    BY <2>a DEF ReadMode, Goto, appVars, hostVars
  <2>b. CASE Fetch(h)
    <3>1. PICK rows \in Listings \cup Collected :
             view' = [view EXCEPT ![h] = [kind |-> want[h], rows |-> rows, sel |-> 0]]
      BY <2>b DEF Fetch
    <3>2. [kind |-> want[h], rows |-> rows, sel |-> 0] \in View
      BY Fetched, <3>1 DEF View
    <3> QED  BY <2>b, <3>1, <3>2 DEF Fetch, Goto, appVars, hostVars
  <2>c. CASE FetchFails(h)
    BY <2>c, <2>2 DEF FetchFails, Finish, Drawn, Goto, appVars, hostVars, Kind
  <2>d. CASE Store(h)
    <3>1. view[h] \in View /\ view[h].rows \in Seq(Worktree)
      BY DEF View
    <3>2. Clamped(view[h].rows) \in Nat
      BY <3>1, ClampedInRange
    <3>3. [view[h] EXCEPT !.sel = Clamped(view[h].rows)] \in View
      BY <3>1, <3>2 DEF View
    <3>4. view' = view \/ view' = [view EXCEPT ![h] = [view[h] EXCEPT !.sel = Clamped(view[h].rows)]]
      BY <2>d DEF Store
    <3>5. last' \in Seq(Worktree) \cup {Nil} /\ selected' \in Nat
      BY <2>d, <3>1, <3>2 DEF Store
    <3>6. view' \in [Handler -> View]
      BY <3>3, <3>4
    <3>7. pc' = [pc EXCEPT ![h] = IF task[h] = "open" THEN "open" ELSE "check"]
          /\ UNCHANGED <<panelOpen, mode, hostVars, task, want, picture>>
      BY <2>d DEF Store, Goto
    <3> QED  BY <3>5, <3>6, <3>7 DEF hostVars
  <2>e. CASE OpenPanel(h) \/ RenderPanel(h)
    BY <2>e, <2>2 DEF OpenPanel, RenderPanel, Finish, Drawn, Goto, appVars, Kind
  <2>f. CASE CheckOpen(h)
    BY <2>f, <2>2 DEF CheckOpen, Finish, Goto, appVars, hostVars, frameVars, Kind
  <2>g. CASE Redraw(h)
    <3>1. CASE ~panelOpen \/ mode = "collect" \/ last = Nil
      BY <2>g, <3>1, <2>2 DEF Redraw, Finish, Goto, appVars, hostVars, Kind
    <3>2. CASE ~(~panelOpen \/ mode = "collect" \/ last = Nil)
      <4>1. [kind |-> "list", rows |-> last, sel |-> selected] \in View
        BY <3>2 DEF View, Kind
      <4> QED  BY <2>g, <3>2, <4>1 DEF Redraw, Goto, appVars, hostVars
    <3> QED  BY <3>1, <3>2
  <2>h. CASE ToolDone(h) \/ SessionStart(h) \/ KeyRefresh(h)
    BY <2>h DEF ToolDone, SessionStart, KeyRefresh, Start, Begin, Goto, hostVars
  <2>i. CASE \E m \in Kind : Command(h, m) \/ KeyMode(h, m)
    BY <2>i DEF Command, KeyMode, Start, Begin, Goto, hostVars
  <2>j. CASE KeyUp(h) \/ KeyDown(h)
    BY <2>j DEF KeyUp, KeyDown, Begin, Goto, hostVars, frameVars
  <2>k. CASE KeyEnter(h)
    <3>1. last \in Seq(Worktree) /\ selected + 1 \in 1..Len(last)
      BY <2>k DEF KeyEnter
    <3>2. went' \in Worktree
      BY <2>k, <3>1 DEF KeyEnter, SelectedRow
    <3> QED  BY <2>k, <3>2 DEF KeyEnter, appVars, frameVars
  <2>l. CASE Close(h) \/ HandleClose(h)
    BY <2>l DEF Close, HandleClose, Begin, Goto, appVars, hostVars, frameVars
  <2> QED  BY <2>1, <2>a, <2>b, <2>c, <2>d, <2>e, <2>f, <2>g, <2>h, <2>i, <2>j, <2>k, <2>l
           DEF HandlerStep, UserStep
<1> QED  BY <1>1, <1>2

\* The panel's variables keep their types: in particular what Enter hands the
\* host is always a worktree, whatever refreshes run beside the keys.
THEOREM PanelTypes == Spec => []PanelTypeOK
<1>1. Init => PanelTypeOK
  <2>1. NoView \in View
    BY DEF NoView, View, Kind
  <2>2. Init => /\ pc \in [Handler -> {"idle"}] /\ task \in [Handler -> {"refresh"}]
                /\ want \in [Handler -> {"list"}] /\ view \in [Handler -> {NoView}]
    BY DEF Init
  <2>3. Init => panelOpen \in BOOLEAN
    BY Zenon DEF Init
  <2>4. Init => mode = "list" /\ selected = 0 /\ last = Nil /\ shown = Nil /\ went = Nil
    BY Zenon DEF Init
  <2>5. Init => reply = Nil /\ picture = "stale"
    BY Zenon DEF Init
  <2> QED  BY <2>1, <2>2, <2>3, <2>4, <2>5 DEF PanelTypeOK, Kind
<1>2. PanelTypeOK /\ [Next]_vars => PanelTypeOK'
  BY StepTypes
<1> QED  BY <1>1, <1>2, PTL DEF Spec

\* Each step leaves the selection within the last list.
LEMMA StepSelection ==
    ASSUME PanelTypeOK, SelectionInRange, [Next]_vars
    PROVE  SelectionInRange'
<1> USE DEF SelectionInRange
<1>0. Nil \notin Seq(Worktree)
  BY PanelAssumption
<1>1. CASE UNCHANGED <<selected, last>>
  BY <1>1
<1>2. CASE \E h \in Handler : Store(h)
  <2>1. PICK h \in Handler : Store(h)
    BY <1>2
  <2>2. view[h].rows \in Seq(Worktree)
    BY <2>1 DEF PanelTypeOK, View
  <2>3. /\ Clamped(view[h].rows) \in Nat
        /\ view[h].rows = <<>> => Clamped(view[h].rows) = 0
        /\ view[h].rows # <<>> => Clamped(view[h].rows) < Len(view[h].rows)
    BY <2>2, ClampedInRange DEF PanelTypeOK
  <2>4. CASE want[h] = "collect"
    BY <2>1, <2>4 DEF Store
  <2>5. CASE want[h] # "collect"
    <3>1. last' = view[h].rows /\ selected' = Clamped(view[h].rows)
      BY <2>1, <2>5 DEF Store
    <3> QED  BY <3>1, <2>2, <2>3, <1>0
  <2> QED  BY <2>4, <2>5
<1>3. CASE \E h \in Handler : KeyUp(h) \/ KeyDown(h)
  BY <1>3, <1>0 DEF KeyUp, KeyDown, RoomBelow, PanelTypeOK
<1>4. [Next]_vars => \/ UNCHANGED <<selected, last>>
                     \/ \E h \in Handler : Store(h) \/ KeyUp(h) \/ KeyDown(h)
  BY DEF Next, vars, appVars, ReadMode, Fetch, FetchFails, OpenPanel, CheckOpen, RenderPanel,
         Redraw, ToolDone, SessionStart, Start, Command, KeyMode, KeyEnter, KeyRefresh,
         Close, HandleClose
<1> QED  BY <1>1, <1>2, <1>3, <1>4

\* SelectionInRange for any number of handlers: no interleaving of refreshes,
\* failed fetches and keys leaves the selection outside the last list, however
\* that list shrinks between a key and the redraw it asks for.
THEOREM SelectionStaysInRange == Spec => []SelectionInRange
<1>1. Init => SelectionInRange
  BY DEF Init, SelectionInRange
<1>2. PanelTypeOK /\ SelectionInRange /\ [Next]_vars => SelectionInRange'
  BY StepSelection
<1> QED  BY <1>1, <1>2, PanelTypes, PTL DEF Spec

----------------------------------------------------------------------------
(* Open panels.                                                            *)

\* Where the user's handler stands while the panel is opened and closed: the
\* command in hand has set panelOpen and not answered yet, a close has taken
\* the panel away and not reset panelOpen yet.
Opening == task[UI] = "open"
Closing == pc[UI] = "close"

OpenInv ==
    /\ \A h \in Handler :
          /\ task[h] = "open" => h = UI /\ pc[h] \in {"snapshot", "fetch", "store", "open"}
          /\ pc[h] = "open" => task[h] = "open"
          /\ pc[h] = "close" => h = UI
    /\ Opening \/ shown # Nil => panelOpen
    /\ Closing => shown = Nil
    /\ panelOpen /\ shown = Nil /\ ~Opening /\ ~Closing => reply = "error"

\* Each step keeps it, however many handlers refresh beside the user's.
LEMMA StepOpen ==
    ASSUME PanelTypeOK, OpenInv, [Next]_vars
    PROVE  OpenInv'
<1> USE PanelAssumption DEF OpenInv, Opening, Closing
<1>1. CASE UNCHANGED vars
  BY <1>1 DEF vars, appVars, hostVars, frameVars
<1>2. CASE Next
  <2>1. PICK h \in Handler : HandlerStep(h) \/ UserStep(h)
    BY <1>2, PanelCases
  <2>2. /\ pc \in [Handler -> {"idle", "snapshot", "fetch", "store", "open", "check",
                           "render", "redraw", "close"}]
        /\ task \in [Handler -> {"open", "refresh"}]
        /\ view[h] # Nil
    BY NilAssumption DEF PanelTypeOK
  <2> HIDE PanelAssumption
  <2>3. UI \in Handler
    BY PanelAssumption
  <2>a. CASE ReadMode(h) \/ Fetch(h)
    BY <2>a, <2>2, <2>3 DEF ReadMode, Fetch, Goto, appVars, hostVars
  <2>b. CASE FetchFails(h)
    BY <2>b, <2>2, <2>3 DEF FetchFails, Finish, Goto, appVars
  <2>c. CASE Store(h)
    BY <2>c, <2>2, <2>3 DEF Store, Goto, hostVars
  <2>d. CASE OpenPanel(h)
    BY <2>d, <2>2, <2>3 DEF OpenPanel, Finish, Goto, appVars
  <2>e. CASE CheckOpen(h)
    BY <2>e, <2>2, <2>3 DEF CheckOpen, Finish, Goto, appVars, hostVars, frameVars
  <2>f. CASE RenderPanel(h)
    BY <2>f, <2>2, <2>3 DEF RenderPanel, Finish, Goto, appVars
  <2>g. CASE Redraw(h)
    BY <2>g, <2>2, <2>3 DEF Redraw, Finish, Goto, appVars, hostVars
  <2>h. CASE ToolDone(h) \/ SessionStart(h) \/ KeyRefresh(h)
    BY <2>h, <2>2, <2>3 DEF ToolDone, SessionStart, KeyRefresh, Start, Begin, Goto
  <2>i. CASE h = UI /\ \E m \in Kind : Command(h, m) \/ KeyMode(h, m)
    BY <2>i, <2>2, <2>3 DEF Command, KeyMode, Start, Begin, Goto
  <2>j. CASE KeyUp(h) \/ KeyDown(h) \/ KeyEnter(h)
    BY <2>j, <2>2, <2>3 DEF KeyUp, KeyDown, KeyEnter, Begin, Goto, hostVars, appVars, frameVars
  <2>k. CASE h = UI /\ Close(h)
    BY <2>k, <2>2, <2>3 DEF Close, Begin, Goto, appVars, frameVars
  <2>l. CASE h = UI /\ HandleClose(h)
    BY <2>l, <2>2, <2>3 DEF HandleClose, Goto, appVars, hostVars, frameVars
  <2> QED  BY <2>1, <2>a, <2>b, <2>c, <2>d, <2>e, <2>f, <2>g, <2>h, <2>i, <2>j, <2>k, <2>l
           DEF HandlerStep, UserStep
<1> QED  BY <1>1, <1>2

\* It holds throughout.
THEOREM OpenInvariance == Spec => []OpenInv
<1>1. Init => OpenInv
  BY PanelAssumption DEF Init, OpenInv, Opening, Closing
<1>2. PanelTypeOK /\ OpenInv /\ [Next]_vars => OpenInv'
  BY StepOpen
<1> QED  BY <1>1, <1>2, PanelTypes, PTL DEF Spec

\* Whatever handlers refresh at once and whichever fetches fail, a panel that
\* the host shows is refreshed, and none is refreshed that it does not show but
\* after a command that answered with an error: handleCommand sets panelOpen
\* first and does not reset it.
THEOREM OpenAgrees == Spec => []PanelOpenAgrees
<1>1. PanelTypeOK /\ OpenInv => PanelOpenAgrees
  BY PanelAssumption DEF OpenInv, Opening, Closing, PanelOpenAgrees, Idle
<1> QED  BY <1>1, OpenInvariance, PanelTypes, PTL

----------------------------------------------------------------------------
(* The view.                                                               *)

\* A view is of what the keys act on.
AgreesWithKeys(v) ==
    /\ v.kind = mode
    /\ mode = "list" => v.rows = last /\ v.sel = selected

\* A handler by itself has, from its fetch on, the mode the keys are in, and
\* from its store on the rows and the selection; after an arrow a fresh panel
\* is behind in list mode only, where there is a list to redraw it from.
Fits(h) ==
    /\ pc[h] \in {"fetch", "store"} => want[h] = mode
    /\ pc[h] = "store" => view[h].kind = mode
    /\ pc[h] \in {"open", "check", "render"} => AgreesWithKeys(view[h])
    /\ pc[h] = "redraw" /\ picture = "fresh" =>
          /\ shown # Nil
          /\ IF mode = "list" THEN last # Nil ELSE AgreesWithKeys(shown)

\* While the picture is not a crowded one there is one handler at most, which
\* fits, and with none a fresh panel does.
ViewInv ==
    picture # "crowded" =>
        /\ \A g, h \in Handler : pc[g] # "idle" /\ pc[h] # "idle" => g = h
        /\ \A h \in Handler : Fits(h)
        /\ Idle /\ picture = "fresh" /\ shown # Nil => AgreesWithKeys(shown)

\* A step that leaves a picture not crowded is one of a handler alone, but for an
\* Enter: it was alone already, or it begins and the rest are idle.
LEMMA Alone ==
    ASSUME PanelTypeOK, ViewInv, NEW h \in Handler, HandlerStep(h) \/ UserStep(h),
           ~KeyEnter(h), picture' # "crowded"
    PROVE  /\ \A g \in Handler \ {h} : pc[g] = "idle" /\ pc'[g] = "idle"
           /\ picture = "crowded" => Idle
           /\ pc[h] # "idle" => picture # "crowded"
<1>0. pc \in [Handler -> {"idle", "snapshot", "fetch", "store", "open", "check",
                           "render", "redraw", "close"}]
  BY DEF PanelTypeOK
<1>1. \A g \in Handler \ {h} : pc'[g] = pc[g]
  <2>1. CASE HandlerStep(h)
    BY <1>0, <2>1 DEF HandlerStep, ReadMode, Fetch, FetchFails, Store, OpenPanel, CheckOpen,
       RenderPanel, Redraw, ToolDone, SessionStart, Start, Begin, Finish, Goto
  <2>2. CASE UserStep(h)
    BY <1>0, <2>2 DEF UserStep, Command, KeyMode, KeyUp, KeyDown, KeyEnter, KeyRefresh, ToolDone,
       Close, HandleClose, Start, Begin, Goto
  <2> QED  BY <2>1, <2>2
<1>2. CASE pc[h] # "idle"
  <2>1. picture # "crowded"
    <3>1. CASE HandlerStep(h)
      BY <1>2, <3>1 DEF HandlerStep, ReadMode, Fetch, FetchFails, Store, OpenPanel, CheckOpen,
         RenderPanel, Redraw, ToolDone, SessionStart, Start, Begin, Drawn
    <3>2. CASE UserStep(h)
      BY <1>2, <3>2 DEF UserStep, Command, KeyMode, KeyUp, KeyDown, KeyEnter, KeyRefresh,
         ToolDone, Close, HandleClose, Start, Begin
    <3> QED  BY <3>1, <3>2
  <2> QED  BY <1>1, <1>2, <2>1 DEF ViewInv
<1>3. CASE pc[h] = "idle"
  <2>1. Idle
    <3>1. CASE HandlerStep(h)
      BY <1>3, <3>1 DEF HandlerStep, ReadMode, Fetch, FetchFails, Store, OpenPanel, CheckOpen,
         RenderPanel, Redraw, ToolDone, SessionStart, Start, Begin
    <3>2. CASE UserStep(h)
      BY <1>3, <3>2 DEF UserStep, Command, KeyMode, KeyUp, KeyDown, KeyRefresh,
         ToolDone, Close, HandleClose, Start, Begin
    <3> QED  BY <3>1, <3>2
  <2> QED  BY <1>1, <1>3, <2>1 DEF Idle
<1> QED  BY <1>2, <1>3

\* What such a step has to keep: the handler fits, and so does the panel that it
\* leaves at rest.
LEMMA StepFits ==
    ASSUME PanelTypeOK, OpenInv, NEW h \in Handler, HandlerStep(h) \/ UserStep(h),
           ~KeyEnter(h), pc[h] # "idle" => Fits(h),
           pc[h] = "idle" /\ picture = "fresh" /\ shown # Nil => AgreesWithKeys(shown)
    PROVE  /\ Fits(h)'
           /\ pc'[h] = "idle" /\ picture' = "fresh" /\ shown' # Nil => AgreesWithKeys(shown)'
<1> USE DEF Fits, AgreesWithKeys
<1>0. /\ pc \in [Handler -> {"idle", "snapshot", "fetch", "store", "open", "check",
                           "render", "redraw", "close"}]
      /\ task \in [Handler -> {"open", "refresh"}]
      /\ want \in [Handler -> Kind]
      /\ view \in [Handler -> View]
      /\ mode \in Kind
  BY DEF PanelTypeOK
<1>a. CASE ReadMode(h)
  BY <1>0, <1>a DEF ReadMode, Goto, appVars, hostVars
<1>b. CASE Fetch(h)
  BY <1>0, <1>b DEF Fetch, Goto, appVars, hostVars
<1>c. CASE FetchFails(h)
  <2>1. pc'[h] = "idle" /\ picture' # "fresh"
    BY <1>0, <1>c DEF FetchFails, Finish, Goto, Drawn
  <2> QED  BY <2>1
<1>d. CASE Store(h)
  <2>1. mode' = mode /\ pc'[h] \in {"open", "check"}
    BY <1>0, <1>d DEF Store, Goto
  <2>2. CASE want[h] = "collect"
    <3>1. view' = view
      BY <1>d, <2>2 DEF Store
    <3> QED  BY <1>d, <2>1, <2>2, <3>1 DEF Store
  <2>3. CASE want[h] # "collect"
    <3>1. /\ last' = view[h].rows
          /\ selected' = Clamped(view[h].rows)
          /\ view' = [view EXCEPT ![h].sel = Clamped(view[h].rows)]
      BY <1>d, <2>3 DEF Store
    <3>2. /\ view'[h].kind = view[h].kind
          /\ view'[h].rows = view[h].rows
          /\ view'[h].sel = Clamped(view[h].rows)
      BY <1>0, <3>1 DEF View
    <3> QED  BY <1>d, <2>1, <3>1, <3>2 DEF Store
  <2> QED  BY <2>2, <2>3
<1>e. CASE OpenPanel(h) \/ RenderPanel(h)
  BY <1>0, <1>e DEF OpenPanel, RenderPanel, Finish, Goto, appVars
<1>f. CASE CheckOpen(h)
  <2>1. shown # Nil => panelOpen
    BY DEF OpenInv
  <2> QED  BY <1>0, <1>f, <2>1 DEF CheckOpen, Finish, Goto, appVars, hostVars, frameVars
<1>g. CASE Redraw(h)
  <2>1. shown # Nil => panelOpen
    BY DEF OpenInv
  <2> QED  BY <1>0, <1>g, <2>1 DEF Redraw, Finish, Goto, appVars, hostVars, Kind
<1>h. CASE ToolDone(h) \/ SessionStart(h) \/ KeyRefresh(h)
  BY <1>0, <1>h DEF ToolDone, SessionStart, KeyRefresh, Start, Begin, Goto
<1>i. CASE \E m \in Kind : Command(h, m) \/ KeyMode(h, m)
  BY <1>0, <1>i DEF Command, KeyMode, Start, Begin, Goto
<1>j. CASE KeyUp(h) \/ KeyDown(h)
  <2>1. /\ pc[h] = "idle" /\ shown # Nil /\ pc'[h] = "redraw"
        /\ mode' = mode /\ last' = last /\ shown' = shown
        /\ mode = "collect" => selected' = selected
        /\ picture' = "fresh" => picture = "fresh"
    BY <1>0, <1>j DEF KeyUp, KeyDown, Begin, Goto, hostVars
  <2>2. shown \in View /\ Nil \notin Seq(Worktree)
    BY <2>1, PanelAssumption DEF PanelTypeOK
  <2>3. picture' = "fresh" /\ mode = "list" => last # Nil
    BY <2>1, <2>2 DEF View
  <2> QED  BY <1>0, <2>1, <2>3 DEF Kind
<1>l. CASE Close(h)
  BY <1>0, <1>l DEF Close, Begin, Goto, appVars, frameVars
<1>m. CASE HandleClose(h)
  <2>1. shown' = Nil
    BY <1>m DEF OpenInv, Closing, HandleClose, hostVars
  <2> QED  BY <1>0, <1>m, <2>1 DEF HandleClose, Goto
<1> QED  BY <1>a, <1>b, <1>c, <1>d, <1>e, <1>f, <1>g, <1>h, <1>i, <1>j, <1>l, <1>m
         DEF HandlerStep, UserStep

\* Every step keeps the invariant.
LEMMA StepView ==
    ASSUME PanelTypeOK, OpenInv, ViewInv, [Next]_vars
    PROVE  ViewInv'
<1> SUFFICES ASSUME picture' # "crowded" PROVE ViewInv'
  BY DEF ViewInv
<1>1. CASE \/ UNCHANGED vars \/ \E h \in Handler : KeyEnter(h)
  <2>1. UNCHANGED <<mode, selected, last, shown, pc, want, view, picture>>
    BY <1>1 DEF KeyEnter, vars, appVars, hostVars, frameVars
  <2>2. Idle' = Idle /\ \A h \in Handler : Fits(h)' = Fits(h)
    BY <2>1 DEF Idle, Fits, AgreesWithKeys
  <2> QED  BY <2>1, <2>2 DEF ViewInv, AgreesWithKeys
<1>2. ASSUME NEW h \in Handler, HandlerStep(h) \/ UserStep(h), ~KeyEnter(h) PROVE ViewInv'
  <2>1. /\ \A g \in Handler \ {h} : pc[g] = "idle" /\ pc'[g] = "idle"
        /\ picture = "crowded" => Idle
        /\ pc[h] # "idle" => picture # "crowded"
    BY <1>2, Alone
  <2>2. /\ pc[h] # "idle" => Fits(h)
        /\ pc[h] = "idle" /\ picture = "fresh" /\ shown # Nil => AgreesWithKeys(shown)
    BY <2>1 DEF ViewInv, Idle
  <2>3. /\ Fits(h)'
        /\ pc'[h] = "idle" /\ picture' = "fresh" /\ shown' # Nil => AgreesWithKeys(shown)'
    BY <1>2, <2>2, StepFits
  <2>4. \A g \in Handler \ {h} : Fits(g)'
    BY <2>1 DEF Fits
  <2> QED  BY <2>1, <2>3, <2>4 DEF ViewInv, Idle
<1> QED  BY <1>1, <1>2, PanelCases

\* It holds throughout.
THEOREM ViewInvariance == Spec => []ViewInv
<1>1. Init => ViewInv
  BY DEF Init, ViewInv, Fits, Idle
<1>2. PanelTypeOK /\ OpenInv /\ ViewInv /\ [Next]_vars => ViewInv'
  BY StepView
<1> QED  BY <1>1, <1>2, OpenInvariance, PanelTypes, PTL DEF Spec

\* A panel at rest that was drawn by a handler alone shows what the keys act on,
\* among any handlers and whichever fetches have failed before: what two at once
\* or a failed fetch leave wrong, the next refresh that is by itself puts right.
THEOREM PanelShowsWhatKeysActOn == Spec => []ViewAgrees
<1>1. ViewInv => ViewAgrees
  BY DEF ViewInv, ViewAgrees, AgreesWithKeys, ShowsTheKeys
<1> QED  BY <1>1, ViewInvariance, PTL

\* And there Enter goes to the row under the cursor the user sees.  Elsewhere it
\* need not: the run panel_race shows a store between the user's look and the
\* key.
THEOREM EnterGoesWhereTheCursorIs == Spec => EnterFollowsFresh
<1>1. PanelTypeOK /\ ViewInv /\ [Next]_vars =>
        [\A h \in Handler : KeyEnter(h) /\ Idle /\ picture = "fresh" => FollowsCursor]_vars
  BY DEF KeyEnter, ViewInv, AgreesWithKeys, PanelTypeOK, Kind, SelectedRow, FollowsCursor
<1> QED  BY <1>1, ViewInvariance, PanelTypes, PTL DEF Spec, EnterFollowsFresh
=============================================================================
