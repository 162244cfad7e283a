------------------------------ MODULE GitRepo ------------------------------
(***************************************************************************)
(* The git repository the extension drives, as far as the extension can    *)
(* tell its states apart: the main HEAD, the branch wt/<name> of each      *)
(* worktree name, and the linked worktree git lists at that name's path.   *)
(* The module is external: git is not part of the repository under         *)
(* src/, and what is here is what src/internal/worktree/git.go and         *)
(* worktree.go ask of it, together with what the user can do to the        *)
(* repository behind the extension's back.                                 *)
(*                                                                         *)
(* A commit is its depth on the line that leads to it: 0..MaxHead on the   *)
(* main line, which HEAD and every other ref the user may name as a base   *)
(* point into, and from..tip on a worktree's branch, which left the main   *)
(* line at depth from.                                                     *)
(***************************************************************************)
EXTENDS Integers

CONSTANTS
    Name,     \* worktree names, already slugified
    Nil,      \* "no such branch / worktree / entry / claim"
    Events,   \* the events of the environment a configuration lets happen
    MaxHead,  \* bound: the last commit of the main line
    MaxTip    \* bound: depth a worktree's branch may reach

UserEvents == {"commit", "push", "edit", "rmdir", "remove", "rogue", "lock",
               "head", "branch"}
HostEvents == {"crash", "orphan", "switch", "giterr", "probeerr", "saveerr"}

ASSUME GitAssumption ==
    /\ Events \subseteq UserEvents \cup HostEvents
    /\ MaxHead \in Nat
    /\ MaxTip \in Nat

VARIABLES
    head,      \* the commit the main checkout's HEAD is at
    branch,    \* branch[n]: the local branch wt/n, or Nil
    checkout,  \* checkout[n]: the worktree git lists at n's path, or Nil
    orphan     \* git commands that run on though their process has died

gitVars == <<head, branch, checkout, orphan>>

\* up is the upstream's depth, NoUpstream while the branch tracks nothing.
NoUpstream == -1
Branch == [from : Nat, tip : Nat, up : Nat \cup {NoUpstream}]

\* dir: the directory is there (git lists a worktree whose directory was
\* deleted until it is pruned); own: its HEAD is the branch wt/n.  The last
\* two record its history, and no action reads them: kept, the
\* extension went on after a `worktree remove` of it that failed; late, the command that added it came
\* to its end after its process's death.
Checkout == [dir : BOOLEAN, locked : BOOLEAN, dirty : BOOLEAN, own : BOOLEAN,
             kept : BOOLEAN, late : BOOLEAN]

NewCheckout == [dir |-> TRUE, locked |-> FALSE, dirty |-> FALSE, own |-> TRUE,
                kept |-> FALSE, late |-> FALSE]

\* flag: add's "attach an existing branch", remove's --force, and whether the
\* Remove that deletes a branch was asked to.
Command == [cmd : {"add", "remove", "prune", "branch"}, name : Name, flag : BOOLEAN]

GitTypeOK ==
    /\ head \in Nat
    /\ branch \in [Name -> Branch \cup {Nil}]
    /\ checkout \in [Name -> Checkout \cup {Nil}]
    /\ orphan \subseteq Command

GitInit ==
    /\ head = 0
    /\ branch = [n \in Name |-> Nil]
    /\ checkout = [n \in Name |-> Nil]
    /\ orphan = {}

----------------------------------------------------------------------------
(* What the extension asks git.                                            *)

\* The names `git worktree list --porcelain` reports.
Listed == {n \in Name : checkout[n] # Nil}

HasDir(n) == checkout[n] # Nil /\ checkout[n].dir

Commits == 0..MaxHead

NewBranch(at) == [from |-> at, tip |-> at, up |-> NoUpstream]

\* The answers `rev-list --count X..HEAD` allows in n's worktree, some or
\* none, X being the upstream, or the recorded base: a commit of the main
\* line, or for a resumed branch a former tip of its own.  A HEAD that is not
\* on wt/n, or a former tip that is no ancestor of it, can give either answer.
AheadOfUpstream(n) ==
    IF ~checkout[n].own \/ branch[n] = Nil THEN BOOLEAN
    ELSE {branch[n].tip > branch[n].up}

AheadOfBase(n, base, resumed) ==
    LET b == branch[n] IN
    IF ~checkout[n].own \/ b = Nil THEN BOOLEAN
    ELSE IF ~resumed THEN {b.tip > base \/ b.tip > b.from}
    ELSE IF base <= b.tip THEN {b.tip > base}
    ELSE BOOLEAN

\* `worktree add <path> <branch>` and `worktree add <path> -b <branch> <base>`.
CanAdd(n, resume) == checkout[n] = Nil /\ (resume <=> branch[n] # Nil)

WorktreeAdd(n, resume, at, late) ==
    /\ CanAdd(n, resume)
    /\ branch' = IF resume THEN branch ELSE [branch EXCEPT ![n] = NewBranch(at)]
    /\ checkout' = [checkout EXCEPT ![n] = [NewCheckout EXCEPT !.late = late]]

\* `worktree remove [--force] <path>`: one --force does not unlock.
CanRemove(n, force) ==
    /\ checkout[n] # Nil
    /\ ~checkout[n].locked
    /\ force \/ ~checkout[n].dirty

WorktreeRemove(n, force) ==
    /\ CanRemove(n, force)
    /\ checkout' = [checkout EXCEPT ![n] = Nil]
    /\ UNCHANGED branch

\* The worktrees wts, n's marked as one whose failed removal was passed over.
KeptIn(wts, n) ==
    IF wts[n] = Nil THEN wts ELSE [wts EXCEPT ![n].kept = TRUE]

\* `worktree prune` drops every worktree, of any name, without a directory.
Pruned == [n \in Name |->
    IF checkout[n] # Nil /\ ~HasDir(n) /\ ~checkout[n].locked
    THEN Nil ELSE checkout[n]]

WorktreePrune == checkout' = Pruned /\ UNCHANGED branch

\* `branch -D wt/n`.
CanDeleteBranch(n) == branch[n] # Nil /\ ~(checkout[n] # Nil /\ checkout[n].own)

BranchDelete(n) ==
    /\ CanDeleteBranch(n)
    /\ branch' = [branch EXCEPT ![n] = Nil]
    /\ UNCHANGED checkout

\* A command whose process is gone comes to its end, or fails.  A base may
\* have been any commit of the main line when git read it.
OrphanEnds ==
    \E k \in orphan :
        /\ orphan' = orphan \ {k}
        /\ \/ k.cmd = "add" /\ \E at \in Commits : WorktreeAdd(k.name, k.flag, at, TRUE)
           \/ k.cmd = "remove" /\ WorktreeRemove(k.name, k.flag)
           \/ k.cmd = "prune" /\ WorktreePrune
           \/ k.cmd = "branch" /\ BranchDelete(k.name)
           \/ UNCHANGED <<branch, checkout>>
        /\ UNCHANGED head

----------------------------------------------------------------------------
(* What the user does with git and the file system at any moment.          *)

\* Commit everything in n's worktree.
Commit(n) ==
    /\ "commit" \in Events
    /\ HasDir(n) /\ checkout[n].own /\ branch[n] # Nil /\ branch[n].tip < MaxTip
    /\ branch' = [branch EXCEPT ![n].tip = @ + 1]
    /\ checkout' = [checkout EXCEPT ![n].dirty = FALSE]
    /\ UNCHANGED head

Push(n) ==
    /\ "push" \in Events
    /\ branch[n] # Nil
    /\ branch' = [branch EXCEPT ![n].up = branch[n].tip]
    /\ UNCHANGED <<head, checkout>>

Edit(n) ==
    /\ "edit" \in Events
    /\ HasDir(n)
    /\ checkout' = [checkout EXCEPT ![n].dirty = TRUE]
    /\ UNCHANGED <<head, branch>>

DeleteDir(n) ==
    /\ "rmdir" \in Events
    /\ HasDir(n)
    /\ checkout' = [checkout EXCEPT ![n].dir = FALSE, ![n].dirty = FALSE]
    /\ UNCHANGED <<head, branch>>

RemoveOutOfBand(n) ==
    /\ "remove" \in Events
    /\ WorktreeRemove(n, TRUE)
    /\ UNCHANGED head

\* `git worktree add --detach` at a path the extension would use.
AddOutOfBand(n) ==
    /\ "rogue" \in Events
    /\ checkout[n] = Nil
    /\ checkout' = [checkout EXCEPT ![n] = [NewCheckout EXCEPT !.own = FALSE]]
    /\ UNCHANGED <<head, branch>>

ToggleLock(n) ==
    /\ "lock" \in Events
    /\ checkout[n] # Nil
    /\ checkout' = [checkout EXCEPT ![n].locked = ~@]
    /\ UNCHANGED <<head, branch>>

MakeBranch(n) ==
    /\ "branch" \in Events
    /\ branch[n] = Nil
    /\ branch' = [branch EXCEPT ![n] = NewBranch(head)]
    /\ UNCHANGED <<head, checkout>>

\* A commit, a checkout or a reset in the main checkout.
MoveHead ==
    /\ "head" \in Events
    /\ head' \in Commits \ {head}
    /\ UNCHANGED <<branch, checkout>>

User ==
    /\ \/ MoveHead
       \/ \E n \in Name :
           \/ Commit(n) \/ Push(n) \/ Edit(n) \/ DeleteDir(n)
           \/ RemoveOutOfBand(n) \/ AddOutOfBand(n)
           \/ ToggleLock(n) \/ MakeBranch(n)
    /\ UNCHANGED orphan
============================================================================
