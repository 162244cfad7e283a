# terva-git-worktree: specification, model checking and proofs

TLA+ modules for the extension's worktree manager, its `/worktree` panel, and its
side of a host session (what it shows the model, which repository a call is
about, what a list call reports), the TLC configurations that check them, and
proofs: that the manager implements an abstract ledger of claims, its safety
properties, the panel's, and what a session is shown and its calls answer, for
every number of processes, callers, sessions, worktrees and handlers and for every
file system. Every invariant that a run finds to hold is a theorem here.

Paths below are relative to the repository's root; `worktree.go`, `registry.go`,
`git.go` and `repo.go` are in `internal/worktree/`.

## 1. The system

### Components, their state and their operations

| Component | State | Operations |
|---|---|---|
| Manager (`worktree.go`) | `Manager.mu` per process; nothing else in memory | `Create`, `Claim`, `Release`, `List`, `Collect`, `Remove` |
| Registry (`registry.go`) | `registry.json`, one per repository: name -> base commit, base ref, claim (session, pid, time) | `loadRegistry`, `saveRegistry` (temp file and rename), `acquireLock`/`release` (flock), `pidAlive` |
| Git driver (`git.go`) | none; git's own: worktrees, branches, upstreams | `worktree list/add/remove/prune`, `branch -D`, `rev-parse`, `status`, `rev-list` |
| Repository identity (`repo.go`) | none | `resolveRepo`, `nearbyRepos`, `GitAvailable`, `slugify`, `canonPath` |
| Panel (`app.go`) | `panelOpen`, `mode`, `selected`, `last`, under `app.mu` | `handleCommand`, `snapshot`, `refresh`, `render`, `handleKey`, `handleClose` |
| Context pin (`app.go`) | `ctxDecided`, `ctxSession`; at the host: the policy and the tools the model is shown | `onSession`, `pinContext` |
| Tool handlers (`app.go`) | none | parse, `env`, call the manager, `refresh` |
| Text (`render.go`), registration (`main.go`), `extutil`, launcher | none | formatting, declarations, build |

### How they interact

Several extension processes (one per terva instance) work on one repository.
In each, the SDK runs handlers on goroutines of their own. A tool handler reads
the session and the directory the host last reported (`env`), calls one manager
operation, and refreshes the panel. Each operation takes `Manager.mu`, then the
repository's flock, loads the registry, asks git for its worktrees, drops the
entries git no longer lists (`reconcile`; not in `Remove`), decides, runs git,
saves, and gives both locks back. Git itself, the directories and the branches
are shared with the user, who takes none of these locks.

### What is hard

* *Interleaving.* Two processes on one registry file; two handlers of a process
  on one mutex; the user's git between any two of a call's git commands; panel
  refreshes, keys and tool calls on the panel's fields.
* *Time.* A claim's liveness is derived from the clock and a pid before the
  save that relies on it; `claimed_at` has whole seconds.
* *Partial failure.* `worktree add` done and the save failed; `worktree remove`
  done and the process gone; the process gone and its git command still at work;
  a git error read as "no unmerged work".
* *Stale state.* The session read before the wait for the locks; a claim kept
  by a session that moved to another process; a listing that has changed by
  the time Enter is pressed; a session that has moved on while its start is
  still being handled.
* *Many names for one place.* Links, git's relative answers, and the paths of
  git, registry and data directory that must meet in one row and one key.

`PROJECT.json` lists these hazards line by line with the properties that cover
them, or why none does.

### What makes each component correct

* Registry and locks: no save undoes another process's (`SnapshotIsCurrent`);
  every call returns (`CallReturns`).
* Claims: a live claim of another session is never taken or cleared
  (`LiveClaimRespected`); a caller that is told it holds a worktree does
  (`ToldIsHeld`); each call acts on the claims in one atomic step, and its answer
  is about that step (`ImplementsLedger`).
* Registry and git: neither has a worktree the other lost
  (`NoStrandedWorktree`, `ForgottenOnlyWhenGone`), and no entry that outlived its
  worktree is acted on (`HandedOutIsListed`).
* Git: work is lost only when asked (`UncommittedKept`, `CommitsKept`), and an
  unforced Remove does not get past the unpushed commits of a branch that Create
  made (`FreshWorkRefused`).
* Repository identity: one repository, one key (`KeyIsRepository`); an error's
  hints work (`HintsResolve`); names are stable (`NameIsStable`).
* Listing: one row for each worktree (`RowPerWorktree`), and the caller is told
  which one it is in (`CwdWorktreeTold`).
* Context pin: what the model is shown never changes in mid-session
  (`PinnedInSession`) and agrees with what calls would find (`QuietIffUseless`).
* Panel: the selection is a row (`SelectionInRange`), the keys act on what is
  shown once a handler alone has drawn it (`ViewAgrees`, `EnterFollowsFresh`), the
  application knows whether the panel is open (`PanelOpenAgrees`).

## 2. The modules

| Module | Models | Uses |
|---|---|---|
| `ClaimLedger` | what the manager promises about claims (abstract) | |
| `GitRepo` | the repository as git and the user see it (external) | |
| `WorktreeManager` | the six operations, registry, locks, processes, clock | extends `GitRepo`; instantiates `ClaimLedger` |
| `WorktreeManagerProofs` | theorems: the inductive invariant, locks, claims | extends `WorktreeManager` |
| `LedgerProofs` | theorems: answers, and the refinement of `ClaimLedger` | extends `WorktreeManagerProofs` |
| `WorkProofs` | theorems: the user's work, and registry against git | extends `LedgerProofs` |
| `MCWorktreeManager` | small instances: who runs where, which calls are made | extends `WorktreeManager` |
| `Panel` | the `/worktree` panel and its handlers | |
| `PanelProofs` | theorems about the panel | extends `Panel` |
| `MCPanel` | two worktrees | extends `Panel` |
| `Slug` | `slugify` | |
| `RepoPaths` | `resolveRepo`, the scan for repositories nearby, `canonPath` | |
| `Listing` | `parsePorcelain` and the rows of `List` | extends `RepoPaths` |
| `HostSession` | session events, the context pin, and calls from there | extends `Listing`, `Slug` |
| `Inductions` | lemmas: induction for sets of numbers, what a `FoldLeft` comes to | |
| `SlugProofs` | lemmas about names | extends `Slug`, `Inductions` |
| `PathProofs` | lemmas about paths, repositories, git's listing and the rows | extends `Listing`, `Inductions` |
| `HostSessionProofs` | theorems: the context pin, and what calls answer | extends `HostSession`, `SlugProofs`, `PathProofs` |
| `MCHostSession` | six small file systems | extends `HostSession` |

### GitRepo

`head` is the depth of the main checkout's HEAD, `branch[n]` the branch `wt/n`
(where it left the main line, its tip, its upstream) and `checkout[n]` the
worktree git lists at `n`'s path (directory there, locked, dirty, on its own
branch). A commit is its depth on the line that leads to it: this is enough for
the counts `base..HEAD` and `@{upstream}..HEAD` that `hasUnmergedWork` asks for.
HEAD goes to any commit of the main line at any time (a commit, a checkout, a
reset), and a ref that the caller named as a base may be at any. When a worktree's
HEAD is not on `wt/n`, or a resumed branch's recorded tip is no ancestor of it,
either answer is possible. The user's actions are guarded by `Events`, so that a
configuration lets happen what its question is about.

A checkout also has two records of its history that no action reads: `kept`, that
the extension passed over a failed removal of it, and `late`, that a dead process's
command added it. Properties use them to say which worktrees they except.

`orphan` holds the git commands whose process died while they ran. `runGit` does
not tie its child to the process (`exec.Command` without a context, no parent
death signal), and Go opens the lock file so that the child does not inherit
it: the flock is free while the command runs on. Such a command takes effect, or
fails, at any later moment, once.

### WorktreeManager

The state is that of the code: `registry` is the file, `mu` and `flock` the
locks, `alive` the pids that exist, `session` what the host told each process,
and per caller the program counter, the call, the session captured at its start
(`owner`), the loaded registry (`reg`), the names git listed (`seen`), `Create`'s
`baseCommit` (`plan`) and the result about to be returned (`out`). `seen` is by path,
as in the code: `canonPath` resolves a worktree's path only while its directory is
there, and git lists resolved paths, so with a link on the way to the data
directory (`DataLinked`) a listed worktree whose directory was deleted is not found
(`Hidden`).

`Create` resolves its base to a commit and later gives git the ref again, not the
commit: git reads it anew at `worktree add` (`AddPoints`), so that the branch may
start elsewhere than at the recorded base.

A call goes through

    idle -> mutex -> flock -> load -> body -> ... -> unlock -> idle
                                       body: reuse, claim   -> saveClaim
                                             release        -> saveRelease
                                             list, collect  -> saveList, if reconcile dropped something
                                             create         -> resolve -> add -> saveNew
                                             remove         -> gitrm -> prune -> branch -> saveRemove

with an early return to `unlock` wherever the code has one. A step ends where
another actor can matter: each git command that changes the repository, and each
save, is a step of its own, and the decision is separate from the save, so that
time passes and processes die in between. These things are one step in the
model though they are several in the code:

* `loadRegistry`, `listWorktrees` and `reconcile`: under the flock only the user
  can act between the first two, and a worktree that appears or goes between
  them is the same as one that did just before or just after.
* `Remove`'s two checks (`status`, then `rev-list`): what matters is that the
  user may act after them.
* The clock reading in `newClaim` and the save that follows it.
* The temporary file and the rename of `saveRegistry`: only the flock's holder
  writes or reads it; a crash between them leaves the old file.

A process is a pid. A crash removes it with all its callers, mutex and flock,
and leaves the git command each of its callers waited for among the orphans
(`GitRunning`); a restarted extension is another element of `Proc`. Names are
taken after `slugify`, all in one repository. `Fairness` is discussed below.

### ClaimLedger, and how the manager implements it

The ledger has the managed names, the claim on each, and for each caller its
request and its answer. A request takes effect and gets its answer in the one
step `Settle`: a new name comes in claimed (`Register`), an unclaimed one gets a
holder (`Take`), a lapsed claim is replaced and `worktree_claim` says so
(`Retake`), one's own claim is confirmed, a claim is cleared by its holder or
once it has lapsed, a name is dropped, a list answers, an error changes nothing.
There are no locks, no file, no git. The mapping:

| Ledger | Manager |
|---|---|
| `managed` | the names with an entry in `registry` |
| `holder[n]` | the entry's claim |
| `request[c]` | the call and the captured session, while `pc[c]` is not idle |
| `reply[c]` | `out[c]` |

So a call's one step is the one that reaches `unlock`: a save, or an early
return. Everything else a call does, and all git and the user do, is a stutter
of the ledger. What the mapping shows beyond the other properties: the claim a
save replaces is judged lapsed *at the save*, though the decision was made steps
earlier; a call whose save failed has changed nothing, one that reports success
has; and an answer of `claimed`, `reclaimed` or `reused` fits what was on file.
A step may forget other names with it (`gone`), which `reconcile` decides from
git; which ones those may be is not the ledger's to say, and is what
`ForgottenOnlyWhenGone` is about.

### Panel

Each section under `app.mu` is a step, as is each call of the manager (`Fetch`)
and of the host (`OpenPanel`, `RenderPanel`). A fetch may bring any listing:
managed rows by name followed by unmanaged ones in any order (`List` appends
those in the order of a map iteration), so a listing is any arrangement of a
subset of the names; `Collect` has the managed ones in order. One handler, `UI`,
serves the user's command, keys and close in sequence; any handler may run the
refresh after a tool call or at a session start. The host ignores a render of a
panel that is not open.

`picture` is a history variable that no guard reads: `fresh` once a handler that was
alone from its start has drawn the panel, `stale` before that and after a fetch that
failed, `crowded` from the moment that two handlers overlap until one starts by
itself again. It is what `ViewAgrees` and `EnterFollowsFresh` are stated with: what an
overlap leaves wrong is theirs to bound, not to exclude.

### Slug, RepoPaths, Listing

`Slug` is the loop of `slugify` over kinds of characters (a letter, a capital, a
dash, another separator, one that is dropped) with the limit as a constant.

In `RepoPaths` a path is the sequence of its elements and `tree` the file system:
directories, links, main checkouts, linked worktrees (also those whose directory
is gone), stray `.git` entries, the data directory as the host names it, the
registry's entries. What git answers is external: it follows links to find the
checkout a directory is in, and answers `--git-common-dir` with an absolute path
in a linked worktree and with a path relative to the *resolved* directory in the
main checkout. What is the code's is what it does with the answers: `filepath.Join`
by the letters of the path, `canonPath` with its fallback where the path does not
exist, the pre-filter and the confirmation of the scan, and its two bounds. A
key is `repoKey`'s readable prefix; its hash is left out, so the model's trees have
one repository of each name.

`Listing` has git's porcelain text as lines of a key and a value, with no blank
line at its end since `runGit` trims it, `parsePorcelain` as a fold over the lines,
and the rows, the filter and `cwd_worktree` of `List`. Of a block only the path is
kept: no row's being there depends on its commit, branch or prunable mark. Statuses are reduced to
whether there is a claim and whose: their derivation is `WorktreeManager`'s. Rows
are a set where the code appends in the order of a map iteration.

### HostSession

The host is external: it enters a session, leaves it (an empty id) or moves within
it, each told as the same event, and it may or may not wait for a handler before
the next event (`waits`). Changes go through the handle of an event and are heeded
while it is the latest (`Heeded`). `told` is what the SDK keeps in `Host()`,
`pinned` is `ctxDecided` and `ctxSession`; the handler is one step up to each
point where the host may be heard or spoken to: receive, decide under `app.mu`,
probe git, set the policy, set the tools. A list call reads the state
between events, saves the registry it has reconciled (or fails to, which the code does
not look at) and leaves an `answer`, which the next event clears; a name is an answer
without a state.

## 3. The runs

Bounds: `MaxTime` ticks of the clock, `MaxHead` the last commit of the main line,
`MaxTip` depth of a worktree's branch, and the calls of `Calls`; calls may be
repeated without bound. In the host's runs: `MaxStarts` events, `MaxInbox` of
them on their way at once. Deadlock is checked in every run but the host's two,
where the system stops when the host has nothing more to tell.

| Run | Instance | Shows |
|---|---|---|
| `claims` | 2 processes, 2 sessions and none, 1 name; create, claim, release, forced remove; crash, session switch; TTL 1, 2 ticks a second, time up to 2 | `IInv`, `ToldIsHeld`, `LiveClaimRespected`, `ImplementsLedger` |
| `registry` | 2 processes, 2 names, no session, linked data directory; create, collect, remove; crash, orphaned git commands, failing saves, edits, out-of-band removal, deleted directories | `TypeOK`, `SnapshotIsCurrent`, `NoStrandedWorktree`, `HandedOutIsListed`, `ForgottenOnlyWhenGone` |
| `work` | 1 caller, whose process may die and leave a command at work, 1 name; every argument of create and remove; every act of the user, any git command or save failing; 2 commits on the branch, HEAD and bases at 2 commits | `NoStrandedWorktree`, `ForgottenOnlyWhenGone`, `UncommittedKept`, `CommitsKept`, `FreshWorkRefused` |
| `progress` | 3 callers, 2 in one process; create, list; crash, failing saves, calls that fail at the lock, the load or in git; `FairSpec` | `CallReturns` |
| `panel` | 2 handlers, 2 worktrees, fetches may fail | `PanelTypeOK`, `SelectionInRange`, `PanelOpenAgrees`, `ViewAgrees`, `EnterFollowsFresh` |
| `host` | 4 file systems, protocols 2 to 4, 2 sessions, 3 events from 3 directories; names of up to 4 characters, cut at 3 | `PinnedInSession`, `QuietIffUseless`, `KeyIsRepository`, `HintsResolve`, `RowPerWorktree`, `CwdWorktreeTold`, `NameIsStable` |

The largest are `registry` with 1.8 million distinct states, `work` with 0.9 and
`host` with 0.3 million.

`claims` is reduced by the symmetry of the two sessions and `registry` by that of
the two names: both are only compared with each other, no definition chooses
among them, and neither run has a liveness property. The others use no symmetry.

Why these bounds are enough to be of interest. Two processes are what it takes
to interleave, and the file lock makes a third wait like the second; `progress`
has three callers since a mutex and a flock only compete with two of them in one
process. Time up to 2 with a TTL of 1 lets a claim be younger than, as old as
and older than the TTL, and two ticks a second let the stamp be cut. Two names
are there where an operation on one may disturb another (`prune`, `reconcile`, a
stale save). Two commits on a branch tell a resumed base from the one the branch
left from, and two places for HEAD let the recorded base be before and after the
branch's start. No run but `claims` needs more than the one owner there is without
sessions, as only claims tell owners apart.

In `host`, three events are a start, a move and one more of either, or a session
entered, left and entered again elsewhere; the four file systems put in /p only a
stray `.git`, a repository after a stray one, two repositories, or two stray ones
before a repository, with the data directory named directly or through a link. The
scan probes 2 and names 1, so that both limits are met and both cut. From a worktree
one `repo_root` leads into another repository, so that the caller's directory and the
listed repository differ. Of the names of 4 characters those that start with a letter
are typed; longer names repeat the same runs and cuts.

`NoStrandedWorktree` allows one unregistered worktree for each process that has
died, because the code does not recover from a death between `worktree add` and
the save: the worktree stays unregistered and the next create of its name is
refused. It and `ForgottenOnlyWhenGone` are about the worktrees that the registry has
to know (`Managed`): those the extension made, but for one whose failed removal it
passed over (`kept`: see `removed_locked` below; the forced remove of a Create that
could not save may fail as well, and nobody looks) and one whose deleted directory a
link hides (see `linked_data`). `ForgottenOnlyWhenGone` also exempts one that a dead
process's `worktree add` has brought back (`late`). The two runs divide the cases: in
`registry` the data directory is linked and two processes interleave, in `work` it is
not and every git command may fail.

`FreshWorkRefused` is about the branches that Create made and unforced Removes of
worktrees that are there. It holds of commits on no upstream, wherever HEAD and the
base's ref have gone. It does not say that Remove refuses nothing else: with a base
recorded before the branch's start, one with no commits of its own may be refused.
`hasUnmergedWork` takes a failed git command for no work; that is the event `probeerr`,
which no run has.

`QuietIffUseless` is stated for a host that awaits the handler, and where the scan is
not cut short.

### Fairness

`CallReturns` is the only liveness property. It assumes

* weak fairness of `Work(c)` elsewhere than at the file lock: a handler that can run does, and git commands and
  file operations end. It does not count the wait for the file lock: that may fail
  (`acquireLock`), but nothing makes it;
* strong fairness of `TakeMutex(c)`: Go's `sync.Mutex` hands itself to a waiter
  that has starved for a millisecond;
* strong fairness of `TakeFlock(c)`: an assumption on the kernel, which wakes the
  waiters of a flock whenever it is released. Nothing in the code adds to it.

Nothing is assumed of the arrival of calls, the clock, the user or crashes.

### Disagreements between the code and what is said of it

Each of these runs checks one property that a document or comment states, and
TLC finds it violated by what the code does. `PROJECT.json` quotes the lines.

| Run | Property | What happens |
|---|---|---|
| `linked_data` | `UnknownDropped` | Behind a linked data directory, the entry of a worktree whose directory was deleted is dropped though git still lists it, and the name cannot be created again |
| `removed_locked` | `RemovedIsGone` | Removing a locked worktree fails in git, the fallback prune "succeeds", and Remove reports and forgets it |
| `resumed_work` | `UnmergedRefused` | After remove and create again, earlier commits on the branch are under the new base, and an unforced Remove accepts |
| `vanished_work` | `NothingToProtect` | With the directory gone, an unforced Remove with `delete_branch` deletes unmerged commits |
| `panel_race` | `EnterFollowsCursor` | A refresh has stored a new list that is not shown yet; Enter acts on it |
| `linked_cwd` | `KeyIsRepository` | From a link into a subdirectory, git's relative answer is joined to the link's path: the call uses another key than the repository's |

With `linked_cwd`, two repositories entered through such links can meet in one
key, and each one's reconcile then drops the other's entries.

More were met while modelling and have no run of their own:

* HEAD, or the ref given as `base`, may move between `Create`'s `rev-parse`
  (`worktree.go:212`) and its `worktree add ... <ref>` (`:225`): the recorded base is
  then not "the commit it was branched from" (the extension's README, line 7), but an
  earlier or a later one, or one of another line, and `Collect` counts from there.
  `FreshWorkRefused` is what still holds.
* A git command that fails in `hasUnmergedWork` is taken for no unmerged work
  (`git.go:142-153`), so that an unforced Remove goes on; the code calls it best effort.
* A session's end does not make its claims stale while its process runs
  (`worktree.go:64-71`; the extension's README calls such a claim stale).
* `Create` takes a stale claim over and reports only a reuse
  (`worktree.go:171-179`; the comment at line 56: "never silently reclaimed").
* A claim made without a session is never its maker's own, so its maker cannot
  release it (`worktree.go:61`, `391`).
* `/worktree` marks the panel open before the fetch that may fail, and does not
  take it back (`app.go:266-273`). `PanelOpenAgrees` says that the two differ in no other way.
* A tool call's refresh and a key that overlap may leave a view of the mode or the list
  of before on the panel (`app.go:284`, `:305`), until the next refresh by itself.
* An unmanaged worktree nested deeper under the worktrees directory is not listed
  when its last element is a managed name (`worktree.go:511`), and unmanaged rows
  say `available` though neither `Create` nor `Claim` takes them (`:186`, `:313`).
* The scan for repositories skips links and bare repositories and stops after
  eight `.git` entries; a workspace that has only such children goes quiet though
  `repo_root` would reach them.
* A start that a /cd follows at once, from a host that does not await the handler,
  leaves the session with what the one before it had: the id is pinned before the
  host has been told (`app.go:74`).
* The collect view says "(nothing to collect)" of a row it marks unpushed
  (`render.go:123-131`); `main.go:53` calls the session handler a no-op, which it
  no longer is.

### Mutants

Every property of a passing run has a mutated definition beside the one it
replaces, marked `Mutant:`, that breaks it: a shared flock, a lock kept on a
path, a TTL off by one, a claim set on a copy, a claim without its pid, raw paths
in `reconcile`, entries kept though their worktrees are gone, no rollback, an error of
prune not looked at, `--force` always passed, the branch always deleted, a branch with an
upstream taken for pushed, a reclaim that is not said; every event decided
anew, tools never restored, paths cleaned but not resolved, stray `.git` entries
taken for repositories, the worktrees directory compared as the host names it,
`cwd_worktree` looked up among the filtered rows, a cut name left with its dash;
a selection left at -1 by an empty list, a room check off by one, a key that redraws instead of fetching, rows counted
from the end, a close nobody hears of.

## 4. What is proved

Each theorem holds for every value of the constants that satisfies the modules'
named assumptions and its own hypotheses. The manager's are `GitAssumption`,
`ManagerAssumption` (the empty session is not a session, Nil is not a caller, the
TTL is a natural number and a second has at least one tick) and `NilAssumption`
(Nil is no entry, claim, branch, checkout or call). The panel's say that its
worktrees are a finite set of numbers and Nil is neither a listing nor a view;
the session's (`HostAssumption`, `NamesAssumption`), that the protocols are 2 to 4,
the absent session and directory are none of the others, `.git`, `..` and `.` are no
names, the host's directories are paths of names while a `repo_root` may have those
three in it, and each tree is a file system (`IsFileSystem`): what a directory is in
is a directory, a link is not and leads to one, main checkouts are directories, and
there are finitely many linked worktrees, each of a main checkout.

| Theorem | Statement | Where |
|---|---|---|
| `Invariance` | `Spec => []IInv` | always |
| `TypeCorrect` | `Spec => []TypeOK` | always |
| `NoLostUpdate` | `Spec => []SnapshotIsCurrent` | always |
| `ClaimsAreRespected` | `Spec => LiveClaimRespected` | always |
| `LedgerInvariance` | `Spec => []LedgerInv` | always |
| `ToldTheTruth` | `Spec => []ToldIsHeld` | always |
| `LedgerRefined` | `Spec => ImplementsLedger` | always |
| `TheGoneAreNotGiven` | `Spec => []HandedOutIsListed` | always |
| `CommitsAreKept` | `Spec => CommitsKept` | always |
| `UncommittedIsKept` | `Spec => UncommittedKept` | always |
| `FreshWorkIsRefused` | `Spec => FreshWorkRefused` | no failing probe (`probeerr`) |
| `ForgetsTheGone` | `Spec => ForgottenOnlyWhenGone` | always |
| `FewAreStranded` | `Spec => []NoStrandedWorktree` | finitely many processes |
| `PanelTypes` | `Spec => []PanelTypeOK` | always |
| `SelectionStaysInRange` | `Spec => []SelectionInRange` | always |
| `OpenAgrees` | `Spec => []PanelOpenAgrees` | always |
| `PanelShowsWhatKeysActOn` | `Spec => []ViewAgrees` | always |
| `EnterGoesWhereTheCursorIs` | `Spec => EnterFollowsFresh` | always |
| `PinnedForTheSession` | `Spec => PinnedInSession` | always |
| `ShownIsProbed` | `Spec => []QuietAsProbed` | always; the property is about hosts that await handlers |
| `QuietIsUseless` | `Spec => []QuietIffUseless` | always; the property is about such hosts, and scans that are not cut short |
| `HintsCanBeUsed` | `Spec => []HintsResolve` | always |
| `NamesAreStable` | `Spec => []NameIsStable` | always |
| `KeysAreRepositories` | `Spec => []KeyIsRepository` | `CwdsAreOutside` |
| `RowsAreWorktrees` | `Spec => []RowPerWorktree` | `CwdsAreOutside`, `RootsAreReal`, `NoLinkAmongWorktrees` |
| `CwdsAreTold` | `Spec => []CwdWorktreeTold` | these and `OnlyWorktrees` |

*Always* is with every event of the user, of processes and of git, any number of
which happen at any time, and, of the panel, with any number of handlers at once and
any fetch failing. What a property excepts is in its own definition. Of the other
hypotheses, finitely many processes only makes their number one, and `probeerr` is a
failure that the code takes for an answer. The four named ones are about the file
system and explained below.

### Locks, claims and answers

The inductive invariant is

    IInv == TypeOK /\ WorkersHoldFlock /\ SnapshotIsCurrent /\ DecisionStands

*Why the parts are needed.* `SnapshotIsCurrent` is not inductive alone: another
worker's save would break it. Two workers exclude each other because each holds
the one flock (`WorkersHoldFlock`), so a save happens while nobody else has
loaded, and its caller stops working with it. `DecisionStands` says what each
place between a body's decision and its save still knows: the claim to replace
was absent or stale, the claim to clear is the caller's own or stale. It
survives the steps of the others because the clock only goes forward and a dead
process does not come back (`StaleStays`), and because nobody else writes the
registry the decision was made on.

*`ClaimsAreRespected`.* Only the five saves write the registry
(`OnlySavesWrite`), each by a caller whose copy is current and whose decision
stands. So a save that replaces or clears a claim found it stale, and stale is
not live (`StaleIsNotLive`), or found it the caller's own, or is a Remove, or drops
the entry of a path that it did not find in git's list: the cases of `MayTouch`. The
last is a worktree that git has dropped or one that a link hides, whose claim is lost
with it.

The theorem holds of what the code calls live: a running pid and an age up to
the TTL. That a Remove or a reconcile may drop a live claim is what the code
does, and part of the statement.

*`ToldTheTruth`.* `LedgerInv` adds to `IInv` what a caller's place and answer say.
`PlaceFits` relates the place to the operation (only a Create is at `add`, and
there its name has no entry), and says that an answer is there exactly from
`unlock` on. `AnswerFits` says that a caller that has been told it has the
worktree holds the registered claim. It stands until the caller gives the flock
back, since whoever writes the registry holds it (`StepLedgerInv`, from the frame
lemmas `OthersStand`, `CrashStands`, `HostStands`: what a step of another caller,
a crash, or a step of nobody's leaves of a caller's frame).

*`TheGoneAreNotGiven`.* A decision at the save of a claim is about an entry of the
reconciled copy (`DecisionStands`), and so is that of a body which answers at once; the
reconciled copy has only entries whose paths the call found in git's list.

*`LedgerRefined`.* Each save is one settling step of the ledger, and so is each
body that returns early; every other step leaves what the mapping reads. The
lemmas go with the ledger's steps: `NewRegisters`, `ClaimTakes`, `ReleaseClears`,
`RemoveDrops`, `ListForgets` for the saves, `BodyShows`, `Shows` and `OwnIsConfirmed`
for the early returns. What makes them more than bookkeeping: a claim judged
stale in the body lets the ledger `Retake` at the save, for a claim that is stale
has lapsed (`StaleIsLapsed`) and stays so; the new stamp, cut to whole seconds,
is not in the future (`StampIsFresh`); and the caller's request has not changed
since it came in, whatever session its process is in by now.

### The user's work

`CommitsAreKept` and `UncommittedIsKept` are action properties that a step of the
manager can only break by the git command it runs, its own or one that has outlived
its process (`ManagerSteps`). `worktree add` makes a branch only where there is none,
and `branch -D` is left: a live one runs in the Remove whose decision `DecisionStands`
keeps (`BranchStep`), and an orphaned one was started by such a Remove (`Asked`,
`OrphanBranch`). Of uncommitted changes the proof needs that they are in a directory
that is there (`DirtyHasDir`), so that the prune, which takes the worktrees whose
directory is gone, takes none.

`FreshWorkIsRefused`: by `IInv` the entry that Remove decides on is the one on file
(`RemoveReads`). A branch with commits past its start and its upstream answers the
upstream's count with some, and the base's as well, whether the recorded base is before
or after the start.

### Registry against git

`ForgetsTheGone`: `GoneInv` says that whatever a caller is about to drop, by a
reconcile of its listing or a Remove past its `worktree remove`, is none that the
registry has to know, or one that a dead process's `worktree add` brought back
(`DropsTheGone`). A worktree found missing from the listing was not there, or was
hidden; a Remove that goes on has removed its worktree or is marked to have passed
over the failure (`KeptIsGone`). It stays so (`GoneStays`): only a caller that holds the
file lock adds a worktree anew, and it is the same caller (`LockedOut`), while a user's
worktree at such a path is not on the extension's branch (`UserLessens`).

`FewAreStranded` counts. The worktrees that nobody is going to register are those
that git has without an entry, but for the ones a live Create has just added
(`InHand`), and those that a dead process's orphaned `worktree add` has added
(`LateOnes`) or may still add (`AddedByDead`). Their number is at most that of the dead
processes (`LooseBounded`): a crash adds at most the one name of the caller that held
the flock, since callers at `add` and `saveNew` hold it (`CrashLoose`); an orphan that
takes effect moves a name from one part to the other (`LateStays`); all else takes
names away or leaves them (`LooseStays`), as a Create that cannot save takes its
worktree back or marks it as one it could not.

Orphaned commands change git's state at any moment but never the registry, the
locks or anybody's frame: `CommandTyping`, `NewCheckoutType`, `LeftRunningType` and
`OrphanTyping` say that what a dying process leaves is a command, and that a
command leaves a repository.

### The panel

`SelectionStaysInRange` is inductive with the types: `Store` clamps to the rows it
stores (`ClampedInRange`) in the same section, and the keys look at the list they
move in. `OpenAgrees` rests on `OpenInv`: only the user's
handler opens and closes, one at a time, so the application takes the panel for open
without one only while a command is between marking it and showing it (`Opening`), or a
close between the host and `handleClose` (`Closing`), or after a command whose fetch has
failed, whose answer then was an error; and a refresh never opens one.

`PanelShowsWhatKeysActOn` follows a handler that is alone through its places (`Fits`):
from the fetch on it has the mode of the keys, from the store on their list and
selection. `ViewInv` says that of whatever handler there is while the picture is not
`crowded`, that there is one at most, and that a `fresh` panel at rest is of what the
keys act on. It is inductive since a step that leaves the picture uncrowded is one of a
handler alone (`Alone`), whatever others did before it began. With two at once a store
can come between the user's look and the key, which is the run `panel_race`; with a
failing fetch a mode is set whose view is never shown.

### The context pin

`PinnedForTheSession` rests on `PinInv`. `InOrder`: the events on their way are the
host's latest, and the one in hand comes right before them. `LatestEnters`: handling
them one by one leads from the session that is pinned to the host's, and if the last
of them changes it, it is the event that the host entered its session with.
`ShowsAtEntry`: a handler past its decision was set off by an event that entered a
session, so that if the event is still the latest, the host has just entered. A
handler that comes late is not heeded, and one that is heeded is at the start.

`ShownIsProbed` adds, for a host that awaits each handler, `KnowsTheHost` (what the
extension knows of session and directory is what the host is at, but for the event
on its way), `StillAtHome` (the probe looks where the session was entered) and
`ShownAsProbed` (the policy, then the tools, are what it finds there, and later events
of the session leave them). That the probe is stable from one step to the next is
proved from the definitions of the path operators (`ResolvedStays` to
`AvailableStays`), as the file system stays. `QuietIsUseless` then compares the probe
with the calls (`ServesAsProbed`).

### Paths, repositories and lists

What `Resolved`, `Clean`, `Among` and `ParsePorcelain` compute are folds over
sequences, and the prover has no induction rule that takes a predicate. `Inductions`
has one for a set: a set of numbers with 0 and each successor has them all, since
what it lacks would have a least element (`WFMin` of the library, a fact about sets).
From it, `FoldRuns` says that a fold is the end of a run of its steps through the
sequence, for steps that are given as functions; `ResolvedRuns`, `CleanRuns`,
`AmongRuns`, `ParseRuns` say so of each operator, and `ResolvedOfAppend`,
`CleanOfAppend`, `ParsedOfAppend` what one more element does. All else is proved from
these.

*`QuietIsUseless` and `HintsCanBeUsed`.* A child that is a directory is what
`repo_root` leads to by its name (`ChildTarget`), and in a directory outside of every
repository a child that is in one has it at its own root (`ChildRootIsSeen`), so the
`.git` entries that the scan looks for miss none, and asking git leaves out the
stray ones (`NearbyRange`). Hence the probe answers as the calls would
(`ServesAsProbed`), within the bound on the scan. `HintsInv` keeps that what an error
names are such children, however many the bounds let through.

*`KeysAreRepositories`.* In a main checkout git answers with one `..` for each
element from its root down to the directory that the path *leads to*, and the code
takes as many elements off the path *as it is written* (`CleanOfUps`). That is the
same if these last elements are the same, `TailIsPlain`: going back along the path
from its end, no link is met before the root. `CwdsAreOutside` gives it for the host's
directory: none is reached through a link that leads below a main checkout's root (a
link to the root itself, or above it, is fine). The run `linked_cwd` is the
counterexample without. A `repo_root` needs no such hypothesis: it is made canonical
first, and nothing on a directory's own path is a link (`DirectoryIsPlain`).

*`RowsAreWorktrees` and `CwdsAreTold`.* Git's lines for one worktree, and a blank
one, are parsed to its block (`BlockIsParsed`, `BlankIsParsed`), and so all are, the
last included, which no blank line ends (`FlushedBlock`, `GitListsRoots`). An entry
leads to a worktree if that is at its name in the directory that the data directory
leads to (`EntryLeads`); those with an entry are in the managed rows and no others
(`ManagedRowsAre`), and the rest of that directory in the unmanaged ones
(`UnmanagedRowsAre`), which makes one row for each (`OneRow`). The hypotheses:
`RootsAreReal`, that git knows worktrees by their directories' own paths, as it does
those that it adds; `NoLinkAmongWorktrees`, as an entry with a link at its name leads
to another entry's worktree and gives it a second row; and `OnlyWorktrees` for the
second theorem, since a worktree made by hand deeper in that directory has a row, and
`cwd_worktree` names it by its last element. A tree with such a link, and one with
such a worktree, have TLC find `RowPerWorktree` and `CwdWorktreeTold` violated. Checked as invariants of
the instance of the run `host`, all four hold in every state; its trees have linked
data directories, an entry whose directory is gone, and a worktree with no entry.

### Names

`NamesAreStable` needs no invariant of the session. The loop of `slugify` keeps what
it has written tidy: it does not start with a dash and has no two together
(`StepIsTidy`, `DashedIsTidy`). Trimming leaves no dash at the end
(`TrimDashesTrims`), and the cut trims again (`CutCuts`), so that both hold whatever
the limit. The loop leaves such a name as it is (`TidyStays`).

The inductive invariants were checked by TLC on instances of the runs' size before
they were proved.

## 5. Only model-checked

Liveness (`CallReturns`), which is out of the prover's reach, and the properties of
the disagreeing runs, which do not hold. That the file systems of the instances
satisfy the assumptions is evaluated by TLC at the start of each run.

## 6. Not modelled

* The rows `Collect` assembles after its write, with `aheadCommits`: counts and
  subjects read from git one worktree at a time, that nothing else depends on. The
  commits, `dirty` and `base_ref` of `List`'s rows and the filter on `base_ref`.
* The order of rows in `Listing`; `Panel` has it.
* The JSON of arguments and results; the hash in a repository key; case-insensitive
  file systems, bare repositories; links whose target is gone. TLC tries no
  `repo_root` with `..`; the theorems are about those too.
* Pids given out again, against which the code has the TTL, and a clock that steps
  back, which makes a claim live for longer.
* Rendering (`render.go`), registration (`main.go`), `extutil`, which nothing calls,
  the launcher and the release files: formatting, declarations and build.

## 7. Plan

All modules that were planned are written, and of what the runs check all that the
prover can reach is proved. What would come next:

1. The rows of `Collect` (`worktree.go:701-720`) with `aheadCommits`, on top of
   `Listing`: that its `unpushed` agrees with what a Remove then refuses.
2. The order of the rows in `Listing`, to join it with `Panel`'s listings.
3. Claims in `Listing` refined to `WorktreeManager`'s statuses, so that the filter
   `mine` is about the claim that is live.
