------------------------------ MODULE Listing ------------------------------
(***************************************************************************)
(* What the list tool reports: `git worktree list --porcelain` as git.go   *)
(* parses it, joined with the registry as List in worktree.go does it.     *)
(***************************************************************************)
EXTENDS RepoPaths

CONSTANTS Session, NoSession, Nil

VARIABLE entries  \* the registries: key -> name -> the claiming session, or Nil

----------------------------------------------------------------------------
(* The porcelain text, a line of it being a key and a value.               *)

Line(key, val) == [key |-> key, val |-> val]
Blank == Line("", <<>>)

\* git: a block for each worktree, the main one first, a blank line after each
\* but the last, whose blank line runGit trims.  HEAD stands for every line of
\* a block but its first: which rows there are is no matter of theirs.
Block(root) == <<Line("worktree", root), Line("HEAD", <<>>)>>

Porcelain(repository) ==
    LET main  == Front(repository)
        roots == <<main>> \o SetToSeq({r \in DOMAIN tree.linked : tree.linked[r] = main})
    IN FoldLeft(LAMBDA text, r : text \o <<Blank>> \o Block(r), Block(main), Tail(roots))

\* The worktrees parsed so far with the one whose block is under way.
Flushed(st) ==
    IF st.cur = {} THEN st.res
    ELSE LET wt == CHOOSE w \in st.cur : TRUE
             cp == CanonPath(wt)
         IN [p \in DOMAIN st.res \cup {cp} |-> IF p = cp THEN wt ELSE st.res[p]]

\* One line: cur has the worktree whose block is under way, or none.
ParseLine(st, line) ==
    CASE line.key = "" -> [cur |-> {}, res |-> Flushed(st)]
      [] line.key = "worktree" -> [cur |-> {line.val}, res |-> Flushed(st)]
      [] OTHER -> st

\* Canonical path -> path as git has it; no blank line follows the last block.
ParsePorcelain(text) ==
    Flushed(FoldLeft(ParseLine, [cur |-> {}, res |-> [p \in {} |-> p]], text))

----------------------------------------------------------------------------
(* The rows.                                                               *)

EntriesOf(key) == IF key \in DOMAIN entries THEN entries[key] ELSE [n \in {} |-> Nil]

\* The names of the entries that reconcile keeps: those git still lists.
Known(key, gwts) ==
    {n \in DOMAIN EntriesOf(key) : CanonPath(WorktreePath(key, n)) \in DOMAIN gwts}

\* status and mine are the filter's; an empty status matches any.
Filter == [status : {"", "available", "claimed"}, mine : BOOLEAN]

Matches(f, row) ==
    /\ f.status # "" => row.status = f.status
    /\ f.mine => row.self

\* A row for each entry that is kept, in the order of their names.
ManagedRows(key, gwts, session) ==
    LET claim == EntriesOf(key)
        names == Among(NameOrder, Known(key, gwts))
        row(n) == [name |-> n, path |-> WorktreePath(key, n), unmanaged |-> FALSE,
                   status |-> IF claim[n] = Nil THEN "available" ELSE "claimed",
                   self |-> claim[n] # Nil /\ session # NoSession /\ claim[n] = session]
    IN [i \in DOMAIN names |-> row(names[i])]

\* Mutant: the worktrees directory is compared as the host names it.
RawDir(key) == WorktreesDir(key)

ListedDir(key) == CanonPath(WorktreesDir(key))

\* The worktrees git lists below the worktrees directory that no entry has the
\* name of; git's map gives them in any order.
UnmanagedRows(key, gwts, managed) ==
    {[name |-> Last(gwts[p]), path |-> gwts[p], unmanaged |-> TRUE,
      status |-> "available", self |-> FALSE] :
        p \in {q \in DOMAIN gwts :
                 /\ IsStrictPrefix(ListedDir(key), q)
                 /\ \A i \in DOMAIN managed : managed[i].name # Last(gwts[q])}}

\* cwd_worktree: the row of the worktree that the cwd, not repo_root, is in.
CwdWorktree(cwd, rows) ==
    LET here == {r \in rows : InRepo(cwd) /\ CanonPath(r.path) = CanonPath(TopLevel(cwd))} IN
    IF here = {} THEN Nil ELSE (CHOOSE r \in here : TRUE).name

\* Mutant: cwd_worktree is looked up among the rows the filter has kept.
CwdAmongKept(all, kept) == kept

CwdAmong(all, kept) == all

\* listWorktrees.
Worktrees(dir) == ParsePorcelain(Porcelain(RepositoryOf(dir)))

List(cwd, session, root, filter) ==
    LET repo == ResolveRepo(cwd, root)
        gwts == Worktrees(repo.dir)
        managed == ManagedRows(repo.key, gwts, session)
        rows == Range(managed) \cup UnmanagedRows(repo.key, gwts, managed)
        kept == {r \in rows : Matches(filter, r)}
    IN
    IF ~repo.ok THEN [kind |-> "refused", cwd |-> cwd, root |-> root, hints |-> repo.hints]
    ELSE [kind |-> "listed", cwd |-> cwd, root |-> root, dir |-> repo.dir, key |-> repo.key,
          filter |-> filter, rows |-> kept, here |-> CwdWorktree(cwd, CwdAmong(rows, kept))]

\* The registries once the one that is listed has been reconciled and saved.
Reconciled(cwd, root) ==
    LET repo == ResolveRepo(cwd, root)
        known == Known(repo.key, Worktrees(repo.dir))
    IN IF repo.ok THEN [entries EXCEPT ![repo.key] = [n \in known |-> @[n]]] ELSE entries
============================================================================
