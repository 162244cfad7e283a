----------------------------- MODULE RepoPaths -----------------------------
(***************************************************************************)
(* How src/internal/worktree/repo.go finds the repository a call is about: *)
(* resolveRepo with its key, the scan for repositories nearby, and         *)
(* canonPath.  The file system and git's answers about it are external.    *)
(*                                                                         *)
(* A path is the sequence of its elements from the root.  A symbolic link  *)
(* leads to a directory and its target has no links in it.                 *)
(***************************************************************************)
EXTENDS Integers, SequencesExt, FiniteSetsExt

CONSTANTS
    NameOrder,      \* every path element, in the order os.ReadDir sorts them
    MaxRepoProbe,   \* children with a .git entry that are looked into
    MaxRepoHints    \* repositories an error names

\* The file system: its directories, its links, the roots of the main
\* checkouts, the linked worktrees (root -> the main checkout's root, also of
\* those whose directory is gone), the directories with a .git entry that is
\* no repository, and the extension's data directory as the host names it.
VARIABLE tree

GitDir == ".git"
Up     == ".."
Here   == "."

ASSUME NamesAssumption ==
    NameOrder \in Seq(Range(NameOrder)) /\ {GitDir, Up, Here} \cap Range(NameOrder) = {}

Path == Seq(Range(NameOrder))

\* A file system: what a directory is in is one, a link is none.
IsFileSystem(t) ==
    /\ t.dirs \subseteq Path
    /\ \A d \in t.dirs : d # <<>> => Front(d) \in t.dirs
    /\ t.repos \subseteq t.dirs
    /\ IsFiniteSet(DOMAIN t.linked) /\ DOMAIN t.linked \subseteq Path
    /\ t.linked \in [DOMAIN t.linked -> t.repos]
    /\ DOMAIN t.links \subseteq Path \ t.dirs /\ t.links \in [DOMAIN t.links -> t.dirs]
    /\ t.data \in Path

HasDirectory(p) == p \in tree.dirs

\* filepath.Clean and filepath.Join: by the letters of the path.
Clean(p) ==
    LET step(at, e) == CASE e = Here -> at
                         [] e = Up -> IF at = <<>> THEN at ELSE Front(at)
                         [] OTHER -> Append(at, e)
    IN FoldLeft(step, <<>>, p)

Join(p, q) == Clean(p \o q)

\* Where a path leads once its links are followed.
Resolved(p) ==
    LET step(at, e) ==
            LET q == Append(at, e) IN
            IF q \in DOMAIN tree.links THEN tree.links[q] ELSE q
    IN FoldLeft(step, <<>>, p)

Exists(p) ==
    HasDirectory(p) \/ (p # <<>> /\ Last(p) = GitDir /\ Front(p) \in tree.repos)

\* Mutant: paths are cleaned, their links not followed.
CleanOnly(p) == Clean(p)

CanonPath(p) ==
    IF Exists(Resolved(Clean(p))) THEN Resolved(Clean(p)) ELSE Clean(p)

----------------------------------------------------------------------------
(* What git answers.                                                       *)

\* The roots of the checkouts, main or linked, that p is inside of.
RootsAbove(p) ==
    {r \in tree.repos \cup (DOMAIN tree.linked \cap tree.dirs) : IsPrefix(r, Resolved(p))}

\* `git -C p rev-parse` finds a repository.
InRepo(p) == HasDirectory(Resolved(p)) /\ RootsAbove(p) # {}

\* `rev-parse --show-toplevel`: the innermost of them.
TopLevel(p) == CHOOSE r \in RootsAbove(p) : \A s \in RootsAbove(p) : Len(s) <= Len(r)

\* `rev-parse --git-common-dir`: in a linked worktree the path of the main
\* checkout's .git; in the main checkout the way up to it from the directory
\* that p leads to.
CommonDirIsAbsolute(p) == TopLevel(p) \in DOMAIN tree.linked

CommonDir(p) ==
    IF CommonDirIsAbsolute(p) THEN Append(tree.linked[TopLevel(p)], GitDir)
    ELSE [i \in 1..(Len(Resolved(p)) - Len(TopLevel(p))) |-> Up] \o <<GitDir>>

\* The repository that a directory belongs to, by its .git.
RepositoryOf(p) ==
    Append(IF TopLevel(p) \in DOMAIN tree.linked THEN tree.linked[TopLevel(p)]
           ELSE TopLevel(p), GitDir)

----------------------------------------------------------------------------
(* The scan for repositories one directory down.                           *)

HasDotGit(p) == p \in tree.repos \cup DOMAIN tree.linked \cup tree.stray

\* The elements of a sequence that are in a set, in their order.
Among(s, S) == FoldLeft(LAMBDA out, e : IF e \in S THEN Append(out, e) ELSE out, <<>>, s)

\* The children of a directory that are directories, not links, and have a
\* .git entry.
Candidates(cwd) ==
    Among(NameOrder, {n \in Range(NameOrder) :
                         LET child == Append(Resolved(cwd), n) IN
                         HasDirectory(child) /\ HasDotGit(child)})

AtMost(k, s) == IF Len(s) > k THEN SubSeq(s, 1, k) ELSE s

\* Mutant: a child with a .git entry is taken for a repository.
Unconfirmed(cwd) == AtMost(MaxRepoProbe, Candidates(cwd))

NearbyRepos(cwd) ==
    LET probed == AtMost(MaxRepoProbe, Candidates(cwd)) IN
    Among(probed, {n \in Range(probed) : InRepo(Append(cwd, n))})

GitAvailable(dir) == InRepo(dir) \/ NearbyRepos(dir) # <<>>

----------------------------------------------------------------------------
(* The repository of a call.                                               *)

\* The repo_root argument: left out, relative to the cwd, or absolute.
RepoRoot == [kind : {"none", "rel", "abs"},
             path : Seq(Range(NameOrder) \cup {GitDir, Up, Here})]
NoRoot == [kind |-> "none", path |-> <<>>]
Rel(p) == [kind |-> "rel", path |-> p]
Abs(p) == [kind |-> "abs", path |-> p]

\* The directory git is run in.
TargetDir(cwd, root) ==
    CASE root.kind = "none" -> cwd
      [] root.kind = "rel" -> CanonPath(Join(cwd, root.path))
      [] root.kind = "abs" -> CanonPath(root.path)

\* The repository's key: its canonical .git, of which repoKey takes a hash.
Key(dir) == CanonPath(IF CommonDirIsAbsolute(dir) THEN CommonDir(dir)
                      ELSE Join(dir, CommonDir(dir)))

\* resolveRepo: a key, or an error that names repositories nearby.
ResolveRepo(cwd, root) ==
    LET dir == TargetDir(cwd, root) IN
    IF InRepo(dir) THEN [ok |-> TRUE, dir |-> dir, key |-> Key(dir), hints |-> <<>>]
    ELSE [ok |-> FALSE, dir |-> dir, key |-> <<>>,
          hints |-> IF root.kind = "none" THEN AtMost(MaxRepoHints, NearbyRepos(cwd))
                    ELSE <<>>]

\* repoKey's readable prefix, which stands here for the whole key.
KeyName(key) == IF Len(key) > 1 THEN key[Len(key) - 1] ELSE "repo"

WorktreesDir(key) == Append(tree.data, KeyName(key))
WorktreePath(key, n) == Append(WorktreesDir(key), n)
============================================================================
