--------------------------- MODULE MCHostSession ---------------------------
(***************************************************************************)
(* A few small file systems for HostSession: a repository /a with          *)
(* worktrees under the data directory /d, which /e leads to, and a         *)
(* directory /p of other things.                                           *)
(***************************************************************************)
EXTENDS HostSession

CONSTANTS s1, s2

Names == <<"a", "d", "e", "l", "p", "q", "r", "sub", "w1", "w2", "w3">>

Worktree(n) == <<"d", "a", n>>

\* children: what is in /p, by the set of names with a repository and the set
\* with a stray .git; data: the data directory's name; w2 has lost its directory.
FileSystem(repos, stray, data) ==
    [dirs |-> {<<>>, <<"a">>, <<"a", "sub">>, <<"d">>, <<"d", "a">>, Worktree("w1"),
               Worktree("w3"), <<"p">>} \cup {<<"p", n>> : n \in repos \cup stray},
     links |-> [p \in {<<"e">>, <<"l">>} |-> IF p = <<"e">> THEN <<"d">> ELSE <<"a", "sub">>],
     repos |-> {<<"a">>} \cup {<<"p", n>> : n \in repos},
     linked |-> [p \in {Worktree(n) : n \in {"w1", "w2", "w3"}} |-> <<"a">>],
     stray |-> {<<"p", n>> : n \in stray},
     data |-> data,
     entries |-> [k \in {<<"a", GitDir>>} |-> [n \in {"w1", "w2"} |-> IF n = "w1" THEN s1 ELSE Nil]]]

\* In the last, the scan of /p is cut short of the repository.
SomeTrees ==
    {FileSystem({}, {"q"}, <<"d">>), FileSystem({"r"}, {"q"}, <<"e">>),
     FileSystem({"q", "r"}, {}, <<"e">>), FileSystem({"sub"}, {"q", "r"}, <<"d">>)}

OneTree == {FileSystem({}, {}, <<"d">>)}

\* /l leads below the root of /a; only repo_root goes there.
SomeCwds == {<<"a", "sub">>, <<"p">>, <<"e", "a", "w1">>}
LinkCwds == {<<"a">>, <<"l">>}

\* From any of them the second leads to /p/q, in one of the worktrees from
\* inside another repository.
SomeRoots == {NoRoot, Rel(<<Up, Up, Up, "p", "q">>), Abs(<<"l">>), Abs(Worktree("w3"))}
OnlyCwd == {NoRoot}

SomeFilters == {[status |-> "", mine |-> FALSE], [status |-> "", mine |-> TRUE]}

\* A name as long as that and with another start is read as a shorter one, or as
\* one of these.
Typed == UNION {[1..k -> Character] : k \in 1..3}
         \cup {<<Letter>> \o rest : rest \in [1..3 -> Character]}
NoNames == {}
============================================================================
