---------------------------- MODULE PathProofs ----------------------------
(***************************************************************************)
(* Proofs about paths, repositories and lists, for every file system:      *)
(* where a path leads, what the scan for repositories finds, when the key  *)
(* of a call is its repository's, what is parsed of git's list of          *)
(* worktrees, and which rows there are for them.                           *)
(***************************************************************************)
EXTENDS Listing, Inductions, FiniteSetTheorems

\* The elements of the paths that lead somewhere; a repository at the root of the
\* file system is called "repo".
Piece == Range(NameOrder) \cup {GitDir, "repo"}
Place == Seq(Piece)

\* One element on the way to where a path leads.
Follow(at, e) ==
    LET q == Append(at, e) IN
    IF q \in DOMAIN tree.links THEN tree.links[q] ELSE q

\* It leads to a path.
LEMMA FollowType ==
    ASSUME IsFileSystem(tree), NEW at \in Place, NEW e \in Piece
    PROVE  Follow(at, e) \in Place
<1>1. Append(at, e) \in Place
    BY DEF Place
<1>2. tree.dirs \subseteq Place
    BY DEF IsFileSystem, Path, Place, Piece
<1> QED
    BY <1>1, <1>2 DEF Follow, IsFileSystem

\* The elements of a path are followed in order.
LEMMA ResolvedRuns ==
    ASSUME IsFileSystem(tree), NEW p \in Seq(Piece)
    PROVE  \E at \in [0..Len(p) -> Place] :
               /\ at[0] = <<>>
               /\ \A k \in 1..Len(p) : at[k] = Follow(at[k - 1], p[k])
               /\ at[Len(p)] = Resolved(p)
<1> DEFINE n == Len(p)
           A == Place
           g == [k \in 1..n |-> [x \in A |-> Follow(x, p[k])]]
           Fits(iter) == iter = [t \in SUBSET DOMAIN p |->
                             IF t = {} THEN <<>> ELSE Follow(iter[t \ {Max(t)}], p[Max(t)])]
           it == CHOOSE iter : Fits(iter)
<1>1. n \in Nat /\ DOMAIN p = 1..n /\ <<>> \in A /\ g \in [1..n -> [A -> A]]
    <2>1. \A k \in 1..n : p[k] \in Piece
        OBVIOUS
    <2>2. \A k \in 1..n, x \in A : Follow(x, p[k]) \in A
        BY <2>1, FollowType
    <2>3. <<>> \in A
        BY DEF Place
    <2> QED
        BY <2>2, <2>3
<1>2. Resolved(p) = it[1..n]
    BY <1>1 DEF Resolved, Follow, FoldLeft, MapThenFoldSet
<1>3. \A k \in 1..n, x \in A : g[k][x] = Follow(x, p[k])
    OBVIOUS
<1>4. \A t \in SUBSET (1..n) : t # {} => Max(t) \in 1..n
    BY <1>1, MaxBelow
<1> HIDE DEF n, A, g
<1>5. PICK h \in [SUBSET (1..n) -> A] : FoldsTo(h, <<>>, g, n)
    BY <1>1, FoldExists
<1>6. Fits(h)
    <2>1. \A t \in SUBSET (1..n) :
              h[t] = IF t = {} THEN <<>> ELSE Follow(h[t \ {Max(t)}], p[Max(t)])
        BY <1>3, <1>4, <1>5 DEF FoldsTo
    <2> QED
        BY <1>1, <2>1
<1>7. Fits(it)
    <2> HIDE DEF Fits
    <2> QED
        BY <1>6
<1> HIDE DEF it
<1>8. Folds(it, A, <<>>, g, n)
    BY <1>1, <1>3, <1>4, <1>7 DEF Folds
<1>9. PICK at \in [0..n -> A] : RunOf(at, <<>>, g, n) /\ at[n] = it[1..n]
    BY <1>1, <1>8, FoldRuns
<1>10. \A k \in 1..n : at[k] = Follow(at[k - 1], p[k])
    BY <1>1, <1>3, <1>9 DEF RunOf
<1> QED
    BY <1>2, <1>9, <1>10 DEF RunOf, n, A

\* One element cleaned.
Tidied(at, e) ==
    CASE e = Here -> at
      [] e = Up -> IF at = <<>> THEN at ELSE Front(at)
      [] OTHER -> Append(at, e)

Typed == Piece \cup {Here, Up}

\* What is tidied is a path without dots.
LEMMA TidiedType ==
    ASSUME NEW at \in Place, NEW e \in Typed
    PROVE  Tidied(at, e) \in Place
<1>1. at # <<>> => Front(at) \in Place
    BY DEF Front, Place
<1>2. e \notin {Here, Up} => Append(at, e) \in Place
    BY DEF Typed, Place
<1> QED
    BY <1>1, <1>2 DEF Tidied

\* The elements of a path are cleaned in order.
LEMMA CleanRuns ==
    ASSUME NEW p \in Seq(Typed)
    PROVE  \E at \in [0..Len(p) -> Place] :
               /\ at[0] = <<>>
               /\ \A k \in 1..Len(p) : at[k] = Tidied(at[k - 1], p[k])
               /\ at[Len(p)] = Clean(p)
<1> DEFINE n == Len(p)
           A == Place
           g == [k \in 1..n |-> [x \in A |-> Tidied(x, p[k])]]
           Fits(iter) == iter = [t \in SUBSET DOMAIN p |->
                             IF t = {} THEN <<>> ELSE Tidied(iter[t \ {Max(t)}], p[Max(t)])]
           it == CHOOSE iter : Fits(iter)
<1>1. n \in Nat /\ DOMAIN p = 1..n /\ <<>> \in A /\ g \in [1..n -> [A -> A]]
    <2>1. \A k \in 1..n : p[k] \in Typed
        OBVIOUS
    <2>2. \A k \in 1..n, x \in A : Tidied(x, p[k]) \in A
        BY <2>1, TidiedType
    <2>3. <<>> \in A
        BY DEF Place
    <2> QED
        BY <2>2, <2>3
<1>2. Clean(p) = it[1..n]
    BY <1>1 DEF Clean, Tidied, FoldLeft, MapThenFoldSet
<1>3. \A k \in 1..n, x \in A : g[k][x] = Tidied(x, p[k])
    OBVIOUS
<1>4. \A t \in SUBSET (1..n) : t # {} => Max(t) \in 1..n
    BY <1>1, MaxBelow
<1> HIDE DEF n, A, g
<1>5. PICK h \in [SUBSET (1..n) -> A] : FoldsTo(h, <<>>, g, n)
    BY <1>1, FoldExists
<1>6. Fits(h)
    <2>1. \A t \in SUBSET (1..n) :
              h[t] = IF t = {} THEN <<>> ELSE Tidied(h[t \ {Max(t)}], p[Max(t)])
        BY <1>3, <1>4, <1>5 DEF FoldsTo
    <2> QED
        BY <1>1, <2>1
<1>7. Fits(it)
    <2> HIDE DEF Fits
    <2> QED
        BY <1>6
<1> HIDE DEF it
<1>8. Folds(it, A, <<>>, g, n)
    BY <1>1, <1>3, <1>4, <1>7 DEF Folds
<1>9. PICK at \in [0..n -> A] : RunOf(at, <<>>, g, n) /\ at[n] = it[1..n]
    BY <1>1, <1>8, FoldRuns
<1>10. \A k \in 1..n : at[k] = Tidied(at[k - 1], p[k])
    BY <1>1, <1>3, <1>9 DEF RunOf
<1> QED
    BY <1>2, <1>9, <1>10 DEF RunOf, n, A

\* One element kept or left out.
Kept(S, out, e) == IF e \in S THEN Append(out, e) ELSE out

\* The elements of a sequence are kept in order.
LEMMA AmongRuns ==
    ASSUME NEW S, NEW T, NEW s \in Seq(T)
    PROVE  \E at \in [0..Len(s) -> Seq(T)] :
               /\ at[0] = <<>>
               /\ \A k \in 1..Len(s) : at[k] = Kept(S, at[k - 1], s[k])
               /\ at[Len(s)] = Among(s, S)
<1> DEFINE n == Len(s)
           A == Seq(T)
           g == [k \in 1..n |-> [x \in A |-> Kept(S, x, s[k])]]
           Fits(iter) == iter = [t \in SUBSET DOMAIN s |->
                             IF t = {} THEN <<>> ELSE Kept(S, iter[t \ {Max(t)}], s[Max(t)])]
           it == CHOOSE iter : Fits(iter)
<1>1. n \in Nat /\ DOMAIN s = 1..n /\ <<>> \in A /\ g \in [1..n -> [A -> A]]
    BY DEF Kept
<1>2. Among(s, S) = it[1..n]
    BY <1>1 DEF Among, Kept, FoldLeft, MapThenFoldSet
<1>3. \A k \in 1..n, x \in A : g[k][x] = Kept(S, x, s[k])
    OBVIOUS
<1>4. \A t \in SUBSET (1..n) : t # {} => Max(t) \in 1..n
    BY <1>1, MaxBelow
<1> HIDE DEF n, A, g
<1>5. PICK h \in [SUBSET (1..n) -> A] : FoldsTo(h, <<>>, g, n)
    BY <1>1, FoldExists
<1>6. Fits(h)
    <2>1. \A t \in SUBSET (1..n) :
              h[t] = IF t = {} THEN <<>> ELSE Kept(S, h[t \ {Max(t)}], s[Max(t)])
        BY <1>3, <1>4, <1>5 DEF FoldsTo
    <2> QED
        BY <1>1, <2>1
<1>7. Fits(it)
    <2> HIDE DEF Fits
    <2> QED
        BY <1>6
<1> HIDE DEF it
<1>8. Folds(it, A, <<>>, g, n)
    BY <1>1, <1>3, <1>4, <1>7 DEF Folds
<1>9. PICK at \in [0..n -> A] : RunOf(at, <<>>, g, n) /\ at[n] = it[1..n]
    BY <1>1, <1>8, FoldRuns
<1>10. \A k \in 1..n : at[k] = Kept(S, at[k - 1], s[k])
    BY <1>1, <1>3, <1>9 DEF RunOf
<1> QED
    BY <1>2, <1>9, <1>10 DEF RunOf, n, A

----------------------------------------------------------------------------
(* Element by element.                                                     *)

\* The empty path leads to itself.
LEMMA ResolvedOfNone ==
    ASSUME IsFileSystem(tree)
    PROVE  Resolved(<<>>) = <<>>
<1>1. <<>> \in Seq(Piece) /\ Len(<<>>) = 0
    OBVIOUS
<1>2. PICK at \in [0..Len(<<>>) -> Place] : at[0] = <<>> /\ at[Len(<<>>)] = Resolved(<<>>)
    BY <1>1, ResolvedRuns
<1> QED
    BY <1>1, <1>2

\* A path leads to a path.
LEMMA ResolvedType ==
    ASSUME IsFileSystem(tree), NEW p \in Place
    PROVE  Resolved(p) \in Place
<1>1. Len(p) \in 0..Len(p) /\ p \in Seq(Piece)
    BY DEF Place
<1> QED
    BY <1>1, ResolvedRuns

\* A path with an element more leads one element on.
LEMMA ResolvedOfAppend ==
    ASSUME IsFileSystem(tree), NEW p \in Place, NEW e \in Piece
    PROVE  Resolved(Append(p, e)) = Follow(Resolved(p), e)
<1> DEFINE n == Len(p)
           q == Append(p, e)
<1>1. /\ p \in Seq(Piece) /\ q \in Seq(Piece) /\ n \in Nat /\ Len(q) = n + 1
      /\ \A k \in 1..n : q[k] = p[k]
      /\ q[n + 1] = e
    BY DEF Place
<1> HIDE DEF n, q
<1>2. PICK a : /\ a[0] = <<>> /\ a[n] = Resolved(p)
               /\ \A k \in 1..n : a[k] = Follow(a[k - 1], p[k])
    BY <1>1, ResolvedRuns DEF n
<1>3. PICK b : /\ b[0] = <<>> /\ b[n + 1] = Resolved(q)
               /\ \A k \in 1..(n + 1) : b[k] = Follow(b[k - 1], q[k])
    BY <1>1, ResolvedRuns
<1>4. Alike(a, b, n)
    <2>1. ASSUME NEW k \in 1..n, a[k - 1] = b[k - 1] PROVE a[k] = b[k]
        <3> k \in 1..(n + 1) /\ q[k] = p[k]
            BY <1>1
        <3> QED
            BY <1>2, <1>3, <2>1
    <2> QED
        BY <1>2, <1>3, <2>1 DEF Alike
<1>5. \A k \in 0..n : a[k] = b[k]
    BY <1>1, <1>4, SameRun
<1>6. b[n + 1] = Follow(b[n], q[n + 1]) /\ a[n] = b[n]
    BY <1>1, <1>3, <1>5
<1> QED
    BY <1>1, <1>2, <1>3, <1>6 DEF q

\* The empty path is clean.
LEMMA CleanOfNone == Clean(<<>>) = <<>>
<1>1. <<>> \in Seq(Typed) /\ Len(<<>>) = 0
    OBVIOUS
<1>2. PICK at \in [0..Len(<<>>) -> Place] : at[0] = <<>> /\ at[Len(<<>>)] = Clean(<<>>)
    BY <1>1, CleanRuns
<1> QED
    BY <1>1, <1>2

\* A path that was cleaned has no dots.
LEMMA CleanType ==
    ASSUME NEW p \in Seq(Typed)
    PROVE  Clean(p) \in Place
<1>1. Len(p) \in 0..Len(p)
    OBVIOUS
<1> QED
    BY <1>1, CleanRuns

\* A path with an element more is cleaned by one element more.
LEMMA CleanOfAppend ==
    ASSUME NEW p \in Seq(Typed), NEW e \in Typed
    PROVE  Clean(Append(p, e)) = Tidied(Clean(p), e)
<1> DEFINE n == Len(p)
           q == Append(p, e)
<1>1. /\ q \in Seq(Typed) /\ n \in Nat /\ Len(q) = n + 1
      /\ \A k \in 1..n : q[k] = p[k]
      /\ q[n + 1] = e
    OBVIOUS
<1> HIDE DEF n, q
<1>2. PICK a : /\ a[0] = <<>> /\ a[n] = Clean(p)
               /\ \A k \in 1..n : a[k] = Tidied(a[k - 1], p[k])
    BY <1>1, CleanRuns DEF n
<1>3. PICK b : /\ b[0] = <<>> /\ b[n + 1] = Clean(q)
               /\ \A k \in 1..(n + 1) : b[k] = Tidied(b[k - 1], q[k])
    BY <1>1, CleanRuns
<1>4. Alike(a, b, n)
    <2>1. ASSUME NEW k \in 1..n, a[k - 1] = b[k - 1] PROVE a[k] = b[k]
        <3> k \in 1..(n + 1) /\ q[k] = p[k]
            BY <1>1
        <3> QED
            BY <1>2, <1>3, <2>1
    <2> QED
        BY <1>2, <1>3, <2>1 DEF Alike
<1>5. \A k \in 0..n : a[k] = b[k]
    BY <1>1, <1>4, SameRun
<1>6. b[n + 1] = Tidied(b[n], q[n + 1]) /\ a[n] = b[n]
    BY <1>1, <1>3, <1>5
<1> QED
    BY <1>1, <1>2, <1>3, <1>6 DEF q

\* A path that was cleaned stays as it is.
LEMMA CleanOfPlace ==
    ASSUME NEW p \in Place
    PROVE  Clean(p) = p
<1> DEFINE T == {q \in Seq(Piece) : Clean(q) = q}
<1>1. <<>> \in T
    BY CleanOfNone
<1>2. ASSUME NEW q \in Seq(Piece), NEW e \in Piece, q \in T PROVE Append(q, e) \in T
    <2>1. q \in Seq(Typed) /\ e \in Typed /\ Append(q, e) \in Seq(Piece)
        BY DEF Typed
    <2>2. e # Here /\ e # Up
        BY NamesAssumption DEF Piece, GitDir, Up, Here
    <2>3. Clean(Append(q, e)) = Append(q, e)
        BY <1>2, <2>1, <2>2, CleanOfAppend DEF Tidied
    <2> QED
        BY <2>1, <2>3
<1>3. Seq(Piece) \subseteq T
    <2> HIDE DEF T
    <2> QED
        BY <1>1, <1>2, SeqInduction
<1> QED
    BY <1>3 DEF Place

\* A directory's path leads to itself.
LEMMA ResolvedOfDirectory ==
    ASSUME IsFileSystem(tree), NEW p \in tree.dirs
    PROVE  Resolved(p) = p
<1> DEFINE T == {q \in Seq(Piece) : q \in tree.dirs => Resolved(q) = q}
<1>1. <<>> \in T
    BY ResolvedOfNone
<1>2. ASSUME NEW q \in Seq(Piece), NEW e \in Piece, q \in T PROVE Append(q, e) \in T
    <2> SUFFICES ASSUME Append(q, e) \in tree.dirs PROVE Resolved(Append(q, e)) = Append(q, e)
        OBVIOUS
    <2>1. Front(Append(q, e)) = q /\ Append(q, e) # <<>>
        BY DEF Front
    <2>2. q \in tree.dirs
        BY <2>1 DEF IsFileSystem
    <2>3. Append(q, e) \notin DOMAIN tree.links
        BY DEF IsFileSystem
    <2> QED
        BY <1>2, <2>2, <2>3, ResolvedOfAppend DEF Follow, Place
<1>3. Seq(Piece) \subseteq T
    <2> HIDE DEF T
    <2> QED
        BY <1>1, <1>2, SeqInduction
<1>4. p \in Seq(Piece)
    BY DEF IsFileSystem, Path, Piece
<1> QED
    BY <1>3, <1>4

\* An appended element joins the others.
LEMMA RangeOfAppend ==
    ASSUME NEW S, NEW s \in Seq(S), NEW e \in S
    PROVE  Range(Append(s, e)) = Range(s) \cup {e}
<1> DEFINE t == Append(s, e)
<1>1. /\ DOMAIN s = 1..Len(s) /\ DOMAIN t = 1..(Len(s) + 1) /\ Len(s) \in Nat
      /\ t[Len(s) + 1] = e /\ \A i \in 1..Len(s) : t[i] = s[i]
    OBVIOUS
<1> HIDE DEF t
<1>2. \A i \in DOMAIN t : i \in DOMAIN s \/ i = Len(s) + 1
    BY <1>1
<1>3. DOMAIN s \subseteq DOMAIN t /\ Len(s) + 1 \in DOMAIN t
    BY <1>1
<1>4. Range(t) = Range(s) \cup {e}
    BY <1>1, <1>2, <1>3 DEF Range
<1> QED
    BY <1>4 DEF t

\* The elements among those of a set are those in both.
LEMMA AmongRange ==
    ASSUME NEW S, NEW T, NEW s \in Seq(T)
    PROVE  Among(s, S) \in Seq(T) /\ Range(Among(s, S)) = Range(s) \cap S
<1>1. PICK at \in [0..Len(s) -> Seq(T)] :
          /\ at[0] = <<>>
          /\ \A k \in 1..Len(s) : at[k] = Kept(S, at[k - 1], s[k])
          /\ at[Len(s)] = Among(s, S)
    BY AmongRuns
<1> DEFINE Good(k) == Range(at[k]) = {s[i] : i \in 1..k} \cap S
           Upto == {k \in Nat : k <= Len(s) => Good(k)}
<1>2. 0 \in Upto
    BY <1>1 DEF Range
<1>3. ASSUME NEW k \in Nat, k \in Upto PROVE k + 1 \in Upto
    <2> SUFFICES ASSUME k + 1 <= Len(s) PROVE Good(k + 1)
        <3> HIDE DEF Good
        <3> QED
            OBVIOUS
    <2>1. at[k] \in Seq(T) /\ s[k + 1] \in T /\ Range(at[k]) = {s[i] : i \in 1..k} \cap S
        BY <1>3
    <2>2. at[k + 1] = Kept(S, at[k], s[k + 1])
        BY <1>1
    <2>3. {s[i] : i \in 1..(k + 1)} = {s[i] : i \in 1..k} \cup {s[k + 1]}
        OBVIOUS
    <2>4. Range(Append(at[k], s[k + 1])) = Range(at[k]) \cup {s[k + 1]}
        BY <2>1, RangeOfAppend
    <2> QED
        BY <2>1, <2>2, <2>3, <2>4 DEF Kept
<1>4. Len(s) \in Upto
    <2> HIDE DEF Upto
    <2> QED
        BY <1>2, <1>3, Induction
<1>5. Range(s) = {s[i] : i \in 1..Len(s)}
    BY DEF Range
<1> QED
    BY <1>1, <1>4, <1>5

----------------------------------------------------------------------------
(* The scan for repositories, and repo_root.                               *)

\* A child that is a directory and no link is what its path leads to, and what
\* repo_root finds by its name.
LEMMA ChildTarget ==
    ASSUME IsFileSystem(tree), NEW cwd \in Path, NEW n \in Range(NameOrder),
           HasDirectory(Append(Resolved(cwd), n))
    PROVE  LET child == Append(Resolved(cwd), n) IN
           /\ Resolved(Append(cwd, n)) = child
           /\ Resolved(child) = child
           /\ TargetDir(cwd, Rel(<<n>>)) = child
           /\ TargetDir(cwd, Rel(<<Here, n>>)) = child
<1> DEFINE child == Append(Resolved(cwd), n)
<1>1. cwd \in Place /\ n \in Piece /\ cwd \in Seq(Typed) /\ n \in Typed /\ Here \in Typed
    BY DEF Path, Place, Piece, Typed
<1>2. child \in tree.dirs /\ child \notin DOMAIN tree.links
    BY DEF HasDirectory, IsFileSystem
<1>3. Resolved(Append(cwd, n)) = child
    BY <1>1, <1>2, ResolvedOfAppend DEF Follow
<1>4. Resolved(child) = child
    BY <1>2, ResolvedOfDirectory
<1>5. Append(cwd, n) \in Place
    BY <1>1 DEF Place
<1>6. cwd \o <<n>> = Append(cwd, n) /\ cwd \o <<Here, n>> = Append(Append(cwd, Here), n)
    BY <1>1
<1>7. Clean(cwd \o <<n>>) = Append(cwd, n)
    BY <1>5, <1>6, CleanOfPlace
<1>8. Clean(cwd \o <<Here, n>>) = Append(cwd, n)
    <2>1. Append(cwd, Here) \in Seq(Typed)
        BY <1>1
    <2>2. Clean(cwd) = cwd
        BY <1>1, CleanOfPlace
    <2>3. Clean(Append(cwd, Here)) = cwd
        <3>1. Clean(Append(cwd, Here)) = Tidied(Clean(cwd), Here)
            BY <1>1, CleanOfAppend
        <3> QED
            BY <2>2, <3>1 DEF Tidied, Here, Up
    <2>4. n # Here /\ n # Up
        BY NamesAssumption DEF Here, Up
    <2> QED
        BY <1>1, <1>6, <2>1, <2>3, <2>4, CleanOfAppend DEF Tidied
<1>9. CanonPath(Append(cwd, n)) = child
    BY <1>2, <1>3, <1>5, CleanOfPlace DEF CanonPath, Exists, HasDirectory
<1> HIDE DEF child
<1>10. TargetDir(cwd, Rel(<<n>>)) = child /\ TargetDir(cwd, Rel(<<Here, n>>)) = child
    BY <1>7, <1>8, <1>9 DEF TargetDir, Rel, Join
<1> QED
    BY <1>3, <1>4, <1>10 DEF child

\* Git finds a repository by where a path leads.
LEMMA InRepoByResolved ==
    ASSUME NEW p, NEW q, Resolved(p) = Resolved(q)
    PROVE  /\ InRepo(p) <=> InRepo(q)
           /\ RootsAbove(p) = RootsAbove(q)
           /\ TopLevel(p) = TopLevel(q)
           /\ RepositoryOf(p) = RepositoryOf(q)
<1>1. RootsAbove(p) = RootsAbove(q)
    BY DEF RootsAbove
<1>2. TopLevel(p) = TopLevel(q)
    BY <1>1 DEF TopLevel
<1> QED
    BY <1>1, <1>2 DEF InRepo, RepositoryOf

\* The first of a sequence are elements of it.
LEMMA AtMostRange ==
    ASSUME NEW k \in Nat, NEW S, NEW s \in Seq(S)
    PROVE  /\ AtMost(k, s) \in Seq(S) /\ Range(AtMost(k, s)) \subseteq Range(s)
           /\ Len(s) <= k => AtMost(k, s) = s
<1>1. CASE Len(s) > k
    <2> DEFINE t == SubSeq(s, 1, k)
    <2>1. t \in Seq(S) /\ DOMAIN t = 1..k /\ 1..k \subseteq DOMAIN s /\ \A i \in 1..k : t[i] = s[i]
        BY <1>1
    <2> HIDE DEF t
    <2>2. Range(t) \subseteq Range(s)
        BY <2>1 DEF Range
    <2> QED
        BY <1>1, <2>1, <2>2 DEF AtMost, t
<1>2. CASE ~(Len(s) > k)
    BY <1>2 DEF AtMost
<1> QED
    BY <1>1, <1>2

\* The scan finds repositories among the children with a .git entry, and all of
\* them if it is not cut short.
LEMMA NearbyRange ==
    ASSUME MaxRepoProbe \in Nat, NEW cwd
    PROVE  LET found == {n \in Range(NameOrder) :
                   /\ HasDirectory(Append(Resolved(cwd), n))
                   /\ HasDotGit(Append(Resolved(cwd), n))
                   /\ InRepo(Append(cwd, n))}
           IN /\ NearbyRepos(cwd) \in Seq(Range(NameOrder))
              /\ Range(NearbyRepos(cwd)) \subseteq found
              /\ Len(Candidates(cwd)) <= MaxRepoProbe => Range(NearbyRepos(cwd)) = found
<1> DEFINE T == Range(NameOrder)
           C == {n \in T : LET child == Append(Resolved(cwd), n) IN
                               HasDirectory(child) /\ HasDotGit(child)}
           probed == AtMost(MaxRepoProbe, Candidates(cwd))
           R == {n \in Range(probed) : InRepo(Append(cwd, n))}
<1>1. NameOrder \in Seq(T)
    BY NamesAssumption
<1>2. Candidates(cwd) = Among(NameOrder, C) /\ C \subseteq T
    BY DEF Candidates
<1> HIDE DEF C, T
<1>3. Candidates(cwd) \in Seq(T) /\ Range(Candidates(cwd)) = Range(NameOrder) \cap C
    BY <1>1, <1>2, AmongRange
<1>4. /\ probed \in Seq(T) /\ Range(probed) \subseteq C
      /\ Len(Candidates(cwd)) <= MaxRepoProbe => Range(probed) = C
    BY <1>2, <1>3, AtMostRange DEF T
<1>5. NearbyRepos(cwd) = Among(probed, R)
    BY DEF NearbyRepos
<1>6. R \subseteq Range(probed)
    OBVIOUS
<1> HIDE DEF probed
<1>7. NearbyRepos(cwd) \in Seq(T) /\ Range(NearbyRepos(cwd)) = R
    <2> HIDE DEF R
    <2>1. NearbyRepos(cwd) \in Seq(T) /\ Range(NearbyRepos(cwd)) = Range(probed) \cap R
        BY <1>4, <1>5, AmongRange
    <2> QED
        BY <1>6, <2>1
<1> QED
    BY <1>4, <1>7 DEF C, T

----------------------------------------------------------------------------
(* The key of a call.                                                      *)

\* The innermost root above a path.
LEMMA TopLevelIs ==
    ASSUME IsFileSystem(tree), NEW p \in Place, RootsAbove(p) # {}
    PROVE  /\ TopLevel(p) \in RootsAbove(p) /\ TopLevel(p) \in tree.dirs
           /\ TopLevel(p) \in Place /\ Len(TopLevel(p)) <= Len(Resolved(p))
           /\ \A i \in 1..Len(TopLevel(p)) : TopLevel(p)[i] = Resolved(p)[i]
           /\ \A s \in RootsAbove(p) : Len(s) <= Len(TopLevel(p))
<1>1. Resolved(p) \in Place
    BY ResolvedType
<1>2. RootsAbove(p) \subseteq tree.dirs /\ tree.dirs \subseteq Place
    BY DEF RootsAbove, IsFileSystem, Path, Place, Piece
<1>3. \A r \in RootsAbove(p) : r \in Place /\ Len(r) \in Nat /\ Len(r) <= Len(Resolved(p))
    BY <1>2 DEF RootsAbove, IsPrefix, Place
<1> DEFINE lens == {Len(r) + 1 : r \in RootsAbove(p)}
           n == Len(Resolved(p)) + 1
<1>4. n \in Nat /\ lens \in SUBSET (1..n) /\ lens # {}
    BY <1>1, <1>3 DEF Place
<1>5. Max(lens) \in lens /\ \A i \in lens : i <= Max(lens)
    <2> HIDE DEF lens, n
    <2> QED
        BY <1>4, MaxBelow
<1>6. PICK r \in RootsAbove(p) : Max(lens) = Len(r) + 1
    BY <1>5
<1>7. \A s \in RootsAbove(p) : Len(s) <= Len(r)
    <2> TAKE s \in RootsAbove(p)
    <2>1. Len(s) + 1 \in lens
        OBVIOUS
    <2>2. Len(s) + 1 <= Len(r) + 1
        <3> HIDE DEF lens
        <3> QED
            BY <1>5, <1>6, <2>1
    <2> QED
        BY <1>3, <2>2
<1>8. TopLevel(p) \in RootsAbove(p) /\ \A s \in RootsAbove(p) : Len(s) <= Len(TopLevel(p))
    BY <1>7 DEF TopLevel
<1>9. IsPrefix(TopLevel(p), Resolved(p))
    BY <1>8 DEF RootsAbove
<1>10. \A i \in 1..Len(TopLevel(p)) : TopLevel(p)[i] = Resolved(p)[i]
    <2> DEFINE t == TopLevel(p)
               q == Resolved(p)
    <2>1. /\ t \in Seq(Piece) /\ q \in Seq(Piece)
          /\ Len(t) <= Len(q) /\ SubSeq(t, 1, Len(t)) = SubSeq(q, 1, Len(t))
        BY <1>1, <1>3, <1>8, <1>9 DEF IsPrefix, Place
    <2> HIDE DEF t, q
    <2>2. \A i \in 1..Len(t) : SubSeq(t, 1, Len(t))[i] = t[i] /\ SubSeq(q, 1, Len(t))[i] = q[i]
        BY <2>1
    <2>3. \A i \in 1..Len(t) : t[i] = q[i]
        BY <2>1, <2>2
    <2> QED
        BY <2>3 DEF t, q
<1> QED
    BY <1>2, <1>3, <1>8, <1>10

\* A prefix and the one before it.
LEMMA PrefixBefore ==
    ASSUME NEW S, NEW s \in Seq(S), NEW m \in 1..Len(s)
    PROVE  /\ SubSeq(s, 1, m) # <<>>
           /\ Front(SubSeq(s, 1, m)) = SubSeq(s, 1, m - 1)
           /\ SubSeq(s, 1, m) = Append(SubSeq(s, 1, m - 1), s[m])
<1> DEFINE t == SubSeq(s, 1, m)
<1>1. t \in Seq(S) /\ Len(t) = m /\ \A i \in 1..m : t[i] = s[i]
    OBVIOUS
<1> HIDE DEF t
<1>2. SubSeq(t, 1, m - 1) = SubSeq(s, 1, m - 1)
    BY <1>1
<1>3. t # <<>> /\ Front(t) = SubSeq(s, 1, m - 1)
    BY <1>1, <1>2 DEF Front
<1>4. t = Append(SubSeq(s, 1, m - 1), s[m])
    BY <1>1
<1> QED
    BY <1>3, <1>4 DEF t

\* Every step up takes one element off.
LEMMA CleanOfUps ==
    ASSUME NEW p \in Place, NEW k \in 0..Len(p)
    PROVE  Clean(p \o [i \in 1..k |-> Up]) = SubSeq(p, 1, Len(p) - k)
<1> DEFINE ups(j) == p \o [i \in 1..j |-> Up]
           Cleaned(j) == Clean(ups(j)) = SubSeq(p, 1, Len(p) - j)
           Upto == {j \in Nat : j <= Len(p) => Cleaned(j)}
<1>1. p \in Seq(Typed) /\ p \in Seq(Piece) /\ Len(p) \in Nat
    BY DEF Place, Typed
<1>2. 0 \in Upto
    <2>1. ups(0) = p /\ SubSeq(p, 1, Len(p) - 0) = p
        BY <1>1
    <2> QED
        BY <2>1, CleanOfPlace
<1>3. ASSUME NEW j \in Nat, j \in Upto PROVE j + 1 \in Upto
    <2> SUFFICES ASSUME j + 1 <= Len(p) PROVE Cleaned(j + 1)
        <3> HIDE DEF Cleaned
        <3> QED
            OBVIOUS
    <2>0. Cleaned(j)
        <3> HIDE DEF Cleaned
        <3> QED
            BY <1>3
    <2>1. ups(j) \in Seq(Typed) /\ Up \in Typed /\ ups(j + 1) = Append(ups(j), Up)
        <3>1. [i \in 1..j |-> Up] \in Seq(Typed) /\ Up \in Typed
            BY DEF Typed
        <3>2. [i \in 1..(j + 1) |-> Up] = Append([i \in 1..j |-> Up], Up)
            OBVIOUS
        <3> DEFINE u == [i \in 1..j |-> Up]
        <3> HIDE DEF u
        <3>3. p \o Append(u, Up) = Append(p \o u, Up) /\ p \o u \in Seq(Typed)
            BY <1>1, <3>1 DEF u
        <3> QED
            BY <3>1, <3>2, <3>3 DEF u
    <2>2. Clean(ups(j)) = SubSeq(p, 1, Len(p) - j)
        BY <2>0
    <2> HIDE DEF ups
    <2>3. Clean(ups(j + 1)) = Tidied(Clean(ups(j)), Up)
        BY <2>1, CleanOfAppend
    <2> DEFINE q == SubSeq(p, 1, Len(p) - j)
    <2>4. q # <<>> /\ Front(q) = SubSeq(p, 1, Len(p) - (j + 1))
        <3>1. Len(p) - j \in 1..Len(p) /\ (Len(p) - j) - 1 = Len(p) - (j + 1)
            BY <1>1
        <3> QED
            BY <1>1, <3>1, PrefixBefore
    <2> HIDE DEF q
    <2> QED
        BY <2>2, <2>3, <2>4 DEF Tidied, Up, Here, q
<1>4. k \in Upto
    <2> HIDE DEF Upto
    <2> QED
        BY <1>2, <1>3, Induction
<1>5. Cleaned(k)
    <2> HIDE DEF Cleaned
    <2> QED
        BY <1>1, <1>4
<1> QED
    BY <1>5

\* The .git of a main checkout is a place of its own.
LEMMA CanonOfGitDir ==
    ASSUME IsFileSystem(tree), NEW c \in Place, Resolved(c) \in tree.repos
    PROVE  CanonPath(Append(c, GitDir)) = Append(Resolved(c), GitDir)
<1> DEFINE g == Append(Resolved(c), GitDir)
<1>1. Append(c, GitDir) \in Place /\ GitDir \in Piece
    BY DEF Place, Piece
<1>2. Clean(Append(c, GitDir)) = Append(c, GitDir)
    BY <1>1, CleanOfPlace
<1>3. Resolved(c) \in Place
    BY ResolvedType
<1>4. Last(g) = GitDir /\ Front(g) = Resolved(c) /\ g # <<>> /\ g \notin Path
    <2>1. Last(g) = GitDir /\ Front(g) = Resolved(c) /\ g # <<>>
        BY <1>3 DEF Last, Front, Place
    <2>2. ASSUME g \in Path PROVE FALSE
        <3>1. Last(g) \in Range(NameOrder)
            BY <2>1, <2>2 DEF Path, Last
        <3> QED
            BY <2>1, <3>1, NamesAssumption
    <2> QED
        BY <2>1, <2>2
<1> HIDE DEF g
<1>5. g \notin DOMAIN tree.links
    BY <1>4 DEF IsFileSystem
<1>6. Resolved(Append(c, GitDir)) = g
    BY <1>1, <1>5, ResolvedOfAppend DEF Follow, g
<1>7. Exists(g)
    BY <1>4 DEF Exists
<1> QED
    BY <1>2, <1>6, <1>7 DEF CanonPath, g

\* No link on the way to where p leads goes below a main checkout's root.
LinksStayOutside(p) ==
    \A i \in 1..Len(p) :
        LET q == Append(Resolved(SubSeq(p, 1, i - 1)), p[i]) IN
        q \in DOMAIN tree.links => \A r \in tree.repos : ~IsStrictPrefix(r, tree.links[q])

\* The last elements of p, as many as there are below the root of its main
\* checkout, are those of the directory that p leads to.
LEMMA TailIsPlain ==
    ASSUME IsFileSystem(tree), NEW p \in Place, LinksStayOutside(p),
           RootsAbove(p) # {}, TopLevel(p) \in tree.repos
    PROVE  LET k == Len(Resolved(p)) - Len(TopLevel(p)) IN
           k \in 0..Len(p) /\ Resolved(SubSeq(p, 1, Len(p) - k)) = TopLevel(p)
<1> DEFINE q == Resolved(p)
           top == TopLevel(p)
           k == Len(q) - Len(top)
           Agree(j) == j <= Len(p) /\ Resolved(SubSeq(p, 1, Len(p) - j)) = SubSeq(q, 1, Len(q) - j)
           Upto == {j \in Nat : j <= k => Agree(j)}
<1>1. p \in Seq(Piece) /\ q \in Seq(Piece) /\ top \in Seq(Piece)
    BY ResolvedType, TopLevelIs DEF Place
<1>2. Len(top) <= Len(q) /\ \A i \in 1..Len(top) : top[i] = q[i]
    BY TopLevelIs
<1>3. k \in Nat /\ Len(p) \in Nat /\ Len(q) \in Nat /\ Len(top) \in Nat
    <2> HIDE DEF q, top
    <2> QED
        BY <1>1, <1>2
<1> HIDE DEF q, top
<1>4. Agree(0)
    <2>1. SubSeq(p, 1, Len(p) - 0) = p /\ SubSeq(q, 1, Len(q) - 0) = q
        BY <1>1, <1>3
    <2>2. Resolved(p) = q /\ 0 <= Len(p)
        BY <1>3 DEF q
    <2> QED
        BY <2>1, <2>2
<1>5. ASSUME NEW j \in Nat, j + 1 <= k, Agree(j) PROVE Agree(j + 1)
    <2> DEFINE m == Len(p) - j
               l == Len(q) - j
    <2>1. j <= Len(p) /\ m \in Nat /\ l \in 1..Len(q) /\ l > Len(top) /\ k = Len(q) - Len(top)
        BY <1>3, <1>5
    <2>2. Resolved(SubSeq(p, 1, m)) = SubSeq(q, 1, l)
        BY <1>5
    <2>3. m # 0
        <3>1. SubSeq(q, 1, l) # <<>>
            <4> HIDE DEF l
            <4> QED
                BY <1>1, <2>1, PrefixBefore
        <3>2. SubSeq(p, 1, 0) = <<>>
            BY <1>1
        <3> QED
            BY <2>2, <3>1, <3>2, ResolvedOfNone
    <2> DEFINE b == SubSeq(p, 1, m - 1)
               x == Append(Resolved(b), p[m])
    <2>4. m \in 1..Len(p) /\ m - 1 = Len(p) - (j + 1) /\ l - 1 = Len(q) - (j + 1)
        BY <1>3, <2>1, <2>3
    <2> HIDE DEF m, l, k
    <2>5. SubSeq(p, 1, m) = Append(b, p[m]) /\ b \in Place /\ p[m] \in Piece
        <3>1. b \in Seq(Piece)
            BY <1>1, <2>4
        <3> QED
            BY <1>1, <2>4, <3>1, PrefixBefore DEF Place
    <2>6. Resolved(SubSeq(p, 1, m)) = Follow(Resolved(b), p[m]) /\ Resolved(b) \in Place
        BY <2>5, ResolvedOfAppend, ResolvedType
    <2>7. x \notin DOMAIN tree.links
        <3> SUFFICES ASSUME x \in DOMAIN tree.links PROVE FALSE
            OBVIOUS
        <3>1. tree.links[x] = SubSeq(q, 1, l)
            BY <2>2, <2>6 DEF Follow
        <3>2. ~IsStrictPrefix(top, tree.links[x])
            BY <2>4 DEF LinksStayOutside, top
        <3> DEFINE t == SubSeq(q, 1, l)
        <3>3. t \in Seq(Piece) /\ Len(t) = l /\ \A i \in 1..l : t[i] = q[i]
            BY <1>1, <2>1
        <3> HIDE DEF t
        <3>4. \A i \in 1..Len(top) : top[i] = t[i]
            BY <1>2, <1>3, <2>1, <3>3
        <3>5. SubSeq(top, 1, Len(top)) = SubSeq(t, 1, Len(top))
            BY <1>1, <1>3, <2>1, <3>3, <3>4
        <3>6. IsStrictPrefix(top, t)
            BY <1>1, <1>3, <2>1, <3>3, <3>5 DEF IsStrictPrefix, IsPrefix
        <3> QED
            BY <3>1, <3>2, <3>6 DEF t
    <2>8. SubSeq(q, 1, l) = x
        BY <2>2, <2>6, <2>7 DEF Follow
    <2>9. SubSeq(q, 1, l) = Append(SubSeq(q, 1, l - 1), q[l])
        BY <1>1, <2>1, PrefixBefore
    <2>10. Resolved(b) = SubSeq(q, 1, l - 1)
        <3>1. Front(x) = Resolved(b)
            BY <2>5, <2>6 DEF Front, Place
        <3>2. Front(SubSeq(q, 1, l)) = SubSeq(q, 1, l - 1)
            BY <1>1, <2>1, PrefixBefore
        <3> QED
            BY <2>8, <3>1, <3>2
    <2> QED
        BY <1>3, <2>3, <2>4, <2>10, <2>1
<1>6. Nat \subseteq Upto
    <2>1. 0 \in Upto
        BY <1>4
    <2>2. ASSUME NEW j \in Nat, j \in Upto PROVE j + 1 \in Upto
        <3>1. j <= k => Agree(j)
            <4> HIDE DEF Agree, k
            <4> QED
                BY <2>2
        <3> HIDE DEF Agree
        <3>2. j + 1 <= k => j <= k
            BY <1>3
        <3> QED
            BY <1>5, <3>1, <3>2
    <2> HIDE DEF Upto
    <2> QED
        BY <2>1, <2>2, Induction
<1>7. Agree(k)
    <2> HIDE DEF Agree
    <2> QED
        BY <1>3, <1>6
<1>8. SubSeq(q, 1, Len(q) - k) = top
    <2>1. Len(q) - k = Len(top)
        BY <1>3
    <2>2. SubSeq(q, 1, Len(top)) = top
        BY <1>1, <1>2, <1>3
    <2> QED
        BY <2>1, <2>2
<1> QED
    BY <1>3, <1>7, <1>8 DEF q, top

\* The key of a path with no such link is the .git of its repository.
LEMMA KeyOfPlain ==
    ASSUME IsFileSystem(tree), NEW p \in Place, LinksStayOutside(p), InRepo(p)
    PROVE  Key(p) = RepositoryOf(p)
<1> DEFINE top == TopLevel(p)
<1>1. RootsAbove(p) # {} /\ top \in RootsAbove(p) /\ top \in tree.dirs
    BY TopLevelIs DEF InRepo
<1>2. CASE top \in DOMAIN tree.linked
    <2> DEFINE main == tree.linked[top]
    <2>1. main \in tree.repos /\ main \in tree.dirs /\ main \in Place
        BY <1>2 DEF IsFileSystem, Path, Place, Piece
    <2>2. Resolved(main) = main
        BY <2>1, ResolvedOfDirectory
    <2>3. CanonPath(Append(main, GitDir)) = Append(main, GitDir)
        <3> HIDE DEF main
        <3> QED
            BY <2>1, <2>2, CanonOfGitDir
    <2> QED
        BY <1>2, <2>3 DEF Key, CommonDirIsAbsolute, CommonDir, RepositoryOf
<1>3. CASE top \notin DOMAIN tree.linked
    <2>1. top \in tree.repos
        BY <1>1, <1>3 DEF RootsAbove
    <2> DEFINE k == Len(Resolved(p)) - Len(top)
               c == SubSeq(p, 1, Len(p) - k)
               ups == [i \in 1..k |-> Up]
    <2>2. k \in 0..Len(p) /\ Resolved(c) = top
        BY <1>1, <2>1, TailIsPlain
    <2>3. CommonDir(p) = ups \o <<GitDir>> /\ ~CommonDirIsAbsolute(p)
        BY <1>3 DEF CommonDirIsAbsolute, CommonDir
    <2> HIDE DEF k, top
    <2>4. p \in Seq(Piece) /\ p \in Seq(Typed) /\ ups \in Seq(Typed) /\ GitDir \in Typed
        BY <2>2 DEF Place, Piece, Typed
    <2>5. c \in Place
        BY <2>2, <2>4 DEF Place
    <2>6. Clean(p \o ups) = c
        BY <2>2, CleanOfUps
    <2> HIDE DEF ups, c
    <2>7. p \o (ups \o <<GitDir>>) = Append(p \o ups, GitDir) /\ p \o ups \in Seq(Typed)
        BY <2>4
    <2>8. Clean(p \o (ups \o <<GitDir>>)) = Append(c, GitDir)
        <3>1. Clean(Append(p \o ups, GitDir)) = Tidied(c, GitDir)
            BY <2>4, <2>6, <2>7, CleanOfAppend
        <3> QED
            BY <2>7, <3>1 DEF Tidied, GitDir, Up, Here
    <2>9. Key(p) = CanonPath(Append(c, GitDir))
        BY <2>3, <2>8 DEF Key, Join
    <2>10. CanonPath(Append(c, GitDir)) = Append(top, GitDir)
        BY <2>1, <2>2, <2>5, CanonOfGitDir
    <2>11. RepositoryOf(p) = Append(top, GitDir)
        BY <1>3 DEF RepositoryOf, top
    <2> QED
        BY <2>9, <2>10, <2>11
<1> QED
    BY <1>2, <1>3

\* A directory is reached through no link.
LEMMA DirectoryIsPlain ==
    ASSUME IsFileSystem(tree), NEW d \in tree.dirs
    PROVE  d \in Place /\ LinksStayOutside(d)
<1>1. d \in Seq(Piece) /\ Len(d) \in Nat
    BY DEF IsFileSystem, Path, Piece
<1> DEFINE Upto == {j \in Nat : j <= Len(d) => SubSeq(d, 1, Len(d) - j) \in tree.dirs}
<1>2. 0 \in Upto
    <2>1. SubSeq(d, 1, Len(d) - 0) = d
        BY <1>1
    <2> QED
        BY <2>1
<1>3. ASSUME NEW j \in Nat, j \in Upto PROVE j + 1 \in Upto
    <2> SUFFICES ASSUME j + 1 <= Len(d) PROVE SubSeq(d, 1, Len(d) - (j + 1)) \in tree.dirs
        OBVIOUS
    <2> DEFINE m == Len(d) - j
    <2>1. SubSeq(d, 1, m) \in tree.dirs /\ m \in 1..Len(d) /\ m - 1 = Len(d) - (j + 1)
        BY <1>1, <1>3
    <2> HIDE DEF m
    <2>2. SubSeq(d, 1, m) # <<>> /\ Front(SubSeq(d, 1, m)) = SubSeq(d, 1, m - 1)
        BY <1>1, <2>1, PrefixBefore
    <2>3. SubSeq(d, 1, m - 1) \in tree.dirs
        BY <2>1, <2>2 DEF IsFileSystem
    <2> QED
        BY <2>1, <2>3
<1>4. Nat \subseteq Upto
    <2> HIDE DEF Upto
    <2> QED
        BY <1>2, <1>3, Induction
<1>5. \A i \in 0..Len(d) : SubSeq(d, 1, i) \in tree.dirs
    <2> TAKE i \in 0..Len(d)
    <2>1. Len(d) - i \in Upto /\ Len(d) - i <= Len(d) /\ Len(d) - (Len(d) - i) = i
        BY <1>1, <1>4
    <2> QED
        BY <2>1
<1>6. LinksStayOutside(d)
    <2> SUFFICES ASSUME NEW i \in 1..Len(d),
                        Append(Resolved(SubSeq(d, 1, i - 1)), d[i]) \in DOMAIN tree.links
                 PROVE  FALSE
        BY DEF LinksStayOutside
    <2>1. SubSeq(d, 1, i - 1) \in tree.dirs /\ SubSeq(d, 1, i) \in tree.dirs
        BY <1>1, <1>5
    <2>2. SubSeq(d, 1, i) = Append(SubSeq(d, 1, i - 1), d[i])
        BY <1>1, PrefixBefore
    <2>3. Resolved(SubSeq(d, 1, i - 1)) = SubSeq(d, 1, i - 1)
        BY <2>1, ResolvedOfDirectory
    <2> QED
        BY <2>1, <2>2, <2>3 DEF IsFileSystem
<1> QED
    BY <1>1, <1>6 DEF Place

\* A canonical path that git finds a repository at is a directory.
LEMMA CanonInRepo ==
    ASSUME IsFileSystem(tree), NEW x \in Seq(Typed), InRepo(CanonPath(x))
    PROVE  CanonPath(x) \in tree.dirs
<1> DEFINE c == Clean(x)
           r == Resolved(c)
<1>1. c \in Place /\ r \in Place
    BY CleanType, ResolvedType
<1>2. Resolved(CanonPath(x)) \in tree.dirs
    BY DEF InRepo, HasDirectory
<1>3. CASE ~Exists(r)
    BY <1>2, <1>3 DEF CanonPath, Exists, HasDirectory
<1>4. CASE Exists(r) /\ ~HasDirectory(r)
    <2>1. r # <<>> /\ Last(r) = GitDir /\ Front(r) \in tree.repos
        BY <1>4 DEF Exists
    <2> HIDE DEF r
    <2>2. Front(r) \in Place /\ Resolved(Front(r)) = Front(r) /\ r = Append(Front(r), GitDir)
        <3>1. Front(r) \in Place /\ r = Append(Front(r), Last(r))
            BY <1>1, <2>1 DEF Front, Last, Place
        <3> QED
            BY <2>1, <3>1, ResolvedOfDirectory DEF IsFileSystem
    <2>3. GitDir \in Piece /\ r \notin Path
        <3>1. r \in Path => Last(r) \in Range(NameOrder)
            BY <2>1 DEF Path, Last
        <3> QED
            BY <2>1, <3>1, NamesAssumption DEF Piece
    <2>4. Resolved(r) = r
        BY <2>2, <2>3, ResolvedOfAppend DEF Follow, IsFileSystem
    <2>5. CanonPath(x) = r
        BY <1>4 DEF CanonPath, r
    <2> QED
        BY <1>2, <2>3, <2>4, <2>5 DEF IsFileSystem
<1>5. CASE HasDirectory(r)
    BY <1>5 DEF CanonPath, Exists, HasDirectory
<1> QED
    BY <1>3, <1>4, <1>5

\* In a directory outside of every repository, a child that is in one has it at
\* its own root, and so has a .git entry that the scan looks for.
LEMMA ChildRootIsSeen ==
    ASSUME IsFileSystem(tree), NEW cwd \in Path, NEW n \in Range(NameOrder),
           HasDirectory(Append(Resolved(cwd), n)), InRepo(Append(cwd, n)), ~InRepo(cwd)
    PROVE  HasDotGit(Append(Resolved(cwd), n))
<1> DEFINE at == Resolved(cwd)
           child == Append(at, n)
<1>1. cwd \in Place /\ n \in Piece
    BY DEF Path, Place, Piece
<1>2. at \in Seq(Piece)
    BY <1>1, ResolvedType DEF Place
<1>3. Resolved(Append(cwd, n)) = child
    BY ChildTarget
<1>4. PICK r \in tree.repos \cup (DOMAIN tree.linked \cap tree.dirs) : IsPrefix(r, child)
    BY <1>3 DEF InRepo, RootsAbove
<1>5. r \in Seq(Piece)
    BY <1>4 DEF IsFileSystem, Path, Piece
<1>6. HasDirectory(at)
    <2>1. child # <<>> /\ Front(child) = at
        <3> HIDE DEF at
        <3> QED  BY <1>1, <1>2 DEF Front
    <2> QED  BY <2>1 DEF HasDirectory, IsFileSystem
<1>7. ~IsPrefix(r, at)
    BY <1>4, <1>6 DEF InRepo, RootsAbove
<1>8. r = child
    <2> HIDE DEF at
    <2>1. child \in Seq(Piece) /\ Len(child) = Len(at) + 1
        BY <1>1, <1>2
    <2>2. Len(r) <= Len(child) /\ SubSeq(r, 1, Len(r)) = SubSeq(child, 1, Len(r))
        BY <1>4 DEF IsPrefix
    <2>3. \A i \in 1..Len(r) : SubSeq(r, 1, Len(r))[i] = r[i] /\ SubSeq(child, 1, Len(r))[i] = child[i]
        BY <1>5, <2>1, <2>2
    <2>4. \A i \in 1..Len(r) : r[i] = child[i]
        BY <2>2, <2>3
    <2>5. CASE Len(r) <= Len(at)
        <3>1. \A i \in 1..Len(r) : r[i] = at[i]
            BY <1>1, <1>2, <1>5, <2>4, <2>5
        <3>2. SubSeq(r, 1, Len(r)) = SubSeq(at, 1, Len(r))
            BY <1>2, <1>5, <2>5, <3>1
        <3> QED  BY <1>7, <2>5, <3>2 DEF IsPrefix
    <2>6. CASE Len(r) > Len(at)
        <3>1. Len(r) = Len(child)
            BY <1>2, <1>5, <2>1, <2>2, <2>6
        <3> QED  BY <1>5, <2>1, <2>4, <3>1
    <2> QED  BY <1>2, <1>5, <2>5, <2>6
<1> QED  BY <1>4, <1>8 DEF HasDotGit

----------------------------------------------------------------------------
(* What git lists and how it is parsed.                                    *)

\* The elements of a finite set in a sequence: all of them.
LEMMA SetInSequence ==
    ASSUME NEW S, IsFiniteSet(S)
    PROVE  SetToSeq(S) \in Seq(S) /\ Range(SetToSeq(S)) = S
<1> DEFINE n == Cardinality(S)
           s == SetToSeq(S)
<1>1. n \in Nat /\ ExistsBijection(1..n, S)
    BY FS_CardinalityType
<1>2. \E f \in [1..n -> S] : IsInjective(f)
    BY <1>1 DEF ExistsBijection, Bijection, Injection
<1>3. s \in [1..n -> S] /\ IsInjective(s)
    BY <1>2 DEF SetToSeq
<1>4. IsFiniteSet(1..n) /\ Cardinality(1..n) = n
    BY <1>1, FS_Interval
<1> HIDE DEF s
<1>5. s \in Injection(1..n, S)
    BY <1>3 DEF Injection
<1>6. s \in Surjection(1..n, S)
    BY <1>4, <1>5, FS_Injection
<1>7. \A t \in S : \E i \in 1..n : s[i] = t
    BY <1>6 DEF Surjection
<1>8. Range(s) = S
    BY <1>3, <1>7 DEF Range
<1>9. s \in Seq(S)
    BY <1>1, <1>3
<1> QED
    BY <1>8, <1>9 DEF s

\* What the parser keeps, from the lines of a set.
Values(E) == {l.val : l \in E} \cup {<<>>}
ParserState(E) ==
    [cur : SUBSET Values(E),
     res : UNION {[D -> Values(E)] : D \in SUBSET {CanonPath(v) : v \in Values(E)}}]

\* Before the first line there is nothing.
Fresh == [cur |-> {}, res |-> [p \in {} |-> p]]

\* The worktrees so far, with the block under way, are of these kinds.
LEMMA FlushedType ==
    ASSUME NEW E, NEW st \in ParserState(E)
    PROVE  Flushed(st) \in UNION {[D -> Values(E)] : D \in SUBSET {CanonPath(v) : v \in Values(E)}}
<1> DEFINE Canon == {CanonPath(v) : v \in Values(E)}
<1>1. CASE st.cur = {}
    BY <1>1 DEF Flushed, ParserState
<1>2. CASE st.cur # {}
    <2> DEFINE wt == CHOOSE w \in st.cur : TRUE
               cp == CanonPath(wt)
    <2>1. wt \in Values(E)
        BY <1>2 DEF ParserState
    <2>2. cp \in Canon
        BY <2>1
    <2>3. PICK D \in SUBSET Canon : st.res \in [D -> Values(E)]
        BY DEF ParserState
    <2>4. Flushed(st) = [p \in D \cup {cp} |-> IF p = cp THEN wt ELSE st.res[p]]
        BY <1>2, <2>3 DEF Flushed
    <2> HIDE DEF wt, cp, Canon
    <2>5. Flushed(st) \in [D \cup {cp} -> Values(E)] /\ D \cup {cp} \in SUBSET Canon
        BY <2>1, <2>2, <2>3, <2>4
    <2> QED
        BY <2>5 DEF Canon
<1> QED
    BY <1>1, <1>2

\* So is the parser before the first line.
LEMMA FreshType ==
    ASSUME NEW E
    PROVE  Fresh \in ParserState(E)
<1> DEFINE f == [p \in {} |-> p]
<1>1. f \in [{} -> Values(E)]
    OBVIOUS
<1>2. {} \in SUBSET {CanonPath(v) : v \in Values(E)} /\ {} \in SUBSET Values(E)
    OBVIOUS
<1>3. f \in UNION {[D -> Values(E)] : D \in SUBSET {CanonPath(v) : v \in Values(E)}}
    BY <1>1, <1>2
<1> HIDE DEF f
<1> QED
    BY <1>2, <1>3 DEF Fresh, ParserState, f

\* And after each line.
LEMMA ParseLineType ==
    ASSUME NEW E, NEW st \in ParserState(E), NEW line \in E
    PROVE  ParseLine(st, line) \in ParserState(E)
<1> DEFINE Res == UNION {[D -> Values(E)] : D \in SUBSET {CanonPath(v) : v \in Values(E)}}
<1>1. line.val \in Values(E) /\ <<>> \in Values(E)
    BY DEF Values
<1>2. Flushed(st) \in Res
    BY FlushedType
<1>3. st \in [cur : SUBSET Values(E), res : Res]
    BY DEF ParserState
<1>4. {} \in SUBSET Values(E) /\ {line.val} \in SUBSET Values(E)
    BY <1>1
<1> HIDE DEF Res
<1>5. /\ [cur |-> {}, res |-> Flushed(st)] \in [cur : SUBSET Values(E), res : Res]
      /\ [cur |-> {line.val}, res |-> Flushed(st)] \in [cur : SUBSET Values(E), res : Res]
    BY <1>2, <1>4
<1>6. ParseLine(st, line) \in [cur : SUBSET Values(E), res : Res]
    BY <1>3, <1>5 DEF ParseLine
<1> QED
    BY <1>6 DEF ParserState, Res

\* The parser after the lines of a text.
Parsed(text) == FoldLeft(ParseLine, Fresh, text)

\* The lines of a text are parsed in order.
LEMMA ParseRuns ==
    ASSUME NEW E, NEW text \in Seq(E)
    PROVE  \E at \in [0..Len(text) -> ParserState(E)] :
               /\ at[0] = Fresh
               /\ \A k \in 1..Len(text) : at[k] = ParseLine(at[k - 1], text[k])
               /\ at[Len(text)] = Parsed(text)
<1> DEFINE n == Len(text)
           A == ParserState(E)
           g == [k \in 1..n |-> [x \in A |-> ParseLine(x, text[k])]]
           Fits(iter) == iter = [t \in SUBSET DOMAIN text |->
                             IF t = {} THEN Fresh ELSE ParseLine(iter[t \ {Max(t)}], text[Max(t)])]
           it == CHOOSE iter : Fits(iter)
<1>1. n \in Nat /\ DOMAIN text = 1..n /\ Fresh \in A /\ g \in [1..n -> [A -> A]]
    <2>1. \A k \in 1..n : text[k] \in E
        OBVIOUS
    <2>2. \A k \in 1..n, x \in A : ParseLine(x, text[k]) \in A
        BY <2>1, ParseLineType
    <2>3. Fresh \in A
        BY FreshType
    <2> QED
        BY <2>2, <2>3
<1>2. Parsed(text) = it[1..n]
    BY <1>1 DEF Parsed, Fresh, FoldLeft, MapThenFoldSet
<1>3. \A k \in 1..n, x \in A : g[k][x] = ParseLine(x, text[k])
    OBVIOUS
<1>4. \A t \in SUBSET (1..n) : t # {} => Max(t) \in 1..n
    BY <1>1, MaxBelow
<1> HIDE DEF n, A, g
<1>5. PICK h \in [SUBSET (1..n) -> A] : FoldsTo(h, Fresh, g, n)
    BY <1>1, FoldExists
<1>6. Fits(h)
    <2>1. \A t \in SUBSET (1..n) :
              h[t] = IF t = {} THEN Fresh ELSE ParseLine(h[t \ {Max(t)}], text[Max(t)])
        BY <1>3, <1>4, <1>5 DEF FoldsTo
    <2> QED
        BY <1>1, <2>1
<1>7. Fits(it)
    <2> HIDE DEF Fits
    <2> QED
        BY <1>6
<1> HIDE DEF it
<1>8. Folds(it, A, Fresh, g, n)
    BY <1>1, <1>3, <1>4, <1>7 DEF Folds
<1>9. PICK at \in [0..n -> A] : RunOf(at, Fresh, g, n) /\ at[n] = it[1..n]
    BY <1>1, <1>8, FoldRuns
<1>10. \A k \in 1..n : at[k] = ParseLine(at[k - 1], text[k])
    BY <1>1, <1>3, <1>9 DEF RunOf
<1> QED
    BY <1>2, <1>9, <1>10 DEF RunOf, n, A

\* Nothing is parsed of no text.
LEMMA ParsedOfNone == Parsed(<<>>) = Fresh
<1>1. <<>> \in Seq({}) /\ Len(<<>>) = 0
    OBVIOUS
<1>2. PICK at \in [0..Len(<<>>) -> ParserState({})] : at[0] = Fresh /\ at[Len(<<>>)] = Parsed(<<>>)
    BY <1>1, ParseRuns
<1> QED
    BY <1>1, <1>2

\* What is parsed of a text is of these kinds.
LEMMA ParsedType ==
    ASSUME NEW E, NEW text \in Seq(E)
    PROVE  Parsed(text) \in ParserState(E)
<1>1. Len(text) \in 0..Len(text)
    OBVIOUS
<1> QED
    BY <1>1, ParseRuns

\* A text with a line more is parsed by one line more.
LEMMA ParsedOfAppend ==
    ASSUME NEW E, NEW text \in Seq(E), NEW line \in E
    PROVE  Parsed(Append(text, line)) = ParseLine(Parsed(text), line)
<1> DEFINE n == Len(text)
           q == Append(text, line)
<1>1. /\ text \in Seq(E) /\ q \in Seq(E) /\ n \in Nat /\ Len(q) = n + 1
      /\ \A k \in 1..n : q[k] = text[k]
      /\ q[n + 1] = line
    OBVIOUS
<1> HIDE DEF n, q
<1>2. PICK a : /\ a[0] = Fresh /\ a[n] = Parsed(text)
               /\ \A k \in 1..n : a[k] = ParseLine(a[k - 1], text[k])
    BY <1>1, ParseRuns DEF n
<1>3. PICK b : /\ b[0] = Fresh /\ b[n + 1] = Parsed(q)
               /\ \A k \in 1..(n + 1) : b[k] = ParseLine(b[k - 1], q[k])
    <2>1. q \in Seq(E)
        BY <1>1
    <2>2. \E b \in [0..Len(q) -> ParserState(E)] :
              /\ b[0] = Fresh
              /\ \A k \in 1..Len(q) : b[k] = ParseLine(b[k - 1], q[k])
              /\ b[Len(q)] = Parsed(q)
        BY <2>1, ParseRuns
    <2> QED
        BY <1>1, <2>2
<1>4. Alike(a, b, n)
    <2>1. ASSUME NEW k \in 1..n, a[k - 1] = b[k - 1] PROVE a[k] = b[k]
        <3> k \in 1..(n + 1) /\ q[k] = text[k]
            BY <1>1
        <3> QED
            BY <1>2, <1>3, <2>1
    <2> QED
        BY <1>2, <1>3, <2>1 DEF Alike
<1>5. \A k \in 0..n : a[k] = b[k]
    BY <1>1, <1>4, SameRun
<1>6. b[n + 1] = ParseLine(b[n], q[n + 1]) /\ a[n] = b[n]
    BY <1>1, <1>3, <1>5
<1> QED
    BY <1>1, <1>2, <1>3, <1>6 DEF q

\* The parser is at the block of a root, and has the worktrees of res.
AtBlock(st, E, root, res) ==
    /\ st \in ParserState(E) /\ st.res = res
    /\ st.cur = {root}

\* A worktree line ends the block before it and begins a block.
LEMMA BlockOpens ==
    ASSUME NEW E, NEW st \in ParserState(E), NEW root, Line("worktree", root) \in E
    PROVE  AtBlock(ParseLine(st, Line("worktree", root)), E, root, Flushed(st))
<1> DEFINE line == Line("worktree", root)
<1>1. ParseLine(st, line) \in ParserState(E)
    BY ParseLineType
<1>2. line.key = "worktree" /\ line.val = root
    BY DEF Line
<1>3. ParseLine(st, line) = [cur |-> {root}, res |-> Flushed(st)]
    <2> HIDE DEF line
    <2> QED
        BY <1>2 DEF ParseLine
<1> QED
    BY <1>1, <1>3 DEF AtBlock

\* The line after it belongs to the block.
LEMMA BlockGoesOn ==
    ASSUME NEW E, NEW st, NEW root, NEW res, AtBlock(st, E, root, res),
           NEW line \in E, line.key = "HEAD"
    PROVE  AtBlock(ParseLine(st, line), E, root, res)
BY DEF AtBlock, ParseLine

\* A block's lines are parsed into the worktree of its path.
LEMMA BlockIsParsed ==
    ASSUME NEW E, NEW text \in Seq(E), NEW root, Block(root) \in Seq(E)
    PROVE  /\ text \o Block(root) \in Seq(E)
           /\ AtBlock(Parsed(text \o Block(root)), E, root, Flushed(Parsed(text)))
<1> DEFINE l1 == Line("worktree", root)
           l2 == Line("HEAD", <<>>)
           t1 == Append(text, l1)
           t2 == Append(t1, l2)
<1>1. l2.key = "HEAD" /\ Block(root) = <<l1, l2>>
    BY DEF Line, Block
<1> HIDE DEF l2
<1>2. l1 \in E /\ l2 \in E
    <2>1. \A i \in 1..2 : <<l1, l2>>[i] \in E
        BY <1>1
    <2> QED
        BY <2>1
<1>3. t1 \in Seq(E) /\ AtBlock(Parsed(t1), E, root, Flushed(Parsed(text)))
    BY <1>2, ParsedType, ParsedOfAppend, BlockOpens DEF l1
<1> HIDE DEF t1
<1>4. t2 \in Seq(E) /\ AtBlock(Parsed(t2), E, root, Flushed(Parsed(text)))
    BY <1>1, <1>2, <1>3, ParsedOfAppend, BlockGoesOn
<1>5. text \o Block(root) = t2
    BY <1>1, <1>2 DEF t1
<1> QED
    BY <1>4, <1>5

\* A blank line ends a block as the end of the text does.
LEMMA BlankIsParsed ==
    ASSUME NEW E, NEW text \in Seq(E), Blank \in E
    PROVE  Flushed(Parsed(text \o <<Blank>>)) = Flushed(Parsed(text))
<1>1. text \o <<Blank>> = Append(text, Blank)
    OBVIOUS
<1>2. Parsed(Append(text, Blank)) = ParseLine(Parsed(text), Blank)
    BY ParsedOfAppend
<1>3. Blank.key = ""
    BY DEF Blank, Line
<1>4. ParseLine(Parsed(text), Blank) = [cur |-> {}, res |-> Flushed(Parsed(text))]
    BY <1>3 DEF ParseLine
<1>5. \A res : Flushed([cur |-> {}, res |-> res]) = res
    BY DEF Flushed
<1> QED
    BY <1>1, <1>2, <1>4, <1>5

----------------------------------------------------------------------------
(* The text, block by block.                                               *)

\* A block more in git's text.
WithBlock(text, r) == text \o <<Blank>> \o Block(r)

\* The text with a block for each of some roots.
Written(start, rs) == FoldLeft(LAMBDA text, r : text \o <<Blank>> \o Block(r), start, rs)

\* The blocks are written in order.
LEMMA WrittenRuns ==
    ASSUME NEW R, NEW E, Blank \in E, \A r \in R : Block(r) \in Seq(E),
           NEW start \in Seq(E), NEW rs \in Seq(R)
    PROVE  \E at \in [0..Len(rs) -> Seq(E)] :
               /\ at[0] = start
               /\ \A k \in 1..Len(rs) : at[k] = WithBlock(at[k - 1], rs[k])
               /\ at[Len(rs)] = Written(start, rs)
<1> DEFINE n == Len(rs)
           A == Seq(E)
           g == [k \in 1..n |-> [x \in A |-> WithBlock(x, rs[k])]]
           Fits(iter) == iter = [t \in SUBSET DOMAIN rs |->
                             IF t = {} THEN start ELSE WithBlock(iter[t \ {Max(t)}], rs[Max(t)])]
           it == CHOOSE iter : Fits(iter)
<1>1. n \in Nat /\ DOMAIN rs = 1..n /\ start \in A /\ g \in [1..n -> [A -> A]]
    <2>1. \A k \in 1..n : rs[k] \in R
        OBVIOUS
    <2>2. \A k \in 1..n, x \in A : WithBlock(x, rs[k]) \in A
        BY <2>1 DEF WithBlock
    <2>3. start \in A
        OBVIOUS
    <2>4. n \in Nat /\ DOMAIN rs = 1..n
        OBVIOUS
    <2> HIDE DEF n, A
    <2>5. \A k \in 1..n : [x \in A |-> WithBlock(x, rs[k])] \in [A -> A]
        BY <2>2
    <2> QED
        BY <2>3, <2>4, <2>5
<1>2. Written(start, rs) = it[1..n]
    BY <1>1 DEF Written, WithBlock, FoldLeft, MapThenFoldSet
<1>3. \A k \in 1..n, x \in A : g[k][x] = WithBlock(x, rs[k])
    OBVIOUS
<1>4. \A t \in SUBSET (1..n) : t # {} => Max(t) \in 1..n
    BY <1>1, MaxBelow
<1> HIDE DEF n, A, g
<1>5. PICK h \in [SUBSET (1..n) -> A] : FoldsTo(h, start, g, n)
    BY <1>1, FoldExists
<1>6. Fits(h)
    <2>1. \A t \in SUBSET (1..n) :
              h[t] = IF t = {} THEN start ELSE WithBlock(h[t \ {Max(t)}], rs[Max(t)])
        BY <1>3, <1>4, <1>5 DEF FoldsTo
    <2> QED
        BY <1>1, <2>1
<1>7. Fits(it)
    <2> HIDE DEF Fits
    <2> QED
        BY <1>6
<1> HIDE DEF it
<1>8. Folds(it, A, start, g, n)
    BY <1>1, <1>3, <1>4, <1>7 DEF Folds
<1>9. PICK at \in [0..n -> A] : RunOf(at, start, g, n) /\ at[n] = it[1..n]
    BY <1>1, <1>8, FoldRuns
<1>10. \A k \in 1..n : at[k] = WithBlock(at[k - 1], rs[k])
    BY <1>1, <1>3, <1>9 DEF RunOf
<1> QED
    BY <1>2, <1>9, <1>10 DEF RunOf, n, A

\* g has the worktrees of the roots R, each by its own path.
Listed(g, R) == DOMAIN g = R /\ \A p \in R : g[p] = p

\* A block that ends adds its worktree to the others.
LEMMA FlushedBlock ==
    ASSUME NEW E, NEW st, NEW r, NEW g, NEW R, AtBlock(st, E, r, g), CanonPath(r) = r, Listed(g, R)
    PROVE  Listed(Flushed(st), R \cup {r})
<1>1. (CHOOSE w \in st.cur : TRUE) = r /\ st.cur # {} /\ st.res = g
    BY DEF AtBlock
<1>2. Flushed(st) = [p \in R \cup {r} |-> IF p = r THEN r ELSE g[p]]
    BY <1>1 DEF Flushed, Listed
<1> QED
    BY <1>2 DEF Listed

\* What is parsed of git's text with the roots of rs, one after another.
LEMMA RootsAreListed ==
    ASSUME NEW R, NEW E, Blank \in E, \A r \in R : Block(r) \in Seq(E) /\ CanonPath(r) = r,
           NEW main \in R, NEW rs \in Seq(R)
    PROVE  Listed(ParsePorcelain(Written(Block(main), rs)), {main} \cup Range(rs))
<1> DEFINE n == Len(rs)
           seen(k) == {main} \cup {rs[j] : j \in 1..k}
           start == Block(main)
<1>1. start \in Seq(E) /\ n \in Nat
    OBVIOUS
<1>2. PICK at \in [0..n -> Seq(E)] :
          /\ at[0] = start
          /\ \A k \in 1..n : at[k] = WithBlock(at[k - 1], rs[k])
          /\ at[n] = Written(start, rs)
    BY <1>1, WrittenRuns
<1> DEFINE Good(k) == Listed(Flushed(Parsed(at[k])), seen(k))
           Upto == {k \in Nat : k <= n => Good(k)}
<1>3. Good(0)
    <2>1. <<>> \in Seq(E) /\ <<>> \o start = start
        BY <1>1
    <2>2. AtBlock(Parsed(start), E, main, Flushed(Parsed(<<>>)))
        BY <2>1, BlockIsParsed
    <2>3. Listed(Flushed(Parsed(<<>>)), {})
        BY ParsedOfNone DEF Listed, Fresh, Flushed
    <2>4. Listed(Flushed(Parsed(start)), {} \cup {main})
        <3> HIDE DEF start
        <3> QED
            BY <2>2, <2>3, FlushedBlock
    <2>5. seen(0) = {} \cup {main}
        OBVIOUS
    <2> QED
        BY <1>2, <2>4, <2>5
<1>4. ASSUME NEW k \in Nat, k + 1 <= n, Good(k) PROVE Good(k + 1)
    <2> DEFINE r == rs[k + 1]
               text == at[k]
               blank == text \o <<Blank>>
    <2>0. k + 1 \in 1..n /\ k \in 0..n /\ (k + 1) - 1 = k
        BY <1>1, <1>4
    <2>1. r \in R /\ text \in Seq(E) /\ k + 1 \in 1..n /\ (k + 1) - 1 = k
        <3>1. r \in R
            BY <2>0
        <3> HIDE DEF n, start, seen
        <3>2. text \in Seq(E)
            BY <1>2, <2>0
        <3> QED
            BY <2>0, <3>1, <3>2
    <2>2. at[k + 1] = blank \o Block(r)
        BY <1>2, <2>1 DEF WithBlock
    <2>3. blank \in Seq(E) /\ Flushed(Parsed(blank)) = Flushed(Parsed(text))
        BY <2>1, BlankIsParsed
    <2> HIDE DEF blank, text
    <2>4. AtBlock(Parsed(blank \o Block(r)), E, r, Flushed(Parsed(blank)))
        BY <2>1, <2>3, BlockIsParsed
    <2>5. Listed(Flushed(Parsed(text)), seen(k))
        BY <1>4 DEF text
    <2>6. seen(k + 1) = seen(k) \cup {r}
        BY <1>4
    <2> HIDE DEF r, seen
    <2>7. Listed(Flushed(Parsed(blank \o Block(r))), seen(k) \cup {r})
        BY <2>1, <2>3, <2>4, <2>5, FlushedBlock
    <2> QED
        BY <2>2, <2>6, <2>7
<1>5. n \in Upto
    <2>1. 0 \in Upto
        BY <1>3
    <2>2. \A k \in Nat : k \in Upto => k + 1 \in Upto
        <3> TAKE k \in Nat
        <3> HAVE k \in Upto
        <3> SUFFICES ASSUME k + 1 <= n PROVE Good(k + 1)
            <4> HIDE DEF Good
            <4> QED
                OBVIOUS
        <3>1. Good(k)
            <4> HIDE DEF Good
            <4> QED
                BY <1>1
        <3> HIDE DEF Good
        <3> QED
            BY <1>4, <3>1
    <2> HIDE DEF Upto
    <2> QED
        BY <1>1, <2>1, <2>2, Induction
<1>6. Good(n)
    <2> HIDE DEF Good
    <2> QED
        BY <1>1, <1>5
<1>7. seen(n) = {main} \cup Range(rs)
    BY <1>1 DEF Range
<1>8. ParsePorcelain(at[n]) = Flushed(Parsed(at[n]))
    BY DEF ParsePorcelain, Parsed, Fresh
<1> HIDE DEF seen, start, n
<1> QED
    BY <1>2, <1>6, <1>7, <1>8 DEF start

\* The worktrees of a main checkout: itself and those that are linked to it.
RootsOf(main) == {main} \cup {r \in DOMAIN tree.linked : tree.linked[r] = main}

\* Git knows each linked worktree by the path of its directory, which is not the
\* root of the file system.
RootsAreReal == \A r \in DOMAIN tree.linked : r # <<>> /\ Resolved(r) = r

\* Such a root's path is canonical.
LEMMA RootIsCanonical ==
    ASSUME IsFileSystem(tree), NEW r \in Path, Resolved(r) = r
    PROVE  CanonPath(r) = r
<1>1. r \in Place
    BY DEF Path, Place, Piece
<1>2. Clean(r) = r
    BY <1>1, CleanOfPlace
<1> QED
    BY <1>2 DEF CanonPath

\* What git lists for a repository, as it is parsed, is the main checkout and
\* the worktrees linked to it, each by its own path.
LEMMA GitListsRoots ==
    ASSUME IsFileSystem(tree), RootsAreReal, NEW main \in tree.repos
    PROVE  Listed(ParsePorcelain(Porcelain(Append(main, GitDir))), RootsOf(main))
<1> DEFINE S == {r \in DOMAIN tree.linked : tree.linked[r] = main}
           R == RootsOf(main)
           rs == SetToSeq(S)
           E == {Line("worktree", r) : r \in R} \cup {Line("HEAD", <<>>), Blank}
<1>1. main \in Path /\ Resolved(main) = main
    BY ResolvedOfDirectory DEF IsFileSystem
<1>2. \A r \in R : CanonPath(r) = r
    BY <1>1, RootIsCanonical DEF RootsOf, RootsAreReal, IsFileSystem
<1>3. ASSUME NEW r \in R PROVE Block(r) \in Seq(E)
    <2>1. Line("worktree", r) \in E /\ Line("HEAD", <<>>) \in E
        OBVIOUS
    <2> HIDE DEF E
    <2> QED
        BY <2>1 DEF Block
<1>4. IsFiniteSet(S)
    BY FS_Subset DEF IsFileSystem
<1>5. rs \in Seq(S) /\ Range(rs) = S
    BY <1>4, SetInSequence
<1>6. rs \in Seq(R) /\ main \in R /\ R = {main} \cup S
    BY <1>5 DEF RootsOf
<1>7. Front(Append(main, GitDir)) = main
    BY <1>1 DEF Front, Path
<1>8. Porcelain(Append(main, GitDir)) = Written(Block(main), rs)
    <2>1. Tail(<<main>> \o rs) = rs
        <3> HIDE DEF rs
        <3> QED
            BY <1>6
    <2> QED
        BY <1>7, <2>1 DEF Porcelain, Written
<1>9. Blank \in E
    OBVIOUS
<1> HIDE DEF E, R, rs
<1>10. Listed(ParsePorcelain(Written(Block(main), rs)), {main} \cup Range(rs))
    BY <1>2, <1>3, <1>6, <1>9, RootsAreListed
<1> QED
    BY <1>5, <1>6, <1>8, <1>10 DEF R

----------------------------------------------------------------------------
(* The rows of a list.                                                     *)

\* The directory of a repository's worktrees, whatever the host's name for the
\* data directory leads through.
DirectoryOf(main) == Resolved(WorktreesDir(Append(main, GitDir)))

\* Nothing in it is a link.
NoLinkAmongWorktrees ==
    \A m \in tree.repos, n \in Piece : Append(DirectoryOf(m), n) \notin DOMAIN tree.links

\* What is checked out below it are linked worktrees, each directly in it.
OnlyWorktrees ==
    \A m \in tree.repos, r \in tree.repos \cup DOMAIN tree.linked :
        IsStrictPrefix(DirectoryOf(m), r) =>
            r \in DOMAIN tree.linked \ tree.repos /\ Front(r) = DirectoryOf(m)

\* The rows of a list before the filter.
RowsOf(key, repository, session) ==
    LET gwts == ParsePorcelain(Porcelain(repository))
        managed == ManagedRows(key, gwts, session)
    IN Range(managed) \cup UnmanagedRows(key, gwts, managed)

\* The worktrees directory is a path, and leads to one.
LEMMA DirectoryType ==
    ASSUME IsFileSystem(tree), NEW main \in tree.repos
    PROVE  WorktreesDir(Append(main, GitDir)) \in Place /\ DirectoryOf(main) \in Place
<1> DEFINE key == Append(main, GitDir)
<1>1. main \in Path /\ tree.data \in Path
    BY DEF IsFileSystem
<1>2. KeyName(key) \in Piece
    <2>1. CASE main = <<>>
        BY <2>1 DEF KeyName, Piece
    <2>2. CASE main # <<>>
        <3>1. Len(key) = Len(main) + 1 /\ Len(main) \in Nat \ {0}
            BY <1>1, <2>2 DEF Path
        <3>2. key[Len(key) - 1] = main[Len(main)] /\ main[Len(main)] \in Range(NameOrder)
            BY <1>1, <3>1 DEF Path
        <3> QED
            BY <3>1, <3>2 DEF KeyName, Piece
    <2> QED
        BY <2>1, <2>2
<1>3. tree.data \in Place
    BY <1>1 DEF Path, Place, Piece
<1>4. WorktreesDir(key) \in Place
    BY <1>2, <1>3 DEF WorktreesDir, Place
<1> QED
    BY <1>4, ResolvedType DEF DirectoryOf

\* The path of an entry leads to the directory of its name.
LEMMA EntryLeads ==
    ASSUME IsFileSystem(tree), NoLinkAmongWorktrees, NEW main \in tree.repos,
           NEW n \in Range(NameOrder), NEW r \in tree.dirs
    PROVE  CanonPath(WorktreePath(Append(main, GitDir), n)) = r <=> r = Append(DirectoryOf(main), n)
<1> DEFINE key == Append(main, GitDir)
           path == WorktreePath(key, n)
           to == Append(DirectoryOf(main), n)
<1>1. n \in Piece /\ WorktreesDir(key) \in Place
    BY DirectoryType DEF Piece
<1>2. path \in Place
    BY <1>1 DEF WorktreePath, Place
<1>3. Resolved(path) = to
    <2>1. Resolved(path) = Follow(DirectoryOf(main), n)
        BY <1>1, ResolvedOfAppend DEF WorktreePath, DirectoryOf
    <2> QED
        BY <1>1, <2>1 DEF Follow, NoLinkAmongWorktrees
<1>4. Clean(path) = path
    BY <1>2, CleanOfPlace
<1>5. Exists(r) /\ Resolved(r) = r
    BY ResolvedOfDirectory DEF Exists, HasDirectory
<1> HIDE DEF path, to
<1>6. CanonPath(path) = IF Exists(to) THEN to ELSE path
    BY <1>3, <1>4 DEF CanonPath
<1>7. CanonPath(path) = r => r = to
    BY <1>3, <1>5, <1>6
<1>8. r = to => CanonPath(path) = r
    BY <1>5, <1>6
<1> QED
    BY <1>7, <1>8 DEF path, to

\* The names of the managed rows.
ManagedNames(key, gwts) == Range(NameOrder) \cap Known(key, gwts)

\* managed has one row for each of them.
OnePerName(managed, key, gwts) ==
    /\ \A row \in Range(managed) :
          /\ row.name \in ManagedNames(key, gwts)
          /\ row.path = WorktreePath(key, row.name) /\ row.unmanaged = FALSE
    /\ \A n \in ManagedNames(key, gwts) : \E row \in Range(managed) : row.name = n
    /\ \A a \in Range(managed), b \in Range(managed) : a.name = b.name => a = b
    /\ \A n : (\A i \in DOMAIN managed : managed[i].name # n) <=> n \notin ManagedNames(key, gwts)

\* As the managed rows have.
LEMMA ManagedRowsAre ==
    ASSUME NEW key, NEW gwts, NEW session
    PROVE  OnePerName(ManagedRows(key, gwts, session), key, gwts)
<1> DEFINE claim == EntriesOf(key)
           managed == ManagedRows(key, gwts, session)
           names == Among(NameOrder, Known(key, gwts))
           row(n) == [name |-> n, path |-> WorktreePath(key, n), unmanaged |-> FALSE,
                      status |-> IF claim[n] = Nil THEN "available" ELSE "claimed",
                      self |-> claim[n] # Nil /\ session # NoSession /\ claim[n] = session]
<1>1. managed = [i \in DOMAIN names |-> row(names[i])]
    BY DEF ManagedRows
<1>2. Range(names) = ManagedNames(key, gwts)
    <2>1. NameOrder \in Seq(Range(NameOrder))
        BY NamesAssumption
    <2>2. Range(names) = Range(NameOrder) \cap Known(key, gwts)
        BY <2>1, AmongRange
    <2> QED
        BY <2>2 DEF ManagedNames
<1> HIDE DEF managed, names
<1>3. \A n : row(n).name = n /\ row(n).path = WorktreePath(key, n) /\ row(n).unmanaged = FALSE
    OBVIOUS
<1> HIDE DEF row, claim
<1>4. Range(managed) = {row(n) : n \in Range(names)}
    BY <1>1 DEF Range
<1>5. \A n : (\A i \in DOMAIN managed : managed[i].name # n) <=> n \notin Range(names)
    BY <1>1, <1>3 DEF Range
<1> QED
    BY <1>2, <1>3, <1>4, <1>5 DEF managed, OnePerName

\* What a directory is in, at any height, is one.
LEMMA PrefixOfDirectory ==
    ASSUME IsFileSystem(tree), NEW d \in tree.dirs, NEW s, IsPrefix(s, d), s \in Place
    PROVE  s \in tree.dirs
<1> DEFINE n == Len(d)
           Upto == {k \in Nat : k <= n => SubSeq(d, 1, n - k) \in tree.dirs}
<1>1. d \in Place /\ n \in Nat
    BY DEF IsFileSystem, Path, Place, Piece
<1>2. 0 \in Upto
    <2>1. SubSeq(d, 1, n - 0) = d
        BY <1>1 DEF Place
    <2> QED
        BY <2>1
<1>3. ASSUME NEW k \in Nat, k \in Upto PROVE k + 1 \in Upto
    <2> SUFFICES ASSUME k + 1 <= n PROVE SubSeq(d, 1, n - (k + 1)) \in tree.dirs
        OBVIOUS
    <2> DEFINE m == n - k
    <2>1. m \in 1..Len(d) /\ m - 1 = n - (k + 1) /\ SubSeq(d, 1, m) \in tree.dirs
        BY <1>1, <1>3
    <2> HIDE DEF m, n
    <2>2. SubSeq(d, 1, m) # <<>> /\ Front(SubSeq(d, 1, m)) = SubSeq(d, 1, m - 1)
        BY <1>1, <2>1, PrefixBefore DEF Place
    <2> QED
        BY <2>1, <2>2 DEF IsFileSystem
<1>4. n - Len(s) \in Nat /\ n - Len(s) <= n /\ n - (n - Len(s)) = Len(s)
    BY <1>1 DEF IsPrefix, Place
<1>5. SubSeq(d, 1, Len(s)) \in tree.dirs
    <2>1. n - Len(s) \in Upto
        <3> HIDE DEF Upto
        <3> QED
            BY <1>2, <1>3, <1>4, Induction
    <2> HIDE DEF n
    <2> QED
        BY <1>4, <2>1
<1>6. SubSeq(s, 1, Len(s)) = s
    BY DEF Place
<1> QED
    BY <1>5, <1>6 DEF IsPrefix

\* A directory's last element and what it is in.
LEMMA LastOfPath ==
    ASSUME NEW r \in Path, r # <<>>
    PROVE  /\ Front(r) \in Path /\ Last(r) \in Range(NameOrder) /\ r = Append(Front(r), Last(r))
<1>1. Len(r) \in 1..Len(r)
    BY DEF Path
<1>2. SubSeq(r, 1, Len(r)) = r
    BY DEF Path
<1>3. r = Append(SubSeq(r, 1, Len(r) - 1), r[Len(r)])
    BY <1>1, <1>2, PrefixBefore DEF Path
<1> QED
    BY <1>1, <1>3 DEF Path, Front, Last

\* What is appended to is a strict prefix.
LEMMA AppendIsLonger ==
    ASSUME NEW S, NEW s \in Seq(S), NEW e \in S
    PROVE  IsStrictPrefix(s, Append(s, e))
<1>1. Append(s, e) \in Seq(S) /\ Len(Append(s, e)) = Len(s) + 1 /\ Len(s) \in Nat
      /\ \A i \in 1..Len(s) : Append(s, e)[i] = s[i]
    OBVIOUS
<1>2. SubSeq(Append(s, e), 1, Len(s)) = SubSeq(s, 1, Len(s))
    BY <1>1
<1> QED
    BY <1>1, <1>2 DEF IsStrictPrefix, IsPrefix

\* Where the listed worktrees are compared with: the directory itself, if what
\* is compared is a directory in it.
LEMMA ListedDirIs ==
    ASSUME IsFileSystem(tree), NEW main \in tree.repos, NEW r \in tree.dirs,
           IsStrictPrefix(DirectoryOf(main), r) \/ IsStrictPrefix(ListedDir(Append(main, GitDir)), r)
    PROVE  ListedDir(Append(main, GitDir)) = DirectoryOf(main)
<1> DEFINE wd == WorktreesDir(Append(main, GitDir))
<1>1. wd \in Place /\ DirectoryOf(main) \in Place
    BY DirectoryType
<1>2. Clean(wd) = wd
    BY <1>1, CleanOfPlace
<1>3. ListedDir(Append(main, GitDir)) = IF Exists(DirectoryOf(main)) THEN DirectoryOf(main) ELSE wd
    BY <1>2 DEF ListedDir, CanonPath, DirectoryOf
<1>4. ASSUME IsStrictPrefix(DirectoryOf(main), r) PROVE Exists(DirectoryOf(main))
    BY <1>1, <1>4, PrefixOfDirectory DEF IsStrictPrefix, Exists, HasDirectory
<1>5. ASSUME IsStrictPrefix(wd, r) PROVE DirectoryOf(main) = wd
    <2>1. wd \in tree.dirs
        BY <1>1, <1>5, PrefixOfDirectory DEF IsStrictPrefix
    <2> QED
        BY <2>1, ResolvedOfDirectory DEF DirectoryOf
<1> HIDE DEF wd
<1> QED
    BY <1>3, <1>4, <1>5

\* The rows of worktrees without an entry.
LEMMA UnmanagedRowsAre ==
    ASSUME IsFileSystem(tree), RootsAreReal, NEW main \in tree.repos, NEW gwts, NEW session,
           Listed(gwts, RootsOf(main)), NEW row
    PROVE  LET key == Append(main, GitDir) IN
           row \in UnmanagedRows(key, gwts, ManagedRows(key, gwts, session)) <=>
           /\ row.path \in RootsOf(main) /\ CanonPath(row.path) = row.path
           /\ IsStrictPrefix(ListedDir(key), row.path)
           /\ Last(row.path) \notin ManagedNames(key, gwts)
           /\ row = [name |-> Last(row.path), path |-> row.path, unmanaged |-> TRUE,
                     status |-> "available", self |-> FALSE]
<1> DEFINE key == Append(main, GitDir)
           managed == ManagedRows(key, gwts, session)
<1>1. DOMAIN gwts = RootsOf(main) /\ \A p \in RootsOf(main) : gwts[p] = p
    BY DEF Listed
<1>2. \A p \in RootsOf(main) : CanonPath(p) = p
    <2>1. main \in Path /\ Resolved(main) = main
        BY ResolvedOfDirectory DEF IsFileSystem
    <2> QED
        BY <2>1, RootIsCanonical DEF RootsOf, RootsAreReal, IsFileSystem
<1>3. \A n : (\A i \in DOMAIN managed : managed[i].name # n) <=> n \notin ManagedNames(key, gwts)
    <2>1. OnePerName(managed, key, gwts)
        BY ManagedRowsAre
    <2> HIDE DEF managed
    <2> QED
        BY <2>1 DEF OnePerName
<1> DEFINE rowOf(p) == [name |-> Last(p), path |-> p, unmanaged |-> TRUE,
                        status |-> "available", self |-> FALSE]
<1>4. UnmanagedRows(key, gwts, managed) =
      {rowOf(p) : p \in {q \in RootsOf(main) : IsStrictPrefix(ListedDir(key), q)
                                               /\ Last(q) \notin ManagedNames(key, gwts)}}
    <2> HIDE DEF managed
    <2> QED
        BY <1>1, <1>3 DEF UnmanagedRows
<1>5. \A p : rowOf(p).path = p
    OBVIOUS
<1> HIDE DEF managed
<1> QED
    BY <1>2, <1>4, <1>5 DEF managed

\* Only the path of the name that its directory has leads to a worktree, and the
\* entry of that name is kept.
LEMMA EntryIsKnown ==
    ASSUME IsFileSystem(tree), RootsAreReal, NoLinkAmongWorktrees, NEW main \in tree.repos,
           NEW r \in DOMAIN tree.linked \cap tree.dirs, tree.linked[r] = main,
           Front(r) = DirectoryOf(main)
    PROVE  LET key == Append(main, GitDir)
               gwts == ParsePorcelain(Porcelain(key))
           IN /\ \A m \in Range(NameOrder) : CanonPath(WorktreePath(key, m)) = r <=> m = Last(r)
              /\ Last(r) \in ManagedNames(key, gwts) <=> Last(r) \in DOMAIN EntriesOf(key)
              /\ Last(r) \in Known(key, gwts) <=> Last(r) \in DOMAIN EntriesOf(key)
<1> DEFINE key == Append(main, GitDir)
           gwts == ParsePorcelain(Porcelain(key))
           n == Last(r)
<1>1. r \in Path /\ r # <<>> /\ r \in RootsOf(main)
    BY DEF IsFileSystem, RootsAreReal, RootsOf
<1>2. n \in Range(NameOrder) /\ r = Append(DirectoryOf(main), n)
    BY <1>1, LastOfPath
<1>3. Listed(gwts, RootsOf(main))
    BY GitListsRoots
<1>4. \A m \in Range(NameOrder) : CanonPath(WorktreePath(key, m)) = r <=> m = n
    <2>1. \A m \in Range(NameOrder) :
             CanonPath(WorktreePath(key, m)) = r <=> r = Append(DirectoryOf(main), m)
        BY EntryLeads
    <2>2. DirectoryOf(main) \in Seq(Piece) /\ Range(NameOrder) \subseteq Piece
        BY DirectoryType DEF Place, Piece
    <2>3. \A m \in Range(NameOrder) : Append(DirectoryOf(main), m) = Append(DirectoryOf(main), n) => m = n
        <3> TAKE m \in Range(NameOrder)
        <3> HAVE Append(DirectoryOf(main), m) = Append(DirectoryOf(main), n)
        <3>1. /\ Append(DirectoryOf(main), m)[Len(DirectoryOf(main)) + 1] = m
              /\ Append(DirectoryOf(main), n)[Len(DirectoryOf(main)) + 1] = n
            <4> HIDE DEF n
            <4> QED
                BY <1>2, <2>2
        <3> QED
            BY <3>1
    <2> HIDE DEF n
    <2> QED
        BY <1>2, <2>1, <2>3
<1>5. n \in Known(key, gwts) <=> n \in DOMAIN EntriesOf(key)
    BY <1>1, <1>2, <1>3, <1>4 DEF Known, Listed
<1> QED
    BY <1>2, <1>4, <1>5 DEF ManagedNames

\* A worktree that is in the directory of its repository's worktrees has one
\* row.
LEMMA OneRow ==
    ASSUME IsFileSystem(tree), RootsAreReal, NoLinkAmongWorktrees, NEW main \in tree.repos,
           NEW session, NEW r \in DOMAIN tree.linked \cap tree.dirs, tree.linked[r] = main,
           Front(r) = DirectoryOf(main)
    PROVE  LET key == Append(main, GitDir) IN
           \E row : /\ {a \in RowsOf(key, key, session) : CanonPath(a.path) = r} = {row}
                    /\ row.name = Last(r)
                    /\ row.unmanaged <=> Last(r) \notin DOMAIN EntriesOf(key)
<1> DEFINE key == Append(main, GitDir)
           gwts == ParsePorcelain(Porcelain(key))
           managed == ManagedRows(key, gwts, session)
           n == Last(r)
           rest == UnmanagedRows(key, gwts, managed)
           rows == Range(managed) \cup rest
<1>1. r \in Path /\ r # <<>> /\ r \in RootsOf(main)
    BY DEF IsFileSystem, RootsAreReal, RootsOf
<1>2. n \in Range(NameOrder) /\ r = Append(DirectoryOf(main), n)
    BY <1>1, LastOfPath
<1>3. Listed(gwts, RootsOf(main))
    BY GitListsRoots
<1>4. /\ \A m \in Range(NameOrder) : CanonPath(WorktreePath(key, m)) = r <=> m = n
      /\ n \in ManagedNames(key, gwts) <=> n \in DOMAIN EntriesOf(key)
    BY EntryIsKnown
<1>6. CanonPath(r) = r
    BY <1>1, RootIsCanonical DEF RootsAreReal
<1>7. IsStrictPrefix(ListedDir(key), r)
    <2>1. IsStrictPrefix(DirectoryOf(main), r)
        BY <1>2, DirectoryType, AppendIsLonger DEF Place, Piece
    <2> QED
        BY <2>1, ListedDirIs
<1>8. OnePerName(managed, key, gwts)
    BY ManagedRowsAre
<1>9. \A a \in Range(managed) : /\ CanonPath(a.path) = r <=> a.name = n
                                /\ a.name \in ManagedNames(key, gwts) /\ a.unmanaged = FALSE
    <2>1. \A m \in ManagedNames(key, gwts) : m \in Range(NameOrder)
        BY DEF ManagedNames
    <2> HIDE DEF managed, gwts, n
    <2> QED
        BY <1>4, <1>8, <2>1 DEF OnePerName
<1>10. \A a : a \in rest <=>
           /\ a.path \in RootsOf(main) /\ CanonPath(a.path) = a.path
           /\ IsStrictPrefix(ListedDir(key), a.path)
           /\ Last(a.path) \notin ManagedNames(key, gwts)
           /\ a = [name |-> Last(a.path), path |-> a.path, unmanaged |-> TRUE,
                   status |-> "available", self |-> FALSE]
    BY <1>3, UnmanagedRowsAre
<1>11. RowsOf(key, key, session) = Range(managed) \cup rest
    BY DEF RowsOf
<1>12. /\ \A m \in ManagedNames(key, gwts) : \E a \in Range(managed) : a.name = m
       /\ \A a \in Range(managed), b \in Range(managed) : a.name = b.name => a = b
    <2> HIDE DEF managed, gwts
    <2> QED
        BY <1>8 DEF OnePerName
<1> HIDE DEF managed, rest, gwts, n
<1>13. CASE n \in ManagedNames(key, gwts)
    <2>1. PICK row \in Range(managed) : row.name = n
        BY <1>12, <1>13
    <2>2. \A a \in Range(managed) : CanonPath(a.path) = r <=> a = row
        BY <1>9, <1>12, <2>1
    <2>3. \A a \in rest : CanonPath(a.path) # r
        BY <1>10, <1>13 DEF n
    <2>4. {a \in Range(managed) \cup rest : CanonPath(a.path) = r} = {row}
        BY <2>1, <2>2, <2>3
    <2> QED
        BY <1>4, <1>9, <1>11, <1>13, <2>1, <2>4 DEF n
<1>14. CASE n \notin ManagedNames(key, gwts)
    <2> DEFINE row == [name |-> n, path |-> r, unmanaged |-> TRUE,
                       status |-> "available", self |-> FALSE]
    <2>1. row.path = r /\ row.name = n /\ row.unmanaged
        OBVIOUS
    <2>2. row \in rest
        BY <1>1, <1>6, <1>7, <1>10, <1>14, <2>1 DEF n
    <2>3. \A a \in rest : CanonPath(a.path) = r => a = row
        BY <1>10 DEF n
    <2>4. \A a \in Range(managed) : CanonPath(a.path) # r
        BY <1>9, <1>14
    <2> HIDE DEF row
    <2>5. {a \in Range(managed) \cup rest : CanonPath(a.path) = r} = {row}
        BY <1>6, <2>1, <2>2, <2>3, <2>4
    <2> QED
        BY <1>4, <1>11, <1>14, <2>1, <2>5 DEF n
<1> QED
    BY <1>13, <1>14

\* And what has a row, and is there, is such a worktree.
LEMMA RowsAreOfWorktrees ==
    ASSUME IsFileSystem(tree), RootsAreReal, NoLinkAmongWorktrees, OnlyWorktrees,
           NEW main \in tree.repos, NEW session, NEW r \in tree.dirs,
           NEW row \in RowsOf(Append(main, GitDir), Append(main, GitDir), session),
           CanonPath(row.path) = r
    PROVE  r \in DOMAIN tree.linked /\ tree.linked[r] = main /\ Front(r) = DirectoryOf(main)
<1> DEFINE key == Append(main, GitDir)
           gwts == ParsePorcelain(Porcelain(key))
           managed == ManagedRows(key, gwts, session)
<1>1. Listed(gwts, RootsOf(main))
    BY GitListsRoots
<1>2. r \in RootsOf(main) /\ IsStrictPrefix(DirectoryOf(main), r)
    <2>1. CASE row \in Range(managed)
        <3>1. row.name \in ManagedNames(key, gwts) /\ row.path = WorktreePath(key, row.name)
            <4>1. OnePerName(managed, key, gwts)
                BY ManagedRowsAre
            <4> HIDE DEF managed, gwts
            <4> QED
                BY <2>1, <4>1 DEF OnePerName
        <3>2. row.name \in Range(NameOrder) /\ r \in DOMAIN gwts
            BY <3>1 DEF ManagedNames, Known
        <3>3. r = Append(DirectoryOf(main), row.name)
            BY <3>1, <3>2, EntryLeads
        <3> QED
            BY <1>1, <3>2, <3>3, DirectoryType, AppendIsLonger DEF Listed, Place, Piece
    <2>2. CASE row \in UnmanagedRows(key, gwts, managed)
        <3>1. row.path = r /\ r \in RootsOf(main) /\ IsStrictPrefix(ListedDir(key), r)
            BY <1>1, <2>2, UnmanagedRowsAre
        <3> QED
            BY <3>1, ListedDirIs
    <2> QED
        BY <2>1, <2>2 DEF RowsOf
<1>3. r \in DOMAIN tree.linked \ tree.repos /\ Front(r) = DirectoryOf(main)
    BY <1>2 DEF OnlyWorktrees, RootsOf
<1> QED
    BY <1>2, <1>3 DEF RootsOf
=============================================================================
