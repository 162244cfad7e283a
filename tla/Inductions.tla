---------------------------- MODULE Inductions ----------------------------
(***************************************************************************)
(* Induction over the naturals and over sequences, for sets, and what a    *)
(* FoldLeft comes to: the run of its steps through the sequence in order.  *)
(***************************************************************************)
EXTENDS SequencesExt, Integers, TLAPS, WellFoundedInduction

\* Induction over the naturals, for a set.
LEMMA Induction ==
    ASSUME NEW S, 0 \in S, \A n \in Nat : n \in S => n + 1 \in S
    PROVE  Nat \subseteq S
<1> SUFFICES ASSUME Nat \ S # {} PROVE FALSE
    OBVIOUS
<1>1. PICK x \in Nat \ S : \A y \in Nat \ S : ~(<<y, x>> \in OpToRel(<, Nat))
    <2> DEFINE T == Nat \ S
    <2>1. T \subseteq Nat /\ T # {}
        OBVIOUS
    <2> HIDE DEF T
    <2>2. \E x \in T : \A y \in T : ~(<<y, x>> \in OpToRel(<, Nat))
        BY <2>1, NatLessThanWellFounded, WFMin
    <2> QED
        BY <2>2 DEF T
<1>2. x # 0 /\ x - 1 \in Nat /\ x - 1 < x
    OBVIOUS
<1>3. x - 1 \in Nat \ S
    <2>1. (x - 1) + 1 = x
        BY <1>2
    <2> QED
        BY <1>2, <2>1
<1>4. <<x - 1, x>> \in OpToRel(<, Nat)
    BY <1>2 DEF OpToRel
<1> QED
    BY <1>1, <1>3, <1>4


\* The largest of the first k numbers is k.
LEMMA MaxOfFirst ==
    ASSUME NEW k \in Nat \ {0}
    PROVE  Max(1..k) = k
BY DEF Max

\* The largest element of a set of the first n numbers.
LEMMA MaxBelow ==
    ASSUME NEW n \in Nat, NEW s \in SUBSET (1..n), s # {}
    PROVE  Max(s) \in s /\ \A i \in s : i <= Max(s)
<1> DEFINE Top == {k \in Nat : \A t \in SUBSET (1..k) :
                       t # {} => \E m \in t : \A i \in t : m >= i}
<1>1. 0 \in Top
    <2> 1..0 = {}
        OBVIOUS
    <2> QED
        OBVIOUS
<1>2. ASSUME NEW k \in Nat, k \in Top PROVE k + 1 \in Top
    <2> SUFFICES ASSUME NEW t \in SUBSET (1..(k + 1)), t # {}
                 PROVE  \E m \in t : \A i \in t : m >= i
        OBVIOUS
    <2>1. CASE k + 1 \in t
        BY <2>1
    <2>2. CASE k + 1 \notin t
        <3> t \in SUBSET (1..k)
            BY <2>2
        <3> QED
            BY <1>2
    <2> QED
        BY <2>1, <2>2
<1>3. n \in Top
    <2> HIDE DEF Top
    <2> QED
        BY <1>1, <1>2, Induction
<1>4. \E m \in s : \A i \in s : m >= i
    BY <1>3
<1>5. Max(s) \in s /\ \A i \in s : Max(s) >= i
    BY <1>4 DEF Max
<1> QED
    BY <1>5

\* h is what a fold from base comes to over each set of the first n positions,
\* g[i] being its step at position i.
FoldsTo(h, base, g, n) ==
    \A s \in SUBSET (1..n) :
        h[s] = IF s = {} THEN base ELSE g[Max(s)][h[s \ {Max(s)}]]

\* A fold has a value for each set of positions.
LEMMA FoldExists ==
    ASSUME NEW A, NEW base \in A, NEW n \in Nat, NEW g \in [1..n -> [A -> A]]
    PROVE  \E h \in [SUBSET (1..n) -> A] : FoldsTo(h, base, g, n)
<1> DEFINE Good(k) ==
        \E h \in [SUBSET (1..k) -> A] : \A s \in SUBSET (1..k) :
            h[s] = IF s = {} THEN base ELSE g[Max(s)][h[s \ {Max(s)}]]
           Upto == {k \in Nat : k <= n => Good(k)}
<1>1. 0 \in Upto
    <2> DEFINE h == [s \in SUBSET (1..0) |-> base]
    <2>1. h \in [SUBSET (1..0) -> A] /\ \A s \in SUBSET (1..0) : s = {} /\ h[s] = base
        OBVIOUS
    <2> HIDE DEF h
    <2> QED
        BY <2>1
<1>2. ASSUME NEW k \in Nat, k \in Upto PROVE k + 1 \in Upto
    <2> SUFFICES ASSUME k + 1 <= n PROVE Good(k + 1)
        <3> HIDE DEF Good
        <3> QED
            OBVIOUS
    <2>0. Good(k)
        <3> HIDE DEF Good
        <3> QED
            BY <1>2
    <2>1. PICK h \in [SUBSET (1..k) -> A] : \A s \in SUBSET (1..k) :
            h[s] = IF s = {} THEN base ELSE g[Max(s)][h[s \ {Max(s)}]]
        BY <2>0
    <2> DEFINE f == [s \in SUBSET (1..(k + 1)) |->
                        IF k + 1 \in s THEN g[k + 1][h[s \ {k + 1}]] ELSE h[s]]
    <2>2. ASSUME NEW s \in SUBSET (1..(k + 1)), k + 1 \notin s PROVE s \in SUBSET (1..k)
        BY <2>2
    <2>3. ASSUME NEW s \in SUBSET (1..(k + 1)) PROVE s \ {k + 1} \in SUBSET (1..k)
        OBVIOUS
    <2>4. g[k + 1] \in [A -> A]
        OBVIOUS
    <2>5. f \in [SUBSET (1..(k + 1)) -> A]
        BY <2>2, <2>3, <2>4
    <2>6. ASSUME NEW s \in SUBSET (1..(k + 1))
          PROVE  f[s] = IF s = {} THEN base ELSE g[Max(s)][f[s \ {Max(s)}]]
        <3>1. CASE k + 1 \in s
            <4>1. Max(s) = k + 1
                <5>1. Max(s) \in s /\ \A i \in s : i <= Max(s)
                    BY <3>1, MaxBelow, k + 1 \in Nat, s # {}
                <5>2. Max(s) \in 1..(k + 1) /\ k + 1 <= Max(s)
                    BY <5>1, <3>1
                <5> QED
                    BY <5>2
            <4>2. f[s \ {k + 1}] = h[s \ {k + 1}]
                BY <2>3
            <4> QED
                BY <3>1, <4>1, <4>2
        <3>2. CASE k + 1 \notin s /\ s # {}
            <4>1. s \in SUBSET (1..k)
                BY <3>2, <2>2
            <4>2. Max(s) \in s /\ s \ {Max(s)} \in SUBSET (1..k)
                BY <3>2, <4>1, MaxBelow
            <4>3. f[s \ {Max(s)}] = h[s \ {Max(s)}] /\ f[s] = h[s]
                BY <4>1, <4>2, <3>2
            <4> QED
                BY <3>2, <4>1, <4>3, <2>1
        <3>3. CASE s = {}
            BY <3>3, <2>1
        <3> QED
            BY <3>1, <3>2, <3>3
    <2> HIDE DEF f
    <2> QED
        BY <2>5, <2>6
<1>3. n \in Upto
    <2> HIDE DEF Upto
    <2> QED
        BY <1>1, <1>2, Induction
<1>4. Good(n)
    <2> HIDE DEF Good
    <2> QED
        BY <1>3
<1> QED
    BY <1>4 DEF FoldsTo


\* at is what the fold comes to after each of the first n positions.
RunOf(at, base, g, n) ==
    /\ at[0] = base
    /\ \A k \in 1..n : at[k] = g[k][at[k - 1]]

\* iter folds the step at the largest position into what it has of the others.
Folds(iter, A, base, g, n) ==
    /\ iter[{}] = base
    /\ \A s \in SUBSET (1..n) : s # {} /\ iter[s \ {Max(s)}] \in A =>
           iter[s] = g[Max(s)][iter[s \ {Max(s)}]]

\* A fold goes through the positions in order.
LEMMA FoldRuns ==
    ASSUME NEW A, NEW base \in A, NEW n \in Nat, NEW g \in [1..n -> [A -> A]], NEW iter,
           Folds(iter, A, base, g, n)
    PROVE  \E at \in [0..n -> A] : RunOf(at, base, g, n) /\ at[n] = iter[1..n]
<1> DEFINE at == [k \in 0..n |-> iter[1..k]]
           Upto == {k \in Nat : k <= n => at[k] \in A}
<1> USE DEF Folds
<1>1. at[0] = base
    <2> 1..0 = {}
        OBVIOUS
    <2> QED
        OBVIOUS
<1>2. ASSUME NEW k \in 1..n, at[k - 1] \in A PROVE at[k] = g[k][at[k - 1]]
    <2>1. Max(1..k) = k /\ (1..k) \ {k} = 1..(k - 1) /\ 1..k \in SUBSET (1..n) /\ 1..k # {}
        BY MaxOfFirst
    <2>3. at[k - 1] = iter[1..(k - 1)] /\ at[k] = iter[1..k]
        OBVIOUS
    <2> DEFINE s == 1..k
    <2>4. s \in SUBSET (1..n) /\ s # {} /\ Max(s) = k /\ s \ {Max(s)} = 1..(k - 1)
        BY <2>1
    <2>5. iter[s \ {Max(s)}] \in A
        BY <1>2, <2>3, <2>4
    <2> HIDE DEF at, s
    <2>6. iter[s] = g[Max(s)][iter[s \ {Max(s)}]]
        BY <2>4, <2>5
    <2> QED
        BY <2>3, <2>4, <2>6 DEF s
<1>3. ASSUME NEW k \in Nat, k \in Upto PROVE k + 1 \in Upto
    <2> SUFFICES ASSUME k + 1 <= n PROVE at[k + 1] \in A
        OBVIOUS
    <2>1. at[k] \in A /\ k + 1 \in 1..n /\ (k + 1) - 1 = k
        BY <1>3
    <2> HIDE DEF at
    <2>2. at[k + 1] = g[k + 1][at[k]]
        BY <1>2, <2>1
    <2> QED
        BY <2>1, <2>2
<1>4. Nat \subseteq Upto
    <2>1. 0 \in Upto
        BY <1>1
    <2> HIDE DEF Upto
    <2> QED
        BY <2>1, <1>3, Induction
<1>5. at \in [0..n -> A]
    <2>1. \A k \in 0..n : k \in Nat /\ k <= n
        OBVIOUS
    <2>2. \A k \in 0..n : at[k] \in A
        BY <1>4, <2>1
    <2>3. at = [k \in 0..n |-> at[k]]
        OBVIOUS
    <2> HIDE DEF at
    <2> QED
        BY <2>2, <2>3
<1>6. RunOf(at, base, g, n)
    <2>1. \A k \in 1..n : at[k - 1] \in A
        BY <1>5
    <2> HIDE DEF at
    <2> QED
        BY <1>1, <1>2, <2>1 DEF RunOf
<1>7. at[n] = iter[1..n]
    OBVIOUS
<1> HIDE DEF at
<1> QED
    BY <1>5, <1>6, <1>7

\* Induction over sequences, for a set.
LEMMA SeqInduction ==
    ASSUME NEW S, NEW T, <<>> \in T,
           \A s \in Seq(S), e \in S : s \in T => Append(s, e) \in T
    PROVE  Seq(S) \subseteq T
<1> DEFINE Upto == {k \in Nat : \A s \in Seq(S) : Len(s) = k => s \in T}
<1>1. 0 \in Upto
    OBVIOUS
<1>2. ASSUME NEW k \in Nat, k \in Upto PROVE k + 1 \in Upto
    <2> SUFFICES ASSUME NEW s \in Seq(S), Len(s) = k + 1 PROVE s \in T
        OBVIOUS
    <2> DEFINE f == SubSeq(s, 1, k)
    <2>1. f \in Seq(S) /\ Len(f) = k /\ s[k + 1] \in S /\ s = Append(f, s[k + 1])
        OBVIOUS
    <2>2. f \in T
        BY <1>2, <2>1
    <2> HIDE DEF f
    <2> QED
        BY <2>1, <2>2
<1>3. Nat \subseteq Upto
    <2> HIDE DEF Upto
    <2> QED
        BY <1>1, <1>2, Induction
<1> QED
    BY <1>3

\* Two runs that start at the same value and take the same steps from it.
Alike(a, b, n) ==
    /\ a[0] = b[0]
    /\ \A k \in 1..n : a[k - 1] = b[k - 1] => a[k] = b[k]

\* They come to the same.
LEMMA SameRun ==
    ASSUME NEW n \in Nat, NEW a, NEW b, Alike(a, b, n)
    PROVE  \A k \in 0..n : a[k] = b[k]
<1> USE DEF Alike
<1> DEFINE Upto == {k \in Nat : k <= n => a[k] = b[k]}
<1>1. 0 \in Upto
    OBVIOUS
<1>2. ASSUME NEW k \in Nat, k \in Upto PROVE k + 1 \in Upto
    <2> SUFFICES ASSUME k + 1 <= n PROVE a[k + 1] = b[k + 1]
        OBVIOUS
    <2> (k + 1) - 1 = k /\ k + 1 \in 1..n
        OBVIOUS
    <2> QED
        BY <1>2
<1>3. Nat \subseteq Upto
    <2> HIDE DEF Upto
    <2> QED
        BY <1>1, <1>2, Induction
<1> QED
    BY <1>3
=============================================================================
