---------------------------- MODULE SlugProofs ----------------------------
(***************************************************************************)
(* Proofs about slugify, whatever is typed and whatever the limit: a name it *)
(* gives has no dash at an end and none doubled, and slugify leaves it alone. *)
(***************************************************************************)
EXTENDS Slug, Inductions

\* What one character does to the name so far.
DashStep(out, ch) ==
    IF ch \in {Letter, Capital} THEN Append(out, Letter)
    ELSE IF ch \in {Separator, Dash} /\ out # <<>> /\ Last(out) # Dash THEN Append(out, Dash)
    ELSE out

SlugChar == {Letter, Dash}

\* A step appends letters and dashes only.
LEMMA DashStepType ==
    ASSUME NEW out \in Seq(SlugChar), NEW ch
    PROVE  DashStep(out, ch) \in Seq(SlugChar)
BY DEF DashStep, SlugChar

\* The loop of slugify goes through the characters in order.
LEMMA DashedSteps ==
    ASSUME NEW s \in Seq(Character)
    PROVE  \E at \in [0..Len(s) -> Seq(SlugChar)] :
               /\ at[0] = <<>>
               /\ \A k \in 1..Len(s) : at[k] = DashStep(at[k - 1], s[k])
               /\ at[Len(s)] = Dashed(s)
<1> DEFINE n == Len(s)
           A == Seq(SlugChar)
           g == [k \in 1..n |-> [out \in A |-> DashStep(out, s[k])]]
           Fits(iter) == iter = [t \in SUBSET DOMAIN s |->
                             IF t = {} THEN <<>> ELSE DashStep(iter[t \ {Max(t)}], s[Max(t)])]
           it == CHOOSE iter : Fits(iter)
<1>1. n \in Nat /\ DOMAIN s = 1..n /\ <<>> \in A /\ g \in [1..n -> [A -> A]]
    BY DashStepType
<1>2. Dashed(s) = it[1..n]
    BY <1>1 DEF Dashed, FoldLeft, MapThenFoldSet, DashStep
<1>3. \A k \in 1..n, out \in A : g[k][out] = DashStep(out, s[k])
    OBVIOUS
<1>4. \A t \in SUBSET (1..n) : t # {} => Max(t) \in 1..n
    BY <1>1, MaxBelow
<1> HIDE DEF n, A, g
<1>5. PICK h \in [SUBSET (1..n) -> A] : FoldsTo(h, <<>>, g, n)
    BY <1>1, FoldExists
<1>6. Fits(h)
    <2>1. \A t \in SUBSET (1..n) :
              h[t] = IF t = {} THEN <<>> ELSE DashStep(h[t \ {Max(t)}], s[Max(t)])
        BY <1>3, <1>4, <1>5 DEF FoldsTo
    <2> QED
        BY <1>1, <2>1
<1>7. Fits(it)
    <2> HIDE DEF Fits
    <2> QED
        BY <1>6
<1> HIDE DEF it
<1>8. Folds(it, A, <<>>, g, n)
    BY <1>1, <1>3, <1>4, <1>7 DEF Folds
<1>9. \E at \in [0..n -> A] : RunOf(at, <<>>, g, n) /\ at[n] = it[1..n]
    BY <1>1, <1>8, FoldRuns
<1>10. PICK at \in [0..n -> A] : RunOf(at, <<>>, g, n) /\ at[n] = it[1..n]
    BY <1>9
<1>11. \A k \in 1..n : at[k] = DashStep(at[k - 1], s[k])
    BY <1>1, <1>3, <1>10 DEF RunOf
<1> QED
    BY <1>2, <1>10, <1>11 DEF RunOf, n, A

\* A name whose dashes are single and not at its start.
Tidy(s) ==
    /\ s \in Seq(SlugChar)
    /\ s # <<>> => s[1] # Dash
    /\ \A i \in 1..(Len(s) - 1) : ~(s[i] = Dash /\ s[i + 1] = Dash)

\* Nor at its end.
Trim(s) == Tidy(s) /\ (s # <<>> => Last(s) # Dash)

\* A character leaves the name so far tidy.
LEMMA StepIsTidy ==
    ASSUME NEW out, Tidy(out), NEW ch
    PROVE  Tidy(DashStep(out, ch))
<1> DEFINE next == DashStep(out, ch)
<1>1. CASE next = out
    BY <1>1
<1>2. CASE next = Append(out, Letter)
    BY <1>2 DEF Tidy, SlugChar, Letter, Dash
<1>3. CASE next = Append(out, Dash) /\ out # <<>> /\ Last(out) # Dash
    BY <1>3 DEF Tidy, SlugChar, Letter, Dash, Last
<1> QED
    BY <1>1, <1>2, <1>3 DEF DashStep

\* The loop leaves a name with no dash before its first letter and none doubled.
LEMMA DashedIsTidy ==
    ASSUME NEW s \in Seq(Character)
    PROVE  Tidy(Dashed(s))
<1>1. PICK at \in [0..Len(s) -> Seq(SlugChar)] :
          /\ at[0] = <<>>
          /\ \A k \in 1..Len(s) : at[k] = DashStep(at[k - 1], s[k])
          /\ at[Len(s)] = Dashed(s)
    BY DashedSteps
<1> DEFINE Upto == {k \in Nat : k <= Len(s) => Tidy(at[k])}
<1>2. 0 \in Upto
    BY <1>1 DEF Tidy
<1>3. ASSUME NEW k \in Nat, k \in Upto PROVE k + 1 \in Upto
    <2> SUFFICES ASSUME k + 1 <= Len(s) PROVE Tidy(at[k + 1])
        OBVIOUS
    <2>1. Tidy(at[k])
        BY <1>3
    <2>2. at[k + 1] = DashStep(at[k], s[k + 1])
        BY <1>1
    <2> QED
        BY <2>1, <2>2, StepIsTidy
<1>4. Len(s) \in Upto
    <2> HIDE DEF Upto
    <2> QED
        BY <1>2, <1>3, Induction
<1> QED
    BY <1>1, <1>4

\* Such a name goes through the loop unchanged.
LEMMA TidyStays ==
    ASSUME NEW s, Tidy(s)
    PROVE  Dashed(s) = s
<1>0. s \in Seq(Character) /\ s \in Seq(SlugChar)
    BY DEF Tidy, SlugChar, Character
<1>1. PICK at \in [0..Len(s) -> Seq(SlugChar)] :
          /\ at[0] = <<>>
          /\ \A k \in 1..Len(s) : at[k] = DashStep(at[k - 1], s[k])
          /\ at[Len(s)] = Dashed(s)
    BY <1>0, DashedSteps
<1> DEFINE Upto == {k \in Nat : k <= Len(s) => at[k] = SubSeq(s, 1, k)}
<1>2. 0 \in Upto
    BY <1>0, <1>1
<1>3. ASSUME NEW k \in Nat, k \in Upto PROVE k + 1 \in Upto
    <2> SUFFICES ASSUME k + 1 <= Len(s) PROVE at[k + 1] = SubSeq(s, 1, k + 1)
        OBVIOUS
    <2>1. at[k] = SubSeq(s, 1, k)
        BY <1>3
    <2>2. at[k + 1] = DashStep(at[k], s[k + 1])
        BY <1>1
    <2>3. SubSeq(s, 1, k + 1) = Append(SubSeq(s, 1, k), s[k + 1])
        BY <1>0
    <2>4. CASE s[k + 1] = Letter
        BY <2>1, <2>2, <2>3, <2>4 DEF DashStep
    <2>5. CASE s[k + 1] = Dash
        <3>1. k # 0
            BY <2>5 DEF Tidy
        <3>2. s[k] # Dash
            BY <2>5, <3>1 DEF Tidy
        <3>3. SubSeq(s, 1, k) # <<>> /\ Last(SubSeq(s, 1, k)) = s[k]
            BY <1>0, <3>1 DEF Last
        <3> QED
            BY <2>1, <2>2, <2>3, <2>5, <3>2, <3>3 DEF DashStep, Letter, Capital, Dash
    <2> QED
        BY <1>0, <2>4, <2>5 DEF SlugChar
<1>4. Len(s) \in Upto
    <2> HIDE DEF Upto
    <2> QED
        BY <1>0, <1>2, <1>3, Induction
<1> QED
    BY <1>0, <1>1, <1>4

\* Trimming takes the dash from its end, and nothing from a name without one.
LEMMA TrimDashesTrims ==
    ASSUME NEW s, Tidy(s)
    PROVE  /\ Trim(TrimDashes(s))
           /\ Len(TrimDashes(s)) <= Len(s)
           /\ Trim(s) => TrimDashes(s) = s
<1> DEFINE rest == {i \in DOMAIN s : s[i] # Dash}
           t == TrimDashes(s)
<1>0. s \in Seq(SlugChar) /\ Len(s) \in Nat /\ DOMAIN s = 1..Len(s)
    BY DEF Tidy
<1>1. CASE rest = {}
    <2>1. t = <<>>
        BY <1>1 DEF TrimDashes
    <2>2. s = <<>>
        BY <1>0, <1>1 DEF Tidy
    <2> QED
        BY <1>0, <2>1, <2>2 DEF Trim, Tidy
<1>2. CASE rest # {}
    <2>1. s # <<>> /\ 1 \in rest
        BY <1>0, <1>2 DEF Tidy
    <2>2. Min(rest) = 1
        BY <1>0, <2>1 DEF Min
    <2>3. Max(rest) \in rest /\ \A i \in rest : i <= Max(rest)
        BY <1>0, <1>2, MaxBelow
    <2> DEFINE m == Max(rest)
    <2>4. m \in 1..Len(s) /\ s[m] # Dash
        BY <1>0, <2>3
    <2>5. t = SubSeq(s, 1, m)
        BY <1>2, <2>2 DEF TrimDashes
    <2>6. t \in Seq(SlugChar) /\ Len(t) = m /\ \A i \in 1..m : t[i] = s[i]
        <3> HIDE DEF m, t
        <3> QED
            BY <1>0, <2>4, <2>5
    <2> HIDE DEF m, t
    <2>7. Trim(t)
        BY <1>0, <2>4, <2>6 DEF Trim, Tidy, Last
    <2>8. ASSUME Trim(s) PROVE t = s
        <3>1. Len(s) \in rest
            BY <1>0, <2>1, <2>8 DEF Trim, Last
        <3>2. m = Len(s)
            <4>1. Len(s) <= m
                <5> HIDE DEF rest
                <5> QED
                    BY <2>3, <3>1 DEF m
            <4> HIDE DEF rest
            <4>2. m \in Nat /\ m <= Len(s)
                BY <1>0, <2>4
            <4>3. \A a, b \in Nat : a <= b /\ b <= a => a = b
                OBVIOUS
            <4> QED
                BY <1>0, <4>1, <4>2, <4>3
        <3> QED
            BY <1>0, <2>5, <3>2
    <2> QED
        BY <1>0, <2>4, <2>6, <2>7, <2>8 DEF t
<1> QED
    BY <1>1, <1>2

\* Cutting keeps to the limit and trims again; a name within it stays.
LEMMA CutCuts ==
    ASSUME MaxNameLen \in Nat, NEW s, Trim(s)
    PROVE  /\ Trim(Cut(s))
           /\ Len(Cut(s)) <= MaxNameLen
           /\ Len(s) <= MaxNameLen => Cut(s) = s
<1>0. s \in Seq(SlugChar) /\ Len(s) \in Nat
    BY DEF Trim, Tidy
<1>1. CASE Len(s) <= MaxNameLen
    BY <1>0, <1>1 DEF Cut
<1>2. CASE Len(s) > MaxNameLen
    <2> DEFINE t == SubSeq(s, 1, MaxNameLen)
    <2>1. t \in Seq(SlugChar) /\ Len(t) = MaxNameLen /\ \A i \in 1..MaxNameLen : t[i] = s[i]
        BY <1>0, <1>2
    <2> HIDE DEF t
    <2>2. Tidy(t)
        BY <1>0, <1>2, <2>1 DEF Trim, Tidy
    <2>3. Cut(s) = TrimDashes(t)
        BY <1>2 DEF Cut, t
    <2> QED
        BY <1>0, <1>2, <2>1, <2>2, <2>3, TrimDashesTrims
<1> QED
    BY <1>0, <1>1, <1>2

\* What slugify gives is trimmed and within the limit, and slugify leaves it as
\* it is.
LEMMA SlugifyIsStable ==
    ASSUME MaxNameLen \in Nat, NEW raw \in Seq(Character)
    PROVE  /\ Trim(Slugify(raw))
           /\ Len(Slugify(raw)) <= MaxNameLen
           /\ Slugify(Slugify(raw)) = Slugify(raw)
<1> DEFINE n == Slugify(raw)
<1>1. Trim(TrimDashes(Dashed(raw)))
    BY DashedIsTidy, TrimDashesTrims
<1>2. Trim(n) /\ Len(n) <= MaxNameLen
    BY <1>1, CutCuts DEF Slugify
<1>3. Dashed(n) = n /\ TrimDashes(n) = n /\ Cut(n) = n
    <2> HIDE DEF n
    <2> QED
        BY <1>2, TidyStays, TrimDashesTrims, CutCuts DEF Trim
<1> QED
    BY <1>2, <1>3 DEF Slugify
=============================================================================
