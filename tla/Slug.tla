-------------------------------- MODULE Slug --------------------------------
(***************************************************************************)
(* slugify of src/internal/worktree/repo.go, which makes worktree names    *)
(* (and with them branches and directories) of what a caller types.  A     *)
(* character is one of four kinds: a letter or digit, a capital, a         *)
(* separator, or one that is dropped.                                      *)
(***************************************************************************)
EXTENDS Integers, SequencesExt, FiniteSetsExt

CONSTANT MaxNameLen   \* longest name, in characters

Letter    == "a"
Capital   == "A"
Separator == "/"      \* '-', '_', ' ', '/', '.' or ':'
Dash      == "-"
Dropped   == "!"
Character == {Letter, Capital, Separator, Dash, Dropped}

TrimDashes(s) ==
    LET rest == {i \in DOMAIN s : s[i] # Dash} IN
    IF rest = {} THEN <<>> ELSE SubSeq(s, Min(rest), Max(rest))

\* One dash for a run of separators, whatever is dropped between them.
Dashed(s) ==
    LET step(out, ch) ==
            IF ch \in {Letter, Capital} THEN Append(out, Letter)
            ELSE IF ch \in {Separator, Dash} /\ out # <<>> /\ Last(out) # Dash
                 THEN Append(out, Dash)
            ELSE out
    IN FoldLeft(step, <<>>, s)

\* Mutant: the cut name keeps a dash it was cut behind.
CutOnly(s) == SubSeq(s, 1, IF Len(s) > MaxNameLen THEN MaxNameLen ELSE Len(s))

Cut(s) == IF Len(s) > MaxNameLen THEN TrimDashes(SubSeq(s, 1, MaxNameLen)) ELSE s

Slugify(s) == Cut(TrimDashes(Dashed(s)))
=============================================================================
