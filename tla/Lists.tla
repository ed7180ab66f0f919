-------------------------------- MODULE Lists --------------------------------
(***************************************************************************)
(* Operators on lists, for the modules that proofs are about: SequencesExt *)
(* would bring the bags and the theorems about them into every proof.      *)
(***************************************************************************)
EXTENDS Integers, Sequences, FiniteSetsExt, Functions

\* op over the elements of s, from the first to the last.
FoldLeft(op(_, _), base, s) ==
    LET acc[k \in 0..Len(s)] == IF k = 0 THEN base ELSE op(acc[k - 1], s[k])
    IN  acc[Len(s)]

\* The sequences of ss, one after the other.
Flatten(ss) == FoldLeft(LAMBDA s, t : s \o t, <<>>, ss)

\* ArrayList.add(index, element) and ArrayList.removeAt(index), from 1.
InsertedAt(s, i, e) == SubSeq(s, 1, i - 1) \o <<e>> \o SubSeq(s, i, Len(s))
RemovedAt(s, i) == SubSeq(s, 1, i - 1) \o SubSeq(s, i + 1, Len(s))

=============================================================================
