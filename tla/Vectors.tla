------------------------------- MODULE Vectors -------------------------------
(***************************************************************************)
(* Sequences used as sets that keep an order: the address vectors of the   *)
(* contracts, the keys of a JavaScript Map, the dashboard's endpoint list. *)
(* The programs keep them free of repetition by scans of their own.        *)
(***************************************************************************)
EXTENDS Naturals, Sequences, FiniteSets

\* The elements of a Vec<Address>.
Members(s) == {s[i] : i \in DOMAIN s}

\* The duplicate scan that every init runs over the vector it is given.
HasDuplicates(s) == \E i, j \in DOMAIN s : i < j /\ s[i] = s[j]

\* What is left of a sequence without repetition when x is taken out of it:
\* Map.delete, or a filter that keeps everything else.
Without(s, x) ==
    IF x \notin Members(s) THEN s
    ELSE LET p == CHOOSE i \in DOMAIN s : s[i] = x
         IN  [i \in 1..(Len(s) - 1) |-> IF i < p THEN s[i] ELSE s[i + 1]]

-----------------------------------------------------------------------------
(* A loop over any sequence: what f, a function of a state and an entry, has *)
(* made of `base` after the last entry.  SequencesExt!FoldLeft does the same *)
(* with an operator for f, which a lemma cannot quantify over.               *)

Folded(f, base, s) ==
    LET after[i \in 0..Len(s)] == IF i = 0 THEN base ELSE f[<<after[i - 1], s[i]>>]
    IN  after[Len(s)]

=============================================================================
