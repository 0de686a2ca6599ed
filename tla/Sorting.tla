------------------------------ MODULE Sorting ------------------------------
(***************************************************************************)
(* Sorting a finite set into a sequence (ORDER BY, sort_by): the order is  *)
(* all that is said of the result, so that it can be reasoned about.       *)
(***************************************************************************)
EXTENDS Naturals, SequencesExt

\* The members of S, each once, none after one that it goes before.
Sorted(S, Before(_, _)) ==
  CHOOSE s \in SetToSeqs(S) : \A i, j \in DOMAIN s : i < j => ~Before(s[j], s[i])

=============================================================================
