------------------------------ MODULE Numbered ------------------------------
(***************************************************************************)
(* Sequences of numbered messages, records with a field n: what is         *)
(* selected from one, and the order of their numbers.                      *)
(***************************************************************************)
EXTENDS Naturals, Sequences, SequencesExt

\* The messages of q that are in S, in the order of q.
Selected(q, S) ==
  FoldLeft(LAMBDA t, m : IF m \in S THEN Append(t, m) ELSE t, <<>>, q)

\* Each message has a greater number than those before it.
Ascending(q) == \A i, j \in DOMAIN q : i < j => q[i].n < q[j].n
=============================================================================
