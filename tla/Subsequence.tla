----------------------------- MODULE Subsequence -----------------------------
(***************************************************************************)
(* What is left of a queue when some of its elements are removed.  It is   *)
(* SelectSeq with the positions that stay instead of a predicate, written  *)
(* out so that it can be reasoned about: see Subsequence_proofs.           *)
(***************************************************************************)
EXTENDS Naturals, Sequences, FiniteSets

\* How many of the positions K are not after position k.
Rank(K, k) == Cardinality({j \in K : j <= k})

\* The elements of s at the positions K, in their order.
SubseqAt(s, K) ==
  [i \in 1 .. Cardinality(K) |-> s[CHOOSE k \in K : Rank(K, k) = i]]
=============================================================================
