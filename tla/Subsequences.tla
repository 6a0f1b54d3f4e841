---------------------------- MODULE Subsequences ----------------------------
(***************************************************************************)
(* What is left of a sequence when elements are erased.  SelectSeq says    *)
(* the same of a predicate; here the elements that stay are given by their *)
(* indices, and the result is defined without recursion, so that it can be *)
(* reasoned about for sequences of any length.                             *)
(***************************************************************************)
EXTENDS Integers, Sequences, FiniteSets

\* The index in K that has j indices of K up to and including itself.
Nth(K, j) == CHOOSE i \in K : Cardinality({k \in K : k <= i}) = j

\* The elements of s at the indices K, in their order.
Subsequence(s, K) == [j \in 1 .. Cardinality(K) |-> s[Nth(K, j)]]
=============================================================================
