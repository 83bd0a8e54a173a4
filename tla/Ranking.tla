------------------------------- MODULE Ranking -------------------------------
(* Sorting, and picking elements of a list, as the layers of the extension *)
(* library use them.                                                       *)
EXTENDS Integers, FiniteSets

(* The elements of S in a strict order, given by its pairs (std::sort).    *)
Ranked(S, before) ==
  [k \in 1..Cardinality(S) |->
     CHOOSE x \in S : Cardinality({y \in S : <<y, x>> \in before}) = k - 1]

(* The elements of list s at some of its places.                           *)
Ascending == {r \in Nat \X Nat : r[1] < r[2]}
Pick(s, places) ==
  [k \in 1..Cardinality(places) |-> s[Ranked(places, Ascending)[k]]]
=============================================================================
