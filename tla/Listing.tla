------------------------------- MODULE Listing -------------------------------
(***************************************************************************)
(* Lists in an order: ORDER BY of the database, sort.Slice of the backups; *)
(* loops that take some elements of a list.                                *)
(* The order is given as the elements that come before each one.  An       *)
(* element's place in the list is one more than their number; the          *)
(* community modules' SetToSortSeq comes to the same, but has no           *)
(* definition that a proof could use.                                      *)
(***************************************************************************)
EXTENDS Integers, Sequences, FiniteSets

Listed(S, before) ==
  [n \in 1..Cardinality(S) |-> CHOOSE x \in S : Cardinality(before[x]) = n - 1]

(* The elements of s at the positions in kept; SelectSeq has no definition *)
(* for proofs either.                                                      *)
Thinned(s, kept) ==
  LET order == Listed(kept, [i \in kept |-> {j \in kept : j < i}])
  IN  [n \in DOMAIN order |-> s[order[n]]]

(* What makes Listed a list of S: before is a strict total order.          *)
IsOrder(S, before) ==
  /\ \A x \in S : before[x] \subseteq S /\ x \notin before[x]
  /\ \A x, y \in S : x # y => x \in before[y] \/ y \in before[x]
  /\ \A x, y \in S : x \in before[y] => before[x] \subseteq before[y]
=============================================================================
