----------------------------- MODULE Subsequences -----------------------------
(* What the filters of the code keep: some elements of a sequence, in their
   order. *)
EXTENDS Naturals, FiniteSets

(* The elements at these places, in their order. *)
Picked(s, places) ==
    [k \in 1..Cardinality(places) |->
        s[CHOOSE i \in places : Cardinality({j \in places : j <= i}) = k]]
===============================================================================
