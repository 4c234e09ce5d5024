---------------------------- MODULE MC_OffsetList ----------------------------
(* A small instance of OffsetList for TLC. *)
EXTENDS OffsetList

CONSTANTS a1, a2, a3, b1, b2, c1, c2, c3

(* Two lists in the first heap, c3 in the second. *)
TwoHeaps ==
    [e \in Nodes \cup Lists |-> IF e \in {b1, b2, c3} THEN "second" ELSE "first"]

(* The nodes of a heap are alike, and so are the lists that share one.     *)
Alike ==
    Permutations({a1, a2, a3}) \cup Permutations({b1, b2})
        \cup Permutations({c1, c2})
=============================================================================
