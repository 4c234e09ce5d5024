---------------------------- MODULE MC_OffsetPtr ----------------------------
(* Three cells; a pointer in the first and one in the last, an atomic one  *)
(* between.  Distances wrap in both directions: a process                  *)
(* maps the memory below its own pointer or above it.                      *)
EXTENDS OffsetPtr

CONSTANTS p1, p2

MCTempAt == [p \in {p1, p2} |-> IF p = p1 THEN 5 ELSE 14]
MCBasesOf == [p \in {p1, p2} |-> IF p = p1 THEN {1, 8} ELSE {9}]
MCSteps == {-1, 2}
MCUpcasts == {0, 1}
=============================================================================
