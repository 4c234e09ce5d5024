----------------------------- MODULE MC_IpsmMem -----------------------------
(* Small instances of IpsmMem for TLC. *)
EXTENDS IpsmMem, TLC

SamePages == [p \in Procs |-> 1]

Symmetry == Permutations(Procs) \cup Permutations(Objs)
=============================================================================
