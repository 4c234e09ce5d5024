---------------------------- MODULE MC_SharedPtr ----------------------------
(* Small instances of SharedPtr for TLC. *)
EXTENDS SharedPtr, TLC

CONSTANTS t1, t2, s1, s2, w1, w2, b1, b2

(* The object of b1 holds a weak_ptr, that of b2 a shared_ptr. *)
OneOfEach == (b1 :> "weak") @@ (b2 :> "shared")
=============================================================================
