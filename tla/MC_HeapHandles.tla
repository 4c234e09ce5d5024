--------------------------- MODULE MC_HeapHandles ---------------------------
(* Two processes; two memories, the first with a list in it.  Process p1   *)
(* has two ipsm_malloc, so that one can be moved to the other.             *)
EXTENDS HeapHandles

CONSTANTS p1, p2, ma, mb, x1, x2, y, u1, ua, w1, wa, la, oa, ob,
          s1, s2, t1, t2, d1, d2

MCListsOf == [m \in {ma, mb} |-> IF m = ma THEN {la} ELSE {}]
MCHome == [h \in Handles |->
              IF h \in {x1, x2, u1, w1, s1, t1, d1} THEN p1
              ELSE IF h \in {y, s2, t2, d2} THEN p2 ELSE ma]
MCNameOf == [x \in {x1, x2, y} |-> IF x = x2 THEN mb ELSE ma]
MCHeapOf == (oa :> ma) @@ (ob :> mb)
=============================================================================
