--------------------------- MODULE MC_MsgChannel ---------------------------
(* Small instances of MsgChannel for TLC. *)
EXTENDS MsgChannel, TLC

CONSTANTS p1, p2, p3, c1, c2

(* Two senders that also poll, and a receiver that waits. *)
TwoSenders ==
    [p \in Procs |-> IF p = p3 THEN {"receive", "try_receive_until"}
                     ELSE {"send", "try_receive"}]

(* The senders are alike, and so are the channels. *)
Alike == Permutations({p1, p2}) \cup Permutations({c1, c2})

(* One sender, a receiver that waits for ever and one with a deadline. *)
OneSender ==
    [p \in Procs |-> CASE p = p1 -> {"send"}
                       [] p = p2 -> {"receive"}
                       [] OTHER -> {"try_receive_until"}]
=============================================================================
