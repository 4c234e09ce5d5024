------------------------------ MODULE Pointers ------------------------------
(***************************************************************************)
(* What pointers in shared memory promise, without processes' addresses:   *)
(* each pointer points to a cell of the memory or to nothing, and every    *)
(* process sees the same.  One limit is part of it: a pointer cannot point *)
(* to itself, it then points to nothing (offset_ptr.hpp:37-38).            *)
(***************************************************************************)
EXTENDS Integers

CONSTANTS
    Size,       \* the last cell, or one past the last
    Plain,      \* the pointers in the memory, each named by its cell
    Atomics,    \* the atomic ones
    Procs,      \* each process has one pointer of its own: for results
    Steps, Upcasts  \* how far pointers go in a step, and in a conversion

Null == -1
Cells == 0..Size
Targets == Cells \cup {Null}

VARIABLE to     \* where each pointer points to

Init == to = [x \in Plain \cup Atomics \cup Procs |-> Null]

Kept(x, c) == IF c = x THEN Null ELSE c

Moved(c, d) == IF c = Null THEN Null ELSE c + d

(* Arithmetic stays in the memory, and does not start from nothing. *)
MayStep(x, d) == to[x] # Null /\ to[x] + d \in Cells

Assign(x, c) == c \in Targets /\ to' = [to EXCEPT ![x] = Kept(x, c)]

(* Two pointers change: y last. *)
AssignBoth(x, c, y, d) ==
    /\ c \in Targets /\ d \in Targets
    /\ to' = [to EXCEPT ![x] = Kept(x, c), ![y] = Kept(y, d)]

Mine(p) == Plain \cup {p}

Set(x, c) == Assign(x, c)
Copy(x, y, d) == Assign(x, Moved(to[y], d))
Move(x, y, d) == AssignBoth(x, Moved(to[y], d), y, Null)
Swap(x, y) == AssignBoth(y, to[x], x, to[y])
Advance(x, d) == MayStep(x, d) /\ Assign(x, to[x] + d)
PostAdvance(p, x, d) == MayStep(x, d) /\ AssignBoth(p, to[x], x, to[x] + d)
Plus(p, x, d) == MayStep(x, d) /\ Assign(p, to[x] + d)

Exchange(p, x, y) == AssignBoth(x, to[y], p, to[x])
FetchAdd(p, x, d) == MayStep(x, d) /\ AssignBoth(x, to[x] + d, p, to[x])
AddFetch(p, x, d) == MayStep(x, d) /\ AssignBoth(x, to[x] + d, p, to[x] + d)

Next ==
    \E p \in Procs :
        \/ \E x \in Mine(p), c \in Targets : Set(x, c)
        \/ \E x, y \in Mine(p), d \in Upcasts : x # y /\ (Copy(x, y, d) \/ Move(x, y, d))
        \/ \E x, y \in Mine(p) : Swap(x, y)
        \/ \E x \in Mine(p), d \in Steps :
               Advance(x, d) \/ (x # p /\ PostAdvance(p, x, d)) \/ Plus(p, x, d)
        \/ \E x \in Atomics, y \in Mine(p) : Copy(x, y, 0) \/ Exchange(p, x, y)
        \/ \E x \in Atomics, d \in Steps : FetchAdd(p, x, d) \/ AddFetch(p, x, d)
        \/ \E x \in Atomics : Copy(p, x, 0)

Spec == Init /\ [][Next]_to
=============================================================================
