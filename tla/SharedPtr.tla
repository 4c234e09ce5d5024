----------------------------- MODULE SharedPtr -----------------------------
(***************************************************************************)
(* offset_shared_ptr and offset_weak_ptr (libipsm_mem/inc/                 *)
(* offset_shared_ptr.hpp, src/offset_shared_ptr.cpp): control blocks with  *)
(* two counts under a mutex, used by threads of several processes.         *)
(*                                                                         *)
(* A handle is an offset_shared_ptr or an offset_weak_ptr.  Two threads    *)
(* never work on one handle at a time: that is the caller's duty, as for   *)
(* std::shared_ptr.  The object a block owns holds one handle itself, so   *)
(* that the object's destructor drops a reference: the field of block b is *)
(* the handle named b.                                                     *)
(*                                                                         *)
(* Whatever happens within one lock of a block's mutex and gives it back   *)
(* is one step.  dispose_resource runs the object's destructor with the    *)
(* mutex held, so a drop has several steps, and a drop within a drop is a  *)
(* frame on the thread's stack.                                            *)
(*                                                                         *)
(* An assignment works on a temporary that it swaps with the handle, so    *)
(* that the handle always has its count.  A handle that is constructed or  *)
(* destroyed in place has not: p_r_impl_ is set before the count goes up   *)
(* and cleared after it went down.  Such a handle is torn: it is nobody    *)
(* else's to use.                                                          *)
(*                                                                         *)
(* A thread may die with its process at any step.  Its stack stays, as a   *)
(* record of the references that nobody will drop, and so do the handles   *)
(* it was constructing or destroying.  A mutex it has goes to the next who *)
(* locks it.  When that is a drop, and the dead thread was disposing of    *)
(* the object, the object's destructor runs again, on what is left of the  *)
(* object: that is not modelled, the drop stays there.                     *)
(*                                                                         *)
(* Abstractions.  The four stores of swap are one step, also in an         *)
(* assignment: p_ always belongs to the block of p_r_impl_.  The heap is   *)
(* the set of blocks that are not live; a failed allocation changes        *)
(* nothing.  All handles lie in shared memory and outlive their thread.    *)
(***************************************************************************)
EXTENDS Naturals, FiniteSets, SequencesExt

CONSTANTS
    Threads, MayDie,
    Blocks,         \* control blocks, each with the object it owns
    SharedHandles,  \* variables of type offset_shared_ptr
    WeakHandles,    \* variables of type offset_weak_ptr
    FieldKind,      \* what the object of each block holds: "shared" or "weak"
    Null

ASSUME HandlesAssumption ==
    /\ SharedHandles \cap WeakHandles = {}
    /\ Blocks \cap (SharedHandles \cup WeakHandles) = {}
    /\ FieldKind \in [Blocks -> {"shared", "weak"}]
    /\ Null \notin Blocks \cup Threads \cup SharedHandles \cup WeakHandles
    /\ MayDie \subseteq Threads

VARIABLES
    ref,    \* p_r_impl_ of each handle
    torn,   \* handles that are being constructed or destroyed in place
    cnt,    \* ctrl_: the counts of each block, cnt[b].shared and cnt[b].weak
    live,   \* blocks that are constructed
    obj,    \* the object of each block
    lock,   \* the thread that keeps mtx_ from one step to the next, or Null
    stack,  \* the drops each thread is in, the innermost last
    alive   \* threads that live

vars == <<ref, torn, cnt, live, obj, lock, stack, alive>>

Variables == SharedHandles \cup WeakHandles
Handles == Variables \cup Blocks
Kind(h) ==
    IF h \in SharedHandles THEN "shared"
    ELSE IF h \in WeakHandles THEN "weak" ELSE FieldKind[h]

(* A drop, of the handle "of" in place or (Null) of a temporary. *)
Frames == [at : {"dec", "dispose", "destroy", "clear"}, blk : Blocks,
           kind : {"shared", "weak"}, of : Handles \cup {Null}]
DecFrame(b, k, o) == [at |-> "dec", blk |-> b, kind |-> k, of |-> o]

Init ==
    /\ ref = [h \in Handles |-> Null]
    /\ torn = {}
    /\ cnt = [b \in Blocks |-> [shared |-> 0, weak |-> 0]]
    /\ live = {}
    /\ obj = [b \in Blocks |-> "none"]
    /\ lock = [b \in Blocks |-> Null]
    /\ stack = [t \in Threads |-> <<>>]
    /\ alive = Threads

Idle(t) == stack[t] = <<>>

MayCall(t) == t \in alive /\ Idle(t)

(* A field can be reached through a shared handle to its object. *)
Usable(h) ==
    /\ h \notin torn
    /\ h \in Blocks =>
          obj[h] = "alive" /\ \E s \in SharedHandles \ torn : ref[s] = h

(* h refers to b from now on, and the destructor of the temporary drops    *)
(* what it referred to.                                                    *)
Pending(h) ==
    IF ref[h] = Null THEN <<>> ELSE <<DecFrame(ref[h], Kind(h), Null)>>
Swapped(h, b, refs) == [refs EXCEPT ![h] = b]
DropOld(t, h) == stack' = [stack EXCEPT ![t] = Pending(h)]

(* Mutant: a weak_ptr counts as a shared_ptr. *)
IncreasedShared(b, k) == [cnt EXCEPT ![b].shared = @ + 1]

Increased(b, k) == [cnt EXCEPT ![b][k] = @ + 1]

-----------------------------------------------------------------------------
(* The constructor from a pointer, reset(p), and an assignment of either.  *)
Make(t, h, b) ==
    /\ MayCall(t) /\ Usable(h) /\ Kind(h) = "shared"
    /\ b \notin live
    /\ live' = live \cup {b}
    /\ obj' = [obj EXCEPT ![b] = "alive"]
    /\ cnt' = [cnt EXCEPT ![b] = [shared |-> 1, weak |-> 0]]
    /\ ref' = Swapped(h, b, ref)
    /\ DropOld(t, h)
    /\ UNCHANGED <<torn, lock, alive>>

(* Mutant: lock() does not look at the shared count. *)
LocksAnyway(h, g, b) == lock[b] \notin alive

(* A shared_ptr from a weak_ptr wants a shared count. *)
MayTake(h, g, b) ==
    /\ lock[b] \notin alive
    /\ Kind(h) = "shared" /\ Kind(g) = "weak" => cnt[b].shared # 0

(* Between two handles of one block, an assignment returns early when both *)
(* are shared_ptrs; a converting one to a weak_ptr, or from lock(), takes a *)
(* count and gives it back.                                                *)
Differ(h, g) ==
    /\ h # g
    /\ ref[g] = ref[h] => ~(Kind(h) = "shared" /\ Kind(g) = "shared")

Copied(h, g) ==
    /\ Usable(h) /\ Usable(g)
    /\ ref[g] # Null /\ Differ(h, g)
    /\ MayTake(h, g, ref[g])

(* Copy construction, copy assignment and lock(): the count of h's kind.   *)
(* The order of handle and count matters to a death only.                  *)
Copy(t, h, g) ==
    /\ MayCall(t) /\ Copied(h, g)
    /\ cnt' = Increased(ref[g], Kind(h))
    /\ ref' = Swapped(h, ref[g], ref)
    /\ DropOld(t, h)
    /\ UNCHANGED <<torn, live, obj, lock, alive>>

Moved(h, g) ==
    /\ Usable(h) /\ Usable(g)
    /\ Kind(h) = Kind(g)
    /\ ref[g] # Null /\ Differ(h, g)

(* Move construction and assignment. *)
Move(t, h, g) ==
    /\ MayCall(t) /\ Moved(h, g)
    /\ ref' = Swapped(h, ref[g], Swapped(g, Null, ref))
    /\ DropOld(t, h)
    /\ UNCHANGED <<torn, cnt, live, obj, lock, alive>>

(* swap. *)
Swap(t, h, g) ==
    /\ MayCall(t) /\ Usable(h) /\ Usable(g)
    /\ Kind(h) = Kind(g)
    /\ ref' = Swapped(h, ref[g], Swapped(g, ref[h], ref))
    /\ UNCHANGED <<torn, cnt, live, obj, lock, stack, alive>>

(* reset(), and an assignment of an empty pointer. *)
Reset(t, h) ==
    /\ MayCall(t) /\ Usable(h)
    /\ ref[h] # Null
    /\ ref' = Swapped(h, Null, ref)
    /\ DropOld(t, h)
    /\ UNCHANGED <<torn, cnt, live, obj, lock, alive>>

(* The destructor of h begins: h is cleared when the drop is over. *)
Destruct(t, h) ==
    /\ ref[h] # Null /\ h \notin torn
    /\ torn' = torn \cup {h}
    /\ stack' = [stack EXCEPT ![t] = Append(@, DecFrame(ref[h], Kind(h), h))]

(* The destructor of a variable. *)
Drop(t, h) ==
    /\ MayCall(t) /\ h \in Variables
    /\ Destruct(t, h)
    /\ UNCHANGED <<ref, cnt, live, obj, lock, alive>>

-----------------------------------------------------------------------------
(* try_dispose_com and what it calls.                                      *)

Top(t) == Last(stack[t])
TopAt(t, l) == t \in alive /\ ~Idle(t) /\ Top(t).at = l
Pop(t) == [stack EXCEPT ![t] = Front(@)]
TopTo(t, l) ==
    [stack EXCEPT ![t] = Append(Front(@), [Last(@) EXCEPT !.at = l])]

(* try_dispose_com returns: to the destructor of a handle, or it was that  *)
(* of a temporary.                                                         *)
Returned(t) == IF Top(t).of = Null THEN Pop(t) ELSE TopTo(t, "clear")

(* Mutant: the object is disposed of with the last reference of any kind. *)
LastOfAnyKind(c) ==
    IF c.shared <= 0 /\ c.weak <= 0 THEN "destroy" ELSE "keep"

(* What is due when a count has gone down. *)
Due(c) ==
    IF c.shared <= 0 /\ c.weak <= 0 THEN "destroy"
    ELSE IF c.shared <= 0 /\ c.weak > 0 THEN "dispose"
    ELSE "keep"

(* Mutant: a drop of the weak count is taken off the shared one. *)
DecreasedShared(b, k) == [cnt EXCEPT ![b].shared = @ - 1]

Decreased(b, k) == [cnt EXCEPT ![b][k] = @ - 1]

(* Mutant: the mutex is given back before the object is disposed of. *)
LockForNothing(t, due) == Null

(* dispose_resource runs with the mutex held, the destruction of the block *)
(* without it: the mutex goes with the block.                              *)
LockFor(t, due) == IF due = "dispose" THEN t ELSE Null

(* The lock, the count and the decision; a second disposal finds nothing   *)
(* to do.                                                                  *)
Decrement(t) ==
    /\ TopAt(t, "dec")
    /\ LET b == Top(t).blk
           c == Decreased(b, Top(t).kind)
           due == IF Due(c[b]) = "dispose" /\ obj[b] = "gone" THEN "keep"
                  ELSE Due(c[b])
       IN  /\ lock[b] = Null
           /\ cnt' = c
           /\ lock' = [lock EXCEPT ![b] = LockFor(t, due)]
           /\ obj' = IF due # "keep" /\ obj[b] = "alive"
                     THEN [obj EXCEPT ![b] = "dying"] ELSE obj
           /\ stack' = IF due = "keep" THEN Returned(t) ELSE TopTo(t, due)
    /\ UNCHANGED <<ref, torn, live, alive>>

(* The object's destructor drops its field. *)
DropField(t) ==
    /\ TopAt(t, "dispose") \/ TopAt(t, "destroy")
    /\ obj[Top(t).blk] = "dying"
    /\ Destruct(t, Top(t).blk)
    /\ UNCHANGED <<ref, cnt, live, obj, lock, alive>>

(* Mutant: the mutex is kept. *)
FinishDisposeLocked(t) ==
    /\ TopAt(t, "dispose")
    /\ LET b == Top(t).blk
       IN  /\ ref[b] = Null
           /\ obj' = [obj EXCEPT ![b] = "gone"]
    /\ stack' = Returned(t)
    /\ UNCHANGED <<ref, torn, cnt, live, lock, alive>>

(* reset() of op_to_obj_ is over: the mutex is given back. *)
FinishDispose(t) ==
    /\ TopAt(t, "dispose")
    /\ LET b == Top(t).blk
       IN  /\ ref[b] = Null
           /\ obj' = [obj EXCEPT ![b] = "gone"]
           /\ lock' = [lock EXCEPT ![b] = Null]
    /\ stack' = Returned(t)
    /\ UNCHANGED <<ref, torn, cnt, live, alive>>

(* The block's destructor, with the object's if it was still there. *)
Destroy(t) ==
    /\ TopAt(t, "destroy")
    /\ LET b == Top(t).blk
       IN  /\ ref[b] = Null
           /\ live' = live \ {b}
           /\ obj' = [obj EXCEPT ![b] = "none"]
    /\ stack' = Returned(t)
    /\ UNCHANGED <<ref, torn, cnt, lock, alive>>

(* The end of a handle's destructor. *)
Clear(t) ==
    /\ TopAt(t, "clear")
    /\ ref' = Swapped(Top(t).of, Null, ref)
    /\ torn' = torn \ {Top(t).of}
    /\ stack' = Pop(t)
    /\ UNCHANGED <<cnt, live, obj, lock, alive>>

-----------------------------------------------------------------------------
(* Deaths.                                                                 *)

Dead(t) == t \in MayDie \cap alive /\ alive' = alive \ {t}

(* Between two steps. *)
Die(t) == Dead(t) /\ UNCHANGED <<ref, torn, cnt, live, obj, lock, stack>>

(* Nobody will drop the temporary that holds the reference. *)
Orphaned(t, b, k) == stack' = [stack EXCEPT ![t] = <<DecFrame(b, k, Null)>>]

(* In the constructor, before the handle has the block. *)
DieAmidMake(t, b) ==
    /\ Dead(t) /\ Idle(t)
    /\ b \notin live
    /\ live' = live \cup {b}
    /\ obj' = [obj EXCEPT ![b] = "alive"]
    /\ cnt' = [cnt EXCEPT ![b] = [shared |-> 1, weak |-> 0]]
    /\ Orphaned(t, b, "shared")
    /\ UNCHANGED <<ref, torn, lock>>

(* In a copy constructor, a lock() or a move constructor that works in     *)
(* place: h is set, and the count is not yet up, or g still set.  A copy   *)
(* to a weak_ptr does not even have the mutex.                             *)
DieAmidConstruct(t, h, g) ==
    /\ Dead(t) /\ Idle(t) /\ Usable(h) /\ Usable(g)
    /\ h \in Variables /\ ref[h] = Null /\ ref[g] # Null
    /\ Kind(h) = "shared" /\ Kind(g) = "weak" => MayTake(h, g, ref[g])
    /\ ref' = Swapped(h, ref[g], ref)
    /\ torn' = torn \cup {h}
    /\ UNCHANGED <<cnt, live, obj, lock, stack>>

(* In a copy assignment or lock(), after the count of the temporary went   *)
(* up, before the handle has it.                                           *)
DieAmidCopy(t, h, g) ==
    /\ Dead(t) /\ Idle(t) /\ Copied(h, g)
    /\ cnt' = Increased(ref[g], Kind(h))
    /\ Orphaned(t, ref[g], Kind(h))
    /\ UNCHANGED <<ref, torn, live, obj, lock>>

(* In a move assignment, when only the temporary has the reference. *)
DieAmidMove(t, h, g) ==
    /\ Dead(t) /\ Idle(t) /\ Moved(h, g)
    /\ ref' = Swapped(g, Null, ref)
    /\ Orphaned(t, ref[g], Kind(g))
    /\ UNCHANGED <<torn, cnt, live, obj, lock>>

-----------------------------------------------------------------------------
Dropping(t) ==
    Decrement(t) \/ DropField(t) \/ FinishDispose(t) \/ Destroy(t) \/ Clear(t)

Next ==
    \E t \in Threads :
        \/ \E h \in Handles, b \in Blocks : Make(t, h, b)
        \/ \E h, g \in Handles :
              Copy(t, h, g) \/ Move(t, h, g) \/ Swap(t, h, g)
        \/ \E h \in Handles : Reset(t, h) \/ Drop(t, h)
        \/ Dropping(t)
        \/ Die(t)
        \/ \E b \in Blocks : DieAmidMake(t, b)
        \/ \E h, g \in Handles :
              \/ DieAmidConstruct(t, h, g)
              \/ DieAmidCopy(t, h, g)
              \/ DieAmidMove(t, h, g)

Spec == Init /\ [][Next]_vars

(* A thread in a drop runs, and gets a mutex that is free again and again. *)
Fairness ==
    \A t \in Threads :
        /\ SF_vars(Decrement(t))
        /\ WF_vars(DropField(t) \/ FinishDispose(t) \/ Destroy(t) \/ Clear(t))

FairSpec == Spec /\ Fairness

-----------------------------------------------------------------------------
TypeOK ==
    /\ ref \in [Handles -> Blocks \cup {Null}]
    /\ torn \subseteq Handles
    /\ cnt \in [Blocks -> [shared : Nat, weak : Nat]]
    /\ live \subseteq Blocks
    /\ obj \in [Blocks -> {"none", "alive", "dying", "gone"}]
    /\ lock \in [Blocks -> Threads \cup {Null}]
    /\ stack \in [Threads -> Seq(Frames)]
    /\ alive \subseteq Threads

(* The drops that still work on b, and the whole handles that refer to it. *)
FrameOf(x) == stack[x[1]][x[2]]
FramesOf(b) ==
    {x \in UNION {{t} \X DOMAIN stack[t] : t \in Threads} :
        FrameOf(x).blk = b /\ FrameOf(x).at # "clear"}
References(b, k) == {h \in Handles \ torn : ref[h] = b /\ Kind(h) = k}
DropsDue(b, k) ==
    {x \in FramesOf(b) : FrameOf(x).at = "dec" /\ FrameOf(x).kind = k}

(* The counts are the numbers of whole handles and of drops that have not  *)
(* yet reached the count, whatever is copied, moved, swapped and dropped at *)
(* the same time.  A death leaves counts that are too high by what the     *)
(* dead thread was dropping or about to hand over.  What it leaves set     *)
(* without a count is only the handle it was constructing or destroying    *)
(* (offset_shared_ptr.hpp:252-253, :314-316).                              *)
CountsAreReferences ==
    \A b \in live, k \in {"shared", "weak"} :
        cnt[b][k] = Cardinality(References(b, k)) + Cardinality(DropsDue(b, k))

(* A whole handle, or a drop on its way, never refers to a block that was  *)
(* given back, and a shared_ptr never to an object whose destructor has    *)
(* begun (lock() and the drop of the last shared_ptr exclude each other,   *)
(* offset_shared_ptr.hpp:655-670).                                         *)
NoDangling ==
    \A b \in Blocks :
        /\ References(b, "weak") \cup FramesOf(b) # {} => b \in live
        /\ References(b, "shared") # {} => b \in live /\ obj[b] = "alive"

(* One drop alone disposes of an object or a block: no other disposes of   *)
(* it or destroys it meanwhile, and none is left to come when it is        *)
(* destroyed.                                                              *)
OneDisposer ==
    \A b \in Blocks :
        LET at(l) == {x \in FramesOf(b) : FrameOf(x).at = l}
        IN  /\ Cardinality(at("dispose") \cup at("destroy")) <= 1
            /\ at("destroy") # {} => FramesOf(b) = at("destroy")

(* What nobody refers to is not kept: an object goes with its last         *)
(* shared_ptr, even if weak_ptrs stay, and a block with its last handle.   *)
(* A death keeps what the dead thread was dropping or about to hand over.  *)
NothingKept ==
    \A b \in live :
        /\ References(b, "shared") \cup References(b, "weak") \cup FramesOf(b) # {}
        /\ obj[b] = "alive" =>
              References(b, "shared") # {} \/ DropsDue(b, "shared") # {}

(* The drop t is in waits for the mutex of a block whose object a thread   *)
(* of S disposes of.  Only that of a weak_ptr can.                         *)
WaitsFor(t, S) ==
    TopAt(t, "dec") /\ Top(t).kind = "weak" /\ lock[Top(t).blk] \in S

(* Threads that wait for one another or for themselves: t drops a weak_ptr *)
(* in an object it disposes of, which refers to that object, to one further *)
(* out or to one of another thread in the same situation.  Or they wait    *)
(* for a dead one.  One thread and one object with a weak_ptr to itself    *)
(* are enough: the mutex is plain (offset_shared_ptr.hpp:152), not the     *)
(* recursive one that the comments at :58 and :103 speak of.               *)
Entangled(t) ==
    \E D \in SUBSET alive :
        t \in D /\ \A u \in D : WaitsFor(u, D \cup (Threads \ alive))

(* Every drop ends, with all the drops it causes, unless its thread dies   *)
(* or gets entangled: the mutex of a block is kept over the destructor of  *)
(* the object (offset_shared_ptr.cpp:39), but every other wait for it ends. *)
DropsFinishUnlessEntangled ==
    \A t \in Threads : ~Idle(t) ~> Idle(t) \/ t \notin alive \/ Entangled(t)
=============================================================================
