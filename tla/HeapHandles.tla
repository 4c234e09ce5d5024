---------------------------- MODULE HeapHandles ----------------------------
(***************************************************************************)
(* The handles of a heap in shared memory: offset_malloc (src/             *)
(* offset_mallloc.cpp) and the bind counter of offset_malloc_impl,         *)
(* ipsm_malloc, which holds a mapping and a handle into it, and            *)
(* offset_unique_ptr, whose deleter holds a handle.                        *)
(*                                                                         *)
(* A call is the sequence of its steps in program order, kept in todo: a   *)
(* step is one critical section of the heap's mutex, or stores to the      *)
(* caller's own variables.  A process may die between any two.             *)
(*                                                                         *)
(* A handle, like an offset_unique_ptr, is a variable of one process or    *)
(* lies in a memory, where every process that maps the memory can use it;  *)
(* two processes never work on one variable at a time.  A default          *)
(* constructed handle and one that is not constructed are the same here.   *)
(* offset_allocator is an offset_malloc that is never moved.               *)
(*                                                                         *)
(* Abstractions.  ipsm_mem is what ShmLifecycle promises: the first        *)
(* process in initialises the memory before another gets in.  A process    *)
(* maps a memory at most once.  An object is a block of its memory with    *)
(* what was constructed there.                                             *)
(***************************************************************************)
EXTENDS Integers, FiniteSets, SequencesExt

CONSTANTS
    Procs, MayDie,
    Memories,       \* each holds one heap
    Mallocs,        \* variables of type ipsm_malloc
    NameOf,         \* NameOf[x]: the memory that x is constructed for
    Users,          \* variables of type offset_malloc or offset_allocator
    Uniques,        \* variables of type offset_unique_ptr, each with a deleter
    ListsOf,        \* ListsOf[m]: the lists of msg_channels in memory m
    Setups,         \* the temporaries of a call, one per process each:
    Temps, Deleters, \* shm_heap_setup; an argument or temporary; its copy
    Home,           \* Home[v]: the process or the memory that holds v
    Objects, HeapOf, \* HeapOf[o]: the memory the object is from
    Arrays,         \* objects that new_array makes
    None

Lists == UNION {ListsOf[m] : m \in Memories}
Handles == Mallocs \cup Users \cup Uniques \cup Lists \cup Setups \cup Temps \cup Deleters

ASSUME HomesAssumption ==
    /\ MayDie \subseteq Procs
    /\ Home \in [Handles -> Procs \cup Memories]
    /\ \A h \in Mallocs \cup Setups \cup Temps \cup Deleters : Home[h] \in Procs
    /\ \A m \in Memories : \A l \in ListsOf[m] : Home[l] = m
    /\ NameOf \in [Mallocs -> Memories]
    /\ HeapOf \in [Objects -> Memories] /\ Arrays \subseteq Objects
    /\ None \notin Memories \cup Objects

(* The temporaries are no variables, and every process has one of each.    *)
ASSUME KindsAssumption ==
    /\ IsFiniteSet(Handles)
    /\ Handles \cap (Objects \cup Memories) = {} /\ Procs \cap Memories = {}
    /\ Uniques \cap (Mallocs \cup Users \cup Lists) = {}
    /\ (Setups \cup Temps \cup Deleters) \cap (Mallocs \cup Users \cup Uniques \cup Lists) = {}
    /\ Setups \cap Temps = {} /\ Temps \cap Deleters = {} /\ Deleters \cap Setups = {}
    /\ \A p \in Procs : \A S \in {Setups, Temps, Deleters} : \E h \in S : Home[h] = p

VARIABLES
    impl,     \* p_impl_ of each handle: the memory it is bound to, or None
    bind,     \* bind_cnt_ of each heap
    shm,      \* shm_obj_ of each ipsm_malloc: the memory it maps, or None
    ready,    \* memories that are initialised
    target,   \* op_target_ of each offset_unique_ptr
    obj,      \* each object: free, held (by a raw pointer), owned, dead, lost
    todo,     \* the steps each process has left in its call
    alive,    \* processes that live
    tainted   \* memories that were mapped when their user died

vars == <<impl, bind, shm, ready, target, obj, todo, alive, tainted>>
handleVars == <<impl, bind>>
memVars == <<shm, ready, tainted>>
objVars == <<target, obj>>

Init ==
    /\ impl = [h \in Handles |-> None]
    /\ bind = [m \in Memories |-> 0]
    /\ shm = [x \in Mallocs \cup Temps |-> None]
    /\ ready = {}
    /\ target = [u \in Uniques |-> None]
    /\ obj = [o \in Objects |-> "free"]
    /\ todo = [p \in Procs |-> <<>>]
    /\ alive = Procs
    /\ tainted = {}

Mapped(p) == {shm[x] : x \in {y \in Mallocs \cup Temps : Home[y] = p}} \ {None}
UsersOf(m) == {p \in Procs : m \in Mapped(p)}

Local(p, S) == CHOOSE h \in S : Home[h] = p
Setup(p) == Local(p, Setups)
Temp(p) == Local(p, Temps)
Deleter(p) == Local(p, Deleters)

-----------------------------------------------------------------------------
(* The steps, and the member functions of offset_malloc in steps.  old and *)
(* new are what the two handles are bound to when the call is made.        *)

Step(op, d, s) == <<op, d, s>>
Bind(d, s) == Step("bind", d, s)
Unbind(d) == Step("unbind", d, d)
Clear(d) == Step("clear", d, d)
Take(d, s) == Step("take", d, s)    \* the pointer goes from s to d

CopyAssign(d, s, old, new) ==
    IF old = new THEN <<>> ELSE <<Unbind(d), Bind(d, s)>>

(* Mutant: a handle of the same heap is only forgotten. *)
MoveAssignForgets(d, s, old, new) ==
    IF old = new THEN <<Clear(s)>>
    ELSE <<Unbind(d), Take(d, s)>>

MoveAssign(d, s, old, new) ==
    IF old = new THEN <<Unbind(s), Clear(s)>>
    ELSE <<Unbind(d), Take(d, s)>>

(* The destructor.  Nobody sees a process's own variable in between.       *)
Destruct(d) ==
    IF Home[d] \in Procs THEN <<Step("drop", d, d)>> ELSE <<Unbind(d), Clear(d)>>

(* Mutant: the mapping first. *)
ReleaseMappingFirst(x) == <<Step("unmap", x, x)>> \o Destruct(x)

(* The members of ipsm_malloc go in the reverse order of declaration: the  *)
(* handle first, then the mapping it points into.                          *)
Release(x) == Destruct(x) \o <<Step("unmap", x, x)>>

(* The functor of the first process: the heap, a copy of the allocator in  *)
(* each list.  One temporary stands for the two allocators and for the     *)
(* argument that is passed by value.                                       *)
InitFunctor(p, m) ==
    LET s == Setup(p)  a == Temp(p)
    IN  <<Step("create", s, m), Bind(a, s)>>
        \o [i \in 1..Cardinality(ListsOf[m]) |-> Bind(SetToSeq(ListsOf[m])[i], a)]
        \o Destruct(a) \o Destruct(s) \o <<Step("ready", s, m)>>

(* shm_heap_ = offset_malloc( shm_obj_.get() ) *)
Attached(p, x, m) ==
    <<Step("attach", Temp(p), m)>> \o MoveAssign(x, Temp(p), None, m)
    \o Destruct(Temp(p))

(* A temporary takes the source over, is swapped with this one and goes.   *)
MallocMoved(p, x, y) ==
    LET t == Temp(p)
    IN  <<Step("takeall", t, y), Step("swapall", t, x)>> \o Release(t)

-----------------------------------------------------------------------------
(* offset_unique_ptr in steps.                                             *)

Reset(u) ==
    IF target[u] = None THEN <<>>
    ELSE <<Step("destroy", u, u), Step("free", u, u), Step("forget", u, u)>>

(* allocate_offset_unique: the argument a is a copy of the handle, the     *)
(* deleter of the result a copy of a copy of it.                           *)
Made(p, u, g, o) ==
    LET a == Temp(p)  d == Deleter(p)
    IN  <<Bind(a, g), Step("new", a, o), Bind(d, a), Step("own", u, o), Bind(u, d)>>
        \o Destruct(d) \o Destruct(a)

UniqueMoveConstruct(d, s) == <<Step("movetarget", d, s), Bind(d, s)>>

(* Mutant: the deleter is replaced before it was used. *)
UniqueMoveAssignLate(d, s) ==
    CopyAssign(d, s, impl[d], impl[s]) \o Reset(d) \o <<Step("movetarget", d, s)>>

UniqueMoveAssign(d, s) ==
    Reset(d) \o <<Step("movetarget", d, s)>> \o CopyAssign(d, s, impl[d], impl[s])

UniqueSwap(p, d, s) ==
    LET t == Temp(p)
    IN  <<Step("swaptarget", d, s), Bind(t, d)>>
        \o CopyAssign(d, s, impl[d], impl[s])
        \o CopyAssign(s, t, impl[s], impl[d])
        \o Destruct(t)

(* What a move and a swap of pointers do. *)
Taken(f, d, s) == [f EXCEPT ![d] = f[s], ![s] = None]
Swapped(f, d, s) == [f EXCEPT ![d] = f[s], ![s] = f[d]]

-----------------------------------------------------------------------------
(* The calls.                                                              *)

InUse(v) == \E q \in Procs : \E i \in DOMAIN todo[q] : v \in {todo[q][i][2], todo[q][i][3]}
Reaches(p, v) == Home[v] = p \/ Home[v] \in Mapped(p) \cap ready
MayUse(p, V) ==
    /\ todo[p] = <<>> /\ p \in alive
    /\ \A v \in V : Reaches(p, v) /\ ~InUse(v)

(* An offset reaches no other mapping. *)
MayHold(v, m) == Home[v] \in Memories => m \in {Home[v], None}

Call(p, steps) ==
    /\ steps # <<>>
    /\ todo' = [todo EXCEPT ![p] = steps]
    /\ UNCHANGED <<impl, bind, shm, ready, target, obj, alive, tainted>>

(* A process keeps no variable bound to a memory that it unmaps. *)
NothingElseIn(p, x) ==
    \A h \in Handles \ {x} : Home[h] = p /\ shm[x] # None => impl[h] # shm[x]

CopyHandle(p, d, s) ==
    /\ MayUse(p, {d, s}) /\ d # s
    /\ MayHold(d, impl[s])
    /\ Call(p, CopyAssign(d, s, impl[d], impl[s]))

MoveHandle(p, d, s) ==
    /\ MayUse(p, {d, s}) /\ d # s
    /\ impl[s] # None /\ MayHold(d, impl[s])
    /\ Call(p, MoveAssign(d, s, impl[d], impl[s]))

SwapHandles(p, d, s) ==
    /\ MayUse(p, {d, s}) /\ impl[d] # impl[s]
    /\ MayHold(d, impl[s]) /\ MayHold(s, impl[d])
    /\ Call(p, <<Step("swap", d, s)>>)

DropHandle(p, d) ==
    /\ MayUse(p, {d}) /\ impl[d] # None
    /\ Call(p, Destruct(d))

(* The constructor of ipsm_malloc and the move assignment to x: here x is  *)
(* empty.                                                                  *)
SetUp(p, x) ==
    LET m == NameOf[x]  first == UsersOf(m) = {}
    IN  /\ MayUse(p, {x})
        /\ shm[x] = None
        /\ m \notin Mapped(p)
        /\ first \/ m \in ready
        /\ shm' = [shm EXCEPT ![x] = m]
        /\ ready' = IF first THEN ready \ {m} ELSE ready
        /\ todo' = [todo EXCEPT ![p] =
                       (IF first THEN InitFunctor(p, m) ELSE <<>>) \o Attached(p, x, m)]
        /\ UNCHANGED <<impl, bind, target, obj, alive, tainted>>

DestroyMalloc(p, x) ==
    /\ MayUse(p, {x}) /\ shm[x] # None
    /\ NothingElseIn(p, x)
    /\ Call(p, Release(x))

MoveMalloc(p, x, y) ==
    /\ MayUse(p, {x, y}) /\ x # y /\ shm[y] # None
    /\ NothingElseIn(p, x)
    /\ Call(p, MallocMoved(p, x, y))

MakeUnique(p, u, g, o) ==
    /\ MayUse(p, {u, g})
    /\ impl[u] = None /\ impl[g] = HeapOf[o] /\ MayHold(u, impl[g])
    /\ Call(p, Made(p, u, g, o))

MoveUnique(p, d, s) ==
    /\ MayUse(p, {d, s}) /\ d # s
    /\ impl[s] # None /\ MayHold(d, impl[s])
    /\ Call(p, IF impl[d] = None THEN UniqueMoveConstruct(d, s) ELSE UniqueMoveAssign(d, s))

SwapUniques(p, d, s) ==
    /\ MayUse(p, {d, s}) /\ d # s
    /\ impl[s] # None /\ impl[d] # None
    /\ MayHold(d, impl[s]) /\ MayHold(s, impl[d])
    /\ Call(p, UniqueSwap(p, d, s))

ResetUnique(p, u) ==
    /\ MayUse(p, {u})
    /\ Call(p, Reset(u))

(* release(): the caller has the pointer now. *)
ReleaseUnique(p, u) ==
    /\ MayUse(p, {u}) /\ target[u] # None
    /\ Call(p, <<Step("release", u, u)>>)

(* reset( p ) with a pointer that was released. *)
ResetTo(p, u, o) ==
    /\ MayUse(p, {u}) /\ obj[o] = "held" /\ ~InUse(o)
    /\ impl[u] = HeapOf[o]
    /\ Call(p, Reset(u) \o <<Step("own", u, o)>>)

DestroyUnique(p, u) ==
    /\ MayUse(p, {u}) /\ impl[u] # None
    /\ Call(p, Reset(u) \o Destruct(u))

-----------------------------------------------------------------------------
(* The steps.                                                              *)

At(p, op) == p \in alive /\ todo[p] # <<>> /\ Head(todo[p])[1] = op
Dst(p) == Head(todo[p])[2]
Src(p) == Head(todo[p])[3]
Done(p) == todo' = [todo EXCEPT ![p] = Tail(@)]

(* Mutant: a null pointer has a counter too. *)
CountedAlways(m, n) == [bind EXCEPT ![m] = @ + n] @@ (m :> n)

(* offset_malloc_impl::bind; nothing happens to a null pointer. *)
Counted(m, n) == IF m = None THEN bind ELSE [bind EXCEPT ![m] = @ + n]

DoBind(p) ==
    /\ At(p, "bind")
    /\ bind' = Counted(impl[Src(p)], 1)
    /\ impl' = [impl EXCEPT ![Dst(p)] = impl[Src(p)]]
    /\ Done(p)
    /\ UNCHANGED <<memVars, objVars, alive>>

(* The constructor from memory that is set up already. *)
DoAttach(p) ==
    /\ At(p, "attach")
    /\ bind' = Counted(Src(p), 1)
    /\ impl' = [impl EXCEPT ![Dst(p)] = Src(p)]
    /\ Done(p)
    /\ UNCHANGED <<memVars, objVars, alive>>

DoUnbind(p) ==
    /\ At(p, "unbind")
    /\ bind' = Counted(impl[Dst(p)], -1)
    /\ Done(p)
    /\ UNCHANGED <<impl, memVars, objVars, alive>>

DoDrop(p) ==
    /\ At(p, "drop")
    /\ bind' = Counted(impl[Dst(p)], -1)
    /\ impl' = [impl EXCEPT ![Dst(p)] = None]
    /\ Done(p)
    /\ UNCHANGED <<memVars, objVars, alive>>

(* The stores to p_impl_. *)
DoStore(p) ==
    /\ \/ /\ At(p, "clear")
          /\ impl' = [impl EXCEPT ![Dst(p)] = None]
       \/ /\ At(p, "take")
          /\ impl' = Taken(impl, Dst(p), Src(p))
       \/ /\ At(p, "swap")
          /\ impl' = Swapped(impl, Dst(p), Src(p))
    /\ Done(p)
    /\ UNCHANGED <<bind, memVars, objVars, alive>>

(* A fresh memory: the heap, with everything that lay in an earlier one    *)
(* gone.                                                                   *)
DoCreate(p) ==
    /\ At(p, "create")
    /\ LET m == Src(p)
       IN  /\ bind' = [bind EXCEPT ![m] = 1]
           /\ impl' = [h \in Handles |-> IF h = Dst(p) THEN m
                                         ELSE IF Home[h] = m THEN None ELSE impl[h]]
           /\ target' = [u \in Uniques |-> IF Home[u] = m THEN None ELSE target[u]]
           /\ obj' = [o \in Objects |-> IF HeapOf[o] = m THEN "free" ELSE obj[o]]
           /\ tainted' = tainted \ {m}
    /\ Done(p)
    /\ UNCHANGED <<shm, ready, alive>>

DoReady(p) ==
    /\ At(p, "ready")
    /\ ready' = ready \cup {Src(p)}
    /\ Done(p)
    /\ UNCHANGED <<handleVars, shm, objVars, alive, tainted>>

(* The moves of an ipsm_malloc, which no other process can see: ipsm_mem   *)
(* and the handle; and the destructor of ipsm_mem.                         *)
DoMapping(p) ==
    /\ \/ /\ At(p, "takeall")
          /\ shm' = Taken(shm, Dst(p), Src(p))
          /\ impl' = Taken(impl, Dst(p), Src(p))
       \/ /\ At(p, "swapall")
          /\ shm' = Swapped(shm, Dst(p), Src(p))
          /\ impl' = Swapped(impl, Dst(p), Src(p))
       \/ /\ At(p, "unmap")
          /\ shm' = [shm EXCEPT ![Dst(p)] = None]
          /\ UNCHANGED impl
    /\ Done(p)
    /\ UNCHANGED <<bind, ready, tainted, objVars, alive>>

(* offset_malloc::new_instance and new_array that succeed. *)
DoNew(p) ==
    /\ At(p, "new") /\ obj[Src(p)] = "free"
    /\ obj' = [obj EXCEPT ![Src(p)] = "held"]
    /\ Done(p)
    /\ UNCHANGED <<handleVars, memVars, target, alive>>

(* No memory, or the constructor throws: what is left is the destructor of *)
(* the argument.  new_instance gives the block back, new_array does not.   *)
DoNewFails(p) ==
    /\ At(p, "new")
    /\ \/ UNCHANGED obj
       \/ /\ obj[Src(p)] = "free" /\ Src(p) \in Arrays
          /\ obj' = [obj EXCEPT ![Src(p)] = "lost"]
    /\ todo' = [todo EXCEPT ![p] = Destruct(Dst(p))]
    /\ UNCHANGED <<handleVars, memVars, target, alive>>

(* The stores to op_target_. *)
DoTarget(p) ==
    /\ \/ /\ At(p, "own")
          /\ target' = [target EXCEPT ![Dst(p)] = Src(p)]
          /\ obj' = [obj EXCEPT ![Src(p)] = "owned"]
       \/ /\ At(p, "movetarget")
          /\ target' = Taken(target, Dst(p), Src(p))
          /\ UNCHANGED obj
       \/ /\ At(p, "swaptarget")
          /\ target' = Swapped(target, Dst(p), Src(p))
          /\ UNCHANGED obj
       \/ /\ At(p, "release")
          /\ obj' = [obj EXCEPT ![target[Dst(p)]] = "held"]
          /\ target' = [target EXCEPT ![Dst(p)] = None]
       \/ /\ At(p, "forget")
          /\ target' = [target EXCEPT ![Dst(p)] = None]
          /\ UNCHANGED obj
    /\ Done(p)
    /\ UNCHANGED <<handleVars, memVars, alive>>

(* The deleter: offset_malloc::delete_instance runs the destructor, then   *)
(* gives the block back if it lies in the heap of its handle.              *)
DoDelete(p) ==
    /\ LET u == Dst(p)  o == target[u]
       IN  \/ At(p, "destroy") /\ obj' = [obj EXCEPT ![o] = "dead"]
           \/ /\ At(p, "free")
              /\ obj' = [obj EXCEPT ![o] = IF impl[u] = HeapOf[o] THEN "free" ELSE "lost"]
    /\ Done(p)
    /\ UNCHANGED <<handleVars, memVars, target, alive>>

(* The kernel unmaps, and nothing else: no destructor runs. *)
Die(p) ==
    /\ p \in MayDie \cap alive
    /\ alive' = alive \ {p}
    /\ todo' = [todo EXCEPT ![p] = <<>>]
    /\ tainted' = tainted \cup Mapped(p)
    /\ shm' = [x \in DOMAIN shm |-> IF Home[x] = p THEN None ELSE shm[x]]
    /\ impl' = [h \in Handles |-> IF Home[h] = p THEN None ELSE impl[h]]
    /\ target' = [u \in Uniques |-> IF Home[u] = p THEN None ELSE target[u]]
    /\ UNCHANGED <<bind, ready, obj>>

HandleCall(p) ==
    \/ \E d, s \in Users \cup Mallocs :
           \/ d \in Users /\ CopyHandle(p, d, s)
           \/ {d, s} \subseteq Users /\ (MoveHandle(p, d, s) \/ SwapHandles(p, d, s))
    \/ \E d \in Users : DropHandle(p, d)

MallocCall(p) ==
    \/ \E x \in Mallocs : SetUp(p, x) \/ DestroyMalloc(p, x)
    \/ \E x, y \in Mallocs : MoveMalloc(p, x, y)

UniqueCall(p) ==
    \/ \E u \in Uniques, g \in Users \cup Mallocs, o \in Objects : MakeUnique(p, u, g, o)
    \/ \E d, s \in Uniques : MoveUnique(p, d, s) \/ SwapUniques(p, d, s)
    \/ \E u \in Uniques : ResetUnique(p, u) \/ ReleaseUnique(p, u) \/ DestroyUnique(p, u)
    \/ \E u \in Uniques, o \in Objects : ResetTo(p, u, o)

StepOf(p) ==
    \/ DoBind(p) \/ DoAttach(p) \/ DoUnbind(p) \/ DoDrop(p) \/ DoStore(p)
    \/ DoCreate(p) \/ DoReady(p) \/ DoMapping(p)
    \/ DoNew(p) \/ DoNewFails(p) \/ DoTarget(p) \/ DoDelete(p)

Next == \E p \in Procs : HandleCall(p) \/ MallocCall(p) \/ UniqueCall(p) \/ StepOf(p) \/ Die(p)

Spec == Init /\ [][Next]_vars

-----------------------------------------------------------------------------
(* Properties.                                                             *)

TypeOK ==
    /\ impl \in [Handles -> Memories \cup {None}]
    /\ bind \in [Memories -> Int]
    /\ shm \in [Mallocs \cup Temps -> Memories \cup {None}]
    /\ ready \subseteq Memories
    /\ target \in [Uniques -> Objects \cup {None}]
    /\ obj \in [Objects -> {"free", "held", "owned", "dead", "lost"}]
    /\ alive \subseteq Procs
    /\ tainted \subseteq Memories
    /\ \A p \in Procs : todo[p] # <<>> => p \in alive

(* A handle that was unbound and that the next step overwrites.            *)
Stale == {Dst(p) : p \in {q \in Procs : At(q, "bind") \/ At(q, "take") \/ At(q, "clear")}}

Sound(m) == m \in ready \ tainted /\ UsersOf(m) # {}

(* The bind count of a heap is the number of the handles that are bound to *)
(* it, whatever was copied, moved, swapped and dropped by whom, until a    *)
(* process dies with it; a memory that is set up anew counts right again.  *)
(* (offset_malloc.cpp, and ipsm_malloc.hpp:148-156.)                       *)
BindCountIsExact ==
    \A m \in Memories :
        Sound(m) => bind[m] = Cardinality({h \in Handles : impl[h] = m} \ Stale)

(* A process touches the counter of a heap, or a block of it, only while   *)
(* it maps the memory: ipsm_malloc gives the handle up before the mapping, *)
(* also when it is assigned to.  (ipsm_malloc.hpp:233-234.)                *)
NoUseAfterUnmap ==
    \A p \in Procs :
        /\ At(p, "unbind") \/ At(p, "drop") => impl[Dst(p)] \in Mapped(p) \cup {None}
        /\ At(p, "bind") => impl[Src(p)] \in Mapped(p) \cup {None}
        /\ At(p, "destroy") \/ At(p, "free") => HeapOf[target[Dst(p)]] \in Mapped(p)

(* A pointer that is only to be forgotten: the block is back in the heap,  *)
(* and may be another's already.                                           *)
Owners(o) ==
    {u \in Uniques : target[u] = o /\ \A p \in Procs : At(p, "forget") => Dst(p) # u}

Deleting(p, o) == At(p, "free") /\ target[Dst(p)] = o

(* As long as nobody died, every object that is owned has one owner, which *)
(* can give it back to the heap it is from, and an owner's object is alive *)
(* unless the owner is just deleting it.  (offset_unique_ptr.hpp.)         *)
OwnedOnce ==
    \A o \in Objects : Sound(HeapOf[o]) =>
        /\ obj[o] = "owned" => Cardinality(Owners(o)) = 1
        /\ Owners(o) # {} => obj[o] = "owned" \/ \E p \in Procs : Deleting(p, o)
        /\ \A p \in Procs : Deleting(p, o) => impl[Dst(p)] = HeapOf[o]
=============================================================================
