----------------------------- MODULE OffsetPtr ------------------------------
(***************************************************************************)
(* offset_ptr<T>, offset_ptr<void> and atomic_offset_ptr<T> (offset_ptr.   *)
(* hpp), used by processes that map the memory at different addresses.     *)
(*                                                                         *)
(* A pointer holds the distance from its own address to its target, as an  *)
(* unsigned number, 0 for nullptr.  Addresses are counted in elements; an  *)
(* offset and an address wrap at M.  A constructor is the assignment to a  *)
(* pointer that is nullptr.  A call is one step: pointers that are not     *)
(* atomic are not for concurrent use, and an atomic one is accessed once   *)
(* in a call.  A copy to the same pointer changes nothing and is left out. *)
(***************************************************************************)
EXTENDS Integers

CONSTANTS
    Size, Plain, Atomics, Procs,    \* as in Pointers
    M,          \* the number of addresses
    BasesOf,    \* BasesOf[p]: where process p can map the memory
    TempAt,     \* TempAt[p]: the address of the pointer of process p
    Steps,      \* by how much pointers are advanced
    Upcasts     \* offsets of a base class in its derived class

Null == -1
Cells == 0..Size
Targets == Cells \cup {Null}
Shared == Plain \cup Atomics

ASSUME AddressesAssumption ==
    /\ Size \in Nat /\ M \in Nat /\ Size < M
    /\ Shared \subseteq Cells /\ Plain \cap Atomics = {}
    /\ Procs \cap Targets = {}
    /\ \A p \in Procs : BasesOf[p] \subseteq 1..(M - 1 - Size)
    /\ TempAt \in [Procs -> 1..(M - 1)]
    /\ \A p \in Procs : \A b \in BasesOf[p] : TempAt[p] \notin b..(b + Size)
    /\ Steps \subseteq -Size..Size /\ Upcasts \subseteq 0..Size

VARIABLES
    off,        \* offset_ or at_offset_ of each pointer
    base        \* where each process maps the memory

vars == <<off, base>>

Init ==
    /\ off = [x \in Shared \cup Procs |-> 0]
    /\ base \in [Procs -> UNION {BasesOf[p] : p \in Procs}]
    /\ \A p \in Procs : base[p] \in BasesOf[p]

-----------------------------------------------------------------------------
(* Arithmetic of uintptr_t. *)

(* Mutant: the distance is signed. *)
MinusSigned(a, b) == a - b

UPlus(a, b) == IF a + b < M THEN a + b ELSE a + b - M
UMinus(a, b) == IF a >= b THEN a - b ELSE a - b + M
Unsigned(d) == IF d < 0 THEN d + M ELSE d

(* Mutant: nullptr is a distance like any other. *)
CalcOffsetOfAny(at, a) == UMinus(a, at)

CalcAddress(at, o) == IF o = 0 THEN 0 ELSE UPlus(at, o)
CalcOffset(at, a) == IF a = 0 THEN 0 ELSE UMinus(a, at)

(* The address of a pointer object, a raw pointer to a cell, and what the  *)
(* pointer x is to process p.                                              *)
At(p, x) == IF x \in Procs THEN TempAt[p] ELSE base[p] + x
Raw(p, c) == IF c = Null THEN 0 ELSE base[p] + c
Address(p, x) ==
    IF x \in Atomics THEN UPlus(At(p, x), off[x]) ELSE CalcAddress(At(p, x), off[x])
Offset(p, x, a) == CalcOffset(At(p, x), a)

(* The cell of an address of p. *)
Rel(p, a) == IF a = 0 THEN Null ELSE a - base[p]

-----------------------------------------------------------------------------
(* The operations.  x, y: pointers that process p can use.  Raw pointers   *)
(* are legal: they stay in the memory.                                     *)

Mine(p) == Plain \cup {p}
Inside(p, a) == a - base[p] \in Cells
Legal(p, a) == a = 0 \/ Inside(p, a)

Assign(p, x, a) ==
    /\ Legal(p, a)
    /\ off' = [off EXCEPT ![x] = Offset(p, x, a)]
    /\ UNCHANGED base

(* From a raw pointer, or nullptr. *)
Set(p, x, c) == Assign(p, x, Raw(p, c))

(* The conversion of a raw pointer to a pointer to its base, to void. *)
Upcast(a, d) == IF a = 0 THEN 0 ELSE a + d

Copy(p, x, y, d) == x # y /\ Assign(p, x, Upcast(Address(p, y), d))

Move(p, x, y, d) ==
    LET a == Upcast(Address(p, y), d)
    IN  /\ x # y /\ Legal(p, a)
        /\ off' = [off EXCEPT ![x] = Offset(p, x, a), ![y] = 0]
        /\ UNCHANGED base

(* Mutant: the other pointer is read after it was changed. *)
SwapReadingLate(p, x, y) ==
    LET o == Offset(p, y, Address(p, x))
        a == CalcAddress(At(p, y), o)
    IN  /\ off' = [off EXCEPT ![y] = o, ![x] = Offset(p, x, a)]
        /\ UNCHANGED base

(* x.swap( y ) *)
Swap(p, x, y) ==
    /\ off' = [off EXCEPT ![y] = Offset(p, y, Address(p, x)),
                          ![x] = Offset(p, x, Address(p, y))]
    /\ UNCHANGED base

(* ++, --, += and -= *)
Advance(p, x, d) ==
    LET a == Address(p, x)
    IN  a # 0 /\ Inside(p, a + d) /\ Assign(p, x, a + d)

(* The postfix forms: the old value goes to the caller. *)
PostAdvance(p, x, d) ==
    LET a == Address(p, x)
    IN  /\ x # p /\ a # 0 /\ Inside(p, a + d)
        /\ off' = [off EXCEPT ![p] = Offset(p, p, a), ![x] = Offset(p, x, a + d)]
        /\ UNCHANGED base

(* operator+ and operator- with a number. *)
Plus(p, x, d) ==
    LET a == Address(p, x)
    IN  a # 0 /\ Inside(p, a + d) /\ Assign(p, p, a + d)

(* The results of the comparison operators, and of the subtraction of two  *)
(* pointers that are not nullptr.                                          *)
Compare(p, x, y) ==
    LET a == Address(p, x)  b == Address(p, y)
    IN  IF a < b THEN -1 ELSE IF a = b THEN 0 ELSE 1

Difference(p, x, y) == Address(p, x) - Address(p, y)

-----------------------------------------------------------------------------
(* The operations of atomic pointers; load, exchange and fetch_add return  *)
(* a pointer to the caller.                                                *)

Store(p, x, y) == Assign(p, x, Address(p, y))

Load(p, x) == Assign(p, p, Address(p, x))

Exchange(p, x, y) ==
    /\ off' = [off EXCEPT ![x] = Offset(p, x, Address(p, y)),
                          ![p] = Offset(p, p, Address(p, x))]
    /\ UNCHANGED base

(* fetch_add, fetch_sub and the postfix operators. *)
FetchAdd(p, x, d) ==
    /\ Inside(p, Address(p, x) + d)
    /\ off' = [off EXCEPT ![x] = UPlus(off[x], Unsigned(d)),
                          ![p] = Offset(p, p, Address(p, x))]
    /\ UNCHANGED base

(* The prefix operators, += and -=. *)
AddFetch(p, x, d) ==
    /\ Inside(p, Address(p, x) + d)
    /\ off' = [off EXCEPT ![x] = UPlus(off[x], Unsigned(d)),
                          ![p] = Offset(p, p, Address(p, x) + d)]
    /\ UNCHANGED base

-----------------------------------------------------------------------------
(* The process is gone, and another has the memory at its own address. *)
Remap(p, b) ==
    /\ base' = [base EXCEPT ![p] = b]
    /\ off' = [off EXCEPT ![p] = 0]

Next ==
    \E p \in Procs :
        \/ \E x \in Mine(p), c \in Targets : Set(p, x, c)
        \/ \E x, y \in Mine(p), d \in Upcasts : Copy(p, x, y, d) \/ Move(p, x, y, d)
        \/ \E x, y \in Mine(p) : Swap(p, x, y)
        \/ \E x \in Mine(p), d \in Steps :
               Advance(p, x, d) \/ PostAdvance(p, x, d) \/ Plus(p, x, d)
        \/ \E x \in Atomics, y \in Mine(p) : Store(p, x, y) \/ Exchange(p, x, y)
        \/ \E x \in Atomics, d \in Steps : FetchAdd(p, x, d) \/ AddFetch(p, x, d)
        \/ \E x \in Atomics : Load(p, x)
        \/ \E b \in BasesOf[p] : Remap(p, b)

Spec == Init /\ [][Next]_vars

-----------------------------------------------------------------------------
(* Properties.                                                             *)

(* Offsets are unsigned, and lead into the memory.                         *)
TypeOK ==
    /\ off \in [Shared \cup Procs -> 0..(M - 1)]
    /\ base \in [Procs -> UNION {BasesOf[p] : p \in Procs}]
    /\ \A p \in Procs : base[p] \in BasesOf[p]
    /\ \A p \in Procs : \A x \in Shared \cup {p} : Legal(p, Address(p, x))

(* A pointer in the memory leads every process to the same place, wherever *)
(* each maps the memory, or is nullptr for all of them; so the processes   *)
(* agree on how two pointers compare and how far they are apart.           *)
(* (offset_ptr: calc_address and calc_offset.)                             *)
SameForEveryProcess ==
    \A p, q \in Procs :
        /\ \A x \in Shared : Rel(p, Address(p, x)) = Rel(q, Address(q, x))
        /\ \A x, y \in Shared :
               /\ Compare(p, x, y) = Compare(q, x, y)
               /\ Address(p, x) # 0 /\ Address(p, y) # 0 =>
                      Difference(p, x, y) = Difference(q, x, y)

(* What a pointer in the memory points to, from its offset alone. *)
Target(x) ==
    IF x \in Procs THEN Rel(x, Address(x, x))
    ELSE IF off[x] = 0 THEN Null
    ELSE UPlus(x, off[x])

Pointed == [x \in Shared \cup Procs |-> Target(x)]
P == INSTANCE Pointers WITH to <- Pointed

(* An atomic pointer that is nullptr is read as a pointer to itself, for   *)
(* its calc_address has no case for the offset 0.  The calls that read it. *)
ReadsNull ==
    \E p \in Procs, x \in Atomics :
        /\ off[x] = 0
        /\ \/ Load(p, x)
           \/ \E y \in Mine(p) : Exchange(p, x, y)
           \/ \E d \in Steps : FetchAdd(p, x, d) \/ AddFetch(p, x, d)

(* A step that is a call of the detailed operation is one of the abstract. *)
CallKept ==
    \A p \in Procs :
        /\ \A x \in Mine(p), c \in Targets : Set(p, x, c) => P!Set(x, c)
        /\ \A x, y \in Mine(p), d \in Upcasts :
               /\ Copy(p, x, y, d) => P!Copy(x, y, d)
               /\ Move(p, x, y, d) => P!Move(x, y, d)
        /\ \A x, y \in Mine(p) : Swap(p, x, y) => P!Swap(x, y)
        /\ \A x \in Mine(p), d \in Steps :
               /\ Advance(p, x, d) => P!Advance(x, d)
               /\ PostAdvance(p, x, d) => P!PostAdvance(p, x, d)
               /\ Plus(p, x, d) => P!Plus(p, x, d)
        /\ \A x \in Atomics, y \in Mine(p) :
               /\ Store(p, x, y) => P!Copy(x, y, 0)
               /\ Exchange(p, x, y) /\ off[x] # 0 => P!Exchange(p, x, y)
        /\ \A x \in Atomics, d \in Steps :
               /\ FetchAdd(p, x, d) /\ off[x] # 0 => P!FetchAdd(p, x, d)
               /\ AddFetch(p, x, d) /\ off[x] # 0 => P!AddFetch(p, x, d)
        /\ \A x \in Atomics : Load(p, x) /\ off[x] # 0 => P!Copy(p, x, 0)
        /\ \A b \in BasesOf[p] : Remap(p, b) => P!Set(p, Null)

(* Every operation, by any process, does to the pointers what it does to   *)
(* pointers in one address space.  Excepted are the reads of an atomic     *)
(* pointer that is nullptr (off[x] # 0): the code intends a nullptr there  *)
(* (offset_ptr.hpp:709) and returns the pointer's own address (:989).      *)
(* (offset_ptr.hpp, and its test_offset_ptr.cpp.)                          *)
CallsAreKept == [][CallKept]_vars

(* The pointers implement the abstract ones, but for such reads. *)
PointersSpec == P!Init /\ [][P!Next \/ ReadsNull]_Pointed
=============================================================================
