---------------------------- MODULE OffsetMalloc ----------------------------
(***************************************************************************)
(* The heap of a shared memory: offset_malloc_impl's allocate and          *)
(* deallocate (libipsm_mem/src/offset_mallloc_impl.cpp), a K&R allocator   *)
(* whose state is the headers in the memory itself, and what is left of it *)
(* when the process in the middle of a call dies.                          *)
(*                                                                         *)
(* Unit: one block_header (16 bytes).  Address 0 is base_blk_, the blocks  *)
(* tile 1..Units.  Both calls hold mtx_ throughout, so a call is one step; *)
(* its stores happen in program order, and a process that dies has made    *)
(* the first few of them.  The robust mutex then lets the next caller in   *)
(* (ipsm_mutex.cpp:85-90) with the headers as they are.                    *)
(*                                                                         *)
(* Abstractions.  Requests are counted in units.  An alignment up to one   *)
(* unit is 1.  A header that is neither in the free list nor in front of   *)
(* an allocation is never read before it is written; it is kept blank.     *)
(***************************************************************************)
EXTENDS Integers, Sequences, Functions

CONSTANTS
    Units,      \* size of the first free block
    HeapAt,     \* address of base_blk_, in units
    Requests,   \* sizes asked for, in units
    Aligns,     \* alignments asked for, in units
    MayDieIn    \* operations in which the caller may die

ASSUME ConstAssumption ==
    /\ Units \in Nat \ {0}
    /\ HeapAt \in Nat
    /\ Requests \subseteq Nat
    /\ Aligns \subseteq Nat \ {0}
    /\ MayDieIn \subseteq {"allocate", "deallocate"}

Addr == 0..Units
Base == 0
Null == -1

VARIABLES
    mem,        \* op_next_block_ and size_of_this_block_ by address, op_freep_
    live,       \* allocations not yet returned: [ptr, req, align]
    died,       \* some process has died inside a call
    stuck       \* deallocate threw "fail to free"

vars == <<mem, live, died, stuck>>

NextOf(m, b) == m.next[b]
SizeOf(m, b) == m.size[b]
Freep(m) == m.freep[Base]

(* get_end_ptr. *)
EndOf(m, b) == b + SizeOf(m, b)

-----------------------------------------------------------------------------
(* Stores, in program order. *)

SetNext(b, v) == <<"next", b, v>>
SetSize(b, v) == <<"size", b, v>>
SetFreep(b) == <<"freep", Base, b>>

Store(m, w) == [m EXCEPT ![w[1]][w[2]] = w[3]]
AfterStores(m, ws) ==
    LET after[i \in 0..Len(ws)] ==
            IF i = 0 THEN m ELSE Store(after[i - 1], ws[i])
    IN  after[Len(ws)]

-----------------------------------------------------------------------------
FirstOf(S) == CHOOSE i \in S : \A j \in S : i <= j

(* The walk of both calls: op_freep_, then block after block. *)
Walk(m) ==
    LET w[i \in 1..Units + 2] ==
            IF i = 1 THEN Freep(m)
            ELSE LET b == w[i - 1] IN IF b = Null THEN Null ELSE NextOf(m, b)
    IN  w

(* The walk w comes back to op_freep_ after this many blocks; 0 if never. *)
RingLength(w) ==
    LET back == {i \in 1..Units + 1 : w[i + 1] = w[1]}
    IN  IF back = {} THEN 0 ELSE FirstOf(back)

-----------------------------------------------------------------------------
(* allocate.                                                               *)

AlignUp(a, n) == ((n + a - 1) \div a) * a

(* Units between a block's body and the first aligned address in it. *)
SlotOptimize(b, align) == AlignUp(align, HeapAt + b + 1) - (HeapAt + b + 1)

(* Mutant: no room for the header. *)
NeededWithoutHeader(req, align) == req + (align - 1)

(* Blocks to look for: the request, slack for the alignment, a header. *)
Needed(req, align) == req + (align - 1) + 1

CanSplit(m, b, n) == SizeOf(m, b) > n + 1

(* The block the walk starts at has no predecessor, so only a split of it  *)
(* is considered.                                                          *)
Fits(m, w, i, n) ==
    CanSplit(m, w[i], n) \/ (i > 1 /\ SizeOf(m, w[i]) >= n)

(* Mutant: the block cut from keeps one block too many. *)
SplitBlockShort(m, b, n, align) ==
    LET opt == SlotOptimize(b + SizeOf(m, b) - n, align)
        rest == SizeOf(m, b) - (n - opt)
    IN  [blk |-> b + rest,
         stores |-> << SetSize(b, rest + 1), SetFreep(b),
                       SetNext(b + rest, Null), SetSize(b + rest, n - opt) >>]

(* Cut from the end of b; the front of the cut that the alignment leaves   *)
(* unused stays with b.                                                    *)
SplitBlock(m, b, n, align) ==
    LET opt == SlotOptimize(b + SizeOf(m, b) - n, align)
        rest == SizeOf(m, b) - (n - opt)
    IN  [blk |-> b + rest,
         stores |-> << SetSize(b, rest), SetFreep(b),
                       SetNext(b + rest, Null), SetSize(b + rest, n - opt) >>]

(* Unlink b whole; or hand out its aligned tail and add the front to the   *)
(* size of the block before it in the list.                                *)
TakeBlock(m, pre, b, n, align) ==
    LET opt == SlotOptimize(b, align)
    IN  IF opt = 0
        THEN [blk |-> b,
              stores |-> << SetNext(pre, NextOf(m, b)), SetNext(b, Null),
                            SetFreep(pre) >>]
        ELSE [blk |-> b + opt,
              stores |-> << SetNext(b + opt, Null), SetSize(b + opt, n - opt),
                            SetNext(pre, NextOf(m, b)),
                            SetSize(pre, SizeOf(m, pre) + opt),
                            SetFreep(pre) >>]

(* The block allocate hands out and the stores it makes; only if some      *)
(* block fits.                                                             *)
Allocation(m, w, n, align, fit) ==
    LET i == FirstOf(fit)
    IN  IF CanSplit(m, w[i], n) THEN SplitBlock(m, w[i], n, align)
        ELSE TakeBlock(m, w[i - 1], w[i], n, align)

-----------------------------------------------------------------------------
(* deallocate.                                                             *)

(* Mutant: no place after the last block. *)
BetweenNeighbours(pre, b, nxt) == pre < b /\ b < nxt

(* The block goes between pre and nxt, or after the last block. *)
Between(pre, b, nxt) == pre < b /\ (b < nxt \/ nxt < pre)

(* Mutant: blocks are never merged. *)
InsertionUnmerged(m, pre, b, nxt) ==
    << SetNext(b, nxt), SetNext(pre, b), SetFreep(pre) >>

(* Mutant: only the block before is merged with, whatever follows. *)
InsertionDroppingNext(m, pre, b, nxt) ==
    IF EndOf(m, pre) = b
    THEN << SetNext(pre, NextOf(m, nxt)),
            SetSize(pre, SizeOf(m, pre) + SizeOf(m, b)), SetFreep(pre) >>
    ELSE << SetNext(b, nxt), SetNext(pre, b), SetFreep(pre) >>

(* Link b between pre and nxt, merging it with those it touches. *)
Insertion(m, pre, b, nxt) ==
    LET joinsPre == EndOf(m, pre) = b
        joinsNxt == EndOf(m, b) = nxt
    IN  CASE joinsPre /\ joinsNxt ->
                << SetNext(pre, NextOf(m, nxt)),
                   SetSize(pre, SizeOf(m, pre) + SizeOf(m, b) + SizeOf(m, nxt)),
                   SetFreep(pre) >>
          [] joinsPre /\ ~joinsNxt ->
                << SetSize(pre, SizeOf(m, pre) + SizeOf(m, b)), SetFreep(pre) >>
          [] ~joinsPre /\ joinsNxt ->
                << SetNext(b, NextOf(m, nxt)), SetNext(pre, b),
                   SetSize(b, SizeOf(m, b) + SizeOf(m, nxt)), SetFreep(pre) >>
          [] OTHER ->
                << SetNext(b, nxt), SetNext(pre, b), SetFreep(pre) >>

(* Mutant: the block is not linked back to base_blk_. *)
RefillOneWay(b) == << SetNext(Base, b) >>

(* Every block was in use: the free list is base_blk_ alone. *)
Refill(b) == << SetNext(Base, b), SetNext(b, Base) >>

HeapIsFull(m) == Freep(m) = Base /\ NextOf(m, Base) = Base

-----------------------------------------------------------------------------
(* The header in front of an allocation. *)
Block(a) == a.ptr - HeapAt - 1

(* Headers that nobody will read again. *)
Scrubbed(m, allocs) ==
    LET w == Walk(m)
        kept == Range(w) \cup {Block(a) : a \in allocs}
    IN  [m EXCEPT !.next = [b \in Addr |-> IF b \in kept THEN @[b] ELSE 0],
                  !.size = [b \in Addr |-> IF b \in kept THEN @[b] ELSE 0]]

(* A call ends with all its stores made, or dies after the first few. *)
Finish(ws, allocs) ==
    /\ mem' = Scrubbed(AfterStores(mem, ws), allocs)
    /\ live' = allocs
    /\ UNCHANGED <<died, stuck>>

DieAmid(ws, allocs) ==
    /\ \E k \in 0..Len(ws) - 1 :
          mem' = Scrubbed(AfterStores(mem, SubSeq(ws, 1, k)), allocs)
    /\ live' = allocs
    /\ died' = TRUE
    /\ UNCHANGED stuck

-----------------------------------------------------------------------------
Init ==
    /\ mem = [next |-> [b \in Addr |-> IF b = Base THEN 1 ELSE 0],
              size |-> [b \in Addr |-> IF b = 1 THEN Units ELSE 0],
              freep |-> [b \in {Base} |-> Base]]
    /\ live = {}
    /\ died = FALSE
    /\ stuck = FALSE

(* When nothing fits the call returns nullptr. *)
Allocate(req, align) ==
    LET w == Walk(mem)
        n == Needed(req, align)
        fit == {i \in 1..RingLength(w) : Fits(mem, w, i, n)}
        got == Allocation(mem, w, n, align, fit)
        ptr == AlignUp(align, HeapAt + got.blk + 1)
    IN  \/ /\ fit # {}
           /\ \/ Finish(got.stores,
                        live \cup {[ptr |-> ptr, req |-> req, align |-> align]})
              \/ "allocate" \in MayDieIn /\ DieAmid(got.stores, live)
        \/ /\ fit = {}
           /\ RingLength(w) # 0
           /\ UNCHANGED vars

(* The owner returns what it was given; nobody returns it again. *)
Deallocate(a) ==
    LET w == Walk(mem)
        b == Block(a)
        at == {i \in 1..RingLength(w) : Between(w[i], b, w[i + 1])}
        insertion == Insertion(mem, w[FirstOf(at)], b, w[FirstOf(at) + 1])
    IN  \/ /\ at # {}
           /\ \/ Finish(insertion, live \ {a})
              \/ "deallocate" \in MayDieIn /\ DieAmid(insertion, live \ {a})
        \/ /\ at = {}
           /\ HeapIsFull(mem)
           /\ \/ Finish(Refill(b), live \ {a})
              \/ "deallocate" \in MayDieIn /\ DieAmid(Refill(b), live \ {a})
        \/ /\ at = {}
           /\ RingLength(w) # 0
           /\ ~HeapIsFull(mem)
           /\ stuck' = TRUE
           /\ UNCHANGED <<mem, live, died>>

Next ==
    \/ \E req \in Requests, align \in Aligns : Allocate(req, align)
    \/ \E a \in live : Deallocate(a)

Spec == Init /\ [][Next]_vars
-----------------------------------------------------------------------------
FreeBlocks ==
    LET w == Walk(mem) IN {w[i] : i \in 1..RingLength(w)}
Spare == FreeBlocks \ {Base}
Used == {Block(a) : a \in live}
Extent(b) == b..EndOf(mem, b) - 1

TypeOK ==
    /\ mem \in [next : [Addr -> Addr \cup {Null}], size : [Addr -> 0..Units],
               freep : [{Base} -> Addr]]
    /\ \A a \in live : a.req \in Requests /\ a.align \in Aligns /\ Block(a) \in Addr
    /\ died \in BOOLEAN /\ stuck \in BOOLEAN

(* Whatever was allocated, returned, or left half done by a death, the     *)
(* free list is a ring in address order that starts and ends at base_blk_, *)
(* so that every later walk ends and finds its place.                      *)
FreeListSound ==
    /\ RingLength(Walk(mem)) # 0
    /\ Base \in FreeBlocks
    /\ SizeOf(mem, Base) = 0
    /\ \A b \in FreeBlocks :
          LET above == {c \in FreeBlocks : c > b}
          IN  NextOf(mem, b) = IF above = {} THEN Base ELSE FirstOf(above)

(* No unit belongs to two blocks, free or in use, and each allocation has  *)
(* room for what was asked: the size in a header is the size of the block  *)
(* the header belongs to (offset_mallloc_impl.hpp:65).                     *)
NoOverlap ==
    /\ \A a, b \in live : a # b => Block(a) # Block(b)
    /\ Used \cap FreeBlocks = {}
    /\ \A b \in Used \cup Spare :
          /\ Extent(b) \subseteq 1..Units
          /\ \A c \in Used \cup Spare : b # c => Extent(b) \cap Extent(c) = {}
    /\ \A a \in live : a.req < SizeOf(mem, Block(a))

(* While nobody has died inside a call, every unit is in some block. *)
NothingLost ==
    ~died => 1..Units = UNION {Extent(b) : b \in Used \cup Spare}

(* Free blocks that touch are always merged, whatever the order of the     *)
(* returns: a heap that is all free is one block again.                    *)
Coalesced == \A b, c \in Spare : EndOf(mem, b) # c

(* A block that was allocated can be returned: the search of deallocate    *)
(* (offset_mallloc_impl.cpp:180-220) never ends in "fail to free".         *)
EveryReturnSucceeds == ~stuck
=============================================================================
