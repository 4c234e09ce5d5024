# procshared_mem in TLA+

A TLA+ project for `libipsm_mem`, the library of this repository that lets
processes set up a named POSIX shared memory, allocate in it, pass messages
through it and share objects in it. The modules model the code under
`src/libipsm_mem`; paths below are relative to that directory unless they start
with `src/`. `PROJECT.json` maps every definition to the lines it stands for,
lists the runs, a mutant for each property, the hazards and the theorems.

## 1. The system

| Component | State | Operations | Works with |
|---|---|---|---|
| `ipsm_mem` (`src/ipsm_mem.cpp`) | the lifetime control file and its `flock` locks, the name of the shared memory, the header (hint, status) in its first page, one mapping per process | construct (`setup`), use, destroy | all processes that use the name |
| `offset_malloc` heap (`src/offset_mallloc_impl.cpp`) | the block headers in the memory, `op_freep_`, a robust mutex, a bind counter | `allocate`, `deallocate`, bind | the memory `ipsm_mem` set up |
| `offset_malloc` handle, `offset_unique_ptr` | `p_impl_`, a reference to a heap that its bind counter counts; `op_target_` and a deleter that holds a handle | copy, move, swap, destroy; make, reset, release | the heap; the mapping that `ipsm_malloc` keeps |
| `ipsm_mutex`, `ipsm_condition_variable` | pthread objects, robust and process shared | lock, try_lock, unlock; wait, wait_until, notify | everything below |
| `ipsm_malloc` (`src/ipsm_malloc.cpp`) | `msg_channels`: one mutex, one condition variable, one list per channel | send, receive, try_receive, try_receive_until | the heap, `offset_list` |
| `offset_list` (`inc/offset_list.hpp`) | `op_head_`, `op_tail_`, two links per node | push, insert, erase, move, swap | the allocator |
| `offset_shared_ptr`, `offset_weak_ptr` | two counts and a mutex in a control block; handles | construct, copy, move, lock, reset | the heap, destructors of user objects |
| `offset_ptr`, `atomic_offset_ptr` (`inc/offset_ptr.hpp`) | the distance from the pointer to its target, 0 for nullptr | assignment, arithmetic, comparison; load, store, exchange, fetch_add | every structure in the memory is linked by them |
| `offset_allocator`, `ipsm_allocator`, string | a handle, or a pointer to one | forwarding | |

Everything that matters lives in memory that several processes write, any of
which may be killed at any instruction. The hard behaviours are therefore:

* construction and destruction race with each other and with deaths, under a
  protocol of two `flock` locks that conflict even inside one process;
* a robust mutex is handed on after its owner's death, with whatever the owner
  had half done, and not always through `lock()`;
* waits end by a signal, without one, by a deadline or by an error, each of
  which takes the mutex again;
* destructors of user objects run inside the library, under a lock;
* the heap is a ring of headers updated by several stores in a row;
* a handle counts itself in memory that another member of the same object maps, so
  that each assignment and destructor depends on the order of its parts;
* pointers are distances, which wrap in one process and not in the other.

What makes each component correct:

* `ipsm_mem`: all users are on one object, which is ready and complete; nobody
  takes it from under them; setup returns; the last one out removes it.
* heap: the free list is a ring in address order; no unit is handed out twice or
  lost; neighbours are merged; every return succeeds.
* channels: the lists are used by one thread at a time; each channel delivers
  every message once, in order; nobody sleeps on a message; nodes do not leak.
* lists: both directions agree; a node goes back to the heap it is from, once; an
  iterator stays at its element.
* shared pointers: counts are the handles; nothing refers to what was given
  back; one disposal per object; drops end.
* handles: the bind count is the number of handles; no heap is used after it was
  unmapped; an object has one owner, which can give it back.
* offset pointers: all processes see the same target; a call does what it does to
  pointers in one address space.

## 2. The modules

### ShmLifecycle, IpsmMem, MC_IpsmMem, IpsmMem_proofs

`IpsmMem` follows `ipsm_mem::impl`'s constructor and destructor, one action per
system call or store to the shared header. `pc` is the step a process is about
to take, `excl` and `shrd` are the holders of the two `flock` locks, `named` is
the object the name is bound to, `obj` the objects (size, status, hint and whose
functor ran), `map` the object a process accesses. `Truncate`, `Resize`,
`Construct`, `RunFunctor`, `StoreHint`, `StoreReady` are the creator; `TakeShared`
or `Wake` or `Timeout`, `Open`, `CheckReady` the one that joins;
`TakeLast`, `Unlink`, `FinishLeave` the destructor, after `Leave` gave up the
shared lock. `Kill` may end any process in `MayDie` anywhere, `Die` is what the
kernel then closes. System calls fail where the code handles it (`MayFail`).

`ShmLifecycle` says what callers are promised, without files, locks or schedule:
content is published when nobody uses it, joined, left, and withdrawn when
nobody uses it. `IpsmMem` is shown to implement it: the published content is the
hint in the named object once it is ready.

### OffsetMalloc, OffsetMalloc_proofs

The K&R allocator of `offset_malloc_impl`, in units of one header. `mem` holds
`op_next_block_` and `size_of_this_block_` by address, and `op_freep_`. `Walk`
is the loop of both calls; `Allocation` and `Insertion` give the stores a call
makes, in program order, and `Finish` makes all of them while `DieAmid` makes the
first few. Headers nobody can read again are blanked (`Scrubbed`), which keeps
the state space finite. The mutex makes a call one step.

### ListLinks, MsgChannel, MC_MsgChannel, ListLinks_proofs, MsgChannel_proofs

`ListLinks` holds the stores of the list operations as sequences (`PushBack` for
`insert_node_to_back`, `Unlink` for the end of `erase`, and those only
`OffsetList` uses), so that a death can fall between two of them. A node has one pair of
links whichever list it is reached from, as in memory.

`MsgChannel` has one action per step between two accesses to shared state:
`Start`, `Lock`, then `Emplace`, `Unlock`, `Notify` for send; `TestNonEmpty`,
`TestGivesUp` or `Wait`, `ReadFront`, `Pop`, `Unlock` for the receives. A wait
gives the mutex up and sleeps in one step (that is what pthread promises) and
ends by `Notify`, `SpuriousWake` or `TimeUp`; then `Relock` takes the mutex, or
`RelockIgnoresError` and `RelockThrows` are what `wait` and `wait_until` do with
EOWNERDEAD and ENOTRECOVERABLE. `mstate` is the state of the robust mutex: only
`ipsm_mutex::lock` makes a dead owner's mutex consistent, an unlock without that
makes it `"lost"`. `EmplaceNoMemory` is the full heap: the allocator
returns nullptr, the node is constructed there and the process faults with the
mutex held.

### ListOfValues, OffsetList, MC_OffsetList, OffsetList_proofs

`OffsetList` is the whole of `offset_list`, one action per call, for one caller
that keeps an iterator (`it`: `op_owner_`, `op_cur_node_` and whether it is a
`reverse_iterator`). `mem` is the links of `ListLinks` and the data of each node;
`HeapOf` says which nodes an allocator may return, and which allocators are
equal. `Destroyed`, `Erased`, `Cleared`, `Appended`, `Moved` and
`SwappedByElement` are the loops of the code. The loop of `swap` between unequal
allocators destroys a node and then reads its data and its next link: what it
finds there is up to the element's destructor and to the next owner of the block,
so `Salvaged` is every sequence it may read. Of the old values only the first is
in each of them, and the list may end early. `view` is auxiliary: the sequences
of values and the index the state stands for, computed once per call.

`ListOfValues` promises a sequence of values per list, and that the iterator
stays at its element whatever happens around it, also when the element goes to
another list without being copied. Its `SwapAcross` promises what the code can
keep: one list gets the other's values, the other gets no more than the first
of its own. `OffsetList` refines it. A constructor is
the assignment to an empty list, the destructor is `clear`.

### SharedPtr, MC_SharedPtr, SharedPtr_proofs

`ref` is `p_r_impl_` of each handle, `cnt` the two counts, `obj` the object of
each control block. Since a critical section of a copy is short it is one step;
a drop has several, because `dispose_resource` runs the object's destructor with
the block's mutex held, and that destructor drops the handle the object holds:
a `shared_ptr` or a `weak_ptr`, as `FieldKind` says for each block.
`stack` is the drops a thread is in. `Decrement` is `try_dispose_com` up to its
decision (`Due`), `DropField` the object's destructor, `FinishDispose` the end of
`reset()` and the unlock, `Destroy` the block's destruction without the mutex.

A handle that is constructed in place has its block before the count goes up, and
one that is destroyed in place loses it (`Clear`) after the count went down
(`inc/offset_shared_ptr.hpp:252`, `:314`, `:328`). In between it is `torn`; nobody
else may use it, and the references do not contain it. An assignment, `reset()` and
`lock()` to an existing handle work on a temporary and swap it in.

A thread in `MayDie` may die between any two of these steps (`Die`) or within the
calls that are one step: `DieAmidConstruct` leaves a torn handle, `DieAmidMake`,
`DieAmidCopy` and `DieAmidMove` leave the reference of a temporary that nobody
will drop. Its `stack` remains as the account of what it still had to drop, so
that `CountsAreReferences` says exactly how much too high a count is after deaths.
A mutex it held goes to the next `lock()`; a drop that comes to an object in the
middle of whose destructor the thread died ends there.

`DropsFinishUnlessEntangled` has its exception in its name. The mutex of a block is a
plain `ipsm_mutex` (`inc/offset_shared_ptr.hpp:152`; the comments at `:58` and `:103`
speak of a recursive one), and it is kept while the destructor of the object runs. A
destructor that drops a `weak_ptr` to an object its thread is disposing of therefore
waits for itself: one thread and one object with a `weak_ptr` to itself are enough.
So do threads that wait for one another in the same way, or for one that died in a
disposal. `Entangled` is exactly that; every other drop ends.

### HeapHandles, MC_HeapHandles, HeapHandles_proofs

A handle is an `offset_malloc`, named by where it lies: in a process (`Home` is
the process), in the shared memory (`Home` is the memory), inside an
`ipsm_malloc`, or inside the deleter of an `offset_unique_ptr`. `impl` is
`p_impl_`, `bind` the counter in the heap, `shm` which memory each `ipsm_malloc`
has mapped, `target` is `op_target_`, `obj` the state of each object. A call
(`CopyHandle`, `MoveMalloc`, `MakeUnique`, ...) is not one step: it puts its steps
into `todo` of its process, in the order of the source (`CopyAssign`,
`MallocMoved`, `Made`, ... translate one function each), and `DoBind`, `DoDrop`,
`DoMapping`, `DoDelete`, ... take one at a time, between those of other processes
and before a death. Callers keep the rules of C++: two processes are never in a call on the same handle,
and no handle but its own refers to a memory when an `ipsm_malloc` unmaps it.
`ipsm_mem` appears here as what `ShmLifecycle` promises: the first process runs
the functor, the others find a ready memory.

### Pointers, OffsetPtr, MC_OffsetPtr, OffsetPtr_proofs

`Pointers` is the promise: a pointer leads to a cell of the memory, or nowhere.
`OffsetPtr` has `base`, where each process maps the memory, and `offset`, the
integer stored in each pointer; addresses are integers modulo `M`, the
arithmetic of `calc_address` and `calc_offset` is done with the casts of the
source (`UPlus`, `UMinus`, `Unsigned`), and `atomic_offset_ptr` has its own, which
has no case for nullptr. A process also has a pointer of its own outside the
memory, for results. `Pointers` promises the same of both classes: a pointer that is
set to nullptr is nullptr. An atomic one that is nullptr reads as a pointer to itself
(`inc/offset_ptr.hpp:989`): `CallsAreKept` excepts the calls that read it
(`off[x] # 0`), and `PointersSpec` the steps that do (`ReadsNull`). `Remap` is another attach of the process, elsewhere. `CallsAreKept`
compares call by call: whenever a step is a call of an operation here, it is, but for that exception, a
call of that operation in `Pointers` on what the offsets stand for (`Pointed`).

## 3. The runs

| Run | Shows | Instance |
|---|---|---|
| `mem_safety` | type, `UsersShareOneObject`, `ReadyIsComplete`, `NothingPulledFromUsers`, refinement of `ShmLifecycle` | 4 processes, all may die or fail; 2 objects |
| `mem_live` | `NoLeak`, `WaitEnds`, `SetupReturnsWhenOthersRest` | 3 processes, one may die |
| `mem_retry` | violated: after a dead creator the retry reads the status through an unmapped page | 2 processes |
| `heap` | type, ring, no overlap, nothing lost, merged, every return succeeds, also after deaths in `allocate` | 8 units, requests of 0 to 2 |
| `heap_aligned` | violated: an aligned exact fit credits skipped units to a block elsewhere | 8 units, alignments of one and two headers |
| `channel_safety` | type, `AccessIsExclusive`, `Fifo`, `NoLostWakeup`, `NoNodeLeak` | 2 senders, 1 receiver, all may die; 2 channels, 2 nodes, 3 messages |
| `channel_live` | `WaiterServed`, `TimedReceiveEnds`, wherever the sender dies | 1 sender, which alone may die, 2 receivers, 2 messages |
| `channel_repair` | violated: the mutex is lost when a waiter inherits it | as `channel_safety` |
| `shared_ptr` | type, `CountsAreReferences`, `NoDangling`, `OneDisposer`, `NothingKept`, `DropsFinishUnlessEntangled` | 2 threads, one may die; 2 blocks, 4 handles, a `weak_ptr` inside one object and a `shared_ptr` inside the other |
| `list_calls` | type, `WalksAgree`, `NodesAreOwned`, `EndsAreInOrder`, `OthersLeakNothing`, refinement of `ListOfValues` | 3 lists and 5 nodes in 2 heaps, 2 values |
| `handles` | type, `BindCountIsExact`, `NoUseAfterUnmap`, `OwnedOnce` | 2 processes, one may die; 2 memories, one with a list; 3 `ipsm_malloc`, 2 handles, 2 unique pointers, an object in each heap |
| `pointers` | type, `SameForEveryProcess`, `CallsAreKept` | 2 processes; 3 cells of memory among 16 addresses; 2 plain pointers, an atomic one and one per process |

The violated properties are statements of the repository's own comments and
documents; `PROJECT.json` quotes them under `findings`.

Bounds, and why they are enough. Four processes give `ipsm_mem` a creator, a
process that joins, one that leaves and one that is waiting, in any order, and
two objects are one more than ever has the name. The heap of eight units has
room for three blocks in use with free ones between them, so that every way a
returned block can meet its neighbours occurs. With two nodes and three
messages a channel is empty, has a first and a last node that differ, and
runs out of nodes; two channels share the nodes and the condition variable. Two
blocks are enough for a disposal within a disposal, with a thread that dies in
either, and one with a `weak_ptr` in it is enough for a thread to meet a mutex of
its own, or of a dead one. For two threads to meet each other's both objects must
hold a `weak_ptr`: with `FieldKind` so, TLC reaches that, too, and all the
properties of the run hold. Three nodes let a list lose its first, middle and last
element, and two lists in one heap with one in another let every move and swap
be of either kind. In `handles` one process has both memories mapped and the other
one of them, so that handles meet a handle of the same heap, of another, and
none; one variable of each type lies in a process and one in the shared memory,
where both use it and where it survives a death. In `pointers` the memory
is mapped at 1, 8 or 9, below and above the processes' own pointers at 5 and 14:
every distance wraps in one process and not in another, and pointers lie in the
first and the last cell. `MaxMsgs` bounds the calls of send and nothing
else; TLC reads the rest from the finite sets.

Symmetry is used for processes, channels, and the lists and nodes of a heap, only
in runs without liveness.
`CHECK_DEADLOCK FALSE` stands where every process may be dead or asleep.

Some settings of the constants, and one clause of a property, show what no run
holds against the code, because no document speaks about it. With `MayDieIn = {"deallocate"}` a death between two
stores of `deallocate` breaks the ring (`FreeListSound`) for the next owner of
the mutex. With one process in `MayFail`, `SetupReturnsWhenOthersRest` fails: the
outer loop of setup never looks at its timeout, so that an `shm_open` or `mmap`
that keeps failing keeps it going round. And `OthersLeakNothing` excepts the one call that leaks: `swap` of lists with
unequal allocators goes on to the next node before it destroys the current one
(`inc/offset_list.hpp:1038`), and the first is never given back. Three more
exceptions are part of a property's definition: `Salvaged`, `Entangled` and the
reads of an atomic nullptr (section 2). Each is as narrow as the code allows: with
the old values in place of `Salvaged`, without `Entangled`, or without `off[x] # 0`,
the runs `list_calls`, `shared_ptr` and `pointers` fail.

Two limits of the iterator's promise are rules for the caller of `OffsetList`: an
iterator is not used once its element is destroyed, and one whose element was
moved to another list is not stepped to the end, for `op_owner_` is still the old
list (`inc/offset_list.hpp:402`).

Two limits of the channel's promise showed while it was modelled and are part of
the properties. `Fifo` ends with a death between two stores of a list
(`torn`): the node is given back to the heap before `erase` joins its neighbours,
so a torn list shares nodes with the other channels, and those lose
messages, too. And all promises end when the mutex is lost.

## 4. Fairness

* `IpsmMem`: weak fairness of each process's library steps and of time passing.
  Nothing makes a caller call, a functor return, or anyone die.
* `MsgChannel`: threads run (weak); a thread that tries for the mutex gets it if
  it is free again and again, and a deadline passes for a thread that goes back
  to sleep again and again, for it is absolute (strong). A wait without a signal
  is never assumed, nor is a message.
* `SharedPtr`: a thread in a drop runs (weak) and gets a mutex that is free again
  and again (strong).

A futex does not promise strong fairness in theory; without it any mutex may
starve a thread, and no property of the library could hold.

## 5. The proofs

`IpsmMem_proofs`, for every set of processes, objects, requests, deaths and
failures: `TypeCorrect`, `UsersShare`, `ReadyComplete`, `NothingPulled`,
`Implements` (the refinement) and `LeakFree`. None of the invariants is
inductive, because what a user may rely on depends on who can hold which lock at
which step. `IInv` adds:
a process holds a lock exactly at the steps that need it (`LocksMatchPc`);
what it accesses has the name (`AccessMatchesPc`); what a creator has stored by
the step it is at (`BuildProgress`); and that users see a ready object.
`NothingPulled` and the refinement follow from `IInv` action by action: every
step that changes the named object needs the exclusive lock, which excludes
users. `LeakFree` needs one invariant more: while the object has the name,
somebody is at a step from which it is still going to be removed.

`OffsetMalloc_proofs`, for a heap of any size, any callers and requests:
`HeapIsTyped`, `FreeListStaysSound`, `BlocksNeverOverlap`, `NoUnitIsLost`,
`FreeBlocksAreMerged`, `ReturnsSucceed`. `HeapInv` says that there is a
set of free blocks whose headers lead from each to the next in address order and
from the last to the base (`Ring`), and that these and the allocations lie
beside each other, no two free ones touching (`Tiles`), and cover the heap unless somebody
died. The walk of both calls is a recursive function; that it comes round, and
where it stops, is an induction over the ring (`RingWalk`, `WalkReturns`). Then
each way to allocate and each of the four ways to return a block leaves a ring
again, also when the stores of `allocate` end early (`AfterPrefix`). The theorems have two hypotheses, and neither hides a state the
runs treat as good: no request asks for an alignment above a header (the run
`heap_aligned` shows what an aligned exact fit does to the sizes), and nobody
dies within `deallocate` (a ring torn there is handed on as it is,
`src/offset_mallloc_impl.cpp:188`). Deaths within `allocate` are in.

`ListLinks_proofs`: what the stores of a list operation do. `AfterStores` is a
recursive function; for the at most four stores of an operation it is exhibited
(`AfterFew`). For stores cut short by a death, a cell keeps its value or has one that was
written to it (`CellsWritten`), so that `emplace_back` and `pop_front` write to
nodes and to one list (`PushBackWithin`, `UnlinkWithin`). For whole operations on
whole lists, `Chain` says that the links hold a sequence of nodes in both
directions, and `Forward`, the walk from `op_head_`, returns that sequence.

`MsgChannel_proofs`, for any threads, channels, nodes and messages and whichever
of them die at whichever step: `TypeCorrect`, `Exclusive`,
`NobodySleepsOnAMessage`, `ChannelsAreFifo` and `NodesAreKept`.
`AccessIsExclusive` lacks one fact to be inductive: a lost mutex has no owner
(`LostIsFree`); otherwise a death could turn a lost mutex into a dead one, which
the next locker repairs. `NoLostWakeup` needs what a call has at hand at each step
(`CallInv`), the fact that a node any link leads to holds a message
(`MemoryInv`, torn lists included), and that a list becomes non-empty only
by a send to it, whose sender is then on its way to `notify_all`. `Fifo` and
`NoNodeLeak` need the lists themselves: while none is torn, every channel is a
chain of nodes of its own with the messages accepted and not yet handed out, in
order, and the node somebody works on is the one it is about to link or has just
unlinked.

`OffsetList_proofs`, for any lists and heaps, any finite set of nodes and every
sequence of calls: `ListIsTyped`, `BothWalksAgree`, `ListsOwnTheirNodes`,
`EndsKeepTheirOrder`, `NodesAreFreed` and `ListsAreSequences`, the refinement of
`ListOfValues`. The invariant `ListInv` exhibits the sequences: there is one of
nodes per list such that the links hold each in both directions, they share no
node, their nodes are allocated and of the list's heap, the nodes in no list that are
not allocated have null links (`Holds`), and the iterator stands in one of them
or at an end (`IterOk`). One lemma per operation says which sequences its stores leave, which
values are in them and which nodes in no list are still allocated (`Lost`):
`ErasedHolds` and `ClearedHolds` by induction over the loop that destroys,
`AppendedHolds` over the loop that appends, `MovedHolds` and `SwappedHolds` from
these. For the refinement, `Place` is the index the iterator stands at; each
call is shown to be the call of `ListOfValues` of its name on the values, and to
take the place where that call takes it (`PlaceShifts` behind an insertion,
`PlaceDrops` behind a removal, `BecomeStep` for whole lists). What the theorem says of
a swap between heaps is what `ListOfValues` promises of it: the values of one list
and the first of the other, for whatever the loop reads from destroyed nodes.

`SharedPtr_proofs`, for any threads, blocks and handles and whoever dies:
`TypeCorrect`, `CountsAreExact`, `NothingDangles`, `OneDropDisposes`, `NothingIsKept`. Its
first part counts: what a handle that gets another target or becomes torn, or one frame that
comes, goes or changes at the top of a stack, does to the number of references
(`Retarget`, `Restack`). The second part is inductive: the counts are balanced, and
each block is `Sound`, which ties together the frames that dispose of its object
or destroy it, whether it is live, its object, its counts and its mutex. A block
with both counts at 0 has a frame that destroys it, which is why nothing is
forgotten; a frame that disposes of the object has the mutex, which is why no
second one begins.

`OffsetPtr_proofs`, for a memory of any size, any number of addresses, processes
and places to map it at: `PointersTyped`, `SamePlace`, `CallsKept` and
`Refinement`, the last two but for the reads of an atomic nullptr. `TypeOK` is not inductive: it only says where pointers lead the
processes that map the memory now, and an offset may lead another mapping out of
it, or to address 0, which is nullptr. `IInv` says where an offset leads from its
own cell, whoever reads it (`Leads`). The arithmetic is in three lemmas: what was
stored is found again (`ThereAndBack`), from every base with the same result
(`SameDistance`), and a distance may be added to (`StepsAdd`). `CallsKept` then goes
operation by operation, and `Refinement` follows from it.

`HeapHandles_proofs`, for any processes, memories, handles and objects and
whoever dies between which steps: `HandleTypes`, `HandlesStayMapped`,
`CountsStayExact` and `ObjectsStayOwnedOnce`. Whether a step finds its heap
mapped depends on the steps before it, so the invariant has to speak of the
steps that are left. A view (`Views`) is what a call knows of the state: the
variables it works on, what its process maps, and which handle is stale, dying
or just made. The first part of the module runs the calls on views: for each
step a precondition and what it leaves (`BindIn`, `UnbindIn`, ...), and for each
call that its steps, in program order, come from any view at rest to one at
rest, every precondition met (`Runs`, `Completes`). The second part is the
invariant `Core`: for each process there is a view that agrees with the state
where the process looks (`Sees`) and from which the steps in `todo` come to rest
(`Going`); calls in progress share no variable (`Apart`); every variable nobody
works on is whole, or a wreck in a memory that a process died with (`Resting`);
and a handle leads to a memory that its holder maps (`InPlace`). A step keeps
the views of the other processes, because nobody else touches what a call works
on (`OthersRun`). The third part adds `Counts`: the bind counter of a memory
that somebody maps, that nobody died with and that is not just being created is
the number of the handles that count for it (`Refs`), where a handle that the
next step of its call overwrites counts no more. Every step changes the two
alike (`StepFollows`); the first step of a call finds the handle that it
overwrites empty (`Begun`). It adds `Objs` in the same way: an object in such a
memory has at most one owner (`Owns`, where a pointer that the next step forgets
owns no more), is alive if it has one that is not just deleting it (`Doomed`),
and has one if it is owned (`OwnedBy`). What makes this inductive is a word on
the pointers that nobody owns yet: an object that a call may still come to own
(`Claims`: it was made in this call, or the caller gave a released pointer) is
held, lies in a memory the process maps, and no other call can come to own it
(`ClaimHeld`); a call owns at most one, and none when it creates a memory
(`Single`). That the deleter gives the block back to the heap it is from comes
from `Core` (`FreesAtHome`).

The assumptions are the named ASSUMEs of the modules: the special values are not
members of the sets, sizes are positive, nodes are finite (they lie in a heap),
kinds are of the listed ones, a call's temporaries are not variables of the
caller's, a mapping does not cover address 0 or a process's
own pointer.

The recursive functions of the models (walks, loops, stores in a row) are defined
on sets of naturals, so that what they compute is proved by induction over
indices: the least index at which a claim fails (`LeastOf`, `SetInduction` in
`ListLinks_proofs`).

Only model-checked: liveness (`WaitEnds`, `SetupReturnsWhenOthersRest`,
`WaiterServed`, `TimedReceiveEnds`, `DropsFinishUnlessEntangled`), for fairness and ENABLED are
beyond the prover.

## 6. What is not modelled

* `offset_shared_ptr`: a death between the four stores of one `swap`, which leaves
  `p_` of one object with the block of another; the second run of a destructor
  that a death cut short (`inc/offset_unique_ptr.hpp:112`), which depends on the object;
  constructors that fail.
* `compare_exchange_weak` and `compare_exchange_strong` of `atomic_offset_ptr`: they call
  themselves with arguments they do not take and cannot be instantiated. Two
  threads on one atomic pointer: each call accesses it once, so a call is a step.
* `ipsm_allocator` and the memory resource: a pointer to a handle, and forwarding.
* Elements of a list whose constructors throw; a heap without room for the nodes
  a list call needs (the process faults, see `EmplaceNoMemory`).
* `ipsm_recursive_mutex`, `try_lock`, `notify_one`: no caller in the library.
* Byte arithmetic: alignment below a header, `size_t` overflow in
  `roundup_to_page_size` and `bytes2blocks`.
* Strings, time utilities, logging, allocator adapters: sequential or without
  state of their own. Samples and tests are clients.
* glibc: a mutex is handed on as POSIX says; a process killed inside
  `pthread_cond_wait` itself (the condition variable is not robust) is outside.

## 7. Plan

Done: `ShmLifecycle` and `IpsmMem`, `OffsetMalloc`, `ListLinks` and `MsgChannel`,
`ListOfValues` and `OffsetList`, `SharedPtr`, `Pointers` and `OffsetPtr`, `HeapHandles`,
each with its proofs. What could follow, in order of weight:

1. `SharedPtr`: the four stores of a swap as steps, so that a death cuts a handle in two.
2. `MsgChannel` against an abstract `Channel` (a sequence per channel) under the
   assumption that no list is torn.
3. `OffsetMalloc`: an abstract heap (a set of disjoint extents) and the
   refinement; `HeapInv` has what it needs.
4. `OffsetList`: elements whose constructor throws.
5. `IpsmMem`: the length a process maps against the length of the object.
