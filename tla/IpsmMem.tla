------------------------------ MODULE IpsmMem ------------------------------
(***************************************************************************)
(* Construction, use and destruction of one named shared memory by the     *)
(* processes that call ipsm_mem::setup for it (libipsm_mem/src/            *)
(* ipsm_mem.cpp): ipsm_mem::impl's constructor and destructor, with        *)
(* lock_file_guard over flock(2) and shm_guard over shm_open(3), one       *)
(* action per system call or store to the shared header.                   *)
(*                                                                         *)
(* An attempt opens the lifetime control file twice: the exclusive lock is *)
(* taken through a guard that lives for one block, the shared lock through *)
(* shared_lock_guard_.  flock locks belong to the open file, so the two    *)
(* conflict even inside one process.  The file itself is never unlinked.   *)
(*                                                                         *)
(* Abstractions.  map[p] is the object p reads and writes through: the     *)
(* mapping that outlives its last access (shm_create_guard after the       *)
(* exclusive block, shm_guard_ in the destructor) is not kept.  A size is  *)
(* a number of pages.  hint and data name the creator whose functor ran.   *)
(***************************************************************************)
EXTENDS Naturals

CONSTANTS
    Procs,      \* the processes, each with at most one ipsm_mem
    Objs,       \* identities of shared memory objects (inodes)
    None,       \* no process, no object
    ReqPages,   \* pages each process asks for, header included
    MayDie,     \* the processes that may be killed at any point
    MayFail     \* the processes whose system calls or functor may fail

ASSUME ConstAssumption ==
    /\ None \notin Procs \cup Objs
    /\ ReqPages \in [Procs -> Nat \ {0}]
    /\ MayDie \subseteq Procs
    /\ MayFail \subseteq Procs

VARIABLES
    pc,         \* the step each process is about to take
    expired,    \* now() > timeout_time_point
    excl,       \* holder of LOCK_EX on the lifetime control file, or None
    shrd,       \* holders of LOCK_SH on it
    named,      \* the object shm_name_ is bound to, or None
    obj,        \* the objects
    map         \* the object each process accesses, or None

vars == <<pc, expired, excl, shrd, named, obj, map>>

(* Steps taken with the exclusive lock by the creator, in order. *)
BuildPcs == {"resize", "construct", "init", "store_hint", "store_ready",
             "unlock_ex"}
CreatePcs == {"truncate"} \cup BuildPcs
(* Steps taken with the exclusive lock: those and the destructor's. *)
ExPcs == CreatePcs \cup {"unlink", "unlink_done"}
(* Steps taken with the shared lock. *)
ShPcs == {"open", "check", "attached"}
(* Inside impl's constructor. *)
SetupPcs == CreatePcs \cup {"ex_try", "sh_try", "sleep", "open", "check", "log"}
(* Inside impl's destructor. *)
LeavePcs == {"try_last", "unlink", "unlink_done"}
(* Killed from outside; a bus error; a segmentation fault. *)
DeadPcs == {"killed", "sigbus", "segv"}
Pcs == {"out", "attached"} \cup SetupPcs \cup LeavePcs \cup DeadPcs

Statuses == {"blank", "initializing", "ready"}
Sizes == {0} \cup {ReqPages[p] : p \in Procs}
ObjType == [size : Sizes, status : Statuses,
            hint : Procs \cup {None}, data : Procs \cup {None}]

(* An object after O_TRUNC: every byte it will have is zero. *)
Blank == [size |-> 0, status |-> "blank", hint |-> None, data |-> None]

Init ==
    /\ pc = [p \in Procs |-> "out"]
    /\ expired = [p \in Procs |-> FALSE]
    /\ excl = None
    /\ shrd = {}
    /\ named = None
    /\ obj = [o \in Objs |-> Blank]
    /\ map = [p \in Procs |-> None]

At(p, l) == pc[p] = l
Goto(p, l) == pc' = [pc EXCEPT ![p] = l]
Access(p, o) == map' = [map EXCEPT ![p] = o]

-----------------------------------------------------------------------------
(* The lock file.  LOCK_NB: a try either takes the lock or reports busy.   *)

(* Mutant: LOCK_SH asked for in place of LOCK_EX. *)
ExclusiveFreeOfExclusive == excl = None

ExclusiveFree == excl = None /\ shrd = {}
SharedFree == excl = None

(* setup's constructor ends: by an exception, or with the object in use. *)
EndSetup(p, l) ==
    /\ Goto(p, l)
    /\ expired' = [expired EXCEPT ![p] = FALSE]

(* The kernel drops the locks and mappings of a process that dies. *)
Die(p, how) ==
    /\ EndSetup(p, how)
    /\ excl' = IF excl = p THEN None ELSE excl
    /\ shrd' = shrd \ {p}
    /\ Access(p, None)
    /\ UNCHANGED <<named, obj>>

-----------------------------------------------------------------------------
(* setup: the exclusive block.                                             *)

StartSetup(p) ==
    /\ At(p, "out")
    /\ Goto(p, "ex_try")
    /\ UNCHANGED <<expired, excl, shrd, named, obj, map>>

(* The clock passes timeout_time_point. *)
Expire(p) ==
    /\ pc[p] \in SetupPcs
    /\ ~expired[p]
    /\ expired' = [expired EXCEPT ![p] = TRUE]
    /\ UNCHANGED <<pc, excl, shrd, named, obj, map>>

TakeExclusive(p) ==
    /\ At(p, "ex_try")
    /\ ExclusiveFree
    /\ excl' = p
    /\ Goto(p, "truncate")
    /\ UNCHANGED <<expired, shrd, named, obj, map>>

MissExclusive(p) ==
    /\ At(p, "ex_try")
    /\ ~ExclusiveFree
    /\ Goto(p, "sh_try")
    /\ UNCHANGED <<expired, excl, shrd, named, obj, map>>

(* shm_open with O_CREAT | O_TRUNC: an object that already has the name is *)
(* emptied and kept, otherwise a new one gets the name.                    *)
Truncate(p) ==
    /\ At(p, "truncate")
    /\ \E o \in Objs :
          /\ o = named \/ (named = None /\ \A q \in Procs : map[q] # o)
          /\ named' = o
          /\ obj' = [obj EXCEPT ![o] = Blank]
          /\ Access(p, o)
    /\ Goto(p, "resize")
    /\ UNCHANGED <<expired, excl, shrd>>

(* Mutant: a whole page is added before rounding. *)
ResizeOnePageMore(p) ==
    /\ At(p, "resize")
    /\ obj' = [obj EXCEPT ![map[p]].size = ReqPages[p] + 1]
    /\ Goto(p, "construct")
    /\ UNCHANGED <<expired, excl, shrd, named, map>>

(* ftruncate to the rounded length. *)
Resize(p) ==
    /\ At(p, "resize")
    /\ obj' = [obj EXCEPT ![map[p]].size = ReqPages[p]]
    /\ Goto(p, "construct")
    /\ UNCHANGED <<expired, excl, shrd, named, map>>

(* mmap, then ipsm_mem_header's constructor in the mapping. *)
Construct(p) ==
    /\ At(p, "construct")
    /\ obj' = [obj EXCEPT ![map[p]].status = "initializing",
                          ![map[p]].hint = None]
    /\ Goto(p, "init")
    /\ UNCHANGED <<expired, excl, shrd, named, map>>

(* creater_init_functor_arg, the caller's code. *)
RunFunctor(p) ==
    /\ At(p, "init")
    /\ obj' = [obj EXCEPT ![map[p]].data = p]
    /\ Goto(p, "store_hint")
    /\ UNCHANGED <<expired, excl, shrd, named, map>>

(* Mutant: the status is stored first. *)
StoreStatusFirst(p) ==
    /\ At(p, "store_hint")
    /\ obj' = [obj EXCEPT ![map[p]].status = "ready"]
    /\ Goto(p, "store_ready")
    /\ UNCHANGED <<expired, excl, shrd, named, map>>

StoreHint(p) ==
    /\ At(p, "store_hint")
    /\ obj' = [obj EXCEPT ![map[p]].hint = p]
    /\ Goto(p, "store_ready")
    /\ UNCHANGED <<expired, excl, shrd, named, map>>

StoreReady(p) ==
    /\ At(p, "store_ready")
    /\ obj' = [obj EXCEPT ![map[p]].status = "ready"]
    /\ Goto(p, "unlock_ex")
    /\ UNCHANGED <<expired, excl, shrd, named, map>>

ReleaseExclusive(p) ==
    /\ At(p, "unlock_ex")
    /\ excl' = None
    /\ Access(p, None)
    /\ Goto(p, "sh_try")
    /\ UNCHANGED <<expired, shrd, named, obj>>

(* open or flock of the lock file, shm_open, ftruncate or mmap fails, or   *)
(* the functor throws: the exception leaves setup and the guard of the     *)
(* block releases the lock.  What was built so far keeps the name.  That   *)
(* flock gives up a lock of a descriptor that is open does not fail (a     *)
(* throw of debug builds, ipsm_mem.cpp:123-126, is left out).              *)
SetupThrows(p) ==
    /\ p \in MayFail
    /\ pc[p] \in {"ex_try", "truncate", "resize", "construct", "init", "sh_try"}
    /\ excl' = IF excl = p THEN None ELSE excl
    /\ Access(p, None)
    /\ EndSetup(p, "out")
    /\ UNCHANGED <<shrd, named, obj>>

-----------------------------------------------------------------------------
(* setup: the shared block.                                                *)

TakeShared(p) ==
    /\ At(p, "sh_try")
    /\ SharedFree
    /\ shrd' = shrd \cup {p}
    /\ Goto(p, "open")
    /\ UNCHANGED <<expired, excl, named, obj, map>>

MissShared(p) ==
    /\ At(p, "sh_try")
    /\ ~SharedFree
    /\ Goto(p, "sleep")
    /\ UNCHANGED <<expired, excl, shrd, named, obj, map>>

(* Mutant: the wait does not look at the clock. *)
WakeAlways(p) ==
    /\ At(p, "sleep")
    /\ Goto(p, "sh_try")
    /\ UNCHANGED <<expired, excl, shrd, named, obj, map>>

Wake(p) ==
    /\ At(p, "sleep")
    /\ ~expired[p]
    /\ Goto(p, "sh_try")
    /\ UNCHANGED <<expired, excl, shrd, named, obj, map>>

(* ETIMEDOUT: setup returns false. *)
Timeout(p) ==
    /\ At(p, "sleep")
    /\ expired[p]
    /\ EndSetup(p, "out")
    /\ UNCHANGED <<excl, shrd, named, obj, map>>

(* The mapping has the length p asks for, whatever the object's size. *)
Open(p) ==
    /\ At(p, "open")
    /\ named # None
    /\ Access(p, named)
    /\ Goto(p, "check")
    /\ UNCHANGED <<expired, excl, shrd, named, obj>>

(* Mutant: the shared lock is kept for the next round. *)
OpenFailsKeepingLock(p) ==
    /\ At(p, "open")
    /\ named = None \/ p \in MayFail
    /\ Goto(p, "ex_try")
    /\ UNCHANGED <<expired, excl, shrd, named, obj, map>>

(* No object, or shm_open or mmap failed: release and start over. *)
OpenFails(p) ==
    /\ At(p, "open")
    /\ named = None \/ p \in MayFail
    /\ shrd' = shrd \ {p}
    /\ Goto(p, "ex_try")
    /\ UNCHANGED <<expired, excl, named, obj, map>>

(* Mutant: an object is used whatever its status. *)
CheckReadyAnyStatus(p) ==
    /\ At(p, "check")
    /\ obj[map[p]].size # 0
    /\ EndSetup(p, "attached")
    /\ UNCHANGED <<excl, shrd, named, obj, map>>

CheckReady(p) ==
    /\ At(p, "check")
    /\ obj[map[p]].size # 0
    /\ obj[map[p]].status = "ready"
    /\ EndSetup(p, "attached")
    /\ UNCHANGED <<excl, shrd, named, obj, map>>

(* Unmap and release; the log line of the retry comes next. *)
CheckNotReady(p) ==
    /\ At(p, "check")
    /\ obj[map[p]].size # 0
    /\ obj[map[p]].status # "ready"
    /\ Access(p, None)
    /\ shrd' = shrd \ {p}
    /\ Goto(p, "log")
    /\ UNCHANGED <<expired, excl, named, obj>>

(* The header of an object with no pages cannot be read. *)
CheckBusError(p) ==
    /\ At(p, "check")
    /\ obj[map[p]].size = 0
    /\ Die(p, "sigbus")

(* The log line reads the status through the address just unmapped: a      *)
(* fault, unless another thread's mapping has taken the address meanwhile. *)
LogStatus(p) ==
    /\ At(p, "log")
    /\ \/ /\ Goto(p, "ex_try")
          /\ UNCHANGED <<expired, excl, shrd, named, obj, map>>
       \/ Die(p, "segv")

-----------------------------------------------------------------------------
(* The destructor, and death.                                              *)

(* Mutant: the shared lock is released only by the guard's destructor. *)
LeaveHoldingLock(p) ==
    /\ At(p, "attached")
    /\ Access(p, None)
    /\ Goto(p, "try_last")
    /\ UNCHANGED <<expired, excl, shrd, named, obj>>

Leave(p) ==
    /\ At(p, "attached")
    /\ shrd' = shrd \ {p}
    /\ Access(p, None)
    /\ Goto(p, "try_last")
    /\ UNCHANGED <<expired, excl, named, obj>>

(* Mutant: the destructor unlinks without asking whether it is the last. *)
TakeLastUnchecked(p) ==
    /\ At(p, "try_last")
    /\ excl' = p
    /\ Goto(p, "unlink")
    /\ UNCHANGED <<expired, shrd, named, obj, map>>

TakeLast(p) ==
    /\ At(p, "try_last")
    /\ ExclusiveFree
    /\ excl' = p
    /\ Goto(p, "unlink")
    /\ UNCHANGED <<expired, shrd, named, obj, map>>

(* Another process holds the lock, or the lock file could not be opened    *)
(* and the destructor swallowed the exception.                             *)
MissLast(p) ==
    /\ At(p, "try_last")
    /\ ~ExclusiveFree \/ p \in MayFail
    /\ Goto(p, "out")
    /\ UNCHANGED <<expired, excl, shrd, named, obj, map>>

(* shm_unlink; an object that nobody accesses any more is gone. *)
Unlink(p) ==
    /\ At(p, "unlink")
    /\ named' = None
    /\ obj' = [o \in Objs |-> IF \E q \in Procs : map[q] = o
                              THEN obj[o] ELSE Blank]
    /\ Goto(p, "unlink_done")
    /\ UNCHANGED <<expired, excl, shrd, map>>

FinishLeave(p) ==
    /\ At(p, "unlink_done")
    /\ excl' = None
    /\ Goto(p, "out")
    /\ UNCHANGED <<expired, shrd, named, obj, map>>

Kill(p) ==
    /\ p \in MayDie
    /\ pc[p] \notin DeadPcs \cup {"out"}
    /\ Die(p, "killed")

-----------------------------------------------------------------------------
(* The steps of a running process other than the caller's functor. *)
LibraryStep(p) ==
    \/ TakeExclusive(p) \/ MissExclusive(p)
    \/ Truncate(p) \/ Resize(p) \/ Construct(p)
    \/ StoreHint(p) \/ StoreReady(p) \/ ReleaseExclusive(p)
    \/ TakeShared(p) \/ MissShared(p) \/ Wake(p) \/ Timeout(p)
    \/ Open(p) \/ OpenFails(p)
    \/ CheckReady(p) \/ CheckNotReady(p) \/ CheckBusError(p) \/ LogStatus(p)
    \/ TakeLast(p) \/ MissLast(p) \/ Unlink(p) \/ FinishLeave(p)

(* What the caller and the world decide. *)
CallerStep(p) ==
    \/ StartSetup(p) \/ RunFunctor(p) \/ Leave(p)
    \/ SetupThrows(p) \/ Expire(p) \/ Kill(p)

Next == \E p \in Procs : LibraryStep(p) \/ CallerStep(p)

Spec == Init /\ [][Next]_vars

(* The scheduler runs every process that has a step of the library to      *)
(* take, and time passes.  Nobody has to call setup, to destroy, to return *)
(* from a functor, to fail or to die.                                      *)
Fairness == \A p \in Procs : WF_vars(LibraryStep(p)) /\ WF_vars(Expire(p))

FairSpec == Spec /\ Fairness

-----------------------------------------------------------------------------
TypeOK ==
    /\ pc \in [Procs -> Pcs]
    /\ expired \in [Procs -> BOOLEAN]
    /\ excl \in Procs \cup {None}
    /\ shrd \subseteq Procs
    /\ named \in Objs \cup {None}
    /\ obj \in [Objs -> ObjType]
    /\ map \in [Procs -> Objs \cup {None}]

Users == {p \in Procs : pc[p] = "attached"}

(* Every user works on the object that has the name now, that object is    *)
(* marked ready, and the value its creator left in the header belongs to   *)
(* the initialisation the user sees (ipsm_mem.cpp:371-386): no two users   *)
(* are on different objects, whatever died or timed out in between.        *)
UsersShareOneObject ==
    \A p \in Users :
        /\ map[p] = named
        /\ named # None
        /\ obj[named].status = "ready"
        /\ obj[named].hint = obj[named].data

(* The ready mark is never on an object whose functor has not finished or  *)
(* whose sharing value is missing, wherever the creator stops             *)
(* (ipsm_mem.cpp:279-283 stores the value before the status).              *)
ReadyIsComplete ==
    named # None /\ obj[named].status = "ready" =>
        /\ obj[named].data \in Procs
        /\ obj[named].hint = obj[named].data
        /\ obj[named].size # 0

(* When no process has died (a dead one is never "out" again) and no call  *)
(* failed, the object is gone once all have left, timed out, or never got  *)
(* in: the last one out unlinks (ipsm_mem.cpp:295-303), although each      *)
(* gives up its shared lock before it tries for the exclusive one.         *)
NoLeak ==
    MayFail = {} /\ (\A p \in Procs : pc[p] = "out") => named = None

(* While a process uses the memory, no step of another one empties,        *)
(* resizes, re-initialises, unlinks or renames what it uses.               *)
NothingPulledFromUsers ==
    [][\A p \in Procs :
          pc[p] = "attached" /\ pc'[p] = "attached" =>
              /\ named' = named
              /\ map'[p] = map[p]
              /\ obj'[map[p]] = obj[map[p]]]_vars

(* A process that found the memory not ready, and everyone in its way,     *)
(* survives the creator's death: the comment at ipsm_mem.cpp:371-372 says  *)
(* it unmaps, unlocks and starts over.                                     *)
NotReadyIsRetried == \A p \in Procs : pc[p] # "segv"

-----------------------------------------------------------------------------
(* Nobody waits for a stuck creator longer than the timeout: the wait for  *)
(* the shared lock ends (ipsm_mem.cpp:355-360), even if the functor of the *)
(* process that holds the exclusive lock never returns.                    *)
WaitEnds ==
    \A p \in Procs :
        pc[p] \in {"sh_try", "sleep"} ~> pc[p] \notin {"sh_try", "sleep"}

(* In setup and not in the caller's own functor. *)
InLibrary(p) == pc[p] \in SetupPcs \ {"init"}

(* Once the other processes neither start nor finish anything, a setup     *)
(* returns, in whatever state the earlier deaths left the name: the retry  *)
(* loop (ipsm_mem.cpp:331-384) does not spin on a leftover.  ipsm_mem.hpp: *)
(* 49 and 66 give setup a "timeout in milliseconds for waiting for shared  *)
(* memory initialization".                                                 *)
SetupReturnsWhenOthersRest ==
    \A p \in Procs :
        <>[](\A q \in Procs \ {p} :
                pc[q] \in {"out", "attached"} \cup DeadPcs)
            => []<>(~InLibrary(p))

-----------------------------------------------------------------------------
(* The refinement: the published content is the creator's hint in a ready  *)
(* object that has the name; a user sees the hint of the object it maps.   *)
Content ==
    IF named # None
    THEN IF obj[named].status = "ready" THEN obj[named].hint ELSE None
    ELSE None

Seen == [p \in Procs |->
            IF pc[p] = "attached" THEN obj[map[p]].hint ELSE None]

Lifecycle == INSTANCE ShmLifecycle WITH content <- Content, seen <- Seen

(* Every behaviour of the lock-file protocol is one ShmLifecycle allows.   *)
LifecycleSpec == Lifecycle!Spec
=============================================================================
