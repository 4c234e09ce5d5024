--------------------------- MODULE IpsmMem_proofs ---------------------------
(***************************************************************************)
(* Proofs about IpsmMem for any set of processes and any requests: type    *)
(* correctness, the safety invariants and action property its runs check,  *)
(* and that it implements ShmLifecycle.                                    *)
(*                                                                         *)
(* The invariants are not inductive: that users share one object depends   *)
(* on who may hold a lock at which step, on what each process accesses     *)
(* there, and on how far a creator has come.  IInv adds those.             *)
(***************************************************************************)
EXTENDS IpsmMem, TLAPS

(* A process holds a lock exactly at the steps that need it. *)
LocksMatchPc ==
    /\ excl # None => shrd = {}
    /\ \A p \in Procs : pc[p] \in ExPcs <=> excl = p
    /\ \A p \in Procs : pc[p] \in ShPcs <=> p \in shrd

(* What a process accesses has the name while it accesses it. *)
AccessMatchesPc ==
    \A p \in Procs :
        IF pc[p] \in BuildPcs \cup {"check", "attached"}
        THEN named # None /\ map[p] = named
        ELSE map[p] = None

(* What a creator has stored by the step it is at. *)
BuildProgress ==
    \A p \in Procs :
        /\ pc[p] \in BuildPcs \ {"unlock_ex"} => obj[named].status # "ready"
        /\ pc[p] \in BuildPcs \ {"resize"} => obj[named].size # 0
        /\ pc[p] \in {"store_hint", "store_ready"} => obj[named].data = p
        /\ pc[p] = "store_ready" => obj[named].hint = p
        /\ pc[p] = "unlock_ex" => obj[named].status = "ready"

UsersReady == \A p \in Users : obj[named].status = "ready"

IInv ==
    /\ TypeOK
    /\ LocksMatchPc
    /\ AccessMatchesPc
    /\ BuildProgress
    /\ UsersReady
    /\ ReadyIsComplete

LEMMA InitEstablishes == Init => IInv
<1> SUFFICES ASSUME Init PROVE IInv
    OBVIOUS
<1> USE DEF Init
<1>1. TypeOK
    BY ConstAssumption DEF TypeOK, Pcs, ObjType, Sizes, Statuses, Blank
<1>2. LocksMatchPc
    BY ConstAssumption DEF LocksMatchPc, ExPcs, CreatePcs, BuildPcs, ShPcs
<1>3. AccessMatchesPc
    BY DEF AccessMatchesPc, BuildPcs
<1>4. BuildProgress /\ UsersReady /\ ReadyIsComplete
    <2>1. BuildProgress
        BY DEF BuildProgress, BuildPcs
    <2>2. UsersReady
        BY DEF UsersReady, Users
    <2>3. ReadyIsComplete
        BY DEF ReadyIsComplete
    <2> QED BY <2>1, <2>2, <2>3
<1>. QED  BY <1>1, <1>2, <1>3, <1>4 DEF IInv

-----------------------------------------------------------------------------
(* One step per action.  Only Truncate and Unlink rename the object and    *)
(* have to be taken conjunct by conjunct.                                  *)
LEMMA StepPreserves ==
    ASSUME IInv, NEW p \in Procs, LibraryStep(p) \/ CallerStep(p)
    PROVE  IInv'
<1> USE ConstAssumption
    DEF At, Goto, Access, EndSetup, Die, Pcs, SetupPcs, LeavePcs, DeadPcs,
        ExPcs, ShPcs, CreatePcs, BuildPcs
<1>t. CASE Truncate(p)
    <2> PICK o \in Objs :
            /\ o = named \/ named = None
            /\ named' = o
            /\ obj' = [obj EXCEPT ![o] = Blank]
            /\ map' = [map EXCEPT ![p] = o]
        BY <1>t DEF Truncate
    <2> /\ pc[p] = "truncate" /\ pc' = [pc EXCEPT ![p] = "resize"]
        /\ UNCHANGED <<expired, excl, shrd>>
        BY <1>t DEF Truncate
    <2>1. TypeOK'
        BY DEF IInv, TypeOK, ObjType, Sizes, Statuses, Blank
    <2>2. LocksMatchPc' /\ excl = p /\ shrd = {}
        BY DEF IInv, LocksMatchPc, TypeOK
    <2>3. \A q \in Procs \ {p} : pc[q] \notin BuildPcs \cup ShPcs
        BY <2>2 DEF IInv, LocksMatchPc
    <2>4. AccessMatchesPc'
        BY <2>3 DEF IInv, AccessMatchesPc, TypeOK
    <2>5. BuildProgress'
        BY <2>3 DEF IInv, BuildProgress, TypeOK, Blank
    <2>6. UsersReady' /\ ReadyIsComplete'
        BY <2>3 DEF IInv, UsersReady, Users, ReadyIsComplete, TypeOK, Blank
    <2>. QED  BY <2>1, <2>2, <2>4, <2>5, <2>6 DEF IInv
<1>u. CASE Unlink(p)
    <2> USE <1>u DEF Unlink
    <2>1. TypeOK'
        BY DEF IInv, TypeOK, ObjType, Sizes, Statuses, Blank
    <2>2. LocksMatchPc' /\ excl = p /\ shrd = {}
        BY DEF IInv, LocksMatchPc, TypeOK
    <2>3. \A q \in Procs : pc[q] \notin BuildPcs \cup ShPcs
        BY <2>2 DEF IInv, LocksMatchPc
    <2>4. AccessMatchesPc'
        BY <2>3 DEF IInv, AccessMatchesPc, TypeOK
    <2>5. BuildProgress' /\ UsersReady' /\ ReadyIsComplete'
        BY <2>3 DEF IInv, BuildProgress, UsersReady, Users, ReadyIsComplete, TypeOK
    <2>. QED  BY <2>1, <2>2, <2>4, <2>5 DEF IInv
<1> USE DEF IInv, TypeOK, LocksMatchPc, AccessMatchesPc, BuildProgress,
            UsersReady, Users, ReadyIsComplete, ObjType, Sizes, Statuses,
            ExclusiveFree, SharedFree
<1>1. CASE StartSetup(p)  BY <1>1 DEF StartSetup
<1>2. CASE Expire(p)  BY <1>2 DEF Expire
<1>3. CASE TakeExclusive(p)  BY <1>3 DEF TakeExclusive
<1>4. CASE MissExclusive(p)  BY <1>4 DEF MissExclusive
<1>5. CASE Resize(p)  BY <1>5 DEF Resize
<1>6. CASE Construct(p)  BY <1>6, SMTT(40) DEF Construct
<1>7. CASE RunFunctor(p)  BY <1>7 DEF RunFunctor
<1>8. CASE StoreHint(p)  BY <1>8 DEF StoreHint
<1>9. CASE StoreReady(p)  BY <1>9 DEF StoreReady
<1>10. CASE ReleaseExclusive(p)  BY <1>10 DEF ReleaseExclusive
<1>11. CASE SetupThrows(p)  BY <1>11 DEF SetupThrows
<1>12. CASE TakeShared(p)  BY <1>12 DEF TakeShared
<1>13. CASE MissShared(p)  BY <1>13 DEF MissShared
<1>14. CASE Wake(p)  BY <1>14 DEF Wake
<1>15. CASE Timeout(p)  BY <1>15 DEF Timeout
<1>16. CASE Open(p)  BY <1>16 DEF Open
<1>17. CASE OpenFails(p)  BY <1>17 DEF OpenFails
<1>18. CASE CheckReady(p)  BY <1>18 DEF CheckReady
<1>19. CASE CheckNotReady(p)  BY <1>19 DEF CheckNotReady
<1>20. CASE CheckBusError(p)  BY <1>20 DEF CheckBusError
<1>21. CASE LogStatus(p)
    <2>1. CASE Goto(p, "ex_try") /\ UNCHANGED <<expired, excl, shrd, named, obj, map>>
        BY <1>21, <2>1 DEF LogStatus
    <2>2. CASE Die(p, "segv")
        BY <1>21, <2>2 DEF LogStatus
    <2>. QED  BY <1>21, <2>1, <2>2 DEF LogStatus
<1>22. CASE Leave(p)  BY <1>22 DEF Leave
<1>23. CASE TakeLast(p)  BY <1>23 DEF TakeLast
<1>24. CASE MissLast(p)  BY <1>24 DEF MissLast
<1>25. CASE FinishLeave(p)  BY <1>25 DEF FinishLeave
<1>26. CASE Kill(p)  BY <1>26 DEF Kill
<1>. QED
    BY <1>t, <1>u, <1>1, <1>2, <1>3, <1>4, <1>5, <1>6, <1>7, <1>8, <1>9,
       <1>10, <1>11, <1>12, <1>13, <1>14, <1>15, <1>16, <1>17, <1>18,
       <1>19, <1>20, <1>21, <1>22, <1>23, <1>24, <1>25, <1>26 DEF
       LibraryStep, CallerStep

LEMMA NextPreserves == IInv /\ [Next]_vars => IInv'
<1> SUFFICES ASSUME IInv, [Next]_vars PROVE IInv'
    OBVIOUS
<1>1. CASE Next
    BY <1>1, StepPreserves DEF Next
<1>2. CASE UNCHANGED vars
    BY <1>2 DEF vars, IInv, TypeOK, LocksMatchPc, AccessMatchesPc,
       BuildProgress, UsersReady, Users, ReadyIsComplete
<1>. QED  BY <1>1, <1>2

LEMMA Inductive == Spec => []IInv
BY InitEstablishes, NextPreserves, PTL DEF Spec

(* Every variable keeps its type, sizes among them: an object has no pages *)
(* or the pages one process asked for.                                     *)
THEOREM TypeCorrect == Spec => []TypeOK
<1>1. IInv => TypeOK
    BY DEF IInv
<1>. QED  BY <1>1, Inductive, PTL

(* However setups, deaths, failures and destructors interleave, all users  *)
(* are on the one object that has the name, ready and initialised by the   *)
(* process whose value is in the header.                                   *)
THEOREM UsersShare == Spec => []UsersShareOneObject
<1>1. IInv => UsersShareOneObject
    BY DEF IInv, UsersShareOneObject, AccessMatchesPc, UsersReady, Users,
           ReadyIsComplete
<1>. QED  BY <1>1, Inductive, PTL

(* The ready mark implies a finished functor and a stored sharing value.   *)
THEOREM ReadyComplete == Spec => []ReadyIsComplete
<1>1. IInv => ReadyIsComplete
    BY DEF IInv
<1>. QED  BY <1>1, Inductive, PTL

-----------------------------------------------------------------------------
(* The objects under the users' feet.                                      *)

(* With a user there is no exclusive lock, hence nobody at the steps that  *)
(* empty, fill or unlink an object.                                        *)
LEMMA UsersExcludeBuilders ==
    ASSUME IInv, NEW p \in Procs, pc[p] = "attached"
    PROVE  /\ excl = None
           /\ \A q \in Procs : pc[q] \notin ExPcs
BY ConstAssumption DEF IInv, LocksMatchPc, ShPcs, TypeOK

(* No step of any process empties, resizes, re-initialises, unlinks or     *)
(* renames the object of a process that uses it before and after the step. *)
THEOREM NothingPulled == Spec => NothingPulledFromUsers
<1> DEFINE Kept ==
        \A p \in Procs :
            pc[p] = "attached" /\ pc'[p] = "attached" =>
                /\ named' = named
                /\ map'[p] = map[p]
                /\ obj'[map[p]] = obj[map[p]]
<1>1. IInv /\ [Next]_vars => Kept
    <2> SUFFICES ASSUME IInv, [Next]_vars, NEW p \in Procs,
                        pc[p] = "attached", pc'[p] = "attached"
                 PROVE  /\ named' = named
                        /\ map'[p] = map[p]
                        /\ obj'[map[p]] = obj[map[p]]
        OBVIOUS
    <2>1. \A q \in Procs : pc[q] \notin ExPcs
        BY UsersExcludeBuilders
    <2>2. CASE UNCHANGED vars
        BY <2>2 DEF vars
    <2>3. ASSUME NEW q \in Procs, LibraryStep(q) \/ CallerStep(q)
          PROVE  /\ named' = named
                 /\ obj' = obj
                 /\ map'[p] = map[p]
        <3> USE <2>1 DEF IInv, TypeOK, At, Goto, Access, EndSetup, Die, ExPcs,
                CreatePcs, BuildPcs
        <3>1. CASE LibraryStep(q)
            BY <3>1 DEF LibraryStep, TakeExclusive, MissExclusive, Truncate,
               Resize, Construct, StoreHint, StoreReady, ReleaseExclusive,
               TakeShared, MissShared, Wake, Timeout, Open, OpenFails,
               CheckReady, CheckNotReady, CheckBusError, LogStatus,
               TakeLast, MissLast, Unlink, FinishLeave
        <3>2. CASE CallerStep(q)
            BY <3>2 DEF CallerStep, StartSetup, RunFunctor, Leave,
               SetupThrows, Expire, Kill
        <3>. QED  BY <2>3, <3>1, <3>2
    <2>. QED  BY <2>2, <2>3 DEF Next
<1>. QED  BY <1>1, Inductive, PTL DEF Spec, NothingPulledFromUsers

-----------------------------------------------------------------------------
(* The refinement.                                                         *)

(* Every user sees the published content. *)
SeenIsContent ==
    /\ Content \in Procs \cup {None}
    /\ Seen = [p \in Procs |-> IF pc[p] = "attached" THEN Content ELSE None]
    /\ \A p \in Procs : pc[p] = "attached" => Content # None

LEMMA UsersSeeContent == IInv => SeenIsContent
<1> SUFFICES ASSUME IInv PROVE SeenIsContent
    OBVIOUS
<1>1. \A p \in Procs :
          pc[p] = "attached" =>
              /\ named \in Objs
              /\ map[p] = named
              /\ obj[named].status = "ready"
              /\ obj[named].hint \in Procs
    BY DEF IInv, TypeOK, BuildPcs, AccessMatchesPc, UsersReady, Users,
       ReadyIsComplete
<1>2. Seen = [p \in Procs |-> IF pc[p] = "attached" THEN Content ELSE None]
    BY <1>1, ConstAssumption DEF Seen, Content
<1>3. \A p \in Procs : pc[p] = "attached" => Content # None
    BY <1>1, ConstAssumption DEF Content
<1>4. Content \in Procs \cup {None}
    BY ConstAssumption DEF IInv, TypeOK, ObjType, Content
<1>. QED  BY <1>2, <1>3, <1>4 DEF SeenIsContent

LEMMA InitRefines == Init => Lifecycle!Init
BY DEF Init, Lifecycle!Init, Content, Seen

(* A step under the exclusive lock leaves every process where it was as a  *)
(* user, so it may publish or withdraw.                                    *)
LEMMA ExclusiveStepRefines ==
    ASSUME IInv, SeenIsContent, SeenIsContent',
           NEW p \in Procs, pc[p] \in ExPcs,
           NEW l, l # "attached", Goto(p, l),
           \/ Content' = Content
           \/ Content = None /\ Content' \in Procs
           \/ Content' = None
    PROVE  Lifecycle!Next \/ UNCHANGED <<Content, Seen>>
<1>1. \A q \in Procs : pc[q] # "attached" /\ pc'[q] # "attached"
    BY UsersExcludeBuilders DEF Goto, IInv, TypeOK
<1>2. Seen = [q \in Procs |-> None] /\ Seen' = Seen
    BY <1>1 DEF SeenIsContent
<1>3. Lifecycle!Unused
    BY <1>2 DEF Lifecycle!Unused
<1>. QED
    BY <1>2, <1>3, ConstAssumption
    DEF Lifecycle!Next, Lifecycle!Publish, Lifecycle!Withdraw

(* A step that changes no content of the object with the name: the process *)
(* joins, leaves, or was no user and is none.                              *)
LEMMA UserStepRefines ==
    ASSUME IInv, SeenIsContent, SeenIsContent',
           NEW p \in Procs, NEW l, Goto(p, l), Content' = Content
    PROVE  Lifecycle!Next \/ UNCHANGED <<Content, Seen>>
<1>1. \A q \in Procs \ {p} : pc'[q] = pc[q]
    BY DEF Goto, IInv, TypeOK
<1>2. pc'[p] = l
    BY DEF Goto, IInv, TypeOK
<1>3. CASE pc[p] = "attached" /\ l # "attached"
    <2>1. Seen' = [Seen EXCEPT ![p] = None]
        BY <1>1, <1>2, <1>3 DEF SeenIsContent
    <2>2. Seen[p] # None
        BY <1>3 DEF SeenIsContent
    <2>. QED  BY <2>1, <2>2 DEF Lifecycle!Next, Lifecycle!Leave
<1>4. CASE pc[p] # "attached" /\ l = "attached"
    <2>1. Seen' = [Seen EXCEPT ![p] = Content] /\ Content # None
        BY <1>1, <1>2, <1>4 DEF SeenIsContent
    <2>2. Seen[p] = None
        BY <1>4 DEF SeenIsContent
    <2>. QED  BY <2>1, <2>2 DEF Lifecycle!Next, Lifecycle!Join
<1>5. CASE (pc[p] = "attached") = (l = "attached")
    <2>1. Seen' = Seen
        BY <1>1, <1>2, <1>5 DEF SeenIsContent
    <2>. QED  BY <2>1
<1>. QED  BY <1>3, <1>4, <1>5

(* StoreReady publishes; Truncate and Unlink withdraw what is published;   *)
(* CheckReady joins; the destructor's first step and death leave; no other *)
(* step is visible.                                                        *)
LEMMA StepRefines ==
    ASSUME IInv, SeenIsContent, SeenIsContent',
           NEW p \in Procs, LibraryStep(p) \/ CallerStep(p)
    PROVE  Lifecycle!Next \/ UNCHANGED <<Content, Seen>>
<1>a. /\ named \in Objs \cup {None}
      /\ obj \in [Objs -> ObjType]
      /\ None \notin Objs
    BY ConstAssumption DEF IInv, TypeOK
<1>b. pc[p] \in BuildPcs =>
          /\ named \in Objs
          /\ map[p] = named
    BY <1>a DEF IInv, AccessMatchesPc
<1>c. pc[p] \in BuildPcs \ {"unlock_ex"} => Content = None
    BY <1>b DEF IInv, BuildProgress, Content
<1>1. CASE Truncate(p)
    <2>1. Content' = None
        BY <1>1, <1>a DEF Truncate, Content, Blank
    <2>. QED
        BY <1>1, <2>1, ExclusiveStepRefines DEF Truncate, At, ExPcs, CreatePcs
<1>2. CASE Unlink(p)
    <2>1. Content' = None
        BY <1>2 DEF Unlink, Content
    <2>. QED
        BY <1>2, <2>1, ExclusiveStepRefines DEF Unlink, At, ExPcs
<1>3. CASE StoreReady(p)
    <2>1. Content' = p
        BY <1>3, <1>a, <1>b
        DEF StoreReady, At, BuildPcs, IInv, BuildProgress, Content, ObjType
    <2>2. Content = None
        BY <1>3, <1>c DEF StoreReady, At, BuildPcs
    <2>. QED
        BY <1>3, <2>1, <2>2, ExclusiveStepRefines
        DEF StoreReady, At, ExPcs, CreatePcs, BuildPcs
<1>4. CASE Resize(p) \/ Construct(p) \/ RunFunctor(p) \/ StoreHint(p)
    <2>1. Content' = None
        BY <1>4, <1>a, <1>b
        DEF Resize, Construct, RunFunctor, StoreHint, At, BuildPcs, IInv,
            BuildProgress, Content, ObjType
    <2>. QED
        BY <1>4, <2>1, ExclusiveStepRefines
        DEF Resize, Construct, RunFunctor, StoreHint, At, ExPcs, CreatePcs,
            BuildPcs
<1>5. CASE Expire(p)
    BY <1>5 DEF Expire, Content, Seen
<1>6. ASSUME NEW l, Goto(p, l), UNCHANGED <<named, obj>>
      PROVE  Lifecycle!Next \/ UNCHANGED <<Content, Seen>>
    BY <1>6, UserStepRefines DEF Content
<1>. QED
    BY <1>1, <1>2, <1>3, <1>4, <1>5, <1>6
    DEF LibraryStep, CallerStep, TakeExclusive, MissExclusive,
        ReleaseExclusive, TakeShared, MissShared, Wake, Timeout, Open,
        OpenFails, CheckReady, CheckNotReady, CheckBusError, LogStatus,
        TakeLast, MissLast, FinishLeave, StartSetup, Leave, SetupThrows,
        Kill, Die, EndSetup

(* The lock-file protocol implements the lifecycle that setup promises.    *)
THEOREM Implements == Spec => LifecycleSpec
<1>1. IInv /\ SeenIsContent /\ SeenIsContent' /\ [Next]_vars
          => [Lifecycle!Next]_<<Content, Seen>>
    <2>1. UNCHANGED vars => UNCHANGED <<Content, Seen>>
        BY DEF vars, Content, Seen
    <2>. QED  BY <2>1, StepRefines DEF Next
<1>. QED
    BY <1>1, Inductive, InitRefines, UsersSeeContent, PTL
    DEF Spec, LifecycleSpec, Lifecycle!Spec, Lifecycle!avars

-----------------------------------------------------------------------------
(* No leak.                                                                *)

(* Nothing has died, and nothing ever fails. *)
Undamaged == MayFail = {} /\ \A p \in Procs : pc[p] \notin DeadPcs

(* The steps of a process that will unlink the object, or see another that *)
(* will.  One that lost the race for the shared lock ("sleep") will not.   *)
KeeperPcs == ExPcs \cup ShPcs \cup {"sh_try", "try_last"}

LeakInv ==
    Undamaged =>
        /\ named # None /\ excl = None =>
              obj[named].status = "ready" /\ obj[named].size # 0
        /\ \A p \in Procs : pc[p] = "unlink_done" => named = None
        /\ named # None => \E p \in Procs : pc[p] \in KeeperPcs

(* The two tries that give up do so because another process holds a lock.  *)
LEMMA KeeperTakesOver ==
    ASSUME IInv, Undamaged, NEW p \in Procs, MissShared(p) \/ MissLast(p)
    PROVE  \E q \in Procs \ {p} : pc[q] \in KeeperPcs
<1>1. pc[p] \notin ExPcs \cup ShPcs
    BY DEF MissShared, MissLast, At, ExPcs, CreatePcs, BuildPcs, ShPcs
<1>2. excl # None \/ shrd # {}
    BY DEF MissShared, MissLast, SharedFree, ExclusiveFree, Undamaged
<1>3. \E q \in Procs : pc[q] \in ExPcs \cup ShPcs
    BY <1>2, ConstAssumption DEF IInv, TypeOK, LocksMatchPc
<1>. QED  BY <1>1, <1>3 DEF KeeperPcs

LEMMA LeakStep ==
    ASSUME IInv, LeakInv, NEW p \in Procs, LibraryStep(p) \/ CallerStep(p)
    PROVE  LeakInv'
<1> SUFFICES ASSUME Undamaged' PROVE LeakInv'
    BY DEF LeakInv
<1> USE ConstAssumption DEF At, Goto, Access, EndSetup
<1>t. /\ pc \in [Procs -> Pcs]
      /\ excl \in Procs \cup {None}
      /\ named \in Objs \cup {None}
      /\ obj \in [Objs -> ObjType]
    BY DEF IInv, TypeOK
<1>d. \A l : l \in DeadPcs => ~Die(p, l)
    BY <1>t DEF Undamaged, Die
<1>u. Undamaged
    <2>1. \E l : Goto(p, l) \/ pc' = pc
        BY DEF LibraryStep, CallerStep, TakeExclusive, MissExclusive, Truncate,
           Resize, Construct, StoreHint, StoreReady, ReleaseExclusive,
           TakeShared, MissShared, Wake, Timeout, Open, OpenFails, CheckReady,
           CheckNotReady, CheckBusError, LogStatus, TakeLast, MissLast,
           Unlink, FinishLeave, StartSetup, RunFunctor, Leave, SetupThrows,
           Expire, Kill, Die
    <2>2. pc[p] \notin DeadPcs
        BY DEF LibraryStep, CallerStep, TakeExclusive, MissExclusive, Truncate,
           Resize, Construct, StoreHint, StoreReady, ReleaseExclusive,
           TakeShared, MissShared, Wake, Timeout, Open, OpenFails, CheckReady,
           CheckNotReady, CheckBusError, LogStatus, TakeLast, MissLast,
           Unlink, FinishLeave, StartSetup, RunFunctor, Leave, SetupThrows,
           Expire, Kill, DeadPcs, SetupPcs, CreatePcs, BuildPcs
    <2>. QED  BY <1>t, <2>1, <2>2 DEF Undamaged
<1>i. /\ named # None /\ excl = None =>
            obj[named].status = "ready" /\ obj[named].size # 0
      /\ \A q \in Procs : pc[q] = "unlink_done" => named = None
      /\ named # None => \E q \in Procs : pc[q] \in KeeperPcs
    BY <1>u DEF LeakInv
<1>1. ASSUME named' # None, excl' = None
      PROVE  obj'[named'].status = "ready" /\ obj'[named'].size # 0
    <2>1. CASE ReleaseExclusive(p)
        BY <1>1, <2>1 DEF ReleaseExclusive, IInv, BuildProgress, BuildPcs
    <2>2. CASE UNCHANGED <<excl, named, obj>>
        BY <1>1, <1>i, <2>2
    <2>3. CASE FinishLeave(p)
        BY <1>1, <1>i, <2>3 DEF FinishLeave
    <2>4. pc[p] \in ExPcs => excl = p
        BY DEF IInv, LocksMatchPc
    <2>. QED
        BY <1>1, <1>d, <1>u, <2>1, <2>2, <2>3, <2>4
        DEF LibraryStep, CallerStep, TakeExclusive, MissExclusive, Truncate,
            Resize, Construct, StoreHint, StoreReady, TakeShared, MissShared,
            Wake, Timeout, Open, OpenFails, CheckReady, CheckNotReady,
            CheckBusError, LogStatus, TakeLast, MissLast, Unlink, StartSetup,
            RunFunctor, Leave, SetupThrows, Expire, Kill, DeadPcs, Undamaged,
            ExPcs, CreatePcs, BuildPcs
<1>2. ASSUME NEW q \in Procs, pc'[q] = "unlink_done" PROVE named' = None
    <2>1. CASE Unlink(p)
        BY <2>1 DEF Unlink
    <2>2. CASE ~Unlink(p)
        <3>1. pc[q] = "unlink_done"
            BY <1>t, <1>2, <2>2, <1>d
            DEF LibraryStep, CallerStep, TakeExclusive, MissExclusive,
                Truncate, Resize, Construct, StoreHint, StoreReady,
                ReleaseExclusive, TakeShared, MissShared, Wake, Timeout, Open,
                OpenFails, CheckReady, CheckNotReady, CheckBusError,
                LogStatus, TakeLast, MissLast, FinishLeave, StartSetup,
                RunFunctor, Leave, SetupThrows, Expire, Kill, DeadPcs
        <3>2. excl = q /\ named = None
            BY <1>i, <3>1 DEF IInv, LocksMatchPc, ExPcs
        <3>3. ~Truncate(p)
            BY <3>1, <3>2 DEF Truncate, IInv, LocksMatchPc, ExPcs, CreatePcs
        <3>. QED
            BY <2>2, <3>2, <3>3
            DEF LibraryStep, CallerStep, TakeExclusive, MissExclusive, Resize,
                Construct, StoreHint, StoreReady, ReleaseExclusive,
                TakeShared, MissShared, Wake, Timeout, Open, OpenFails,
                CheckReady, CheckNotReady, CheckBusError, LogStatus, TakeLast,
                MissLast, FinishLeave, StartSetup, RunFunctor, Leave,
                SetupThrows, Expire, Kill, Die
    <2>. QED  BY <2>1, <2>2
<1>3. ASSUME named' # None PROVE \E q \in Procs : pc'[q] \in KeeperPcs
    <2>1. CASE pc'[p] \in KeeperPcs
        BY <2>1
    <2>2. CASE MissShared(p) \/ MissLast(p)
        <3>1. PICK q \in Procs \ {p} : pc[q] \in KeeperPcs
            BY <1>u, <2>2, KeeperTakesOver
        <3>2. pc'[q] = pc[q]
            BY <1>t, <2>2 DEF MissShared, MissLast
        <3>. QED  BY <3>1, <3>2
    <2>3. CASE CheckNotReady(p) \/ CheckBusError(p)
        <3>1. map[p] = named /\ named # None /\ excl = None
            BY <2>3, <1>t DEF CheckNotReady, CheckBusError, IInv,
               AccessMatchesPc, LocksMatchPc, ShPcs
        <3>. QED  BY <1>i, <2>3, <3>1 DEF CheckNotReady, CheckBusError
    <2>4. CASE OpenFails(p) \/ FinishLeave(p) \/ SetupThrows(p)
        BY <1>3, <1>u, <1>i, <2>4
        DEF OpenFails, FinishLeave, SetupThrows, Undamaged
    <2>5. CASE StartSetup(p) \/ Wake(p) \/ Timeout(p) \/ LogStatus(p) \/ Expire(p)
        <3>1. pc[p] \notin KeeperPcs \/ pc' = pc
            BY <2>5 DEF StartSetup, Wake, Timeout, LogStatus, Expire,
               KeeperPcs, ExPcs, ShPcs, CreatePcs, BuildPcs
        <3>2. named' = named /\ \E l : Goto(p, l) \/ pc' = pc
            BY <2>5 DEF StartSetup, Wake, Timeout, LogStatus, Expire, Die
        <3>. QED  BY <1>t, <1>i, <1>3, <3>1, <3>2
    <2>. QED
        BY <1>t, <1>d, <2>1, <2>2, <2>3, <2>4, <2>5
        DEF LibraryStep, CallerStep, TakeExclusive, MissExclusive, Truncate,
            Resize, Construct, StoreHint, StoreReady, ReleaseExclusive,
            TakeShared, Open, CheckReady, TakeLast, Unlink, RunFunctor, Leave,
            Kill, DeadPcs, KeeperPcs, ExPcs, ShPcs, CreatePcs, BuildPcs
<1>. QED  BY <1>1, <1>2, <1>3 DEF LeakInv

(* When nothing dies or fails, the object is gone when all are out.        *)
THEOREM LeakFree == Spec => []NoLeak
<1>1. Init => LeakInv
    BY DEF Init, LeakInv
<1>2. IInv /\ LeakInv /\ [Next]_vars => LeakInv'
    <2>1. UNCHANGED vars /\ LeakInv => LeakInv'
        BY DEF vars, LeakInv, Undamaged
    <2>. QED  BY <2>1, LeakStep DEF Next
<1>3. LeakInv => NoLeak
    BY DEF LeakInv, NoLeak, Undamaged, DeadPcs, KeeperPcs, ExPcs, ShPcs,
       CreatePcs, BuildPcs
<1>. QED  BY <1>1, <1>2, <1>3, Inductive, PTL DEF Spec
=============================================================================
