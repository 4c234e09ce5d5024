------------------------- MODULE MsgChannel_proofs -------------------------
(***************************************************************************)
(* Proofs about MsgChannel, for any number of threads, channels, nodes and *)
(* messages, whichever threads die.                                        *)
(*                                                                         *)
(* The mutex excludes.  AccessIsExclusive is almost inductive.  It lacks   *)
(* only that a lost mutex has no owner: else the death of an owner could   *)
(* turn a lost mutex into a dead one, which the next to lock it repairs.   *)
(*                                                                         *)
(* Nobody sleeps on a message.  NoLostWakeup becomes inductive with what   *)
(* each thread has at hand at its step, and with the links: a list becomes *)
(* non-empty only by a send to it, for the stores of a call write to one   *)
(* list and to nodes.  For the types, a node that a link leads to holds a  *)
(* message.                                                                *)
(*                                                                         *)
(* Each channel hands out what it accepted, in order, and loses no node.   *)
(* As long as no list is torn and the mutex is not lost, every list is     *)
(* whole: its nodes are a sequence, linked both ways, that shares no node  *)
(* with another list (Whole).  Fifo is about what that sequence holds; it  *)
(* needs what a receiver has read when it pops.  That Forward sees all of  *)
(* a list follows from the messages being different, for then there are    *)
(* not more than MaxMsgs in a list.                                        *)
(***************************************************************************)
EXTENDS MsgChannel, ListLinks_proofs

-----------------------------------------------------------------------------
(* The mutex excludes.                                                     *)

ControlTypes ==
    /\ pc \in [Procs -> Pcs]
    /\ owner \in Procs \cup {None}
    /\ mstate \in {"ok", "dead", "lost"}

(* A mutex that is lost belongs to nobody. *)
LostIsFree == mstate = "lost" => owner = None

MutexInv == ControlTypes /\ AccessIsExclusive /\ LostIsFree

(* What Release(p) and Abandon(p, l) do to the mutex and to its owner.     *)
LEMMA ReleaseFacts ==
    ASSUME NEW p \in Procs, MutexInv, Release(p)
    PROVE  /\ owner' \in Procs \cup {None}
           /\ mstate' \in {"ok", "dead", "lost"}
           /\ LostIsFree'
           /\ owner' # p
           /\ owner # p => owner' = owner /\ mstate' = mstate
BY ConstAssumption DEF MutexInv, ControlTypes, LostIsFree, Release

LEMMA AbandonFacts ==
    ASSUME NEW p \in Procs, NEW l \in DeadPcs, MutexInv, Abandon(p, l)
    PROVE  MutexInv'
<1>1. /\ pc' = [pc EXCEPT ![p] = l]
      /\ pc' \in [Procs -> Pcs]
      /\ l \notin InsidePcs
  BY DEF Abandon, EndCall, Goto, MutexInv, ControlTypes, Pcs, DeadPcs, InsidePcs
<1>2. owner' = (IF owner = p THEN None ELSE owner)
      /\ mstate' = (IF owner = p THEN "dead" ELSE mstate)
  BY DEF Abandon
<1>3. ControlTypes' /\ LostIsFree'
  BY <1>1, <1>2 DEF MutexInv, ControlTypes, LostIsFree
<1>4. AccessIsExclusive'
  <2>. SUFFICES ASSUME mstate' # "lost", NEW q \in Procs, pc'[q] \in InsidePcs
                PROVE  owner' = q
    BY DEF AccessIsExclusive
  <2>1. q # p /\ pc[q] \in InsidePcs
    BY <1>1 DEF MutexInv, ControlTypes
  <2>2. owner # p
    BY <2>1, ConstAssumption DEF MutexInv, AccessIsExclusive, LostIsFree
  <2>. QED  BY <1>2, <2>1, <2>2 DEF MutexInv, AccessIsExclusive
<1>. QED  BY <1>3, <1>4 DEF MutexInv

(* A thread that goes to a step outside the lock's scope changes nothing   *)
(* for the others, as long as the mutex is left alone.                     *)
LEMMA OutsideFacts ==
    ASSUME NEW p \in Procs, NEW l \in Pcs \ InsidePcs, MutexInv,
           Goto(p, l), UNCHANGED <<owner, mstate>>
    PROVE  MutexInv'
BY DEF MutexInv, ControlTypes, AccessIsExclusive, LostIsFree, Goto

(* The same for a step that stays in the scope of the lock. *)
LEMMA InsideFacts ==
    ASSUME NEW p \in Procs, NEW l \in InsidePcs, pc[p] \in InsidePcs, MutexInv,
           Goto(p, l), UNCHANGED <<owner, mstate>>
    PROVE  MutexInv'
BY DEF MutexInv, ControlTypes, AccessIsExclusive, LostIsFree, Goto, Pcs

(* Leaving the scope by an unlock. *)
LEMMA LeaveFacts ==
    ASSUME NEW p \in Procs, NEW l \in Pcs \ InsidePcs, MutexInv,
           Goto(p, l), Release(p)
    PROVE  MutexInv'
<1>1. pc' = [pc EXCEPT ![p] = l] /\ pc' \in [Procs -> Pcs]
  BY DEF Goto, MutexInv, ControlTypes
<1>2. ControlTypes' /\ LostIsFree'
  BY <1>1, ReleaseFacts DEF ControlTypes
<1>3. AccessIsExclusive'
  <2>. SUFFICES ASSUME mstate' # "lost", NEW q \in Procs, pc'[q] \in InsidePcs
                PROVE  owner' = q
    BY DEF AccessIsExclusive
  <2>1. q # p /\ pc[q] \in InsidePcs
    BY <1>1 DEF MutexInv, ControlTypes
  <2>2. CASE owner = p
    <3>1. mstate = "lost"
      BY <2>1, <2>2 DEF MutexInv, AccessIsExclusive
    <3>. QED  BY <2>2, <3>1, ConstAssumption DEF MutexInv, LostIsFree
  <2>3. CASE owner # p
    BY <2>1, <2>3, ReleaseFacts DEF MutexInv, AccessIsExclusive
  <2>. QED  BY <2>2, <2>3
<1>. QED  BY <1>2, <1>3 DEF MutexInv

(* Taking the mutex, which was free and not lost. *)
LEMMA EnterFacts ==
    ASSUME NEW p \in Procs, NEW l \in InsidePcs, MutexInv,
           owner = None, mstate # "lost", owner' = p,
           mstate' \in {"ok", "dead"}, Goto(p, l)
    PROVE  MutexInv'
<1>1. pc' = [pc EXCEPT ![p] = l] /\ pc' \in [Procs -> Pcs]
  BY DEF Goto, MutexInv, ControlTypes, Pcs
<1>2. \A q \in Procs : pc[q] \notin InsidePcs
  BY ConstAssumption DEF MutexInv, AccessIsExclusive
<1>3. AccessIsExclusive'
  BY <1>1, <1>2 DEF MutexInv, ControlTypes, AccessIsExclusive
<1>. QED  BY <1>1, <1>3 DEF MutexInv, ControlTypes, LostIsFree

LEMMA InitMutex == Init => MutexInv
BY DEF Init, MutexInv, ControlTypes, AccessIsExclusive, LostIsFree, Pcs,
       InsidePcs, DeadPcs

LEMMA NextMutex == MutexInv /\ [Next]_vars => MutexInv'
<1>. SUFFICES ASSUME MutexInv, [Next]_vars
              PROVE  MutexInv'
  OBVIOUS
<1>. USE DEF At
<1>p. /\ {"idle", "lock", "notify", "asleep", "relock"} \subseteq Pcs \ InsidePcs
      /\ {"emplace", "test", "front", "pop", "unlock"} = InsidePcs
      /\ DeadPcs \subseteq Pcs \ InsidePcs
      /\ {"dead", "dead_silent"} = DeadPcs
  BY DEF Pcs, InsidePcs, DeadPcs
<1>1. ASSUME NEW p \in Procs, NEW op \in Ops, NEW c \in Chans, Start(p, op, c)
      PROVE  MutexInv'
  BY <1>1, <1>p, OutsideFacts DEF Start
<1>2. ASSUME NEW p \in Procs, Proceed(p)
      PROVE  MutexInv'
  <2>1. CASE LockThrows(p)
    BY <2>1, <1>p, OutsideFacts DEF LockThrows, EndCall
  <2>2. CASE Unlock(p)
    <3>1. \E l \in {"notify", "idle"} : Goto(p, l)
      BY <2>2 DEF Unlock, EndCall
    <3>. QED  BY <2>2, <3>1, <1>p, LeaveFacts DEF Unlock
  <2>3. CASE Emplace(p)
    <3>1. \/ Goto(p, "unlock") /\ UNCHANGED <<owner, mstate>>
          \/ Abandon(p, "dead_silent")
      BY <2>3 DEF Emplace
    <3>2. pc[p] \in InsidePcs
      BY <2>3, <1>p DEF Emplace
    <3>. QED  BY <3>1, <3>2, <1>p, InsideFacts, AbandonFacts
  <2>4. CASE EmplaceNoMemory(p)
    BY <2>4, <1>p, AbandonFacts DEF EmplaceNoMemory
  <2>5. CASE Notify(p)
    <3>1. \A q \in Procs : pc'[q] = pc[q] \/ pc'[q] \in {"idle", "relock"}
      BY <2>5 DEF Notify
    <3>2. pc' \in [Procs -> Pcs] /\ UNCHANGED <<owner, mstate>>
      BY <2>5, <1>p DEF Notify, MutexInv, ControlTypes
    <3>. QED
      BY <3>1, <3>2, <1>p DEF MutexInv, ControlTypes, AccessIsExclusive, LostIsFree
  <2>6. CASE TestNonEmpty(p)
    BY <2>6, <1>p, InsideFacts DEF TestNonEmpty
  <2>7. CASE TestGivesUp(p)
    BY <2>7, <1>p, InsideFacts DEF TestGivesUp
  <2>8. CASE Wait(p)
    <3>1. CASE owner = p
      BY <2>8, <3>1, <1>p, LeaveFacts DEF Wait
    <3>2. CASE owner # p
      <4>1. /\ Goto(p, "test") /\ pc[p] \in InsidePcs
            /\ UNCHANGED <<owner, mstate>>
        BY <2>8, <3>2, <1>p DEF Wait, Release
      <4>. QED  BY <4>1, <1>p, InsideFacts
    <3>. QED  BY <3>1, <3>2
  <2>9. CASE ReadFront(p)
    <3>1. \/ Abandon(p, "dead")
          \/ Goto(p, "pop") /\ UNCHANGED <<owner, mstate>>
      BY <2>9 DEF ReadFront
    <3>. QED  BY <2>9, <3>1, <1>p, InsideFacts, AbandonFacts DEF ReadFront
  <2>10. CASE Pop(p)
    <3>1. \/ Goto(p, "unlock") /\ UNCHANGED <<owner, mstate>>
          \/ Abandon(p, "dead")
      BY <2>10 DEF Pop
    <3>. QED  BY <2>10, <3>1, <1>p, InsideFacts, AbandonFacts DEF Pop
  <2>. QED  BY <1>2, <2>1, <2>2, <2>3, <2>4, <2>5, <2>6, <2>7, <2>8, <2>9, <2>10
               DEF Proceed
<1>3. ASSUME NEW p \in Procs, Lock(p)
      PROVE  MutexInv'
  <2>1. \E l \in {"emplace", "test"} : Goto(p, l)
    BY <1>3 DEF Lock
  <2>. QED  BY <1>3, <2>1, <1>p, EnterFacts DEF Lock, Acquire
<1>4. ASSUME NEW p \in Procs, Relocks(p)
      PROVE  MutexInv'
  <2>1. CASE Relock(p)
    BY <2>1, <1>p, EnterFacts DEF Relock
  <2>2. CASE RelockIgnoresError(p)
    <3>1. CASE mstate = "dead"
      BY <2>2, <3>1, <1>p, EnterFacts DEF RelockIgnoresError
    <3>2. CASE mstate # "dead"
      <4>1. mstate = "lost" /\ UNCHANGED <<owner, mstate>> /\ Goto(p, "test")
        BY <2>2, <3>2 DEF RelockIgnoresError, MutexInv, ControlTypes
      <4>. QED
        BY <4>1, <1>p DEF MutexInv, ControlTypes, AccessIsExclusive, LostIsFree,
                          Goto, Pcs
    <3>. QED  BY <3>1, <3>2
  <2>3. CASE RelockThrows(p)
    <3>1. /\ mstate' = "lost" /\ UNCHANGED owner /\ owner = None
          /\ Goto(p, "idle")
      BY <2>3 DEF RelockThrows, EndCall
    <3>. QED
      BY <3>1, <1>p DEF MutexInv, ControlTypes, AccessIsExclusive, LostIsFree, Goto
  <2>. QED  BY <1>4, <2>1, <2>2, <2>3 DEF Relocks
<1>5. ASSUME NEW p \in Procs, SpuriousWake(p) \/ TimeUp(p)
      PROVE  MutexInv'
  BY <1>5, <1>p, OutsideFacts DEF SpuriousWake, TimeUp
<1>6. ASSUME NEW p \in Procs, Die(p)
      PROVE  MutexInv'
  <2>1. \E l \in DeadPcs : Abandon(p, l)
    BY <1>6, <1>p DEF Die
  <2>. QED  BY <2>1, AbandonFacts
<1>7. CASE UNCHANGED vars
  BY <1>7 DEF vars, MutexInv, ControlTypes, AccessIsExclusive, LostIsFree
<1>. QED  BY <1>1, <1>2, <1>3, <1>4, <1>5, <1>6, <1>7 DEF Next

(* Two threads are never at the lists together unless the mutex has been   *)
(* lost: across lock, wait, wake-up, timeout and the death of any thread   *)
(* at any step (ipsm_mutex.cpp:80-106, ipsm_malloc.cpp:137-217).           *)
THEOREM Exclusive == Spec => []AccessIsExclusive
<1>1. MutexInv => AccessIsExclusive
  BY DEF MutexInv
<1>. QED  BY InitMutex, NextMutex, <1>1, PTL DEF Spec

-----------------------------------------------------------------------------
(* Nobody sleeps on a message.                                              *)

Running(p) == pc[p] \notin DeadPcs \cup {"idle"}

(* What a call is at each step, and the message at hand. *)
CallTypes ==
    /\ call \in [Procs -> [op : Ops \cup {"none"}, ch : Chans \cup {None},
                           late : BOOLEAN]]
    /\ val \in [Procs -> 0..MaxMsgs]
    /\ nsent \in 0..MaxMsgs
CallMatchesPc ==
    \A p \in Procs :
        /\ Running(p) => call[p].ch \in Chans
        /\ At(p, "emplace") => Op(p) = "send"
        /\ At(p, "lock") /\ Op(p) = "send" => val[p] # 0
        /\ At(p, "emplace") \/ At(p, "pop") => val[p] # 0
CallInv == CallTypes /\ CallMatchesPc

(* A node that a link leads to holds a message. *)
MemoryTypes == links \in Links /\ data \in [Nodes -> 0..MaxMsgs] /\ used \subseteq Nodes
LinkedAreFilled ==
    \A f \in Fields, e \in Entities : links[f][e] # Null => data[links[f][e]] # 0
MemoryInv == MemoryTypes /\ LinkedAreFilled

LogTypes ==
    /\ accepted \in [Chans -> Seq(1..MaxMsgs)]
    /\ delivered \in [Chans -> Seq(1..MaxMsgs)]
    /\ torn \in BOOLEAN

IInv == MutexInv /\ CallInv /\ MemoryInv /\ LogTypes /\ NoLostWakeup

LEMMA InitInv == Init => IInv
<1>. SUFFICES ASSUME Init PROVE IInv
  OBVIOUS
<1>1. MutexInv
  BY InitMutex
<1>2. CallInv
  BY ConstAssumption DEF Init, CallInv, CallTypes, CallMatchesPc, NoCall, Running, At
<1>3. MemoryInv
  BY ConstAssumption DEF Init, MemoryInv, MemoryTypes, LinkedAreFilled, NoLinks, Links,
                         Fields, Entities
<1>4. LogTypes
  <2>1. \A S : <<>> \in Seq(S)
    OBVIOUS
  <2>. QED  BY <2>1 DEF Init, LogTypes
<1>5. NoLostWakeup
  BY DEF Init, NoLostWakeup, At
<1>. QED  BY <1>1, <1>2, <1>3, <1>4, <1>5 DEF IInv

-----------------------------------------------------------------------------
(* The calls.                                                              *)

LEMMA StayFacts ==
    ASSUME NEW p \in Procs, NEW l \in Pcs \ {"lock", "emplace", "pop"},
           MutexInv, CallInv, Running(p),
           Goto(p, l), UNCHANGED <<call, val, nsent>>
    PROVE  CallInv'
BY DEF MutexInv, ControlTypes, CallInv, CallTypes, CallMatchesPc, Running, At, Op, Goto

LEMMA EndFacts ==
    ASSUME NEW p \in Procs, NEW l \in DeadPcs \cup {"idle"},
           MutexInv, CallInv, EndCall(p, l), UNCHANGED nsent
    PROVE  CallInv'
<1>1. /\ pc' = [pc EXCEPT ![p] = l]
      /\ call' = [call EXCEPT ![p] = IF l = "dead_silent"
                                      THEN [NoCall EXCEPT !.ch = call[p].ch] ELSE NoCall]
      /\ val' = [val EXCEPT ![p] = 0]
  BY DEF EndCall, Goto
<1>2. /\ NoCall \in [op : Ops \cup {"none"}, ch : Chans \cup {None}, late : BOOLEAN]
      /\ [NoCall EXCEPT !.ch = call[p].ch] \in
             [op : Ops \cup {"none"}, ch : Chans \cup {None}, late : BOOLEAN]
  BY DEF NoCall, CallInv, CallTypes
<1>3. CallTypes'
  BY <1>1, <1>2, ConstAssumption DEF CallInv, CallTypes
<1>4. l \in {"dead", "dead_silent", "idle"}
  BY DEF DeadPcs
<1>5. ASSUME NEW q \in Procs
      PROVE  \/ q = p /\ pc'[q] = l
             \/ pc'[q] = pc[q] /\ call'[q] = call[q] /\ val'[q] = val[q]
  BY <1>1 DEF MutexInv, ControlTypes, CallInv, CallTypes
<1>6. CallMatchesPc'
  BY <1>4, <1>5 DEF CallInv, CallMatchesPc, Running, At, Op, DeadPcs
<1>. QED  BY <1>3, <1>6 DEF CallInv

LEMMA NextCalls == MutexInv /\ CallInv /\ MemoryInv /\ [Next]_vars => CallInv'
<1>. SUFFICES ASSUME MutexInv, CallInv, MemoryInv, [Next]_vars
              PROVE  CallInv'
  OBVIOUS
<1>p. /\ Pcs = {"idle", "lock", "notify", "asleep", "relock", "emplace", "test",
                "front", "pop", "unlock", "dead", "dead_silent"}
      /\ DeadPcs = {"dead", "dead_silent"}
  BY DEF Pcs, InsidePcs, DeadPcs
<1>. USE DEF logs
<1>1. ASSUME NEW p \in Procs, NEW op \in Ops, NEW c \in Chans, Start(p, op, c)
      PROVE  CallInv'
  <2>1. CallTypes'
    BY <1>1, ConstAssumption DEF Start, CallInv, CallTypes
  <2>2. ASSUME NEW q \in Procs, q # p
        PROVE  pc'[q] = pc[q] /\ call'[q] = call[q] /\ val'[q] = val[q]
    BY <1>1, <2>2 DEF Start, Goto, MutexInv, ControlTypes, CallInv, CallTypes
  <2>3. /\ pc'[p] = "lock" /\ call'[p].op = op /\ call'[p].ch = c
        /\ op = "send" => val'[p] # 0
    BY <1>1 DEF Start, Goto, MutexInv, ControlTypes, CallInv, CallTypes
  <2>. QED  BY <2>1, <2>2, <2>3 DEF CallInv, CallMatchesPc, Running, At, Op
<1>2. ASSUME NEW p \in Procs, Proceed(p)
      PROVE  CallInv'
  <2>1. CASE LockThrows(p)
    BY <2>1, EndFacts DEF LockThrows
  <2>2. CASE Unlock(p)
    <3>1. CASE Op(p) = "send"
      BY <2>2, <3>1, <1>p, StayFacts DEF Unlock, At, Running
    <3>2. CASE Op(p) # "send"
      BY <2>2, <3>2, EndFacts DEF Unlock
    <3>. QED  BY <3>1, <3>2
  <2>3. CASE Emplace(p)
    <3>1. \/ Goto(p, "unlock") /\ UNCHANGED <<call, val, nsent>>
          \/ EndCall(p, "dead_silent") /\ UNCHANGED nsent
      BY <2>3 DEF Emplace, Abandon
    <3>2. Running(p)
      BY <2>3, <1>p DEF Emplace, At, Running
    <3>. QED  BY <3>1, <3>2, <1>p, StayFacts, EndFacts
  <2>4. CASE EmplaceNoMemory(p)
    BY <2>4, <1>p, EndFacts DEF EmplaceNoMemory, Abandon
  <2>5. CASE Notify(p)
    <3>1. CallTypes'
      BY <2>5, ConstAssumption DEF Notify, NoCall, CallInv, CallTypes
    <3>2. ASSUME NEW q \in Procs
          PROVE  \/ pc'[q] = "idle"
                 \/ /\ call'[q] = call[q] /\ val'[q] = val[q]
                    /\ pc'[q] = pc[q] \/ (pc'[q] = "relock" /\ pc[q] = "asleep")
      BY <2>5 DEF Notify, At, CallInv, CallTypes
    <3>. QED  BY <3>1, <3>2, <1>p DEF CallInv, CallMatchesPc, Running, At, Op
  <2>6. CASE TestNonEmpty(p)
    BY <2>6, <1>p, StayFacts DEF TestNonEmpty, At, Running
  <2>7. CASE TestGivesUp(p)
    BY <2>7, <1>p, StayFacts DEF TestGivesUp, At, Running
  <2>8. CASE Wait(p)
    <3>1. \E l \in {"asleep", "test"} : Goto(p, l)
      BY <2>8 DEF Wait
    <3>. QED  BY <2>8, <3>1, <1>p, StayFacts DEF Wait, At, Running
  <2>9. CASE ReadFront(p)
    <3>1. CASE NoMessage(p)
      BY <2>9, <3>1, <1>p, EndFacts DEF ReadFront, Abandon
    <3>2. CASE ~NoMessage(p)
      <4>. DEFINE v == data[FirstNode(links, call[p].ch)]
      <4>1. /\ pc' = [pc EXCEPT ![p] = "pop"] /\ val' = [val EXCEPT ![p] = v]
            /\ UNCHANGED <<call, nsent>>
        BY <2>9, <3>2 DEF ReadFront, Goto
      <4>2. call[p].ch \in Chans
        BY <2>9, <1>p DEF ReadFront, At, Running, CallInv, CallMatchesPc
      <4>3. v # 0 /\ v \in 0..MaxMsgs
        BY <3>2, <4>2 DEF NoMessage, IsEmpty, FirstNode, MemoryInv, MemoryTypes,
                          LinkedAreFilled, Links, Fields, Entities, Chans
      <4>4. Running(p)
        BY <2>9, <1>p DEF ReadFront, At, Running
      <4>. HIDE DEF v
      <4>. QED
        BY <4>1, <4>3, <4>4, <1>p DEF CallInv, CallTypes, CallMatchesPc, Running, At, Op,
                                      MutexInv, ControlTypes
    <3>. QED  BY <3>1, <3>2
  <2>10. CASE Pop(p)
    <3>1. \/ Goto(p, "unlock") /\ UNCHANGED <<call, val, nsent>>
          \/ EndCall(p, "dead") /\ UNCHANGED nsent
      BY <2>10 DEF Pop, Abandon
    <3>2. Running(p)
      BY <2>10, <1>p DEF Pop, At, Running
    <3>. QED  BY <3>1, <3>2, <1>p, StayFacts, EndFacts
  <2>. QED  BY <1>2, <2>1, <2>2, <2>3, <2>4, <2>5, <2>6, <2>7, <2>8, <2>9, <2>10
               DEF Proceed
<1>3. ASSUME NEW p \in Procs, Lock(p)
      PROVE  CallInv'
  <2>1. /\ pc[p] = "lock" /\ UNCHANGED <<call, val, nsent>>
        /\ pc' = [pc EXCEPT ![p] = IF Op(p) = "send" THEN "emplace" ELSE "test"]
    BY <1>3 DEF Lock, Goto, At
  <2>. QED
    BY <2>1, <1>p DEF CallInv, CallTypes, CallMatchesPc, Running, At, Op,
                      MutexInv, ControlTypes
<1>4. ASSUME NEW p \in Procs, Relocks(p)
      PROVE  CallInv'
  <2>1. \/ Goto(p, "test") /\ UNCHANGED <<call, val, nsent>>
        \/ EndCall(p, "idle") /\ UNCHANGED nsent
    BY <1>4 DEF Relocks, Relock, RelockIgnoresError, RelockThrows
  <2>2. Running(p)
    BY <1>4, <1>p DEF Relocks, Relock, RelockIgnoresError, RelockThrows, At, Running
  <2>. QED  BY <2>1, <2>2, <1>p, StayFacts, EndFacts
<1>5. ASSUME NEW p \in Procs, SpuriousWake(p)
      PROVE  CallInv'
  BY <1>5, <1>p, StayFacts DEF SpuriousWake, At, Running
<1>6. ASSUME NEW p \in Procs, TimeUp(p)
      PROVE  CallInv'
  <2>1. /\ pc[p] = "asleep" /\ UNCHANGED <<val, nsent>>
        /\ pc' = [pc EXCEPT ![p] = "relock"]
        /\ call' = [call EXCEPT ![p].late = TRUE]
    BY <1>6 DEF TimeUp, Goto, At
  <2>. QED
    BY <2>1, <1>p, ZenonT(60) DEF CallInv, CallTypes, CallMatchesPc, Running, At, Op,
                      MutexInv, ControlTypes
<1>7. ASSUME NEW p \in Procs, Die(p)
      PROVE  CallInv'
  BY <1>7, <1>p, EndFacts DEF Die, Abandon
<1>8. CASE UNCHANGED vars
  BY <1>8 DEF vars, CallInv, CallTypes, CallMatchesPc, Running, At, Op
<1>. QED  BY <1>1, <1>2, <1>3, <1>4, <1>5, <1>6, <1>7, <1>8 DEF Next

-----------------------------------------------------------------------------
(* The lists.                                                              *)

(* A value that some link of l has. *)
Holds(l, v) == \E f \in Fields, e \in Entities : l[f][e] = v

(* l comes from the links by stores to nodes and to the list c, of links   *)
(* that there are, of null, and of n.                                      *)
Follows(l, c, n) ==
    /\ l \in Links
    /\ \A d \in Lists \ {c} : l.nxt[d] = links.nxt[d]
    /\ \A f \in Fields, e \in Entities : l[f][e] \in {n, Null} \/ Holds(links, l[f][e])

(* The new node, before it is linked, and after any number of the stores.  *)
LEMMA PushFollows ==
    ASSUME MemoryInv, NEW c \in Lists, NEW n \in Nodes, NEW ws,
           LET all == PushBack(Constructed(links, n), c, n)
           IN  ws = all \/ \E k \in 0..Len(all) - 1 : ws = SubSeq(all, 1, k)
    PROVE  Follows(AfterStores(Constructed(links, n), ws), c, n)
<1>. DEFINE fresh == Constructed(links, n)
            t == LastNode(fresh, c)
            r == AfterStores(fresh, ws)
<1>1. n \in Entities /\ c \in Entities /\ links \in Links /\ n \notin Lists
  BY LinksAssumption DEF Entities, MemoryInv, MemoryTypes
<1>2. /\ fresh \in Links
      /\ \A f \in Fields, d \in Lists : fresh[f][d] = links[f][d]
      /\ \A f \in Fields, e \in Entities : fresh[f][e] \in {Null} \cup {links[f][e]}
  <2>. DEFINE V == {Null}
  <2>1. V \in SUBSET Targets
    BY DEF Targets
  <2>. DEFINE w == <<SetPre(n, Null), SetNxt(n, Null)>>
  <2>2. Within(w, n, V) /\ fresh = AfterStores(links, w)
    BY ConstructedWithin DEF Constructed
  <2>. HIDE DEF w, fresh, V
  <2>3. Touched(links, fresh, n, V)
    BY <1>1, <2>1, <2>2, WithinKeeps
  <2>. QED  BY <1>1, <2>3 DEF V, Touched
<1>. HIDE DEF fresh
<1>3. Within(ws, c, {n, t})
  <2>. DEFINE all == PushBack(fresh, c, n)
  <2>1. Within(all, c, {n, t})
    BY <1>2, PushBackWithin
  <2>2. ws = all \/ \E k \in 0..Len(all) - 1 : ws = SubSeq(all, 1, k)
    BY DEF fresh
  <2>3. Len(all) \in 0..3
    BY <2>1 DEF Within
  <2>. HIDE DEF all, t
  <2>4. ASSUME NEW k \in 0..Len(all) - 1, ws = SubSeq(all, 1, k)
        PROVE  Within(ws, c, {n, t})
    BY <2>1, <2>3, <2>4, PrefixWithin
  <2>. QED  BY <2>1, <2>2, <2>4
<1>4. t \in Targets /\ t = fresh["pre"][c]
  BY <1>1, <1>2 DEF Links, LastNode, Targets, Entities
<1>5. /\ r \in Links
      /\ \A f \in Fields, d \in Lists \ {c} : r[f][d] = fresh[f][d]
      /\ \A f \in Fields, e \in Entities : r[f][e] \in {n, t} \cup {fresh[f][e]}
  <2>1. {n, t} \in SUBSET Targets
    BY <1>4 DEF Targets
  <2>. HIDE DEF t
  <2>2. Touched(fresh, r, c, {n, t})
    BY <1>1, <1>2, <1>3, <2>1, WithinKeeps
  <2>. QED  BY <2>2 DEF Touched
<1>. HIDE DEF r, t
<1>6. \A f \in Fields, e \in Entities : fresh[f][e] = Null \/ Holds(links, fresh[f][e])
  BY <1>2 DEF Holds
<1>7. "nxt" \in Fields /\ "pre" \in Fields
  BY DEF Fields
<1>8. \A d \in Lists \ {c} : r["nxt"][d] = links["nxt"][d]
  BY <1>2, <1>5, <1>7
<1>9. \A f \in Fields, e \in Entities : r[f][e] \in {n, Null} \/ Holds(links, r[f][e])
  BY <1>1, <1>4, <1>5, <1>6, <1>7
<1>. QED  BY <1>5, <1>8, <1>9 DEF Follows, r, fresh

(* The first node, after any number of the stores that take it out.        *)
LEMMA PopFollows ==
    ASSUME MemoryInv, NEW c \in Lists, NEW n \in Nodes, NEW ws,
           LET all == Unlink(c, links.pre[n], links.nxt[n])
           IN  ws = all \/ \E k \in 0..Len(all) - 1 : ws = SubSeq(all, 1, k)
    PROVE  Follows(AfterStores(links, ws), c, Null)
<1>. DEFINE a == links["pre"][n]
            b == links["nxt"][n]
            r == AfterStores(links, ws)
<1>1. /\ n \in Entities /\ c \in Entities /\ links \in Links
      /\ "nxt" \in Fields /\ "pre" \in Fields
      /\ a \in Targets /\ b \in Targets
  BY DEF Entities, MemoryInv, MemoryTypes, Links, Targets, Fields
<1>2. Holds(links, a) /\ Holds(links, b)
  BY <1>1 DEF Holds
<1>. HIDE DEF a, b
<1>3. Within(ws, c, {a, b, Null})
  <2>. DEFINE all == Unlink(c, a, b)
  <2>1. Within(all, c, {a, b, Null})
    BY <1>1, UnlinkWithin
  <2>2. ws = all \/ \E k \in 0..Len(all) - 1 : ws = SubSeq(all, 1, k)
    BY DEF a, b
  <2>3. Len(all) \in 0..3
    BY <2>1 DEF Within
  <2>. HIDE DEF all
  <2>4. ASSUME NEW k \in 0..Len(all) - 1, ws = SubSeq(all, 1, k)
        PROVE  Within(ws, c, {a, b, Null})
    BY <2>1, <2>3, <2>4, PrefixWithin
  <2>. QED  BY <2>1, <2>2, <2>4
<1>4. /\ r \in Links
      /\ \A f \in Fields, d \in Lists \ {c} : r[f][d] = links[f][d]
      /\ \A f \in Fields, e \in Entities : r[f][e] \in {a, b, Null} \cup {links[f][e]}
  <2>1. {a, b, Null} \in SUBSET Targets
    BY <1>1 DEF Targets
  <2>2. Touched(links, r, c, {a, b, Null})
    BY <1>1, <1>3, <2>1, WithinKeeps
  <2>. QED  BY <2>2 DEF Touched
<1>. HIDE DEF r
<1>5. \A d \in Lists \ {c} : r["nxt"][d] = links["nxt"][d]
  BY <1>1, <1>4
<1>6. \A f \in Fields, e \in Entities : r[f][e] = Null \/ Holds(links, r[f][e])
  BY <1>2, <1>4 DEF Holds
<1>. QED  BY <1>4, <1>5, <1>6 DEF Follows, r

(* What a send and a receive do to the memory. *)
LEMMA EmplaceFacts ==
    ASSUME NEW p \in Procs, CallInv, MemoryInv, Emplace(p)
    PROVE  \E n \in Nodes :
              /\ Follows(links', call[p].ch, n)
              /\ data' = [data EXCEPT ![n] = val[p]]
              /\ used' = used \cup {n}
<1>. DEFINE n == CHOOSE m \in Nodes : m \notin used
            c == call[p].ch
            fresh == Constructed(links, n)
            all == PushBack(fresh, c, n)
<1>1. n \in Nodes
  BY DEF Emplace, MemoryInv, MemoryTypes
<1>2. c \in Lists
  BY DEF Emplace, At, Running, DeadPcs, CallInv, CallMatchesPc, Chans
<1>3. \E ws : /\ links' = AfterStores(fresh, ws)
              /\ ws = all \/ \E k \in 0..Len(all) - 1 : ws = SubSeq(all, 1, k)
  BY DEF Emplace
<1>4. data' = [data EXCEPT ![n] = val[p]] /\ used' = used \cup {n}
  BY DEF Emplace, Filled
<1>. HIDE DEF n, c
<1>5. Follows(links', c, n)
  BY <1>1, <1>2, <1>3, PushFollows
<1>. QED  BY <1>1, <1>4, <1>5 DEF c

LEMMA PopFacts ==
    ASSUME NEW p \in Procs, CallInv, MemoryInv, Pop(p)
    PROVE  /\ Follows(links', call[p].ch, Null)
           /\ data' = data /\ used' \subseteq used
           /\ FirstNode(links, call[p].ch) = Null => links' = links
<1>. DEFINE c == call[p].ch
            n == FirstNode(links, c)
            all == IF n = Null THEN <<>> ELSE Unlink(c, links.pre[n], links.nxt[n])
<1>1. c \in Lists
  BY DEF Pop, At, Running, DeadPcs, CallInv, CallMatchesPc, Chans
<1>2. n \in Targets /\ links \in Links
  BY <1>1, SMTT(40) DEF MemoryInv, MemoryTypes, Links, FirstNode, Targets
<1>3. \E ws : /\ links' = AfterStores(links, ws)
              /\ ws = all \/ \E k \in 0..Len(all) - 1 : ws = SubSeq(all, 1, k)
  BY DEF Pop
<1>4. data' = data /\ used' \subseteq used
  BY DEF Pop
<1>5. CASE n = Null
  <2>1. links' = AfterStores(links, <<>>)
    BY <1>3, <1>5
  <2>2. AfterStores(links, <<>>) = links
    BY AfterFew
  <2>3. Follows(links, c, Null)
    BY <1>2 DEF Follows, Holds
  <2>. QED  BY <1>4, <2>1, <2>2, <2>3
<1>6. CASE n # Null
  <2>1. n \in Nodes
    BY <1>2, <1>6 DEF Targets
  <2>. HIDE DEF n, c
  <2>2. Follows(links', c, Null)
    BY <1>1, <1>3, <1>6, <2>1, PopFollows
  <2>. QED  BY <1>4, <1>6, <2>2 DEF c, n
<1>. QED  BY <1>5, <1>6

(* Everything but a send and a receive leaves the memory alone. *)
LEMMA OtherSteps ==
    ASSUME [Next]_vars, \A p \in Procs : ~Emplace(p) /\ ~Pop(p)
    PROVE  UNCHANGED heapvars
BY DEF Next, Proceed, Relocks, Start, LockThrows, Unlock, EmplaceNoMemory, Notify,
       TestNonEmpty, TestGivesUp, Wait, ReadFront, Lock, Relock, RelockIgnoresError,
       RelockThrows, SpuriousWake, TimeUp, Die, vars, heapvars

LEMMA NextMemory == CallInv /\ MemoryInv /\ [Next]_vars => MemoryInv'
<1>. SUFFICES ASSUME CallInv, MemoryInv, [Next]_vars
              PROVE  MemoryInv'
  OBVIOUS
<1>1. ASSUME NEW p \in Procs, Emplace(p)
      PROVE  MemoryInv'
  <2>1. PICK n \in Nodes : /\ Follows(links', call[p].ch, n)
                           /\ data' = [data EXCEPT ![n] = val[p]]
                           /\ used' = used \cup {n}
    BY <1>1, EmplaceFacts
  <2>2. val[p] \in 0..MaxMsgs /\ val[p] # 0
    BY <1>1 DEF Emplace, CallInv, CallTypes, CallMatchesPc
  <2>3. MemoryTypes'
    BY <2>1, <2>2 DEF MemoryInv, MemoryTypes, Follows
  <2>4. ASSUME NEW f \in Fields, NEW e \in Entities, links'[f][e] # Null
        PROVE  data'[links'[f][e]] # 0
    <3>1. links'[f][e] \in Nodes
      BY <2>4, <2>3 DEF MemoryTypes, Links, Fields, Entities
    <3>2. links'[f][e] = n \/ data[links'[f][e]] # 0
      BY <2>1, <2>4 DEF Follows, Holds, MemoryInv, LinkedAreFilled
    <3>. QED  BY <2>1, <2>2, <3>1, <3>2 DEF MemoryInv, MemoryTypes
  <2>. QED  BY <2>3, <2>4 DEF MemoryInv, LinkedAreFilled
<1>2. ASSUME NEW p \in Procs, Pop(p)
      PROVE  MemoryInv'
  <2>1. Follows(links', call[p].ch, Null) /\ data' = data /\ used' \subseteq used
    BY <1>2, PopFacts
  <2>. QED
    BY <2>1 DEF Follows, Holds, MemoryInv, MemoryTypes, LinkedAreFilled
<1>3. CASE \A p \in Procs : ~Emplace(p) /\ ~Pop(p)
  BY <1>3, OtherSteps DEF heapvars, MemoryInv, MemoryTypes, LinkedAreFilled
<1>. QED  BY <1>1, <1>2, <1>3

-----------------------------------------------------------------------------
(* The logs.                                                               *)

LEMMA AppendTyped ==
    ASSUME NEW S, NEW log \in [Chans -> Seq(S)], NEW c, NEW m \in S
    PROVE  [log EXCEPT ![c] = Append(@, m)] \in [Chans -> Seq(S)]
<1>1. \A s \in Seq(S) : Append(s, m) \in Seq(S)
  OBVIOUS
<1>. DEFINE Logs == Seq(S)
<1>. HIDE DEF Logs
<1>2. \A d \in Chans : log[d] \in Logs /\ Append(log[d], m) \in Logs
  BY <1>1 DEF Logs
<1>3. [log EXCEPT ![c] = Append(@, m)] \in [Chans -> Logs]
  BY <1>2
<1>. QED  BY <1>3 DEF Logs

LEMMA NextLogs == CallInv /\ LogTypes /\ [Next]_vars => LogTypes'
<1>. SUFFICES ASSUME CallInv, LogTypes, [Next]_vars
              PROVE  LogTypes'
  OBVIOUS
<1>0. \A p \in Procs : val[p] # 0 => val[p] \in 1..MaxMsgs
  BY ConstAssumption DEF CallInv, CallTypes
<1>1. ASSUME NEW p \in Procs, Emplace(p)
      PROVE  LogTypes'
  <2>1. /\ \/ accepted' = [accepted EXCEPT ![call[p].ch] = Append(@, val[p])]
           \/ accepted' = accepted
        /\ delivered' = delivered
    BY <1>1 DEF Emplace
  <2>2. torn' \in BOOLEAN
    BY <1>1 DEF Emplace, LogTypes
  <2>3. val[p] \in 1..MaxMsgs
    BY <1>0, <1>1 DEF Emplace, CallInv, CallMatchesPc
  <2>4. accepted' \in [Chans -> Seq(1..MaxMsgs)]
    <3>. DEFINE S == 1..MaxMsgs
    <3>1. accepted \in [Chans -> Seq(S)] /\ val[p] \in S
      BY <2>3 DEF LogTypes
    <3>. HIDE DEF S
    <3>2. [accepted EXCEPT ![call[p].ch] = Append(@, val[p])] \in [Chans -> Seq(S)]
      BY <3>1, AppendTyped
    <3>. QED  BY <2>1, <3>1, <3>2 DEF S
  <2>. QED  BY <2>1, <2>2, <2>4 DEF LogTypes
<1>2. ASSUME NEW p \in Procs, Pop(p)
      PROVE  LogTypes'
  <2>1. /\ \/ delivered' = [delivered EXCEPT ![call[p].ch] = Append(@, val[p])]
           \/ delivered' = delivered
        /\ accepted' = accepted
    BY <1>2 DEF Pop, Delivered
  <2>2. torn' \in BOOLEAN
    BY <1>2 DEF Pop, LogTypes
  <2>3. val[p] \in 1..MaxMsgs
    BY <1>0, <1>2 DEF Pop, CallInv, CallMatchesPc
  <2>4. delivered' \in [Chans -> Seq(1..MaxMsgs)]
    <3>. DEFINE S == 1..MaxMsgs
    <3>1. delivered \in [Chans -> Seq(S)] /\ val[p] \in S
      BY <2>3 DEF LogTypes
    <3>. HIDE DEF S
    <3>2. [delivered EXCEPT ![call[p].ch] = Append(@, val[p])] \in [Chans -> Seq(S)]
      BY <3>1, AppendTyped
    <3>. QED  BY <2>1, <3>1, <3>2 DEF S
  <2>. QED  BY <2>1, <2>2, <2>4 DEF LogTypes
<1>3. CASE \A p \in Procs : ~Emplace(p) /\ ~Pop(p)
  <2>1. UNCHANGED <<accepted, delivered, torn>>
    BY <1>3 DEF Next, Proceed, Relocks, Start, LockThrows, Unlock, EmplaceNoMemory,
                Notify, TestNonEmpty, TestGivesUp, Wait, ReadFront, Lock, Relock,
                RelockIgnoresError, RelockThrows, SpuriousWake, TimeUp, Die, vars, logs
  <2>. QED  BY <2>1 DEF LogTypes
<1>. QED  BY <1>1, <1>2, <1>3

-----------------------------------------------------------------------------
(* The wake-ups.                                                           *)

(* A sender to the channel that p waits for is still to notify, or died.   *)
Waker(q, p) ==
    \/ pc[q] \in {"unlock", "notify"} /\ Op(q) = "send" /\ call[q].ch = call[p].ch
    \/ At(q, "dead_silent") /\ call[q].ch = call[p].ch

StepOf(r) ==
    \/ \E op \in Ops, c \in Chans : Start(r, op, c)
    \/ Proceed(r) \/ Lock(r) \/ Relocks(r)
    \/ SpuriousWake(r) \/ TimeUp(r) \/ Die(r)

(* But for notify_all, a step moves one thread. *)
LEMMA OneMoves ==
    ASSUME MutexInv, CallInv, NEW r \in Procs, StepOf(r), ~Notify(r),
           NEW q \in Procs \ {r}
    PROVE  pc'[q] = pc[q] /\ call'[q] = call[q]
<1>1. \E l : pc' = [pc EXCEPT ![r] = l]
  BY DEF StepOf, Proceed, Relocks, Start, LockThrows, Unlock, Emplace, EmplaceNoMemory,
         TestNonEmpty, TestGivesUp, Wait, ReadFront, Pop, Lock, Relock,
         RelockIgnoresError, RelockThrows, SpuriousWake, TimeUp, Die, Goto, EndCall,
         Abandon
<1>2. \E c : call' = [call EXCEPT ![r] = c]
  <2>1. call = [call EXCEPT ![r] = call[r]]
    BY DEF CallInv, CallTypes
  <2>2. \/ UNCHANGED call \/ \E l : EndCall(r, l)
        \/ TimeUp(r) \/ \E op, c : Start(r, op, c)
    BY DEF StepOf, Proceed, Relocks, LockThrows, Unlock, Emplace, EmplaceNoMemory,
           TestNonEmpty, TestGivesUp, Wait, ReadFront, Pop, Lock, Relock,
           RelockIgnoresError, RelockThrows, SpuriousWake, Die, Abandon
  <2>. QED  BY <2>1, <2>2 DEF EndCall, TimeUp, Start
<1>. QED  BY <1>1, <1>2, SMTT(40) DEF MutexInv, ControlTypes, CallInv, CallTypes

(* Who is asleep and stays so is not awake to move, and nobody notifies. *)
LEMMA SleeperRests ==
    ASSUME MutexInv, CallInv, NEW r \in Procs, StepOf(r), NEW p \in Procs,
           At(p, "asleep"), At(p, "asleep")'
    PROVE  ~Notify(r) /\ r # p
<1>1. ~Notify(r)
  BY DEF Notify, At
<1>2. r # p
  <2>. SUFFICES ASSUME r = p PROVE FALSE
    BY SMTT(40)
  <2>1. SpuriousWake(p) \/ TimeUp(p) \/ Die(p)
    BY DEF At, StepOf, Proceed, Relocks, Start, LockThrows, Unlock, Emplace,
           EmplaceNoMemory, Notify, TestNonEmpty, TestGivesUp, Wait, ReadFront, Pop,
           Lock, Relock, RelockIgnoresError, RelockThrows
  <2>2. pc'[p] \in {"relock", "dead", "dead_silent"}
    BY <2>1 DEF SpuriousWake, TimeUp, Die, Abandon, EndCall, Goto, MutexInv, ControlTypes
  <2>. QED  BY <2>2 DEF At
<1>. QED  BY <1>1, <1>2

(* A waker comes to its notify_all, or dies on the way. *)
LEMMA WakerStays ==
    ASSUME MutexInv, CallInv, NEW r \in Procs, StepOf(r),
           NEW p \in Procs, NEW q \in Procs,
           At(p, "asleep"), At(p, "asleep")', Waker(q, p)
    PROVE  Waker(q, p)'
<1>1. ~Notify(r) /\ r # p
  BY SleeperRests
<1>2. call'[p] = call[p]
  BY <1>1, OneMoves
<1>3. CASE r # q
  <2>1. pc'[q] = pc[q] /\ call'[q] = call[q]
    BY <1>1, <1>3, OneMoves
  <2>. QED  BY <1>2, <2>1 DEF Waker, At, Op
<1>4. CASE r = q
  <2>1. pc[q] \in {"unlock", "notify", "dead_silent"}
    BY SMTT(40) DEF Waker, At
  <2>2. Unlock(q) \/ Die(q)
    BY <1>1, <1>4, <2>1
    DEF At, StepOf, Proceed, Relocks, Start, LockThrows, Emplace, EmplaceNoMemory,
        Notify, TestNonEmpty, TestGivesUp, Wait, ReadFront, Pop, Lock, Relock,
        RelockIgnoresError, RelockThrows, SpuriousWake, TimeUp
  <2>3. CASE Unlock(q)
    <3>1. Op(q) = "send" /\ call[q].ch = call[p].ch
      BY <2>3 DEF Waker, At, Unlock
    <3>2. pc'[q] = "notify" /\ call'[q] = call[q]
      BY <2>3, <3>1 DEF Unlock, Goto, MutexInv, ControlTypes
    <3>. QED  BY <1>2, <3>1, <3>2 DEF Waker, Op
  <2>4. CASE Die(q)
    <3>1. Op(q) = "send" /\ pc[q] \in {"unlock", "notify"}
      BY <2>4 DEF Waker, At, Die, DeadPcs
    <3>2. pc'[q] = "dead_silent" /\ call'[q].ch = call[q].ch
      BY <2>4, <3>1 DEF Die, Abandon, EndCall, NoCall, Goto, MutexInv, ControlTypes,
                        CallInv, CallTypes
    <3>3. call[q].ch = call[p].ch
      BY <2>4 DEF Waker, At, Die, DeadPcs
    <3>. QED  BY <1>2, <3>2, <3>3 DEF Waker, At
  <2>. QED  BY <2>2, <2>3, <2>4
<1>. QED  BY <1>3, <1>4

(* The list of a sleeper that was empty gets a message only from a waker. *)
LEMMA MessageHasWaker ==
    ASSUME MutexInv, CallInv, MemoryInv, NEW r \in Procs, StepOf(r), NEW p \in Procs,
           At(p, "asleep"), At(p, "asleep")', NoMessage(p), ~NoMessage(p)'
    PROVE  Waker(r, p)'
<1>. DEFINE c == call[p].ch
<1>1. /\ ~Notify(r) /\ r # p
      /\ call'[p] = call[p]
  BY SleeperRests, OneMoves
<1>2. c \in Lists
  BY DEF At, Running, DeadPcs, CallInv, CallMatchesPc, Chans
<1>3. links.nxt[c] = Null /\ links'.nxt[c] # Null
  BY <1>1 DEF NoMessage, IsEmpty, FirstNode
<1>4. CASE Emplace(r)
  <2>1. \E n \in Nodes : Follows(links', call[r].ch, n)
    BY <1>4, EmplaceFacts
  <2>2. call[r].ch = c
    BY <1>2, <1>3, <2>1 DEF Follows
  <2>3. Op(r) = "send"
    BY <1>4 DEF Emplace, CallInv, CallMatchesPc
  <2>4. \/ pc'[r] = "unlock" /\ call' = call
        \/ pc'[r] = "dead_silent" /\ call'[r].ch = call[r].ch
    BY <1>4 DEF Emplace, Abandon, EndCall, NoCall, Goto, MutexInv, ControlTypes,
                CallInv, CallTypes
  <2>. QED  BY <1>1, <2>2, <2>3, <2>4 DEF Waker, At, Op
<1>5. CASE Pop(r)
  <2>1. /\ Follows(links', call[r].ch, Null)
        /\ FirstNode(links, call[r].ch) = Null => links' = links
    BY <1>5, PopFacts
  <2>2. call[r].ch = c
    BY <1>2, <1>3, <2>1 DEF Follows
  <2>. QED  BY <1>3, <2>1, <2>2 DEF FirstNode
<1>6. CASE ~Emplace(r) /\ ~Pop(r)
  <2>1. UNCHANGED heapvars
    BY <1>6 DEF StepOf, Proceed, Relocks, Start, LockThrows, Unlock, EmplaceNoMemory,
                Notify, TestNonEmpty, TestGivesUp, Wait, ReadFront, Lock, Relock,
                RelockIgnoresError, RelockThrows, SpuriousWake, TimeUp, Die, heapvars
  <2>. QED  BY <1>3, <2>1 DEF heapvars
<1>. QED  BY <1>4, <1>5, <1>6

(* A thread goes to sleep only when its list is empty. *)
LEMMA SleepsOnEmpty ==
    ASSUME MutexInv, CallInv, NEW r \in Procs, StepOf(r), NEW p \in Procs,
           ~At(p, "asleep"), At(p, "asleep")'
    PROVE  NoMessage(p)'
<1>1. ~Notify(r)
  BY DEF Notify, At, MutexInv, ControlTypes
<1>2. r = p
  BY <1>1, OneMoves DEF At
<1>3. Wait(p)
  <2>1. Wait(p) \/ \E l \in Pcs \ {"asleep"} : pc' = [pc EXCEPT ![p] = l]
    BY <1>1, <1>2
    DEF StepOf, Proceed, Relocks, Start, LockThrows, Unlock, Emplace, EmplaceNoMemory,
        TestNonEmpty, TestGivesUp, ReadFront, Pop, Lock, Relock, RelockIgnoresError,
        RelockThrows, SpuriousWake, TimeUp, Die, Goto, EndCall, Abandon, Pcs, InsidePcs,
        DeadPcs
  <2>. QED  BY <2>1, SMTT(40) DEF At, MutexInv, ControlTypes
<1>4. UNCHANGED <<call, links>> /\ NoMessage(p)
  BY <1>3 DEF Wait, heapvars
<1>. QED  BY <1>4 DEF NoMessage

LEMMA NextWakeup ==
    MutexInv /\ CallInv /\ MemoryInv /\ NoLostWakeup /\ [Next]_vars => NoLostWakeup'
<1>. SUFFICES ASSUME MutexInv, CallInv, MemoryInv, NoLostWakeup, [Next]_vars
              PROVE  NoLostWakeup'
  OBVIOUS
<1>1. CASE UNCHANGED vars
  BY <1>1 DEF vars, NoLostWakeup, At, NoMessage, Op
<1>2. CASE Next
  <2>1. PICK r \in Procs : StepOf(r)
    BY <1>2 DEF Next, StepOf
  <2>. SUFFICES ASSUME NEW p \in Procs, At(p, "asleep")', ~NoMessage(p)'
                PROVE  \E q \in Procs : Waker(q, p)'
    BY DEF NoLostWakeup, Waker, Op, At
  <2>2. At(p, "asleep")
    BY <2>1, SleepsOnEmpty
  <2>3. CASE NoMessage(p)
    BY <2>1, <2>2, <2>3, MessageHasWaker
  <2>4. CASE ~NoMessage(p)
    <3>1. PICK q \in Procs : Waker(q, p)
      BY <2>2, <2>4 DEF NoLostWakeup, Waker
    <3>. QED  BY <2>1, <2>2, <3>1, WakerStays
  <2>. QED  BY <2>3, <2>4
<1>. QED  BY <1>1, <1>2

-----------------------------------------------------------------------------
LEMMA NextInv == IInv /\ [Next]_vars => IInv'
BY NextMutex, NextCalls, NextMemory, NextLogs, NextWakeup DEF IInv

(* Every variable keeps its type, whichever thread dies amid whichever     *)
(* stores: a link leads to a node or nowhere, and what send, receive and   *)
(* the logs pass on are messages (ipsm_malloc.cpp:137-217).                *)
THEOREM TypeCorrect == Spec => []TypeOK
<1>1. IInv => TypeOK
  BY DEF IInv, MutexInv, ControlTypes, CallInv, CallTypes, MemoryInv, MemoryTypes,
         LogTypes, TypeOK
<1>. QED  BY InitInv, NextInv, <1>1, PTL DEF Spec

(* Nobody sleeps on a message that nobody will tell of, with any number of *)
(* senders and receivers, spurious wakes, timeouts and deaths              *)
(* (ipsm_malloc.cpp:148-152).                                              *)
THEOREM NobodySleepsOnAMessage == Spec => []NoLostWakeup
<1>1. IInv => NoLostWakeup
  BY DEF IInv
<1>. QED  BY InitInv, NextInv, <1>1, PTL DEF Spec

-----------------------------------------------------------------------------
(* Each channel is a queue, and loses no node.                             *)

(* No message is given to two sends, nor accepted twice. *)
Pending(p) == pc[p] \in {"lock", "emplace"} /\ Op(p) = "send"
MessagesDiffer ==
    /\ \A c \in Chans : \A i \in 1..Len(accepted[c]) : accepted[c][i] \in 1..nsent
    /\ \A c, d \in Chans : \A i \in 1..Len(accepted[c]), j \in 1..Len(accepted[d]) :
          accepted[c][i] = accepted[d][j] => c = d /\ i = j
    /\ \A p \in Procs : Pending(p) =>
          /\ val[p] \in 1..nsent
          /\ \A c \in Chans : \A i \in 1..Len(accepted[c]) : accepted[c][i] # val[p]
          /\ \A q \in Procs \ {p} : Pending(q) => val[q] # val[p]

(* Nobody has died: nothing is torn and the mutex was never left. *)
NobodyDead == \A p \in Procs : pc[p] \notin DeadPcs
UnharmedInv == NobodyDead => mstate = "ok" /\ ~torn

Promised == mstate # "lost" /\ ~torn

(* Until it is popped, the front stays what was read of it. *)
ReadIsFront ==
    Promised => \A p \in Procs : At(p, "pop") =>
        ~NoMessage(p) /\ val[p] = data[FirstNode(links, call[p].ch)]

(* What the nodes s hold, by the data f. *)
HeldIn(f, s) == [i \in 1..Len(s) |-> f[s[i]]]

(* s: the nodes of each list. *)
Whole(s) ==
    /\ s \in [Chans -> Seq(Nodes)]
    /\ \A c \in Chans : Chain(links, c, s[c]) /\ In(s[c]) \subseteq used
    /\ \A c, d \in Chans : c # d => In(s[c]) \cap In(s[d]) = {}
    /\ \A c \in Chans : accepted[c] = delivered[c] \o HeldIn(data, s[c])
    /\ NobodyDead => used = UNION {In(s[c]) : c \in Chans}

ListsAreWhole == Promised => \E s : Whole(s)

FifoInv == MessagesDiffer /\ UnharmedInv /\ ReadIsFront /\ ListsAreWhole

-----------------------------------------------------------------------------
(* What a step does to the threads and to the promise.                     *)

LEMMA OneWorks ==
    ASSUME MutexInv, CallInv, NEW r \in Procs, StepOf(r), NEW q \in Procs \ {r}
    PROVE  /\ call'[q] = call[q] /\ val'[q] = val[q]
           /\ pc'[q] = pc[q] \/ (pc[q] = "asleep" /\ pc'[q] = "relock")
<1>. USE DEF MutexInv, ControlTypes, CallInv, CallTypes
<1>1. \E v : val' = [val EXCEPT ![r] = v]
  <2>1. val = [val EXCEPT ![r] = val[r]]
    BY SMTT(40)
  <2>2. \/ UNCHANGED val \/ \E v : val' = [val EXCEPT ![r] = v]
    BY DEF StepOf, Proceed, Relocks, LockThrows, Unlock, Emplace, EmplaceNoMemory,
           TestNonEmpty, TestGivesUp, Wait, ReadFront, Pop, Lock, Relock, Notify, Start,
           RelockIgnoresError, RelockThrows, SpuriousWake, TimeUp, Die, Abandon, EndCall
  <2>. QED  BY <2>1, <2>2
<1>2. CASE Notify(r)
  BY <1>1, <1>2 DEF Notify, At
<1>3. CASE ~Notify(r)
  BY <1>1, <1>3, OneMoves
<1>. QED  BY <1>2, <1>3

(* Who is before the list with a message was there, or has just begun.     *)
LEMMA PendingFacts ==
    ASSUME MutexInv, CallInv, NEW r \in Procs, StepOf(r), NEW q \in Procs, Pending(q)'
    PROVE  \/ Pending(q) /\ val'[q] = val[q] /\ ~(q = r /\ Emplace(r))
           \/ q = r /\ \E c \in Chans : Start(r, "send", c)
<1>1. CASE q # r
  BY <1>1, OneWorks DEF Pending, Op
<1>2. CASE q = r
  <2>1. \/ Lock(r) \/ \E op \in Ops, c \in Chans : Start(r, op, c)
        \/ \E l \in {"idle", "notify", "unlock", "relock", "front", "asleep", "test", "pop",
                     "dead", "dead_silent"} : pc' = [pc EXCEPT ![r] = l]
        \/ Notify(r)
    BY DEF StepOf, Proceed, Relocks, LockThrows, Unlock, Emplace, EmplaceNoMemory,
           TestNonEmpty, TestGivesUp, Wait, ReadFront, Pop, Relock, DeadPcs,
           RelockIgnoresError, RelockThrows, SpuriousWake, TimeUp, Die, Abandon, EndCall,
           Goto
  <2>2. CASE Lock(r)
    BY <1>2, <2>2 DEF Lock, Pending, Op, At, Emplace
  <2>3. CASE \E op \in Ops, c \in Chans : Start(r, op, c)
    <3>1. PICK op \in Ops, c \in Chans : Start(r, op, c)
      BY <2>3
    <3>2. call'[r].op = op
      BY <3>1 DEF Start, CallInv, CallTypes
    <3>. QED  BY <1>2, <3>1, <3>2 DEF Pending, Op
  <2>4. CASE Notify(r)
    BY <1>2, <2>4 DEF Notify, Pending
  <2>5. CASE \E l \in {"idle", "notify", "unlock", "relock", "front", "asleep", "test",
                       "pop", "dead", "dead_silent"} : pc' = [pc EXCEPT ![r] = l]
    BY <1>2, <2>5, SMTT(40) DEF Pending, MutexInv, ControlTypes
  <2>. QED  BY <2>1, <2>2, <2>3, <2>4, <2>5, SMTT(40)
<1>. QED  BY <1>1, <1>2

(* The dead stay dead. *)
LEMMA DeadStay ==
    ASSUME MutexInv, CallInv, NEW r \in Procs, StepOf(r), NobodyDead'
    PROVE  NobodyDead
<1>. SUFFICES ASSUME NEW q \in Procs, pc[q] \in DeadPcs PROVE FALSE
  BY DEF NobodyDead
<1>1. pc'[q] \notin DeadPcs
  BY DEF NobodyDead
<1>2. q = r
  BY <1>1, OneWorks DEF DeadPcs
<1>. QED
  BY <1>2 DEF StepOf, Start, Proceed, Relocks, LockThrows, Unlock, Emplace,
     EmplaceNoMemory, TestNonEmpty, TestGivesUp, Wait, ReadFront, Pop, Relock, DeadPcs,
     Lock, Notify, RelockIgnoresError, RelockThrows, SpuriousWake, TimeUp, Die, At

(* What was lost stays lost, and what is torn stays torn.                  *)
LEMMA PromisedBefore ==
    ASSUME MutexInv, NEW r \in Procs, StepOf(r), Promised'
    PROVE  Promised
<1>1. torn => torn'
  BY DEF StepOf, Start, Proceed, Relocks, LockThrows, Unlock, Emplace, EmplaceNoMemory,
     TestNonEmpty, TestGivesUp, Wait, ReadFront, Pop, Relock, Lock, Notify,
     RelockIgnoresError, RelockThrows, SpuriousWake, TimeUp, Die, logs
<1>2. mstate = "lost" => mstate' = "lost"
  <2>. SUFFICES ASSUME mstate = "lost" PROVE mstate' = "lost"
    OBVIOUS
  <2>1. owner # r
    BY ConstAssumption DEF MutexInv, LostIsFree
  <2>. QED
    BY <2>1 DEF StepOf, Start, Proceed, Relocks, LockThrows, Unlock, Emplace,
       EmplaceNoMemory, TestNonEmpty, TestGivesUp, Wait, ReadFront, Pop, Relock, Lock,
       Acquire, Release, Abandon, Notify, RelockIgnoresError, RelockThrows, SpuriousWake,
       TimeUp, Die
<1>. QED  BY <1>1, <1>2, SMTT(40) DEF Promised

LEMMA NextUnharmed ==
    ASSUME MutexInv, CallInv, UnharmedInv, NEW r \in Procs, StepOf(r)
    PROVE  UnharmedInv'
<1>. SUFFICES ASSUME NobodyDead'
              PROVE  mstate' = "ok" /\ ~torn'
  BY DEF UnharmedInv
<1>1. mstate = "ok" /\ ~torn
  BY DeadStay DEF UnharmedInv
<1>2. ASSUME NEW l \in DeadPcs, Abandon(r, l)
      PROVE  FALSE
  BY <1>2 DEF Abandon, EndCall, Goto, NobodyDead, MutexInv, ControlTypes
<1>3. "dead" \in DeadPcs /\ "dead_silent" \in DeadPcs
  BY DEF DeadPcs
<1>4. ~Die(r) /\ ~EmplaceNoMemory(r)
  BY <1>2, <1>3 DEF Die, EmplaceNoMemory
<1>5. CASE Emplace(r) \/ Pop(r)
  BY <1>1, <1>2, <1>3, <1>5 DEF Emplace, Pop
<1>6. CASE ~Emplace(r) /\ ~Pop(r)
  <2>1. torn' = torn
    BY <1>6 DEF StepOf, Start, Proceed, Relocks, LockThrows, Unlock, EmplaceNoMemory,
       TestNonEmpty, TestGivesUp, Wait, ReadFront, Relock, Lock, Notify,
       RelockIgnoresError, RelockThrows, SpuriousWake, TimeUp, Die, logs
  <2>2. mstate' = "ok"
    BY <1>1, <1>2, <1>3, <1>4, <1>6 DEF StepOf, Start, Proceed, Relocks, LockThrows,
       Unlock, TestNonEmpty, TestGivesUp, Wait, ReadFront, Relock, Lock, Acquire, Release,
       Notify, RelockIgnoresError, RelockThrows, SpuriousWake, TimeUp
  <2>. QED  BY <1>1, <2>1, <2>2
<1>. QED  BY <1>5, <1>6

-----------------------------------------------------------------------------
(* The messages differ.                                                    *)

LEMMA LogAppended ==
    ASSUME LogTypes, NEW c \in Chans, NEW m \in 1..MaxMsgs,
           accepted' = [accepted EXCEPT ![c] = Append(@, m)]
    PROVE  \A d \in Chans : \A i \in 1..Len(accepted'[d]) :
              \/ i \in 1..Len(accepted[d]) /\ accepted'[d][i] = accepted[d][i]
              \/ d = c /\ i = Len(accepted[c]) + 1 /\ accepted'[d][i] = m
<1>. TAKE d \in Chans
<1>. TAKE i \in 1..Len(accepted'[d])
<1>1. accepted[d] \in Seq(1..MaxMsgs) /\ accepted[c] \in Seq(1..MaxMsgs)
  BY DEF LogTypes
<1>2. CASE d # c
  <2>1. accepted'[d] = accepted[d]
    BY <1>2 DEF LogTypes
  <2>. QED  BY <2>1
<1>3. CASE d = c
  <2>. DEFINE a == accepted[c]
  <2>1. accepted'[d] = Append(a, m)
    BY <1>3 DEF LogTypes
  <2>. HIDE DEF a
  <2>2. a \in Seq(1..MaxMsgs)
    BY <1>1 DEF a
  <2>3. \/ i \in 1..Len(a) /\ Append(a, m)[i] = a[i]
        \/ i = Len(a) + 1 /\ Append(a, m)[i] = m
    <3>1. i \in 1..(Len(a) + 1)
      BY <2>1, <2>2
    <3>2. Append(a, m) \in Seq(1..MaxMsgs) /\ Len(a) \in Nat
      BY <2>2
    <3>3. i \in 1..Len(a) => Append(a, m)[i] = a[i]
      BY <2>2
    <3>4. Append(a, m)[Len(a) + 1] = m
      BY <2>2
    <3>5. i \in 1..Len(a) \/ i = Len(a) + 1
      BY <3>1, <3>2
    <3>. QED  BY ONLY <3>3, <3>4, <3>5
  <2>. QED  BY <1>3, <2>1, <2>3 DEF a
<1>. QED  BY <1>2, <1>3

LEMMA NextDiffer ==
    ASSUME MutexInv, CallInv, LogTypes, MessagesDiffer, NEW r \in Procs, StepOf(r)
    PROVE  MessagesDiffer'
<1>0. nsent \in Nat /\ MaxMsgs \in Nat /\ nsent <= MaxMsgs
  BY ConstAssumption DEF CallInv, CallTypes
<1>1. CASE \E c \in Chans : Start(r, "send", c)
  <2>1. /\ nsent' = nsent + 1 /\ accepted' = accepted
        /\ val' = [val EXCEPT ![r] = nsent + 1]
    BY <1>1 DEF Start
  <2>2. ~Pending(r) /\ ~Emplace(r)
    BY <1>1 DEF Start, Pending, Emplace, At
  <2>3. val'[r] = nsent + 1
    BY <2>1 DEF CallInv, CallTypes
  <2>4. \A q \in Procs \ {r} : Pending(q)' => Pending(q) /\ val'[q] = val[q]
    BY PendingFacts
  <2>. QED  BY <1>0, <2>1, <2>3, <2>4, SMTT(40) DEF MessagesDiffer
<1>2. CASE Emplace(r) /\ accepted' # accepted
  <2>1. /\ nsent' = nsent
        /\ accepted' = [accepted EXCEPT ![call[r].ch] = Append(@, val[r])]
    BY <1>2 DEF Emplace
  <2>2. Pending(r) /\ call[r].ch \in Chans
    BY <1>2 DEF Emplace, Pending, CallInv, CallMatchesPc, At, Running, DeadPcs
  <2>3. \A q \in Procs : Pending(q)' => q # r /\ Pending(q) /\ val'[q] = val[q]
    BY <1>2, PendingFacts DEF Emplace, Start, At
  <2>4. val[r] \in 1..MaxMsgs
    BY <1>0, <2>2 DEF MessagesDiffer
  <2>5. \A d \in Chans : \A i \in 1..Len(accepted'[d]) :
              \/ i \in 1..Len(accepted[d]) /\ accepted'[d][i] = accepted[d][i]
              \/ d = call[r].ch /\ i = Len(accepted[d]) + 1 /\ accepted'[d][i] = val[r]
    BY <2>1, <2>2, <2>4, LogAppended
  <2>6. \A d \in Chans : \A i \in 1..Len(accepted[d]) : accepted[d][i] # val[r]
    BY <2>2 DEF MessagesDiffer
  <2>7. \A d \in Chans : \A i \in 1..Len(accepted'[d]) : accepted'[d][i] \in 1..nsent'
    BY <2>1, <2>2, <2>5 DEF MessagesDiffer
  <2>8. \A c, d \in Chans : \A i \in 1..Len(accepted'[c]), j \in 1..Len(accepted'[d]) :
           accepted'[c][i] = accepted'[d][j] => c = d /\ i = j
    <3>. TAKE c, d \in Chans
    <3>. TAKE i \in 1..Len(accepted'[c]), j \in 1..Len(accepted'[d])
    <3>. HAVE accepted'[c][i] = accepted'[d][j]
    <3>1. \/ i \in 1..Len(accepted[c]) /\ accepted'[c][i] = accepted[c][i]
          \/ c = call[r].ch /\ i = Len(accepted[c]) + 1 /\ accepted'[c][i] = val[r]
      BY <2>5
    <3>2. \/ j \in 1..Len(accepted[d]) /\ accepted'[d][j] = accepted[d][j]
          \/ d = call[r].ch /\ j = Len(accepted[d]) + 1 /\ accepted'[d][j] = val[r]
      BY <2>5
    <3>. QED  BY <2>6, <3>1, <3>2 DEF MessagesDiffer
  <2>9. ASSUME NEW p \in Procs, Pending(p)'
        PROVE  /\ val'[p] \in 1..nsent'
               /\ \A c \in Chans : \A i \in 1..Len(accepted'[c]) : accepted'[c][i] # val'[p]
               /\ \A q \in Procs \ {p} : Pending(q)' => val'[q] # val'[p]
    <3>1. p # r /\ Pending(p) /\ val'[p] = val[p]
      BY <2>3, <2>9
    <3>2. val[p] # val[r]
      BY <2>2, <3>1 DEF MessagesDiffer
    <3>. QED  BY <2>1, <2>3, <2>5, <3>1, <3>2 DEF MessagesDiffer
  <2>. QED  BY <2>7, <2>8, <2>9 DEF MessagesDiffer
<1>3. CASE accepted' = accepted /\ ~\E c \in Chans : Start(r, "send", c)
  <2>1. \A q \in Procs : Pending(q)' => Pending(q) /\ val'[q] = val[q]
    BY <1>3, PendingFacts, SMTT(40)
  <2>2. nsent' = nsent
    BY <1>3 DEF StepOf, Start, Proceed, Relocks, LockThrows, Unlock, Emplace,
     EmplaceNoMemory, TestNonEmpty, TestGivesUp, Wait, ReadFront, Pop, Relock, Lock, Notify,
     RelockIgnoresError, RelockThrows, SpuriousWake, TimeUp, Die, logs
  <2>. QED  BY <1>3, <2>1, <2>2 DEF MessagesDiffer
<1>4. Emplace(r) \/ accepted' = accepted
  BY DEF StepOf, Start, Proceed, Relocks, LockThrows, Unlock, EmplaceNoMemory,
     TestNonEmpty, TestGivesUp, Wait, ReadFront, Pop, Relock, Lock, Notify,
     RelockIgnoresError, RelockThrows, SpuriousWake, TimeUp, Die, logs
<1>. QED  BY <1>1, <1>2, <1>3, <1>4

(* So a list holds no more messages than there are. *)
LEMMA LogsAreBounded ==
    ASSUME CallInv, LogTypes, MessagesDiffer, NEW c \in Chans
    PROVE  Len(accepted[c]) <= MaxMsgs
<1>. DEFINE a == accepted[c]  n == Len(a)
<1>1. a \in Seq(1..MaxMsgs) /\ MaxMsgs \in Nat
  BY ConstAssumption DEF LogTypes
<1>. HIDE DEF a
<1>2. a \in [1..n -> 1..MaxMsgs] /\ n \in Nat
  BY <1>1
<1>3. \A i, j \in 1..n : a[i] = a[j] => i = j
  BY DEF MessagesDiffer, a
<1>4. a \in Injection(1..n, 1..MaxMsgs)
  <2>. HIDE DEF n
  <2>. QED  BY <1>2, <1>3 DEF Injection, IsInjective
<1>5. IsFiniteSet(1..MaxMsgs) /\ Cardinality(1..MaxMsgs) = MaxMsgs
  <2>1. Cardinality(1..MaxMsgs) = IF 1 > MaxMsgs THEN 0 ELSE MaxMsgs - 1 + 1
    BY <1>1, FS_Interval
  <2>. QED  BY <1>1, <2>1, FS_Interval
<1>6. Cardinality(1..n) = n
  <2>1. Cardinality(1..n) = IF 1 > n THEN 0 ELSE n - 1 + 1
    BY <1>2, FS_Interval, SMTT(40)
  <2>. QED  BY <1>2, <2>1
<1>7. Cardinality(1..n) <= Cardinality(1..MaxMsgs)
  BY <1>4, <1>5, FS_Injection
<1>. QED  BY <1>5, <1>6, <1>7 DEF a

-----------------------------------------------------------------------------
(* What a receiver has read is still the front when it pops.               *)

LEMMA NextRead ==
    ASSUME MutexInv, CallInv, ReadIsFront, NEW r \in Procs, StepOf(r)
    PROVE  ReadIsFront'
<1>. SUFFICES ASSUME Promised', NEW q \in Procs, At(q, "pop")'
              PROVE  /\ links'.nxt[call'[q].ch] # Null
                     /\ val'[q] = data'[links'.nxt[call'[q].ch]]
  BY DEF ReadIsFront, NoMessage, IsEmpty, FirstNode
<1>1. Promised
  BY PromisedBefore
<1>2. CASE q = r
  <2>1. \/ ReadFront(r) /\ ~NoMessage(r)
        \/ \E l \in Pcs \ {"pop"} : pc' = [pc EXCEPT ![r] = l]
        \/ Notify(r)
    BY DEF StepOf, Proceed, Relocks, LockThrows, Unlock, Emplace, EmplaceNoMemory,
           TestNonEmpty, TestGivesUp, Wait, ReadFront, Pop, Relock, DeadPcs, Lock, Start,
           RelockIgnoresError, RelockThrows, SpuriousWake, TimeUp, Die, Abandon, EndCall,
           Goto, Pcs, InsidePcs, At
  <2>2. ReadFront(r) /\ ~NoMessage(r)
    BY <1>2, <2>1 DEF Notify, At, MutexInv, ControlTypes
  <2>3. /\ UNCHANGED <<call, links, data>> /\ links.nxt[call[r].ch] # Null
        /\ val'[r] = data[links.nxt[call[r].ch]]
    BY <2>2 DEF ReadFront, heapvars, NoMessage, IsEmpty, FirstNode, CallInv, CallTypes
  <2>. QED  BY <1>2, <2>3, SMTT(40)
<1>3. CASE q # r
  <2>1. call'[q] = call[q] /\ val'[q] = val[q] /\ pc[q] = "pop"
    BY <1>3, OneWorks DEF At
  <2>2. owner = q
    BY <1>1, <2>1 DEF Promised, MutexInv, AccessIsExclusive, InsidePcs
  <2>3. ~Emplace(r) /\ ~Pop(r)
    BY <1>1, <1>3, <2>2 DEF Emplace, Pop, At, Promised, MutexInv, AccessIsExclusive, InsidePcs
  <2>4. UNCHANGED heapvars
    BY <2>3 DEF StepOf, Start, Proceed, Relocks, LockThrows, Unlock, EmplaceNoMemory,
       Notify, TestNonEmpty, TestGivesUp, Wait, ReadFront, Lock, Relock,
       RelockIgnoresError, RelockThrows, SpuriousWake, TimeUp, Die, heapvars
  <2>5. links.nxt[call[q].ch] # Null /\ val[q] = data[links.nxt[call[q].ch]]
    BY <1>1, <2>1 DEF ReadIsFront, At, NoMessage, IsEmpty, FirstNode
  <2>. QED  BY <2>1, <2>4, <2>5 DEF heapvars
<1>. QED  BY <1>2, <1>3

-----------------------------------------------------------------------------
(* The lists stay whole.                                                   *)

(* A send appends to what was accepted and to what is held. *)
LEMMA SendKeepsOrder ==
    ASSUME NEW S, NEW d \in Seq(S), NEW h \in Seq(S), NEW m \in S
    PROVE  Append(d \o h, m) = d \o Append(h, m)
<1>1. <<m>> \in Seq(S)
  OBVIOUS
<1>2. Append(h, m) = h \o <<m>> /\ Append(d \o h, m) = (d \o h) \o <<m>>
  BY AppendIsConcat
<1>. QED  BY <1>1, <1>2, ConcatAssociative

(* A receive moves the first that is held to what was delivered. *)
LEMMA ReceiveKeepsOrder ==
    ASSUME NEW S, NEW d \in Seq(S), NEW h \in Seq(S), h # <<>>
    PROVE  d \o h = Append(d, h[1]) \o Tail(h)
BY SMTT(40)

LEMMA HeldTyped ==
    ASSUME NEW S, NEW f \in [Nodes -> S], NEW s \in Seq(Nodes)
    PROVE  HeldIn(f, s) \in Seq(S) /\ Len(HeldIn(f, s)) = Len(s)
BY DEF HeldIn

Put(f, n, m) == [f EXCEPT ![n] = m]

LEMMA HeldAppended ==
    ASSUME NEW S, NEW f \in [Nodes -> S], NEW s \in Seq(Nodes), NEW n \in Nodes \ In(s),
           NEW m \in S
    PROVE  HeldIn(Put(f, n, m), Append(s, n)) = Append(HeldIn(f, s), m)
<1>. DEFINE g == [f EXCEPT ![n] = m]
            u == Append(s, n)
<1>1. Len(u) = Len(s) + 1 /\ u[Len(s) + 1] = n /\ \A i \in 1..Len(s) : u[i] = s[i]
  OBVIOUS
<1>2. \A i \in 1..Len(s) : s[i] # n /\ s[i] \in Nodes
  BY DEF In
<1>3. HeldIn(f, s) \in Seq(S) /\ Len(HeldIn(f, s)) = Len(s)
  BY HeldTyped
<1>4. g \in [Nodes -> S] /\ u \in Seq(Nodes)
  OBVIOUS
<1>5. HeldIn(g, u) \in Seq(S) /\ Len(HeldIn(g, u)) = Len(s) + 1
  <2>. HIDE DEF g, u
  <2>. QED  BY <1>1, <1>4, HeldTyped
<1>6. \A i \in 1..(Len(s) + 1) : HeldIn(g, u)[i] = IF i = Len(s) + 1 THEN m ELSE f[s[i]]
  <2>. TAKE i \in 1..(Len(s) + 1)
  <2>1. i \in 1..Len(u) /\ HeldIn(g, u)[i] = g[u[i]]
    BY <1>1 DEF HeldIn
  <2>2. Len(s) \in Nat
    OBVIOUS
  <2>3. CASE i = Len(s) + 1
    BY <1>1, <2>1, <2>3
  <2>4. CASE i \in 1..Len(s)
    <3>1. i # Len(s) + 1
      BY <2>2, <2>4
    <3>2. u[i] = s[i] /\ g[s[i]] = f[s[i]]
      BY <1>1, <1>2, <2>4
    <3>. HIDE DEF g, u
    <3>. QED  BY <2>1, <3>1, <3>2
  <2>. QED  BY <2>2, <2>3, <2>4
<1>7. \A i \in 1..Len(s) : HeldIn(f, s)[i] = f[s[i]]
  BY DEF HeldIn
<1>8. Append(HeldIn(f, s), m) \in Seq(S) /\ Len(Append(HeldIn(f, s), m)) = Len(s) + 1
  BY <1>3
<1>9. \A i \in 1..(Len(s) + 1) :
         Append(HeldIn(f, s), m)[i] = IF i = Len(s) + 1 THEN m ELSE f[s[i]]
  BY <1>3, <1>7
<1>. HIDE DEF g, u
<1>10. HeldIn(g, u) = Append(HeldIn(f, s), m)
  BY <1>5, <1>6, <1>8, <1>9, SMTT(40)
<1>. QED  BY <1>10 DEF g, u, Put

LEMMA HeldTail ==
    ASSUME NEW f, NEW s \in Seq(Nodes), s # <<>>
    PROVE  HeldIn(f, Tail(s)) = Tail(HeldIn(f, s)) /\ HeldIn(f, s)[1] = f[s[1]]
           /\ HeldIn(f, s) # <<>>
BY DEF HeldIn

LEMMA WholeEmplace ==
    ASSUME MutexInv, CallInv, MemoryInv, LogTypes, NEW s, Whole(s),
           NEW r \in Procs, Emplace(r), Promised'
    PROVE  \E t : Whole(t)'
<1>n. PICK n : n = CHOOSE m \in Nodes : m \notin used
  OBVIOUS
<1>c. PICK c : c = call[r].ch
  OBVIOUS
<1>. DEFINE fresh == Constructed(links, n)
            stores == PushBack(fresh, c, n)
            t == [s EXCEPT ![c] = Append(s[c], n)]
<1>1. n \in Nodes /\ n \notin used
  BY <1>n DEF Emplace, MemoryInv, MemoryTypes
<1>2. c \in Lists /\ c \in Chans /\ val[r] \in 1..MaxMsgs
  BY <1>c, ConstAssumption, SMTT(40) DEF Emplace, At, Running, DeadPcs, CallInv, CallTypes, CallMatchesPc, Chans
<1>3. /\ used' = used \cup {n} /\ data' = [data EXCEPT ![n] = val[r]]
      /\ delivered' = delivered
  BY <1>n DEF Emplace, Filled
<1>4. \/ /\ links' = AfterStores(fresh, stores)
         /\ accepted' = [accepted EXCEPT ![c] = Append(@, val[r])]
         /\ pc' = [pc EXCEPT ![r] = "unlock"]
      \/ /\ links' = AfterStores(fresh, SubSeq(stores, 1, 0))
         /\ accepted' = accepted
         /\ pc' = [pc EXCEPT ![r] = "dead_silent"]
  <2>1. ASSUME NEW k \in 0..Len(stores) - 1, torn' = (torn \/ k > 0)
        PROVE  k = 0
    <3>1. ~(k > 0)
      BY <2>1, Zenon DEF Promised
    <3>. QED  BY <3>1
  <2>2. \/ /\ links' = AfterStores(fresh, stores)
           /\ accepted' = [accepted EXCEPT ![c] = Append(@, val[r])]
           /\ Goto(r, "unlock")
        \/ /\ \E k \in 0..Len(stores) - 1 :
                 /\ links' = AfterStores(fresh, SubSeq(stores, 1, k))
                 /\ torn' = (torn \/ k > 0)
           /\ Abandon(r, "dead_silent")
           /\ accepted' = accepted
    BY <1>n, <1>c DEF Emplace
  <2>. HIDE DEF fresh, stores
  <2>. QED  BY <2>1, <2>2 DEF Goto, Abandon, EndCall
<1>5. \A d \in Chans : s[d] \in Seq(Nodes) /\ n \notin In(s[d]) /\ In(s[d]) \subseteq Nodes
  BY <1>1 DEF Whole, MemoryInv, MemoryTypes
<1>6. /\ fresh \in Links /\ fresh.nxt[n] = Null /\ fresh.pre[n] = Null
      /\ \A e \in Entities \ {n} : fresh.nxt[e] = links.nxt[e] /\ fresh.pre[e] = links.pre[e]
  BY <1>1, ConstructedCells DEF MemoryInv, MemoryTypes, Entities
<1>. HIDE DEF fresh
<1>7. ASSUME NEW d \in Chans
      PROVE  In(s[d]) \cup {d} \subseteq Entities \ {n}
  BY <1>1, <1>5, LinksAssumption DEF Entities, Chans
<1>8. \A d \in Chans : Chain(fresh, d, s[d])
  <2>. TAKE d \in Chans
  <2>1. Chain(links, d, s[d])
    BY DEF Whole
  <2>. QED  BY <1>6, <1>7, <2>1, ChainFrame
<1>9. \A d \in Chans : /\ HeldIn(data, s[d]) \in Seq(0..MaxMsgs)
                       /\ \A i \in 1..Len(s[d]) : s[d][i] # n /\ s[d][i] \in Nodes
  BY <1>5, HeldTyped DEF MemoryInv, MemoryTypes, In
<1>10. \A d \in Chans : HeldIn(data', s[d]) = HeldIn(data, s[d])
  BY <1>3, <1>9 DEF HeldIn, MemoryInv, MemoryTypes
<1>11. CASE /\ links' = AfterStores(fresh, stores)
            /\ accepted' = [accepted EXCEPT ![c] = Append(@, val[r])]
            /\ pc' = [pc EXCEPT ![r] = "unlock"]
  <2>1. t \in [Chans -> Seq(Nodes)] /\ t[c] = Append(s[c], n)
        /\ \A d \in Chans \ {c} : t[d] = s[d]
    <3>1. Append(s[c], n) \in Seq(Nodes)
      BY <1>1, <1>2, <1>5
    <3>. QED  BY <1>2, <3>1 DEF Whole
  <2>. HIDE DEF t
  <2>2. In(t[c]) = In(s[c]) \cup {n}
    <3>1. s[c] \in Seq(Nodes)
      BY <1>2, <1>5
    <3>2. /\ Len(t[c]) = Len(s[c]) + 1 /\ t[c][Len(s[c]) + 1] = n
          /\ \A i \in 1..Len(s[c]) : t[c][i] = s[c][i]
          /\ Len(s[c]) \in Nat
      BY <2>1, <3>1
    <3>3. \A i : i \in 1..Len(t[c]) <=> i \in 1..Len(s[c]) \/ i = Len(s[c]) + 1
      BY <3>2
    <3>. QED  BY <3>2, <3>3 DEF In
  <2>3. Chain(links', c, t[c])
    <3>1. n \in Nodes \ In(s[c]) /\ Chain(fresh, c, s[c])
      BY <1>1, <1>2, <1>5, <1>8
    <3>2. Chain(AfterStores(fresh, PushBack(fresh, c, n)), c, Append(s[c], n))
      BY <1>2, <1>6, <3>1, ChainPushed
    <3>. QED  BY <1>11, <2>1, <3>2
  <2>4. ASSUME NEW d \in Chans \ {c}
        PROVE  Chain(links', d, t[d])
    <3>. DEFINE x == LastNode(fresh, c)
    <3>1. \A e \in Entities :
             /\ links'.nxt[e] = IF e = (IF x = Null THEN c ELSE x) THEN n ELSE fresh.nxt[e]
             /\ links'.pre[e] = IF e = c THEN n ELSE IF e = n THEN x ELSE fresh.pre[e]
      BY <1>1, <1>2, <1>6, <1>11, PushBackCells
    <3>2. x = Null \/ x \in In(s[c])
      <4>1. x = El(s[c], Len(s[c]))
        BY <1>2, <1>8 DEF Chain, LastNode
      <4>. QED  BY <4>1 DEF El, In
    <3>3. x \notin In(s[d]) \cup {d} \/ x = Null
      BY <1>2, <1>5, <2>4, <3>2, LinksAssumption DEF Whole, Chans
    <3>4. c \notin In(s[d]) \cup {d}
      BY <1>2, <1>5, <2>4, LinksAssumption
    <3>. HIDE DEF x
    <3>5. \A e \in In(s[d]) \cup {d} : links'.nxt[e] = fresh.nxt[e] /\ links'.pre[e] = fresh.pre[e]
      BY <1>7, <2>4, <3>1, <3>3, <3>4
    <3>. QED  BY <1>8, <2>1, <2>4, <3>5, ChainFrame
  <2>5. \A d \in Chans : In(t[d]) \subseteq used'
    BY <1>3, <2>1, <2>2 DEF Whole
  <2>6. \A d, e \in Chans : d # e => In(t[d]) \cap In(t[e]) = {}
    <3>. SUFFICES ASSUME NEW d \in Chans, NEW e \in Chans, d # e
                  PROVE  In(t[d]) \cap In(t[e]) = {}
      OBVIOUS
    <3>1. In(s[d]) \cap In(s[e]) = {} /\ n \notin In(s[d]) /\ n \notin In(s[e])
      BY <1>5 DEF Whole
    <3>2. In(t[d]) = IF d = c THEN In(s[d]) \cup {n} ELSE In(s[d])
      BY <2>1, <2>2
    <3>3. In(t[e]) = IF e = c THEN In(s[e]) \cup {n} ELSE In(s[e])
      BY <2>1, <2>2
    <3>. QED  BY <3>1, <3>2, <3>3
  <2>7. accepted'[c] = delivered'[c] \o HeldIn(data', t[c])
    <3>. DEFINE S == 0..MaxMsgs
                q == delivered[c]  h == HeldIn(data, s[c])
    <3>1. q \in Seq(S) /\ h \in Seq(S) /\ val[r] \in S
      <4>1. q \in Seq(1..MaxMsgs) /\ 1..MaxMsgs \subseteq S
        BY <1>2, ConstAssumption DEF LogTypes
      <4>. QED  BY <1>2, <1>9, <4>1, ConstAssumption
    <3>2. HeldIn(data', t[c]) = Append(h, val[r])
      <4>1. data \in [Nodes -> S] /\ s[c] \in Seq(Nodes) /\ n \in Nodes \ In(s[c])
        BY <1>1, <1>2, <1>5 DEF MemoryInv, MemoryTypes
      <4>2. HeldIn(Put(data, n, val[r]), Append(s[c], n)) = Append(HeldIn(data, s[c]), val[r])
        <5>. DEFINE P(D, f, e, m, x) ==
                        HeldIn(Put(f, m, x), Append(e, m)) = Append(HeldIn(f, e), x)
        <5>1. \A D : \A f \in [Nodes -> D], e \in Seq(Nodes), x \in D :
                 \A m \in Nodes \ In(e) : P(D, f, e, m, x)
          BY HeldAppended
        <5>. HIDE DEF S, q, h, P
        <5>2. P(S, data, s[c], n, val[r])
          BY ONLY <3>1, <4>1, <5>1
        <5>. QED  BY <5>2 DEF P
      <4>. QED  BY <1>3, <2>1, <4>2 DEF Put
    <3>3. accepted'[c] = Append(accepted[c], val[r]) /\ delivered'[c] = q
      BY <1>2, <1>3, <1>11 DEF LogTypes
    <3>4. accepted[c] = q \o h
      BY <1>2 DEF Whole
    <3>. HIDE DEF q, h, S
    <3>5. Append(q \o h, val[r]) = q \o Append(h, val[r])
      <4>. DEFINE P(x, y, z) == Append(x \o y, z) = x \o Append(y, z)
      <4>1. \A D : \A x \in Seq(D), y \in Seq(D), z \in D : P(x, y, z)
        BY SendKeepsOrder
      <4>. HIDE DEF P
      <4>2. P(q, h, val[r])
        BY ONLY <3>1, <4>1
      <4>. QED  BY <4>2 DEF P
    <3>. QED  BY <3>2, <3>3, <3>4, <3>5
  <2>8. \A d \in Chans \ {c} : accepted'[d] = delivered'[d] \o HeldIn(data', t[d])
    BY <1>3, <1>10, <1>11, <2>1 DEF Whole, LogTypes
  <2>9. NobodyDead' => used' = UNION {In(t[d]) : d \in Chans}
    <3>1. NobodyDead' => NobodyDead
      BY <1>11 DEF NobodyDead, MutexInv, ControlTypes, Emplace, At, DeadPcs
    <3>2. UNION {In(t[d]) : d \in Chans} = (UNION {In(s[d]) : d \in Chans}) \cup {n}
      <4>1. \A d \in Chans : In(t[d]) = IF d = c THEN In(s[d]) \cup {n} ELSE In(s[d])
        BY <2>1, <2>2
      <4>2. \A x : (\E d \in Chans : x \in In(t[d]))
                     <=> ((\E d \in Chans : x \in In(s[d])) \/ x = n)
        BY ONLY <1>2, <4>1
      <4>3. \A x : (x \in UNION {In(t[d]) : d \in Chans}) <=> (\E d \in Chans : x \in In(t[d]))
        OBVIOUS
      <4>4. \A x : (x \in UNION {In(s[d]) : d \in Chans}) <=> (\E d \in Chans : x \in In(s[d]))
        OBVIOUS
      <4>5. \A x : (x \in UNION {In(t[d]) : d \in Chans})
                     <=> (x \in (UNION {In(s[d]) : d \in Chans}) \cup {n})
        BY ONLY <4>2, <4>3, <4>4
      <4>. QED  BY ONLY <4>5
    <3>3. NobodyDead => used = UNION {In(s[d]) : d \in Chans}
      BY DEF Whole
    <3>. QED  BY <1>3, <3>1, <3>2, <3>3
  <2>10. \A d \in Chans : /\ Chain(links', d, t[d])
                          /\ accepted'[d] = delivered'[d] \o HeldIn(data', t[d])
    BY <2>3, <2>4, <2>7, <2>8
  <2>11. Whole(t)'
    BY <2>1, <2>5, <2>6, <2>9, <2>10 DEF Whole
  <2>. QED  BY <2>11
<1>12. CASE /\ links' = AfterStores(fresh, SubSeq(stores, 1, 0))
            /\ accepted' = accepted
            /\ pc' = [pc EXCEPT ![r] = "dead_silent"]
  <2>1. links' = fresh
    <3>1. Within(stores, c, {n, LastNode(fresh, c)})
      BY <1>1, <1>2, <1>6, PushBackWithin
    <3>. DEFINE none == SubSeq(stores, 1, 0)
    <3>2. Len(none) = 0
      BY <3>1 DEF Within
    <3>. HIDE DEF none
    <3>3. AfterStores(fresh, none) = fresh
      BY <3>2, AfterFew
    <3>. USE DEF none
    <3>. QED  BY <1>12, <3>3
  <2>2. ~NobodyDead'
    BY <1>12 DEF NobodyDead, MutexInv, ControlTypes, DeadPcs
  <2>3. Whole(s)'
    BY <1>3, <1>8, <1>10, <1>12, <2>1, <2>2 DEF Whole
  <2>. QED  BY <2>3
<1>. QED  BY <1>4, <1>11, <1>12

(* What is left of a sequence of distinct nodes without its first.         *)
LEMMA TailFacts ==
    ASSUME NEW s \in Seq(Nodes), s # <<>>,
           \A i, j \in 1..Len(s) : s[i] = s[j] => i = j
    PROVE  /\ Tail(s) \in Seq(Nodes)
           /\ In(Tail(s)) = In(s) \ {s[1]} /\ s[1] \in In(s)
<1>. DEFINE u == Tail(s)
<1>1. /\ u \in Seq(Nodes) /\ Len(u) = Len(s) - 1 /\ Len(s) \in Nat /\ Len(s) > 0
      /\ \A i \in 1..Len(u) : u[i] = s[i + 1]
  OBVIOUS
<1>. HIDE DEF u
<1>2. ASSUME NEW x \in In(u)
      PROVE  x \in In(s) \ {s[1]}
  <2>1. PICK i \in 1..Len(u) : x = u[i]
    BY DEF In
  <2>2. i + 1 \in 1..Len(s) /\ 1 \in 1..Len(s) /\ i + 1 # 1 /\ x = s[i + 1]
    BY <1>1, <2>1
  <2>. QED  BY <2>2 DEF In
<1>3. ASSUME NEW x \in In(s) \ {s[1]}
      PROVE  x \in In(u)
  <2>1. PICK i \in 1..Len(s) : x = s[i] /\ i # 1
    BY DEF In
  <2>2. i - 1 \in 1..Len(u) /\ u[i - 1] = s[i]
    BY <1>1, <2>1
  <2>. QED  BY <2>1, <2>2 DEF In
<1>4. s[1] \in In(s)
  BY <1>1 DEF In
<1>. QED  BY <1>1, <1>2, <1>3, <1>4 DEF u

LEMMA WholePop ==
    ASSUME MutexInv, CallInv, MemoryInv, LogTypes, ReadIsFront, NEW s, Whole(s),
           NEW r \in Procs, Pop(r), Promised'
    PROVE  \E t : Whole(t)'
<1>c. PICK c : c = call[r].ch
  OBVIOUS
<1>n. PICK n : n = links.nxt[c]
  OBVIOUS
<1>. DEFINE stores == Unlink(c, links.pre[n], links.nxt[n])
            t == [s EXCEPT ![c] = Tail(s[c])]
<1>1. Promised /\ ~torn
  BY PromisedBefore DEF Promised, StepOf, Proceed
<1>2. c \in Lists /\ c \in Chans
  BY <1>c, SMTT(40) DEF Pop, At, Running, DeadPcs, CallInv, CallMatchesPc, Chans
<1>3. n # Null /\ val[r] = data[n]
  BY <1>1, <1>c, <1>n DEF Pop, ReadIsFront, NoMessage, IsEmpty, FirstNode
<1>4. Chain(links, c, s[c]) /\ s[c] \in Seq(Nodes)
  BY <1>2 DEF Whole
<1>5. s[c] # <<>>
  BY <1>3, <1>4, <1>n DEF Chain, El
<1>6. /\ n = s[c][1] /\ n \in Nodes
      /\ Chain(AfterStores(links, stores), c, Tail(s[c]))
  <2>. DEFINE P(x) == /\ FirstNode(links, c) = x /\ x \in Nodes
                      /\ Chain(AfterStores(links, Unlink(c, links.pre[x], links.nxt[x])),
                               c, Tail(s[c]))
  <2>1. P(s[c][1])
    BY <1>2, <1>4, <1>5, ChainUnlinked DEF MemoryInv, MemoryTypes
  <2>2. n = s[c][1]
    BY <1>n, <2>1 DEF FirstNode
  <2>. QED  BY <2>1, <2>2
<1>7. /\ links' = AfterStores(links, stores) /\ used' = used \ {n} /\ data' = data
      /\ accepted' = accepted /\ delivered' = [delivered EXCEPT ![c] = Append(@, val[r])]
      /\ pc' = [pc EXCEPT ![r] = "unlock"]
  <2>1. torn' # TRUE
    BY DEF Promised
  <2>2. FirstNode(links, call[r].ch) = n
    BY <1>c, <1>n DEF FirstNode
  <2>. QED  BY <1>1, <1>3, <1>c, <2>1, <2>2 DEF Pop, Delivered, Goto
<1>8. /\ Tail(s[c]) \in Seq(Nodes)
      /\ In(Tail(s[c])) = In(s[c]) \ {n} /\ n \in In(s[c])
  <2>1. \A i, j \in 1..Len(s[c]) : s[c][i] = s[c][j] => i = j
    BY <1>4 DEF Chain
  <2>. QED  BY <1>4, <1>5, <1>6, <2>1, TailFacts
<1>9. /\ t \in [Chans -> Seq(Nodes)] /\ t[c] = Tail(s[c])
      /\ \A d \in Chans \ {c} : t[d] = s[d]
  BY <1>2, <1>8 DEF Whole
<1>. HIDE DEF t
<1>10. ASSUME NEW d \in Chans \ {c}
       PROVE  Chain(links', d, t[d])
  <2>0. 1 \in 1..Len(s[c])
    BY <1>4, <1>5
  <2>1. links.pre[n] = El(s[c], 0) /\ links.nxt[n] = El(s[c], 2)
    <3>1. links.pre[n] = El(s[c], 1 - 1) /\ links.nxt[n] = El(s[c], 1 + 1)
      BY <1>4, <1>6, <2>0 DEF Chain
    <3>. QED  BY <3>1, SMTT(40)
  <2>2. links.pre[n] = Null
    BY <2>1 DEF El
  <2>. DEFINE b == links.nxt[n]
  <2>3. b = Null \/ b \in In(s[c])
    BY <2>1 DEF El, In
  <2>4. \A e \in Entities :
           /\ links'.nxt[e] = IF e = c THEN b ELSE links.nxt[e]
           /\ links'.pre[e] = IF e = (IF b = Null THEN c ELSE b) THEN Null ELSE links.pre[e]
    <3>1. b \in Nodes \cup {Null} /\ links \in Links
      BY <1>6 DEF MemoryInv, MemoryTypes, Links
    <3>. DEFINE l == AfterStores(links, Unlink(c, Null, b))
    <3>2. \A e \in Entities :
             /\ l.nxt[e] = IF e = c THEN b ELSE links.nxt[e]
             /\ l.pre[e] = IF e = (IF b = Null THEN c ELSE b) THEN Null ELSE links.pre[e]
      <4>. HIDE DEF b
      <4>. QED  BY <1>2, <3>1, UnlinkFirstCells
    <3>3. links' = l
      BY <1>7, <2>2
    <3>. QED  BY <3>2, <3>3
  <2>5. In(s[d]) \cap In(s[c]) = {} /\ Chain(links, d, s[d]) /\ In(s[d]) \subseteq Nodes
    <3>1. In(s[d]) \cap In(s[c]) = {} /\ Chain(links, d, s[d])
      BY <1>2 DEF Whole
    <3>2. s[d] \in Seq(Nodes)
      BY DEF Whole
    <3>3. \A i \in 1..Len(s[d]) : s[d][i] \in Nodes
      BY <3>2
    <3>4. In(s[d]) \subseteq Nodes
      BY ONLY <3>3 DEF In
    <3>. QED  BY ONLY <3>1, <3>4
  <2>6. b \notin In(s[d]) \cup {d} \/ b = Null
    <3>1. b # Null => b \in Nodes
      BY <1>4, <2>3 DEF In
    <3>. QED  BY <2>3, <2>5, <3>1, LinksAssumption DEF Chans
  <2>7. c \notin In(s[d]) \cup {d} /\ In(s[d]) \cup {d} \subseteq Entities
    BY <1>2, <2>5, LinksAssumption DEF Entities, Chans
  <2>. HIDE DEF b
  <2>8. \A e \in In(s[d]) \cup {d} : links'.nxt[e] = links.nxt[e] /\ links'.pre[e] = links.pre[e]
    BY <2>4, <2>6, <2>7
  <2>. QED  BY <1>9, <2>5, <2>8, ChainFrame, SMTT(40)
<1>11. \A d \in Chans : Chain(links', d, t[d])
  BY <1>6, <1>7, <1>9, <1>10
<1>12. \A d \in Chans : In(t[d]) = In(s[d]) \ {n}
  <2>1. \A d \in Chans \ {c} : n \notin In(s[d])
    BY <1>2, <1>8 DEF Whole
  <2>. QED  BY <1>8, <1>9, <2>1
<1>13. \A d \in Chans : In(t[d]) \subseteq used'
  BY <1>7, <1>12 DEF Whole
<1>14. \A d, e \in Chans : d # e => In(t[d]) \cap In(t[e]) = {}
  BY <1>12 DEF Whole
<1>15. accepted'[c] = delivered'[c] \o HeldIn(data', t[c])
  <2>. DEFINE S == 0..MaxMsgs
              q == delivered[c]  h == HeldIn(data, s[c])
  <2>1. q \in Seq(S) /\ h \in Seq(S)
    <3>1. q \in Seq(1..MaxMsgs) /\ 1..MaxMsgs \subseteq S
      BY <1>2, ConstAssumption DEF LogTypes
    <3>2. h \in Seq(S)
      BY <1>4, HeldTyped DEF MemoryInv, MemoryTypes
    <3>3. q \in Seq(S)
      <4>. HIDE DEF q, h
      <4>. QED  BY <3>1, ConstAssumption
    <3>. QED  BY <3>2, <3>3
  <2>2. HeldIn(data', t[c]) = Tail(h) /\ h[1] = val[r] /\ h # <<>>
    BY <1>3, <1>4, <1>5, <1>6, <1>7, <1>9, HeldTail
  <2>3. accepted'[c] = accepted[c] /\ delivered'[c] = Append(q, val[r])
    BY <1>2, <1>7 DEF LogTypes
  <2>4. accepted[c] = q \o h
    BY <1>2 DEF Whole
  <2>5. q \o h = Append(q, h[1]) \o Tail(h)
    <3>. DEFINE P(x, y) == x \o y = Append(x, y[1]) \o Tail(y)
    <3>1. \A D : \A x \in Seq(D), y \in Seq(D) : y # <<>> => P(x, y)
      BY ReceiveKeepsOrder
    <3>. HIDE DEF P, q, h, S
    <3>2. P(q, h)
      BY ONLY <2>1, <2>2, <3>1
    <3>. QED  BY <3>2 DEF P
  <2>. QED  BY <2>2, <2>3, <2>4, <2>5
<1>16. \A d \in Chans \ {c} : accepted'[d] = delivered'[d] \o HeldIn(data', t[d])
  BY <1>7, <1>9 DEF Whole, LogTypes
<1>17. NobodyDead' => used' = UNION {In(t[d]) : d \in Chans}
  <2>1. NobodyDead' => NobodyDead
    BY DeadStay DEF StepOf, Proceed
  <2>2. UNION {In(t[d]) : d \in Chans} = (UNION {In(s[d]) : d \in Chans}) \ {n}
    <3>1. \A x : (\E d \in Chans : x \in In(t[d]))
                   <=> ((\E d \in Chans : x \in In(s[d])) /\ x # n)
      BY ONLY <1>12
    <3>2. \A x : (x \in UNION {In(t[d]) : d \in Chans}) <=> (\E d \in Chans : x \in In(t[d]))
      OBVIOUS
    <3>3. \A x : (x \in UNION {In(s[d]) : d \in Chans}) <=> (\E d \in Chans : x \in In(s[d]))
      OBVIOUS
    <3>4. \A x : (x \in UNION {In(t[d]) : d \in Chans})
                   <=> (x \in (UNION {In(s[d]) : d \in Chans}) \ {n})
      BY ONLY <3>1, <3>2, <3>3
    <3>. QED  BY ONLY <3>4
  <2>3. NobodyDead => used = UNION {In(s[d]) : d \in Chans}
    BY DEF Whole
  <2>. QED  BY <1>7, <2>1, <2>2, <2>3
<1>18. \A d \in Chans : accepted'[d] = delivered'[d] \o HeldIn(data', t[d])
  BY <1>15, <1>16
<1>19. Whole(t)'
  BY <1>9, <1>11, <1>13, <1>14, <1>17, <1>18 DEF Whole
<1>. QED  BY <1>19

LEMMA NextWhole ==
    ASSUME MutexInv, CallInv, MemoryInv, LogTypes, ReadIsFront, ListsAreWhole,
           NEW r \in Procs, StepOf(r)
    PROVE  ListsAreWhole'
<1>. SUFFICES ASSUME Promised'
              PROVE  \E t : Whole(t)'
  BY DEF ListsAreWhole
<1>1. PICK s : Whole(s)
  BY PromisedBefore DEF ListsAreWhole
<1>2. CASE Emplace(r)
  BY <1>1, <1>2, WholeEmplace
<1>3. CASE Pop(r)
  BY <1>1, <1>3, WholePop
<1>4. CASE ~Emplace(r) /\ ~Pop(r)
  <2>1. UNCHANGED <<heapvars, accepted, delivered>>
    BY <1>4 DEF StepOf, Start, Proceed, Relocks, LockThrows, Unlock, EmplaceNoMemory,
       Notify, TestNonEmpty, TestGivesUp, Wait, ReadFront, Lock, Relock,
       RelockIgnoresError, RelockThrows, SpuriousWake, TimeUp, Die, heapvars, logs
  <2>2. NobodyDead' => NobodyDead
    BY DeadStay
  <2>3. Whole(s)'
    BY <1>1, <2>1, <2>2 DEF Whole, heapvars
  <2>. QED  BY <2>3
<1>. QED  BY <1>2, <1>3, <1>4

-----------------------------------------------------------------------------
FifoIInv == IInv /\ FifoInv

LEMMA InitFifo == Init => FifoIInv
<1>. SUFFICES ASSUME Init PROVE FifoIInv
  OBVIOUS
<1>1. MessagesDiffer /\ UnharmedInv /\ ReadIsFront
  BY DEF Init, MessagesDiffer, Pending, UnharmedInv, ReadIsFront, At
<1>2. Whole([c \in Chans |-> <<>>])
  <2>. DEFINE s == [c \in Chans |-> <<>>]
  <2>1. /\ s \in [Chans -> Seq(Nodes)]
        /\ \A c \in Chans : In(s[c]) = {} /\ Len(s[c]) = 0 /\ s[c] = <<>>
    BY DEF In
  <2>. HIDE DEF s
  <2>2. \A c \in Chans : HeldIn(data, s[c]) = <<>>
    BY <2>1 DEF HeldIn
  <2>3. \A c \in Chans : accepted[c] = delivered[c] \o HeldIn(data, s[c])
    <3>1. \A c \in Chans : accepted[c] = <<>> /\ delivered[c] = <<>>
      BY DEF Init
    <3>2. <<>> = <<>> \o <<>>
      OBVIOUS
    <3>. QED  BY <2>2, <3>1, <3>2
  <2>4. \A c \in Chans : Chain(links, c, s[c])
    <3>. TAKE c \in Chans
    <3>1. links.nxt[c] = Null /\ links.pre[c] = Null
      BY DEF Init, NoLinks, Chans
    <3>2. El(s[c], 1) = Null /\ El(s[c], Len(s[c])) = Null
      BY <2>1 DEF El
    <3>. QED  BY <2>1, <3>1, <3>2 DEF Chain
  <2>5. used = UNION {In(s[c]) : c \in Chans}
    BY <2>1 DEF Init
  <2>6. \A c \in Chans : In(s[c]) \subseteq used
    BY <2>1
  <2>7. \A c, d \in Chans : c # d => In(s[c]) \cap In(s[d]) = {}
    BY <2>1
  <2>8. Whole(s)
    BY <2>1, <2>3, <2>4, <2>5, <2>6, <2>7 DEF Whole
  <2>. QED  BY <2>8 DEF s
<1>. QED  BY <1>1, <1>2, InitInv DEF FifoIInv, FifoInv, ListsAreWhole

LEMMA NextFifo == FifoIInv /\ [Next]_vars => FifoIInv'
<1>. SUFFICES ASSUME FifoIInv, [Next]_vars PROVE FifoInv'
  BY NextInv DEF FifoIInv
<1>. USE DEF FifoIInv, IInv, FifoInv
<1>1. CASE UNCHANGED vars
  <2>1. MessagesDiffer'
    BY <1>1 DEF MessagesDiffer, Pending, Op, vars
  <2>2. UnharmedInv'
    BY <1>1 DEF UnharmedInv, NobodyDead, vars
  <2>3. ReadIsFront'
    BY <1>1 DEF ReadIsFront, Promised, At, NoMessage, vars
  <2>4. ASSUME NEW s, Whole(s)
        PROVE  Whole(s)'
    BY <1>1, <2>4 DEF Whole, NobodyDead, vars
  <2>5. ListsAreWhole'
    BY <1>1, <2>4 DEF ListsAreWhole, Promised, vars
  <2>. QED  BY <2>1, <2>2, <2>3, <2>5
<1>2. CASE Next
  <2>1. PICK r \in Procs : StepOf(r)
    BY <1>2 DEF Next, StepOf
  <2>. QED  BY <2>1, NextDiffer, NextUnharmed, NextRead, NextWhole
<1>. QED  BY <1>1, <1>2

(* What a walk sees of a list is all of it. *)
LEMMA WalkSeesAll ==
    ASSUME CallInv, MemoryInv, LogTypes, MessagesDiffer, NEW s, Whole(s), NEW c \in Chans
    PROVE  Forward(links, c, MaxMsgs) = s[c]
<1>. DEFINE S == 0..MaxMsgs
            h == HeldIn(data, s[c])  q == delivered[c]
<1>1. Chain(links, c, s[c]) /\ s[c] \in Seq(Nodes) /\ accepted[c] = q \o h
  BY DEF Whole
<1>2. h \in Seq(S) /\ Len(h) = Len(s[c])
  BY <1>1, HeldTyped DEF MemoryInv, MemoryTypes
<1>3. q \in Seq(S)
  <2>1. q \in Seq(1..MaxMsgs) /\ 1..MaxMsgs \subseteq S
    BY ConstAssumption DEF LogTypes
  <2>. HIDE DEF q
  <2>. QED  BY <2>1, ConstAssumption
<1>4. Len(s[c]) \in Nat
  BY <1>1
<1>5. Len(accepted[c]) <= MaxMsgs
  BY LogsAreBounded
<1>. HIDE DEF h, q, S
<1>6. Len(q \o h) = Len(q) + Len(h) /\ Len(q) \in Nat
  BY <1>2, <1>3
<1>7. MaxMsgs \in Nat /\ Len(s[c]) <= MaxMsgs + 1
  <2>1. MaxMsgs \in Nat
    BY ConstAssumption
  <2>2. Len(q) + Len(s[c]) <= MaxMsgs
    BY <1>1, <1>2, <1>5, <1>6
  <2>. QED  BY ONLY <1>4, <1>6, <2>1, <2>2
<1>. QED  BY <1>1, <1>7, ForwardIsChain

(* Each channel hands out the messages of finished sends once each and in  *)
(* their order, and still has the rest, with any number of threads and     *)
(* channels; only a death amid the update of a list, or a mutex lost by a  *)
(* dead owner, ends that (ipsm_malloc.hpp:165-203).                        *)
THEOREM ChannelsAreFifo == Spec => []Fifo
<1>1. FifoIInv => Fifo
  <2>. SUFFICES ASSUME FifoIInv, mstate # "lost", ~torn, NEW c \in Chans
                PROVE  accepted[c] = delivered[c] \o Content(c)
    BY DEF Fifo
  <2>. USE DEF FifoIInv, IInv, FifoInv
  <2>1. PICK s : Whole(s)
    BY DEF ListsAreWhole, Promised
  <2>2. Content(c) = HeldIn(data, s[c])
    BY <2>1, WalkSeesAll DEF Content, HeldIn
  <2>. QED  BY <2>1, <2>2 DEF Whole
<1>. QED  BY InitFifo, NextFifo, <1>1, PTL DEF Spec

(* As long as nobody has died, the nodes taken from the heap are those in  *)
(* the lists: a receive gives back the node of the message it took, and a  *)
(* send links the one it got (offset_list.hpp:241-330).                    *)
THEOREM NodesAreKept == Spec => []NoNodeLeak
<1>1. FifoIInv => NoNodeLeak
  <2>. SUFFICES ASSUME FifoIInv, NobodyDead
                PROVE  used = UNION {Range(Forward(links, c, MaxMsgs)) : c \in Chans}
    BY DEF NoNodeLeak, NobodyDead
  <2>. USE DEF FifoIInv, IInv, FifoInv
  <2>1. PICK s : Whole(s)
    BY DEF ListsAreWhole, Promised, UnharmedInv
  <2>2. ASSUME NEW c \in Chans
        PROVE  Range(Forward(links, c, MaxMsgs)) = In(s[c])
    <3>1. Forward(links, c, MaxMsgs) = s[c] /\ s[c] \in Seq(Nodes)
      BY <2>1, WalkSeesAll DEF Whole
    <3>. QED  BY <3>1 DEF Range, In
  <2>3. {Range(Forward(links, c, MaxMsgs)) : c \in Chans} = {In(s[c]) : c \in Chans}
    BY <2>2
  <2>. QED  BY <2>1, <2>3 DEF Whole
<1>. QED  BY InitFifo, NextFifo, <1>1, PTL DEF Spec
=============================================================================
