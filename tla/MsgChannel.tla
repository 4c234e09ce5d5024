----------------------------- MODULE MsgChannel -----------------------------
(***************************************************************************)
(* The message channels of ipsm_malloc (libipsm_mem/src/ipsm_malloc.cpp):  *)
(* send, receive, try_receive and try_receive_until by threads of several  *)
(* processes, over one robust ipsm_mutex, one ipsm_condition_variable and  *)
(* one offset_list per channel, all in the shared memory.                  *)
(*                                                                         *)
(* The mutex and the condition variable are pthread objects; what they do  *)
(* is modelled as POSIX and glibc define it for a robust mutex:            *)
(*   - a thread that dies while it owns the mutex leaves it "dead": the    *)
(*     next to take it gets EOWNERDEAD and owns it;                        *)
(*   - pthread_mutex_consistent by that owner makes it "ok" again;         *)
(*   - an unlock without it makes the mutex "lost" (ENOTRECOVERABLE);      *)
(*   - pthread_cond_wait unlocks and goes to sleep in one step, may wake   *)
(*     without a signal, and takes the mutex again before it returns.      *)
(*                                                                         *)
(* Abstractions.  A message is a number, in the order of the calls.  The   *)
(* heap is a pool of list nodes.  A channel number out of range and an     *)
(* ipsm_malloc without memory return before anything is touched.           *)
(***************************************************************************)
EXTENDS ListLinks

CONSTANTS
    Procs,      \* the threads
    None,       \* no thread, no channel
    Calls,      \* the operations each thread calls
    MayDie,     \* the threads that may be killed at any point
    MaxMsgs     \* bound: messages sent altogether

Ops == {"send", "receive", "try_receive", "try_receive_until"}

(* One list per channel: msgch_. *)
Chans == Lists

ASSUME ConstAssumption ==
    /\ None \notin Procs \cup Chans
    /\ Calls \in [Procs -> SUBSET Ops]
    /\ MayDie \subseteq Procs
    /\ MaxMsgs \in Nat

VARIABLES
    pc,         \* the step each thread is about to take
    call,       \* the call it is in: [op, ch, late]
    val,        \* the message it sends or has read, or 0
    owner,      \* the thread that owns mtx_, or None
    mstate,     \* "ok", "dead" or "lost"
    links,      \* of the lists and the nodes
    data,       \* data_ of each node
    used,       \* nodes allocated from the heap
    nsent,      \* messages given to send so far
    accepted,   \* per channel, the messages whose emplace_back finished
    delivered,  \* per channel, the messages taken while no list is torn
    torn        \* a death has cut the update of some list short

vars == <<pc, call, val, owner, mstate, links, data, used, nsent, accepted,
          delivered, torn>>

heapvars == <<links, data, used>>
logs == <<nsent, accepted, delivered, torn>>

NoCall == [op |-> "none", ch |-> None, late |-> FALSE]

(* Inside the lock's scope, with access to the lists. *)
InsidePcs == {"emplace", "test", "front", "pop", "unlock"}
DeadPcs == {"dead", "dead_silent"}
Pcs == {"idle", "lock", "notify", "asleep", "relock"} \cup InsidePcs \cup DeadPcs

Init ==
    /\ pc = [p \in Procs |-> "idle"]
    /\ call = [p \in Procs |-> NoCall]
    /\ val = [p \in Procs |-> 0]
    /\ owner = None /\ mstate = "ok"
    /\ links = NoLinks
    /\ data = [n \in Nodes |-> 0]
    /\ used = {}
    /\ nsent = 0
    /\ accepted = [c \in Chans |-> <<>>]
    /\ delivered = [c \in Chans |-> <<>>]
    /\ torn = FALSE

At(p, l) == pc[p] = l
Goto(p, l) == pc' = [pc EXCEPT ![p] = l]
Op(p) == call[p].op
NoMessage(p) == IsEmpty(links, call[p].ch)

(* The call returns or throws, or its thread dies: to l.  Of a sender that *)
(* will wake nobody the channel stays known, for the properties.           *)
EndCall(p, l) ==
    /\ Goto(p, l)
    /\ call' = [call EXCEPT ![p] =
                    IF l = "dead_silent" THEN [NoCall EXCEPT !.ch = call[p].ch]
                    ELSE NoCall]
    /\ val' = [val EXCEPT ![p] = 0]

-----------------------------------------------------------------------------
(* The mutex.                                                              *)

(* Mutant: EOWNERDEAD is not followed by pthread_mutex_consistent. *)
AcquireInconsistent(p) ==
    /\ owner = None /\ mstate # "lost"
    /\ owner' = p
    /\ UNCHANGED mstate

(* ipsm_mutex::lock: a dead owner's mutex is made consistent. *)
Acquire(p) ==
    /\ owner = None /\ mstate # "lost"
    /\ owner' = p
    /\ mstate' = "ok"

(* ipsm_mutex::unlock and the unlock of a wait; EPERM changes nothing. *)
Release(p) ==
    IF owner = p
    THEN /\ owner' = None
         /\ mstate' = IF mstate = "dead" THEN "lost" ELSE mstate
    ELSE UNCHANGED <<owner, mstate>>

(* The thread is gone; the kernel marks what it owned. *)
Abandon(p, l) ==
    /\ EndCall(p, l)
    /\ owner' = IF owner = p THEN None ELSE owner
    /\ mstate' = IF owner = p THEN "dead" ELSE mstate

-----------------------------------------------------------------------------
Start(p, op, c) ==
    /\ At(p, "idle")
    /\ op \in Calls[p]
    /\ Goto(p, "lock")
    /\ call' = [call EXCEPT ![p] = [op |-> op, ch |-> c, late |-> FALSE]]
    /\ IF op = "send"
       THEN /\ nsent < MaxMsgs
            /\ nsent' = nsent + 1
            /\ val' = [val EXCEPT ![p] = nsent + 1]
       ELSE UNCHANGED <<nsent, val>>
    /\ UNCHANGED <<owner, mstate, heapvars, accepted, delivered, torn>>

Lock(p) ==
    /\ At(p, "lock")
    /\ Acquire(p)
    /\ Goto(p, IF Op(p) = "send" THEN "emplace" ELSE "test")
    /\ UNCHANGED <<call, val, heapvars, logs>>

(* ENOTRECOVERABLE: a system_error leaves the call. *)
LockThrows(p) ==
    /\ At(p, "lock")
    /\ mstate = "lost"
    /\ EndCall(p, "idle")
    /\ UNCHANGED <<owner, mstate, heapvars, logs>>

Unlock(p) ==
    /\ At(p, "unlock")
    /\ Release(p)
    /\ IF Op(p) = "send"
       THEN Goto(p, "notify") /\ UNCHANGED <<call, val>>
       ELSE EndCall(p, "idle")
    /\ UNCHANGED <<heapvars, logs>>

-----------------------------------------------------------------------------
(* send.                                                                   *)

(* Mutant: the node is constructed without the value. *)
FilledDefault(n, m) == [data EXCEPT ![n] = 0]

(* data_ of a new node. *)
Filled(n, m) == [data EXCEPT ![n] = m]

(* emplace_back: a node from the heap, its constructor, then the links; or *)
(* the first few of those stores, and death.                               *)
Emplace(p) ==
    /\ At(p, "emplace")
    /\ used # Nodes
    /\ LET n == CHOOSE m \in Nodes : m \notin used
           c == call[p].ch
           fresh == Constructed(links, n)
           stores == PushBack(fresh, c, n)
       IN  /\ used' = used \cup {n}
           /\ data' = Filled(n, val[p])
           /\ \/ /\ links' = AfterStores(fresh, stores)
                 /\ accepted' = [accepted EXCEPT ![c] = Append(@, val[p])]
                 /\ Goto(p, "unlock")
                 /\ UNCHANGED <<call, val, owner, mstate, torn>>
              \/ /\ p \in MayDie
                 /\ \E k \in 0..Len(stores) - 1 :
                       /\ links' = AfterStores(fresh, SubSeq(stores, 1, k))
                       /\ torn' = (torn \/ k > 0)
                 /\ Abandon(p, "dead_silent")
                 /\ UNCHANGED accepted
    /\ UNCHANGED <<nsent, delivered>>

(* The heap is full: the allocator returns nullptr and the node is         *)
(* constructed there.  The process faults, owning the mutex.               *)
EmplaceNoMemory(p) ==
    /\ At(p, "emplace")
    /\ used = Nodes
    /\ Abandon(p, "dead")
    /\ UNCHANGED <<heapvars, logs>>

(* Mutant: only threads that have timed out are woken. *)
NotifyLate(p) ==
    /\ At(p, "notify")
    /\ pc' = [q \in Procs |-> IF q = p THEN "idle"
                              ELSE IF At(q, "asleep") /\ call[q].late THEN "relock"
                              ELSE pc[q]]
    /\ call' = [call EXCEPT ![p] = NoCall]
    /\ val' = [val EXCEPT ![p] = 0]
    /\ UNCHANGED <<owner, mstate, heapvars, logs>>

(* notify_all, after the lock is released. *)
Notify(p) ==
    /\ At(p, "notify")
    /\ pc' = [q \in Procs |-> IF q = p THEN "idle"
                              ELSE IF At(q, "asleep") THEN "relock" ELSE pc[q]]
    /\ call' = [call EXCEPT ![p] = NoCall]
    /\ val' = [val EXCEPT ![p] = 0]
    /\ UNCHANGED <<owner, mstate, heapvars, logs>>

-----------------------------------------------------------------------------
(* receive, try_receive, try_receive_until.                                *)

(* Mutant: the lock is for the test alone. *)
TestNonEmptyReleasing(p) ==
    /\ At(p, "test")
    /\ ~NoMessage(p)
    /\ Release(p)
    /\ Goto(p, "front")
    /\ UNCHANGED <<call, val, heapvars, logs>>

TestNonEmpty(p) ==
    /\ At(p, "test")
    /\ ~NoMessage(p)
    /\ Goto(p, "front")
    /\ UNCHANGED <<call, val, owner, mstate, heapvars, logs>>

(* Nothing to return: try_receive, or the last test of a timed wait. *)
TestGivesUp(p) ==
    /\ At(p, "test")
    /\ NoMessage(p)
    /\ Op(p) = "try_receive" \/ call[p].late
    /\ Goto(p, "unlock")
    /\ UNCHANGED <<call, val, owner, mstate, heapvars, logs>>

(* Mutant: the wait goes to sleep with the mutex. *)
WaitHoldingMutex(p) ==
    /\ At(p, "test")
    /\ NoMessage(p)
    /\ Op(p) \in {"receive", "try_receive_until"} /\ ~call[p].late
    /\ Goto(p, IF owner = p THEN "asleep" ELSE "test")
    /\ UNCHANGED <<owner, mstate>>
    /\ UNCHANGED <<call, val, heapvars, logs>>

(* pthread_cond_wait; without the mutex it fails at once with EPERM, which *)
(* the loop around it does not see.                                        *)
Wait(p) ==
    /\ At(p, "test")
    /\ NoMessage(p)
    /\ Op(p) \in {"receive", "try_receive_until"} /\ ~call[p].late
    /\ Goto(p, IF owner = p THEN "asleep" ELSE "test")
    /\ Release(p)
    /\ UNCHANGED <<call, val, heapvars, logs>>

SpuriousWake(p) ==
    /\ At(p, "asleep")
    /\ Goto(p, "relock")
    /\ UNCHANGED <<call, val, owner, mstate, heapvars, logs>>

TimeUp(p) ==
    /\ At(p, "asleep")
    /\ Op(p) = "try_receive_until"
    /\ Goto(p, "relock")
    /\ call' = [call EXCEPT ![p].late = TRUE]
    /\ UNCHANGED <<val, owner, mstate, heapvars, logs>>

(* The end of the wait, the mutex taken again. *)
Relock(p) ==
    /\ At(p, "relock")
    /\ owner = None /\ mstate = "ok"
    /\ owner' = p
    /\ Goto(p, "test")
    /\ UNCHANGED <<call, val, mstate, heapvars, logs>>

(* The wait returns EOWNERDEAD or ENOTRECOVERABLE.  wait() drops the error *)
(* and tests again, with the mutex in the first case and without it in the *)
(* second.                                                                 *)
RelockIgnoresError(p) ==
    /\ At(p, "relock")
    /\ Op(p) = "receive"
    /\ owner = None /\ mstate # "ok"
    /\ owner' = IF mstate = "dead" THEN p ELSE owner
    /\ Goto(p, "test")
    /\ UNCHANGED <<call, val, mstate, heapvars, logs>>

(* wait_until() throws; the unique_lock unlocks on the way out. *)
RelockThrows(p) ==
    /\ At(p, "relock")
    /\ Op(p) = "try_receive_until"
    /\ owner = None /\ mstate # "ok"
    /\ mstate' = "lost"
    /\ EndCall(p, "idle")
    /\ UNCHANGED <<owner, heapvars, logs>>

(* front(), a fault when another thread without the mutex was faster. *)
ReadFront(p) ==
    /\ At(p, "front")
    /\ IF NoMessage(p)
       THEN Abandon(p, "dead")
       ELSE /\ val' = [val EXCEPT ![p] = data[FirstNode(links, call[p].ch)]]
            /\ Goto(p, "pop")
            /\ UNCHANGED <<call, owner, mstate>>
    /\ UNCHANGED <<heapvars, logs>>

(* The log stops with the promise: a torn list may hand out anything, and  *)
(* what it keeps of a freed node may belong to another list by then.       *)
Delivered(c, m) ==
    IF torn THEN delivered ELSE [delivered EXCEPT ![c] = Append(@, m)]

(* Mutant: the node is unlinked and not given back. *)
PopKeepingNode(p) ==
    /\ At(p, "pop")
    /\ LET c == call[p].ch
           n == FirstNode(links, c)
           stores == Unlink(c, links.pre[n], links.nxt[n])
       IN  links' = AfterStores(links, stores)
    /\ delivered' = Delivered(call[p].ch, val[p])
    /\ Goto(p, "unlock")
    /\ UNCHANGED <<call, val, owner, mstate, data, used, nsent, accepted, torn>>

(* pop_front: the node is destroyed and given back, then the links are     *)
(* joined; or the first few of those stores, and death.                    *)
Pop(p) ==
    /\ At(p, "pop")
    /\ LET c == call[p].ch
           n == FirstNode(links, c)
           stores == IF n = Null THEN <<>>
                     ELSE Unlink(c, links.pre[n], links.nxt[n])
       IN  /\ used' = used \ {n}
           /\ \/ /\ links' = AfterStores(links, stores)
                 /\ delivered' = Delivered(c, val[p])
                 /\ Goto(p, "unlock")
                 /\ UNCHANGED <<call, val, owner, mstate, torn>>
              \/ /\ p \in MayDie
                 /\ \E k \in 0..Len(stores) - 1 :
                       links' = AfterStores(links, SubSeq(stores, 1, k))
                 /\ torn' = TRUE
                 /\ Abandon(p, "dead")
                 /\ UNCHANGED delivered
    /\ UNCHANGED <<data, nsent, accepted>>

-----------------------------------------------------------------------------
(* A sender that dies after it linked its message and before notify_all    *)
(* wakes nobody.                                                           *)
Die(p) ==
    /\ p \in MayDie
    /\ pc[p] \notin DeadPcs \cup {"idle"}
    /\ LET linked == Op(p) = "send" /\ pc[p] \in {"unlock", "notify"}
       IN  Abandon(p, IF linked THEN "dead_silent" ELSE "dead")
    /\ UNCHANGED <<heapvars, logs>>

(* Steps of a running call that do not wait for the mutex. *)
Proceed(p) ==
    \/ LockThrows(p) \/ Unlock(p) \/ Emplace(p) \/ EmplaceNoMemory(p) \/ Notify(p)
    \/ TestNonEmpty(p) \/ TestGivesUp(p) \/ Wait(p) \/ ReadFront(p) \/ Pop(p)

Relocks(p) == Relock(p) \/ RelockIgnoresError(p) \/ RelockThrows(p)

Next ==
    \E p \in Procs :
        \/ \E op \in Ops, c \in Chans : Start(p, op, c)
        \/ Proceed(p) \/ Lock(p) \/ Relocks(p)
        \/ SpuriousWake(p) \/ TimeUp(p) \/ Die(p)

Spec == Init /\ [][Next]_vars

(* Threads run; a thread that tries for the mutex gets it if it is free    *)
(* again and again; a deadline passes while its thread sleeps again and    *)
(* again, for it is absolute.  Nothing makes a caller call, a message      *)
(* come, or a thread wake without a signal.                                *)
Fairness ==
    \A p \in Procs :
        /\ WF_vars(Proceed(p))
        /\ SF_vars(Lock(p)) /\ SF_vars(Relocks(p))
        /\ SF_vars(TimeUp(p))

FairSpec == Spec /\ Fairness

-----------------------------------------------------------------------------
Content(c) ==
    LET nodes == Forward(links, c, MaxMsgs)
    IN  [i \in 1..Len(nodes) |-> data[nodes[i]]]

TypeOK ==
    /\ pc \in [Procs -> Pcs]
    /\ call \in [Procs -> [op : Ops \cup {"none"}, ch : Chans \cup {None},
                           late : BOOLEAN]]
    /\ val \in [Procs -> 0..MaxMsgs]
    /\ owner \in Procs \cup {None}
    /\ mstate \in {"ok", "dead", "lost"}
    /\ links \in Links
    /\ data \in [Nodes -> 0..MaxMsgs]
    /\ used \subseteq Nodes
    /\ nsent \in 0..MaxMsgs
    /\ accepted \in [Chans -> Seq(1..MaxMsgs)]
    /\ delivered \in [Chans -> Seq(1..MaxMsgs)]
    /\ torn \in BOOLEAN

(* Two threads are never at the lists together while the mutex can still   *)
(* be locked, across waits, wake-ups and owners that died.                 *)
AccessIsExclusive ==
    mstate # "lost" => \A p \in Procs : pc[p] \in InsidePcs => owner = p

(* Each channel hands out the messages of finished sends once each and in  *)
(* order (ipsm_malloc.hpp:165-203); what is not yet taken is in the list.  *)
(* A death amid the update of any list, and a lost mutex, end the promise. *)
Fifo ==
    mstate # "lost" /\ ~torn =>
        \A c \in Chans : accepted[c] = delivered[c] \o Content(c)

(* Nobody sleeps on a message: when a channel has one and a receiver of it *)
(* is asleep, the sender that will wake it is still on its way, or died    *)
(* there (notify_all comes after the unlock, ipsm_malloc.cpp:148-152).     *)
NoLostWakeup ==
    \A p \in Procs :
        At(p, "asleep") /\ ~NoMessage(p) =>
            \/ \E q \in Procs :
                  /\ pc[q] \in {"unlock", "notify"} /\ Op(q) = "send"
                  /\ call[q].ch = call[p].ch
            \/ \E q \in Procs : At(q, "dead_silent") /\ call[q].ch = call[p].ch

(* The nodes taken from the heap are those in the lists, as long as no     *)
(* thread has died and none works on a list without the mutex.             *)
NoNodeLeak ==
    (\A p \in Procs : pc[p] \notin DeadPcs) =>
        used = UNION {Range(Forward(links, c, MaxMsgs)) : c \in Chans}

(* The lock is inherited and repaired after its owner's death: it never    *)
(* becomes unusable (ipsm_mutex.cpp:85-90, shared_memory_construction.txt  *)
(* on the robust mutex).                                                   *)
MutexIsRepaired == mstate # "lost"

Receiving(p) == Op(p) \in {"receive", "try_receive_until"}
Waiting(p) == Receiving(p) /\ pc[p] \in {"lock", "test", "asleep", "relock"}

(* A receiver whose channel has a message returns with one, unless others  *)
(* empty the channel or a sender to it died before it could wake anybody.  *)
WaiterServed ==
    \A p \in Procs, c \in Chans :
        (Waiting(p) /\ call[p].ch = c /\ ~IsEmpty(links, c))
            ~> \/ ~Waiting(p)
               \/ IsEmpty(links, c)
               \/ \E q \in Procs : At(q, "dead_silent") /\ call[q].ch = c

(* try_receive_until returns or throws, also when a sender dies, at any    *)
(* step (in channel_live only the sender may).                             *)
TimedReceiveEnds ==
    \A p \in Procs :
        Op(p) = "try_receive_until" ~> Op(p) # "try_receive_until"
=============================================================================
