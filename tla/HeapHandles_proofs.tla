------------------------- MODULE HeapHandles_proofs -------------------------
(***************************************************************************)
(* Proofs about HeapHandles, for any processes, memories and variables.    *)
(*                                                                         *)
(* What a call still has to do is in todo, so an invariant has to say that *)
(* the steps that are left will do no harm.  The first part runs the steps *)
(* of one process alone, on a view of the state: every call, from a state  *)
(* at rest, comes to a state at rest, and every step of it finds what it   *)
(* needs.  The second part shows that the view stays true while others     *)
(* work: nobody else touches what a call works on.  The counters and the   *)
(* objects are the third part.                                             *)
(***************************************************************************)
EXTENDS HeapHandles, FiniteSetTheorems, SequenceTheorems, TLAPS

Held == Mallocs \cup Temps      \* what has a mapping
Views ==
    [impl : [Handles -> Memories \cup {None}], shm : [Held -> Memories \cup {None}],
     target : [Uniques -> Objects \cup {None}],
     taint : SUBSET Memories,   \* tainted ones, as far as the call knows
     fresh : SUBSET Memories,   \* to be made ready by the call
     tag : {"new", "clean", "stale", "dying", "freed", "over"},
     who : Handles \cup {None}] \* the variable that the tag is about

MapsIn(p, s) == {s.shm[x] : x \in {y \in Held : Home[y] = p}} \ {None}
Within(p, s, v) == v \in Handles /\ (Home[v] = p \/ Home[v] \in MapsIn(p, s))
Fits(v, m) == Home[v] \in Memories => m \in {Home[v], None}

Clean(s) == s.tag = "clean"
Tagged(s, tag, v) == s.tag = tag /\ s.who = v
(* May be overwritten. *)
Free(s, d) == Tagged(s, "stale", d) \/ (Clean(s) /\ s.impl[d] = None)
(* A target in a memory that somebody died with. *)
Wreck(s, u) == s.target[u] # None /\ HeapOf[s.target[u]] = Home[u] /\ Home[u] \in s.taint
Vacant(s, u) == s.target[u] = None \/ Wreck(s, u)
Right(s, u) == s.target[u] # None => HeapOf[s.target[u]] = s.impl[u] \/ Wreck(s, u)

Idle(s, v) ==
    /\ v \in Temps \cup Setups \cup Deleters => s.impl[v] = None
    /\ v \in Temps => s.shm[v] = None
    /\ v \in Uniques => Right(s, v)
Rest(s) == s.tag \in {"clean", "over"} /\ s.fresh = {} /\ \A v \in Handles : Idle(s, v)

HandlePlaced(p, s, h) ==
    /\ Home[h] = p => s.impl[h] \in MapsIn(p, s) \cup {None}
    /\ Fits(h, s.impl[h])
TargetPlaced(p, s, u) ==
    s.target[u] # None =>
        /\ Home[u] = p => HeapOf[s.target[u]] \in MapsIn(p, s)
        /\ Fits(u, HeapOf[s.target[u]])
Placed(p, s) ==
    /\ \A h \in Handles : HandlePlaced(p, s, h)
    /\ \A u \in Uniques : TargetPlaced(p, s, u)

-----------------------------------------------------------------------------
(* What a step needs, and what it does to the view.                        *)

Becomes(s, t, i, m, g) ==
    t.impl = i /\ t.shm = m /\ t.target = g /\ t.taint = s.taint

BindIn(p, d, r, s, t) ==
    /\ Within(p, s, d) /\ Within(p, s, r) /\ d # r
    /\ Free(s, d) /\ Fits(d, s.impl[r])
    /\ Becomes(s, t, [s.impl EXCEPT ![d] = s.impl[r]], s.shm, s.target)
    /\ t.fresh = s.fresh /\ Clean(t)

TakeIn(p, d, r, s, t) ==
    /\ Within(p, s, d) /\ Within(p, s, r) /\ d # r
    /\ Free(s, d) /\ Fits(d, s.impl[r])
    /\ Becomes(s, t, Taken(s.impl, d, r), s.shm, s.target)
    /\ t.fresh = s.fresh /\ Clean(t)

AttachIn(p, d, m, s, t) ==
    /\ d \in Handles /\ Home[d] = p /\ m \in MapsIn(p, s)
    /\ Clean(s) /\ s.impl[d] = None
    /\ Becomes(s, t, [s.impl EXCEPT ![d] = m], s.shm, s.target)
    /\ t.fresh = s.fresh /\ Clean(t)

(* The variables in a memory that is to be created are taken for empty. *)
CreateIn(p, d, m, s, t) ==
    /\ d \in Handles /\ Home[d] = p /\ m \in MapsIn(p, s) \ s.taint
    /\ s.tag = "new" /\ s.fresh = {m} /\ s.impl[d] = None
    /\ \A h \in Handles : s.impl[h] # m /\ (Home[h] = m => s.impl[h] = None)
    /\ \A u \in Uniques : Home[u] = m => s.target[u] = None
    /\ \A u \in Uniques : s.target[u] # None => HeapOf[s.target[u]] # m
    /\ Becomes(s, t, [s.impl EXCEPT ![d] = m], s.shm, s.target)
    /\ t.fresh = s.fresh /\ Clean(t)

UnbindIn(p, d, s, t) ==
    /\ Within(p, s, d) /\ Clean(s)
    /\ Becomes(s, t, s.impl, s.shm, s.target)
    /\ t.fresh = s.fresh /\ Tagged(t, "stale", d)

DropIn(p, d, s, t) ==
    /\ Within(p, s, d) /\ Clean(s)
    /\ Becomes(s, t, [s.impl EXCEPT ![d] = None], s.shm, s.target)
    /\ t.fresh = s.fresh /\ Clean(t)

ClearIn(p, d, s, t) ==
    /\ Within(p, s, d) /\ Tagged(s, "stale", d)
    /\ Becomes(s, t, [s.impl EXCEPT ![d] = None], s.shm, s.target)
    /\ t.fresh = s.fresh /\ Clean(t)

SwapIn(p, d, r, s, t) ==
    /\ Within(p, s, d) /\ Within(p, s, r) /\ d # r
    /\ Clean(s) /\ Fits(d, s.impl[r]) /\ Fits(r, s.impl[d])
    /\ Becomes(s, t, Swapped(s.impl, d, r), s.shm, s.target)
    /\ t.fresh = s.fresh /\ Clean(t)

ReadyIn(d, m, s, t) ==
    /\ d \in Handles /\ Clean(s) /\ s.fresh = {m}
    /\ Becomes(s, t, s.impl, s.shm, s.target)
    /\ t.fresh = {} /\ Clean(t)

TakeAllIn(p, d, r, s, t) ==
    /\ d \in Held /\ r \in Held /\ Home[d] = p /\ Home[r] = p /\ d # r
    /\ Clean(s) /\ s.fresh = {} /\ s.impl[d] = None /\ s.shm[d] = None
    /\ Becomes(s, t, Taken(s.impl, d, r), Taken(s.shm, d, r), s.target)
    /\ t.fresh = {} /\ Clean(t)

SwapAllIn(p, d, r, s, t) ==
    /\ d \in Held /\ r \in Held /\ Home[d] = p /\ Home[r] = p /\ d # r
    /\ Clean(s) /\ s.fresh = {}
    /\ Becomes(s, t, Swapped(s.impl, d, r), Swapped(s.shm, d, r), s.target)
    /\ t.fresh = {} /\ Clean(t)

UnmapIn(p, d, s, t) ==
    /\ d \in Held /\ Home[d] = p /\ Clean(s) /\ s.fresh = {}
    /\ s.shm[d] # None =>
          /\ \A h \in Handles : Home[h] = p => s.impl[h] # s.shm[d]
          /\ \A u \in Uniques : Home[u] = p /\ s.target[u] # None =>
                                HeapOf[s.target[u]] # s.shm[d]
    /\ Becomes(s, t, s.impl, [s.shm EXCEPT ![d] = None], s.target)
    /\ t.fresh = {} /\ t.tag = "over"

NewIn(p, a, o, s, t) ==
    /\ a \in Handles /\ Home[a] = p /\ o \in Objects
    /\ Clean(s) /\ s.fresh = {}
    /\ s.impl[a] = HeapOf[o] /\ HeapOf[o] \in MapsIn(p, s)
    /\ \A v \in Handles \ {a} : Idle(s, v)
    /\ a \in Temps => s.shm[a] = None
    /\ a \notin Uniques
    /\ t = s

OwnIn(p, u, o, s, t) ==
    /\ u \in Uniques /\ Within(p, s, u) /\ o \in Objects
    /\ Clean(s) /\ Vacant(s, u)
    /\ HeapOf[o] \in MapsIn(p, s) /\ Fits(u, HeapOf[o])
    /\ Becomes(s, t, s.impl, s.shm, [s.target EXCEPT ![u] = o])
    /\ t.fresh = s.fresh /\ Clean(t)

MoveTargetIn(p, d, r, s, t) ==
    /\ {d, r} \subseteq Uniques /\ Within(p, s, d) /\ Within(p, s, r) /\ d # r
    /\ Clean(s) /\ Vacant(s, d)
    /\ s.target[r] # None => Fits(d, HeapOf[s.target[r]])
    /\ Becomes(s, t, s.impl, s.shm, Taken(s.target, d, r))
    /\ t.fresh = s.fresh /\ Clean(t)

SwapTargetIn(p, d, r, s, t) ==
    /\ {d, r} \subseteq Uniques /\ Within(p, s, d) /\ Within(p, s, r) /\ d # r
    /\ Clean(s)
    /\ s.target[r] # None => Fits(d, HeapOf[s.target[r]])
    /\ s.target[d] # None => Fits(r, HeapOf[s.target[d]])
    /\ Becomes(s, t, s.impl, s.shm, Swapped(s.target, d, r))
    /\ t.fresh = s.fresh /\ Clean(t)

ReleaseIn(p, u, s, t) ==
    /\ u \in Uniques /\ Within(p, s, u) /\ Clean(s) /\ s.target[u] # None
    /\ Becomes(s, t, s.impl, s.shm, [s.target EXCEPT ![u] = None])
    /\ t.fresh = s.fresh /\ Clean(t)

DestroyIn(p, u, s, t) ==
    /\ u \in Uniques /\ Within(p, s, u) /\ Clean(s) /\ s.target[u] # None /\ Right(s, u)
    /\ Becomes(s, t, s.impl, s.shm, s.target)
    /\ t.fresh = s.fresh /\ Tagged(t, "dying", u)

FreeIn(p, u, s, t) ==
    /\ u \in Uniques /\ Within(p, s, u) /\ Tagged(s, "dying", u)
    /\ s.target[u] # None /\ Right(s, u)
    /\ Becomes(s, t, s.impl, s.shm, s.target)
    /\ t.fresh = s.fresh /\ Tagged(t, "freed", u)

ForgetIn(p, u, s, t) ==
    /\ u \in Uniques /\ Within(p, s, u) /\ Tagged(s, "freed", u) /\ s.target[u] # None
    /\ Becomes(s, t, s.impl, s.shm, [s.target EXCEPT ![u] = None])
    /\ t.fresh = s.fresh /\ Clean(t)

Moves(p, x, s, t) ==
    \/ x[1] = "bind" /\ BindIn(p, x[2], x[3], s, t)
    \/ x[1] = "attach" /\ AttachIn(p, x[2], x[3], s, t)
    \/ x[1] = "create" /\ CreateIn(p, x[2], x[3], s, t)
    \/ x[1] = "unbind" /\ UnbindIn(p, x[2], s, t)
    \/ x[1] = "drop" /\ DropIn(p, x[2], s, t)
    \/ x[1] = "clear" /\ ClearIn(p, x[2], s, t)
    \/ x[1] = "take" /\ TakeIn(p, x[2], x[3], s, t)
    \/ x[1] = "swap" /\ SwapIn(p, x[2], x[3], s, t)
    \/ x[1] = "ready" /\ ReadyIn(x[2], x[3], s, t)
    \/ x[1] = "takeall" /\ TakeAllIn(p, x[2], x[3], s, t)
    \/ x[1] = "swapall" /\ SwapAllIn(p, x[2], x[3], s, t)
    \/ x[1] = "unmap" /\ UnmapIn(p, x[2], s, t)
    \/ x[1] = "new" /\ NewIn(p, x[2], x[3], s, t)
    \/ x[1] = "own" /\ OwnIn(p, x[2], x[3], s, t)
    \/ x[1] = "movetarget" /\ MoveTargetIn(p, x[2], x[3], s, t)
    \/ x[1] = "swaptarget" /\ SwapTargetIn(p, x[2], x[3], s, t)
    \/ x[1] = "release" /\ ReleaseIn(p, x[2], s, t)
    \/ x[1] = "destroy" /\ DestroyIn(p, x[2], s, t)
    \/ x[1] = "free" /\ FreeIn(p, x[2], s, t)
    \/ x[1] = "forget" /\ ForgetIn(p, x[2], s, t)

(* From view s the steps w come to view t. *)
Trace(p, w, v) ==
    /\ v \in [0..Len(w) -> Views]
    /\ \A i \in 1..Len(w) : Moves(p, w[i], v[i - 1], v[i])
Runs(p, w, s, t) == \E v : Trace(p, w, v) /\ v[0] = s /\ v[Len(w)] = t

-----------------------------------------------------------------------------
(* Runs.                                                                   *)

LEMMA RunsNone ==
    ASSUME NEW p, NEW s \in Views
    PROVE  Runs(p, <<>>, s, s)
<1>. DEFINE v == [i \in 0..0 |-> s]
<1>1. Len(<<>>) = 0
  OBVIOUS
<1>2. Trace(p, <<>>, v) /\ v[0] = s
  BY DEF Trace
<1>. QED  BY <1>1, <1>2 DEF Runs

LEMMA RunsOne ==
    ASSUME NEW p, NEW x, NEW s \in Views, NEW t \in Views, Moves(p, x, s, t)
    PROVE  Runs(p, <<x>>, s, t)
<1>. DEFINE w == <<x>>
            v == [i \in 0..1 |-> IF i = 0 THEN s ELSE t]
<1>1. Len(w) = 1 /\ w[1] = x
  OBVIOUS
<1>2. v \in [0..1 -> Views] /\ v[0] = s /\ v[1] = t
  OBVIOUS
<1>. HIDE DEF v, w
<1>3. \A i \in 1..1 : i = 1 /\ i - 1 = 0
  OBVIOUS
<1>4. Trace(p, w, v)
  BY <1>1, <1>2, <1>3 DEF Trace
<1>. QED  BY <1>1, <1>2, <1>4 DEF Runs, w

LEMMA RunsThen ==
    ASSUME NEW p, NEW X, NEW a \in Seq(X), NEW b \in Seq(X), NEW s, NEW r, NEW t,
           Runs(p, a, s, r), Runs(p, b, r, t)
    PROVE  Runs(p, a \o b, s, t)
<1>1. PICK u : Trace(p, a, u) /\ u[0] = s /\ u[Len(a)] = r
  BY DEF Runs
<1>2. PICK v : Trace(p, b, v) /\ v[0] = r /\ v[Len(b)] = t
  BY DEF Runs
<1>3. PICK k \in Nat : k = Len(a)
  OBVIOUS
<1>4. PICK l \in Nat : l = Len(b)
  OBVIOUS
<1>c. PICK c : c = a \o b
  OBVIOUS
<1>5. /\ Len(c) = k + l
      /\ \A i \in 1..k : c[i] = a[i]
      /\ \A i \in (k + 1)..(k + l) : c[i] = b[i - k]
  <2>. SUFFICES /\ Len(c) = Len(a) + Len(b)
                /\ \A i \in 1..Len(a) : c[i] = a[i]
                /\ \A i \in (Len(a) + 1)..(Len(a) + Len(b)) : c[i] = b[i - Len(a)]
    BY <1>3, <1>4
  <2>. QED  BY ONLY <1>c, a \in Seq(X), b \in Seq(X)
<1>6. /\ u \in [0..k -> Views] /\ u[0] = s /\ u[k] = r
      /\ \A i \in 1..k : Moves(p, a[i], u[i - 1], u[i])
  BY <1>1, <1>3 DEF Trace
<1>7. /\ v \in [0..l -> Views] /\ v[0] = r /\ v[l] = t
      /\ \A i \in 1..l : Moves(p, b[i], v[i - 1], v[i])
  BY <1>2, <1>4 DEF Trace
<1>. DEFINE w == [i \in 0..(k + l) |-> IF i <= k THEN u[i] ELSE v[i - k]]
<1>8. /\ \A i \in 0..k : w[i] = u[i]
      /\ \A i \in 0..l : w[k + i] = v[i]
  <2>1. \A i \in 0..k : w[i] = u[i]
    OBVIOUS
  <2>2. ASSUME NEW i \in 0..l
        PROVE  w[k + i] = v[i]
    <3>1. CASE i = 0
      BY <1>6, <1>7, <3>1
    <3>2. CASE i # 0
      <4>1. k + i \in 0..(k + l) /\ ~(k + i <= k) /\ (k + i) - k = i
        BY <3>2
      <4>. QED  BY <4>1
    <3>. QED  BY <3>1, <3>2
  <2>. QED  BY <2>1, <2>2
<1>9. w \in [0..(k + l) -> Views]
  <2>. SUFFICES ASSUME NEW i \in 0..(k + l) PROVE (IF i <= k THEN u[i] ELSE v[i - k]) \in Views
    OBVIOUS
  <2>1. CASE i <= k
    <3>1. i \in 0..k
      BY <2>1
    <3>. QED  BY <1>6, <2>1, <3>1
  <2>2. CASE ~(i <= k)
    <3>1. i - k \in 0..l
      BY <2>2
    <3>. QED  BY <1>7, <2>2, <3>1
  <2>. QED  BY <2>1, <2>2
<1>. HIDE DEF w
<1>10. ASSUME NEW i \in 1..(k + l)
       PROVE  Moves(p, c[i], w[i - 1], w[i])
  <2>1. CASE i <= k
    <3>1. i \in 1..k /\ i \in 0..k /\ i - 1 \in 0..k
      BY <2>1
    <3>. QED  BY <1>5, <1>6, <1>8, <3>1
  <2>2. CASE ~(i <= k)
    <3>1. PICK j \in 1..l : i = k + j /\ i \in (k + 1)..(k + l) /\ i - k = j
      <4>1. i - k \in 1..l /\ i = k + (i - k) /\ i \in (k + 1)..(k + l)
        BY <2>2
      <4>. QED  BY <4>1
    <3>2. j \in 0..l /\ j - 1 \in 0..l /\ i - 1 = k + (j - 1)
      BY <3>1
    <3>3. w[i] = v[j] /\ w[i - 1] = v[j - 1] /\ c[i] = b[j]
      BY <1>5, <1>8, <3>1, <3>2
    <3>. QED  BY <1>7, <3>3
  <2>. QED  BY <2>1, <2>2
<1>11. w[0] = s /\ w[k + l] = t
  <2>1. 0 \in 0..k /\ l \in 0..l
    OBVIOUS
  <2>. QED  BY <1>6, <1>7, <1>8, <2>1
<1>12. Trace(p, c, w)
  BY <1>5, <1>9, <1>10 DEF Trace
<1>. QED  BY <1>5, <1>11, <1>12, <1>c DEF Runs

LEMMA RunsHead ==
    ASSUME NEW p, NEW X, NEW w \in Seq(X), w # <<>>, NEW s, NEW t, Runs(p, w, s, t)
    PROVE  /\ s \in Views
           /\ \E r \in Views : Moves(p, Head(w), s, r) /\ Runs(p, Tail(w), r, t)
<1>1. PICK v : Trace(p, w, v) /\ v[0] = s /\ v[Len(w)] = t
  BY DEF Runs
<1>2. PICK k \in Nat : k + 1 = Len(w)
  <2>1. Len(w) \in Nat /\ Len(w) # 0
    OBVIOUS
  <2>2. Len(w) - 1 \in Nat /\ (Len(w) - 1) + 1 = Len(w)
    BY <2>1
  <2>. QED  BY <2>2
<1>b. PICK b : b = Tail(w)
  OBVIOUS
<1>3. Len(b) = k /\ \A i \in 1..k : b[i] = w[i + 1]
  <2>1. Len(b) = Len(w) - 1 /\ \A i \in 1..(Len(w) - 1) : b[i] = w[i + 1]
    BY <1>b, HeadTailProperties
  <2>2. Len(w) - 1 = k
    BY <1>2
  <2>. QED  BY <2>1, <2>2
<1>4. Head(w) = w[1]
  OBVIOUS
<1>5. /\ v \in [0..(k + 1) -> Views] /\ v[k + 1] = t
      /\ \A i \in 1..(k + 1) : Moves(p, w[i], v[i - 1], v[i])
  BY <1>1, <1>2 DEF Trace
<1>. DEFINE u == [i \in 0..k |-> v[i + 1]]
<1>6. u \in [0..k -> Views] /\ \A i \in 0..k : u[i] = v[i + 1]
  BY <1>5
<1>. HIDE DEF u
<1>7. ASSUME NEW i \in 1..k
      PROVE  Moves(p, b[i], u[i - 1], u[i])
  <2>1. i \in 0..k /\ i - 1 \in 0..k /\ i + 1 \in 1..(k + 1) /\ (i + 1) - 1 = i /\ (i - 1) + 1 = i
    OBVIOUS
  <2>. QED  BY <1>3, <1>5, <1>6, <2>1
<1>8. 0 \in 0..k /\ k \in 0..k /\ 0 + 1 = 1 /\ 1 \in 1..(k + 1) /\ 1 - 1 = 0 /\ 0 \in 0..(k + 1) /\ 1 \in 0..(k + 1)
  OBVIOUS
<1>9. u[0] = v[1] /\ u[k] = t /\ v[1] \in Views /\ s \in Views
  BY <1>1, <1>5, <1>6, <1>8
<1>10. Moves(p, w[1], s, v[1])
  BY <1>1, <1>5, <1>8
<1>11. Trace(p, b, u)
  BY <1>3, <1>6, <1>7 DEF Trace
<1>12. Runs(p, b, v[1], t)
  BY <1>3, <1>9, <1>11 DEF Runs
<1>. QED  BY <1>4, <1>9, <1>10, <1>12, <1>b

LEMMA RunsEnd ==
    ASSUME NEW p, NEW s, NEW t, Runs(p, <<>>, s, t)
    PROVE  s = t /\ s \in Views
<1>1. PICK v : Trace(p, <<>>, v) /\ v[0] = s /\ v[Len(<<>>)] = t
  BY DEF Runs
<1>2. Len(<<>>) = 0 /\ 0 \in 0..0
  OBVIOUS
<1>. QED  BY <1>1, <1>2 DEF Trace

-----------------------------------------------------------------------------
(* Where things are.                                                       *)

LEMMA MapsAreMemories ==
    ASSUME NEW p, NEW s \in Views
    PROVE  MapsIn(p, s) \subseteq Memories
BY HomesAssumption DEF MapsIn, Views

LEMMA SameMaps ==
    ASSUME NEW p, NEW s, NEW t, t.shm = s.shm
    PROVE  MapsIn(p, t) = MapsIn(p, s)
BY DEF MapsIn

LEMMA WithinPlaced ==
    ASSUME NEW p \in Procs, NEW s \in Views, NEW r, Within(p, s, r), HandlePlaced(p, s, r)
    PROVE  r \in Handles /\ s.impl[r] \in MapsIn(p, s) \cup {None} /\ Fits(r, s.impl[r])
<1>1. Home[r] \in MapsIn(p, s) => Home[r] \in Memories
  BY MapsAreMemories
<1>. QED  BY <1>1 DEF Within, HandlePlaced, Fits

LEMMA WithinTarget ==
    ASSUME NEW p \in Procs, NEW s \in Views, NEW u \in Uniques, Within(p, s, u),
           TargetPlaced(p, s, u), s.target[u] # None
    PROVE  HeapOf[s.target[u]] \in MapsIn(p, s) /\ Fits(u, HeapOf[s.target[u]])
<1>1. Home[u] \in MapsIn(p, s) => Home[u] \in Memories
  BY MapsAreMemories
<1>2. s.target[u] \in Objects /\ HeapOf[s.target[u]] \in Memories
  BY HomesAssumption DEF Views
<1>3. HeapOf[s.target[u]] # None
  BY <1>2, HomesAssumption
<1>. QED  BY <1>1, <1>3 DEF Within, TargetPlaced, Fits

(* The mappings stay, and what changes is placed. *)
ChangesPlaced(p, s, t) ==
    /\ MapsIn(p, t) = MapsIn(p, s)
    /\ \A h \in Handles : t.impl[h] = s.impl[h] \/ HandlePlaced(p, t, h)
    /\ \A u \in Uniques : t.target[u] = s.target[u] \/ TargetPlaced(p, t, u)

LEMMA PlacedIf ==
    ASSUME NEW p, NEW s, NEW t, Placed(p, s), ChangesPlaced(p, s, t)
    PROVE  Placed(p, t)
<1>1. ASSUME NEW h \in Handles, t.impl[h] = s.impl[h]
      PROVE  HandlePlaced(p, t, h)
  BY <1>1 DEF Placed, HandlePlaced, ChangesPlaced
<1>2. ASSUME NEW u \in Uniques, t.target[u] = s.target[u]
      PROVE  TargetPlaced(p, t, u)
  BY <1>2 DEF Placed, TargetPlaced, ChangesPlaced
<1>. QED  BY <1>1, <1>2 DEF Placed, ChangesPlaced

LEMMA HandleSet ==
    ASSUME NEW p, NEW s \in Views, NEW t \in Views, NEW d \in Handles, NEW m,
           t.impl = [s.impl EXCEPT ![d] = m], t.shm = s.shm, t.target = s.target,
           Placed(p, s), m \in MapsIn(p, s) \cup {None} \/ Home[d] # p, Fits(d, m)
    PROVE  Placed(p, t)
<1>1. MapsIn(p, t) = MapsIn(p, s)
  BY SameMaps
<1>2. t.impl[d] = m /\ \A h \in Handles \ {d} : t.impl[h] = s.impl[h]
  BY DEF Views
<1>3. HandlePlaced(p, t, d)
  BY <1>1, <1>2 DEF HandlePlaced
<1>4. ChangesPlaced(p, s, t)
  BY <1>1, <1>2, <1>3 DEF ChangesPlaced
<1>. QED  BY <1>4, PlacedIf

LEMMA TargetSet ==
    ASSUME NEW p, NEW s \in Views, NEW t \in Views, NEW u \in Uniques, NEW o,
           t.target = [s.target EXCEPT ![u] = o], t.shm = s.shm, t.impl = s.impl,
           Placed(p, s), o # None => HeapOf[o] \in MapsIn(p, s) /\ Fits(u, HeapOf[o])
    PROVE  Placed(p, t)
<1>1. MapsIn(p, t) = MapsIn(p, s)
  BY SameMaps
<1>2. t.target[u] = o /\ \A v \in Uniques \ {u} : t.target[v] = s.target[v]
  BY DEF Views
<1>3. TargetPlaced(p, t, u)
  BY <1>1, <1>2 DEF TargetPlaced
<1>4. ChangesPlaced(p, s, t)
  BY <1>1, <1>2, <1>3 DEF ChangesPlaced
<1>. QED  BY <1>4, PlacedIf

(* Among its own variables, a process can move a mapping about. *)
LEMMA MapsMoved ==
    ASSUME NEW p, NEW s \in Views, NEW t \in Views, NEW d \in Held, NEW r \in Held,
           Home[d] = p, Home[r] = p, d # r,
           \/ t.shm = Taken(s.shm, d, r) /\ s.shm[d] = None
           \/ t.shm = Swapped(s.shm, d, r)
    PROVE  MapsIn(p, t) = MapsIn(p, s)
<1>1. s.shm \in [Held -> Memories \cup {None}]
  BY DEF Views
<1>2. /\ \A x \in Held \ {d, r} : t.shm[x] = s.shm[x]
      /\ t.shm[d] = s.shm[r] /\ t.shm[r] = s.shm[d]
  <2>1. CASE t.shm = Taken(s.shm, d, r) /\ s.shm[d] = None
    BY <1>1, <2>1 DEF Taken
  <2>2. CASE t.shm = Swapped(s.shm, d, r)
    BY <1>1, <2>2 DEF Swapped
  <2>. QED  BY <2>1, <2>2
<1>3. ASSUME NEW x \in Held, Home[x] = p
      PROVE  /\ \E y \in Held : Home[y] = p /\ t.shm[y] = s.shm[x]
             /\ \E y \in Held : Home[y] = p /\ s.shm[y] = t.shm[x]
  BY <1>2, <1>3
<1>. QED  BY <1>3 DEF MapsIn

LEMMA MappedHome ==
    ASSUME NEW p, NEW s \in Views, NEW d \in Held, Home[d] = p
    PROVE  s.shm[d] \in MapsIn(p, s) \cup {None}
BY DEF MapsIn

LEMMA OwnFits ==
    ASSUME NEW p \in Procs, NEW d, Home[d] = p, NEW m
    PROVE  Fits(d, m)
BY KindsAssumption DEF Fits

LEMMA HeldAreHandles == Held \subseteq Handles
BY DEF Held, Handles

LEMMA MovesMaps ==
    ASSUME NEW p, NEW x, NEW s \in Views, NEW t \in Views, Moves(p, x, s, t), x[1] # "unmap"
    PROVE  MapsIn(p, t) = MapsIn(p, s)
<1>1. CASE x[1] = "takeall"
  BY <1>1, MapsMoved DEF Moves, TakeAllIn, Becomes
<1>2. CASE x[1] = "swapall"
  BY <1>2, MapsMoved DEF Moves, SwapAllIn, Becomes
<1>3. CASE x[1] \notin {"takeall", "swapall"}
  <2>1. t.shm = s.shm
    BY <1>3 DEF Moves, BindIn, TakeIn, AttachIn, CreateIn, UnbindIn, DropIn, ClearIn, SwapIn, ReadyIn,
                NewIn, OwnIn, MoveTargetIn, SwapTargetIn, ReleaseIn, DestroyIn, FreeIn,
                ForgetIn, Becomes
  <2>. QED  BY <2>1, SameMaps
<1>. QED  BY <1>1, <1>2, <1>3

(* A step leaves everything placed. *)
LEMMA MovesPlaced ==
    ASSUME NEW p \in Procs, NEW x, NEW s \in Views, NEW t \in Views, Moves(p, x, s, t), Placed(p, s)
    PROVE  Placed(p, t)
<1>. DEFINE d == x[2]
            r == x[3]
<1>. HIDE DEF d, r
<1>0. /\ \A h \in Handles : HandlePlaced(p, s, h)
      /\ \A u \in Uniques : TargetPlaced(p, s, u)
      /\ Uniques \subseteq Handles
  BY DEF Placed, Handles
<1>n. \A h : Fits(h, None)
  BY DEF Fits
<1>v. /\ s.impl \in [Handles -> Memories \cup {None}] /\ s.target \in [Uniques -> Objects \cup {None}]
      /\ s.shm \in [Held -> Memories \cup {None}]
  BY DEF Views
<1>1. ASSUME BindIn(p, d, r, s, t) PROVE Placed(p, t)
  <2>1. Within(p, s, r) /\ r \in Handles /\ d \in Handles /\ Fits(d, s.impl[r])
    BY <1>1 DEF BindIn, Within
  <2>2. s.impl[r] \in MapsIn(p, s) \cup {None}
    BY <1>0, <2>1, WithinPlaced
  <2>. QED  BY <1>1, <2>1, <2>2, HandleSet DEF BindIn, Becomes
<1>2. ASSUME AttachIn(p, d, r, s, t) \/ CreateIn(p, d, r, s, t) PROVE Placed(p, t)
  <2>1. d \in Handles /\ r \in MapsIn(p, s) /\ Fits(d, r)
    BY <1>2, OwnFits DEF AttachIn, CreateIn
  <2>. QED  BY <1>2, <2>1, HandleSet DEF AttachIn, CreateIn, Becomes
<1>3. ASSUME DropIn(p, d, s, t) \/ ClearIn(p, d, s, t) PROVE Placed(p, t)
  <2>1. d \in Handles
    BY <1>3 DEF DropIn, ClearIn, Within
  <2>. QED  BY <1>3, <1>n, <2>1, HandleSet DEF DropIn, ClearIn, Becomes
<1>4. ASSUME TakeIn(p, d, r, s, t) \/ SwapIn(p, d, r, s, t) PROVE Placed(p, t)
  <2>1. /\ Within(p, s, d) /\ Within(p, s, r) /\ d # r /\ Fits(d, s.impl[r])
        /\ t.shm = s.shm /\ t.target = s.target
        /\ \/ t.impl = Taken(s.impl, d, r)
           \/ t.impl = Swapped(s.impl, d, r) /\ Fits(r, s.impl[d])
    BY <1>4 DEF TakeIn, SwapIn, Becomes
  <2>2. /\ d \in Handles /\ s.impl[d] \in MapsIn(p, s) \cup {None}
        /\ r \in Handles /\ s.impl[r] \in MapsIn(p, s) \cup {None}
    BY <1>0, <2>1, WithinPlaced DEF Within
  <2>3. /\ \A h \in Handles \ {d, r} : t.impl[h] = s.impl[h]
        /\ t.impl[d] = s.impl[r]
        /\ t.impl[r] = None \/ (t.impl[r] = s.impl[d] /\ Fits(r, s.impl[d]))
    <3>1. CASE t.impl = Taken(s.impl, d, r)
      BY <1>v, <2>1, <2>2, <3>1 DEF Taken
    <3>2. CASE t.impl = Swapped(s.impl, d, r) /\ Fits(r, s.impl[d])
      BY <1>v, <2>1, <2>2, <3>2 DEF Swapped
    <3>. QED  BY <2>1, <3>1, <3>2
  <2>4. MapsIn(p, t) = MapsIn(p, s)
    BY <2>1, SameMaps
  <2>5. HandlePlaced(p, t, d) /\ HandlePlaced(p, t, r)
    BY <1>n, <2>1, <2>2, <2>3, <2>4 DEF HandlePlaced
  <2>6. /\ \A h \in Handles : t.impl[h] = s.impl[h] \/ HandlePlaced(p, t, h)
        /\ \A u \in Uniques : t.target[u] = s.target[u]
    BY <2>1, <2>3, <2>5
  <2>. QED  BY <2>4, <2>6, PlacedIf DEF ChangesPlaced
<1>5. ASSUME t.impl = s.impl, t.target = s.target, t.shm = s.shm PROVE Placed(p, t)
  <2>1. MapsIn(p, t) = MapsIn(p, s)
    BY <1>5, SameMaps
  <2>. QED  BY <1>5, <2>1, PlacedIf DEF ChangesPlaced
<1>6. ASSUME UnbindIn(p, d, s, t) \/ ReadyIn(d, r, s, t) \/ NewIn(p, d, r, s, t)
             \/ DestroyIn(p, d, s, t) \/ FreeIn(p, d, s, t)
      PROVE  Placed(p, t)
  BY <1>5, <1>6 DEF UnbindIn, ReadyIn, NewIn, DestroyIn, FreeIn, Becomes
<1>7. ASSUME TakeAllIn(p, d, r, s, t) \/ SwapAllIn(p, d, r, s, t) PROVE Placed(p, t)
  <2>1. /\ d \in Held /\ r \in Held /\ d # r /\ Home[d] = p /\ Home[r] = p
        /\ \/ t.shm = Taken(s.shm, d, r) /\ s.shm[d] = None
           \/ t.shm = Swapped(s.shm, d, r)
        /\ t.impl = Taken(s.impl, d, r) \/ t.impl = Swapped(s.impl, d, r)
        /\ t.target = s.target
    BY <1>7 DEF TakeAllIn, SwapAllIn, Becomes
  <2>2. d \in Handles /\ r \in Handles /\ Fits(d, t.impl[d]) /\ Fits(r, t.impl[r])
    BY <2>1, HeldAreHandles, OwnFits
  <2>3. MapsIn(p, t) = MapsIn(p, s)
    BY <2>1, MapsMoved
  <2>4. s.impl[d] \in MapsIn(p, s) \cup {None} /\ s.impl[r] \in MapsIn(p, s) \cup {None}
    BY <1>0, <2>1, <2>2 DEF HandlePlaced
  <2>5. /\ \A h \in Handles \ {d, r} : t.impl[h] = s.impl[h]
        /\ t.impl[d] = s.impl[r]
        /\ t.impl[r] = None \/ t.impl[r] = s.impl[d]
    <3>1. CASE t.impl = Taken(s.impl, d, r)
      BY <1>v, <2>1, <2>2, <3>1 DEF Taken
    <3>2. CASE t.impl = Swapped(s.impl, d, r)
      BY <1>v, <2>1, <2>2, <3>2 DEF Swapped
    <3>. QED  BY <2>1, <3>1, <3>2
  <2>6. HandlePlaced(p, t, d) /\ HandlePlaced(p, t, r)
    BY <2>1, <2>2, <2>3, <2>4, <2>5 DEF HandlePlaced
  <2>7. /\ \A h \in Handles : t.impl[h] = s.impl[h] \/ HandlePlaced(p, t, h)
        /\ \A u \in Uniques : t.target[u] = s.target[u]
    BY <2>1, <2>5, <2>6
  <2>. QED  BY <2>3, <2>7, PlacedIf DEF ChangesPlaced
<1>8. ASSUME UnmapIn(p, d, s, t) PROVE Placed(p, t)
  <2>1. /\ d \in Held /\ Home[d] = p
        /\ t.impl = s.impl /\ t.target = s.target
        /\ t.shm[d] = None /\ \A y \in Held \ {d} : t.shm[y] = s.shm[y]
    BY <1>8, <1>v DEF UnmapIn, Becomes
  <2>2. ASSUME NEW m \in MapsIn(p, s), m # s.shm[d]
        PROVE  m \in MapsIn(p, t)
    BY <2>1, <2>2 DEF MapsIn
  <2>3. ASSUME s.shm[d] # None
        PROVE  /\ \A h \in Handles : Home[h] = p => s.impl[h] # s.shm[d]
               /\ \A u \in Uniques : Home[u] = p /\ s.target[u] # None =>
                                     HeapOf[s.target[u]] # s.shm[d]
    BY <1>8, <2>3 DEF UnmapIn
  <2>4. None \notin MapsIn(p, s)
    BY DEF MapsIn
  <2>5. ASSUME NEW h \in Handles PROVE HandlePlaced(p, t, h)
    BY <1>0, <2>1, <2>2, <2>3, <2>4 DEF HandlePlaced
  <2>6. ASSUME NEW u \in Uniques PROVE TargetPlaced(p, t, u)
    BY <1>0, <2>1, <2>2, <2>3, <2>4 DEF TargetPlaced
  <2>. QED  BY <2>5, <2>6 DEF Placed
<1>9. ASSUME OwnIn(p, d, r, s, t) PROVE Placed(p, t)
  BY <1>9, TargetSet DEF OwnIn, Becomes
<1>10. ASSUME ReleaseIn(p, d, s, t) \/ ForgetIn(p, d, s, t) PROVE Placed(p, t)
  BY <1>10, TargetSet DEF ReleaseIn, ForgetIn, Becomes
<1>11. ASSUME MoveTargetIn(p, d, r, s, t) \/ SwapTargetIn(p, d, r, s, t) PROVE Placed(p, t)
  <2>1. /\ d \in Uniques /\ r \in Uniques /\ Within(p, s, d) /\ Within(p, s, r) /\ d # r
        /\ s.target[r] # None => Fits(d, HeapOf[s.target[r]])
        /\ t.shm = s.shm /\ t.impl = s.impl
        /\ \/ t.target = Taken(s.target, d, r)
           \/ /\ t.target = Swapped(s.target, d, r)
              /\ s.target[d] # None => Fits(r, HeapOf[s.target[d]])
    BY <1>11 DEF MoveTargetIn, SwapTargetIn, Becomes
  <2>2. /\ s.target[d] # None => HeapOf[s.target[d]] \in MapsIn(p, s)
        /\ s.target[r] # None => HeapOf[s.target[r]] \in MapsIn(p, s)
    BY <1>0, <2>1, WithinTarget
  <2>3. /\ \A u \in Uniques \ {d, r} : t.target[u] = s.target[u]
        /\ t.target[d] = s.target[r]
        /\ \/ t.target[r] = None
           \/ t.target[r] = s.target[d] /\ (s.target[d] # None => Fits(r, HeapOf[s.target[d]]))
    <3>1. CASE t.target = Taken(s.target, d, r)
      BY <1>v, <2>1, <3>1 DEF Taken
    <3>2. CASE t.target = Swapped(s.target, d, r) /\ (s.target[d] # None => Fits(r, HeapOf[s.target[d]]))
      BY <1>v, <2>1, <3>2 DEF Swapped
    <3>. QED  BY <2>1, <3>1, <3>2
  <2>4. MapsIn(p, t) = MapsIn(p, s)
    BY <2>1, SameMaps
  <2>5. TargetPlaced(p, t, d) /\ TargetPlaced(p, t, r)
    BY <2>1, <2>2, <2>3, <2>4 DEF TargetPlaced
  <2>6. /\ \A u \in Uniques : t.target[u] = s.target[u] \/ TargetPlaced(p, t, u)
        /\ \A h \in Handles : t.impl[h] = s.impl[h]
    BY <2>1, <2>3, <2>5
  <2>. QED  BY <2>4, <2>6, PlacedIf DEF ChangesPlaced
<1>. QED  BY <1>1, <1>2, <1>3, <1>4, <1>6, <1>7, <1>8, <1>9, <1>10, <1>11 DEF Moves, d, r

-----------------------------------------------------------------------------
(* What a run leaves alone.                                                *)

Ops(w) == {w[i][2] : i \in DOMAIN w} \cup {w[i][3] : i \in DOMAIN w}

SameAt(s, t, v) ==
    /\ t.impl[v] = s.impl[v]
    /\ v \in Held => t.shm[v] = s.shm[v]
    /\ v \in Uniques => t.target[v] = s.target[v]

LEMMA MovesKeeps ==
    ASSUME NEW p, NEW x, NEW s \in Views, NEW t \in Views, Moves(p, x, s, t),
           NEW v \in Handles, v # x[2], v # x[3]
    PROVE  SameAt(s, t, v)
<1>. DEFINE d == x[2]
            r == x[3]
<1>. HIDE DEF d, r
<1>0. v # d /\ v # r
  BY DEF d, r
<1>v. /\ s.impl \in [Handles -> Memories \cup {None}] /\ s.target \in [Uniques -> Objects \cup {None}]
      /\ s.shm \in [Held -> Memories \cup {None}]
  BY DEF Views
<1>1. ASSUME \/ BindIn(p, d, r, s, t) \/ AttachIn(p, d, r, s, t) \/ CreateIn(p, d, r, s, t)
             \/ DropIn(p, d, s, t)             \/ ClearIn(p, d, s, t)
      PROVE  SameAt(s, t, v)
  BY <1>0, <1>1, <1>v DEF BindIn, AttachIn, CreateIn, DropIn, ClearIn, Becomes, SameAt
<1>2. ASSUME TakeIn(p, d, r, s, t) \/ SwapIn(p, d, r, s, t) PROVE SameAt(s, t, v)
  BY <1>0, <1>2, <1>v DEF TakeIn, SwapIn, Becomes, SameAt, Taken, Swapped
<1>3. ASSUME TakeAllIn(p, d, r, s, t) \/ SwapAllIn(p, d, r, s, t) PROVE SameAt(s, t, v)
  BY <1>0, <1>3, <1>v DEF TakeAllIn, SwapAllIn, Becomes, SameAt, Taken, Swapped
<1>4. ASSUME \/ UnbindIn(p, d, s, t) \/ ReadyIn(d, r, s, t) \/ NewIn(p, d, r, s, t)
             \/ DestroyIn(p, d, s, t) \/ FreeIn(p, d, s, t)
      PROVE  SameAt(s, t, v)
  BY <1>4 DEF UnbindIn, ReadyIn, NewIn, DestroyIn, FreeIn, Becomes, SameAt
<1>5. ASSUME UnmapIn(p, d, s, t) PROVE SameAt(s, t, v)
  BY <1>0, <1>5, <1>v DEF UnmapIn, Becomes, SameAt
<1>6. ASSUME OwnIn(p, d, r, s, t) \/ ReleaseIn(p, d, s, t) \/ ForgetIn(p, d, s, t)
      PROVE  SameAt(s, t, v)
  BY <1>0, <1>6, <1>v DEF OwnIn, ReleaseIn, ForgetIn, Becomes, SameAt
<1>7. ASSUME MoveTargetIn(p, d, r, s, t) \/ SwapTargetIn(p, d, r, s, t) PROVE SameAt(s, t, v)
  BY <1>0, <1>7, <1>v DEF MoveTargetIn, SwapTargetIn, Becomes, SameAt, Taken, Swapped
<1>. QED  BY <1>1, <1>2, <1>3, <1>4, <1>5, <1>6, <1>7 DEF Moves, d, r

LEMMA MovesTaint ==
    ASSUME NEW p, NEW x, NEW s, NEW t, Moves(p, x, s, t)
    PROVE  t.taint = s.taint
BY DEF Moves, BindIn, TakeIn, AttachIn, CreateIn, UnbindIn, DropIn, ClearIn, SwapIn, ReadyIn, TakeAllIn,
       SwapAllIn, UnmapIn, NewIn, OwnIn, MoveTargetIn, SwapTargetIn, ReleaseIn, DestroyIn,
       FreeIn, ForgetIn, Becomes

LEMMA LeastOf ==
    ASSUME NEW T \in SUBSET Nat, T # {}
    PROVE  \E n \in T : \A k \in T : n <= k
<1>. DEFINE I == {0..n : n \in T}
<1>1. IsWellFoundedOn(StrictSubsetOrdering(Nat), FiniteSubsetsOf(Nat))
  BY FS_StrictSubsetOrderingWellFounded
<1>2. I # {} /\ I \subseteq FiniteSubsetsOf(Nat)
  <2>1. \A n \in T : IsFiniteSet(0..n) /\ 0..n \in SUBSET Nat
    BY FS_Interval
  <2>. QED  BY <2>1 DEF FiniteSubsetsOf
<1>3. PICK i \in I : \A j \in I : <<j, i>> \notin StrictSubsetOrdering(Nat)
  <2>. HIDE DEF I
  <2>. QED  BY <1>1, <1>2, WFMin, Zenon
<1>4. PICK n \in T : i = 0..n
  OBVIOUS
<1>5. ASSUME NEW k \in T
      PROVE  n <= k
  <2>1. <<0..k, 0..n>> \notin StrictSubsetOrdering(Nat)
    BY <1>3, <1>4
  <2>2. ~(0..k \subseteq 0..n /\ 0..k # 0..n)
    BY <2>1 DEF StrictSubsetOrdering
  <2>3. n \in 0..n
    OBVIOUS
  <2>. QED  BY <2>2, <2>3
<1>. QED  BY <1>5

LEMMA SetInduction ==
    ASSUME NEW T, 0 \in T, \A n \in Nat : n \in T => n + 1 \in T
    PROVE  \A n \in Nat : n \in T
<1>. DEFINE Out == {n \in Nat : n \notin T}
<1>. SUFFICES ASSUME Out # {} PROVE FALSE
  OBVIOUS
<1>1. PICK n \in Out : \A k \in Out : n <= k
  BY LeastOf
<1>2. n # 0 /\ n - 1 \in Nat
  BY <1>1
<1>3. n - 1 \in T
  BY <1>1, <1>2
<1>. QED  BY <1>1, <1>2, <1>3

LEMMA RunsKeeps ==
    ASSUME NEW p, NEW X, NEW w \in Seq(X), NEW s, NEW t, Runs(p, w, s, t)
    PROVE  t.taint = s.taint /\ \A v \in Handles \ Ops(w) : SameAt(s, t, v)
<1>1. PICK u : Trace(p, w, u) /\ u[0] = s /\ u[Len(w)] = t
  BY DEF Runs
<1>2. PICK n \in Nat : n = Len(w)
  OBVIOUS
<1>3. /\ u \in [0..n -> Views] /\ u[n] = t
      /\ \A i \in 1..n : Moves(p, w[i], u[i - 1], u[i])
  BY <1>1, <1>2 DEF Trace
<1>. DEFINE Same(k) == u[k].taint = s.taint /\ \A v \in Handles \ Ops(w) : SameAt(s, u[k], v)
            T == {k \in Nat : k <= n => Same(k)}
<1>4. 0 \in T
  BY <1>1 DEF SameAt
<1>5. ASSUME NEW k \in Nat, k \in T
      PROVE  k + 1 \in T
  <2>. SUFFICES ASSUME k + 1 <= n PROVE Same(k + 1)
    OBVIOUS
  <2>1. k + 1 \in 1..n /\ (k + 1) - 1 = k /\ k \in 0..n /\ k + 1 \in 0..n /\ k <= n
    OBVIOUS
  <2>2. Same(k)
    BY <1>5, <2>1
  <2>3. Moves(p, w[k + 1], u[k], u[k + 1]) /\ u[k] \in Views /\ u[k + 1] \in Views
    BY <1>3, <2>1
  <2>. HIDE DEF Same, T
  <2>4. u[k + 1].taint = s.taint
    BY <2>2, <2>3, MovesTaint DEF Same
  <2>5. ASSUME NEW v \in Handles \ Ops(w)
        PROVE  SameAt(s, u[k + 1], v)
    <3>1. v # w[k + 1][2] /\ v # w[k + 1][3]
      BY <1>2, <2>1, <2>5 DEF Ops
    <3>2. SameAt(u[k], u[k + 1], v)
      BY <2>3, <3>1, MovesKeeps
    <3>. QED  BY <2>2, <3>2 DEF Same, SameAt
  <2>. QED  BY <2>4, <2>5 DEF Same
<1>. HIDE DEF T
<1>6. \A k \in Nat : k \in T
  BY <1>4, <1>5, SetInduction
<1>7. n \in T
  BY <1>6
<1>. QED  BY <1>3, <1>7 DEF T

LEMMA IdleSame ==
    ASSUME NEW s, NEW t, NEW v, SameAt(s, t, v), t.taint = s.taint, Idle(t, v)
    PROVE  Idle(s, v)
BY DEF SameAt, Idle, Right, Wreck, Held

-----------------------------------------------------------------------------
(* Steps w that touch, of the variables, those of V only.                  *)

Things == Handles \cup Memories \cup Objects
StepNames ==
    {"bind", "attach", "unbind", "drop", "clear", "take", "swap", "create", "ready", "takeall",
     "swapall", "unmap", "new", "own", "movetarget", "swaptarget", "release", "destroy",
     "free", "forget"}
Steps == StepNames \X Things \X Things

Does(p, V, w, s, t) ==
    /\ w \in Seq(Steps) /\ Ops(w) \cap Handles \subseteq V
    /\ s \in Views /\ t \in Views /\ Runs(p, w, s, t)

LEMMA DoesNone ==
    ASSUME NEW p, NEW V, NEW s \in Views
    PROVE  Does(p, V, <<>>, s, s)
<1>1. <<>> \in Seq(Steps) /\ Ops(<<>>) = {}
  BY DEF Ops
<1>. QED  BY <1>1, RunsNone DEF Does

LEMMA DoesOne ==
    ASSUME NEW p, NEW V, NEW x \in Steps, {x[2], x[3]} \cap Handles \subseteq V,
           NEW s \in Views, NEW t \in Views, Moves(p, x, s, t)
    PROVE  Does(p, V, <<x>>, s, t)
<1>1. <<x>> \in Seq(Steps) /\ DOMAIN <<x>> = {1} /\ <<x>>[1] = x
  OBVIOUS
<1>2. Ops(<<x>>) = {x[2], x[3]}
  BY <1>1 DEF Ops
<1>. QED  BY <1>1, <1>2, RunsOne DEF Does

LEMMA OpsOfBoth ==
    ASSUME NEW X, NEW a \in Seq(X), NEW b \in Seq(X)
    PROVE  Ops(a \o b) = Ops(a) \cup Ops(b)
<1>c. PICK c : c = a \o b
  OBVIOUS
<1>1. /\ DOMAIN c = 1..(Len(a) + Len(b)) /\ DOMAIN a = 1..Len(a) /\ DOMAIN b = 1..Len(b)
      /\ \A i \in 1..Len(a) : c[i] = a[i]
      /\ \A i \in (Len(a) + 1)..(Len(a) + Len(b)) : c[i] = b[i - Len(a)]
      /\ Len(a) \in Nat /\ Len(b) \in Nat
  BY <1>c
<1>2. PICK k \in Nat : k = Len(a)
  BY <1>1
<1>3. PICK l \in Nat : l = Len(b)
  BY <1>1
<1>4. ASSUME NEW i \in 1..(k + l)
      PROVE  (\E j \in 1..k : c[i] = a[j]) \/ (\E j \in 1..l : c[i] = b[j])
  <2>1. CASE i <= k
    <3>1. i \in 1..k
      BY <2>1
    <3>. QED  BY <1>1, <1>2, <3>1
  <2>2. CASE ~(i <= k)
    <3>1. i - k \in 1..l /\ i \in (k + 1)..(k + l)
      BY <2>2
    <3>. QED  BY <1>1, <1>2, <1>3, <3>1
  <2>. QED  BY <2>1, <2>2
<1>5. ASSUME NEW j \in 1..k
      PROVE  j \in 1..(k + l) /\ c[j] = a[j]
  BY <1>1, <1>2
<1>6. ASSUME NEW j \in 1..l
      PROVE  k + j \in 1..(k + l) /\ c[k + j] = b[j]
  <2>1. k + j \in (k + 1)..(k + l) /\ (k + j) - k = j
    OBVIOUS
  <2>. QED  BY <1>1, <1>2, <1>3, <2>1
<1>7. DOMAIN c = 1..(k + l) /\ DOMAIN a = 1..k /\ DOMAIN b = 1..l
  BY <1>1, <1>2, <1>3
<1>8. \A w, e : e \in Ops(w) <=> \E i \in DOMAIN w : e = w[i][2] \/ e = w[i][3]
  BY DEF Ops
<1>9. ASSUME NEW e \in Ops(c)
      PROVE  e \in Ops(a) \/ e \in Ops(b)
  BY <1>4, <1>7, <1>8
<1>10. ASSUME NEW e \in Ops(a)
       PROVE  e \in Ops(c)
  BY <1>5, <1>7, <1>8
<1>11. ASSUME NEW e \in Ops(b)
       PROVE  e \in Ops(c)
  <2>1. PICK j \in 1..l : e = b[j][2] \/ e = b[j][3]
    BY <1>7, <1>8
  <2>2. PICK i \in DOMAIN c : c[i] = b[j]
    BY <1>6, <1>7
  <2>. QED  BY <1>8, <2>1, <2>2
<1>. QED  BY <1>9, <1>10, <1>11, <1>c

LEMMA DoesThen ==
    ASSUME NEW p, NEW V, NEW a, NEW b, NEW s, NEW r, NEW t,
           Does(p, V, a, s, r), Does(p, V, b, r, t)
    PROVE  Does(p, V, a \o b, s, t)
<1>1. a \in Seq(Steps) /\ b \in Seq(Steps)
  BY DEF Does
<1>2. a \o b \in Seq(Steps)
  BY <1>1
<1>3. Ops(a \o b) = Ops(a) \cup Ops(b)
  BY <1>1, OpsOfBoth
<1>4. Runs(p, a \o b, s, t)
  BY <1>1, RunsThen DEF Does
<1>. QED  BY <1>2, <1>3, <1>4 DEF Does

LEMMA DoesTwo ==
    ASSUME NEW p, NEW V, NEW x \in Steps, NEW y \in Steps, NEW s, NEW r, NEW t,
           Does(p, V, <<x>>, s, r), Does(p, V, <<y>>, r, t)
    PROVE  Does(p, V, <<x, y>>, s, t)
<1>1. <<x>> \o <<y>> = <<x, y>>
  <2>1. <<x>> \o <<y>> \in Seq(Steps) /\ <<x, y>> \in Seq(Steps)
    OBVIOUS
  <2>2. Len(<<x>> \o <<y>>) = Len(<<x, y>>) /\ Len(<<x, y>>) = 2
    OBVIOUS
  <2>3. \A i \in 1..2 : (<<x>> \o <<y>>)[i] = <<x, y>>[i]
    OBVIOUS
  <2>. QED  BY <2>1, <2>2, <2>3, SeqEqual
<1>. QED  BY <1>1, DoesThen

LEMMA ThreeAre ==
    ASSUME NEW x \in Steps, NEW y \in Steps, NEW z \in Steps
    PROVE  <<x, y>> \o <<z>> = <<x, y, z>>
<1>1. <<x, y>> \o <<z>> \in Seq(Steps) /\ <<x, y, z>> \in Seq(Steps)
  OBVIOUS
<1>2. Len(<<x, y>> \o <<z>>) = Len(<<x, y, z>>) /\ Len(<<x, y, z>>) = 3
  OBVIOUS
<1>3. \A i \in 1..3 : (<<x, y>> \o <<z>>)[i] = <<x, y, z>>[i]
  OBVIOUS
<1>. QED  BY <1>1, <1>2, <1>3, SeqEqual

LEMMA FiveAre ==
    ASSUME NEW x1 \in Steps, NEW x2 \in Steps, NEW x3 \in Steps, NEW x4 \in Steps, NEW x5 \in Steps
    PROVE  <<x1, x2, x3>> \o <<x4, x5>> = <<x1, x2, x3, x4, x5>>
<1>1. <<x1, x2, x3>> \o <<x4, x5>> \in Seq(Steps) /\ <<x1, x2, x3, x4, x5>> \in Seq(Steps)
  OBVIOUS
<1>2. Len(<<x1, x2, x3>> \o <<x4, x5>>) = 5 /\ Len(<<x1, x2, x3, x4, x5>>) = 5
  OBVIOUS
<1>3. \A i \in 1..5 : (<<x1, x2, x3>> \o <<x4, x5>>)[i] = <<x1, x2, x3, x4, x5>>[i]
  OBVIOUS
<1>. QED  BY <1>1, <1>2, <1>3, SeqEqual

LEMMA DoesThree ==
    ASSUME NEW p, NEW V, NEW x \in Steps, NEW y \in Steps, NEW z \in Steps, NEW s, NEW r, NEW t,
           Does(p, V, <<x, y>>, s, r), Does(p, V, <<z>>, r, t)
    PROVE  Does(p, V, <<x, y, z>>, s, t)
<1>1. Does(p, V, <<x, y>> \o <<z>>, s, t)
  BY DoesThen
<1>2. <<x, y>> \o <<z>> = <<x, y, z>>
  BY ThreeAre
<1>. QED  BY <1>1, <1>2

LEMMA DoesFive ==
    ASSUME NEW p, NEW V, NEW x1 \in Steps, NEW x2 \in Steps, NEW x3 \in Steps, NEW x4 \in Steps,
           NEW x5 \in Steps, NEW s, NEW r, NEW t,
           Does(p, V, <<x1, x2, x3>>, s, r), Does(p, V, <<x4, x5>>, r, t)
    PROVE  Does(p, V, <<x1, x2, x3, x4, x5>>, s, t)
<1>1. Does(p, V, <<x1, x2, x3>> \o <<x4, x5>>, s, t)
  BY DoesThen
<1>2. <<x1, x2, x3>> \o <<x4, x5>> = <<x1, x2, x3, x4, x5>>
  BY FiveAre
<1>. QED  BY <1>1, <1>2

(* The changes of one variable. *)
SetIn(s, t, d, m) ==
    /\ t.impl = [s.impl EXCEPT ![d] = m] /\ t.shm = s.shm /\ t.target = s.target
    /\ t.taint = s.taint /\ t.fresh = s.fresh /\ Clean(t)
MovedIn(s, t, d, r) ==
    /\ t.impl = Taken(s.impl, d, r) /\ t.shm = s.shm /\ t.target = s.target
    /\ t.taint = s.taint /\ t.fresh = s.fresh /\ Clean(t)
TargetIn(s, t, u, o) ==
    /\ t.impl = s.impl /\ t.shm = s.shm /\ t.target = [s.target EXCEPT ![u] = o]
    /\ t.taint = s.taint /\ t.fresh = s.fresh /\ Clean(t)

(* t is s with other handles, mappings, targets, ... *)
Parts(i, m, g, F, tag, v) ==
    /\ i \in [Handles -> Memories \cup {None}] /\ m \in [Held -> Memories \cup {None}]
    /\ g \in [Uniques -> Objects \cup {None}] /\ F \in SUBSET Memories
    /\ tag \in {"new", "clean", "stale", "dying", "freed", "over"} /\ v \in Handles
IsView(s, t, i, m, g, F, tag, v) ==
    t \in Views /\ Becomes(s, t, i, m, g) /\ t.fresh = F /\ Tagged(t, tag, v)

LEMMA ViewOf ==
    ASSUME NEW s \in Views, NEW i, NEW m, NEW g, NEW F, NEW tag, NEW v, Parts(i, m, g, F, tag, v)
    PROVE  \E t : IsView(s, t, i, m, g, F, tag, v)
<1>. DEFINE t == [impl |-> i, shm |-> m, target |-> g, taint |-> s.taint, fresh |-> F,
                  tag |-> tag, who |-> v]
<1>1. t \in Views
  BY DEF Views, Parts
<1>2. IsView(s, t, i, m, g, F, tag, v)
  BY <1>1 DEF Becomes, Tagged, IsView
<1>. HIDE DEF t
<1>. QED  BY <1>2

LEMMA ViewFields ==
    ASSUME NEW s \in Views
    PROVE  /\ s.impl \in [Handles -> Memories \cup {None}]
           /\ s.shm \in [Held -> Memories \cup {None}]
           /\ s.target \in [Uniques -> Objects \cup {None}]
           /\ s.taint \in SUBSET Memories /\ s.fresh \in SUBSET Memories
           /\ s.tag \in {"new", "clean", "stale", "dying", "freed", "over"}
BY DEF Views

LEMMA StepFields ==
    ASSUME NEW op \in StepNames, NEW d \in Things, NEW r \in Things, NEW x, x = Step(op, d, r)
    PROVE  x \in Steps /\ x[1] = op /\ x[2] = d /\ x[3] = r
BY DEF Step, Steps

LEMMA HandlesAreThings == Handles \subseteq Things
BY DEF Things

LEMMA BindDoes ==
    ASSUME NEW p, NEW V, NEW d \in V, NEW r \in V, d # r, NEW s \in Views,
           Within(p, s, d), Within(p, s, r), Free(s, d), Fits(d, s.impl[r])
    PROVE  \E t \in Views : Does(p, V, <<Bind(d, r)>>, s, t) /\ SetIn(s, t, d, s.impl[r])
<1>1. d \in Handles /\ r \in Handles
  BY DEF Within
<1>i. PICK i \in [Handles -> Memories \cup {None}] : i = [s.impl EXCEPT ![d] = s.impl[r]]
  <2>1. [s.impl EXCEPT ![d] = s.impl[r]] \in [Handles -> Memories \cup {None}]
    BY <1>1, ViewFields
  <2>. QED  BY <2>1
<1>2. Parts(i, s.shm, s.target, s.fresh, "clean", d)
  BY <1>1, ViewFields DEF Parts
<1>3. PICK t : IsView(s, t, i, s.shm, s.target, s.fresh, "clean", d)
  BY <1>2, ViewOf
<1>4. PICK x : x = Bind(d, r)
  OBVIOUS
<1>5. x \in Steps /\ x[1] = "bind" /\ x[2] = d /\ x[3] = r
  BY <1>1, <1>4, StepFields, HandlesAreThings DEF Bind, StepNames
<1>6. BindIn(p, d, r, s, t)
  BY <1>3, <1>i DEF BindIn, IsView, Tagged, Clean
<1>7. Moves(p, x, s, t)
  BY <1>5, <1>6 DEF Moves
<1>8. Does(p, V, <<x>>, s, t)
  BY <1>3, <1>5, <1>7, DoesOne DEF IsView
<1>. QED  BY <1>3, <1>4, <1>8, <1>i DEF IsView, SetIn, Becomes, Tagged, Clean

TagIn(s, t, tag, v) ==
    /\ t.impl = s.impl /\ t.shm = s.shm /\ t.target = s.target
    /\ t.taint = s.taint /\ t.fresh = s.fresh /\ Tagged(t, tag, v)
SwappedIn(s, t, d, r) ==
    /\ t.impl = Swapped(s.impl, d, r) /\ t.shm = s.shm /\ t.target = s.target
    /\ t.taint = s.taint /\ t.fresh = s.fresh /\ Clean(t)

LEMMA UnbindDoes ==
    ASSUME NEW p, NEW V, NEW d \in V, NEW s \in Views,
           Within(p, s, d),
           Clean(s)
    PROVE  \E t \in Views : Does(p, V, <<Unbind(d)>>, s, t) /\ TagIn(s, t, "stale", d)
<1>1. d \in Handles
  BY HeldAreHandles DEF Within, Handles
<1>2. Parts(s.impl, s.shm, s.target, s.fresh, "stale", d)
  BY <1>1, ViewFields DEF Parts
<1>3. PICK t : IsView(s, t, s.impl, s.shm, s.target, s.fresh, "stale", d)
  BY <1>2, ViewOf
<1>4. PICK x : x = Unbind(d)
  OBVIOUS
<1>5. x \in Steps /\ x[1] = "unbind" /\ x[2] = d /\ x[3] = d
  BY <1>1, <1>4, StepFields, HandlesAreThings DEF Unbind, StepNames
<1>6. UnbindIn(p, d, s, t)
  BY <1>1, <1>3 DEF UnbindIn, IsView, Tagged, Clean, Becomes
<1>7. Moves(p, x, s, t)
  BY <1>5, <1>6 DEF Moves
<1>8. Does(p, V, <<x>>, s, t)
  <2>1. {x[2], x[3]} \cap Handles \subseteq V
    BY <1>5
  <2>. QED  BY <1>3, <1>5, <1>7, <2>1, DoesOne DEF IsView
<1>. QED  BY <1>3, <1>4, <1>8 DEF IsView, TagIn, Becomes, Tagged, Clean

LEMMA DropDoes ==
    ASSUME NEW p, NEW V, NEW d \in V, NEW s \in Views,
           Within(p, s, d),
           Clean(s)
    PROVE  \E t \in Views : Does(p, V, <<Step("drop", d, d)>>, s, t) /\ SetIn(s, t, d, None)
<1>1. d \in Handles
  BY HeldAreHandles DEF Within, Handles
<1>i. PICK i \in [Handles -> Memories \cup {None}] : i = [s.impl EXCEPT ![d] = None]
  <2>1. [s.impl EXCEPT ![d] = None] \in [Handles -> Memories \cup {None}]
    BY <1>1, ViewFields, MapsAreMemories, HomesAssumption DEF Taken, Swapped
  <2>. QED  BY <2>1
<1>2. Parts(i, s.shm, s.target, s.fresh, "clean", d)
  BY <1>1, ViewFields DEF Parts
<1>3. PICK t : IsView(s, t, i, s.shm, s.target, s.fresh, "clean", d)
  BY <1>2, ViewOf
<1>4. PICK x : x = Step("drop", d, d)
  OBVIOUS
<1>5. x \in Steps /\ x[1] = "drop" /\ x[2] = d /\ x[3] = d
  BY <1>1, <1>4, StepFields, HandlesAreThings DEF StepNames
<1>6. DropIn(p, d, s, t)
  BY <1>1, <1>3, <1>i DEF DropIn, IsView, Tagged, Clean, Becomes
<1>7. Moves(p, x, s, t)
  BY <1>5, <1>6 DEF Moves
<1>8. Does(p, V, <<x>>, s, t)
  <2>1. {x[2], x[3]} \cap Handles \subseteq V
    BY <1>5
  <2>. QED  BY <1>3, <1>5, <1>7, <2>1, DoesOne DEF IsView
<1>. QED  BY <1>3, <1>4, <1>8, <1>i DEF IsView, SetIn, Becomes, Tagged, Clean

LEMMA ClearDoes ==
    ASSUME NEW p, NEW V, NEW d \in V, NEW s \in Views,
           Within(p, s, d),
           Tagged(s, "stale", d)
    PROVE  \E t \in Views : Does(p, V, <<Clear(d)>>, s, t) /\ SetIn(s, t, d, None)
<1>1. d \in Handles
  BY HeldAreHandles DEF Within, Handles
<1>i. PICK i \in [Handles -> Memories \cup {None}] : i = [s.impl EXCEPT ![d] = None]
  <2>1. [s.impl EXCEPT ![d] = None] \in [Handles -> Memories \cup {None}]
    BY <1>1, ViewFields, MapsAreMemories, HomesAssumption DEF Taken, Swapped
  <2>. QED  BY <2>1
<1>2. Parts(i, s.shm, s.target, s.fresh, "clean", d)
  BY <1>1, ViewFields DEF Parts
<1>3. PICK t : IsView(s, t, i, s.shm, s.target, s.fresh, "clean", d)
  BY <1>2, ViewOf
<1>4. PICK x : x = Clear(d)
  OBVIOUS
<1>5. x \in Steps /\ x[1] = "clear" /\ x[2] = d /\ x[3] = d
  BY <1>1, <1>4, StepFields, HandlesAreThings DEF Clear, StepNames
<1>6. ClearIn(p, d, s, t)
  BY <1>1, <1>3, <1>i DEF ClearIn, IsView, Tagged, Clean, Becomes
<1>7. Moves(p, x, s, t)
  BY <1>5, <1>6 DEF Moves
<1>8. Does(p, V, <<x>>, s, t)
  <2>1. {x[2], x[3]} \cap Handles \subseteq V
    BY <1>5
  <2>. QED  BY <1>3, <1>5, <1>7, <2>1, DoesOne DEF IsView
<1>. QED  BY <1>3, <1>4, <1>8, <1>i DEF IsView, SetIn, Becomes, Tagged, Clean

LEMMA TakeDoes ==
    ASSUME NEW p, NEW V, NEW d \in V, NEW r \in V, NEW s \in Views,
           d # r, Within(p, s, d), Within(p, s, r),
           Free(s, d), Fits(d, s.impl[r])
    PROVE  \E t \in Views : Does(p, V, <<Take(d, r)>>, s, t) /\ MovedIn(s, t, d, r)
<1>1. d \in Handles /\ r \in Handles
  BY HeldAreHandles DEF Within, Handles
<1>i. PICK i \in [Handles -> Memories \cup {None}] : i = Taken(s.impl, d, r)
  <2>1. Taken(s.impl, d, r) \in [Handles -> Memories \cup {None}]
    BY <1>1, ViewFields, MapsAreMemories, HomesAssumption DEF Taken, Swapped
  <2>. QED  BY <2>1
<1>2. Parts(i, s.shm, s.target, s.fresh, "clean", d)
  BY <1>1, ViewFields DEF Parts
<1>3. PICK t : IsView(s, t, i, s.shm, s.target, s.fresh, "clean", d)
  BY <1>2, ViewOf
<1>4. PICK x : x = Take(d, r)
  OBVIOUS
<1>5. x \in Steps /\ x[1] = "take" /\ x[2] = d /\ x[3] = r
  BY <1>1, <1>4, StepFields, HandlesAreThings DEF Take, StepNames
<1>6. TakeIn(p, d, r, s, t)
  BY <1>1, <1>3, <1>i DEF TakeIn, IsView, Tagged, Clean, Becomes
<1>7. Moves(p, x, s, t)
  BY <1>5, <1>6 DEF Moves
<1>8. Does(p, V, <<x>>, s, t)
  <2>1. {x[2], x[3]} \cap Handles \subseteq V
    BY <1>5
  <2>. QED  BY <1>3, <1>5, <1>7, <2>1, DoesOne DEF IsView
<1>. QED  BY <1>3, <1>4, <1>8, <1>i DEF IsView, MovedIn, Becomes, Tagged, Clean

LEMMA SwapDoes ==
    ASSUME NEW p, NEW V, NEW d \in V, NEW r \in V, NEW s \in Views,
           d # r, Within(p, s, d), Within(p, s, r),
           Clean(s), Fits(d, s.impl[r]), Fits(r, s.impl[d])
    PROVE  \E t \in Views : Does(p, V, <<Step("swap", d, r)>>, s, t) /\ SwappedIn(s, t, d, r)
<1>1. d \in Handles /\ r \in Handles
  BY HeldAreHandles DEF Within, Handles
<1>i. PICK i \in [Handles -> Memories \cup {None}] : i = Swapped(s.impl, d, r)
  <2>1. Swapped(s.impl, d, r) \in [Handles -> Memories \cup {None}]
    BY <1>1, ViewFields, MapsAreMemories, HomesAssumption DEF Taken, Swapped
  <2>. QED  BY <2>1
<1>2. Parts(i, s.shm, s.target, s.fresh, "clean", d)
  BY <1>1, ViewFields DEF Parts
<1>3. PICK t : IsView(s, t, i, s.shm, s.target, s.fresh, "clean", d)
  BY <1>2, ViewOf
<1>4. PICK x : x = Step("swap", d, r)
  OBVIOUS
<1>5. x \in Steps /\ x[1] = "swap" /\ x[2] = d /\ x[3] = r
  BY <1>1, <1>4, StepFields, HandlesAreThings DEF StepNames
<1>6. SwapIn(p, d, r, s, t)
  BY <1>1, <1>3, <1>i DEF SwapIn, IsView, Tagged, Clean, Becomes
<1>7. Moves(p, x, s, t)
  BY <1>5, <1>6 DEF Moves
<1>8. Does(p, V, <<x>>, s, t)
  <2>1. {x[2], x[3]} \cap Handles \subseteq V
    BY <1>5
  <2>. QED  BY <1>3, <1>5, <1>7, <2>1, DoesOne DEF IsView
<1>. QED  BY <1>3, <1>4, <1>8, <1>i DEF IsView, SwappedIn, Becomes, Tagged, Clean

LEMMA AttachDoes ==
    ASSUME NEW p, NEW V, NEW d \in V, NEW m, NEW s \in Views,
           d \in Handles, Home[d] = p, m \in MapsIn(p, s),
           Clean(s), s.impl[d] = None
    PROVE  \E t \in Views : Does(p, V, <<Step("attach", d, m)>>, s, t) /\ SetIn(s, t, d, m)
<1>1. d \in Handles
  BY HeldAreHandles DEF Within, Handles
<1>i. PICK i \in [Handles -> Memories \cup {None}] : i = [s.impl EXCEPT ![d] = m]
  <2>1. [s.impl EXCEPT ![d] = m] \in [Handles -> Memories \cup {None}]
    BY <1>1, ViewFields, MapsAreMemories, HomesAssumption DEF Taken, Swapped
  <2>. QED  BY <2>1
<1>2. Parts(i, s.shm, s.target, s.fresh, "clean", d)
  BY <1>1, ViewFields DEF Parts
<1>3. PICK t : IsView(s, t, i, s.shm, s.target, s.fresh, "clean", d)
  BY <1>2, ViewOf
<1>4. PICK x : x = Step("attach", d, m)
  OBVIOUS
<1>5. x \in Steps /\ x[1] = "attach" /\ x[2] = d /\ x[3] = m
  <2>1. d \in Things /\ m \in Things
    BY <1>1, HandlesAreThings, MapsAreMemories DEF Things
  <2>. QED  BY <1>4, <2>1, StepFields DEF StepNames
<1>6. AttachIn(p, d, m, s, t)
  BY <1>1, <1>3, <1>i DEF AttachIn, IsView, Tagged, Clean, Becomes
<1>9. m \notin Handles
  BY KindsAssumption, MapsAreMemories, ViewFields
<1>7. Moves(p, x, s, t)
  BY <1>5, <1>6 DEF Moves
<1>8. Does(p, V, <<x>>, s, t)
  <2>1. {x[2], x[3]} \cap Handles \subseteq V
    BY <1>5, <1>9
  <2>. QED  BY <1>3, <1>5, <1>7, <2>1, DoesOne DEF IsView
<1>. QED  BY <1>3, <1>4, <1>8, <1>i DEF IsView, SetIn, Becomes, Tagged, Clean

ReadiedIn(s, t) ==
    /\ t.impl = s.impl /\ t.shm = s.shm /\ t.target = s.target
    /\ t.taint = s.taint /\ t.fresh = {} /\ Clean(t)
TakenAllIn(s, t, d, r) ==
    /\ t.impl = Taken(s.impl, d, r) /\ t.shm = Taken(s.shm, d, r) /\ t.target = s.target
    /\ t.taint = s.taint /\ t.fresh = {} /\ Clean(t)
SwappedAllIn(s, t, d, r) ==
    /\ t.impl = Swapped(s.impl, d, r) /\ t.shm = Swapped(s.shm, d, r) /\ t.target = s.target
    /\ t.taint = s.taint /\ t.fresh = {} /\ Clean(t)
UnmappedIn(s, t, d) ==
    /\ t.impl = s.impl /\ t.shm = [s.shm EXCEPT ![d] = None] /\ t.target = s.target
    /\ t.taint = s.taint /\ t.fresh = {} /\ t.tag = "over"
TargetsIn(s, t, g) ==
    /\ t.impl = s.impl /\ t.shm = s.shm /\ t.target = g
    /\ t.taint = s.taint /\ t.fresh = s.fresh /\ Clean(t)
NothingIn(p, s, d) ==
    s.shm[d] # None =>
        /\ \A h \in Handles : Home[h] = p => s.impl[h] # s.shm[d]
        /\ \A u \in Uniques : Home[u] = p /\ s.target[u] # None =>
                              HeapOf[s.target[u]] # s.shm[d]

LEMMA ReadyDoes ==
    ASSUME NEW p, NEW V, NEW d \in V, NEW m, NEW s \in Views,
           d \in Handles, Clean(s), s.fresh = {m}
    PROVE  \E t \in Views : Does(p, V, <<Step("ready", d, m)>>, s, t) /\ ReadiedIn(s, t)
<1>1. d \in Handles
  BY HeldAreHandles DEF Within, Handles
<1>2. Parts(s.impl, s.shm, s.target, {}, "clean", d)
  BY <1>1, ViewFields DEF Parts
<1>3. PICK t : IsView(s, t, s.impl, s.shm, s.target, {}, "clean", d)
  BY <1>2, ViewOf
<1>4. PICK x : x = Step("ready", d, m)
  OBVIOUS
<1>5. x \in Steps /\ x[1] = "ready" /\ x[2] = d /\ x[3] = m
  <2>1. d \in Things /\ m \in Things
    BY <1>1, ViewFields, HandlesAreThings, MapsAreMemories DEF Things
  <2>. QED  BY <1>4, <2>1, StepFields DEF StepNames
<1>6. ReadyIn(d, m, s, t)
  BY <1>1, <1>3 DEF ReadyIn, IsView, Tagged, Clean, Becomes
<1>9. m \notin Handles
  BY KindsAssumption, MapsAreMemories, ViewFields
<1>7. Moves(p, x, s, t)
  BY <1>5, <1>6 DEF Moves
<1>8. Does(p, V, <<x>>, s, t)
  <2>1. {x[2], x[3]} \cap Handles \subseteq V
    BY <1>5, <1>9
  <2>. QED  BY <1>3, <1>5, <1>7, <2>1, DoesOne DEF IsView
<1>. QED  BY <1>3, <1>4, <1>8 DEF IsView, ReadiedIn, Becomes, Tagged, Clean

LEMMA TakeAllDoes ==
    ASSUME NEW p, NEW V, NEW d \in V, NEW r \in V, NEW s \in Views,
           d \in Held, r \in Held, Home[d] = p, Home[r] = p, d # r,
           Clean(s), s.fresh = {}, s.impl[d] = None, s.shm[d] = None
    PROVE  \E t \in Views : Does(p, V, <<Step("takeall", d, r)>>, s, t) /\ TakenAllIn(s, t, d, r)
<1>1. d \in Handles /\ r \in Handles
  BY HeldAreHandles DEF Within, Handles
<1>i. PICK i \in [Handles -> Memories \cup {None}] : i = Taken(s.impl, d, r)
  <2>1. Taken(s.impl, d, r) \in [Handles -> Memories \cup {None}]
    BY <1>1, ViewFields, MapsAreMemories, HomesAssumption DEF Taken, Swapped
  <2>. QED  BY <2>1
<1>m. PICK m \in [Held -> Memories \cup {None}] : m = Taken(s.shm, d, r)
  <2>1. Taken(s.shm, d, r) \in [Held -> Memories \cup {None}]
    BY <1>1, ViewFields, MapsAreMemories, HomesAssumption DEF Taken, Swapped
  <2>. QED  BY <2>1
<1>2. Parts(i, m, s.target, {}, "clean", d)
  BY <1>1, ViewFields DEF Parts
<1>3. PICK t : IsView(s, t, i, m, s.target, {}, "clean", d)
  BY <1>2, ViewOf
<1>4. PICK x : x = Step("takeall", d, r)
  OBVIOUS
<1>5. x \in Steps /\ x[1] = "takeall" /\ x[2] = d /\ x[3] = r
  BY <1>1, <1>4, StepFields, HandlesAreThings DEF StepNames
<1>6. TakeAllIn(p, d, r, s, t)
  BY <1>1, <1>3, <1>i, <1>m DEF TakeAllIn, IsView, Tagged, Clean, Becomes
<1>7. Moves(p, x, s, t)
  BY <1>5, <1>6 DEF Moves
<1>8. Does(p, V, <<x>>, s, t)
  <2>1. {x[2], x[3]} \cap Handles \subseteq V
    BY <1>5
  <2>. QED  BY <1>3, <1>5, <1>7, <2>1, DoesOne DEF IsView
<1>. QED  BY <1>3, <1>4, <1>8, <1>i, <1>m DEF IsView, TakenAllIn, Becomes, Tagged, Clean

LEMMA SwapAllDoes ==
    ASSUME NEW p, NEW V, NEW d \in V, NEW r \in V, NEW s \in Views,
           d \in Held, r \in Held, Home[d] = p, Home[r] = p, d # r,
           Clean(s), s.fresh = {}
    PROVE  \E t \in Views : Does(p, V, <<Step("swapall", d, r)>>, s, t) /\ SwappedAllIn(s, t, d, r)
<1>1. d \in Handles /\ r \in Handles
  BY HeldAreHandles DEF Within, Handles
<1>i. PICK i \in [Handles -> Memories \cup {None}] : i = Swapped(s.impl, d, r)
  <2>1. Swapped(s.impl, d, r) \in [Handles -> Memories \cup {None}]
    BY <1>1, ViewFields, MapsAreMemories, HomesAssumption DEF Taken, Swapped
  <2>. QED  BY <2>1
<1>m. PICK m \in [Held -> Memories \cup {None}] : m = Swapped(s.shm, d, r)
  <2>1. Swapped(s.shm, d, r) \in [Held -> Memories \cup {None}]
    BY <1>1, ViewFields, MapsAreMemories, HomesAssumption DEF Taken, Swapped
  <2>. QED  BY <2>1
<1>2. Parts(i, m, s.target, {}, "clean", d)
  BY <1>1, ViewFields DEF Parts
<1>3. PICK t : IsView(s, t, i, m, s.target, {}, "clean", d)
  BY <1>2, ViewOf
<1>4. PICK x : x = Step("swapall", d, r)
  OBVIOUS
<1>5. x \in Steps /\ x[1] = "swapall" /\ x[2] = d /\ x[3] = r
  BY <1>1, <1>4, StepFields, HandlesAreThings DEF StepNames
<1>6. SwapAllIn(p, d, r, s, t)
  BY <1>1, <1>3, <1>i, <1>m DEF SwapAllIn, IsView, Tagged, Clean, Becomes
<1>7. Moves(p, x, s, t)
  BY <1>5, <1>6 DEF Moves
<1>8. Does(p, V, <<x>>, s, t)
  <2>1. {x[2], x[3]} \cap Handles \subseteq V
    BY <1>5
  <2>. QED  BY <1>3, <1>5, <1>7, <2>1, DoesOne DEF IsView
<1>. QED  BY <1>3, <1>4, <1>8, <1>i, <1>m DEF IsView, SwappedAllIn, Becomes, Tagged, Clean

LEMMA UnmapDoes ==
    ASSUME NEW p, NEW V, NEW d \in V, NEW s \in Views,
           d \in Held, Home[d] = p, Clean(s), s.fresh = {}, NothingIn(p, s, d)
    PROVE  \E t \in Views : Does(p, V, <<Step("unmap", d, d)>>, s, t) /\ UnmappedIn(s, t, d)
<1>1. d \in Handles
  BY HeldAreHandles DEF Within, Handles
<1>m. PICK m \in [Held -> Memories \cup {None}] : m = [s.shm EXCEPT ![d] = None]
  <2>1. [s.shm EXCEPT ![d] = None] \in [Held -> Memories \cup {None}]
    BY <1>1, ViewFields, MapsAreMemories, HomesAssumption DEF Taken, Swapped
  <2>. QED  BY <2>1
<1>2. Parts(s.impl, m, s.target, {}, "over", d)
  BY <1>1, ViewFields DEF Parts
<1>3. PICK t : IsView(s, t, s.impl, m, s.target, {}, "over", d)
  BY <1>2, ViewOf
<1>4. PICK x : x = Step("unmap", d, d)
  OBVIOUS
<1>5. x \in Steps /\ x[1] = "unmap" /\ x[2] = d /\ x[3] = d
  BY <1>1, <1>4, StepFields, HandlesAreThings DEF StepNames
<1>6. UnmapIn(p, d, s, t)
  BY <1>1, <1>3, <1>m DEF UnmapIn, NothingIn, IsView, Tagged, Clean, Becomes
<1>7. Moves(p, x, s, t)
  BY <1>5, <1>6 DEF Moves
<1>8. Does(p, V, <<x>>, s, t)
  <2>1. {x[2], x[3]} \cap Handles \subseteq V
    BY <1>5
  <2>. QED  BY <1>3, <1>5, <1>7, <2>1, DoesOne DEF IsView
<1>. QED  BY <1>3, <1>4, <1>8, <1>m DEF IsView, UnmappedIn, Becomes, Tagged, Clean

LEMMA NewDoes ==
    ASSUME NEW p, NEW V, NEW d \in V, NEW o \in Objects, NEW s \in Views,
           d \in Temps, Home[d] = p, Clean(s), s.fresh = {}, s.shm[d] = None,
           s.impl[d] = HeapOf[o], HeapOf[o] \in MapsIn(p, s),
           \A v \in Handles \ {d} : Idle(s, v)
    PROVE  Does(p, V, <<Step("new", d, o)>>, s, s)
<1>1. d \in Handles /\ o \notin Handles /\ d \in Things /\ o \in Things /\ d \notin Uniques
  BY KindsAssumption DEF Handles, Things
<1>2. PICK x : x = Step("new", d, o)
  OBVIOUS
<1>3. x \in Steps /\ x[1] = "new" /\ x[2] = d /\ x[3] = o
  BY <1>1, <1>2, StepFields DEF StepNames
<1>4. NewIn(p, d, o, s, s)
  BY <1>1 DEF NewIn
<1>5. Moves(p, x, s, s)
  BY <1>3, <1>4 DEF Moves
<1>6. {x[2], x[3]} \cap Handles \subseteq V
  BY <1>1, <1>3
<1>. QED  BY <1>2, <1>3, <1>5, <1>6, DoesOne

LEMMA OwnDoes ==
    ASSUME NEW p, NEW V, NEW d \in V, NEW o \in Objects, NEW s \in Views,
           d \in Uniques, Within(p, s, d), Clean(s), Vacant(s, d),
           HeapOf[o] \in MapsIn(p, s), Fits(d, HeapOf[o])
    PROVE  \E t \in Views : Does(p, V, <<Step("own", d, o)>>, s, t) /\ TargetIn(s, t, d, o)
<1>1. d \in Handles
  BY HeldAreHandles DEF Within, Handles
<1>g. PICK g \in [Uniques -> Objects \cup {None}] : g = [s.target EXCEPT ![d] = o]
  <2>1. [s.target EXCEPT ![d] = o] \in [Uniques -> Objects \cup {None}]
    BY <1>1, ViewFields, MapsAreMemories, HomesAssumption DEF Taken, Swapped
  <2>. QED  BY <2>1
<1>2. Parts(s.impl, s.shm, g, s.fresh, "clean", d)
  BY <1>1, ViewFields DEF Parts
<1>3. PICK t : IsView(s, t, s.impl, s.shm, g, s.fresh, "clean", d)
  BY <1>2, ViewOf
<1>4. PICK x : x = Step("own", d, o)
  OBVIOUS
<1>5. x \in Steps /\ x[1] = "own" /\ x[2] = d /\ x[3] = o
  <2>1. d \in Things /\ o \in Things
    BY <1>1, HandlesAreThings, MapsAreMemories DEF Things
  <2>. QED  BY <1>4, <2>1, StepFields DEF StepNames
<1>6. OwnIn(p, d, o, s, t)
  BY <1>1, <1>3, <1>g DEF OwnIn, IsView, Tagged, Clean, Becomes
<1>9. o \notin Handles
  BY KindsAssumption, MapsAreMemories, ViewFields
<1>7. Moves(p, x, s, t)
  BY <1>5, <1>6 DEF Moves
<1>8. Does(p, V, <<x>>, s, t)
  <2>1. {x[2], x[3]} \cap Handles \subseteq V
    BY <1>5, <1>9
  <2>. QED  BY <1>3, <1>5, <1>7, <2>1, DoesOne DEF IsView
<1>. QED  BY <1>3, <1>4, <1>8, <1>g DEF IsView, TargetIn, Becomes, Tagged, Clean

LEMMA MoveTargetDoes ==
    ASSUME NEW p, NEW V, NEW d \in V, NEW r \in V, NEW s \in Views,
           d \in Uniques, r \in Uniques, d # r, Within(p, s, d), Within(p, s, r),
           Clean(s), Vacant(s, d),
           s.target[r] # None => Fits(d, HeapOf[s.target[r]])
    PROVE  \E t \in Views : Does(p, V, <<Step("movetarget", d, r)>>, s, t) /\ TargetsIn(s, t, Taken(s.target, d, r))
<1>1. d \in Handles /\ r \in Handles
  BY HeldAreHandles DEF Within, Handles
<1>g. PICK g \in [Uniques -> Objects \cup {None}] : g = Taken(s.target, d, r)
  <2>1. Taken(s.target, d, r) \in [Uniques -> Objects \cup {None}]
    BY <1>1, ViewFields, MapsAreMemories, HomesAssumption DEF Taken, Swapped
  <2>. QED  BY <2>1
<1>2. Parts(s.impl, s.shm, g, s.fresh, "clean", d)
  BY <1>1, ViewFields DEF Parts
<1>3. PICK t : IsView(s, t, s.impl, s.shm, g, s.fresh, "clean", d)
  BY <1>2, ViewOf
<1>4. PICK x : x = Step("movetarget", d, r)
  OBVIOUS
<1>5. x \in Steps /\ x[1] = "movetarget" /\ x[2] = d /\ x[3] = r
  BY <1>1, <1>4, StepFields, HandlesAreThings DEF StepNames
<1>6. MoveTargetIn(p, d, r, s, t)
  BY <1>1, <1>3, <1>g DEF MoveTargetIn, IsView, Tagged, Clean, Becomes
<1>7. Moves(p, x, s, t)
  BY <1>5, <1>6 DEF Moves
<1>8. Does(p, V, <<x>>, s, t)
  <2>1. {x[2], x[3]} \cap Handles \subseteq V
    BY <1>5
  <2>. QED  BY <1>3, <1>5, <1>7, <2>1, DoesOne DEF IsView
<1>. QED  BY <1>3, <1>4, <1>8, <1>g DEF IsView, TargetsIn, Becomes, Tagged, Clean

LEMMA SwapTargetDoes ==
    ASSUME NEW p, NEW V, NEW d \in V, NEW r \in V, NEW s \in Views,
           d \in Uniques, r \in Uniques, d # r, Within(p, s, d), Within(p, s, r),
           Clean(s),
           s.target[r] # None => Fits(d, HeapOf[s.target[r]]),
           s.target[d] # None => Fits(r, HeapOf[s.target[d]])
    PROVE  \E t \in Views : Does(p, V, <<Step("swaptarget", d, r)>>, s, t) /\ TargetsIn(s, t, Swapped(s.target, d, r))
<1>1. d \in Handles /\ r \in Handles
  BY HeldAreHandles DEF Within, Handles
<1>g. PICK g \in [Uniques -> Objects \cup {None}] : g = Swapped(s.target, d, r)
  <2>1. Swapped(s.target, d, r) \in [Uniques -> Objects \cup {None}]
    BY <1>1, ViewFields, MapsAreMemories, HomesAssumption DEF Taken, Swapped
  <2>. QED  BY <2>1
<1>2. Parts(s.impl, s.shm, g, s.fresh, "clean", d)
  BY <1>1, ViewFields DEF Parts
<1>3. PICK t : IsView(s, t, s.impl, s.shm, g, s.fresh, "clean", d)
  BY <1>2, ViewOf
<1>4. PICK x : x = Step("swaptarget", d, r)
  OBVIOUS
<1>5. x \in Steps /\ x[1] = "swaptarget" /\ x[2] = d /\ x[3] = r
  BY <1>1, <1>4, StepFields, HandlesAreThings DEF StepNames
<1>6. SwapTargetIn(p, d, r, s, t)
  BY <1>1, <1>3, <1>g DEF SwapTargetIn, IsView, Tagged, Clean, Becomes
<1>7. Moves(p, x, s, t)
  BY <1>5, <1>6 DEF Moves
<1>8. Does(p, V, <<x>>, s, t)
  <2>1. {x[2], x[3]} \cap Handles \subseteq V
    BY <1>5
  <2>. QED  BY <1>3, <1>5, <1>7, <2>1, DoesOne DEF IsView
<1>. QED  BY <1>3, <1>4, <1>8, <1>g DEF IsView, TargetsIn, Becomes, Tagged, Clean

LEMMA ReleaseDoes ==
    ASSUME NEW p, NEW V, NEW d \in V, NEW s \in Views,
           d \in Uniques, Within(p, s, d), Clean(s), s.target[d] # None
    PROVE  \E t \in Views : Does(p, V, <<Step("release", d, d)>>, s, t) /\ TargetIn(s, t, d, None)
<1>1. d \in Handles
  BY HeldAreHandles DEF Within, Handles
<1>g. PICK g \in [Uniques -> Objects \cup {None}] : g = [s.target EXCEPT ![d] = None]
  <2>1. [s.target EXCEPT ![d] = None] \in [Uniques -> Objects \cup {None}]
    BY <1>1, ViewFields, MapsAreMemories, HomesAssumption DEF Taken, Swapped
  <2>. QED  BY <2>1
<1>2. Parts(s.impl, s.shm, g, s.fresh, "clean", d)
  BY <1>1, ViewFields DEF Parts
<1>3. PICK t : IsView(s, t, s.impl, s.shm, g, s.fresh, "clean", d)
  BY <1>2, ViewOf
<1>4. PICK x : x = Step("release", d, d)
  OBVIOUS
<1>5. x \in Steps /\ x[1] = "release" /\ x[2] = d /\ x[3] = d
  BY <1>1, <1>4, StepFields, HandlesAreThings DEF StepNames
<1>6. ReleaseIn(p, d, s, t)
  BY <1>1, <1>3, <1>g DEF ReleaseIn, IsView, Tagged, Clean, Becomes
<1>7. Moves(p, x, s, t)
  BY <1>5, <1>6 DEF Moves
<1>8. Does(p, V, <<x>>, s, t)
  <2>1. {x[2], x[3]} \cap Handles \subseteq V
    BY <1>5
  <2>. QED  BY <1>3, <1>5, <1>7, <2>1, DoesOne DEF IsView
<1>. QED  BY <1>3, <1>4, <1>8, <1>g DEF IsView, TargetIn, Becomes, Tagged, Clean

LEMMA DestroyDoes ==
    ASSUME NEW p, NEW V, NEW d \in V, NEW s \in Views,
           d \in Uniques, Within(p, s, d), Clean(s), s.target[d] # None, Right(s, d)
    PROVE  \E t \in Views : Does(p, V, <<Step("destroy", d, d)>>, s, t) /\ TagIn(s, t, "dying", d)
<1>1. d \in Handles
  BY HeldAreHandles DEF Within, Handles
<1>2. Parts(s.impl, s.shm, s.target, s.fresh, "dying", d)
  BY <1>1, ViewFields DEF Parts
<1>3. PICK t : IsView(s, t, s.impl, s.shm, s.target, s.fresh, "dying", d)
  BY <1>2, ViewOf
<1>4. PICK x : x = Step("destroy", d, d)
  OBVIOUS
<1>5. x \in Steps /\ x[1] = "destroy" /\ x[2] = d /\ x[3] = d
  BY <1>1, <1>4, StepFields, HandlesAreThings DEF StepNames
<1>6. DestroyIn(p, d, s, t)
  BY <1>1, <1>3 DEF DestroyIn, IsView, Tagged, Clean, Becomes
<1>7. Moves(p, x, s, t)
  BY <1>5, <1>6 DEF Moves
<1>8. Does(p, V, <<x>>, s, t)
  <2>1. {x[2], x[3]} \cap Handles \subseteq V
    BY <1>5
  <2>. QED  BY <1>3, <1>5, <1>7, <2>1, DoesOne DEF IsView
<1>. QED  BY <1>3, <1>4, <1>8 DEF IsView, TagIn, Becomes, Tagged, Clean

LEMMA FreeDoes ==
    ASSUME NEW p, NEW V, NEW d \in V, NEW s \in Views,
           d \in Uniques, Within(p, s, d), Tagged(s, "dying", d), s.target[d] # None, Right(s, d)
    PROVE  \E t \in Views : Does(p, V, <<Step("free", d, d)>>, s, t) /\ TagIn(s, t, "freed", d)
<1>1. d \in Handles
  BY HeldAreHandles DEF Within, Handles
<1>2. Parts(s.impl, s.shm, s.target, s.fresh, "freed", d)
  BY <1>1, ViewFields DEF Parts
<1>3. PICK t : IsView(s, t, s.impl, s.shm, s.target, s.fresh, "freed", d)
  BY <1>2, ViewOf
<1>4. PICK x : x = Step("free", d, d)
  OBVIOUS
<1>5. x \in Steps /\ x[1] = "free" /\ x[2] = d /\ x[3] = d
  BY <1>1, <1>4, StepFields, HandlesAreThings DEF StepNames
<1>6. FreeIn(p, d, s, t)
  BY <1>1, <1>3 DEF FreeIn, IsView, Tagged, Clean, Becomes
<1>7. Moves(p, x, s, t)
  BY <1>5, <1>6 DEF Moves
<1>8. Does(p, V, <<x>>, s, t)
  <2>1. {x[2], x[3]} \cap Handles \subseteq V
    BY <1>5
  <2>. QED  BY <1>3, <1>5, <1>7, <2>1, DoesOne DEF IsView
<1>. QED  BY <1>3, <1>4, <1>8 DEF IsView, TagIn, Becomes, Tagged, Clean

LEMMA ForgetDoes ==
    ASSUME NEW p, NEW V, NEW d \in V, NEW s \in Views,
           d \in Uniques, Within(p, s, d), Tagged(s, "freed", d), s.target[d] # None
    PROVE  \E t \in Views : Does(p, V, <<Step("forget", d, d)>>, s, t) /\ TargetIn(s, t, d, None)
<1>1. d \in Handles
  BY HeldAreHandles DEF Within, Handles
<1>g. PICK g \in [Uniques -> Objects \cup {None}] : g = [s.target EXCEPT ![d] = None]
  <2>1. [s.target EXCEPT ![d] = None] \in [Uniques -> Objects \cup {None}]
    BY <1>1, ViewFields, MapsAreMemories, HomesAssumption DEF Taken, Swapped
  <2>. QED  BY <2>1
<1>2. Parts(s.impl, s.shm, g, s.fresh, "clean", d)
  BY <1>1, ViewFields DEF Parts
<1>3. PICK t : IsView(s, t, s.impl, s.shm, g, s.fresh, "clean", d)
  BY <1>2, ViewOf
<1>4. PICK x : x = Step("forget", d, d)
  OBVIOUS
<1>5. x \in Steps /\ x[1] = "forget" /\ x[2] = d /\ x[3] = d
  BY <1>1, <1>4, StepFields, HandlesAreThings DEF StepNames
<1>6. ForgetIn(p, d, s, t)
  BY <1>1, <1>3, <1>g DEF ForgetIn, IsView, Tagged, Clean, Becomes
<1>7. Moves(p, x, s, t)
  BY <1>5, <1>6 DEF Moves
<1>8. Does(p, V, <<x>>, s, t)
  <2>1. {x[2], x[3]} \cap Handles \subseteq V
    BY <1>5
  <2>. QED  BY <1>3, <1>5, <1>7, <2>1, DoesOne DEF IsView
<1>. QED  BY <1>3, <1>4, <1>8, <1>g DEF IsView, TargetIn, Becomes, Tagged, Clean


LEMMA CreateDoes ==
    ASSUME NEW p, NEW V, NEW d \in V, NEW m, NEW s \in Views,
           d \in Handles, Home[d] = p, m \in MapsIn(p, s) \ s.taint,
           s.tag = "new", s.fresh = {m}, s.impl[d] = None,
           \A h \in Handles : s.impl[h] # m /\ (Home[h] = m => s.impl[h] = None),
           \A u \in Uniques : Home[u] = m => s.target[u] = None,
           \A u \in Uniques : s.target[u] # None => HeapOf[s.target[u]] # m
    PROVE  \E t \in Views : Does(p, V, <<Step("create", d, m)>>, s, t) /\ SetIn(s, t, d, m)
<1>i. PICK i \in [Handles -> Memories \cup {None}] : i = [s.impl EXCEPT ![d] = m]
  <2>1. [s.impl EXCEPT ![d] = m] \in [Handles -> Memories \cup {None}]
    BY ViewFields, MapsAreMemories
  <2>. QED  BY <2>1
<1>2. Parts(i, s.shm, s.target, s.fresh, "clean", d)
  BY ViewFields DEF Parts
<1>3. PICK t : IsView(s, t, i, s.shm, s.target, s.fresh, "clean", d)
  BY <1>2, ViewOf
<1>4. PICK x : x = Step("create", d, m)
  OBVIOUS
<1>5. x \in Steps /\ x[1] = "create" /\ x[2] = d /\ x[3] = m
  <2>1. d \in Things /\ m \in Things
    BY HandlesAreThings, MapsAreMemories DEF Things
  <2>. QED  BY <1>4, <2>1, StepFields DEF StepNames
<1>6. CreateIn(p, d, m, s, t)
  BY <1>3, <1>i DEF CreateIn, IsView, Tagged, Clean, Becomes
<1>9. m \notin Handles
  BY KindsAssumption, MapsAreMemories
<1>7. Moves(p, x, s, t)
  BY <1>5, <1>6 DEF Moves
<1>8. Does(p, V, <<x>>, s, t)
  <2>1. {x[2], x[3]} \cap Handles \subseteq V
    BY <1>5, <1>9
  <2>. QED  BY <1>3, <1>5, <1>7, <2>1, DoesOne DEF IsView
<1>. QED  BY <1>3, <1>4, <1>8, <1>i DEF IsView, SetIn, Becomes, Tagged, Clean

-----------------------------------------------------------------------------
(* The member functions.                                                   *)

LEMMA WithinSame ==
    ASSUME NEW p, NEW s, NEW t, t.shm = s.shm, NEW v
    PROVE  Within(p, t, v) <=> Within(p, s, v)
BY SameMaps DEF Within

LEMMA SetAgain ==
    ASSUME NEW s \in Views, NEW d \in Handles, NEW m, s.impl[d] = m, Clean(s)
    PROVE  SetIn(s, s, d, m)
<1>1. [s.impl EXCEPT ![d] = m] = s.impl
  BY ViewFields
<1>. QED  BY <1>1 DEF SetIn

LEMMA CopyAssignDoes ==
    ASSUME NEW p, NEW V, NEW d \in V, NEW r \in V, d # r, NEW s \in Views, NEW old, NEW new,
           Within(p, s, d), Within(p, s, r), Clean(s), Fits(d, s.impl[r]),
           old = new => s.impl[d] = s.impl[r]
    PROVE  \E t \in Views : /\ Does(p, V, CopyAssign(d, r, old, new), s, t)
                            /\ SetIn(s, t, d, s.impl[r])
<1>0. d \in Handles /\ r \in Handles
  BY DEF Within
<1>1. CASE old = new
  <2>1. CopyAssign(d, r, old, new) = <<>>
    BY <1>1 DEF CopyAssign
  <2>2. SetIn(s, s, d, s.impl[r])
    BY <1>0, <1>1, SetAgain
  <2>. QED  BY <2>1, <2>2, DoesNone
<1>2. CASE old # new
  <2>1. PICK u \in Views : Does(p, V, <<Unbind(d)>>, s, u) /\ TagIn(s, u, "stale", d)
    BY UnbindDoes
  <2>2. Within(p, u, d) /\ Within(p, u, r) /\ Free(u, d) /\ Fits(d, u.impl[r])
    BY <2>1, WithinSame DEF TagIn, Free
  <2>3. PICK t \in Views : Does(p, V, <<Bind(d, r)>>, u, t) /\ SetIn(u, t, d, u.impl[r])
    BY <2>2, BindDoes
  <2>4. PICK x \in Steps : x = Unbind(d)
    BY <1>0, StepFields, HandlesAreThings DEF Unbind, StepNames
  <2>5. PICK y \in Steps : y = Bind(d, r)
    BY <1>0, StepFields, HandlesAreThings DEF Bind, StepNames
  <2>6. Does(p, V, <<x, y>>, s, t)
    BY <2>1, <2>3, <2>4, <2>5, DoesTwo
  <2>7. SetIn(s, t, d, s.impl[r])
    BY <2>1, <2>3 DEF SetIn, TagIn
  <2>. QED  BY <1>2, <2>4, <2>5, <2>6, <2>7 DEF CopyAssign
<1>. QED  BY <1>1, <1>2

LEMMA MoveAssignDoes ==
    ASSUME NEW p, NEW V, NEW d \in V, NEW r \in V, d # r, NEW s \in Views, NEW old, NEW new,
           Within(p, s, d), Within(p, s, r), Clean(s), Fits(d, s.impl[r]),
           old = new => s.impl[d] = s.impl[r]
    PROVE  \E t \in Views : Does(p, V, MoveAssign(d, r, old, new), s, t) /\ MovedIn(s, t, d, r)
<1>0. d \in Handles /\ r \in Handles
  BY DEF Within
<1>1. CASE old = new
  <2>1. PICK u \in Views : Does(p, V, <<Unbind(r)>>, s, u) /\ TagIn(s, u, "stale", r)
    BY UnbindDoes
  <2>2. Within(p, u, r) /\ Tagged(u, "stale", r)
    BY <2>1, WithinSame DEF TagIn
  <2>3. PICK t \in Views : Does(p, V, <<Clear(r)>>, u, t) /\ SetIn(u, t, r, None)
    BY <2>2, ClearDoes
  <2>4. PICK x \in Steps : x = Unbind(r)
    BY <1>0, StepFields, HandlesAreThings DEF Unbind, StepNames
  <2>5. PICK y \in Steps : y = Clear(r)
    BY <1>0, StepFields, HandlesAreThings DEF Clear, StepNames
  <2>6. Does(p, V, <<x, y>>, s, t)
    BY <2>1, <2>3, <2>4, <2>5, DoesTwo
  <2>7. Taken(s.impl, d, r) = [s.impl EXCEPT ![r] = None]
    <3>1. s.impl[d] = s.impl[r]
      BY <1>1
    <3>2. s.impl \in [Handles -> Memories \cup {None}]
      BY ViewFields
    <3>. QED  BY <1>0, <3>1, <3>2 DEF Taken
  <2>8. MovedIn(s, t, d, r)
    BY <2>1, <2>3, <2>7 DEF SetIn, TagIn, MovedIn
  <2>. QED  BY <1>1, <2>4, <2>5, <2>6, <2>8 DEF MoveAssign
<1>2. CASE old # new
  <2>1. PICK u \in Views : Does(p, V, <<Unbind(d)>>, s, u) /\ TagIn(s, u, "stale", d)
    BY UnbindDoes
  <2>2. Within(p, u, d) /\ Within(p, u, r) /\ Free(u, d) /\ Fits(d, u.impl[r])
    BY <2>1, WithinSame DEF TagIn, Free
  <2>3. PICK t \in Views : Does(p, V, <<Take(d, r)>>, u, t) /\ MovedIn(u, t, d, r)
    BY <2>2, TakeDoes
  <2>4. PICK x \in Steps : x = Unbind(d)
    BY <1>0, StepFields, HandlesAreThings DEF Unbind, StepNames
  <2>5. PICK y \in Steps : y = Take(d, r)
    BY <1>0, StepFields, HandlesAreThings DEF Take, StepNames
  <2>6. Does(p, V, <<x, y>>, s, t)
    BY <2>1, <2>3, <2>4, <2>5, DoesTwo
  <2>7. MovedIn(s, t, d, r)
    BY <2>1, <2>3 DEF MovedIn, TagIn
  <2>. QED  BY <1>2, <2>4, <2>5, <2>6, <2>7 DEF MoveAssign
<1>. QED  BY <1>1, <1>2

LEMMA DestructDoes ==
    ASSUME NEW p, NEW V, NEW d \in V, NEW s \in Views, Within(p, s, d), Clean(s)
    PROVE  \E t \in Views : Does(p, V, Destruct(d), s, t) /\ SetIn(s, t, d, None)
<1>0. d \in Handles
  BY DEF Within
<1>1. CASE Home[d] \in Procs
  BY <1>1, DropDoes DEF Destruct
<1>2. CASE Home[d] \notin Procs
  <2>1. PICK u \in Views : Does(p, V, <<Unbind(d)>>, s, u) /\ TagIn(s, u, "stale", d)
    BY UnbindDoes
  <2>2. Within(p, u, d) /\ Tagged(u, "stale", d)
    BY <2>1, WithinSame DEF TagIn
  <2>3. PICK t \in Views : Does(p, V, <<Clear(d)>>, u, t) /\ SetIn(u, t, d, None)
    BY <2>2, ClearDoes
  <2>4. PICK x \in Steps : x = Unbind(d)
    BY <1>0, StepFields, HandlesAreThings DEF Unbind, StepNames
  <2>5. PICK y \in Steps : y = Clear(d)
    BY <1>0, StepFields, HandlesAreThings DEF Clear, StepNames
  <2>6. Does(p, V, <<x, y>>, s, t)
    BY <2>1, <2>3, <2>4, <2>5, DoesTwo
  <2>7. SetIn(s, t, d, None)
    BY <2>1, <2>3 DEF SetIn, TagIn
  <2>. QED  BY <1>2, <2>4, <2>5, <2>6, <2>7 DEF Destruct
<1>. QED  BY <1>1, <1>2

LEMMA TargetAgain ==
    ASSUME NEW s \in Views, NEW u \in Uniques, NEW o, s.target[u] = o, Clean(s)
    PROVE  TargetIn(s, s, u, o)
<1>1. [s.target EXCEPT ![u] = o] = s.target
  BY ViewFields
<1>. QED  BY <1>1 DEF TargetIn

LEMMA ResetDoes ==
    ASSUME NEW p, NEW V, NEW u \in V, NEW s \in Views,
           u \in Uniques, Within(p, s, u), Clean(s), Right(s, u), target[u] = s.target[u]
    PROVE  \E t \in Views : Does(p, V, Reset(u), s, t) /\ TargetIn(s, t, u, None)
<1>0. u \in Handles
  BY DEF Within
<1>1. CASE target[u] = None
  <2>1. Reset(u) = <<>>
    BY <1>1 DEF Reset
  <2>2. TargetIn(s, s, u, None)
    BY <1>1, TargetAgain
  <2>. QED  BY <2>1, <2>2, DoesNone
<1>2. CASE target[u] # None
  <2>1. PICK a \in Views : Does(p, V, <<Step("destroy", u, u)>>, s, a) /\ TagIn(s, a, "dying", u)
    BY <1>2, DestroyDoes
  <2>2. Within(p, a, u) /\ Tagged(a, "dying", u) /\ a.target[u] # None /\ Right(a, u)
    BY <1>2, <2>1, WithinSame DEF TagIn, Right, Wreck
  <2>3. PICK b \in Views : Does(p, V, <<Step("free", u, u)>>, a, b) /\ TagIn(a, b, "freed", u)
    BY <2>2, FreeDoes
  <2>4. Within(p, b, u) /\ Tagged(b, "freed", u) /\ b.target[u] # None
    BY <2>2, <2>3, WithinSame DEF TagIn
  <2>5. PICK t \in Views : Does(p, V, <<Step("forget", u, u)>>, b, t) /\ TargetIn(b, t, u, None)
    BY <2>4, ForgetDoes
  <2>6. PICK x \in Steps : x = Step("destroy", u, u)
    BY <1>0, StepFields, HandlesAreThings DEF StepNames
  <2>7. PICK y \in Steps : y = Step("free", u, u)
    BY <1>0, StepFields, HandlesAreThings DEF StepNames
  <2>8. PICK z \in Steps : z = Step("forget", u, u)
    BY <1>0, StepFields, HandlesAreThings DEF StepNames
  <2>9. Does(p, V, <<x, y>>, s, b)
    BY <2>1, <2>3, <2>6, <2>7, DoesTwo
  <2>10. Does(p, V, <<x, y>> \o <<z>>, s, t)
    BY <2>5, <2>8, <2>9, DoesThen
  <2>11. <<x, y>> \o <<z>> = <<x, y, z>>
    BY ThreeAre
  <2>12. Reset(u) = <<x, y, z>>
    BY <1>2, <2>6, <2>7, <2>8 DEF Reset
  <2>13. TargetIn(s, t, u, None)
    BY <2>1, <2>3, <2>5 DEF TargetIn, TagIn
  <2>. QED  BY <2>10, <2>11, <2>12, <2>13
<1>. QED  BY <1>1, <1>2

(* The destructor of an ipsm_malloc: nothing of the process stays behind. *)
Emptied(s, t, x) ==
    /\ t.impl = [s.impl EXCEPT ![x] = None] /\ t.shm = [s.shm EXCEPT ![x] = None]
    /\ t.target = s.target /\ t.taint = s.taint /\ t.fresh = {} /\ t.tag = "over"

LEMMA ReleaseMallocDoes ==
    ASSUME NEW p, NEW V, NEW x \in V, NEW s \in Views,
           x \in Held, Home[x] = p, Clean(s), s.fresh = {},
           s.shm[x] # None => \A h \in Handles \ {x} : Home[h] = p => s.impl[h] # s.shm[x],
           s.shm[x] # None => \A u \in Uniques : Home[u] = p /\ s.target[u] # None =>
                                                 HeapOf[s.target[u]] # s.shm[x]
    PROVE  \E t \in Views : Does(p, V, Release(x), s, t) /\ Emptied(s, t, x)
<1>0. x \in Handles
  BY HeldAreHandles
<1>1. Within(p, s, x)
  BY <1>0 DEF Within
<1>2. PICK a \in Views : Does(p, V, Destruct(x), s, a) /\ SetIn(s, a, x, None)
  BY <1>1, DestructDoes
<1>3. /\ a.impl[x] = None /\ \A h \in Handles \ {x} : a.impl[h] = s.impl[h]
      /\ a.shm = s.shm /\ a.target = s.target /\ a.fresh = {} /\ Clean(a)
  BY <1>0, <1>2, ViewFields DEF SetIn
<1>4. NothingIn(p, a, x)
  BY <1>3 DEF NothingIn
<1>5. PICK t \in Views : Does(p, V, <<Step("unmap", x, x)>>, a, t) /\ UnmappedIn(a, t, x)
  BY <1>3, <1>4, UnmapDoes
<1>6. Does(p, V, Release(x), s, t)
  BY <1>2, <1>5, DoesThen DEF Release
<1>7. Emptied(s, t, x)
  BY <1>2, <1>5 DEF Emptied, SetIn, UnmappedIn
<1>. QED  BY <1>6, <1>7

(* No handles have changed but those of C. *)
OnlyIn(s, t, C) ==
    /\ t.shm = s.shm /\ t.target = s.target /\ t.taint = s.taint /\ t.fresh = s.fresh /\ Clean(t)
    /\ \A h \in Handles : h \in C \/ t.impl[h] = s.impl[h]

LEMMA SetOnly ==
    ASSUME NEW s \in Views, NEW t, NEW d \in Handles, NEW m, SetIn(s, t, d, m)
    PROVE  OnlyIn(s, t, {d}) /\ t.impl[d] = m
BY ViewFields DEF SetIn, OnlyIn

LEMMA DroppedOnly ==
    ASSUME NEW s \in Views, NEW t, NEW d \in Handles, SetIn(s, t, d, None)
    PROVE  OnlyIn(s, t, {d}) /\ t.impl[d] = None
BY ViewFields DEF SetIn, OnlyIn

LEMMA MovedOnly ==
    ASSUME NEW s \in Views, NEW t, NEW d \in Handles, NEW r \in Handles, d # r, MovedIn(s, t, d, r)
    PROVE  OnlyIn(s, t, {d, r}) /\ t.impl[d] = s.impl[r] /\ t.impl[r] = None
BY ViewFields DEF MovedIn, OnlyIn, Taken

(* The temporaries. *)
LEMMA LocalKinds ==
    ASSUME NEW p \in Procs
    PROVE  /\ Setup(p) \in Setups /\ Home[Setup(p)] = p
           /\ Temp(p) \in Temps /\ Home[Temp(p)] = p
           /\ Deleter(p) \in Deleters /\ Home[Deleter(p)] = p
           /\ {Setup(p), Temp(p), Deleter(p)} \subseteq Handles
<1>1. ASSUME NEW S \in {Setups, Temps, Deleters}
      PROVE  Local(p, S) \in S /\ Home[Local(p, S)] = p
  <2>1. \E h \in S : Home[h] = p
    BY KindsAssumption
  <2>. QED  BY <2>1 DEF Local
<1>. QED  BY <1>1 DEF Setup, Temp, Deleter, Handles

(* The loop of the functor over the lists. *)
ListBinds(L, n, a) == [i \in 1..n |-> Bind(L[i], a)]

LEMMA ListBindsMore ==
    ASSUME NEW L, NEW k \in Nat, NEW a \in Handles,
           \A i \in 1..(k + 1) : L[i] \in Handles
    PROVE  /\ ListBinds(L, k, a) \in Seq(Steps) /\ Bind(L[k + 1], a) \in Steps
           /\ ListBinds(L, k + 1, a) = ListBinds(L, k, a) \o <<Bind(L[k + 1], a)>>
<1>1. \A i \in 1..(k + 1) : Bind(L[i], a) \in Steps
  BY HandlesAreThings, StepFields DEF Bind, StepNames
<1>2. PICK x \in Steps : x = Bind(L[k + 1], a)
  <2>1. k + 1 \in 1..(k + 1)
    OBVIOUS
  <2>. QED  BY <1>1, <2>1
<1>3. PICK w : w = ListBinds(L, k, a)
  OBVIOUS
<1>4. PICK v : v = ListBinds(L, k + 1, a)
  OBVIOUS
<1>5. w \in [1..k -> Steps] /\ v \in [1..(k + 1) -> Steps]
  BY <1>1, <1>3, <1>4 DEF ListBinds
<1>6. w \in Seq(Steps) /\ v \in Seq(Steps) /\ Len(w) = k /\ Len(v) = k + 1
  BY <1>5
<1>7. \A i \in 1..k : v[i] = w[i]
  BY <1>3, <1>4 DEF ListBinds
<1>8. v[k + 1] = x
  BY <1>2, <1>4 DEF ListBinds
<1>9. PICK c : c = w \o <<x>>
  OBVIOUS
<1>10. c \in Seq(Steps) /\ Len(c) = k + 1 /\ c[k + 1] = x /\ \A i \in 1..k : c[i] = w[i]
  BY ONLY <1>6, <1>9, x \in Steps, k \in Nat
<1>11. \A i \in 1..(k + 1) : c[i] = v[i]
  <2>. SUFFICES ASSUME NEW i \in 1..(k + 1) PROVE c[i] = v[i]
    OBVIOUS
  <2>1. i \in 1..k \/ i = k + 1
    OBVIOUS
  <2>. QED  BY <1>7, <1>8, <1>10, <2>1
<1>12. c = v
  BY <1>6, <1>10, <1>11, SeqEqual
<1>. QED  BY <1>2, <1>3, <1>4, <1>6, <1>9, <1>12

LEMMA ListBindsDo ==
    ASSUME NEW p, NEW V, NEW m \in Memories, NEW a \in V, NEW s \in Views,
           a \in Temps, Home[a] = p, Clean(s), s.impl[a] = m, m \in MapsIn(p, s),
           NEW n \in Nat, NEW L \in [1..n -> ListsOf[m]], IsInjective(L),
           ListsOf[m] \subseteq V, \A l \in ListsOf[m] : s.impl[l] = None
    PROVE  \E t \in Views : Does(p, V, ListBinds(L, n, a), s, t) /\ OnlyIn(s, t, ListsOf[m])
<1>. DEFINE Done1(k, t) ==
              /\ Does(p, V, ListBinds(L, k, a), s, t) /\ OnlyIn(s, t, ListsOf[m])
              /\ \A i \in (k + 1)..n : t.impl[L[i]] = None
            T == {k \in Nat : k <= n => \E t \in Views : Done1(k, t)}
<1>0. /\ ListsOf[m] \subseteq Handles /\ \A l \in ListsOf[m] : Home[l] = m
      /\ a \in Handles /\ a \notin ListsOf[m]
  BY HomesAssumption, KindsAssumption DEF Handles, Lists
<1>1. 0 \in T
  <2>1. ListBinds(L, 0, a) = <<>>
    <3>1. ListBinds(L, 0, a) \in Seq(Steps) /\ Len(ListBinds(L, 0, a)) = 0
      <4>1. ListBinds(L, 0, a) \in [1..0 -> Steps]
        BY DEF ListBinds
      <4>. QED  BY <4>1
    <3>. QED  BY <3>1, EmptySeq
  <2>2. Does(p, V, ListBinds(L, 0, a), s, s)
    BY <2>1, DoesNone
  <2>3. OnlyIn(s, s, ListsOf[m])
    BY DEF OnlyIn
  <2>4. \A i \in (0 + 1)..n : s.impl[L[i]] = None
    OBVIOUS
  <2>. QED  BY <2>2, <2>3, <2>4
<1>2. ASSUME NEW k \in Nat, k \in T
      PROVE  k + 1 \in T
  <2>. SUFFICES ASSUME k + 1 <= n PROVE \E t \in Views : Done1(k + 1, t)
    OBVIOUS
  <2>1. PICK r \in Views : Done1(k, r)
    <3>1. k <= n
      OBVIOUS
    <3>. QED  BY <1>2, <3>1
  <2>2. PICK l \in ListsOf[m] : l = L[k + 1]
    <3>1. k + 1 \in 1..n
      OBVIOUS
    <3>. QED  BY <3>1
  <2>3. r.impl[l] = None
    <3>1. k + 1 \in (k + 1)..n
      OBVIOUS
    <3>. QED  BY <2>1, <2>2, <3>1
  <2>4. r.impl[a] = m /\ r.shm = s.shm /\ Clean(r)
    BY <1>0, <2>1 DEF OnlyIn
  <2>5. Within(p, r, l) /\ Within(p, r, a) /\ Free(r, l) /\ Fits(l, r.impl[a]) /\ l # a
    <3>1. Within(p, s, l) /\ Within(p, s, a)
      BY <1>0 DEF Within
    <3>. QED  BY <1>0, <2>3, <2>4, <3>1, WithinSame DEF Free, Fits
  <2>6. l \in V
    OBVIOUS
  <2>7. PICK t \in Views : Does(p, V, <<Bind(l, a)>>, r, t) /\ SetIn(r, t, l, r.impl[a])
    BY <2>5, <2>6, BindDoes
  <2>8. \A i \in 1..(k + 1) : L[i] \in Handles
    <3>. SUFFICES ASSUME NEW i \in 1..(k + 1) PROVE L[i] \in Handles
      OBVIOUS
    <3>1. i \in 1..n
      OBVIOUS
    <3>. QED  BY <1>0, <3>1
  <2>9. Does(p, V, ListBinds(L, k + 1, a), s, t)
    <3>1. ListBinds(L, k + 1, a) = ListBinds(L, k, a) \o <<Bind(L[k + 1], a)>>
      BY <1>0, <2>8, ListBindsMore
    <3>2. PICK w : w = ListBinds(L, k, a)
      OBVIOUS
    <3>3. PICK x : x = <<Bind(l, a)>>
      OBVIOUS
    <3>4. Does(p, V, w \o x, s, t)
      BY <2>1, <2>7, <3>2, <3>3, DoesThen
    <3>. QED  BY <2>2, <3>1, <3>2, <3>3, <3>4
  <2>10. t.impl[l] = m /\ \A h \in Handles \ {l} : t.impl[h] = r.impl[h]
    BY <1>0, <2>4, <2>7, ViewFields DEF SetIn
  <2>11. OnlyIn(s, t, ListsOf[m])
    BY <2>1, <2>7, <2>10 DEF OnlyIn, SetIn
  <2>12. ASSUME NEW i \in (k + 2)..n
         PROVE  t.impl[L[i]] = None
    <3>1. i \in (k + 1)..n /\ i \in 1..n /\ k + 1 \in 1..n /\ i # k + 1 /\ DOMAIN L = 1..n
      OBVIOUS
    <3>2. L[i] # l /\ L[i] \in Handles
      BY <1>0, <2>2, <3>1 DEF IsInjective
    <3>. QED  BY <2>1, <2>10, <3>1, <3>2
  <2>13. (k + 1) + 1 = k + 2
    OBVIOUS
  <2>. QED  BY <2>9, <2>11, <2>12, <2>13
<1>. HIDE DEF T
<1>3. n \in T
  BY <1>1, <1>2, SetInduction
<1>. QED  BY <1>3 DEF T

LEMMA SeqOfLists ==
    ASSUME NEW S, IsFiniteSet(S)
    PROVE  /\ Cardinality(S) \in Nat
           /\ SetToSeq(S) \in [1..Cardinality(S) -> S] /\ IsInjective(SetToSeq(S))
<1>1. Cardinality(S) \in Nat /\ ExistsBijection(1..Cardinality(S), S)
  BY FS_CardinalityType
<1>2. \E f \in [1..Cardinality(S) -> S] : IsInjective(f)
  BY <1>1 DEF ExistsBijection, Bijection, Injection
<1>. QED  BY <1>1, <1>2 DEF SetToSeq

AttachedIn(p, s, t, x) == OnlyIn(s, t, {x, Temp(p)}) /\ t.impl[Temp(p)] = None

LEMMA AttachedDoes ==
    ASSUME NEW p \in Procs, NEW V, NEW x \in V, NEW m, NEW s \in Views,
           x \in Mallocs, Home[x] = p, Temp(p) \in V, m \in MapsIn(p, s),
           Clean(s), s.impl[Temp(p)] = None
    PROVE  \E t \in Views : Does(p, V, Attached(p, x, m), s, t) /\ AttachedIn(p, s, t, x)
<1>1. PICK a \in V : a = Temp(p)
  OBVIOUS
<1>2. a \in Temps /\ Home[a] = p /\ a \in Handles /\ x \in Handles /\ a # x
  BY <1>1, LocalKinds, KindsAssumption DEF Handles
<1>3. PICK r1 \in Views : Does(p, V, <<Step("attach", a, m)>>, s, r1) /\ SetIn(s, r1, a, m)
  BY <1>1, <1>2, AttachDoes
<1>4. OnlyIn(s, r1, {a}) /\ r1.impl[a] = m
  BY <1>2, <1>3, SetOnly
<1>5. m # None
  BY MapsAreMemories, HomesAssumption
<1>6. Within(p, r1, x) /\ Within(p, r1, a) /\ Clean(r1) /\ Fits(x, r1.impl[a])
  BY <1>2, <1>4, OwnFits DEF Within, OnlyIn
<1>7. PICK r2 \in Views : Does(p, V, MoveAssign(x, a, None, m), r1, r2) /\ MovedIn(r1, r2, x, a)
  BY <1>2, <1>5, <1>6, MoveAssignDoes
<1>8. OnlyIn(r1, r2, {x, a}) /\ r2.impl[a] = None
  BY <1>2, <1>7, MovedOnly
<1>9. Within(p, r2, a) /\ Clean(r2)
  BY <1>2, <1>8 DEF Within, OnlyIn
<1>10. PICK t \in Views : Does(p, V, Destruct(a), r2, t) /\ SetIn(r2, t, a, None)
  BY <1>9, DestructDoes
<1>11. OnlyIn(r2, t, {a}) /\ t.impl[a] = None
  BY <1>2, <1>10, DroppedOnly
<1>12. OnlyIn(s, t, {x, a})
  BY <1>4, <1>8, <1>11 DEF OnlyIn
<1>13. PICK w1 : w1 = <<Step("attach", a, m)>>
  OBVIOUS
<1>14. PICK w2 : w2 = MoveAssign(x, a, None, m)
  OBVIOUS
<1>15. PICK w3 : w3 = Destruct(a)
  OBVIOUS
<1>16. Does(p, V, w1 \o w2, s, r2)
  BY <1>3, <1>7, <1>13, <1>14, DoesThen
<1>17. Does(p, V, (w1 \o w2) \o w3, s, t)
  BY <1>10, <1>15, <1>16, DoesThen
<1>18. Attached(p, x, m) = (w1 \o w2) \o w3
  BY <1>1, <1>13, <1>14, <1>15 DEF Attached
<1>. QED  BY <1>1, <1>11, <1>12, <1>17, <1>18 DEF AttachedIn

(* The lists are bound, and the memory is ready. *)
FunctorIn(s, t, m) ==
    /\ t.shm = s.shm /\ t.target = s.target /\ t.taint = s.taint /\ t.fresh = {} /\ Clean(t)
    /\ \A h \in Handles : h \in ListsOf[m] \/ t.impl[h] = s.impl[h]

Unborn(p, s, m) ==
    /\ m \in MapsIn(p, s) \ s.taint /\ s.tag = "new" /\ s.fresh = {m}
    /\ \A h \in Handles : s.impl[h] # m /\ (Home[h] = m => s.impl[h] = None)
    /\ \A u \in Uniques : Home[u] = m => s.target[u] = None
    /\ \A u \in Uniques : s.target[u] # None => HeapOf[s.target[u]] # m

LEMMA FunctorDoes ==
    ASSUME NEW p \in Procs, NEW V, NEW m \in Memories, NEW s \in Views,
           Setup(p) \in V, Temp(p) \in V, ListsOf[m] \subseteq V, Unborn(p, s, m),
           s.impl[Setup(p)] = None, s.impl[Temp(p)] = None
    PROVE  \E t \in Views : Does(p, V, InitFunctor(p, m), s, t) /\ FunctorIn(s, t, m)
<1>1. PICK a \in V : a = Temp(p)
  OBVIOUS
<1>2. PICK u \in V : u = Setup(p)
  OBVIOUS
<1>3. /\ a \in Temps /\ Home[a] = p /\ a \in Handles /\ u \in Handles /\ Home[u] = p /\ a # u
      /\ a \notin ListsOf[m] /\ u \notin ListsOf[m]
      /\ ListsOf[m] \subseteq Handles /\ IsFiniteSet(ListsOf[m])
  <2>1. a \in Temps /\ u \in Setups /\ Home[a] = p /\ Home[u] = p
    BY <1>1, <1>2, LocalKinds
  <2>2. ListsOf[m] \subseteq Lists
    BY DEF Lists
  <2>3. ListsOf[m] \subseteq Handles /\ IsFiniteSet(Handles)
    BY <2>2, KindsAssumption DEF Handles
  <2>4. IsFiniteSet(ListsOf[m])
    BY <2>3, FS_Subset
  <2>. QED  BY <2>1, <2>2, <2>3, <2>4, KindsAssumption DEF Handles
<1>4. PICK r1 \in Views : Does(p, V, <<Step("create", u, m)>>, s, r1) /\ SetIn(s, r1, u, m)
  BY <1>2, <1>3, CreateDoes DEF Unborn
<1>5. OnlyIn(s, r1, {u}) /\ r1.impl[u] = m /\ MapsIn(p, r1) = MapsIn(p, s)
  BY <1>3, <1>4, SetOnly, SameMaps DEF OnlyIn
<1>6. Within(p, r1, a) /\ Within(p, r1, u) /\ Free(r1, a) /\ Fits(a, r1.impl[u])
  BY <1>1, <1>3, <1>5, OwnFits DEF Within, OnlyIn, Free
<1>7. PICK r2 \in Views : Does(p, V, <<Bind(a, u)>>, r1, r2) /\ SetIn(r1, r2, a, r1.impl[u])
  BY <1>3, <1>6, BindDoes
<1>8. OnlyIn(r1, r2, {a}) /\ r2.impl[a] = m /\ MapsIn(p, r2) = MapsIn(p, r1)
  BY <1>3, <1>5, <1>7, SetOnly, SameMaps DEF OnlyIn
<1>9. PICK n \in Nat : n = Cardinality(ListsOf[m])
  BY <1>3, SeqOfLists
<1>10. PICK L \in [1..n -> ListsOf[m]] : L = SetToSeq(ListsOf[m]) /\ IsInjective(L)
  BY <1>3, <1>9, SeqOfLists
<1>11. \A l \in ListsOf[m] : r2.impl[l] = None
  <2>1. \A l \in ListsOf[m] : Home[l] = m
    BY HomesAssumption
  <2>. QED  BY <1>3, <1>5, <1>8, <2>1 DEF Unborn, OnlyIn
<1>12. PICK r3 \in Views : Does(p, V, ListBinds(L, n, a), r2, r3) /\ OnlyIn(r2, r3, ListsOf[m])
  <2>1. m \in MapsIn(p, r2) /\ Clean(r2)
    BY <1>5, <1>8 DEF Unborn, OnlyIn
  <2>. QED  BY <1>3, <1>8, <1>10, <1>11, <2>1, ListBindsDo
<1>13. Within(p, r3, a) /\ Clean(r3)
  BY <1>3, <1>12 DEF Within, OnlyIn
<1>14. PICK r4 \in Views : Does(p, V, Destruct(a), r3, r4) /\ SetIn(r3, r4, a, None)
  BY <1>13, DestructDoes
<1>15. OnlyIn(r3, r4, {a}) /\ r4.impl[a] = None
  BY <1>3, <1>14, DroppedOnly
<1>16. Within(p, r4, u) /\ Clean(r4)
  BY <1>3, <1>15 DEF Within, OnlyIn
<1>17. PICK r5 \in Views : Does(p, V, Destruct(u), r4, r5) /\ SetIn(r4, r5, u, None)
  BY <1>16, DestructDoes
<1>18. OnlyIn(r4, r5, {u}) /\ r5.impl[u] = None
  BY <1>3, <1>17, DroppedOnly
<1>19. Clean(r5) /\ r5.fresh = {m}
  BY <1>5, <1>8, <1>12, <1>15, <1>18 DEF OnlyIn, Unborn
<1>20. PICK t \in Views : Does(p, V, <<Step("ready", u, m)>>, r5, t) /\ ReadiedIn(r5, t)
  BY <1>3, <1>19, ReadyDoes
<1>21. r5.impl[a] = s.impl[a] /\ r5.impl[u] = s.impl[u]
  BY <1>1, <1>2, <1>3, <1>15, <1>18 DEF OnlyIn
<1>22. FunctorIn(s, t, m)
  <2>1. \A h \in Handles : h \in ListsOf[m] \/ r5.impl[h] = s.impl[h]
    BY <1>5, <1>8, <1>12, <1>15, <1>18, <1>21 DEF OnlyIn
  <2>2. r5.shm = s.shm /\ r5.target = s.target /\ r5.taint = s.taint
    BY <1>5, <1>8, <1>12, <1>15, <1>18 DEF OnlyIn
  <2>. QED  BY <1>20, <2>1, <2>2 DEF ReadiedIn, FunctorIn
<1>23. Does(p, V, InitFunctor(p, m), s, t)
  <2>1. PICK x \in Steps : x = Step("create", u, m)
    BY <1>3, StepFields, HandlesAreThings DEF StepNames, Things
  <2>2. PICK y \in Steps : y = Bind(a, u)
    BY <1>3, StepFields, HandlesAreThings DEF StepNames, Bind
  <2>3. Does(p, V, <<x, y>>, s, r2)
    BY <1>4, <1>7, <2>1, <2>2, DoesTwo
  <2>4. PICK w1 : w1 = <<x, y>>
    OBVIOUS
  <2>5. PICK w2 : w2 = ListBinds(L, n, a)
    OBVIOUS
  <2>6. PICK w3 : w3 = Destruct(a)
    OBVIOUS
  <2>7. PICK w4 : w4 = Destruct(u)
    OBVIOUS
  <2>8. PICK w5 : w5 = <<Step("ready", u, m)>>
    OBVIOUS
  <2>9. Does(p, V, w1 \o w2, s, r3)
    BY <1>12, <2>3, <2>4, <2>5, DoesThen
  <2>10. Does(p, V, (w1 \o w2) \o w3, s, r4)
    BY <1>14, <2>6, <2>9, DoesThen
  <2>11. Does(p, V, ((w1 \o w2) \o w3) \o w4, s, r5)
    BY <1>17, <2>7, <2>10, DoesThen
  <2>12. Does(p, V, (((w1 \o w2) \o w3) \o w4) \o w5, s, t)
    BY <1>20, <2>8, <2>11, DoesThen
  <2>13. InitFunctor(p, m) = (((w1 \o w2) \o w3) \o w4) \o w5
    BY <1>1, <1>2, <1>9, <1>10, <2>1, <2>2, <2>4, <2>5, <2>6, <2>7, <2>8
    DEF InitFunctor, ListBinds
  <2>. QED  BY <2>12, <2>13
<1>. QED  BY <1>22, <1>23

-----------------------------------------------------------------------------
(* The calls on handles and on ipsm_malloc.                                *)

Begins(p, s) ==
    Clean(s) /\ s.fresh = {} /\ (\A v \in Handles : Idle(s, v)) /\ Placed(p, s)
Completes(p, V, w, s) == \E t \in Views : Does(p, V, w, s, t) /\ Rest(t)

LEMMA PlainIdle ==
    ASSUME NEW s, NEW v \in Users \cup Mallocs \cup Lists
    PROVE  Idle(s, v)
BY KindsAssumption DEF Idle

LEMMA SameIdle ==
    ASSUME NEW s, NEW t, NEW v, SameAt(s, t, v), t.taint = s.taint, Idle(s, v)
    PROVE  Idle(t, v)
BY DEF SameAt, Idle, Right, Wreck, Held

LEMMA RestIf ==
    ASSUME NEW s, NEW t, \A v \in Handles : Idle(s, v), t.taint = s.taint, t.fresh = {},
           t.tag \in {"clean", "over"}, \A v \in Handles : SameAt(s, t, v) \/ Idle(t, v)
    PROVE  Rest(t)
BY SameIdle DEF Rest

LEMMA OnlySame ==
    ASSUME NEW s, NEW t, NEW C, OnlyIn(s, t, C), NEW v \in Handles, v \notin C
    PROVE  SameAt(s, t, v)
BY DEF OnlyIn, SameAt

LEMMA RestOnly ==
    ASSUME NEW p, NEW s, NEW t, NEW C, Begins(p, s), OnlyIn(s, t, C), \A v \in C : Idle(t, v)
    PROVE  Rest(t)
<1>1. \A v \in Handles : SameAt(s, t, v) \/ Idle(t, v)
  BY OnlySame
<1>. QED  BY <1>1, RestIf DEF Begins, OnlyIn, Clean

LEMMA CopyCompletes ==
    ASSUME NEW p, NEW V, NEW d \in V, NEW r \in V, d # r, NEW s \in Views, NEW old, NEW new,
           Begins(p, s), d \in Users, Within(p, s, d), Within(p, s, r), Fits(d, s.impl[r]),
           old = new => s.impl[d] = s.impl[r]
    PROVE  Completes(p, V, CopyAssign(d, r, old, new), s)
<1>1. PICK t \in Views : /\ Does(p, V, CopyAssign(d, r, old, new), s, t)
                         /\ SetIn(s, t, d, s.impl[r])
  BY CopyAssignDoes DEF Begins
<1>2. OnlyIn(s, t, {d})
  BY <1>1, SetOnly DEF Within
<1>3. Rest(t)
  BY <1>2, PlainIdle, RestOnly
<1>. QED  BY <1>1, <1>3 DEF Completes

LEMMA MoveCompletes ==
    ASSUME NEW p, NEW V, NEW d \in V, NEW r \in V, d # r, NEW s \in Views, NEW old, NEW new,
           Begins(p, s), d \in Users, r \in Users, Within(p, s, d), Within(p, s, r),
           Fits(d, s.impl[r]), old = new => s.impl[d] = s.impl[r]
    PROVE  Completes(p, V, MoveAssign(d, r, old, new), s)
<1>1. PICK t \in Views : Does(p, V, MoveAssign(d, r, old, new), s, t) /\ MovedIn(s, t, d, r)
  BY MoveAssignDoes DEF Begins
<1>2. OnlyIn(s, t, {d, r})
  BY <1>1, MovedOnly DEF Within
<1>3. Rest(t)
  BY <1>2, PlainIdle, RestOnly
<1>. QED  BY <1>1, <1>3 DEF Completes

LEMMA SwapCompletes ==
    ASSUME NEW p, NEW V, NEW d \in V, NEW r \in V, d # r, NEW s \in Views,
           Begins(p, s), d \in Users, r \in Users, Within(p, s, d), Within(p, s, r),
           Fits(d, s.impl[r]), Fits(r, s.impl[d])
    PROVE  Completes(p, V, <<Step("swap", d, r)>>, s)
<1>1. PICK t \in Views : Does(p, V, <<Step("swap", d, r)>>, s, t) /\ SwappedIn(s, t, d, r)
  BY SwapDoes DEF Begins
<1>2. OnlyIn(s, t, {d, r})
  BY <1>1, ViewFields DEF Within, SwappedIn, OnlyIn, Swapped
<1>3. Rest(t)
  BY <1>2, PlainIdle, RestOnly
<1>. QED  BY <1>1, <1>3 DEF Completes

LEMMA DropCompletes ==
    ASSUME NEW p, NEW V, NEW d \in V, NEW s \in Views,
           Begins(p, s), d \in Users, Within(p, s, d)
    PROVE  Completes(p, V, Destruct(d), s)
<1>1. PICK t \in Views : Does(p, V, Destruct(d), s, t) /\ SetIn(s, t, d, None)
  BY DestructDoes DEF Begins
<1>2. OnlyIn(s, t, {d})
  BY <1>1, DroppedOnly DEF Within
<1>3. Rest(t)
  BY <1>2, PlainIdle, RestOnly
<1>. QED  BY <1>1, <1>3 DEF Completes

LEMMA AttachCompletes ==
    ASSUME NEW p \in Procs, NEW V, NEW x \in V, NEW m, NEW s \in Views,
           Begins(p, s), x \in Mallocs, Home[x] = p, Temp(p) \in V, m \in MapsIn(p, s)
    PROVE  Completes(p, V, Attached(p, x, m), s)
<1>1. PICK a \in V : a = Temp(p) /\ a \in Handles /\ a \in Temps
  BY LocalKinds
<1>2. s.impl[a] = None /\ s.shm[a] = None
  BY <1>1 DEF Begins, Idle
<1>3. PICK t \in Views : /\ Does(p, V, Attached(p, x, m), s, t)
                         /\ OnlyIn(s, t, {x, a}) /\ t.impl[a] = None
  BY <1>1, <1>2, AttachedDoes DEF Begins, AttachedIn
<1>4. Idle(t, a)
  BY <1>1, <1>2, <1>3, KindsAssumption DEF Idle, OnlyIn
<1>5. Rest(t)
  BY <1>3, <1>4, PlainIdle, RestOnly
<1>. QED  BY <1>3, <1>5 DEF Completes

LEMMA FirstCompletes ==
    ASSUME NEW p \in Procs, NEW V, NEW x \in V, NEW m \in Memories, NEW s \in Views,
           \A v \in Handles : Idle(s, v), Unborn(p, s, m),
           x \in Mallocs, Home[x] = p,
           Setup(p) \in V, Temp(p) \in V, ListsOf[m] \subseteq V
    PROVE  Completes(p, V, InitFunctor(p, m) \o Attached(p, x, m), s)
<1>1. PICK a \in V : a = Temp(p) /\ a \in Handles /\ a \in Temps
  BY LocalKinds
<1>2. s.impl[a] = None /\ s.shm[a] = None
  BY <1>1 DEF Idle
<1>3. s.impl[Setup(p)] = None
  BY LocalKinds DEF Idle
<1>4. PICK r \in Views : Does(p, V, InitFunctor(p, m), s, r) /\ FunctorIn(s, r, m)
  BY <1>1, <1>2, <1>3, FunctorDoes
<1>5. m \in MapsIn(p, r) /\ Clean(r)
  BY <1>4, SameMaps DEF FunctorIn, Unborn
<1>6. ListsOf[m] \subseteq Lists /\ a \notin Lists
  BY <1>1, KindsAssumption DEF Lists
<1>7. r.impl[a] = None /\ r.shm[a] = None
  BY <1>1, <1>2, <1>4, <1>6 DEF FunctorIn
<1>8. PICK t \in Views : /\ Does(p, V, Attached(p, x, m), r, t)
                         /\ OnlyIn(r, t, {x, a}) /\ t.impl[a] = None
  <2>1. PICK t \in Views : Does(p, V, Attached(p, x, m), r, t) /\ AttachedIn(p, r, t, x)
    <3>1. Temp(p) \in V /\ r.impl[Temp(p)] = None
      BY <1>1, <1>7
    <3>. QED  BY <1>5, <3>1, AttachedDoes
  <2>. QED  BY <1>1, <2>1 DEF AttachedIn
<1>9. Does(p, V, InitFunctor(p, m) \o Attached(p, x, m), s, t)
  <2>1. PICK w : w = InitFunctor(p, m)
    OBVIOUS
  <2>2. PICK v : v = Attached(p, x, m)
    OBVIOUS
  <2>. QED  BY <1>4, <1>8, <2>1, <2>2, DoesThen
<1>10. Idle(t, a)
  BY <1>1, <1>7, <1>8, KindsAssumption DEF Idle, OnlyIn
<1>11. \A v \in Handles : SameAt(s, t, v) \/ Idle(t, v)
  <2>. SUFFICES ASSUME NEW v \in Handles, v \notin Lists, v # x, v # a PROVE SameAt(s, t, v)
    BY <1>10, PlainIdle
  <2>. QED  BY <1>4, <1>6, <1>8 DEF SameAt, FunctorIn, OnlyIn
<1>12. t.taint = s.taint /\ t.fresh = {} /\ t.tag \in {"clean", "over"}
  BY <1>4, <1>8 DEF FunctorIn, OnlyIn, Clean
<1>13. Rest(t)
  BY <1>11, <1>12, RestIf
<1>. QED  BY <1>9, <1>13 DEF Completes

LEMMA NoTargetThere ==
    ASSUME NEW p \in Procs, NEW s \in Views, Begins(p, s), NEW m \in Memories,
           NEW x \in Mallocs, \A h \in Handles \ {x} : Home[h] = p => s.impl[h] # m,
           NEW u \in Uniques, Home[u] = p, s.target[u] # None
    PROVE  HeapOf[s.target[u]] # m
<1>1. u \in Handles /\ u # x
  BY KindsAssumption DEF Handles
<1>2. Right(s, u)
  BY <1>1 DEF Begins, Idle
<1>3. Home[u] \notin s.taint
  BY ViewFields, KindsAssumption
<1>. QED  BY <1>1, <1>2, <1>3 DEF Right, Wreck

LEMMA DestroyMallocCompletes ==
    ASSUME NEW p \in Procs, NEW V, NEW x \in V, NEW s \in Views,
           Begins(p, s), x \in Mallocs, Home[x] = p, s.shm[x] # None,
           \A h \in Handles \ {x} : Home[h] = p => s.impl[h] # s.shm[x]
    PROVE  Completes(p, V, Release(x), s)
<1>1. s.shm[x] \in Memories /\ x \in Held
  BY ViewFields DEF Held
<1>2. \A u \in Uniques : Home[u] = p /\ s.target[u] # None => HeapOf[s.target[u]] # s.shm[x]
  BY <1>1, NoTargetThere
<1>3. PICK t \in Views : Does(p, V, Release(x), s, t) /\ Emptied(s, t, x)
  BY <1>1, <1>2, ReleaseMallocDoes DEF Begins
<1>4. \A v \in Handles : v = x \/ SameAt(s, t, v)
  BY <1>3, ViewFields DEF Emptied, SameAt
<1>5. Rest(t)
  BY <1>3, <1>4, PlainIdle, RestIf DEF Emptied, Begins
<1>. QED  BY <1>3, <1>5 DEF Completes

LEMMA MoveMallocCompletes ==
    ASSUME NEW p \in Procs, NEW V, NEW x \in V, NEW y \in V, NEW s \in Views,
           Begins(p, s), x \in Mallocs, y \in Mallocs, x # y, Home[x] = p, Home[y] = p,
           Temp(p) \in V,
           s.shm[x] # None => \A h \in Handles \ {x} : Home[h] = p => s.impl[h] # s.shm[x]
    PROVE  Completes(p, V, MallocMoved(p, x, y), s)
<1>1. PICK a \in V : a = Temp(p) /\ a \in Handles /\ a \in Temps /\ Home[a] = p
  BY LocalKinds
<1>2. /\ {a, x, y} \subseteq Held /\ {a, x, y} \subseteq Handles /\ a # x /\ a # y
      /\ s.impl[a] = None /\ s.shm[a] = None
  BY <1>1, KindsAssumption, HeldAreHandles DEF Held, Begins, Idle
<1>3. PICK r1 \in Views : Does(p, V, <<Step("takeall", a, y)>>, s, r1) /\ TakenAllIn(s, r1, a, y)
  BY <1>1, <1>2, TakeAllDoes DEF Begins
<1>4. /\ r1.impl[a] = s.impl[y] /\ r1.shm[a] = s.shm[y] /\ r1.impl[y] = None /\ r1.shm[y] = None
      /\ \A h \in Handles \ {a, y} : r1.impl[h] = s.impl[h]
      /\ \A h \in Held \ {a, y} : r1.shm[h] = s.shm[h]
      /\ r1.target = s.target /\ r1.taint = s.taint /\ r1.fresh = {} /\ Clean(r1)
  BY <1>2, <1>3, ViewFields DEF TakenAllIn, Taken
<1>5. PICK r2 \in Views : Does(p, V, <<Step("swapall", a, x)>>, r1, r2) /\ SwappedAllIn(r1, r2, a, x)
  BY <1>1, <1>2, <1>4, SwapAllDoes
<1>6. /\ r2.impl[a] = s.impl[x] /\ r2.shm[a] = s.shm[x] /\ r2.impl[x] = s.impl[y]
      /\ r2.impl[y] = None /\ r2.shm[y] = None
      /\ \A h \in Handles \ {a, x, y} : r2.impl[h] = s.impl[h]
      /\ \A h \in Held \ {a, x, y} : r2.shm[h] = s.shm[h]
      /\ r2.target = s.target /\ r2.taint = s.taint /\ r2.fresh = {} /\ Clean(r2)
  <2>1. /\ r2.impl[a] = r1.impl[x] /\ r2.shm[a] = r1.shm[x] /\ r2.impl[x] = r1.impl[a]
        /\ \A h \in Handles \ {a, x} : r2.impl[h] = r1.impl[h]
        /\ \A h \in Held \ {a, x} : r2.shm[h] = r1.shm[h]
        /\ r2.target = r1.target /\ r2.taint = r1.taint /\ r2.fresh = {} /\ Clean(r2)
    BY <1>2, <1>5, ViewFields DEF SwappedAllIn, Swapped
  <2>. QED  BY <1>2, <1>4, <2>1
<1>7. ASSUME r2.shm[a] # None
      PROVE  /\ \A h \in Handles \ {a} : Home[h] = p => r2.impl[h] # r2.shm[a]
             /\ \A u \in Uniques : Home[u] = p /\ r2.target[u] # None =>
                                   HeapOf[r2.target[u]] # r2.shm[a]
  <2>1. s.shm[x] \in Memories
    BY <1>2, <1>6, <1>7, ViewFields
  <2>2. \A h \in Handles \ {x} : Home[h] = p => s.impl[h] # s.shm[x]
    BY <1>6, <1>7
  <2>3. None # s.shm[x]
    BY <1>6, <1>7
  <2>4. \A h \in Handles \ {a} : Home[h] = p => r2.impl[h] # s.shm[x]
    BY <1>2, <1>6, <2>2, <2>3
  <2>5. \A u \in Uniques : Home[u] = p /\ s.target[u] # None => HeapOf[s.target[u]] # s.shm[x]
    BY <2>1, <2>2, NoTargetThere
  <2>. QED  BY <1>6, <2>4, <2>5
<1>8. PICK t \in Views : Does(p, V, Release(a), r2, t) /\ Emptied(r2, t, a)
  BY <1>1, <1>2, <1>6, <1>7, ReleaseMallocDoes
<1>9. t.impl[a] = None /\ t.shm[a] = None
  BY <1>2, <1>8, ViewFields DEF Emptied
<1>10. Idle(t, a)
  BY <1>1, <1>9, KindsAssumption DEF Idle
<1>11. \A v \in Handles : v \in {a, x, y} \/ SameAt(s, t, v)
  <2>. SUFFICES ASSUME NEW v \in Handles, v \notin {a, x, y} PROVE SameAt(s, t, v)
    OBVIOUS
  <2>1. t.impl[v] = r2.impl[v] /\ t.target = r2.target /\ (v \in Held => t.shm[v] = r2.shm[v])
    BY <1>8, ViewFields DEF Emptied
  <2>. QED  BY <1>6, <2>1 DEF SameAt
<1>12. Rest(t)
  <2>1. t.taint = s.taint /\ t.fresh = {} /\ t.tag \in {"clean", "over"}
    BY <1>6, <1>8 DEF Emptied
  <2>. QED  BY <1>10, <1>11, <2>1, PlainIdle, RestIf DEF Begins
<1>13. Does(p, V, MallocMoved(p, x, y), s, t)
  <2>1. PICK u \in Steps : u = Step("takeall", a, y)
    BY <1>2, StepFields, HandlesAreThings DEF StepNames
  <2>2. PICK w \in Steps : w = Step("swapall", a, x)
    BY <1>2, StepFields, HandlesAreThings DEF StepNames
  <2>3. Does(p, V, <<u, w>>, s, r2)
    BY <1>3, <1>5, <2>1, <2>2, DoesTwo
  <2>4. Does(p, V, <<u, w>> \o Release(a), s, t)
    BY <1>8, <2>3, DoesThen
  <2>. QED  BY <1>1, <2>1, <2>2, <2>4 DEF MallocMoved
<1>. QED  BY <1>12, <1>13 DEF Completes

-----------------------------------------------------------------------------
(* The calls on offset_unique_ptr.                                         *)

LEMMA UniqueRight ==
    ASSUME NEW p \in Procs, NEW s \in Views, Begins(p, s), NEW u \in Uniques
    PROVE  /\ u \in Handles /\ Right(s, u)
           /\ s.impl[u] = None => Vacant(s, u)
           /\ s.impl[u] # None /\ s.target[u] # None => HeapOf[s.target[u]] = s.impl[u]
<1>1. u \in Handles
  BY DEF Handles
<1>2. Right(s, u)
  BY <1>1 DEF Begins, Idle
<1>3. s.target[u] # None => HeapOf[s.target[u]] # None
  BY ViewFields, HomesAssumption
<1>4. HandlePlaced(p, s, u)
  BY <1>1 DEF Begins, Placed
<1>5. ASSUME Wreck(s, u), s.impl[u] # None
      PROVE  HeapOf[s.target[u]] = s.impl[u]
  <2>1. Home[u] \in Memories /\ HeapOf[s.target[u]] = Home[u]
    BY <1>5, ViewFields DEF Wreck
  <2>. QED  BY <1>4, <1>5, <2>1 DEF HandlePlaced, Fits
<1>. QED  BY <1>1, <1>2, <1>3, <1>5 DEF Right, Vacant

LEMMA TargetOnly ==
    ASSUME NEW s \in Views, NEW t, NEW u \in Uniques, NEW o, TargetIn(s, t, u, o)
    PROVE  /\ t.impl = s.impl /\ t.shm = s.shm /\ t.taint = s.taint /\ t.fresh = s.fresh /\ Clean(t)
           /\ t.target[u] = o /\ \A v \in Uniques \ {u} : t.target[v] = s.target[v]
BY ViewFields DEF TargetIn

LEMMA ClearedOnly ==
    ASSUME NEW s \in Views, NEW t, NEW u \in Uniques, TargetIn(s, t, u, None)
    PROVE  /\ t.impl = s.impl /\ t.shm = s.shm /\ t.taint = s.taint /\ t.fresh = s.fresh /\ Clean(t)
           /\ t.target[u] = None /\ \A v \in Uniques \ {u} : t.target[v] = s.target[v]
BY ViewFields DEF TargetIn

LEMMA MakeCompletes ==
    ASSUME NEW p \in Procs, NEW V, NEW u \in V, NEW g \in V, NEW o \in Objects, NEW s \in Views,
           Begins(p, s), u \in Uniques, g \in Users \cup Mallocs,
           Within(p, s, u), Within(p, s, g), Temp(p) \in V, Deleter(p) \in V,
           s.impl[u] = None, s.impl[g] = HeapOf[o], Fits(u, HeapOf[o])
    PROVE  Completes(p, V, Made(p, u, g, o), s)
<1>1. PICK a \in V : a = Temp(p) /\ a \in Handles /\ a \in Temps /\ Home[a] = p
  BY LocalKinds
<1>2. PICK d \in V : d = Deleter(p) /\ d \in Handles /\ d \in Deleters /\ Home[d] = p
  BY LocalKinds
<1>3. PICK m \in Memories : m = HeapOf[o]
  BY HomesAssumption
<1>4. /\ {a, d, u, g} \subseteq Handles /\ a # d /\ a # u /\ a # g /\ d # u /\ d # g /\ u # g
      /\ a \notin Uniques /\ d \notin Uniques
  BY <1>1, <1>2, KindsAssumption DEF Within
<1>5. m \in MapsIn(p, s)
  <2>1. HandlePlaced(p, s, g)
    BY DEF Within, Begins, Placed
  <2>. QED  BY <1>3, <2>1, WithinPlaced, HomesAssumption
<1>6. s.impl[a] = None /\ s.shm[a] = None /\ s.impl[d] = None /\ Vacant(s, u)
  BY <1>1, <1>2, UniqueRight DEF Begins, Idle
<1>7. Within(p, s, a) /\ Within(p, s, d)
  BY <1>1, <1>2 DEF Within
<1>8. PICK r1 \in Views : Does(p, V, <<Bind(a, g)>>, s, r1) /\ SetIn(s, r1, a, s.impl[g])
  BY <1>1, <1>4, <1>6, <1>7, OwnFits, BindDoes DEF Begins, Free
<1>9. OnlyIn(s, r1, {a}) /\ r1.impl[a] = m
  <2>1. SetIn(s, r1, a, m)
    BY <1>3, <1>8
  <2>. QED  BY <1>4, <2>1, SetOnly
<1>10. \A v \in Handles \ {a} : Idle(r1, v)
  BY <1>9, OnlySame, SameIdle DEF Begins, OnlyIn
<1>11. Does(p, V, <<Step("new", a, o)>>, r1, r1)
  <2>1. /\ Clean(r1) /\ r1.fresh = {} /\ r1.shm[a] = None /\ r1.impl[a] = HeapOf[o]
        /\ HeapOf[o] \in MapsIn(p, r1)
    BY <1>3, <1>5, <1>6, <1>9, SameMaps DEF OnlyIn, Begins
  <2>. QED  BY <1>1, <1>10, <2>1, NewDoes
<1>12. Within(p, r1, d) /\ Within(p, r1, a) /\ Free(r1, d) /\ Fits(d, r1.impl[a])
  BY <1>2, <1>4, <1>6, <1>7, <1>9, WithinSame, OwnFits DEF OnlyIn, Free
<1>13. PICK r2 \in Views : Does(p, V, <<Bind(d, a)>>, r1, r2) /\ SetIn(r1, r2, d, r1.impl[a])
  BY <1>4, <1>12, BindDoes
<1>14. OnlyIn(r1, r2, {d}) /\ r2.impl[d] = m
  <2>1. SetIn(r1, r2, d, m)
    BY <1>9, <1>13
  <2>. QED  BY <1>4, <2>1, SetOnly
<1>15. /\ r2.shm = s.shm /\ r2.target = s.target /\ r2.taint = s.taint /\ r2.fresh = {} /\ Clean(r2)
       /\ r2.impl[u] = None
  BY <1>4, <1>9, <1>14 DEF OnlyIn, Begins
<1>16. PICK r3 \in Views : Does(p, V, <<Step("own", u, o)>>, r2, r3) /\ TargetIn(r2, r3, u, o)
  <2>1. Within(p, r2, u) /\ Vacant(r2, u) /\ HeapOf[o] \in MapsIn(p, r2)
    BY <1>3, <1>5, <1>6, <1>15, WithinSame, SameMaps DEF Vacant, Wreck
  <2>. QED  BY <1>15, <2>1, OwnDoes
<1>17. /\ r3.impl = r2.impl /\ r3.shm = s.shm /\ r3.taint = s.taint /\ r3.fresh = {} /\ Clean(r3)
       /\ r3.target[u] = o /\ \A v \in Uniques \ {u} : r3.target[v] = s.target[v]
  BY <1>15, <1>16, TargetOnly
<1>18. Within(p, r3, u) /\ Within(p, r3, d) /\ Free(r3, u) /\ Fits(u, r3.impl[d])
  BY <1>3, <1>7, <1>14, <1>15, <1>17, WithinSame DEF Free
<1>19. PICK r4 \in Views : Does(p, V, <<Bind(u, d)>>, r3, r4) /\ SetIn(r3, r4, u, r3.impl[d])
  BY <1>4, <1>18, BindDoes
<1>20. OnlyIn(r3, r4, {u}) /\ r4.impl[u] = m
  <2>1. SetIn(r3, r4, u, m)
    BY <1>14, <1>17, <1>19
  <2>. QED  BY <1>4, <2>1, SetOnly
<1>21. Within(p, r4, d) /\ Clean(r4)
  BY <1>2, <1>20 DEF Within, OnlyIn
<1>22. PICK r5 \in Views : Does(p, V, Destruct(d), r4, r5) /\ SetIn(r4, r5, d, None)
  BY <1>21, DestructDoes
<1>23. OnlyIn(r4, r5, {d}) /\ r5.impl[d] = None
  BY <1>4, <1>22, DroppedOnly
<1>24. Within(p, r5, a) /\ Clean(r5)
  BY <1>1, <1>23 DEF Within, OnlyIn
<1>25. PICK t \in Views : Does(p, V, Destruct(a), r5, t) /\ SetIn(r5, t, a, None)
  BY <1>24, DestructDoes
<1>26. OnlyIn(r5, t, {a}) /\ t.impl[a] = None
  BY <1>4, <1>25, DroppedOnly
<1>27. /\ t.shm = s.shm /\ t.taint = s.taint /\ t.fresh = {} /\ Clean(t) /\ t.target = r3.target
  BY <1>17, <1>20, <1>23, <1>26 DEF OnlyIn
<1>28. /\ t.impl[a] = None /\ t.impl[d] = None /\ t.impl[u] = m
       /\ \A h \in Handles \ {a, d, u} : t.impl[h] = s.impl[h]
  <2>1. t.impl[d] = None /\ t.impl[u] = m
    BY <1>4, <1>20, <1>23, <1>26 DEF OnlyIn
  <2>2. \A h \in Handles \ {a, d, u} : t.impl[h] = r3.impl[h]
    BY <1>20, <1>23, <1>26 DEF OnlyIn
  <2>3. \A h \in Handles \ {a, d, u} : r3.impl[h] = s.impl[h]
    BY <1>9, <1>14, <1>17 DEF OnlyIn
  <2>. QED  BY <1>26, <2>1, <2>2, <2>3
<1>29. Idle(t, a) /\ Idle(t, d)
  BY <1>1, <1>2, <1>4, <1>6, <1>27, <1>28, KindsAssumption DEF Idle
<1>30. Idle(t, u)
  BY <1>3, <1>17, <1>27, <1>28, KindsAssumption DEF Idle, Right
<1>31. \A v \in Handles : SameAt(s, t, v) \/ Idle(t, v)
  BY <1>17, <1>27, <1>28, <1>29, <1>30 DEF SameAt
<1>32. Rest(t)
  BY <1>27, <1>31, RestIf DEF Begins, Clean
<1>33. Does(p, V, Made(p, u, g, o), s, t)
  <2>1. PICK x1 \in Steps : x1 = Bind(a, g)
    BY <1>4, StepFields, HandlesAreThings DEF StepNames, Bind
  <2>2. PICK x2 \in Steps : x2 = Step("new", a, o)
    BY <1>4, StepFields, HandlesAreThings DEF StepNames, Things
  <2>3. PICK x3 \in Steps : x3 = Bind(d, a)
    BY <1>4, StepFields, HandlesAreThings DEF StepNames, Bind
  <2>4. PICK x4 \in Steps : x4 = Step("own", u, o)
    BY <1>4, StepFields, HandlesAreThings DEF StepNames, Things
  <2>5. PICK x5 \in Steps : x5 = Bind(u, d)
    BY <1>4, StepFields, HandlesAreThings DEF StepNames, Bind
  <2>6. Does(p, V, <<x1, x2>>, s, r1)
    BY <1>8, <1>11, <2>1, <2>2, DoesTwo
  <2>7. Does(p, V, <<x1, x2, x3>>, s, r2)
    BY <1>13, <2>1, <2>2, <2>3, <2>6, DoesThree
  <2>8. Does(p, V, <<x4, x5>>, r2, r4)
    BY <1>16, <1>19, <2>4, <2>5, DoesTwo
  <2>9. Does(p, V, <<x1, x2, x3, x4, x5>>, s, r4)
    BY <2>7, <2>8, DoesFive
  <2>10. PICK w1 : w1 = Destruct(d)
    OBVIOUS
  <2>11. PICK w2 : w2 = Destruct(a)
    OBVIOUS
  <2>12. PICK w : w = <<x1, x2, x3, x4, x5>>
    OBVIOUS
  <2>13. Does(p, V, w \o w1, s, r5)
    BY <1>22, <2>9, <2>10, <2>12, DoesThen
  <2>14. Does(p, V, (w \o w1) \o w2, s, t)
    BY <1>25, <2>11, <2>13, DoesThen
  <2>15. Made(p, u, g, o) = (w \o w1) \o w2
    BY <1>1, <1>2, <2>1, <2>2, <2>3, <2>4, <2>5, <2>10, <2>11, <2>12 DEF Made
  <2>. QED  BY <2>14, <2>15
<1>. QED  BY <1>32, <1>33 DEF Completes

LEMMA UniqueIdle ==
    ASSUME NEW t, NEW u \in Uniques,
           t.target[u] = None \/ HeapOf[t.target[u]] = t.impl[u] \/ Wreck(t, u)
    PROVE  Idle(t, u)
BY KindsAssumption DEF Idle, Right

TargetMoved(s, t, d, r) ==
    /\ t.impl = s.impl /\ t.shm = s.shm /\ t.taint = s.taint /\ t.fresh = s.fresh /\ Clean(t)
    /\ t.target[d] = s.target[r] /\ t.target[r] = None
    /\ \A v \in Uniques \ {d, r} : t.target[v] = s.target[v]
TargetsSwapped(s, t, d, r) ==
    /\ t.impl = s.impl /\ t.shm = s.shm /\ t.taint = s.taint /\ t.fresh = s.fresh /\ Clean(t)
    /\ t.target[d] = s.target[r] /\ t.target[r] = s.target[d]
    /\ \A v \in Uniques \ {d, r} : t.target[v] = s.target[v]

LEMMA TakenOnly ==
    ASSUME NEW s \in Views, NEW t, NEW d \in Uniques, NEW r \in Uniques, d # r,
           TargetsIn(s, t, Taken(s.target, d, r))
    PROVE  TargetMoved(s, t, d, r)
BY ViewFields DEF TargetsIn, Taken, TargetMoved

LEMMA SwappedOnly ==
    ASSUME NEW s \in Views, NEW t, NEW d \in Uniques, NEW r \in Uniques, d # r,
           TargetsIn(s, t, Swapped(s.target, d, r))
    PROVE  TargetsSwapped(s, t, d, r)
BY ViewFields DEF TargetsIn, Swapped, TargetsSwapped

LEMMA MoveConstructCompletes ==
    ASSUME NEW p \in Procs, NEW V, NEW d \in V, NEW r \in V, d # r, NEW s \in Views,
           Begins(p, s), d \in Uniques, r \in Uniques, Within(p, s, d), Within(p, s, r),
           s.impl[d] = None, s.impl[r] # None, Fits(d, s.impl[r])
    PROVE  Completes(p, V, UniqueMoveConstruct(d, r), s)
<1>1. d \in Handles /\ r \in Handles /\ Vacant(s, d)
  BY UniqueRight
<1>2. s.target[r] # None => HeapOf[s.target[r]] = s.impl[r]
  BY UniqueRight
<1>3. PICK a \in Views : /\ Does(p, V, <<Step("movetarget", d, r)>>, s, a)
                         /\ TargetsIn(s, a, Taken(s.target, d, r))
  <2>1. Clean(s) /\ (s.target[r] # None => Fits(d, HeapOf[s.target[r]]))
    BY <1>2 DEF Begins
  <2>. QED  BY <1>1, <2>1, MoveTargetDoes
<1>4. /\ a.impl = s.impl /\ a.shm = s.shm /\ a.taint = s.taint /\ a.fresh = s.fresh /\ Clean(a)
      /\ a.target[d] = s.target[r] /\ a.target[r] = None
      /\ \A v \in Uniques \ {d, r} : a.target[v] = s.target[v]
  <2>1. TargetMoved(s, a, d, r)
    BY <1>3, TakenOnly
  <2>. QED  BY <2>1 DEF TargetMoved
<1>5. Within(p, a, d) /\ Within(p, a, r) /\ Free(a, d) /\ Fits(d, a.impl[r])
  BY <1>4, WithinSame DEF Free
<1>6. PICK t \in Views : Does(p, V, <<Bind(d, r)>>, a, t) /\ SetIn(a, t, d, a.impl[r])
  BY <1>5, BindDoes
<1>7. OnlyIn(a, t, {d}) /\ t.impl[d] = a.impl[r]
  BY <1>1, <1>6, ViewFields DEF SetIn, OnlyIn
<1>8. Idle(t, d) /\ Idle(t, r)
  BY <1>2, <1>4, <1>7, UniqueIdle DEF OnlyIn
<1>9. \A v \in Handles : SameAt(s, t, v) \/ Idle(t, v)
  BY <1>4, <1>7, <1>8 DEF SameAt, OnlyIn
<1>10. Rest(t)
  BY <1>4, <1>7, <1>9, RestIf DEF Begins, OnlyIn, Clean
<1>11. PICK x \in Steps : x = Step("movetarget", d, r)
  BY <1>1, StepFields, HandlesAreThings DEF StepNames
<1>12. PICK y \in Steps : y = Bind(d, r)
  BY <1>1, StepFields, HandlesAreThings DEF StepNames, Bind
<1>13. Does(p, V, <<x, y>>, s, t)
  BY <1>3, <1>6, <1>11, <1>12, DoesTwo
<1>. QED  BY <1>10, <1>11, <1>12, <1>13 DEF Completes, UniqueMoveConstruct

LEMMA MoveUniqueCompletes ==
    ASSUME NEW p \in Procs, NEW V, NEW d \in V, NEW r \in V, d # r, NEW s \in Views,
           Begins(p, s), d \in Uniques, r \in Uniques, Within(p, s, d), Within(p, s, r),
           target[d] = s.target[d], impl[d] = s.impl[d], impl[r] = s.impl[r],
           s.impl[r] # None, Fits(d, s.impl[r])
    PROVE  Completes(p, V, UniqueMoveAssign(d, r), s)
<1>1. d \in Handles /\ r \in Handles /\ Right(s, d)
  BY UniqueRight
<1>2. s.target[r] # None => HeapOf[s.target[r]] = s.impl[r]
  BY UniqueRight
<1>3. PICK a \in Views : Does(p, V, Reset(d), s, a) /\ TargetIn(s, a, d, None)
  BY <1>1, ResetDoes DEF Begins
<1>4. /\ a.impl = s.impl /\ a.shm = s.shm /\ a.taint = s.taint /\ a.fresh = s.fresh /\ Clean(a)
      /\ a.target[d] = None /\ \A v \in Uniques \ {d} : a.target[v] = s.target[v]
  BY <1>3, ClearedOnly
<1>5. PICK b \in Views : /\ Does(p, V, <<Step("movetarget", d, r)>>, a, b)
                         /\ TargetsIn(a, b, Taken(a.target, d, r))
  <2>1. a.target[r] # None => Fits(d, HeapOf[a.target[r]])
    BY <1>2, <1>4
  <2>2. Within(p, a, d) /\ Within(p, a, r) /\ Vacant(a, d)
    BY <1>4, WithinSame DEF Vacant
  <2>. QED  BY <1>4, <2>1, <2>2, MoveTargetDoes
<1>6. /\ b.impl = s.impl /\ b.shm = s.shm /\ b.taint = s.taint /\ b.fresh = s.fresh /\ Clean(b)
      /\ b.target[d] = s.target[r] /\ b.target[r] = None
      /\ \A v \in Uniques \ {d, r} : b.target[v] = s.target[v]
  <2>1. TargetMoved(a, b, d, r)
    BY <1>5, TakenOnly
  <2>. QED  BY <1>4, <2>1 DEF TargetMoved
<1>7. PICK old : old = impl[d]
  OBVIOUS
<1>8. PICK new : new = impl[r]
  OBVIOUS
<1>9. PICK t \in Views : /\ Does(p, V, CopyAssign(d, r, old, new), b, t)
                         /\ SetIn(b, t, d, b.impl[r])
  <2>1. Within(p, b, d) /\ Within(p, b, r) /\ Fits(d, b.impl[r])
    BY <1>6, WithinSame
  <2>2. old = new => b.impl[d] = b.impl[r]
    BY <1>6, <1>7, <1>8
  <2>. QED  BY <1>6, <2>1, <2>2, CopyAssignDoes
<1>10. OnlyIn(b, t, {d}) /\ t.impl[d] = b.impl[r]
  BY <1>1, <1>9, ViewFields DEF SetIn, OnlyIn
<1>11. Idle(t, d) /\ Idle(t, r)
  BY <1>2, <1>6, <1>10, UniqueIdle DEF OnlyIn
<1>12. \A v \in Handles : SameAt(s, t, v) \/ Idle(t, v)
  BY <1>6, <1>10, <1>11 DEF SameAt, OnlyIn
<1>13. Rest(t)
  BY <1>6, <1>10, <1>12, RestIf DEF Begins, OnlyIn, Clean
<1>14. Does(p, V, UniqueMoveAssign(d, r), s, t)
  <2>1. PICK w1 : w1 = Reset(d)
    OBVIOUS
  <2>2. PICK w2 : w2 = <<Step("movetarget", d, r)>>
    OBVIOUS
  <2>3. PICK w3 : w3 = CopyAssign(d, r, old, new)
    OBVIOUS
  <2>4. Does(p, V, w1 \o w2, s, b)
    BY <1>3, <1>5, <2>1, <2>2, DoesThen
  <2>5. Does(p, V, (w1 \o w2) \o w3, s, t)
    BY <1>9, <2>3, <2>4, DoesThen
  <2>. QED  BY <1>7, <1>8, <2>1, <2>2, <2>3, <2>5 DEF UniqueMoveAssign
<1>. QED  BY <1>13, <1>14 DEF Completes

LEMMA ResetCompletes ==
    ASSUME NEW p \in Procs, NEW V, NEW u \in V, NEW s \in Views, Begins(p, s),
           u \in Uniques, Within(p, s, u), target[u] = s.target[u]
    PROVE  Completes(p, V, Reset(u), s)
<1>1. u \in Handles /\ Right(s, u)
  BY UniqueRight
<1>2. PICK t \in Views : Does(p, V, Reset(u), s, t) /\ TargetIn(s, t, u, None)
  BY <1>1, ResetDoes DEF Begins
<1>3. /\ t.impl = s.impl /\ t.shm = s.shm /\ t.taint = s.taint /\ t.fresh = s.fresh /\ Clean(t)
      /\ t.target[u] = None /\ \A v \in Uniques \ {u} : t.target[v] = s.target[v]
  BY <1>2, ClearedOnly
<1>4. \A v \in Handles : SameAt(s, t, v) \/ Idle(t, v)
  BY <1>3, UniqueIdle DEF SameAt
<1>5. Rest(t)
  BY <1>3, <1>4, RestIf DEF Begins, Clean
<1>. QED  BY <1>2, <1>5 DEF Completes

LEMMA ReleaseCompletes ==
    ASSUME NEW p \in Procs, NEW V, NEW u \in V, NEW s \in Views, Begins(p, s),
           u \in Uniques, Within(p, s, u), s.target[u] # None
    PROVE  Completes(p, V, <<Step("release", u, u)>>, s)
<1>2. PICK t \in Views : Does(p, V, <<Step("release", u, u)>>, s, t) /\ TargetIn(s, t, u, None)
  BY ReleaseDoes DEF Begins
<1>3. /\ t.impl = s.impl /\ t.shm = s.shm /\ t.taint = s.taint /\ t.fresh = s.fresh /\ Clean(t)
      /\ t.target[u] = None /\ \A v \in Uniques \ {u} : t.target[v] = s.target[v]
  BY <1>2, ClearedOnly
<1>4. \A v \in Handles : SameAt(s, t, v) \/ Idle(t, v)
  BY <1>3, UniqueIdle DEF SameAt
<1>5. Rest(t)
  BY <1>3, <1>4, RestIf DEF Begins, Clean
<1>. QED  BY <1>2, <1>5 DEF Completes

LEMMA ResetToCompletes ==
    ASSUME NEW p \in Procs, NEW V, NEW u \in V, NEW o \in Objects, NEW s \in Views, Begins(p, s),
           u \in Uniques, Within(p, s, u), target[u] = s.target[u], s.impl[u] = HeapOf[o]
    PROVE  Completes(p, V, Reset(u) \o <<Step("own", u, o)>>, s)
<1>1. u \in Handles /\ Right(s, u)
  BY UniqueRight
<1>2. PICK a \in Views : Does(p, V, Reset(u), s, a) /\ TargetIn(s, a, u, None)
  BY <1>1, ResetDoes DEF Begins
<1>3. /\ a.impl = s.impl /\ a.shm = s.shm /\ a.taint = s.taint /\ a.fresh = s.fresh /\ Clean(a)
      /\ a.target[u] = None /\ \A v \in Uniques \ {u} : a.target[v] = s.target[v]
  BY <1>2, ClearedOnly
<1>4. HeapOf[o] \in MapsIn(p, s) /\ Fits(u, HeapOf[o])
  <2>1. HandlePlaced(p, s, u)
    BY <1>1 DEF Begins, Placed
  <2>2. HeapOf[o] # None
    BY HomesAssumption
  <2>. QED  BY <2>1, <2>2, WithinPlaced
<1>5. PICK t \in Views : Does(p, V, <<Step("own", u, o)>>, a, t) /\ TargetIn(a, t, u, o)
  <2>1. Within(p, a, u) /\ Vacant(a, u) /\ HeapOf[o] \in MapsIn(p, a)
    BY <1>3, <1>4, WithinSame, SameMaps DEF Vacant
  <2>. QED  BY <1>3, <1>4, <2>1, OwnDoes
<1>6. /\ t.impl = a.impl /\ t.shm = a.shm /\ t.taint = a.taint /\ t.fresh = a.fresh /\ Clean(t)
      /\ t.target[u] = o /\ \A v \in Uniques \ {u} : t.target[v] = a.target[v]
  BY <1>5, TargetOnly
<1>7. Idle(t, u)
  BY <1>3, <1>6, UniqueIdle
<1>8. \A v \in Handles : SameAt(s, t, v) \/ Idle(t, v)
  BY <1>3, <1>6, <1>7 DEF SameAt
<1>9. Rest(t)
  BY <1>3, <1>6, <1>8, RestIf DEF Begins, Clean
<1>10. PICK w1 : w1 = Reset(u)
  OBVIOUS
<1>11. PICK w2 : w2 = <<Step("own", u, o)>>
  OBVIOUS
<1>12. Does(p, V, w1 \o w2, s, t)
  BY <1>2, <1>5, <1>10, <1>11, DoesThen
<1>. QED  BY <1>9, <1>10, <1>11, <1>12 DEF Completes

LEMMA DestroyUniqueCompletes ==
    ASSUME NEW p \in Procs, NEW V, NEW u \in V, NEW s \in Views, Begins(p, s),
           u \in Uniques, Within(p, s, u), target[u] = s.target[u]
    PROVE  Completes(p, V, Reset(u) \o Destruct(u), s)
<1>1. u \in Handles /\ Right(s, u)
  BY UniqueRight
<1>2. PICK a \in Views : Does(p, V, Reset(u), s, a) /\ TargetIn(s, a, u, None)
  BY <1>1, ResetDoes DEF Begins
<1>3. /\ a.impl = s.impl /\ a.shm = s.shm /\ a.taint = s.taint /\ a.fresh = s.fresh /\ Clean(a)
      /\ a.target[u] = None /\ \A v \in Uniques \ {u} : a.target[v] = s.target[v]
  BY <1>2, ClearedOnly
<1>4. Within(p, a, u)
  BY <1>3, WithinSame
<1>5. PICK t \in Views : Does(p, V, Destruct(u), a, t) /\ SetIn(a, t, u, None)
  BY <1>3, <1>4, DestructDoes
<1>6. OnlyIn(a, t, {u})
  BY <1>1, <1>5, DroppedOnly
<1>7. Idle(t, u)
  BY <1>3, <1>6, UniqueIdle DEF OnlyIn
<1>8. \A v \in Handles : SameAt(s, t, v) \/ Idle(t, v)
  BY <1>3, <1>6, <1>7 DEF SameAt, OnlyIn
<1>9. Rest(t)
  BY <1>3, <1>6, <1>8, RestIf DEF Begins, Clean, OnlyIn
<1>10. PICK w1 : w1 = Reset(u)
  OBVIOUS
<1>11. PICK w2 : w2 = Destruct(u)
  OBVIOUS
<1>12. Does(p, V, w1 \o w2, s, t)
  BY <1>2, <1>5, <1>10, <1>11, DoesThen
<1>. QED  BY <1>9, <1>10, <1>11, <1>12 DEF Completes

LEMMA SwapUniquesCompletes ==
    ASSUME NEW p \in Procs, NEW V, NEW d \in V, NEW r \in V, d # r, NEW s \in Views,
           Begins(p, s), d \in Uniques, r \in Uniques, Within(p, s, d), Within(p, s, r),
           Temp(p) \in V, impl[d] = s.impl[d], impl[r] = s.impl[r],
           s.impl[d] # None, s.impl[r] # None, Fits(d, s.impl[r]), Fits(r, s.impl[d])
    PROVE  Completes(p, V, UniqueSwap(p, d, r), s)
<1>1. PICK a \in V : a = Temp(p) /\ a \in Handles /\ a \in Temps /\ Home[a] = p
  BY LocalKinds
<1>2. /\ d \in Handles /\ r \in Handles
      /\ s.target[r] # None => HeapOf[s.target[r]] = s.impl[r]
      /\ s.target[d] # None => HeapOf[s.target[d]] = s.impl[d]
  BY UniqueRight
<1>3. a # d /\ a # r /\ a \notin Uniques /\ s.impl[a] = None /\ s.shm[a] = None
  BY <1>1, KindsAssumption DEF Begins, Idle
<1>4. PICK r1 \in Views : /\ Does(p, V, <<Step("swaptarget", d, r)>>, s, r1)
                          /\ TargetsIn(s, r1, Swapped(s.target, d, r))
  <2>1. /\ s.target[r] # None => Fits(d, HeapOf[s.target[r]])
        /\ s.target[d] # None => Fits(r, HeapOf[s.target[d]])
    BY <1>2
  <2>. QED  BY <2>1, SwapTargetDoes DEF Begins
<1>5. /\ r1.impl = s.impl /\ r1.shm = s.shm /\ r1.taint = s.taint /\ r1.fresh = s.fresh /\ Clean(r1)
      /\ r1.target[d] = s.target[r] /\ r1.target[r] = s.target[d]
      /\ \A v \in Uniques \ {d, r} : r1.target[v] = s.target[v]
  <2>1. TargetsSwapped(s, r1, d, r)
    BY <1>4, SwappedOnly
  <2>. QED  BY <2>1 DEF TargetsSwapped
<1>6. Within(p, r1, a) /\ Within(p, r1, d) /\ Free(r1, a) /\ Fits(a, r1.impl[d])
  BY <1>1, <1>3, <1>5, WithinSame, OwnFits DEF Free, Within
<1>7. PICK r2 \in Views : Does(p, V, <<Bind(a, d)>>, r1, r2) /\ SetIn(r1, r2, a, r1.impl[d])
  BY <1>3, <1>6, BindDoes
<1>8. OnlyIn(r1, r2, {a}) /\ r2.impl[a] = r1.impl[d]
  BY <1>1, <1>7, ViewFields DEF SetIn, OnlyIn
<1>9. r2.impl[a] = s.impl[d] /\ r2.impl[d] = s.impl[d] /\ r2.impl[r] = s.impl[r]
  BY <1>2, <1>3, <1>5, <1>8 DEF OnlyIn
<1>10. PICK old : old = impl[d]
  OBVIOUS
<1>11. PICK new : new = impl[r]
  OBVIOUS
<1>12. PICK r3 \in Views : /\ Does(p, V, CopyAssign(d, r, old, new), r2, r3)
                           /\ SetIn(r2, r3, d, r2.impl[r])
  <2>1. Within(p, r2, d) /\ Within(p, r2, r) /\ Fits(d, r2.impl[r]) /\ Clean(r2)
    BY <1>5, <1>8, <1>9, WithinSame DEF OnlyIn
  <2>2. old = new => r2.impl[d] = r2.impl[r]
    BY <1>9, <1>10, <1>11
  <2>. QED  BY <2>1, <2>2, CopyAssignDoes
<1>13. OnlyIn(r2, r3, {d}) /\ r3.impl[d] = r2.impl[r]
  BY <1>2, <1>12, ViewFields DEF SetIn, OnlyIn
<1>14. r3.impl[a] = s.impl[d] /\ r3.impl[d] = s.impl[r] /\ r3.impl[r] = s.impl[r]
  BY <1>1, <1>2, <1>3, <1>9, <1>13 DEF OnlyIn
<1>15. PICK r4 \in Views : /\ Does(p, V, CopyAssign(r, a, new, old), r3, r4)
                           /\ SetIn(r3, r4, r, r3.impl[a])
  <2>1. Within(p, r3, r) /\ Within(p, r3, a) /\ Fits(r, r3.impl[a]) /\ Clean(r3)
    BY <1>1, <1>5, <1>8, <1>13, <1>14, WithinSame DEF OnlyIn, Within
  <2>2. new = old => r3.impl[r] = r3.impl[a]
    BY <1>10, <1>11, <1>14
  <2>. QED  BY <1>3, <2>1, <2>2, CopyAssignDoes
<1>16. OnlyIn(r3, r4, {r}) /\ r4.impl[r] = r3.impl[a]
  BY <1>2, <1>15, ViewFields DEF SetIn, OnlyIn
<1>17. Within(p, r4, a) /\ Clean(r4)
  BY <1>1, <1>16 DEF Within, OnlyIn
<1>18. PICK t \in Views : Does(p, V, Destruct(a), r4, t) /\ SetIn(r4, t, a, None)
  BY <1>17, DestructDoes
<1>19. OnlyIn(r4, t, {a}) /\ t.impl[a] = None
  BY <1>1, <1>18, DroppedOnly
<1>20. /\ t.shm = s.shm /\ t.target = r1.target /\ t.taint = s.taint /\ t.fresh = s.fresh /\ Clean(t)
  BY <1>5, <1>8, <1>13, <1>16, <1>19 DEF OnlyIn
<1>21. t.impl[d] = s.impl[r] /\ t.impl[r] = s.impl[d]
  BY <1>2, <1>3, <1>14, <1>16, <1>19 DEF OnlyIn
<1>22. \A v \in Handles \ {a, d, r} : t.impl[v] = s.impl[v]
  <2>1. \A v \in Handles \ {a, d, r} : t.impl[v] = r2.impl[v]
    BY <1>13, <1>16, <1>19 DEF OnlyIn
  <2>. QED  BY <1>5, <1>8, <2>1 DEF OnlyIn
<1>23. Idle(t, d) /\ Idle(t, r)
  BY <1>2, <1>5, <1>20, <1>21, UniqueIdle
<1>24. Idle(t, a)
  BY <1>1, <1>3, <1>19, <1>20, KindsAssumption DEF Idle
<1>25. \A v \in Handles : SameAt(s, t, v) \/ Idle(t, v)
  BY <1>5, <1>20, <1>22, <1>23, <1>24 DEF SameAt
<1>26. Rest(t)
  BY <1>20, <1>25, RestIf DEF Begins, Clean
<1>27. Does(p, V, UniqueSwap(p, d, r), s, t)
  <2>1. PICK x \in Steps : x = Step("swaptarget", d, r)
    BY <1>2, StepFields, HandlesAreThings DEF StepNames
  <2>2. PICK y \in Steps : y = Bind(a, d)
    BY <1>1, <1>2, StepFields, HandlesAreThings DEF StepNames, Bind
  <2>3. Does(p, V, <<x, y>>, s, r2)
    BY <1>4, <1>7, <2>1, <2>2, DoesTwo
  <2>4. PICK w1 : w1 = <<x, y>>
    OBVIOUS
  <2>5. PICK w2 : w2 = CopyAssign(d, r, old, new)
    OBVIOUS
  <2>6. PICK w3 : w3 = CopyAssign(r, a, new, old)
    OBVIOUS
  <2>7. PICK w4 : w4 = Destruct(a)
    OBVIOUS
  <2>8. Does(p, V, w1 \o w2, s, r3)
    BY <1>12, <2>3, <2>4, <2>5, DoesThen
  <2>9. Does(p, V, (w1 \o w2) \o w3, s, r4)
    BY <1>15, <2>6, <2>8, DoesThen
  <2>10. Does(p, V, ((w1 \o w2) \o w3) \o w4, s, t)
    BY <1>18, <2>7, <2>9, DoesThen
  <2>11. UniqueSwap(p, d, r) = ((w1 \o w2) \o w3) \o w4
    BY <1>1, <1>10, <1>11, <2>1, <2>2, <2>4, <2>5, <2>6, <2>7 DEF UniqueSwap
  <2>. QED  BY <2>10, <2>11
<1>. QED  BY <1>26, <1>27 DEF Completes

-----------------------------------------------------------------------------
(* The invariant.  Every process is on a run that comes to rest; the view  *)
(* that it runs on is right about the variables that it works on, its own  *)
(* and its mappings, and nobody else works on them.                        *)

Now == [impl |-> impl, shm |-> shm, target |-> target, taint |-> tainted]

Types ==
    /\ impl \in [Handles -> Memories \cup {None}]
    /\ bind \in [Memories -> Int]
    /\ shm \in [Held -> Memories \cup {None}]
    /\ ready \subseteq Memories
    /\ target \in [Uniques -> Objects \cup {None}]
    /\ obj \in [Objects -> {"free", "held", "owned", "dead", "lost"}]
    /\ todo \in [Procs -> Seq(Steps)]
    /\ alive \subseteq Procs
    /\ tainted \subseteq Memories

InPlace == \A p \in Procs : Placed(p, Now)

(* Of a memory that is not created yet, only the creator's view knows. *)
Sees(p, s, w) ==
    /\ \A x \in Held : Home[x] = p => s.shm[x] = shm[x]
    /\ \A h \in Handles : Home[h] = p \/ (h \in Ops(w) /\ s.tag # "new") =>
           s.impl[h] = impl[h] /\ (h \in Uniques => s.target[h] = target[h])
    /\ s.tag = "new" => \A h \in Ops(w) \cap Handles : Home[h] = p \/ Home[h] \in s.fresh
    /\ s.taint \cap Mapped(p) \subseteq tainted
    /\ \A m \in s.fresh : m \notin ready /\ UsersOf(m) = {p}

Reachable(p, v) == Home[v] = p \/ Home[v] \in Mapped(p)
Going(p, w) ==
    \E s, t \in Views : Sees(p, s, w) /\ Placed(p, s) /\ Runs(p, w, s, t) /\ Rest(t)
Running(p) ==
    todo[p] # <<>> =>
        /\ p \in alive
        /\ \A v \in Ops(todo[p]) \cap Handles : Reachable(p, v)
        /\ Going(p, todo[p])

Apart == \A p, q \in Procs : p # q => Ops(todo[p]) \cap Ops(todo[q]) \cap Handles = {}
Resting == \A v \in Handles : InUse(v) \/ Idle(Now, v)

Core == Types /\ InPlace /\ Apart /\ Resting /\ \A p \in Procs : Running(p)

LEMMA MappedNow ==
    ASSUME NEW p
    PROVE  Mapped(p) = MapsIn(p, Now)
BY DEF Mapped, MapsIn, Now, Held

LEMMA MappedMemories ==
    ASSUME Types, NEW p
    PROVE  Mapped(p) \subseteq Memories
BY HomesAssumption DEF Types, Mapped, Held

LEMMA InUseOps ==
    ASSUME NEW v
    PROVE  InUse(v) <=> \E q \in Procs : v \in Ops(todo[q])
BY DEF InUse, Ops

LEMMA OpsNone == Ops(<<>>) = {}
BY DEF Ops

LEMMA OpsReachable ==
    ASSUME Core, NEW p \in Procs, NEW v \in Handles, v \in Ops(todo[p])
    PROVE  Reachable(p, v)
<1>1. todo[p] # <<>>
  BY OpsNone
<1>. QED  BY <1>1 DEF Core, Running

(* What a process has for itself, nobody else works on. *)
LEMMA OwnUnused ==
    ASSUME Core, NEW p \in Procs, NEW q \in Procs, p # q, NEW v \in Handles, Home[v] = p
    PROVE  v \notin Ops(todo[q])
<1>1. SUFFICES ASSUME v \in Ops(todo[q]) PROVE FALSE
  OBVIOUS
<1>2. Home[v] \in Mapped(q)
  BY <1>1, OpsReachable DEF Reachable
<1>. QED  BY <1>2, MappedMemories, KindsAssumption DEF Core

LEMMA HomesOfHeld ==
    ASSUME NEW x \in Held
    PROVE  Home[x] \in Procs
BY HomesAssumption DEF Held

-----------------------------------------------------------------------------
(* The others.                                                             *)

Kept(h) == impl'[h] = impl[h] /\ (h \in Uniques => target'[h] = target[h])
OnlyBy(p) ==
    /\ \A q \in Procs \ {p} : todo'[q] = todo[q] /\ (q \in alive => q \in alive')
    /\ \A h \in Handles : \/ Kept(h) \/ h \in Ops(todo[p]) \/ Home[h] = p
                          \/ Home[h] \in Memories /\ UsersOf(Home[h]) \subseteq {p}
    /\ \A x \in Held : Home[x] # p => shm'[x] = shm[x]
    /\ \A m \in Memories : m \in tainted /\ m \notin tainted' => UsersOf(m) \subseteq {p}
    /\ \A m \in Memories : m \in ready' /\ m \notin ready => UsersOf(m) = {p}
    /\ \A m \in Memories : m \in Mapped(p)' => \/ m \in Mapped(p) \/ UsersOf(m) = {}
                                               \/ m \in ready

LEMMA OthersMapped ==
    ASSUME NEW p, OnlyBy(p), NEW q, q # p
    PROVE  Mapped(q)' = Mapped(q)
<1>1. \A x \in Held : Home[x] = q => shm'[x] = shm[x]
  BY DEF OnlyBy
<1>. QED  BY <1>1 DEF Mapped, Held

LEMMA OthersRun ==
    ASSUME Core, NEW p \in Procs, OnlyBy(p), NEW q \in Procs, q # p
    PROVE  Running(q)'
<1>. SUFFICES ASSUME todo[q] # <<>>
              PROVE  /\ q \in alive'
                     /\ \A v \in Ops(todo[q]) \cap Handles : Reachable(q, v)'
                     /\ Going(q, todo[q])'
  BY DEF Running, OnlyBy
<1>1. /\ q \in alive /\ Going(q, todo[q])
      /\ \A v \in Ops(todo[q]) \cap Handles : Reachable(q, v)
  BY DEF Core, Running
<1>2. Mapped(q)' = Mapped(q) /\ Mapped(q) \subseteq Memories
  BY OthersMapped, MappedMemories DEF Core
<1>3. PICK s, t \in Views : /\ Sees(q, s, todo[q]) /\ Placed(q, s)
                            /\ Runs(q, todo[q], s, t) /\ Rest(t)
  BY <1>1 DEF Going
<1>4. \A x \in Held : Home[x] = q => s.shm[x] = shm'[x]
  BY <1>3 DEF Sees, OnlyBy
<1>5. ASSUME NEW h \in Handles, Home[h] = q \/ h \in Ops(todo[q])
      PROVE  Kept(h)
  <2>1. Home[h] = q \/ Home[h] \in Mapped(q)
    BY <1>1, <1>5 DEF Reachable
  <2>2. Home[h] # p
    BY <1>2, <2>1, KindsAssumption
  <2>3. h \notin Ops(todo[p])
    BY <1>5, OwnUnused DEF Core, Apart
  <2>4. ~(Home[h] \in Memories /\ UsersOf(Home[h]) \subseteq {p})
    BY <2>1, KindsAssumption DEF UsersOf
  <2>. QED  BY <2>2, <2>3, <2>4 DEF OnlyBy
<1>6. s.taint \cap Mapped(q)' \subseteq tainted'
  <2>. SUFFICES ASSUME NEW m \in s.taint, m \in Mapped(q), m \notin tainted' PROVE FALSE
    BY <1>2
  <2>1. m \in tainted
    BY <1>3 DEF Sees
  <2>2. q \in UsersOf(m)
    BY DEF UsersOf
  <2>. QED  BY <1>2, <2>1, <2>2 DEF OnlyBy
<1>7. ASSUME NEW m \in s.fresh
      PROVE  m \notin ready' /\ UsersOf(m)' = {q}
  <2>1. m \in Memories /\ m \notin ready /\ UsersOf(m) = {q}
    BY <1>3, ViewFields DEF Sees
  <2>2. m \notin ready'
    BY <2>1 DEF OnlyBy
  <2>3. m \notin Mapped(p)'
    BY <2>1 DEF OnlyBy, UsersOf
  <2>4. \A c \in Procs \ {p} : Mapped(c)' = Mapped(c)
    BY OthersMapped
  <2>. QED  BY <2>1, <2>2, <2>3, <2>4 DEF UsersOf
<1>8. Sees(q, s, todo[q])'
  <2>1. \A h \in Handles : Home[h] = q \/ (h \in Ops(todo[q]) /\ s.tag # "new") =>
           s.impl[h] = impl'[h] /\ (h \in Uniques => s.target[h] = target'[h])
    BY <1>3, <1>5 DEF Sees, Kept
  <2>2. todo'[q] = todo[q]
    BY DEF OnlyBy
  <2>3. s.tag = "new" => \A h \in Ops(todo[q]) \cap Handles : Home[h] = q \/ Home[h] \in s.fresh
    BY <1>3 DEF Sees
  <2>. QED  BY <1>4, <1>6, <1>7, <2>1, <2>2, <2>3 DEF Sees
<1>9. Going(q, todo[q])'
  <2>1. todo'[q] = todo[q]
    BY DEF OnlyBy
  <2>. QED  BY <1>3, <1>8, <2>1 DEF Going
<1>. QED  BY <1>1, <1>2, <1>9 DEF OnlyBy, Reachable

-----------------------------------------------------------------------------
(* A step of a process.                                                    *)

LEMMA MovesIs ==
    ASSUME NEW p, NEW x, NEW s, NEW t, Moves(p, x, s, t)
    PROVE  /\ x[1] = "bind" => BindIn(p, x[2], x[3], s, t)
           /\ x[1] = "attach" => AttachIn(p, x[2], x[3], s, t)
           /\ x[1] = "create" => CreateIn(p, x[2], x[3], s, t)
           /\ x[1] = "unbind" => UnbindIn(p, x[2], s, t)
           /\ x[1] = "drop" => DropIn(p, x[2], s, t)
           /\ x[1] = "clear" => ClearIn(p, x[2], s, t)
           /\ x[1] = "take" => TakeIn(p, x[2], x[3], s, t)
           /\ x[1] = "swap" => SwapIn(p, x[2], x[3], s, t)
           /\ x[1] = "ready" => ReadyIn(x[2], x[3], s, t)
           /\ x[1] = "takeall" => TakeAllIn(p, x[2], x[3], s, t)
           /\ x[1] = "swapall" => SwapAllIn(p, x[2], x[3], s, t)
           /\ x[1] = "unmap" => UnmapIn(p, x[2], s, t)
           /\ x[1] = "new" => NewIn(p, x[2], x[3], s, t)
           /\ x[1] = "own" => OwnIn(p, x[2], x[3], s, t)
           /\ x[1] = "movetarget" => MoveTargetIn(p, x[2], x[3], s, t)
           /\ x[1] = "swaptarget" => SwapTargetIn(p, x[2], x[3], s, t)
           /\ x[1] = "release" => ReleaseIn(p, x[2], s, t)
           /\ x[1] = "destroy" => DestroyIn(p, x[2], s, t)
           /\ x[1] = "free" => FreeIn(p, x[2], s, t)
           /\ x[1] = "forget" => ForgetIn(p, x[2], s, t)
BY DEF Moves

Doing(p, s, r, t) ==
    /\ s \in Views /\ r \in Views /\ t \in Views
    /\ Sees(p, s, todo[p]) /\ Placed(p, s) /\ Placed(p, r)
    /\ Moves(p, Head(todo[p]), s, r)
    /\ Runs(p, Tail(todo[p]), r, t) /\ Rest(t)

LEMMA StepDoes ==
    ASSUME Core, NEW p \in Procs, todo[p] # <<>>
    PROVE  \E s, r, t : Doing(p, s, r, t)
<1>1. PICK s, t \in Views : /\ Sees(p, s, todo[p]) /\ Placed(p, s)
                            /\ Runs(p, todo[p], s, t) /\ Rest(t)
  BY DEF Core, Running, Going
<1>2. todo[p] \in Seq(Steps)
  BY DEF Core, Types
<1>3. PICK r \in Views : Moves(p, Head(todo[p]), s, r) /\ Runs(p, Tail(todo[p]), r, t)
  BY <1>1, <1>2, RunsHead
<1>4. Placed(p, r)
  BY <1>1, <1>3, MovesPlaced
<1>. QED  BY <1>1, <1>3, <1>4 DEF Doing

LEMMA OpsHeadTail ==
    ASSUME NEW w \in Seq(Steps), w # <<>>
    PROVE  /\ Head(w) \in Steps /\ Head(w)[2] \in Ops(w) /\ Head(w)[3] \in Ops(w)
           /\ Tail(w) \in Seq(Steps) /\ Ops(Tail(w)) \subseteq Ops(w)
<1>1. PICK b : b = Tail(w)
  OBVIOUS
<1>2. /\ b \in Seq(Steps) /\ DOMAIN b = 1..(Len(w) - 1) /\ \A i \in 1..(Len(w) - 1) : b[i] = w[i + 1]
      /\ Head(w) = w[1] /\ DOMAIN w = 1..Len(w) /\ 1 \in 1..Len(w) /\ Len(w) \in Nat
      /\ Head(w) \in Steps
  BY <1>1, HeadTailProperties
<1>3. PICK n \in Nat : n = Len(w)
  BY <1>2
<1>4. ASSUME NEW i \in 1..(n - 1)
      PROVE  i + 1 \in 1..n
  OBVIOUS
<1>5. ASSUME NEW e \in Ops(b)
      PROVE  e \in Ops(w)
  <2>1. PICK i \in 1..(n - 1) : e = b[i][2] \/ e = b[i][3]
    BY <1>2, <1>3, <1>5 DEF Ops
  <2>2. PICK j \in DOMAIN w : b[i] = w[j]
    BY <1>2, <1>3, <1>4
  <2>. QED  BY <2>1, <2>2 DEF Ops
<1>. QED  BY <1>1, <1>2, <1>5 DEF Ops

(* After the step, the next view is right. *)
Effect(p, r) ==
    /\ r.tag # "new"
    /\ \A x \in Held : Home[x] = p => r.shm[x] = shm'[x]
    /\ \A h \in Handles : Home[h] = p \/ h \in Ops(todo[p]) =>
           r.impl[h] = impl'[h] /\ (h \in Uniques => r.target[h] = target'[h])

(* The view before the step, but for the creation. *)
Agrees(p, s) ==
    /\ \A x \in Held : Home[x] = p => s.shm[x] = shm[x]
    /\ \A h \in Handles : Home[h] = p \/ h \in Ops(todo[p]) =>
           s.impl[h] = impl[h] /\ (h \in Uniques => s.target[h] = target[h])

LEMMA AgreesUnlessNew ==
    ASSUME NEW p, NEW s, NEW r, NEW t, Doing(p, s, r, t), s.tag # "new"
    PROVE  Agrees(p, s)
BY DEF Doing, Sees, Agrees

LEMMA StepEffect ==
    ASSUME Core, NEW p \in Procs, StepOf(p), ~DoNewFails(p),
           NEW s, NEW r, NEW t, Doing(p, s, r, t)
    PROVE  Effect(p, r)
<1>. DEFINE x == Head(todo[p])
            d == Dst(p)
            c == Src(p)
<1>d. x[2] = d /\ x[3] = c
  BY DEF Dst, Src
<1>0. \A op : At(p, op) => x[1] = op /\ todo[p] # <<>>
  BY DEF At
<1>1. Moves(p, x, s, r) /\ s \in Views /\ r \in Views
  BY DEF Doing
<1>2. d \in Ops(todo[p]) /\ c \in Ops(todo[p])
  <2>1. todo[p] \in Seq(Steps) /\ todo[p] # <<>>
    BY DEF Core, Types, StepOf, DoBind, DoAttach, DoUnbind, DoDrop, DoStore, DoCreate, DoReady,
           DoMapping, DoNew, DoNewFails, DoTarget, DoDelete, At
  <2>. QED  BY <2>1, OpsHeadTail DEF Dst, Src
<1>v. /\ s.impl \in [Handles -> Memories \cup {None}] /\ impl \in [Handles -> Memories \cup {None}]
      /\ s.shm \in [Held -> Memories \cup {None}] /\ shm \in [Held -> Memories \cup {None}]
      /\ s.target \in [Uniques -> Objects \cup {None}]
      /\ target \in [Uniques -> Objects \cup {None}]
  BY <1>1, ViewFields DEF Core, Types
<1>a. s.tag # "new" => Agrees(p, s)
  BY AgreesUnlessNew
<1>u. Uniques \subseteq Handles /\ Held \subseteq Handles
  BY HeldAreHandles DEF Handles
<1>. HIDE DEF x, d, c
<1>3. ASSUME DoBind(p) PROVE Effect(p, r)
  <2>1. BindIn(p, d, c, s, r) /\ impl' = [impl EXCEPT ![d] = impl[c]] /\ shm' = shm /\ target' = target
    BY <1>0, <1>1, <1>3, <1>d, MovesIs DEF DoBind, memVars, objVars, d, c
  <2>2. d \in Handles /\ c \in Handles /\ s.tag # "new" /\ r.tag # "new"
    BY <2>1 DEF BindIn, Within, Free, Tagged, Clean
  <2>. QED  BY <1>2, <1>a, <1>v, <2>1, <2>2 DEF Agrees, Effect, BindIn, Becomes
<1>4. ASSUME DoAttach(p) PROVE Effect(p, r)
  <2>1. AttachIn(p, d, c, s, r) /\ impl' = [impl EXCEPT ![d] = c] /\ shm' = shm /\ target' = target
    BY <1>0, <1>1, <1>4, <1>d, MovesIs DEF DoAttach, memVars, objVars, d, c
  <2>2. d \in Handles /\ s.tag # "new" /\ r.tag # "new"
    BY <2>1 DEF AttachIn, Clean
  <2>. QED  BY <1>2, <1>a, <1>v, <2>1, <2>2 DEF Agrees, Effect, AttachIn, Becomes
<1>5. ASSUME DoUnbind(p) PROVE Effect(p, r)
  <2>1. UnbindIn(p, d, s, r) /\ impl' = impl /\ shm' = shm /\ target' = target
    BY <1>0, <1>1, <1>5, <1>d, MovesIs DEF DoUnbind, memVars, objVars
  <2>2. s.tag # "new" /\ r.tag # "new"
    BY <2>1 DEF UnbindIn, Clean, Tagged
  <2>. QED  BY <1>a, <2>1, <2>2 DEF Agrees, Effect, UnbindIn, Becomes
<1>6. ASSUME DoDrop(p) PROVE Effect(p, r)
  <2>1. DropIn(p, d, s, r) /\ impl' = [impl EXCEPT ![d] = None] /\ shm' = shm /\ target' = target
    BY <1>0, <1>1, <1>6, <1>d, MovesIs DEF DoDrop, memVars, objVars, d
  <2>2. d \in Handles /\ s.tag # "new" /\ r.tag # "new"
    BY <2>1 DEF DropIn, Clean, Within
  <2>. QED  BY <1>2, <1>a, <1>v, <2>1, <2>2 DEF Agrees, Effect, DropIn, Becomes
<1>7. ASSUME DoStore(p) PROVE Effect(p, r)
  <2>0. shm' = shm /\ target' = target
    BY <1>7 DEF DoStore, memVars, objVars
  <2>1. CASE At(p, "clear")
    <3>1. ClearIn(p, d, s, r) /\ impl' = [impl EXCEPT ![d] = None]
      BY <1>0, <1>1, <1>7, <1>d, <2>1, MovesIs DEF DoStore, d, At
    <3>2. d \in Handles /\ s.tag # "new" /\ r.tag # "new"
      BY <3>1 DEF ClearIn, Clean, Within, Tagged
    <3>. QED  BY <1>2, <1>a, <1>v, <2>0, <3>1, <3>2 DEF Agrees, Effect, ClearIn, Becomes
  <2>2. CASE At(p, "take")
    <3>1. TakeIn(p, d, c, s, r) /\ impl' = Taken(impl, d, c)
      BY <1>0, <1>1, <1>7, <1>d, <2>2, MovesIs DEF DoStore, d, c, At
    <3>2. d \in Handles /\ c \in Handles /\ d # c /\ s.tag # "new" /\ r.tag # "new"
      BY <3>1 DEF TakeIn, Clean, Within, Tagged, Free
    <3>. QED  BY <1>2, <1>a, <1>v, <2>0, <3>1, <3>2 DEF Agrees, Effect, TakeIn, Becomes, Taken
  <2>3. CASE At(p, "swap")
    <3>1. SwapIn(p, d, c, s, r) /\ impl' = Swapped(impl, d, c)
      BY <1>0, <1>1, <1>7, <1>d, <2>3, MovesIs DEF DoStore, d, c, At
    <3>2. d \in Handles /\ c \in Handles /\ d # c /\ s.tag # "new" /\ r.tag # "new"
      BY <3>1 DEF SwapIn, Clean, Within
    <3>. QED  BY <1>2, <1>a, <1>v, <2>0, <3>1, <3>2 DEF Agrees, Effect, SwapIn, Becomes, Swapped
  <2>. QED  BY <1>7, <2>1, <2>2, <2>3 DEF DoStore
<1>8. ASSUME DoCreate(p) PROVE Effect(p, r)
  <2>1. /\ CreateIn(p, d, c, s, r) /\ shm' = shm
        /\ impl' = [h \in Handles |-> IF h = d THEN c ELSE IF Home[h] = c THEN None ELSE impl[h]]
        /\ target' = [u \in Uniques |-> IF Home[u] = c THEN None ELSE target[u]]
    BY <1>0, <1>1, <1>8, <1>d, MovesIs DEF DoCreate, d, c
  <2>2. /\ d \in Handles /\ Home[d] = p /\ c \in Memories /\ s.tag = "new" /\ s.fresh = {c}
        /\ r.tag # "new" /\ r.impl = [s.impl EXCEPT ![d] = c] /\ r.shm = s.shm /\ r.target = s.target
        /\ \A h \in Handles : Home[h] = c => s.impl[h] = None
        /\ \A u \in Uniques : Home[u] = c => s.target[u] = None
    BY <1>1, <2>1, MapsAreMemories DEF CreateIn, Becomes, Clean
  <2>3. /\ \A y \in Held : Home[y] = p => s.shm[y] = shm[y]
        /\ \A h \in Handles : Home[h] = p =>
               s.impl[h] = impl[h] /\ (h \in Uniques => s.target[h] = target[h])
        /\ \A h \in Ops(todo[p]) \cap Handles : Home[h] = p \/ Home[h] = c
    BY <2>2 DEF Doing, Sees
  <2>4. Home[d] # c
    BY <2>2, KindsAssumption
  <2>5. ASSUME NEW h \in Handles, Home[h] = p \/ h \in Ops(todo[p])
        PROVE  r.impl[h] = impl'[h]
    BY <1>v, <2>1, <2>2, <2>3, <2>4, <2>5, KindsAssumption
  <2>6. ASSUME NEW h \in Uniques, Home[h] = p \/ h \in Ops(todo[p])
        PROVE  r.target[h] = target'[h]
    BY <1>u, <1>v, <2>1, <2>2, <2>3, <2>6, KindsAssumption
  <2>. QED  BY <2>1, <2>2, <2>3, <2>5, <2>6 DEF Effect
<1>9. ASSUME DoReady(p) PROVE Effect(p, r)
  <2>1. ReadyIn(d, c, s, r) /\ impl' = impl /\ shm' = shm /\ target' = target
    BY <1>0, <1>1, <1>9, <1>d, MovesIs DEF DoReady, handleVars, objVars
  <2>2. s.tag # "new" /\ r.tag # "new"
    BY <2>1 DEF ReadyIn, Clean
  <2>. QED  BY <1>a, <2>1, <2>2 DEF Agrees, Effect, ReadyIn, Becomes
<1>10. ASSUME DoMapping(p) PROVE Effect(p, r)
  <2>0. target' = target
    BY <1>10 DEF DoMapping, objVars
  <2>1. CASE At(p, "takeall")
    <3>1. TakeAllIn(p, d, c, s, r) /\ impl' = Taken(impl, d, c) /\ shm' = Taken(shm, d, c)
      BY <1>0, <1>1, <1>10, <1>d, <2>1, MovesIs DEF DoMapping, d, c, At
    <3>2. d \in Held /\ c \in Held /\ d # c /\ s.tag # "new" /\ r.tag # "new"
          /\ Home[d] = p /\ Home[c] = p
      BY <3>1 DEF TakeAllIn, Clean
    <3>. QED  BY <1>2, <1>a, <1>u, <1>v, <2>0, <3>1, <3>2 DEF Agrees, Effect, TakeAllIn, Becomes, Taken
  <2>2. CASE At(p, "swapall")
    <3>1. SwapAllIn(p, d, c, s, r) /\ impl' = Swapped(impl, d, c) /\ shm' = Swapped(shm, d, c)
      BY <1>0, <1>1, <1>10, <1>d, <2>2, MovesIs DEF DoMapping, d, c, At
    <3>2. d \in Held /\ c \in Held /\ d # c /\ s.tag # "new" /\ r.tag # "new"
          /\ Home[d] = p /\ Home[c] = p
      BY <3>1 DEF SwapAllIn, Clean
    <3>. QED  BY <1>2, <1>a, <1>u, <1>v, <2>0, <3>1, <3>2 DEF Agrees, Effect, SwapAllIn, Becomes, Swapped
  <2>3. CASE At(p, "unmap")
    <3>1. UnmapIn(p, d, s, r) /\ impl' = impl /\ shm' = [shm EXCEPT ![d] = None]
      BY <1>0, <1>1, <1>10, <1>d, <2>3, MovesIs DEF DoMapping, d, At
    <3>2. d \in Held /\ s.tag # "new" /\ r.tag # "new"
      BY <3>1 DEF UnmapIn, Clean
    <3>. QED  BY <1>2, <1>a, <1>u, <1>v, <2>0, <3>1, <3>2 DEF Agrees, Effect, UnmapIn, Becomes
  <2>. QED  BY <1>10, <2>1, <2>2, <2>3 DEF DoMapping
<1>11. ASSUME DoNew(p) PROVE Effect(p, r)
  <2>1. NewIn(p, d, c, s, r) /\ impl' = impl /\ shm' = shm /\ target' = target
    BY <1>0, <1>1, <1>11, <1>d, MovesIs DEF DoNew, handleVars, memVars
  <2>2. s.tag # "new" /\ r = s
    BY <2>1 DEF NewIn, Clean
  <2>. QED  BY <1>a, <2>1, <2>2 DEF Agrees, Effect
<1>12. ASSUME DoTarget(p) PROVE Effect(p, r)
  <2>0. impl' = impl /\ shm' = shm
    BY <1>12 DEF DoTarget, handleVars, memVars
  <2>1. CASE At(p, "own")
    <3>1. OwnIn(p, d, c, s, r) /\ target' = [target EXCEPT ![d] = c]
      BY <1>0, <1>1, <1>12, <1>d, <2>1, MovesIs DEF DoTarget, d, c, At
    <3>2. d \in Uniques /\ s.tag # "new" /\ r.tag # "new"
      BY <3>1 DEF OwnIn, Clean
    <3>. QED  BY <1>2, <1>a, <1>u, <1>v, <2>0, <3>1, <3>2 DEF Agrees, Effect, OwnIn, Becomes
  <2>2. CASE At(p, "movetarget")
    <3>1. MoveTargetIn(p, d, c, s, r) /\ target' = Taken(target, d, c)
      BY <1>0, <1>1, <1>12, <1>d, <2>2, MovesIs DEF DoTarget, d, c, At
    <3>2. d \in Uniques /\ c \in Uniques /\ d # c /\ s.tag # "new" /\ r.tag # "new"
      BY <3>1 DEF MoveTargetIn, Clean
    <3>. QED  BY <1>2, <1>a, <1>u, <1>v, <2>0, <3>1, <3>2 DEF Agrees, Effect, MoveTargetIn, Becomes, Taken
  <2>3. CASE At(p, "swaptarget")
    <3>1. SwapTargetIn(p, d, c, s, r) /\ target' = Swapped(target, d, c)
      BY <1>0, <1>1, <1>12, <1>d, <2>3, MovesIs DEF DoTarget, d, c, At
    <3>2. d \in Uniques /\ c \in Uniques /\ d # c /\ s.tag # "new" /\ r.tag # "new"
      BY <3>1 DEF SwapTargetIn, Clean
    <3>. QED  BY <1>2, <1>a, <1>u, <1>v, <2>0, <3>1, <3>2 DEF Agrees, Effect, SwapTargetIn, Becomes, Swapped
  <2>4. CASE At(p, "release")
    <3>1. ReleaseIn(p, d, s, r) /\ target' = [target EXCEPT ![d] = None]
      BY <1>0, <1>1, <1>12, <1>d, <2>4, MovesIs DEF DoTarget, d, At
    <3>2. d \in Uniques /\ s.tag # "new" /\ r.tag # "new"
      BY <3>1 DEF ReleaseIn, Clean
    <3>. QED  BY <1>2, <1>a, <1>u, <1>v, <2>0, <3>1, <3>2 DEF Agrees, Effect, ReleaseIn, Becomes
  <2>5. CASE At(p, "forget")
    <3>1. ForgetIn(p, d, s, r) /\ target' = [target EXCEPT ![d] = None]
      BY <1>0, <1>1, <1>12, <1>d, <2>5, MovesIs DEF DoTarget, d, At
    <3>2. d \in Uniques /\ s.tag # "new" /\ r.tag # "new"
      BY <3>1 DEF ForgetIn, Clean, Tagged
    <3>. QED  BY <1>2, <1>a, <1>u, <1>v, <2>0, <3>1, <3>2 DEF Agrees, Effect, ForgetIn, Becomes
  <2>. QED  BY <1>12, <2>1, <2>2, <2>3, <2>4, <2>5 DEF DoTarget
<1>13. ASSUME DoDelete(p) PROVE Effect(p, r)
  <2>0. impl' = impl /\ shm' = shm /\ target' = target
    BY <1>13 DEF DoDelete, handleVars, memVars
  <2>1. CASE At(p, "destroy")
    <3>1. DestroyIn(p, d, s, r)
      BY <1>0, <1>1, <1>d, <2>1, MovesIs
    <3>2. s.tag # "new" /\ r.tag # "new"
      BY <3>1 DEF DestroyIn, Clean, Tagged
    <3>. QED  BY <1>a, <2>0, <3>1, <3>2 DEF Agrees, Effect, DestroyIn, Becomes
  <2>2. CASE At(p, "free")
    <3>1. FreeIn(p, d, s, r)
      BY <1>0, <1>1, <1>d, <2>2, MovesIs
    <3>2. s.tag # "new" /\ r.tag # "new"
      BY <3>1 DEF FreeIn, Tagged
    <3>. QED  BY <1>a, <2>0, <3>1, <3>2 DEF Agrees, Effect, FreeIn, Becomes
  <2>. QED  BY <1>13, <2>1, <2>2 DEF DoDelete
<1>. QED  BY <1>3, <1>4, <1>5, <1>6, <1>7, <1>8, <1>9, <1>10, <1>11, <1>12, <1>13 DEF StepOf

Touches(p) ==
    /\ \A h \in Handles \ {Dst(p), Src(p)} : Kept(h) \/ (At(p, "create") /\ Home[h] = Src(p))
    /\ \A x \in Held : Home[x] # p => shm'[x] = shm[x]
    /\ tainted' = tainted \/ (At(p, "create") /\ tainted' = tainted \ {Src(p)})
    /\ ready' = ready \/ (At(p, "ready") /\ ready' = ready \cup {Src(p)})
    /\ alive' = alive

LEMMA StepTouches ==
    ASSUME Core, NEW p \in Procs, StepOf(p), NEW s, NEW r, NEW t, Doing(p, s, r, t)
    PROVE  Touches(p)
<1>. DEFINE d == Dst(p)
            c == Src(p)
            x == Head(todo[p])
<1>d. x[2] = d /\ x[3] = c
  BY DEF Dst, Src
<1>0. \A op : At(p, op) => x[1] = op
  BY DEF At
<1>1. Moves(p, x, s, r) /\ s \in Views /\ r \in Views
  BY DEF Doing
<1>v. /\ impl \in [Handles -> Memories \cup {None}] /\ shm \in [Held -> Memories \cup {None}]
      /\ target \in [Uniques -> Objects \cup {None}]
  BY DEF Core, Types
<1>. HIDE DEF x
<1>2. ASSUME impl' = impl, target' = target
      PROVE  \A h \in Handles : Kept(h)
  BY <1>2 DEF Kept
<1>3. CASE DoBind(p) \/ DoAttach(p) \/ DoDrop(p)
  <2>1. target' = target /\ shm' = shm /\ ready' = ready /\ tainted' = tainted /\ alive' = alive
    BY <1>3 DEF DoBind, DoAttach, DoDrop, memVars, objVars
  <2>2. \A h \in Handles \ {d, c} : impl'[h] = impl[h]
    BY <1>3, <1>v DEF DoBind, DoAttach, DoDrop
  <2>. QED  BY <2>1, <2>2 DEF Touches, Kept
<1>4. CASE DoUnbind(p) \/ DoNew(p) \/ DoNewFails(p) \/ DoDelete(p)
  <2>1. /\ target' = target /\ shm' = shm /\ ready' = ready /\ tainted' = tainted /\ alive' = alive
        /\ impl' = impl
    BY <1>4 DEF DoUnbind, DoNew, DoNewFails, DoDelete, memVars, objVars, handleVars
  <2>. QED  BY <1>2, <2>1 DEF Touches
<1>5. CASE DoStore(p)
  <2>1. target' = target /\ shm' = shm /\ ready' = ready /\ tainted' = tainted /\ alive' = alive
    BY <1>5 DEF DoStore, memVars, objVars
  <2>2. \A h \in Handles \ {d, c} : impl'[h] = impl[h]
    BY <1>5, <1>v DEF DoStore, Taken, Swapped
  <2>. QED  BY <2>1, <2>2 DEF Touches, Kept
<1>6. CASE DoCreate(p)
  <2>1. /\ shm' = shm /\ ready' = ready /\ tainted' = tainted \ {c} /\ alive' = alive
        /\ impl' = [h \in Handles |-> IF h = d THEN c ELSE IF Home[h] = c THEN None ELSE impl[h]]
        /\ target' = [u \in Uniques |-> IF Home[u] = c THEN None ELSE target[u]]
        /\ At(p, "create")
    BY <1>6 DEF DoCreate
  <2>2. \A h \in Handles \ {d, c} : Kept(h) \/ Home[h] = c
    BY <2>1 DEF Kept
  <2>. QED  BY <2>1, <2>2 DEF Touches
<1>7. CASE DoReady(p)
  <2>1. /\ target' = target /\ shm' = shm /\ ready' = ready \cup {c} /\ tainted' = tainted
        /\ alive' = alive /\ impl' = impl /\ At(p, "ready")
    BY <1>7 DEF DoReady, objVars, handleVars
  <2>. QED  BY <1>2, <2>1 DEF Touches
<1>8. CASE DoMapping(p)
  <2>1. target' = target /\ ready' = ready /\ tainted' = tainted /\ alive' = alive
    BY <1>8 DEF DoMapping, objVars
  <2>2. \A h \in Handles \ {d, c} : impl'[h] = impl[h]
    BY <1>8, <1>v DEF DoMapping, Taken, Swapped
  <2>3. At(p, "takeall") \/ At(p, "swapall") \/ At(p, "unmap")
    BY <1>8 DEF DoMapping
  <2>4. ASSUME At(p, "takeall") PROVE Home[d] = p /\ Home[c] = p
    <3>1. TakeAllIn(p, d, c, s, r)
      BY <1>0, <1>1, <1>d, <2>4, MovesIs
    <3>. QED  BY <3>1 DEF TakeAllIn
  <2>5. ASSUME At(p, "swapall") PROVE Home[d] = p /\ Home[c] = p
    <3>1. SwapAllIn(p, d, c, s, r)
      BY <1>0, <1>1, <1>d, <2>5, MovesIs
    <3>. QED  BY <3>1 DEF SwapAllIn
  <2>u. ASSUME At(p, "unmap") PROVE Home[d] = p
    <3>1. UnmapIn(p, d, s, r)
      BY <1>0, <1>1, <1>d, <2>u, MovesIs
    <3>. QED  BY <3>1 DEF UnmapIn
  <2>6. Home[d] = p /\ (At(p, "unmap") \/ Home[c] = p)
    BY <2>3, <2>4, <2>5, <2>u
  <2>7. \A y \in Held : Home[y] # p => shm'[y] = shm[y]
    <3>1. CASE At(p, "unmap")
      BY <1>0, <1>8, <1>v, <2>6, <3>1 DEF DoMapping, At
    <3>2. CASE Home[c] = p
      BY <1>8, <1>v, <2>6, <3>2 DEF DoMapping, Taken, Swapped
    <3>. QED  BY <2>6, <3>1, <3>2
  <2>. QED  BY <2>1, <2>2, <2>7 DEF Touches, Kept
<1>9. CASE DoTarget(p)
  <2>1. impl' = impl /\ shm' = shm /\ ready' = ready /\ tainted' = tainted /\ alive' = alive
    BY <1>9 DEF DoTarget, memVars, handleVars
  <2>2. \A h \in Uniques \ {d, c} : target'[h] = target[h]
    BY <1>9, <1>v DEF DoTarget, Taken, Swapped
  <2>. QED  BY <2>1, <2>2 DEF Touches, Kept
<1>. QED  BY <1>3, <1>4, <1>5, <1>6, <1>7, <1>8, <1>9 DEF StepOf

LEMMA SeenMaps ==
    ASSUME NEW p, NEW s, \A x \in Held : Home[x] = p => s.shm[x] = shm[x]
    PROVE  MapsIn(p, s) = Mapped(p)
BY DEF MapsIn, Mapped, Held

LEMMA SeenMapsNext ==
    ASSUME NEW p, NEW r, \A x \in Held : Home[x] = p => r.shm[x] = shm'[x]
    PROVE  MapsIn(p, r) = Mapped(p)'
BY DEF MapsIn, Mapped, Held

LEMMA MovesShrinks ==
    ASSUME NEW p, NEW x, NEW s \in Views, NEW t \in Views, Moves(p, x, s, t)
    PROVE  MapsIn(p, t) \subseteq MapsIn(p, s)
<1>1. CASE x[1] = "unmap"
  <2>1. UnmapIn(p, x[2], s, t)
    BY <1>1, MovesIs
  <2>2. \A y \in Held : t.shm[y] = s.shm[y] \/ t.shm[y] = None
    BY <2>1, ViewFields DEF UnmapIn, Becomes
  <2>. QED  BY <2>2 DEF MapsIn
<1>2. CASE x[1] # "unmap"
  BY <1>2, MovesMaps
<1>. QED  BY <1>1, <1>2

LEMMA StepHasHead ==
    ASSUME Core, NEW p \in Procs, StepOf(p)
    PROVE  /\ todo[p] # <<>> /\ todo[p] \in Seq(Steps) /\ p \in alive
           /\ Dst(p) \in Ops(todo[p]) /\ Src(p) \in Ops(todo[p])
<1>1. todo[p] \in Seq(Steps) /\ todo[p] # <<>> /\ p \in alive
  BY DEF Core, Types, StepOf, DoBind, DoAttach, DoUnbind, DoDrop, DoStore, DoCreate, DoReady,
         DoMapping, DoNew, DoNewFails, DoTarget, DoDelete, At
<1>. QED  BY <1>1, OpsHeadTail DEF Dst, Src

LEMMA StepTodo ==
    ASSUME Core, NEW p \in Procs, StepOf(p)
    PROVE  todo' = [todo EXCEPT ![p] = IF DoNewFails(p) THEN Destruct(Dst(p)) ELSE Tail(@)]
BY DEF StepOf, DoBind, DoAttach, DoUnbind, DoDrop, DoStore, DoCreate, DoReady, DoMapping, DoNew,
       DoNewFails, DoTarget, DoDelete, Done

LEMMA NewFailsIs ==
    ASSUME Core, NEW p \in Procs, DoNewFails(p), NEW s, NEW r, NEW t, Doing(p, s, r, t)
    PROVE  /\ NewIn(p, Dst(p), Src(p), s, r) /\ impl' = impl /\ shm' = shm /\ target' = target
           /\ ready' = ready /\ tainted' = tainted /\ alive' = alive
<1>1. Head(todo[p])[1] = "new"
  BY DEF DoNewFails, At
<1>2. NewIn(p, Dst(p), Src(p), s, r)
  BY <1>1, MovesIs DEF Doing, Dst, Src
<1>. QED  BY <1>2 DEF DoNewFails, handleVars, memVars

LEMMA StepMapped ==
    ASSUME Core, NEW p \in Procs, StepOf(p), NEW s, NEW r, NEW t, Doing(p, s, r, t)
    PROVE  Mapped(p)' \subseteq Mapped(p)
<1>1. CASE DoNewFails(p)
  <2>1. shm' = shm
    BY <1>1, NewFailsIs
  <2>. QED  BY <2>1 DEF Mapped
<1>2. CASE ~DoNewFails(p)
  <2>1. \A x \in Held : Home[x] = p => r.shm[x] = shm'[x]
    BY <1>2, StepEffect DEF Effect
  <2>2. \A x \in Held : Home[x] = p => s.shm[x] = shm[x]
    BY DEF Doing, Sees
  <2>3. MapsIn(p, r) \subseteq MapsIn(p, s)
    BY MovesShrinks DEF Doing
  <2>. QED  BY <2>1, <2>2, <2>3, SeenMaps, SeenMapsNext
<1>. QED  BY <1>1, <1>2

(* Who creates a memory is alone there. *)
LEMMA CreatorIsAlone ==
    ASSUME NEW p, NEW s, NEW r, NEW t, Doing(p, s, r, t), At(p, "create") \/ At(p, "ready")
    PROVE  /\ Src(p) \in Memories /\ s.fresh = {Src(p)}
           /\ UsersOf(Src(p)) = {p} /\ Src(p) \notin ready
<1>1. Moves(p, Head(todo[p]), s, r) /\ s \in Views
  BY DEF Doing
<1>2. s.fresh = {Src(p)}
  <2>1. CASE At(p, "create")
    <3>1. CreateIn(p, Dst(p), Src(p), s, r)
      BY <1>1, <2>1, MovesIs DEF At, Dst, Src
    <3>. QED  BY <3>1 DEF CreateIn
  <2>2. CASE At(p, "ready")
    <3>1. ReadyIn(Dst(p), Src(p), s, r)
      BY <1>1, <2>2, MovesIs DEF At, Dst, Src
    <3>. QED  BY <3>1 DEF ReadyIn
  <2>. QED  BY <2>1, <2>2
<1>3. s.fresh \subseteq Memories
  BY <1>1, ViewFields
<1>. QED  BY <1>2, <1>3 DEF Doing, Sees

LEMMA StepOnlyBy ==
    ASSUME Core, NEW p \in Procs, StepOf(p), NEW s, NEW r, NEW t, Doing(p, s, r, t)
    PROVE  OnlyBy(p)
<1>1. Touches(p)
  BY StepTouches
<1>2. /\ Dst(p) \in Ops(todo[p]) /\ Src(p) \in Ops(todo[p])
      /\ todo' = [todo EXCEPT ![p] = IF DoNewFails(p) THEN Destruct(Dst(p)) ELSE Tail(@)]
  BY StepHasHead, StepTodo
<1>3. \A q \in Procs \ {p} : todo'[q] = todo[q] /\ (q \in alive => q \in alive')
  BY <1>1, <1>2 DEF Core, Types, Touches
<1>4. At(p, "create") \/ At(p, "ready") => Src(p) \in Memories /\ UsersOf(Src(p)) = {p}
  BY CreatorIsAlone
<1>5. \A h \in Handles : \/ Kept(h) \/ h \in Ops(todo[p]) \/ Home[h] = p
                         \/ Home[h] \in Memories /\ UsersOf(Home[h]) \subseteq {p}
  BY <1>1, <1>2, <1>4 DEF Touches
<1>6. \A m \in Memories : m \in tainted /\ m \notin tainted' => UsersOf(m) \subseteq {p}
  BY <1>1, <1>4 DEF Touches
<1>7. \A m \in Memories : m \in ready' /\ m \notin ready => UsersOf(m) = {p}
  BY <1>1, <1>4 DEF Touches
<1>8. Mapped(p)' \subseteq Mapped(p)
  BY StepMapped
<1>. QED  BY <1>1, <1>3, <1>5, <1>6, <1>7, <1>8 DEF OnlyBy, Touches

LEMMA StepShapes ==
    ASSUME Types, NEW p, StepOf(p)
    PROVE  /\ impl' = [h \in Handles |-> impl'[h]] /\ shm' = [x \in Held |-> shm'[x]]
           /\ target' = [u \in Uniques |-> target'[u]]
           /\ bind' \in [Memories -> Int]
           /\ obj' \in [Objects -> {"free", "held", "owned", "dead", "lost"}]
<1>v. /\ impl \in [Handles -> Memories \cup {None}] /\ shm \in [Held -> Memories \cup {None}]
      /\ target \in [Uniques -> Objects \cup {None}] /\ bind \in [Memories -> Int]
      /\ obj \in [Objects -> {"free", "held", "owned", "dead", "lost"}]
  BY DEF Types
<1>c. ASSUME NEW m, NEW n \in Int PROVE Counted(m, n) \in [Memories -> Int]
  <2>1. CASE m = None
    BY <1>v, <2>1 DEF Counted
  <2>2. CASE m # None /\ m \in Memories
    <3>1. bind[m] + n \in Int
      BY <1>v, <2>2
    <3>. QED  BY <1>v, <2>2, <3>1 DEF Counted
  <2>3. CASE m # None /\ m \notin Memories
    <3>1. [bind EXCEPT ![m] = bind[m] + n] = bind
      BY <1>v, <2>3
    <3>. QED  BY <1>v, <2>3, <3>1 DEF Counted
  <2>. QED  BY <2>1, <2>2, <2>3
<1>1. ASSUME NEW m PROVE Counted(m, 1) \in [Memories -> Int] /\ Counted(m, -1) \in [Memories -> Int]
  BY <1>c
<1>2. CASE DoBind(p) \/ DoAttach(p) \/ DoUnbind(p) \/ DoDrop(p)
  <2>1. /\ bind' \in [Memories -> Int] /\ shm' = shm /\ target' = target /\ obj' = obj
    BY <1>1, <1>2 DEF DoBind, DoAttach, DoUnbind, DoDrop, memVars, objVars
  <2>2. impl' = [h \in Handles |-> impl'[h]]
    BY <1>2, <1>v DEF DoBind, DoAttach, DoUnbind, DoDrop
  <2>. QED  BY <1>v, <2>1, <2>2
<1>3. CASE DoStore(p)
  <2>1. bind' = bind /\ shm' = shm /\ target' = target /\ obj' = obj
    BY <1>3 DEF DoStore, memVars, objVars
  <2>2. impl' = [h \in Handles |-> impl'[h]]
    BY <1>3, <1>v DEF DoStore, Taken, Swapped
  <2>. QED  BY <1>v, <2>1, <2>2
<1>4. CASE DoCreate(p)
  <2>1. /\ bind' = [bind EXCEPT ![Src(p)] = 1] /\ shm' = shm
        /\ impl' = [h \in Handles |-> IF h = Dst(p) THEN Src(p)
                                      ELSE IF Home[h] = Src(p) THEN None ELSE impl[h]]
        /\ target' = [u \in Uniques |-> IF Home[u] = Src(p) THEN None ELSE target[u]]
        /\ obj' = [o \in Objects |-> IF HeapOf[o] = Src(p) THEN "free" ELSE obj[o]]
    BY <1>4 DEF DoCreate
  <2>2. impl' = [h \in Handles |-> impl'[h]] /\ target' = [u \in Uniques |-> target'[u]]
    BY <2>1
  <2>3. obj' \in [Objects -> {"free", "held", "owned", "dead", "lost"}]
    BY <1>v, <2>1
  <2>4. bind' \in [Memories -> Int]
    <3>1. PICK b, m : b = bind /\ m = Src(p)
      OBVIOUS
    <3>2. b \in [Memories -> Int] => [b EXCEPT ![m] = 1] \in [Memories -> Int]
      <4>1. CASE m \in Memories
        BY <4>1
      <4>2. ASSUME m \notin Memories, b \in [Memories -> Int]
            PROVE  [b EXCEPT ![m] = 1] = b
        BY <4>2
      <4>. QED  BY <4>1, <4>2
    <3>. QED  BY ONLY <1>v, <2>1, <3>1, <3>2
  <2>. QED  BY <1>v, <2>1, <2>2, <2>3, <2>4
<1>5. CASE DoReady(p) \/ DoNew(p) \/ DoNewFails(p) \/ DoDelete(p)
  <2>1. bind' = bind /\ shm' = shm /\ target' = target /\ impl' = impl
    BY <1>5 DEF DoReady, DoNew, DoNewFails, DoDelete, handleVars, memVars, objVars
  <2>2. obj' \in [Objects -> {"free", "held", "owned", "dead", "lost"}]
    BY <1>5, <1>v DEF DoReady, DoNew, DoNewFails, DoDelete, objVars
  <2>. QED  BY <1>v, <2>1, <2>2
<1>6. CASE DoMapping(p)
  <2>1. bind' = bind /\ target' = target /\ obj' = obj
    BY <1>6 DEF DoMapping, objVars
  <2>2. impl' = [h \in Handles |-> impl'[h]]
    BY <1>6, <1>v DEF DoMapping, Taken, Swapped
  <2>3. shm' = [x \in Held |-> shm'[x]]
    BY <1>6, <1>v DEF DoMapping, Taken, Swapped
  <2>. QED  BY <1>v, <2>1, <2>2, <2>3
<1>7. CASE DoTarget(p)
  <2>1. bind' = bind /\ shm' = shm /\ impl' = impl
    BY <1>7 DEF DoTarget, handleVars, memVars
  <2>2. target' = [h \in Uniques |-> target'[h]]
    BY <1>7, <1>v DEF DoTarget, Taken, Swapped
  <2>3. obj' \in [Objects -> {"free", "held", "owned", "dead", "lost"}]
    BY <1>7, <1>v DEF DoTarget
  <2>. QED  BY <1>v, <2>1, <2>2, <2>3
<1>. QED  BY <1>2, <1>3, <1>4, <1>5, <1>6, <1>7 DEF StepOf

LEMMA DestructSteps ==
    ASSUME NEW d \in Handles
    PROVE  Destruct(d) \in Seq(Steps) /\ Destruct(d) # <<>> /\ Ops(Destruct(d)) = {d}
<1>1. PICK x : x = Step("drop", d, d)
  OBVIOUS
<1>2. PICK y : y = Step("unbind", d, d)
  OBVIOUS
<1>3. PICK z : z = Step("clear", d, d)
  OBVIOUS
<1>4. d \in Things /\ {"drop", "unbind", "clear"} \subseteq StepNames
  BY HandlesAreThings DEF StepNames
<1>5. /\ x \in Steps /\ x[2] = d /\ x[3] = d /\ y \in Steps /\ y[2] = d /\ y[3] = d
      /\ z \in Steps /\ z[2] = d /\ z[3] = d
  BY <1>1, <1>2, <1>3, <1>4, StepFields
<1>6. Destruct(d) = <<x>> \/ Destruct(d) = <<y, z>>
  BY <1>1, <1>2, <1>3 DEF Destruct, Unbind, Clear
<1>7. <<x>> \in Seq(Steps) /\ <<x>> # <<>> /\ Ops(<<x>>) = {d}
  BY <1>5 DEF Ops
<1>8. <<y, z>> \in Seq(Steps) /\ <<y, z>> # <<>> /\ Ops(<<y, z>>) = {d}
  BY <1>5 DEF Ops
<1>. QED  BY <1>6, <1>7, <1>8

LEMMA StepTypes ==
    ASSUME Core, NEW p \in Procs, StepOf(p), NEW s, NEW r, NEW t, Doing(p, s, r, t)
    PROVE  Types'
<1>t. Types
  BY DEF Core
<1>1. /\ impl' = [h \in Handles |-> impl'[h]] /\ shm' = [x \in Held |-> shm'[x]]
      /\ target' = [u \in Uniques |-> target'[u]] /\ bind' \in [Memories -> Int]
      /\ obj' \in [Objects -> {"free", "held", "owned", "dead", "lost"}]
  BY <1>t, StepShapes
<1>2. Touches(p) /\ Dst(p) \in Ops(todo[p]) /\ Src(p) \in Ops(todo[p])
  BY StepTouches, StepHasHead
<1>v. /\ r.impl \in [Handles -> Memories \cup {None}] /\ impl \in [Handles -> Memories \cup {None}]
      /\ r.shm \in [Held -> Memories \cup {None}] /\ shm \in [Held -> Memories \cup {None}]
      /\ r.target \in [Uniques -> Objects \cup {None}]
      /\ target \in [Uniques -> Objects \cup {None}]
  BY ViewFields DEF Types, Core, Doing
<1>u. Uniques \subseteq Handles
  BY DEF Handles
<1>3. /\ ready' \subseteq Memories /\ alive' \subseteq Procs /\ tainted' \subseteq Memories
  BY <1>2, CreatorIsAlone DEF Touches, Core, Types
<1>4. todo' \in [Procs -> Seq(Steps)]
  <2>1. todo[p] \in Seq(Steps) /\ todo[p] # <<>> /\ todo \in [Procs -> Seq(Steps)]
    BY StepHasHead DEF Core, Types
  <2>2. Tail(todo[p]) \in Seq(Steps)
    BY <2>1, OpsHeadTail
  <2>3. DoNewFails(p) => Destruct(Dst(p)) \in Seq(Steps)
    BY NewFailsIs, DestructSteps DEF NewIn
  <2>. QED  BY <2>1, <2>2, <2>3, StepTodo
<1>5. CASE DoNewFails(p)
  BY <1>1, <1>3, <1>4, <1>5, <1>t, NewFailsIs DEF Types
<1>6. CASE ~DoNewFails(p)
  <2>1. Effect(p, r)
    BY <1>6, StepEffect
  <2>2. ASSUME NEW h \in Handles
        PROVE  impl'[h] \in Memories \cup {None} /\ (h \in Uniques => target'[h] \in Objects \cup {None})
    <3>1. CASE Home[h] = p \/ h \in Ops(todo[p])
      BY <1>v, <2>1, <3>1 DEF Effect
    <3>2. CASE Kept(h)
      BY <1>v, <3>2 DEF Kept
    <3>3. CASE At(p, "create") /\ Home[h] = Src(p)
      <4>1. DoCreate(p)
        BY <3>3 DEF StepOf, At, DoBind, DoAttach, DoUnbind, DoDrop, DoStore, DoReady, DoMapping,
                    DoNew, DoNewFails, DoTarget, DoDelete
      <4>2. Src(p) \in Memories
        BY <3>3, CreatorIsAlone
      <4>. QED  BY <1>u, <3>3, <4>1, <4>2 DEF DoCreate
    <3>. QED  BY <1>2, <3>1, <3>2, <3>3 DEF Touches
  <2>3. ASSUME NEW x \in Held
        PROVE  shm'[x] \in Memories \cup {None}
    BY <1>2, <1>v, <2>1 DEF Touches, Effect
  <2>. QED  BY <1>1, <1>3, <1>4, <1>u, <2>2, <2>3 DEF Types
<1>. QED  BY <1>5, <1>6

LEMMA MovesFresh ==
    ASSUME NEW p, NEW x, NEW s, NEW t, Moves(p, x, s, t)
    PROVE  t.fresh = s.fresh \/ t.fresh = {}
BY DEF Moves, BindIn, TakeIn, AttachIn, CreateIn, UnbindIn, DropIn, ClearIn, SwapIn, ReadyIn, TakeAllIn,
       SwapAllIn, UnmapIn, NewIn, OwnIn, MoveTargetIn, SwapTargetIn, ReleaseIn, DestroyIn,
       FreeIn, ForgetIn, Becomes

LEMMA OverEnds ==
    ASSUME NEW p, NEW x, NEW s, NEW t, Moves(p, x, s, t)
    PROVE  s.tag # "over"
BY DEF Moves, BindIn, TakeIn, AttachIn, CreateIn, UnbindIn, DropIn, ClearIn, SwapIn, ReadyIn, TakeAllIn,
       SwapAllIn, UnmapIn, NewIn, OwnIn, MoveTargetIn, SwapTargetIn, ReleaseIn, DestroyIn,
       FreeIn, ForgetIn, Becomes, Clean, Tagged, Free

(* As long as there is more to do, the mappings stay. *)
LEMMA MapsUntilOver ==
    ASSUME Core, NEW p \in Procs, StepOf(p), ~DoNewFails(p), Tail(todo[p]) # <<>>,
           NEW s, NEW r, NEW t, Doing(p, s, r, t)
    PROVE  Mapped(p)' = Mapped(p)
<1>1. Head(todo[p])[1] # "unmap"
  <2>. SUFFICES ASSUME Head(todo[p])[1] = "unmap" PROVE FALSE
    OBVIOUS
  <2>1. UnmapIn(p, Head(todo[p])[2], s, r)
    BY MovesIs DEF Doing
  <2>2. r.tag = "over"
    BY <2>1 DEF UnmapIn
  <2>3. Tail(todo[p]) \in Seq(Steps)
    BY StepHasHead, OpsHeadTail
  <2>4. \E k \in Views : Moves(p, Head(Tail(todo[p])), r, k)
    BY <2>3, RunsHead DEF Doing
  <2>. QED  BY <2>2, <2>4, OverEnds
<1>2. MapsIn(p, r) = MapsIn(p, s)
  BY <1>1, MovesMaps DEF Doing
<1>3. Effect(p, r)
  BY StepEffect
<1>. QED  BY <1>2, <1>3, SeenMaps, SeenMapsNext DEF Doing, Sees, Effect

(* What the process knows to be tainted still is. *)
LEMMA StepTaint ==
    ASSUME Core, NEW p \in Procs, StepOf(p), NEW s, NEW r, NEW t, Doing(p, s, r, t)
    PROVE  r.taint = s.taint /\ s.taint \cap Mapped(p) \subseteq tainted'
<1>1. r.taint = s.taint
  BY MovesTaint DEF Doing
<1>2. s.taint \cap Mapped(p) \subseteq tainted
  BY DEF Doing, Sees
<1>3. At(p, "create") => Src(p) \notin s.taint
  <2>. SUFFICES ASSUME At(p, "create") PROVE Src(p) \notin s.taint
    OBVIOUS
  <2>1. CreateIn(p, Dst(p), Src(p), s, r)
    BY MovesIs DEF At, Dst, Src, Doing
  <2>. QED  BY <2>1 DEF CreateIn
<1>4. Touches(p)
  BY StepTouches
<1>. QED  BY <1>1, <1>2, <1>3, <1>4 DEF Touches

LEMMA StepRuns ==
    ASSUME Core, NEW p \in Procs, StepOf(p), ~DoNewFails(p),
           NEW s, NEW r, NEW t, Doing(p, s, r, t)
    PROVE  Running(p)'
<1>w. PICK w : w = Tail(todo[p])
  OBVIOUS
<1>1. /\ todo[p] # <<>> /\ todo[p] \in Seq(Steps) /\ p \in alive
      /\ w \in Seq(Steps) /\ Ops(w) \subseteq Ops(todo[p])
  BY <1>w, StepHasHead, OpsHeadTail
<1>2. todo'[p] = w
  BY <1>w, StepTodo DEF Core, Types
<1>. SUFFICES ASSUME w # <<>>
              PROVE  /\ p \in alive' /\ Going(p, w)'
                     /\ \A v \in Ops(w) \cap Handles : Reachable(p, v)'
  BY <1>2 DEF Running
<1>3. Mapped(p)' = Mapped(p)
  BY <1>w, MapsUntilOver
<1>4. Effect(p, r) /\ Touches(p) /\ OnlyBy(p)
  BY StepEffect, StepTouches, StepOnlyBy
<1>5. p \in alive'
  BY <1>1, <1>4 DEF Touches
<1>6. \A v \in Ops(w) \cap Handles : Reachable(p, v)'
  BY <1>1, <1>3, OpsReachable DEF Reachable
<1>7. r.taint \cap Mapped(p)' \subseteq tainted'
  BY <1>3, StepTaint
<1>8. ASSUME NEW m \in r.fresh
      PROVE  m \notin ready' /\ UsersOf(m)' = {p}
  <2>1. m \in s.fresh /\ r.fresh # {}
    BY <1>8, MovesFresh DEF Doing
  <2>2. m \notin ready /\ UsersOf(m) = {p}
    BY <2>1 DEF Doing, Sees
  <2>3. ~At(p, "ready")
    <3>. SUFFICES ASSUME At(p, "ready") PROVE FALSE
      OBVIOUS
    <3>1. ReadyIn(Dst(p), Src(p), s, r)
      BY MovesIs DEF At, Dst, Src, Doing
    <3>. QED  BY <2>1, <3>1 DEF ReadyIn
  <2>4. ready' = ready
    BY <1>4, <2>3 DEF Touches
  <2>5. \A q \in Procs : Mapped(q)' = Mapped(q)
    BY <1>3, <1>4, OthersMapped
  <2>. QED  BY <2>2, <2>4, <2>5 DEF UsersOf
<1>9. Sees(p, r, w)'
  BY <1>1, <1>4, <1>7, <1>8 DEF Effect, Sees
<1>10. Going(p, w)'
  BY <1>9, <1>w DEF Going, Doing
<1>. QED  BY <1>5, <1>6, <1>10

LEMMA FailRuns ==
    ASSUME Core, NEW p \in Procs, StepOf(p), DoNewFails(p),
           NEW s, NEW r, NEW t, Doing(p, s, r, t)
    PROVE  Running(p)'
<1>a. PICK a : a = Dst(p)
  OBVIOUS
<1>w. PICK w : w = Destruct(a)
  OBVIOUS
<1>1. NewIn(p, a, Src(p), s, r) /\ impl' = impl /\ shm' = shm /\ target' = target
      /\ ready' = ready /\ tainted' = tainted /\ alive' = alive
  BY <1>a, NewFailsIs
<1>2. /\ a \in Handles /\ Home[a] = p /\ Clean(s) /\ s.fresh = {}
      /\ \A v \in Handles \ {a} : Idle(s, v)
      /\ a \in Temps => s.shm[a] = None
      /\ a \notin Uniques
  BY <1>1 DEF NewIn
<1>3. todo'[p] = w /\ w # <<>> /\ Ops(w) = {a} /\ p \in alive
  BY <1>2, <1>a, <1>w, StepTodo, StepHasHead, DestructSteps DEF Core, Types
<1>4. PICK k \in Views : Does(p, {a}, w, s, k) /\ SetIn(s, k, a, None)
  BY <1>2, <1>w, DestructDoes DEF Doing, Within
<1>5. OnlyIn(s, k, {a}) /\ k.impl[a] = None
  BY <1>2, <1>4, DroppedOnly DEF Doing
<1>6. Rest(k)
  <2>1. ASSUME NEW v \in Handles, v # a PROVE Idle(k, v)
    <3>1. SameAt(s, k, v)
      BY <1>5, <2>1, OnlySame
    <3>2. k.taint = s.taint
      BY <1>5 DEF OnlyIn
    <3>. QED  BY <1>2, <2>1, <3>1, <3>2, SameIdle
  <2>2. Idle(k, a)
    BY <1>2, <1>5 DEF Idle, OnlyIn
  <2>. QED  BY <1>2, <1>5, <2>1, <2>2 DEF Rest, OnlyIn, Clean
<1>7. Mapped(p)' = Mapped(p)
  BY <1>1 DEF Mapped
<1>8. Sees(p, s, w)'
  BY <1>1, <1>2, <1>3, <1>7 DEF Sees, Doing
<1>9. Going(p, w)'
  BY <1>4, <1>6, <1>8 DEF Going, Doing, Does
<1>. QED  BY <1>1, <1>2, <1>3, <1>9 DEF Running, Reachable

LEMMA StepApart ==
    ASSUME Core, NEW p \in Procs, StepOf(p), NEW s, NEW r, NEW t, Doing(p, s, r, t)
    PROVE  Ops(todo'[p]) \cap Handles \subseteq Ops(todo[p]) /\ Apart'
<1>1. Ops(todo'[p]) \cap Handles \subseteq Ops(todo[p])
  <2>1. CASE DoNewFails(p)
    <3>1. todo'[p] = Destruct(Dst(p)) /\ Dst(p) \in Handles /\ Dst(p) \in Ops(todo[p])
      BY <2>1, StepTodo, StepHasHead, NewFailsIs DEF Core, Types, NewIn
    <3>. QED  BY <3>1, DestructSteps
  <2>2. CASE ~DoNewFails(p)
    <3>1. todo'[p] = Tail(todo[p])
      BY <2>2, StepTodo DEF Core, Types
    <3>2. todo[p] \in Seq(Steps) /\ todo[p] # <<>>
      BY StepHasHead
    <3>. QED  BY <3>1, <3>2, OpsHeadTail
  <2>. QED  BY <2>1, <2>2
<1>2. \A q \in Procs \ {p} : todo'[q] = todo[q]
  BY StepOnlyBy DEF OnlyBy
<1>. QED  BY <1>1, <1>2 DEF Core, Apart

LEMMA StepInPlace ==
    ASSUME Core, NEW p \in Procs, StepOf(p), NEW s, NEW r, NEW t, Doing(p, s, r, t)
    PROVE  InPlace'
<1>1. CASE DoNewFails(p)
  <2>1. Now' = Now
    BY <1>1, NewFailsIs DEF Now
  <2>. QED  BY <2>1 DEF Core, InPlace, Placed, HandlePlaced, TargetPlaced, MapsIn
<1>2. CASE ~DoNewFails(p)
  <2>e. Effect(p, r) /\ OnlyBy(p) /\ Touches(p) /\ Placed(p, r)
    BY <1>2, StepEffect, StepOnlyBy, StepTouches DEF Doing
  <2>m. \A q \in Procs : MapsIn(q, Now') = Mapped(q)' /\ MapsIn(q, Now) = Mapped(q)
    BY MappedNow DEF Mapped, MapsIn, Now, Held
  <2>r. MapsIn(p, r) = Mapped(p)'
    BY <2>e, SeenMapsNext DEF Effect
  <2>n. \A h \in Handles : Now'.impl[h] = impl'[h] /\ Now.impl[h] = impl[h]
    BY DEF Now
  <2>t. \A h \in Uniques : Now'.target[h] = target'[h] /\ Now.target[h] = target[h]
    BY DEF Now
  <2>u. Uniques \subseteq Handles
    BY DEF Handles
  <2>c. ASSUME At(p, "create"), NEW h \in Handles, Home[h] = Src(p), h # Dst(p)
        PROVE  impl'[h] = None /\ (h \in Uniques => target'[h] = None)
    <3>1. DoCreate(p)
      BY <2>c DEF StepOf, At, DoBind, DoAttach, DoUnbind, DoDrop, DoStore, DoReady, DoMapping,
                  DoNew, DoNewFails, DoTarget, DoDelete
    <3>. QED  BY <2>c, <3>1 DEF DoCreate
  <2>1. ASSUME NEW h \in Handles
        PROVE  /\ Fits(h, impl'[h])
               /\ h \in Uniques /\ target'[h] # None => Fits(h, HeapOf[target'[h]])
    <3>1. CASE Home[h] = p \/ h \in Ops(todo[p])
      BY <2>e, <3>1 DEF Effect, Placed, HandlePlaced, TargetPlaced
    <3>2. CASE Kept(h)
      BY <2>n, <2>t, <3>2 DEF Kept, Core, InPlace, Placed, HandlePlaced, TargetPlaced
    <3>3. CASE At(p, "create") /\ Home[h] = Src(p) /\ h \notin Ops(todo[p])
      BY <2>c, <3>3, StepHasHead DEF Fits
    <3>. QED  BY <2>e, <3>1, <3>2, <3>3, StepHasHead DEF Touches
  <2>2. ASSUME NEW q \in Procs, q # p, NEW h \in Handles, Home[h] = q
        PROVE  Kept(h)
    <3>1. h \notin Ops(todo[p])
      BY <2>2, OwnUnused
    <3>. QED  BY <2>2, <2>e, <3>1, KindsAssumption DEF OnlyBy
  <2>3. \A q \in Procs \ {p} : Mapped(q)' = Mapped(q)
    BY <2>e, OthersMapped
  <2>4. ASSUME NEW q \in Procs, NEW h \in Handles, Home[h] = q
        PROVE  /\ impl'[h] \in Mapped(q)' \cup {None}
               /\ h \in Uniques /\ target'[h] # None => HeapOf[target'[h]] \in Mapped(q)'
    <3>1. CASE q = p
      BY <2>4, <2>e, <2>r, <3>1 DEF Effect, Placed, HandlePlaced, TargetPlaced
    <3>2. CASE q # p
      <4>1. Kept(h) /\ Mapped(q)' = Mapped(q)
        BY <2>2, <2>3, <2>4, <3>2
      <4>2. HandlePlaced(q, Now, h) /\ (h \in Uniques => TargetPlaced(q, Now, h))
        BY DEF Core, InPlace, Placed
      <4>. QED  BY <2>4, <2>m, <2>n, <2>t, <4>1, <4>2 DEF Kept, HandlePlaced, TargetPlaced
    <3>. QED  BY <3>1, <3>2
  <2>5. ASSUME NEW q \in Procs PROVE Placed(q, Now')
    <3>1. ASSUME NEW h \in Handles PROVE HandlePlaced(q, Now', h)
      BY <2>1, <2>4, <2>m, <2>n DEF HandlePlaced
    <3>2. ASSUME NEW h \in Uniques PROVE TargetPlaced(q, Now', h)
      BY <2>1, <2>4, <2>m, <2>t, <2>u DEF TargetPlaced
    <3>. QED  BY <3>1, <3>2 DEF Placed
  <2>6. \A q \in Procs : Placed(q, Now)' <=> Placed(q, Now')
    BY DEF Placed, HandlePlaced, TargetPlaced, MapsIn
  <2>. QED  BY <2>5, <2>6 DEF InPlace
<1>. QED  BY <1>1, <1>2

(* A variable that the process is done with is at rest. *)
LEMMA LastUse ==
    ASSUME Core, NEW p \in Procs, StepOf(p), NEW s, NEW r, NEW t, Doing(p, s, r, t),
           NEW v \in Handles, v \in Ops(todo[p]), v \notin Ops(todo'[p])
    PROVE  Idle(Now', v)
<1>1. /\ todo[p] \in Seq(Steps) /\ todo[p] # <<>> /\ r \in Views
  BY StepHasHead DEF Doing
<1>2. Reachable(p, v)
  BY OpsReachable
<1>3. r.taint = s.taint /\ s.taint \cap Mapped(p) \subseteq tainted'
  BY StepTaint
<1>4. /\ Idle(r, v) /\ r.impl[v] = impl'[v] /\ (v \in Uniques => r.target[v] = target'[v])
      /\ v \in Held /\ Home[v] = p => r.shm[v] = shm'[v]
  <2>1. CASE DoNewFails(p)
    <3>1. /\ NewIn(p, Dst(p), Src(p), s, r) /\ impl' = impl /\ shm' = shm /\ target' = target
          /\ todo'[p] = Destruct(Dst(p))
      BY <2>1, StepTodo, NewFailsIs DEF Core, Types
    <3>2. r = s /\ s.tag # "new" /\ Dst(p) \in Handles /\ \A x \in Handles \ {Dst(p)} : Idle(s, x)
      BY <3>1 DEF NewIn, Clean
    <3>3. v # Dst(p)
      BY <3>1, <3>2, DestructSteps
    <3>4. Agrees(p, s)
      BY <3>2, AgreesUnlessNew
    <3>. QED  BY <3>1, <3>2, <3>3, <3>4 DEF Agrees
  <2>2. CASE ~DoNewFails(p)
    <3>1. todo'[p] = Tail(todo[p]) /\ Tail(todo[p]) \in Seq(Steps)
      BY <1>1, <2>2, StepTodo, OpsHeadTail DEF Core, Types
    <3>2. Runs(p, Tail(todo[p]), r, t) /\ Rest(t)
      BY DEF Doing
    <3>3. t.taint = r.taint /\ SameAt(r, t, v)
      <4>1. PICK w \in Seq(Steps) : w = todo'[p]
        BY <3>1
      <4>2. Runs(p, w, r, t) /\ v \in Handles \ Ops(w)
        BY <3>1, <3>2, <4>1
      <4>. QED  BY <4>2, RunsKeeps
    <3>4. Idle(r, v)
      BY <3>2, <3>3, IdleSame DEF Rest
    <3>5. Effect(p, r)
      BY <2>2, StepEffect
    <3>. QED  BY <3>4, <3>5 DEF Effect
  <2>. QED  BY <2>1, <2>2
<1>5. v \in Temps => Home[v] = p /\ v \in Held
  <2>1. v \in Temps => Home[v] \in Procs
    BY HomesAssumption
  <2>. QED  BY <1>2, <2>1, MappedMemories, KindsAssumption DEF Reachable, Core, Held
<1>6. v \in Uniques => Right(Now', v)
  <2>. SUFFICES ASSUME v \in Uniques, target'[v] # None, HeapOf[target'[v]] # impl'[v]
                PROVE  HeapOf[target'[v]] = Home[v] /\ Home[v] \in tainted'
    BY DEF Right, Wreck, Now
  <2>1. Wreck(r, v)
    BY <1>4 DEF Idle, Right
  <2>2. HeapOf[target'[v]] = Home[v] /\ Home[v] \in s.taint
    BY <1>3, <1>4, <2>1 DEF Wreck
  <2>3. Home[v] \in Memories
    BY <1>1, <1>3, <2>2, ViewFields
  <2>. QED  BY <1>2, <1>3, <2>2, <2>3, KindsAssumption DEF Reachable
<1>. QED  BY <1>4, <1>5, <1>6 DEF Idle, Now

(* A variable that nobody works on stays as it is. *)
LEMMA Unused ==
    ASSUME Core, NEW p \in Procs, StepOf(p), NEW s, NEW r, NEW t, Doing(p, s, r, t),
           NEW v \in Handles, v \notin Ops(todo[p]), Idle(Now, v)
    PROVE  Idle(Now', v)
<1>1. Touches(p) /\ v # Dst(p) /\ v # Src(p)
  BY StepTouches, StepHasHead
<1>2. v \in Temps => Home[v] \in Procs /\ v \in Held
  BY HomesAssumption DEF Held
<1>3. v \in Temps => shm'[v] = shm[v]
  <2>. SUFFICES ASSUME v \in Temps PROVE shm'[v] = shm[v]
    OBVIOUS
  <2>1. CASE Home[v] # p
    BY <1>1, <1>2, <2>1 DEF Touches
  <2>2. CASE Home[v] = p /\ DoNewFails(p)
    BY <2>2, NewFailsIs
  <2>3. CASE Home[v] = p /\ ~DoNewFails(p)
    <3>1. r.shm[v] = shm'[v]
      BY <1>2, <2>3, StepEffect DEF Effect
    <3>2. SameAt(s, r, v)
      BY <1>1, MovesKeeps DEF Doing, Dst, Src
    <3>. QED  BY <1>2, <2>3, <3>1, <3>2 DEF SameAt, Doing, Sees
  <2>. QED  BY <2>1, <2>2, <2>3
<1>4. CASE At(p, "create") /\ Home[v] = Src(p)
  <2>1. DoCreate(p)
    BY <1>4 DEF StepOf, At, DoBind, DoAttach, DoUnbind, DoDrop, DoStore, DoReady, DoMapping,
                DoNew, DoNewFails, DoTarget, DoDelete
  <2>2. impl'[v] = None /\ (v \in Uniques => target'[v] = None)
    BY <1>1, <1>4, <2>1 DEF DoCreate
  <2>. QED  BY <1>3, <2>2 DEF Idle, Now, Right
<1>5. CASE Kept(v) /\ ~(At(p, "create") /\ Home[v] = Src(p))
  <2>1. Home[v] \in tainted => Home[v] \in tainted'
    BY <1>1, <1>5 DEF Touches
  <2>. QED  BY <1>3, <1>5, <2>1 DEF Idle, Now, Right, Wreck, Kept
<1>. QED  BY <1>1, <1>4, <1>5 DEF Touches

LEMMA StepResting ==
    ASSUME Core, NEW p \in Procs, StepOf(p), NEW s, NEW r, NEW t, Doing(p, s, r, t)
    PROVE  Resting'
<1>1. ASSUME NEW v \in Handles, \A q \in Procs : v \notin Ops(todo'[q])
      PROVE  Idle(Now', v)
  <2>1. \A q \in Procs \ {p} : todo'[q] = todo[q]
    BY StepOnlyBy DEF OnlyBy
  <2>2. CASE v \in Ops(todo[p])
    BY <1>1, <2>2, LastUse
  <2>3. CASE v \notin Ops(todo[p])
    <3>1. ~InUse(v)
      BY <1>1, <2>1, <2>3, InUseOps
    <3>. QED  BY <2>3, <3>1, Unused DEF Core, Resting
  <2>. QED  BY <2>2, <2>3
<1>2. \A v : InUse(v)' <=> \E q \in Procs : v \in Ops(todo'[q])
  BY DEF InUse, Ops
<1>3. \A v : Idle(Now, v)' <=> Idle(Now', v)
  BY DEF Idle, Right, Wreck
<1>. QED  BY <1>1, <1>2, <1>3 DEF Resting

LEMMA StepKept ==
    ASSUME Core, NEW p \in Procs, StepOf(p)
    PROVE  Core'
<1>1. PICK s, r, t : Doing(p, s, r, t)
  BY StepHasHead, StepDoes
<1>2. Types' /\ InPlace' /\ Apart' /\ Resting' /\ OnlyBy(p)
  BY <1>1, StepTypes, StepInPlace, StepApart, StepResting, StepOnlyBy
<1>3. Running(p)'
  BY <1>1, StepRuns, FailRuns
<1>4. ASSUME NEW q \in Procs PROVE Running(q)'
  BY <1>2, <1>3, OthersRun
<1>. QED  BY <1>2, <1>4 DEF Core

-----------------------------------------------------------------------------
(* What the next step of a call overwrites; the first step of a call finds *)
(* it empty.                                                               *)

Overwrites(w) ==
    IF w # <<>> /\ Head(w)[1] \in {"bind", "take", "clear"} THEN {Head(w)[2]} ELSE {}
(* The pointers that the next step forgets, and whose objects it frees. *)
Forgets(w) == IF w # <<>> /\ Head(w)[1] = "forget" THEN {Head(w)[2]} ELSE {}
Frees(w) == IF w # <<>> /\ Head(w)[1] = "free" THEN {Head(w)[2]} ELSE {}
Begun(p) ==
    /\ Core
    /\ \A h \in Handles : h \in Overwrites(todo[p]) => impl[h] = None
    /\ Forgets(todo[p]) = {} /\ Frees(todo[p]) = {}

LEMMA OverwritesOps ==
    ASSUME NEW w \in Seq(Steps)
    PROVE  Overwrites(w) \subseteq Ops(w)
BY OpsHeadTail DEF Overwrites

LEMMA MovesStale ==
    ASSUME NEW p, NEW x, NEW s, NEW t, Moves(p, x, s, t)
    PROVE  /\ x[1] \in {"bind", "take", "clear"} => Free(s, x[2])
           /\ s.tag = "stale" => x[1] \in {"bind", "take", "clear"} /\ Free(s, x[2])
BY DEF Moves, BindIn, TakeIn, AttachIn, CreateIn, UnbindIn, DropIn, ClearIn, SwapIn, ReadyIn, TakeAllIn,
       SwapAllIn, UnmapIn, NewIn, OwnIn, MoveTargetIn, SwapTargetIn, ReleaseIn, DestroyIn,
       FreeIn, ForgetIn, Becomes, Clean, Tagged, Free

LEMMA RunsStale ==
    ASSUME NEW p, NEW w \in Seq(Steps), NEW s, NEW t, Runs(p, w, s, t), Rest(t), NEW h
    PROVE  /\ h \in Overwrites(w) => s.tag # "new" /\ (s.impl[h] = None \/ Tagged(s, "stale", h))
           /\ Tagged(s, "stale", h) => h \in Overwrites(w)
<1>1. CASE w = <<>>
  <2>1. s = t
    BY <1>1, RunsEnd
  <2>. QED  BY <1>1, <2>1 DEF Overwrites, Rest, Tagged
<1>2. CASE w # <<>>
  <2>1. PICK x : x = Head(w)
    OBVIOUS
  <2>2. PICK r : Moves(p, x, s, r)
    BY <1>2, <2>1, RunsHead
  <2>3. /\ x[1] \in {"bind", "take", "clear"} => Free(s, x[2])
        /\ s.tag = "stale" => x[1] \in {"bind", "take", "clear"} /\ Free(s, x[2])
    BY <2>2, MovesStale
  <2>4. Overwrites(w) = IF x[1] \in {"bind", "take", "clear"} THEN {x[2]} ELSE {}
    BY <1>2, <2>1 DEF Overwrites
  <2>. QED  BY <2>3, <2>4 DEF Free, Tagged, Clean
<1>. QED  BY <1>1, <1>2

LEMMA MovesFreed ==
    ASSUME NEW p, NEW x, NEW s, NEW t, Moves(p, x, s, t)
    PROVE  /\ x[1] = "forget" <=> s.tag = "freed"
           /\ x[1] = "free" <=> s.tag = "dying"
           /\ s.tag \in {"freed", "dying"} => x[2] = s.who
BY DEF Moves, BindIn, TakeIn, AttachIn, CreateIn, UnbindIn, DropIn, ClearIn, SwapIn, ReadyIn, TakeAllIn,
       SwapAllIn, UnmapIn, NewIn, OwnIn, MoveTargetIn, SwapTargetIn, ReleaseIn, DestroyIn,
       FreeIn, ForgetIn, Becomes, Clean, Tagged, Free

LEMMA RunsFreed ==
    ASSUME NEW p, NEW w \in Seq(Steps), NEW s, NEW t, Runs(p, w, s, t), Rest(t), NEW h
    PROVE  /\ h \in Forgets(w) <=> Tagged(s, "freed", h)
           /\ h \in Frees(w) <=> Tagged(s, "dying", h)
<1>1. CASE w = <<>>
  <2>1. s = t
    BY <1>1, RunsEnd
  <2>. QED  BY <1>1, <2>1 DEF Forgets, Frees, Rest, Tagged
<1>2. CASE w # <<>>
  <2>1. PICK x : x = Head(w)
    OBVIOUS
  <2>2. PICK r : Moves(p, x, s, r)
    BY <1>2, <2>1, RunsHead
  <2>3. /\ x[1] = "forget" <=> s.tag = "freed"
        /\ x[1] = "free" <=> s.tag = "dying"
        /\ s.tag \in {"freed", "dying"} => x[2] = s.who
    BY <2>2, MovesFreed
  <2>4. /\ Forgets(w) = IF x[1] = "forget" THEN {x[2]} ELSE {}
        /\ Frees(w) = IF x[1] = "free" THEN {x[2]} ELSE {}
    BY <1>2, <2>1 DEF Forgets, Frees
  <2>. QED  BY <2>3, <2>4 DEF Tagged
<1>. QED  BY <1>1, <1>2

-----------------------------------------------------------------------------
(* The start of a call.  What others are working on is taken for empty.    *)

Starts(p, s) ==
    /\ s \in Views /\ s.taint = tainted
    /\ MapsIn(p, s) = Mapped(p)
    /\ \A v \in Handles : ~InUse(v) =>
           /\ s.impl[v] = impl[v]
           /\ v \in Uniques => s.target[v] = target[v]
           /\ v \in Held => s.shm[v] = shm[v]
    /\ \A v \in Handles : InUse(v) =>
           s.impl[v] = None /\ (v \in Uniques => s.target[v] = None)
Usable(p, v) == v \in Handles /\ Reachable(p, v) /\ ~InUse(v)

LEMMA OwnUsable ==
    ASSUME Core, NEW p \in Procs, todo[p] = <<>>, NEW v \in Handles, Home[v] = p
    PROVE  Usable(p, v)
<1>1. \A q \in Procs : v \notin Ops(todo[q])
  BY OwnUnused, OpsNone
<1>. QED  BY <1>1, InUseOps DEF Usable, Reachable

LEMMA StartView ==
    ASSUME Core, NEW p \in Procs, todo[p] = <<>>
    PROVE  \E s : Starts(p, s) /\ Begins(p, s)
<1>. DEFINE s == [impl |-> [h \in Handles |-> IF InUse(h) THEN None ELSE impl[h]],
                  shm |-> [x \in Held |-> IF InUse(x) THEN None ELSE shm[x]],
                  target |-> [u \in Uniques |-> IF InUse(u) THEN None ELSE target[u]],
                  taint |-> tainted, fresh |-> {}, tag |-> "clean", who |-> None]
<1>t. Types /\ InPlace /\ Resting
  BY DEF Core
<1>0. Uniques \subseteq Handles /\ Held \subseteq Handles
  BY HeldAreHandles DEF Handles
<1>1. s \in Views
  <2>1. /\ [h \in Handles |-> IF InUse(h) THEN None ELSE impl[h]] \in [Handles -> Memories \cup {None}]
        /\ [x \in Held |-> IF InUse(x) THEN None ELSE shm[x]] \in [Held -> Memories \cup {None}]
        /\ [u \in Uniques |-> IF InUse(u) THEN None ELSE target[u]] \in [Uniques -> Objects \cup {None}]
        /\ tainted \in SUBSET Memories
    BY <1>t DEF Types
  <2>. QED  BY <2>1 DEF Views
<1>2. /\ \A h \in Handles : s.impl[h] = IF InUse(h) THEN None ELSE impl[h]
      /\ \A x \in Held : s.shm[x] = IF InUse(x) THEN None ELSE shm[x]
      /\ \A u \in Uniques : s.target[u] = IF InUse(u) THEN None ELSE target[u]
      /\ s.taint = tainted /\ s.fresh = {} /\ s.tag = "clean"
  OBVIOUS
<1>. HIDE DEF s
<1>3. \A x \in Held : Home[x] = p => s.shm[x] = shm[x]
  BY <1>0, <1>2, OwnUsable DEF Usable
<1>4. MapsIn(p, s) = Mapped(p)
  BY <1>3, SeenMaps
<1>5. Starts(p, s)
  BY <1>1, <1>2, <1>4 DEF Starts
<1>6. ASSUME NEW v \in Handles PROVE Idle(s, v)
  <2>1. CASE InUse(v)
    BY <1>2, <2>1 DEF Idle, Right, Held
  <2>2. CASE ~InUse(v)
    <3>1. Idle(Now, v)
      BY <1>t, <2>2 DEF Resting
    <3>2. /\ s.impl[v] = Now.impl[v] /\ (v \in Uniques => s.target[v] = Now.target[v])
          /\ (v \in Held => s.shm[v] = Now.shm[v]) /\ s.taint = Now.taint
      BY <1>2, <2>2 DEF Now
    <3>. QED  BY <3>1, <3>2 DEF Idle, Right, Wreck, Held
  <2>. QED  BY <2>1, <2>2
<1>7. Placed(p, s)
  <2>1. Placed(p, Now) /\ MapsIn(p, Now) = MapsIn(p, s)
    BY <1>4, <1>t, MappedNow DEF InPlace
  <2>2. ASSUME NEW h \in Handles PROVE HandlePlaced(p, s, h)
    BY <1>2, <2>1 DEF Placed, HandlePlaced, Fits, Now
  <2>3. ASSUME NEW u \in Uniques PROVE TargetPlaced(p, s, u)
    BY <1>2, <2>1 DEF Placed, TargetPlaced, Fits, Now
  <2>. QED  BY <2>2, <2>3 DEF Placed
<1>8. Begins(p, s)
  BY <1>2, <1>6, <1>7 DEF Begins, Clean
<1>. QED  BY <1>5, <1>8

(* A process that had nothing to do has steps w to do, and can. *)
LEMMA CallBegins ==
    ASSUME Core, NEW p \in Procs, todo[p] = <<>>, NEW w, todo'[p] = w, p \in alive',
           OnlyBy(p), Types', InPlace', \A v \in Handles : Idle(Now, v) => Idle(Now', v),
           NEW s \in Views, NEW t \in Views,
           Sees(p, s, w)', Placed(p, s), Runs(p, w, s, t), Rest(t),
           s.tag \in {"new", "clean"},
           \A v \in Ops(w) \cap Handles : Reachable(p, v)' /\ ~InUse(v)
    PROVE  Begun(p)'
<1>1. \A q \in Procs \ {p} : todo'[q] = todo[q]
  BY DEF OnlyBy
<1>2. Apart'
  <2>1. ASSUME NEW q \in Procs, NEW v \in Ops(w) \cap Handles
        PROVE  v \notin Ops(todo[q])
    BY InUseOps
  <2>. QED  BY <1>1, <2>1 DEF Core, Apart
<1>3. Resting'
  <2>1. \A v : InUse(v)' <=> \E q \in Procs : v \in Ops(todo'[q])
    BY DEF InUse, Ops
  <2>2. \A v : Idle(Now, v)' <=> Idle(Now', v)
    BY DEF Idle, Right, Wreck
  <2>3. ASSUME NEW v \in Handles, InUse(v) PROVE InUse(v)'
    BY <1>1, <2>1, <2>3, InUseOps, OpsNone
  <2>. QED  BY <2>1, <2>2, <2>3 DEF Core, Resting
<1>4. Running(p)'
  <2>1. Going(p, w)'
    BY DEF Going
  <2>. QED  BY <2>1 DEF Running
<1>5. ASSUME NEW q \in Procs, q # p PROVE Running(q)'
  BY <1>5, OthersRun
<1>6. ASSUME NEW h \in Handles, h \in Overwrites(w) PROVE impl'[h] = None
  <2>1. w \in Seq(Steps)
    BY DEF Types
  <2>2. s.tag # "new" /\ s.impl[h] = None
    BY <1>6, <2>1, RunsStale DEF Tagged
  <2>3. h \in Ops(w)
    BY <1>6, <2>1, OverwritesOps
  <2>. QED  BY <2>2, <2>3 DEF Sees
<1>7. Core'
  BY <1>2, <1>3, <1>4, <1>5 DEF Core
<1>8. /\ Overwrites(todo[p])' = Overwrites(w) /\ Forgets(todo[p])' = Forgets(w)
      /\ Frees(todo[p])' = Frees(w)
  BY DEF Overwrites, Forgets, Frees
<1>9. Forgets(w) = {} /\ Frees(w) = {}
  <2>1. w \in Seq(Steps)
    BY DEF Types
  <2>2. \A h : h \notin Forgets(w) /\ h \notin Frees(w)
    BY <2>1, RunsFreed DEF Tagged
  <2>. QED  BY <2>2
<1>. QED  BY <1>6, <1>7, <1>8, <1>9 DEF Begun

LEMMA CallKept ==
    ASSUME Core, NEW p \in Procs, todo[p] = <<>>, p \in alive, NEW w, Call(p, w),
           NEW V, \A v \in V : Usable(p, v),
           NEW s, Starts(p, s), Begins(p, s), Completes(p, V, w, s)
    PROVE  Begun(p)'
<1>1. PICK t \in Views : Does(p, V, w, s, t) /\ Rest(t)
  BY DEF Completes
<1>2. /\ w \in Seq(Steps) /\ Ops(w) \cap Handles \subseteq V
      /\ s \in Views /\ t \in Views /\ Runs(p, w, s, t)
  BY <1>1 DEF Does
<1>3. /\ todo' = [todo EXCEPT ![p] = w]
      /\ impl' = impl /\ bind' = bind /\ shm' = shm /\ ready' = ready /\ target' = target
      /\ obj' = obj /\ alive' = alive /\ tainted' = tainted
  BY DEF Call
<1>t. Types
  BY DEF Core
<1>4. todo'[p] = w /\ \A q \in Procs \ {p} : todo'[q] = todo[q]
  BY <1>3, <1>t DEF Types
<1>5. Types'
  BY <1>2, <1>3, <1>t DEF Types
<1>6. \A q : Mapped(q)' = Mapped(q)
  BY <1>3 DEF Mapped
<1>7. Now' = Now
  BY <1>3 DEF Now
<1>8. InPlace'
  BY <1>7 DEF Core, InPlace, Placed, HandlePlaced, TargetPlaced, MapsIn
<1>9. OnlyBy(p)
  BY <1>3, <1>4, <1>6 DEF OnlyBy, Kept
<1>10. Sees(p, s, w)'
  <2>1. \A h \in Handles : Home[h] = p \/ h \in Ops(w) => ~InUse(h)
    BY <1>2, OwnUsable DEF Usable
  <2>2. /\ \A x \in Held : Home[x] = p => s.shm[x] = shm'[x]
        /\ \A h \in Handles : Home[h] = p \/ h \in Ops(w) =>
              s.impl[h] = impl'[h] /\ (h \in Uniques => s.target[h] = target'[h])
        /\ s.taint \subseteq tainted'
    BY <1>3, <2>1, HeldAreHandles DEF Starts
  <2>3. s.tag # "new" /\ s.fresh = {}
    BY DEF Begins, Clean
  <2>. QED  BY <2>2, <2>3 DEF Sees
<1>11. \A v \in Ops(w) \cap Handles : Reachable(p, v)' /\ ~InUse(v)
  BY <1>2, <1>6 DEF Usable, Reachable
<1>12. Placed(p, s) /\ s.tag = "clean"
  BY DEF Begins, Clean
<1>. QED  BY <1>1, <1>2, <1>3, <1>4, <1>5, <1>7, <1>8, <1>9, <1>10, <1>11, <1>12, CallBegins

-----------------------------------------------------------------------------
(* The calls.                                                              *)

LEMMA MayUseIs ==
    ASSUME Core, NEW p \in Procs, NEW W, W \subseteq Handles, MayUse(p, W)
    PROVE  todo[p] = <<>> /\ p \in alive /\ \A v \in W : Usable(p, v)
BY DEF MayUse, Usable, Reaches, Reachable

LEMMA UsableIs ==
    ASSUME NEW p \in Procs, NEW s, Starts(p, s), NEW v, Usable(p, v)
    PROVE  /\ v \in Handles /\ Within(p, s, v) /\ s.impl[v] = impl[v]
           /\ v \in Uniques => s.target[v] = target[v]
           /\ v \in Held => s.shm[v] = shm[v]
BY DEF Starts, Usable, Reachable, Within

LEMMA KindsAreHandles ==
    /\ Users \subseteq Handles /\ Mallocs \subseteq Handles /\ Uniques \subseteq Handles
    /\ Mallocs \subseteq Held
BY DEF Handles, Held

LEMMA HoldFits ==
    ASSUME NEW v, NEW m, MayHold(v, m)
    PROVE  Fits(v, m)
BY DEF MayHold, Fits

LEMMA CopyKept ==
    ASSUME Core, NEW p \in Procs, NEW d \in Users, NEW r \in Users \cup Mallocs, CopyHandle(p, d, r)
    PROVE  Begun(p)'
<1>v. PICK V : V = {d, r}
  OBVIOUS
<1>1. V \subseteq Handles /\ MayUse(p, V) /\ d # r /\ MayHold(d, impl[r])
      /\ d \in V /\ r \in V
  BY <1>v, KindsAreHandles DEF CopyHandle
<1>2. todo[p] = <<>> /\ p \in alive /\ \A v \in V : Usable(p, v)
  BY <1>1, MayUseIs
<1>3. PICK s : Starts(p, s) /\ Begins(p, s)
  BY <1>2, StartView
<1>4. s \in Views /\ Within(p, s, d) /\ Within(p, s, r) /\ s.impl[d] = impl[d] /\ s.impl[r] = impl[r]
  BY <1>1, <1>2, <1>3, UsableIs DEF Starts
<1>5. Fits(d, s.impl[r])
  BY <1>1, <1>4, HoldFits
<1>6. PICK old, new : old = impl[d] /\ new = impl[r]
  OBVIOUS
<1>7. Completes(p, V, CopyAssign(d, r, old, new), s)
  BY <1>1, <1>3, <1>4, <1>5, <1>6, CopyCompletes
<1>8. Call(p, CopyAssign(d, r, old, new))
  BY <1>6 DEF CopyHandle
<1>. QED  BY <1>2, <1>3, <1>7, <1>8, CallKept

LEMMA MoveKept ==
    ASSUME Core, NEW p \in Procs, NEW d \in Users, NEW r \in Users, MoveHandle(p, d, r)
    PROVE  Begun(p)'
<1>v. PICK V : V = {d, r}
  OBVIOUS
<1>1. V \subseteq Handles /\ MayUse(p, V) /\ d # r /\ MayHold(d, impl[r])
      /\ d \in V /\ r \in V
  BY <1>v, KindsAreHandles DEF MoveHandle
<1>2. todo[p] = <<>> /\ p \in alive /\ \A v \in V : Usable(p, v)
  BY <1>1, MayUseIs
<1>3. PICK s : Starts(p, s) /\ Begins(p, s)
  BY <1>2, StartView
<1>4. s \in Views /\ Within(p, s, d) /\ Within(p, s, r) /\ s.impl[d] = impl[d] /\ s.impl[r] = impl[r]
  BY <1>1, <1>2, <1>3, UsableIs DEF Starts
<1>5. Fits(d, s.impl[r])
  BY <1>1, <1>4, HoldFits
<1>6. PICK old, new : old = impl[d] /\ new = impl[r]
  OBVIOUS
<1>7. Completes(p, V, MoveAssign(d, r, old, new), s)
  BY <1>1, <1>3, <1>4, <1>5, <1>6, MoveCompletes
<1>8. Call(p, MoveAssign(d, r, old, new))
  BY <1>6 DEF MoveHandle
<1>. QED  BY <1>2, <1>3, <1>7, <1>8, CallKept

LEMMA SwapKept ==
    ASSUME Core, NEW p \in Procs, NEW d \in Users, NEW r \in Users, SwapHandles(p, d, r)
    PROVE  Begun(p)'
<1>v. PICK V : V = {d, r}
  OBVIOUS
<1>1. V \subseteq Handles /\ MayUse(p, V) /\ d # r /\ MayHold(d, impl[r]) /\ MayHold(r, impl[d])
      /\ d \in V /\ r \in V
  BY <1>v, KindsAreHandles DEF SwapHandles
<1>2. todo[p] = <<>> /\ p \in alive /\ \A v \in V : Usable(p, v)
  BY <1>1, MayUseIs
<1>3. PICK s : Starts(p, s) /\ Begins(p, s)
  BY <1>2, StartView
<1>4. s \in Views /\ Within(p, s, d) /\ Within(p, s, r) /\ s.impl[d] = impl[d] /\ s.impl[r] = impl[r]
  BY <1>1, <1>2, <1>3, UsableIs DEF Starts
<1>5. Fits(d, s.impl[r]) /\ Fits(r, s.impl[d])
  BY <1>1, <1>4, HoldFits
<1>6. PICK w : w = <<Step("swap", d, r)>>
  OBVIOUS
<1>7. Completes(p, V, w, s)
  BY <1>1, <1>3, <1>4, <1>5, <1>6, SwapCompletes
<1>8. Call(p, w)
  BY <1>6 DEF SwapHandles
<1>. QED  BY <1>2, <1>3, <1>7, <1>8, CallKept

LEMMA DropKept ==
    ASSUME Core, NEW p \in Procs, NEW d \in Users, DropHandle(p, d)
    PROVE  Begun(p)'
<1>v. PICK V : V = {d}
  OBVIOUS
<1>1. V \subseteq Handles /\ MayUse(p, V) /\ d \in V
  BY <1>v, KindsAreHandles DEF DropHandle
<1>2. todo[p] = <<>> /\ p \in alive /\ \A v \in V : Usable(p, v)
  BY <1>1, MayUseIs
<1>3. PICK s : Starts(p, s) /\ Begins(p, s)
  BY <1>2, StartView
<1>4. s \in Views /\ Within(p, s, d)
  BY <1>1, <1>2, <1>3, UsableIs DEF Starts
<1>7. Completes(p, V, Destruct(d), s)
  BY <1>1, <1>3, <1>4, DropCompletes
<1>8. Call(p, Destruct(d))
  BY DEF DropHandle
<1>. QED  BY <1>2, <1>3, <1>7, <1>8, CallKept

(* An ipsm_malloc is a variable of its process. *)
LEMMA MallocIsOwn ==
    ASSUME Core, NEW p \in Procs, NEW x \in Mallocs, Usable(p, x)
    PROVE  Home[x] = p
<1>1. Home[x] \in Procs
  BY HomesAssumption
<1>. QED  BY <1>1, MappedMemories, KindsAssumption DEF Usable, Reachable, Core

LEMMA NothingElseThere ==
    ASSUME Core, NEW p \in Procs, todo[p] = <<>>, NEW x \in Mallocs, NEW s, Starts(p, s),
           NothingElseIn(p, x), Usable(p, x)
    PROVE  /\ s.shm[x] = shm[x]
           /\ s.shm[x] # None => \A h \in Handles \ {x} : Home[h] = p => s.impl[h] # s.shm[x]
<1>1. s.shm[x] = shm[x]
  BY UsableIs, KindsAreHandles
<1>2. \A h \in Handles : Home[h] = p => s.impl[h] = impl[h]
  BY OwnUsable, UsableIs
<1>. QED  BY <1>1, <1>2 DEF NothingElseIn

LEMMA DestroyMallocKept ==
    ASSUME Core, NEW p \in Procs, NEW x \in Mallocs, DestroyMalloc(p, x)
    PROVE  Begun(p)'
<1>v. PICK V : V = {x}
  OBVIOUS
<1>1. V \subseteq Handles /\ MayUse(p, V) /\ x \in V /\ shm[x] # None /\ NothingElseIn(p, x)
  BY <1>v, KindsAreHandles DEF DestroyMalloc
<1>2. todo[p] = <<>> /\ p \in alive /\ \A v \in V : Usable(p, v)
  BY <1>1, MayUseIs
<1>3. PICK s : Starts(p, s) /\ Begins(p, s)
  BY <1>2, StartView
<1>4. s \in Views /\ Home[x] = p
  BY <1>1, <1>2, <1>3, MallocIsOwn DEF Starts
<1>5. s.shm[x] # None /\ \A h \in Handles \ {x} : Home[h] = p => s.impl[h] # s.shm[x]
  BY <1>1, <1>2, <1>3, NothingElseThere
<1>7. Completes(p, V, Release(x), s)
  BY <1>1, <1>3, <1>4, <1>5, DestroyMallocCompletes
<1>8. Call(p, Release(x))
  BY DEF DestroyMalloc
<1>. QED  BY <1>2, <1>3, <1>7, <1>8, CallKept

LEMMA MoveMallocKept ==
    ASSUME Core, NEW p \in Procs, NEW x \in Mallocs, NEW y \in Mallocs, MoveMalloc(p, x, y)
    PROVE  Begun(p)'
<1>v. PICK V : V = {x, y, Temp(p)}
  OBVIOUS
<1>w. PICK W : W = {x, y}
  OBVIOUS
<1>1. /\ W \subseteq Handles /\ MayUse(p, W) /\ x \in W /\ y \in W /\ x # y
      /\ NothingElseIn(p, x)
  BY <1>w, KindsAreHandles DEF MoveMalloc
<1>2. todo[p] = <<>> /\ p \in alive /\ Usable(p, x) /\ Usable(p, y)
  BY <1>1, MayUseIs
<1>t. x \in V /\ y \in V /\ Temp(p) \in V /\ \A v \in V : Usable(p, v)
  BY <1>2, <1>v, LocalKinds, OwnUsable
<1>3. PICK s : Starts(p, s) /\ Begins(p, s)
  BY <1>2, StartView
<1>4. s \in Views /\ Home[x] = p /\ Home[y] = p
  BY <1>2, <1>3, MallocIsOwn DEF Starts
<1>5. s.shm[x] # None => \A h \in Handles \ {x} : Home[h] = p => s.impl[h] # s.shm[x]
  BY <1>1, <1>2, <1>3, NothingElseThere
<1>7. Completes(p, V, MallocMoved(p, x, y), s)
  BY <1>1, <1>3, <1>4, <1>5, <1>t, MoveMallocCompletes
<1>8. Call(p, MallocMoved(p, x, y))
  BY DEF MoveMalloc
<1>. QED  BY <1>2, <1>3, <1>7, <1>8, <1>t, CallKept

LEMMA MakeKept ==
    ASSUME Core, NEW p \in Procs, NEW u \in Uniques, NEW g \in Users \cup Mallocs, NEW o \in Objects,
           MakeUnique(p, u, g, o)
    PROVE  Begun(p)'
<1>v. PICK V : V = {u, g, Temp(p), Deleter(p)}
  OBVIOUS
<1>w. PICK W : W = {u, g}
  OBVIOUS
<1>1. /\ W \subseteq Handles /\ MayUse(p, W) /\ u \in W /\ g \in W
      /\ impl[u] = None /\ impl[g] = HeapOf[o] /\ MayHold(u, impl[g])
  BY <1>w, KindsAreHandles DEF MakeUnique
<1>2. todo[p] = <<>> /\ p \in alive /\ Usable(p, u) /\ Usable(p, g)
  BY <1>1, MayUseIs
<1>t. /\ u \in V /\ g \in V /\ Temp(p) \in V /\ Deleter(p) \in V /\ \A v \in V : Usable(p, v)
  BY <1>2, <1>v, LocalKinds, OwnUsable
<1>3. PICK s : Starts(p, s) /\ Begins(p, s)
  BY <1>2, StartView
<1>4. s \in Views /\ Within(p, s, u) /\ Within(p, s, g) /\ s.impl[u] = None /\ s.impl[g] = HeapOf[o]
  BY <1>1, <1>2, <1>3, UsableIs DEF Starts
<1>5. Fits(u, HeapOf[o])
  BY <1>1, HoldFits
<1>7. Completes(p, V, Made(p, u, g, o), s)
  BY <1>3, <1>4, <1>5, <1>t, MakeCompletes
<1>8. Call(p, Made(p, u, g, o))
  BY DEF MakeUnique
<1>. QED  BY <1>2, <1>3, <1>7, <1>8, <1>t, CallKept

LEMMA MoveUniqueKept ==
    ASSUME Core, NEW p \in Procs, NEW d \in Uniques, NEW r \in Uniques, MoveUnique(p, d, r)
    PROVE  Begun(p)'
<1>v. PICK V : V = {d, r}
  OBVIOUS
<1>1. /\ V \subseteq Handles /\ MayUse(p, V) /\ d # r /\ impl[r] # None /\ MayHold(d, impl[r])
      /\ d \in V /\ r \in V
  BY <1>v, KindsAreHandles DEF MoveUnique
<1>2. todo[p] = <<>> /\ p \in alive /\ \A v \in V : Usable(p, v)
  BY <1>1, MayUseIs
<1>3. PICK s : Starts(p, s) /\ Begins(p, s)
  BY <1>2, StartView
<1>4. /\ s \in Views /\ Within(p, s, d) /\ Within(p, s, r)
      /\ impl[d] = s.impl[d] /\ impl[r] = s.impl[r] /\ target[d] = s.target[d]
  BY <1>1, <1>2, <1>3, UsableIs DEF Starts
<1>5. Fits(d, s.impl[r]) /\ s.impl[r] # None
  BY <1>1, <1>4, HoldFits
<1>6. CASE impl[d] = None
  <2>1. s.impl[d] = None
    BY <1>4, <1>6
  <2>2. Completes(p, V, UniqueMoveConstruct(d, r), s)
    BY <1>1, <1>3, <1>4, <1>5, <2>1, MoveConstructCompletes
  <2>3. Call(p, UniqueMoveConstruct(d, r))
    BY <1>6 DEF MoveUnique
  <2>. QED  BY <1>2, <1>3, <2>2, <2>3, CallKept
<1>7. CASE impl[d] # None
  <2>2. Completes(p, V, UniqueMoveAssign(d, r), s)
    BY <1>1, <1>3, <1>4, <1>5, MoveUniqueCompletes
  <2>3. Call(p, UniqueMoveAssign(d, r))
    BY <1>7 DEF MoveUnique
  <2>. QED  BY <1>2, <1>3, <2>2, <2>3, CallKept
<1>. QED  BY <1>6, <1>7

LEMMA SwapUniquesKept ==
    ASSUME Core, NEW p \in Procs, NEW d \in Uniques, NEW r \in Uniques, SwapUniques(p, d, r)
    PROVE  Begun(p)'
<1>v. PICK V : V = {d, r, Temp(p)}
  OBVIOUS
<1>w. PICK W : W = {d, r}
  OBVIOUS
<1>1. /\ W \subseteq Handles /\ MayUse(p, W) /\ d # r /\ impl[r] # None /\ impl[d] # None
      /\ MayHold(d, impl[r]) /\ MayHold(r, impl[d]) /\ d \in W /\ r \in W
  BY <1>w, KindsAreHandles DEF SwapUniques
<1>2. todo[p] = <<>> /\ p \in alive /\ Usable(p, d) /\ Usable(p, r)
  BY <1>1, MayUseIs
<1>t. d \in V /\ r \in V /\ Temp(p) \in V /\ \A v \in V : Usable(p, v)
  BY <1>2, <1>v, LocalKinds, OwnUsable
<1>3. PICK s : Starts(p, s) /\ Begins(p, s)
  BY <1>2, StartView
<1>4. /\ s \in Views /\ Within(p, s, d) /\ Within(p, s, r)
      /\ impl[d] = s.impl[d] /\ impl[r] = s.impl[r]
  BY <1>1, <1>2, <1>3, UsableIs DEF Starts
<1>5. Fits(d, s.impl[r]) /\ Fits(r, s.impl[d]) /\ s.impl[r] # None /\ s.impl[d] # None
  BY <1>1, <1>4, HoldFits
<1>7. Completes(p, V, UniqueSwap(p, d, r), s)
  BY <1>1, <1>3, <1>4, <1>5, <1>t, SwapUniquesCompletes
<1>8. Call(p, UniqueSwap(p, d, r))
  BY DEF SwapUniques
<1>. QED  BY <1>2, <1>3, <1>7, <1>8, <1>t, CallKept

(* The calls on one offset_unique_ptr. *)
LEMMA OneUsed ==
    ASSUME Core, NEW p \in Procs, NEW u \in Uniques, MayUse(p, {u})
    PROVE  /\ todo[p] = <<>> /\ p \in alive /\ Usable(p, u)
           /\ \E s \in Views : Starts(p, s) /\ Begins(p, s) /\ Within(p, s, u)
                               /\ target[u] = s.target[u] /\ impl[u] = s.impl[u]
<1>1. todo[p] = <<>> /\ p \in alive /\ Usable(p, u)
  BY MayUseIs, KindsAreHandles
<1>2. PICK s : Starts(p, s) /\ Begins(p, s)
  BY <1>1, StartView
<1>. QED  BY <1>1, <1>2, UsableIs DEF Starts

LEMMA OneKept ==
    ASSUME Core, NEW p \in Procs, NEW u \in Uniques,
           \/ ResetUnique(p, u) \/ ReleaseUnique(p, u) \/ DestroyUnique(p, u)
           \/ \E o \in Objects : ResetTo(p, u, o)
    PROVE  Begun(p)'
<1>1. MayUse(p, {u})
  BY DEF ResetUnique, ReleaseUnique, DestroyUnique, ResetTo
<1>2. todo[p] = <<>> /\ p \in alive /\ Usable(p, u)
  BY <1>1, OneUsed
<1>3. PICK s \in Views : Starts(p, s) /\ Begins(p, s) /\ Within(p, s, u)
                         /\ target[u] = s.target[u] /\ impl[u] = s.impl[u]
  BY <1>1, OneUsed
<1>v. PICK V : V = {u}
  OBVIOUS
<1>4. u \in V /\ \A v \in V : Usable(p, v)
  BY <1>2, <1>v
<1>5. CASE ResetUnique(p, u)
  <2>1. Completes(p, V, Reset(u), s)
    BY <1>3, <1>4, ResetCompletes
  <2>2. Call(p, Reset(u))
    BY <1>5 DEF ResetUnique
  <2>. QED  BY <1>2, <1>3, <1>4, <2>1, <2>2, CallKept
<1>6. CASE ReleaseUnique(p, u)
  <2>1. PICK w : w = <<Step("release", u, u)>>
    OBVIOUS
  <2>2. s.target[u] # None
    BY <1>3, <1>6 DEF ReleaseUnique
  <2>3. Completes(p, V, w, s)
    BY <1>3, <1>4, <2>1, <2>2, ReleaseCompletes
  <2>4. Call(p, w)
    BY <1>6, <2>1 DEF ReleaseUnique
  <2>. QED  BY <1>2, <1>3, <1>4, <2>3, <2>4, CallKept
<1>7. CASE DestroyUnique(p, u)
  <2>1. PICK w : w = Reset(u) \o Destruct(u)
    OBVIOUS
  <2>2. Completes(p, V, w, s)
    BY <1>3, <1>4, <2>1, DestroyUniqueCompletes
  <2>3. Call(p, w)
    BY <1>7, <2>1 DEF DestroyUnique
  <2>. QED  BY <1>2, <1>3, <1>4, <2>2, <2>3, CallKept
<1>8. ASSUME NEW o \in Objects, ResetTo(p, u, o) PROVE Begun(p)'
  <2>1. PICK w : w = Reset(u) \o <<Step("own", u, o)>>
    OBVIOUS
  <2>2. s.impl[u] = HeapOf[o]
    BY <1>3, <1>8 DEF ResetTo
  <2>3. Completes(p, V, w, s)
    BY <1>3, <1>4, <2>1, <2>2, ResetToCompletes
  <2>4. Call(p, w)
    BY <1>8, <2>1 DEF ResetTo
  <2>. QED  BY <1>2, <1>3, <1>4, <2>3, <2>4, CallKept
<1>. QED  BY <1>5, <1>6, <1>7, <1>8

-----------------------------------------------------------------------------
(* The constructor of ipsm_malloc: the mapping is new.                     *)

SetsUp(p, x, m, first) ==
    /\ todo[p] = <<>> /\ p \in alive /\ Usable(p, x) /\ Home[x] = p /\ m \in Memories
    /\ shm[x] = None /\ m \notin Mapped(p)
    /\ first <=> UsersOf(m) = {}
    /\ first \/ m \in ready
    /\ shm' = [shm EXCEPT ![x] = m]
    /\ ready' = IF first THEN ready \ {m} ELSE ready
    /\ impl' = impl /\ bind' = bind /\ target' = target /\ obj' = obj
    /\ alive' = alive /\ tainted' = tainted

LEMMA AttachedSteps ==
    ASSUME NEW p \in Procs, NEW x \in Mallocs, NEW m \in Memories
    PROVE  Attached(p, x, m) \in Seq(Steps)
<1>t. PICK a : a = Temp(p)
  OBVIOUS
<1>0. a \in Things /\ x \in Things /\ m \in Things /\ a \in Handles
  BY <1>t, LocalKinds, HandlesAreThings, KindsAreHandles DEF Things
<1>1. PICK e : e = Step("attach", a, m)
  OBVIOUS
<1>2. PICK u : u = Step("unbind", a, a)
  OBVIOUS
<1>3. PICK c : c = Step("clear", a, a)
  OBVIOUS
<1>4. PICK v : v = Step("unbind", x, x)
  OBVIOUS
<1>5. PICK k : k = Step("take", x, a)
  OBVIOUS
<1>6. e \in Steps /\ u \in Steps /\ c \in Steps /\ v \in Steps /\ k \in Steps
  BY <1>0, <1>1, <1>2, <1>3, <1>4, <1>5, StepFields DEF StepNames
<1>7. MoveAssign(x, a, None, m) = <<u, c>> \/ MoveAssign(x, a, None, m) = <<v, k>>
  BY <1>2, <1>3, <1>4, <1>5 DEF MoveAssign, Unbind, Clear, Take
<1>8. MoveAssign(x, a, None, m) \in Seq(Steps) /\ <<e>> \in Seq(Steps)
  BY <1>6, <1>7
<1>9. Destruct(a) \in Seq(Steps)
  BY <1>0, DestructSteps
<1>10. Attached(p, x, m) = <<e>> \o MoveAssign(x, a, None, m) \o Destruct(a)
  BY <1>1, <1>t DEF Attached
<1>. QED  BY <1>8, <1>9, <1>10

LEMMA SetUpIs ==
    ASSUME Core, NEW p \in Procs, NEW x \in Mallocs, NEW m, m = NameOf[x], SetUp(p, x)
    PROVE  \/ /\ SetsUp(p, x, m, TRUE)
              /\ todo' = [todo EXCEPT ![p] = InitFunctor(p, m) \o Attached(p, x, m)]
           \/ /\ SetsUp(p, x, m, FALSE)
              /\ todo' = [todo EXCEPT ![p] = Attached(p, x, m)]
<1>2. MayUse(p, {x}) /\ {x} \subseteq Handles
  BY KindsAreHandles DEF SetUp
<1>3. todo[p] = <<>> /\ p \in alive /\ Usable(p, x)
  BY <1>2, MayUseIs
<1>4. Home[x] = p /\ m \in Memories
  BY <1>3, MallocIsOwn, HomesAssumption
<1>5. CASE UsersOf(m) = {}
  <2>1. SetsUp(p, x, m, TRUE)
    BY <1>3, <1>4, <1>5 DEF SetUp, SetsUp
  <2>2. todo' = [todo EXCEPT ![p] = InitFunctor(p, m) \o Attached(p, x, m)]
    BY <1>5 DEF SetUp
  <2>. QED  BY <2>1, <2>2
<1>6. CASE UsersOf(m) # {}
  <2>1. SetsUp(p, x, m, FALSE)
    BY <1>3, <1>4, <1>6 DEF SetUp, SetsUp
  <2>2. todo' = [todo EXCEPT ![p] = <<>> \o Attached(p, x, m)]
    BY <1>6 DEF SetUp
  <2>3. <<>> \o Attached(p, x, m) = Attached(p, x, m)
    BY <1>4, AttachedSteps
  <2>. QED  BY <2>1, <2>2, <2>3
<1>. QED  BY <1>5, <1>6

(* What the new mapping changes, whatever the steps are. *)
LEMMA SetUpMaps ==
    ASSUME Core, NEW p \in Procs, NEW x \in Mallocs, NEW m, NEW first, SetsUp(p, x, m, first),
           NEW w \in Seq(Steps), todo' = [todo EXCEPT ![p] = w]
    PROVE  /\ Types' /\ InPlace' /\ OnlyBy(p)
           /\ \A v \in Handles : Idle(Now, v) => Idle(Now', v)
           /\ Mapped(p)' = Mapped(p) \cup {m}
<1>1. x \in Held /\ x \notin Temps /\ None \notin Memories
  BY KindsAreHandles, KindsAssumption, HomesAssumption
<1>t. Types /\ shm \in [Held -> Memories \cup {None}]
  BY DEF Core, Types
<1>2. /\ shm'[x] = m /\ \A y \in Held \ {x} : shm'[y] = shm[y]
      /\ m \in Memories /\ m # None /\ Home[x] = p /\ shm[x] = None
  BY <1>1, <1>t DEF SetsUp
<1>3. Types'
  BY <1>1, <1>t DEF SetsUp, Types
<1>4. Mapped(p)' = Mapped(p) \cup {m}
  <2>1. Mapped(p)' = {shm'[y] : y \in {z \in Held : Home[z] = p}} \ {None}
    BY DEF Mapped, Held
  <2>2. Mapped(p) = {shm[y] : y \in {z \in Held : Home[z] = p}} \ {None}
    BY DEF Mapped, Held
  <2>. QED  BY <1>1, <1>2, <2>1, <2>2
<1>5. todo'[p] = w /\ \A q \in Procs \ {p} : todo'[q] = todo[q]
  BY <1>t DEF Types
<1>6. OnlyBy(p)
  <2>1. \A h \in Handles : Kept(h)
    BY DEF Kept, SetsUp
  <2>2. \A y \in Held : Home[y] # p => shm'[y] = shm[y]
    BY <1>2
  <2>3. m \in ready \/ UsersOf(m) = {}
    BY DEF SetsUp
  <2>. QED  BY <1>4, <1>5, <2>1, <2>2, <2>3 DEF OnlyBy, SetsUp
<1>7. \A q \in Procs : Mapped(q) \subseteq Mapped(q)'
  BY <1>4, <1>6, OthersMapped
<1>8. \A q \in Procs : MapsIn(q, Now') = Mapped(q)' /\ MapsIn(q, Now) = Mapped(q)
  BY DEF Mapped, MapsIn, Now, Held
<1>9. Now'.impl = Now.impl /\ Now'.target = Now.target /\ Now'.taint = Now.taint /\ Now'.shm = shm'
      /\ Now.shm = shm
  BY DEF Now, SetsUp
<1>10. InPlace'
  <2>1. ASSUME NEW q \in Procs PROVE Placed(q, Now')
    BY <1>7, <1>8, <1>9 DEF Core, InPlace, Placed, HandlePlaced, TargetPlaced
  <2>2. \A q \in Procs : Placed(q, Now)' <=> Placed(q, Now')
    BY DEF Placed, HandlePlaced, TargetPlaced, MapsIn
  <2>. QED  BY <2>1, <2>2 DEF InPlace
<1>11. ASSUME NEW v \in Handles, Idle(Now, v) PROVE Idle(Now', v)
  BY <1>1, <1>2, <1>9, <1>11 DEF Idle, Right, Wreck, Held
<1>. QED  BY <1>3, <1>4, <1>6, <1>10, <1>11

(* The memory is there. *)
LEMMA AttachKept ==
    ASSUME Core, NEW p \in Procs, NEW x \in Mallocs, NEW m, SetsUp(p, x, m, FALSE),
           NEW w, w = Attached(p, x, m), todo' = [todo EXCEPT ![p] = w]
    PROVE  Begun(p)'
<1>0. /\ todo[p] = <<>> /\ p \in alive /\ Home[x] = p /\ m \in Memories /\ Usable(p, x)
      /\ impl' = impl /\ target' = target /\ tainted' = tainted /\ alive' = alive
      /\ shm' = [shm EXCEPT ![x] = m] /\ shm[x] = None
  BY DEF SetsUp
<1>k. x \in Held /\ x \notin Temps /\ x \in Handles /\ None \notin Memories
      /\ shm \in [Held -> Memories \cup {None}]
  BY KindsAreHandles, KindsAssumption, HomesAssumption DEF Core, Types
<1>1. PICK z : Starts(p, z) /\ Begins(p, z)
  BY <1>0, StartView
<1>z. z \in Views /\ z.shm \in [Held -> Memories \cup {None}]
  BY <1>1, ViewFields DEF Starts
<1>. DEFINE s == [z EXCEPT !.shm = [z.shm EXCEPT ![x] = m]]
<1>2. /\ s \in Views
      /\ s.impl = z.impl /\ s.target = z.target /\ s.taint = z.taint /\ s.fresh = z.fresh
      /\ s.tag = z.tag /\ s.shm = [z.shm EXCEPT ![x] = m]
  <2>1. [z.shm EXCEPT ![x] = m] \in [Held -> Memories \cup {None}]
    BY <1>0, <1>z
  <2>. QED  BY <1>z, <2>1 DEF Views
<1>. HIDE DEF s
<1>3. s.shm[x] = m /\ \A y \in Held \ {x} : s.shm[y] = z.shm[y]
  BY <1>2, <1>k, <1>z
<1>x. \A y \in Held : Home[y] = p => z.shm[y] = shm[y]
  BY <1>0, <1>1, OwnUsable, UsableIs, HeldAreHandles
<1>4. \A y \in Held : Home[y] = p => s.shm[y] = shm'[y]
  BY <1>0, <1>3, <1>k, <1>x
<1>5. MapsIn(p, z) \subseteq MapsIn(p, s) /\ m \in MapsIn(p, s)
  BY <1>0, <1>3, <1>k, <1>x DEF MapsIn
<1>6. Begins(p, s)
  <2>1. \A v \in Handles : Idle(s, v)
    BY <1>1, <1>2, <1>3, <1>k DEF Begins, Idle, Right, Wreck, Held
  <2>2. Placed(p, s)
    BY <1>1, <1>2, <1>5 DEF Begins, Placed, HandlePlaced, TargetPlaced
  <2>. QED  BY <1>1, <1>2, <2>1, <2>2 DEF Begins, Clean
<1>v. PICK V : V = {x, Temp(p)}
  OBVIOUS
<1>7. x \in V /\ Temp(p) \in V /\ \A v \in V : Usable(p, v) /\ Home[v] = p
  BY <1>0, <1>v, LocalKinds, OwnUsable
<1>8. Completes(p, V, w, s)
  BY <1>0, <1>2, <1>5, <1>6, <1>7, AttachCompletes
<1>9. PICK t \in Views : Does(p, V, w, s, t) /\ Rest(t)
  BY <1>8 DEF Completes
<1>10. w \in Seq(Steps) /\ Ops(w) \cap Handles \subseteq V /\ Runs(p, w, s, t)
  BY <1>9 DEF Does
<1>11. /\ Types' /\ InPlace' /\ OnlyBy(p)
       /\ \A v \in Handles : Idle(Now, v) => Idle(Now', v)
  BY <1>10, SetUpMaps
<1>12. Sees(p, s, w)'
  <2>1. \A h \in Handles : Home[h] = p \/ h \in Ops(w) => Usable(p, h)
    BY <1>0, <1>7, <1>10, OwnUsable
  <2>2. \A h \in Handles : Home[h] = p \/ h \in Ops(w) =>
              s.impl[h] = impl'[h] /\ (h \in Uniques => s.target[h] = target'[h])
    BY <1>0, <1>1, <1>2, <2>1, UsableIs
  <2>3. s.tag # "new" /\ s.fresh = {}
    BY <1>6 DEF Begins, Clean
  <2>4. s.taint \subseteq tainted'
    BY <1>0, <1>1, <1>2 DEF Starts
  <2>. QED  BY <1>4, <2>2, <2>3, <2>4 DEF Sees
<1>13. \A v \in Ops(w) \cap Handles : Reachable(p, v)' /\ ~InUse(v)
  BY <1>7, <1>10 DEF Reachable, Usable
<1>14. todo'[p] = w /\ Placed(p, s) /\ s.tag = "clean"
  BY <1>6 DEF Core, Types, Begins, Clean
<1>. QED  BY <1>0, <1>2, <1>9, <1>10, <1>11, <1>12, <1>13, <1>14, CallBegins

(* The first process in: what lay in the memory is taken for gone. *)
FirstSees(p, s, m) ==
    /\ Unborn(p, s, m) /\ Placed(p, s) /\ \A v \in Handles : Idle(s, v)
    /\ s.taint \subseteq tainted
    /\ \A y \in Held : Home[y] = p => s.shm[y] = shm'[y]
    /\ \A h \in Handles : Home[h] = p =>
           s.impl[h] = impl[h] /\ (h \in Uniques => s.target[h] = target[h])

LEMMA UnbornView ==
    ASSUME Core, NEW p \in Procs, NEW x \in Mallocs, NEW m, SetsUp(p, x, m, TRUE)
    PROVE  \E s \in Views : FirstSees(p, s, m)
<1>0. /\ todo[p] = <<>> /\ Home[x] = p /\ m \in Memories /\ m # None
      /\ shm' = [shm EXCEPT ![x] = m] /\ shm[x] = None /\ UsersOf(m) = {} /\ p # m
  BY HomesAssumption, KindsAssumption DEF SetsUp
<1>k. /\ x \in Held /\ x \notin Temps /\ x \in Handles /\ None \notin Memories
      /\ shm \in [Held -> Memories \cup {None}] /\ Uniques \subseteq Handles
  BY KindsAreHandles, KindsAssumption, HomesAssumption DEF Core, Types
<1>1. PICK z : Starts(p, z) /\ Begins(p, z)
  BY <1>0, StartView
<1>z. /\ z \in Views /\ z.shm \in [Held -> Memories \cup {None}]
      /\ z.impl \in [Handles -> Memories \cup {None}]
      /\ z.target \in [Uniques -> Objects \cup {None}] /\ z.taint \in SUBSET Memories
  BY <1>1, ViewFields DEF Starts
<1>. DEFINE s == [impl |-> [h \in Handles |-> IF Home[h] = m THEN None ELSE z.impl[h]],
                  shm |-> [z.shm EXCEPT ![x] = m],
                  target |-> [u \in Uniques |-> IF Home[u] = m THEN None ELSE z.target[u]],
                  taint |-> z.taint \ {m}, fresh |-> {m}, tag |-> "new", who |-> None]
<1>2. s \in Views
  <2>1. [z.shm EXCEPT ![x] = m] \in [Held -> Memories \cup {None}]
    BY <1>0, <1>z
  <2>2. [h \in Handles |-> IF Home[h] = m THEN None ELSE z.impl[h]]
           \in [Handles -> Memories \cup {None}]
    BY <1>z
  <2>3. [u \in Uniques |-> IF Home[u] = m THEN None ELSE z.target[u]]
           \in [Uniques -> Objects \cup {None}]
    BY <1>z
  <2>. QED  BY <1>0, <1>z, <2>1, <2>2, <2>3 DEF Views
<1>3. /\ \A h \in Handles : s.impl[h] = IF Home[h] = m THEN None ELSE z.impl[h]
      /\ s.shm[x] = m /\ \A y \in Held \ {x} : s.shm[y] = z.shm[y]
      /\ \A u \in Uniques : s.target[u] = IF Home[u] = m THEN None ELSE z.target[u]
      /\ s.taint = z.taint \ {m} /\ s.fresh = {m} /\ s.tag = "new"
  BY <1>k, <1>z
<1>. HIDE DEF s
<1>x. \A y \in Held : Home[y] = p => z.shm[y] = shm[y]
  BY <1>0, <1>1, OwnUsable, UsableIs, HeldAreHandles
<1>4. \A y \in Held : Home[y] = p => s.shm[y] = shm'[y]
  BY <1>0, <1>3, <1>k, <1>x
<1>5. MapsIn(p, z) \subseteq MapsIn(p, s) /\ m \in MapsIn(p, s) /\ MapsIn(p, z) = Mapped(p)
  BY <1>0, <1>1, <1>3, <1>k, <1>x DEF MapsIn, Starts
<1>6. ASSUME NEW v \in Handles PROVE Idle(s, v)
  <2>1. Idle(z, v)
    BY <1>1 DEF Begins
  <2>2. CASE Home[v] = m
    <3>1. v \notin Temps
      BY <1>0, <2>2, KindsAssumption, HomesAssumption
    <3>. QED  BY <1>3, <2>2, <3>1 DEF Idle, Right
  <2>3. CASE Home[v] # m
    BY <1>3, <1>k, <2>1, <2>3 DEF Idle, Right, Wreck, Held
  <2>. QED  BY <2>2, <2>3
<1>7. Placed(p, s)
  <2>1. Placed(p, z)
    BY <1>1 DEF Begins
  <2>2. ASSUME NEW h \in Handles PROVE HandlePlaced(p, s, h)
    BY <1>0, <1>3, <1>5, <2>1 DEF Placed, HandlePlaced, Fits
  <2>3. ASSUME NEW u \in Uniques PROVE TargetPlaced(p, s, u)
    BY <1>0, <1>3, <1>5, <2>1 DEF Placed, TargetPlaced, Fits
  <2>. QED  BY <2>2, <2>3 DEF Placed
<1>8. \A q \in Procs : m \notin Mapped(q)
  BY <1>0 DEF UsersOf
(* What another process holds is masked, or the process maps it. *)
<1>9. ASSUME NEW h \in Handles, Home[h] # m
      PROVE  /\ z.impl[h] # m
             /\ h \in Uniques /\ z.target[h] # None => HeapOf[z.target[h]] # m
  <2>1. CASE InUse(h) /\ Home[h] # p
    BY <1>0, <1>1, <2>1 DEF Starts
  <2>2. CASE ~InUse(h) \/ Home[h] = p
    <3>1. z.impl[h] = impl[h] /\ (h \in Uniques => z.target[h] = target[h])
      BY <1>0, <1>1, <2>2, OwnUsable, UsableIs DEF Starts
    <3>2. CASE Home[h] \in Procs
      <4>1. Placed(Home[h], Now) /\ MapsIn(Home[h], Now) = Mapped(Home[h])
        BY <3>2, MappedNow DEF Core, InPlace
      <4>2. /\ impl[h] \in Mapped(Home[h]) \cup {None}
            /\ h \in Uniques /\ target[h] # None => HeapOf[target[h]] \in Mapped(Home[h])
        BY <4>1 DEF Placed, HandlePlaced, TargetPlaced, Now
      <4>. QED  BY <1>0, <1>8, <3>1, <3>2, <4>2
    <3>3. CASE Home[h] \in Memories
      <4>1. /\ Fits(h, impl[h])
            /\ h \in Uniques /\ target[h] # None => Fits(h, HeapOf[target[h]])
        BY <1>0 DEF Core, InPlace, Placed, HandlePlaced, TargetPlaced, Now
      <4>. QED  BY <1>0, <1>9, <3>1, <3>3, <4>1 DEF Fits
    <3>. QED  BY <3>2, <3>3, HomesAssumption
  <2>. QED  BY <2>1, <2>2
<1>10. Unborn(p, s, m)
  BY <1>0, <1>3, <1>5, <1>9, <1>k DEF Unborn
<1>11. s.taint \subseteq tainted
  BY <1>1, <1>3 DEF Starts
<1>12. \A h \in Handles : Home[h] = p =>
                      s.impl[h] = impl[h] /\ (h \in Uniques => s.target[h] = target[h])
  BY <1>0, <1>1, <1>3, OwnUsable, UsableIs
<1>. QED  BY <1>2, <1>4, <1>6, <1>7, <1>10, <1>11, <1>12 DEF FirstSees

LEMMA NewCreates ==
    ASSUME NEW p, NEW x, NEW s, NEW t, Moves(p, x, s, t), s.tag = "new"
    PROVE  x[1] = "create" /\ CreateIn(p, x[2], x[3], s, t)
BY DEF Moves, BindIn, TakeIn, AttachIn, UnbindIn, DropIn, ClearIn, SwapIn, ReadyIn, TakeAllIn,
       SwapAllIn, UnmapIn, NewIn, OwnIn, MoveTargetIn, SwapTargetIn, ReleaseIn, DestroyIn,
       FreeIn, ForgetIn, Clean, Tagged, Free

LEMMA FirstKept ==
    ASSUME Core, NEW p \in Procs, NEW x \in Mallocs, NEW m, SetsUp(p, x, m, TRUE),
           NEW w, w = InitFunctor(p, m) \o Attached(p, x, m), todo' = [todo EXCEPT ![p] = w]
    PROVE  Begun(p)' /\ At(p, "create")' /\ Src(p)' = m
<1>0. /\ todo[p] = <<>> /\ p \in alive /\ Home[x] = p /\ m \in Memories /\ Usable(p, x)
      /\ impl' = impl /\ target' = target /\ tainted' = tainted /\ alive' = alive
      /\ UsersOf(m) = {} /\ ready' = ready \ {m}
  BY DEF SetsUp
<1>e. PICK s \in Views : FirstSees(p, s, m)
  BY UnbornView
<1>1. /\ Unborn(p, s, m) /\ Placed(p, s) /\ \A v \in Handles : Idle(s, v)
      /\ s.taint \subseteq tainted
      /\ \A y \in Held : Home[y] = p => s.shm[y] = shm'[y]
      /\ \A h \in Handles : Home[h] = p =>
             s.impl[h] = impl[h] /\ (h \in Uniques => s.target[h] = target[h])
  BY <1>e DEF FirstSees
<1>v. PICK V : V = {x, Temp(p), Setup(p)} \cup ListsOf[m]
  OBVIOUS
<1>2. x \in V /\ Temp(p) \in V /\ Setup(p) \in V /\ ListsOf[m] \subseteq V
  BY <1>v
<1>3. ASSUME NEW v \in V PROVE Home[v] = p \/ Home[v] = m
  BY <1>0, <1>3, <1>v, LocalKinds, HomesAssumption
<1>4. Completes(p, V, w, s)
  BY <1>0, <1>1, <1>2, FirstCompletes
<1>5. PICK t \in Views : Does(p, V, w, s, t) /\ Rest(t)
  BY <1>4 DEF Completes
<1>6. w \in Seq(Steps) /\ Ops(w) \cap Handles \subseteq V /\ Runs(p, w, s, t)
  BY <1>5 DEF Does
<1>7. /\ Types' /\ InPlace' /\ OnlyBy(p)
      /\ \A v \in Handles : Idle(Now, v) => Idle(Now', v)
      /\ Mapped(p)' = Mapped(p) \cup {m}
  BY <1>6, SetUpMaps
<1>8. UsersOf(m)' = {p}
  <2>1. \A q \in Procs \ {p} : Mapped(q)' = Mapped(q)
    BY <1>7, OthersMapped
  <2>. QED  BY <1>0, <1>7, <2>1 DEF UsersOf
<1>9. Sees(p, s, w)'
  <2>1. s.tag = "new" /\ s.fresh = {m}
    BY <1>1 DEF Unborn
  <2>2. \A h \in Handles : Home[h] = p \/ (h \in Ops(w) /\ s.tag # "new") =>
           s.impl[h] = impl'[h] /\ (h \in Uniques => s.target[h] = target'[h])
    BY <1>0, <1>1, <2>1
  <2>3. \A h \in Ops(w) \cap Handles : Home[h] = p \/ Home[h] \in s.fresh
    BY <1>3, <1>6, <2>1
  <2>4. \A k \in s.fresh : k \notin ready' /\ UsersOf(k)' = {p}
    BY <1>0, <1>8, <2>1
  <2>. QED  BY <1>0, <1>1, <2>2, <2>3, <2>4 DEF Sees
<1>10. ASSUME NEW v \in Ops(w) \cap Handles PROVE Reachable(p, v)' /\ ~InUse(v)
  <2>1. Home[v] = p \/ Home[v] = m
    BY <1>3, <1>6
  <2>2. CASE Home[v] = p
    BY <1>0, <2>2, OwnUsable DEF Usable, Reachable
  <2>3. CASE Home[v] = m
    <3>1. ASSUME NEW q \in Procs, v \in Ops(todo[q]) PROVE FALSE
      <4>1. Reachable(q, v)
        BY <3>1, OpsReachable
      <4>. QED  BY <1>0, <2>3, <4>1, KindsAssumption DEF Reachable, UsersOf
    <3>. QED  BY <1>7, <2>3, <3>1, InUseOps DEF Reachable
  <2>. QED  BY <2>1, <2>2, <2>3
<1>11. todo'[p] = w
  BY DEF Core, Types
<1>t. s.tag = "new" /\ s.fresh = {m}
  BY <1>1 DEF Unborn
<1>12. Begun(p)'
  BY <1>0, <1>1, <1>5, <1>6, <1>7, <1>9, <1>10, <1>11, <1>t, CallBegins
<1>13. w # <<>> /\ Head(w)[1] = "create" /\ Head(w)[3] = m
  <2>0. t.tag # "new" /\ Runs(p, w, s, t)
    BY <1>5, <1>6 DEF Rest
  <2>1. w # <<>>
    <3>1. ASSUME w = <<>> PROVE FALSE
      <4>1. Runs(p, <<>>, s, t)
        BY <2>0, <3>1
      <4>2. s = t
        BY <4>1, RunsEnd
      <4>. QED  BY <1>t, <2>0, <4>2
    <3>. QED  BY <3>1
  <2>2. PICK y : y = Head(w)
    OBVIOUS
  <2>3. PICK r : Moves(p, y, s, r)
    BY <1>6, <2>1, <2>2, RunsHead
  <2>4. y[1] = "create" /\ CreateIn(p, y[2], y[3], s, r)
    BY <2>3, <1>t, NewCreates
  <2>. QED  BY <1>t, <2>1, <2>2, <2>4 DEF CreateIn
<1>. QED  BY <1>0, <1>11, <1>12, <1>13 DEF At, Src

LEMMA SetUpKept ==
    ASSUME Core, NEW p \in Procs, NEW x \in Mallocs, SetUp(p, x)
    PROVE  /\ Begun(p)'
           /\ UsersOf(NameOf[x]) = {} => At(p, "create")' /\ Src(p)' = NameOf[x]
<1>1. PICK m : m = NameOf[x]
  OBVIOUS
<1>2. CASE /\ SetsUp(p, x, m, TRUE)
           /\ todo' = [todo EXCEPT ![p] = InitFunctor(p, m) \o Attached(p, x, m)]
  <2>1. PICK w : w = InitFunctor(p, m) \o Attached(p, x, m)
    OBVIOUS
  <2>. QED  BY <1>1, <1>2, <2>1, FirstKept
<1>3. CASE /\ SetsUp(p, x, m, FALSE)
           /\ todo' = [todo EXCEPT ![p] = Attached(p, x, m)]
  <2>1. PICK w : w = Attached(p, x, m)
    OBVIOUS
  <2>. QED  BY <1>1, <1>3, <2>1, AttachKept DEF SetsUp
<1>. QED  BY <1>1, <1>2, <1>3, SetUpIs

-----------------------------------------------------------------------------
(* A process dies.                                                         *)

LEMMA DieKept ==
    ASSUME Core, NEW p \in Procs, Die(p)
    PROVE  Core'
<1>t. Types /\ InPlace /\ Apart /\ Resting
  BY DEF Core
<1>0. Uniques \subseteq Handles /\ Held \subseteq Handles /\ Mapped(p) \subseteq Memories
  BY <1>t, HeldAreHandles, MappedMemories DEF Handles
<1>1. /\ alive' = alive \ {p} /\ ready' = ready /\ bind' = bind /\ obj' = obj
      /\ todo' = [todo EXCEPT ![p] = <<>>] /\ tainted' = tainted \cup Mapped(p)
      /\ shm' = [x \in Held |-> IF Home[x] = p THEN None ELSE shm[x]]
      /\ impl' = [h \in Handles |-> IF Home[h] = p THEN None ELSE impl[h]]
      /\ target' = [u \in Uniques |-> IF Home[u] = p THEN None ELSE target[u]]
  BY <1>t DEF Die, Types
<1>2. Types'
  <2>1. /\ impl' \in [Handles -> Memories \cup {None}] /\ shm' \in [Held -> Memories \cup {None}]
        /\ target' \in [Uniques -> Objects \cup {None}]
    BY <1>1, <1>t DEF Types
  <2>2. <<>> \in Seq(Steps)
    OBVIOUS
  <2>3. todo' \in [Procs -> Seq(Steps)]
    BY <1>1, <1>t, <2>2 DEF Types
  <2>. QED  BY <1>0, <1>1, <1>t, <2>1, <2>3 DEF Types
<1>3. todo'[p] = <<>> /\ \A q \in Procs \ {p} : todo'[q] = todo[q]
  BY <1>1, <1>t DEF Types
<1>4. \A h \in Handles : Home[h] # p => Kept(h)
  BY <1>0, <1>1 DEF Kept
<1>5. \A y \in Held : Home[y] # p => shm'[y] = shm[y]
  BY <1>1
<1>6. Mapped(p)' = {}
  BY <1>1 DEF Mapped, Held
<1>7. OnlyBy(p)
  BY <1>1, <1>3, <1>4, <1>5, <1>6 DEF OnlyBy
<1>8. ASSUME NEW q \in Procs PROVE Running(q)'
  <2>1. CASE q = p
    BY <1>3, <2>1 DEF Running
  <2>2. CASE q # p
    BY <1>7, <2>2, OthersRun
  <2>. QED  BY <2>1, <2>2
<1>9. Apart'
  BY <1>3, <1>t, OpsNone DEF Apart
<1>10. \A q \in Procs \ {p} : Mapped(q)' = Mapped(q)
  BY <1>7, OthersMapped
<1>11. \A q \in Procs : MapsIn(q, Now') = Mapped(q)' /\ MapsIn(q, Now) = Mapped(q)
  BY DEF Mapped, MapsIn, Now, Held
<1>12. InPlace'
  <2>1. ASSUME NEW q \in Procs PROVE Placed(q, Now')
    <3>1. Placed(q, Now)
      BY <1>t DEF InPlace
    <3>2. ASSUME NEW h \in Handles PROVE HandlePlaced(q, Now', h)
      <4>1. HandlePlaced(q, Now, h)
        BY <3>1 DEF Placed
      <4>2. CASE Home[h] = p
        BY <1>1, <4>2 DEF HandlePlaced, Fits, Now
      <4>3. CASE Home[h] # p
        BY <1>1, <1>10, <1>11, <4>1, <4>3 DEF HandlePlaced, Now
      <4>. QED  BY <4>2, <4>3
    <3>3. ASSUME NEW u \in Uniques PROVE TargetPlaced(q, Now', u)
      <4>1. TargetPlaced(q, Now, u)
        BY <3>1 DEF Placed
      <4>2. CASE Home[u] = p
        BY <1>1, <4>2 DEF TargetPlaced, Now
      <4>3. CASE Home[u] # p
        BY <1>1, <1>10, <1>11, <4>1, <4>3 DEF TargetPlaced, Now
      <4>. QED  BY <4>2, <4>3
    <3>. QED  BY <3>2, <3>3 DEF Placed
  <2>2. \A q \in Procs : Placed(q, Now)' <=> Placed(q, Now')
    BY DEF Placed, HandlePlaced, TargetPlaced, MapsIn
  <2>. QED  BY <2>1, <2>2 DEF InPlace
<1>13. ASSUME NEW v \in Handles, \A q \in Procs : v \notin Ops(todo'[q])
       PROVE  Idle(Now', v)
  <2>1. CASE Home[v] = p
    BY <1>0, <1>1, <2>1 DEF Idle, Right, Now, Held
  <2>2. CASE Home[v] # p /\ v \notin Ops(todo[p])
    <3>1. Idle(Now, v)
      BY <1>3, <1>13, <1>t, <2>2, InUseOps DEF Resting
    <3>2. Kept(v) /\ (v \in Held => shm'[v] = shm[v])
      BY <1>4, <1>5, <2>2
    <3>. QED  BY <1>1, <3>1, <3>2 DEF Idle, Right, Wreck, Now, Held, Kept
  <2>3. CASE Home[v] # p /\ v \in Ops(todo[p])
    <3>1. Home[v] \in Mapped(p)
      BY <2>3, OpsReachable DEF Reachable
    <3>2. Home[v] \in Memories /\ v \notin Temps \cup Setups \cup Deleters
      BY <1>0, <3>1, KindsAssumption, HomesAssumption
    <3>3. ASSUME v \in Uniques, target'[v] # None
          PROVE  HeapOf[target'[v]] = Home[v]
      <4>1. target'[v] = target[v] /\ target[v] \in Objects
        BY <1>4, <1>t, <2>3, <3>3 DEF Kept, Types
      <4>2. TargetPlaced(p, Now, v)
        BY <1>t, <3>3 DEF InPlace, Placed
      <4>3. HeapOf[target[v]] \in Memories /\ None \notin Memories
        BY <4>1, HomesAssumption
      <4>. QED  BY <3>2, <3>3, <4>1, <4>2, <4>3 DEF TargetPlaced, Fits, Now
    <3>. QED  BY <1>1, <3>1, <3>2, <3>3 DEF Idle, Right, Wreck, Now
  <2>. QED  BY <2>1, <2>2, <2>3
<1>14. Resting'
  <2>1. \A v : InUse(v)' <=> \E q \in Procs : v \in Ops(todo'[q])
    BY DEF InUse, Ops
  <2>2. \A v : Idle(Now, v)' <=> Idle(Now', v)
    BY DEF Idle, Right, Wreck
  <2>. QED  BY <1>13, <2>1, <2>2 DEF Resting
<1>. QED  BY <1>2, <1>8, <1>9, <1>12, <1>14 DEF Core

-----------------------------------------------------------------------------
(* All together.                                                           *)

LEMMA InitCore ==
    ASSUME Init
    PROVE  Core
<1>1. /\ \A h \in Handles : impl[h] = None
      /\ \A x \in Held : shm[x] = None
      /\ \A u \in Uniques : target[u] = None
      /\ \A p \in Procs : todo[p] = <<>>
      /\ ready = {} /\ tainted = {} /\ alive = Procs
  BY DEF Init, Held
<1>2. Types
  <2>1. <<>> \in Seq(Steps)
    OBVIOUS
  <2>2. todo \in [Procs -> Seq(Steps)]
    BY <2>1 DEF Init
  <2>. QED  BY <2>2 DEF Init, Types, Held
<1>3. InPlace
  BY <1>1 DEF InPlace, Placed, HandlePlaced, TargetPlaced, Fits, Now
<1>4. Apart
  BY <1>1, OpsNone DEF Apart
<1>5. Resting
  BY <1>1 DEF Resting, Idle, Right, Now, Held
<1>6. \A p \in Procs : Running(p)
  BY <1>1 DEF Running
<1>. QED  BY <1>2, <1>3, <1>4, <1>5, <1>6 DEF Core

LEMMA NextCore ==
    ASSUME Core, Next
    PROVE  Core'
<1>1. PICK p \in Procs : HandleCall(p) \/ MallocCall(p) \/ UniqueCall(p) \/ StepOf(p) \/ Die(p)
  BY DEF Next
<1>2. CASE HandleCall(p)
  BY <1>2, CopyKept, MoveKept, SwapKept, DropKept DEF HandleCall, Begun
<1>3. CASE MallocCall(p)
  BY <1>3, SetUpKept, DestroyMallocKept, MoveMallocKept DEF MallocCall, Begun
<1>4. CASE UniqueCall(p)
  BY <1>4, MakeKept, MoveUniqueKept, SwapUniquesKept, OneKept DEF UniqueCall, Begun
<1>. QED  BY <1>1, <1>2, <1>3, <1>4, StepKept, DieKept DEF Begun

LEMMA StutterCore ==
    ASSUME Core, UNCHANGED vars
    PROVE  Core'
<1>1. /\ impl' = impl /\ bind' = bind /\ shm' = shm /\ ready' = ready /\ target' = target
      /\ obj' = obj /\ todo' = todo /\ alive' = alive /\ tainted' = tainted
  BY DEF vars
<1>2. Types' /\ Apart'
  BY <1>1 DEF Core, Types, Apart
<1>3. InPlace'
  BY <1>1 DEF Core, InPlace, Placed, HandlePlaced, TargetPlaced, Fits, Now, MapsIn
<1>4. Resting'
  BY <1>1 DEF Core, Resting, InUse, Idle, Right, Wreck, Now
<1>5. \A q : Mapped(q)' = Mapped(q)
  BY <1>1 DEF Mapped
<1>6. \A m : UsersOf(m)' = UsersOf(m)
  BY <1>5 DEF UsersOf
<1>7. ASSUME NEW q \in Procs PROVE Running(q)'
  <2>1. Running(q)
    BY DEF Core
  <2>2. \A s, w : Sees(q, s, w) => Sees(q, s, w)'
    BY <1>1, <1>5, <1>6 DEF Sees
  <2>3. Going(q, todo[q]) => Going(q, todo[q])'
    BY <1>1, <2>2 DEF Going
  <2>. QED  BY <1>1, <1>5, <2>1, <2>3 DEF Running, Reachable
<1>. QED  BY <1>2, <1>3, <1>4, <1>7 DEF Core

LEMMA CoreInvariant == Spec => []Core
<1>1. Core /\ [Next]_vars => Core'
  BY NextCore, StutterCore
<1>. QED  BY InitCore, <1>1, PTL DEF Spec

(* What the variables hold, and who may have something to do: see TypeOK. *)
THEOREM HandleTypes == Spec => []TypeOK
<1>1. Core => TypeOK
  BY DEF Core, Types, TypeOK, Held, Running
<1>. QED  BY CoreInvariant, <1>1, PTL

LEMMA HeadIsMapped ==
    ASSUME Core, NEW p \in Procs, NEW s, NEW r, NEW t, Doing(p, s, r, t),
           Within(p, s, Dst(p)), s.tag # "new", todo[p] # <<>>
    PROVE  impl[Dst(p)] \in Mapped(p) \cup {None}
<1>1. /\ s \in Views /\ Placed(p, s) /\ MapsIn(p, s) = Mapped(p) /\ Agrees(p, s)
  BY SeenMaps, AgreesUnlessNew DEF Doing, Sees
<1>2. Dst(p) \in Ops(todo[p]) /\ Dst(p) \in Handles
  BY OpsHeadTail DEF Core, Types, Dst, Within
<1>3. s.impl[Dst(p)] \in MapsIn(p, s) \cup {None}
  BY <1>1, <1>2, WithinPlaced DEF Placed
<1>. QED  BY <1>1, <1>2, <1>3 DEF Agrees

LEMMA CoreMapped ==
    ASSUME Core, NEW p \in Procs
    PROVE  /\ At(p, "unbind") \/ At(p, "drop") => impl[Dst(p)] \in Mapped(p) \cup {None}
           /\ At(p, "bind") => impl[Src(p)] \in Mapped(p) \cup {None}
           /\ At(p, "destroy") \/ At(p, "free") => HeapOf[target[Dst(p)]] \in Mapped(p)
<1>. SUFFICES ASSUME todo[p] # <<>>
              PROVE  /\ At(p, "unbind") \/ At(p, "drop") => impl[Dst(p)] \in Mapped(p) \cup {None}
                     /\ At(p, "bind") => impl[Src(p)] \in Mapped(p) \cup {None}
                     /\ At(p, "destroy") \/ At(p, "free") => HeapOf[target[Dst(p)]] \in Mapped(p)
  BY DEF At
<1>1. PICK s, r, t : Doing(p, s, r, t)
  BY StepDoes
<1>2. /\ Moves(p, Head(todo[p]), s, r) /\ s \in Views /\ Placed(p, s) /\ MapsIn(p, s) = Mapped(p)
  BY <1>1, SeenMaps DEF Doing, Sees
<1>3. Dst(p) \in Ops(todo[p]) /\ Src(p) \in Ops(todo[p])
  BY OpsHeadTail DEF Core, Types, Dst, Src
<1>4. ASSUME At(p, "unbind") \/ At(p, "drop")
      PROVE  impl[Dst(p)] \in Mapped(p) \cup {None}
  <2>1. UnbindIn(p, Dst(p), s, r) \/ DropIn(p, Dst(p), s, r)
    BY <1>2, <1>4, MovesIs DEF At, Dst
  <2>2. Within(p, s, Dst(p)) /\ s.tag # "new"
    BY <2>1 DEF UnbindIn, DropIn, Clean
  <2>. QED  BY <1>1, <2>2, HeadIsMapped
<1>5. ASSUME At(p, "bind")
      PROVE  impl[Src(p)] \in Mapped(p) \cup {None}
  <2>1. BindIn(p, Dst(p), Src(p), s, r)
    BY <1>2, <1>5, MovesIs DEF At, Dst, Src
  <2>2. Within(p, s, Src(p)) /\ s.tag # "new" /\ Src(p) \in Handles
    BY <2>1 DEF BindIn, Free, Tagged, Clean, Within
  <2>3. s.impl[Src(p)] = impl[Src(p)]
    BY <1>1, <1>3, <2>2, AgreesUnlessNew DEF Agrees
  <2>4. s.impl[Src(p)] \in MapsIn(p, s) \cup {None}
    BY <1>2, <2>2, WithinPlaced DEF Placed
  <2>. QED  BY <1>2, <2>3, <2>4
<1>6. ASSUME At(p, "destroy") \/ At(p, "free")
      PROVE  HeapOf[target[Dst(p)]] \in Mapped(p)
  <2>1. DestroyIn(p, Dst(p), s, r) \/ FreeIn(p, Dst(p), s, r)
    BY <1>2, <1>6, MovesIs DEF At, Dst
  <2>2. /\ Within(p, s, Dst(p)) /\ s.tag # "new" /\ Dst(p) \in Uniques
        /\ s.target[Dst(p)] # None /\ Dst(p) \in Handles
    BY <2>1 DEF DestroyIn, FreeIn, Tagged, Clean, Within
  <2>3. s.target[Dst(p)] = target[Dst(p)]
    BY <1>1, <1>3, <2>2, AgreesUnlessNew DEF Agrees
  <2>4. HeapOf[s.target[Dst(p)]] \in MapsIn(p, s)
    BY <1>2, <2>2, WithinTarget DEF Placed
  <2>. QED  BY <1>2, <2>3, <2>4
<1>. QED  BY <1>4, <1>5, <1>6

(* A process touches a counter, or a block, only of a memory that it maps, *)
(* whatever the calls are and however they interleave: see NoUseAfterUnmap.*)
THEOREM HandlesStayMapped == Spec => []NoUseAfterUnmap
<1>1. Core => NoUseAfterUnmap
  BY CoreMapped DEF NoUseAfterUnmap
<1>. QED  BY CoreInvariant, <1>1, PTL

-----------------------------------------------------------------------------
(* The bind counter.  A handle that is to be overwritten counts no more.   *)

If(c) == IF c THEN 1 ELSE 0
CountOf(f, m) == Cardinality({h \in Handles : f[h] = m})
SetAt(f, g, d, n) == g[d] = n /\ \A h \in Handles \ {d} : g[h] = f[h]

LEMMA CountIsNat ==
    ASSUME NEW f, NEW m
    PROVE  IsFiniteSet({h \in Handles : f[h] = m}) /\ CountOf(f, m) \in Nat
<1>1. {h \in Handles : f[h] = m} \subseteq Handles
  OBVIOUS
<1>2. IsFiniteSet({h \in Handles : f[h] = m})
  BY <1>1, KindsAssumption, FS_Subset
<1>. QED  BY <1>2, FS_CardinalityType DEF CountOf

LEMMA CountSame ==
    ASSUME NEW f, NEW g, NEW m, \A h \in Handles : g[h] = m <=> f[h] = m
    PROVE  CountOf(g, m) = CountOf(f, m)
<1>1. {h \in Handles : g[h] = m} = {h \in Handles : f[h] = m}
  OBVIOUS
<1>. QED  BY <1>1 DEF CountOf

LEMMA CountSet ==
    ASSUME NEW f, NEW g, NEW d \in Handles, NEW n, SetAt(f, g, d, n), NEW m
    PROVE  CountOf(g, m) = CountOf(f, m) - If(f[d] = m) + If(n = m)
<1>. DEFINE A == {h \in Handles : f[h] = m}
            B == {h \in Handles : g[h] = m}
<1>1. IsFiniteSet(A) /\ Cardinality(A) \in Nat
  BY CountIsNat DEF CountOf
<1>2. d \in A <=> f[d] = m
  OBVIOUS
<1>3. B = IF n = m THEN A \cup {d} ELSE A \ {d}
  BY DEF SetAt
<1>4. CountOf(f, m) = Cardinality(A) /\ CountOf(g, m) = Cardinality(B)
  BY DEF CountOf
<1>. HIDE DEF A, B
<1>5. CASE n = m
  <2>1. B = A \cup {d}
    BY <1>3, <1>5
  <2>2. Cardinality(B) = IF d \in A THEN Cardinality(A) ELSE Cardinality(A) + 1
    BY <1>1, <2>1, FS_AddElement
  <2>. QED  BY <1>1, <1>2, <1>4, <1>5, <2>2 DEF If
<1>6. CASE n # m
  <2>1. B = A \ {d}
    BY <1>3, <1>6
  <2>2. Cardinality(B) = IF d \in A THEN Cardinality(A) - 1 ELSE Cardinality(A)
    BY <1>1, <2>1, FS_RemoveElement
  <2>. QED  BY <1>1, <1>2, <1>4, <1>6, <2>2 DEF If
<1>. QED  BY <1>5, <1>6

LEMMA CountExchanged ==
    ASSUME NEW f, NEW g, NEW d \in Handles, NEW c \in Handles, d # c, g[d] = f[c], g[c] = f[d],
           \A h \in Handles \ {d, c} : g[h] = f[h], NEW m
    PROVE  CountOf(g, m) = CountOf(f, m)
<1>1. PICK k : k = [h \in Handles |-> IF h = d THEN f[c] ELSE f[h]]
  OBVIOUS
<1>2. SetAt(f, k, d, f[c]) /\ SetAt(k, g, c, f[d]) /\ k[c] = f[c]
  BY <1>1 DEF SetAt
<1>3. CountOf(k, m) = CountOf(f, m) - If(f[d] = m) + If(f[c] = m)
  BY <1>2, CountSet
<1>4. CountOf(g, m) = CountOf(k, m) - If(k[c] = m) + If(f[d] = m)
  BY <1>2, CountSet
<1>5. CountOf(f, m) \in Nat /\ CountOf(g, m) \in Nat /\ CountOf(k, m) \in Nat
  BY CountIsNat
<1>6. If(f[d] = m) \in Int /\ If(f[c] = m) \in Int
  BY DEF If
<1>. QED  BY <1>2, <1>3, <1>4, <1>5, <1>6

-----------------------------------------------------------------------------
(* What each handle counts for.                                            *)

Refs == [h \in Handles |-> IF \E q \in Procs : h \in Overwrites(todo[q]) THEN None ELSE impl[h]]
RefIn(s, h) == IF Tagged(s, "stale", h) THEN None ELSE s.impl[h]

(* A memory that some process maps, that nobody died with, and that is     *)
(* not about to be created.                                                *)
Good(m) ==
    /\ UsersOf(m) # {} /\ m \notin tainted
    /\ \A p \in Procs : At(p, "create") => Src(p) # m
Counts == \A m \in Memories : Good(m) => bind[m] = CountOf(Refs, m)

(* What nobody but p can be about to overwrite. *)
Involved(p, h) == Home[h] = p \/ h \in Ops(todo[p])

LEMMA OthersOverwrite ==
    ASSUME Core, NEW p \in Procs, NEW q \in Procs, q # p, NEW h \in Handles, Involved(p, h)
    PROVE  h \notin Overwrites(todo[q])
<1>1. h \notin Ops(todo[q])
  BY OwnUnused DEF Involved, Core, Apart
<1>2. todo[q] \in Seq(Steps)
  BY DEF Core, Types
<1>. QED  BY <1>1, <1>2, OverwritesOps

LEMMA RefsBefore ==
    ASSUME Core, NEW p \in Procs, NEW s, NEW r, NEW t, Doing(p, s, r, t), todo[p] # <<>>,
           s.tag # "new", NEW h \in Handles, Involved(p, h)
    PROVE  Refs[h] = RefIn(s, h)
<1>1. s.impl[h] = impl[h]
  BY AgreesUnlessNew DEF Agrees, Involved
<1>x. PICK x : x = Head(todo[p])
  OBVIOUS
<1>2. /\ x[1] \in {"bind", "take", "clear"} => Free(s, x[2])
      /\ s.tag = "stale" => x[1] \in {"bind", "take", "clear"} /\ Free(s, x[2])
  BY <1>x, MovesStale DEF Doing
<1>3. Overwrites(todo[p]) = IF x[1] \in {"bind", "take", "clear"} THEN {x[2]} ELSE {}
  BY <1>x DEF Overwrites
<1>4. (\E q \in Procs : h \in Overwrites(todo[q])) <=> h \in Overwrites(todo[p])
  BY OthersOverwrite
<1>. QED  BY <1>1, <1>2, <1>3, <1>4 DEF Refs, RefIn, Free, Tagged, Clean

LEMMA RefsAfter ==
    ASSUME Core, NEW p \in Procs, StepOf(p), NEW s, NEW r, NEW t, Doing(p, s, r, t),
           NEW h \in Handles, Involved(p, h)
    PROVE  Refs'[h] = RefIn(r, h)
<1>1. r.impl[h] = impl'[h]
  <2>1. CASE DoNewFails(p)
    <3>1. r = s /\ s.tag # "new" /\ impl' = impl
      BY <2>1, NewFailsIs DEF NewIn, Clean
    <3>. QED  BY <3>1, AgreesUnlessNew DEF Agrees, Involved
  <2>2. CASE ~DoNewFails(p)
    BY <2>2, StepEffect DEF Effect, Involved
  <2>. QED  BY <2>1, <2>2
<1>2. PICK w : w = todo'[p]
  OBVIOUS
<1>3. /\ h \in Overwrites(w) => r.impl[h] = None \/ Tagged(r, "stale", h)
      /\ Tagged(r, "stale", h) => h \in Overwrites(w)
  <2>1. CASE DoNewFails(p)
    <3>1. NewIn(p, Dst(p), Src(p), s, r) /\ w = Destruct(Dst(p))
      BY <1>2, <2>1, StepTodo, NewFailsIs DEF Core, Types
    <3>2. Dst(p) \in Handles /\ ~Tagged(r, "stale", h)
      BY <3>1 DEF NewIn, Clean, Tagged
    <3>3. Overwrites(w) = {}
      BY <3>1 DEF Overwrites, Destruct, Step, Unbind, Clear
    <3>. QED  BY <3>2, <3>3
  <2>2. CASE ~DoNewFails(p)
    <3>0. todo[p] \in Seq(Steps) /\ todo[p] # <<>>
      BY StepHasHead
    <3>1. w = Tail(todo[p]) /\ w \in Seq(Steps)
      BY <1>2, <2>2, <3>0, StepTodo, OpsHeadTail DEF Core, Types
    <3>2. Runs(p, w, r, t) /\ Rest(t)
      BY <3>1 DEF Doing
    <3>. QED  BY <3>1, <3>2, RunsStale
  <2>. QED  BY <2>1, <2>2
<1>4. \A q \in Procs \ {p} : todo'[q] = todo[q] /\ h \notin Overwrites(todo[q])
  BY StepOnlyBy, OthersOverwrite DEF OnlyBy
<1>5. (\E q \in Procs : h \in Overwrites(todo'[q])) <=> h \in Overwrites(w)
  BY <1>2, <1>4
<1>6. Refs'[h] = IF \E q \in Procs : h \in Overwrites(todo'[q]) THEN None ELSE impl'[h]
  BY DEF Refs, Overwrites
<1>. QED  BY <1>1, <1>3, <1>5, <1>6 DEF RefIn

LEMMA RefsElsewhere ==
    ASSUME Core, NEW p \in Procs, StepOf(p), NEW s, NEW r, NEW t, Doing(p, s, r, t),
           NEW h \in Handles, ~Involved(p, h)
    PROVE  Refs'[h] = IF At(p, "create") /\ Home[h] = Src(p) THEN None ELSE Refs[h]
<1>1. \A q \in Procs \ {p} : todo'[q] = todo[q]
  BY StepOnlyBy DEF OnlyBy
<1>2. h \notin Overwrites(todo[p])
  BY StepHasHead, OverwritesOps DEF Involved
<1>3. h \notin Overwrites(todo'[p])
  <2>1. todo'[p] \in Seq(Steps)
    BY StepTypes DEF Types
  <2>2. h \notin Ops(todo'[p])
    BY StepApart DEF Involved
  <2>. QED  BY <2>1, <2>2, OverwritesOps
<1>4. (\E q \in Procs : h \in Overwrites(todo'[q])) <=> \E q \in Procs : h \in Overwrites(todo[q])
  BY <1>1, <1>2, <1>3
<1>5. /\ Refs'[h] = IF \E q \in Procs : h \in Overwrites(todo'[q]) THEN None ELSE impl'[h]
      /\ Refs[h] = IF \E q \in Procs : h \in Overwrites(todo[q]) THEN None ELSE impl[h]
  BY DEF Refs, Overwrites
<1>6. CASE impl'[h] = impl[h] /\ ~(At(p, "create") /\ Home[h] = Src(p))
  BY <1>4, <1>5, <1>6
<1>7. CASE At(p, "create") /\ Home[h] = Src(p)
  <2>1. DoCreate(p)
    BY <1>7 DEF StepOf, At, DoBind, DoAttach, DoUnbind, DoDrop, DoStore, DoReady, DoMapping,
                DoNew, DoNewFails, DoTarget, DoDelete
  <2>2. h # Dst(p)
    BY StepHasHead DEF Involved
  <2>3. impl'[h] = None
    BY <1>7, <2>1, <2>2 DEF DoCreate
  <2>. QED  BY <1>5, <1>7, <2>3
<1>. QED  BY <1>6, <1>7, StepTouches, StepHasHead DEF Touches, Kept, Involved

(* What a step does to what the handles count for. *)
RefsStep(p, s, r, f, g) ==
    /\ \A h \in Handles : Involved(p, h) =>
           g[h] = RefIn(r, h) /\ (s.tag # "new" => f[h] = RefIn(s, h))
    /\ \A h \in Handles : ~Involved(p, h) =>
           g[h] = IF At(p, "create") /\ Home[h] = Src(p) THEN None ELSE f[h]

LEMMA StepRefs ==
    ASSUME Core, NEW p \in Procs, StepOf(p), NEW s, NEW r, NEW t, Doing(p, s, r, t),
           NEW f, f = Refs, NEW g, g = Refs'
    PROVE  RefsStep(p, s, r, f, g)
<1>1. todo[p] # <<>>
  BY StepHasHead
<1>. QED  BY <1>1, RefsBefore, RefsAfter, RefsElsewhere DEF RefsStep

-----------------------------------------------------------------------------
(* The counter follows.                                                    *)

Follows(f, g) == \A m \in Memories : bind'[m] = bind[m] + CountOf(g, m) - CountOf(f, m)

LEMMA CountedAt ==
    ASSUME Types, NEW k \in Memories \cup {None}, NEW n \in Int, NEW m \in Memories
    PROVE  Counted(k, n)[m] = bind[m] + (IF k = m THEN n ELSE 0)
<1>1. bind[m] \in Int /\ None # m
  BY HomesAssumption DEF Types
<1>2. CASE k = None
  BY <1>1, <1>2 DEF Counted
<1>3. CASE k # None
  BY <1>1, <1>3 DEF Counted, Types
<1>. QED  BY <1>2, <1>3

LEMMA OneMore ==
    ASSUME Types, NEW f, NEW g, NEW d \in Handles, NEW n \in Memories \cup {None},
           SetAt(f, g, d, n), f[d] = None, NEW k, k = n, bind' = Counted(k, 1)
    PROVE  Follows(f, g)
<1>. SUFFICES ASSUME NEW m \in Memories
              PROVE  bind'[m] = bind[m] + CountOf(g, m) - CountOf(f, m)
  BY DEF Follows
<1>1. CountOf(g, m) = CountOf(f, m) - If(f[d] = m) + If(n = m)
  BY CountSet
<1>2. CountOf(f, m) \in Nat /\ CountOf(g, m) \in Nat /\ bind[m] \in Int /\ None # m
  BY CountIsNat, HomesAssumption DEF Types
<1>3. bind'[m] = bind[m] + (IF n = m THEN 1 ELSE 0)
  BY CountedAt
<1>. QED  BY <1>1, <1>2, <1>3 DEF If

LEMMA OneLess ==
    ASSUME Types, NEW f, NEW g, NEW d \in Handles, SetAt(f, g, d, None),
           f[d] \in Memories \cup {None}, NEW k, k = f[d], bind' = Counted(k, -1)
    PROVE  Follows(f, g)
<1>. SUFFICES ASSUME NEW m \in Memories
              PROVE  bind'[m] = bind[m] + CountOf(g, m) - CountOf(f, m)
  BY DEF Follows
<1>1. CountOf(g, m) = CountOf(f, m) - If(f[d] = m) + If(None = m)
  BY CountSet
<1>2. CountOf(f, m) \in Nat /\ CountOf(g, m) \in Nat /\ bind[m] \in Int /\ None # m
  BY CountIsNat, HomesAssumption DEF Types
<1>3. bind'[m] = bind[m] + (IF k = m THEN -1 ELSE 0)
  BY CountedAt
<1>. QED  BY <1>1, <1>2, <1>3 DEF If

LEMMA NoneMore ==
    ASSUME Types, NEW f, NEW g, bind' = bind,
           \A m \in Memories : CountOf(g, m) = CountOf(f, m)
    PROVE  Follows(f, g)
<1>. SUFFICES ASSUME NEW m \in Memories
              PROVE  bind'[m] = bind[m] + CountOf(g, m) - CountOf(f, m)
  BY DEF Follows
<1>1. CountOf(f, m) \in Nat /\ CountOf(g, m) = CountOf(f, m) /\ bind[m] \in Int
  BY CountIsNat DEF Types
<1>. QED  BY <1>1

LEMMA BindRefs ==
    ASSUME NEW p, NEW s \in Views, NEW r, NEW f, NEW g, RefsStep(p, s, r, f, g), ~At(p, "create"),
           NEW d, NEW c, BindIn(p, d, c, s, r), Involved(p, d), Involved(p, c)
    PROVE  SetAt(f, g, d, s.impl[c]) /\ f[d] = None /\ d \in Handles
<1>1. /\ d \in Handles /\ c \in Handles /\ Free(s, d) /\ Clean(r) /\ s.tag # "new"
      /\ r.impl[d] = s.impl[c] /\ \A h \in Handles \ {d} : r.impl[h] = s.impl[h]
  BY ViewFields DEF BindIn, Within, Becomes, Free, Clean, Tagged
<1>. QED  BY <1>1 DEF RefsStep, RefIn, SetAt, Free, Tagged, Clean

LEMMA AttachRefs ==
    ASSUME NEW p, NEW s \in Views, NEW r, NEW f, NEW g, RefsStep(p, s, r, f, g), ~At(p, "create"),
           NEW d, NEW m, AttachIn(p, d, m, s, r), Involved(p, d)
    PROVE  SetAt(f, g, d, m) /\ f[d] = None /\ d \in Handles
<1>1. /\ d \in Handles /\ Clean(s) /\ s.impl[d] = None /\ Clean(r) /\ s.tag # "new"
      /\ r.impl[d] = m /\ \A h \in Handles \ {d} : r.impl[h] = s.impl[h]
  BY ViewFields DEF AttachIn, Becomes, Clean
<1>. QED  BY <1>1 DEF RefsStep, RefIn, SetAt, Tagged, Clean

LEMMA UnbindRefs ==
    ASSUME NEW p, NEW s \in Views, NEW r, NEW f, NEW g, RefsStep(p, s, r, f, g), ~At(p, "create"),
           NEW d, UnbindIn(p, d, s, r) \/ DropIn(p, d, s, r), Involved(p, d)
    PROVE  SetAt(f, g, d, None) /\ f[d] = s.impl[d] /\ d \in Handles
<1>1. d \in Handles /\ Clean(s) /\ s.tag # "new"
  BY DEF UnbindIn, DropIn, Within, Clean
<1>2. CASE UnbindIn(p, d, s, r)
  <2>1. Tagged(r, "stale", d) /\ r.impl = s.impl
    BY <1>2 DEF UnbindIn, Becomes
  <2>. QED  BY <1>1, <2>1 DEF RefsStep, RefIn, SetAt, Tagged, Clean
<1>3. CASE DropIn(p, d, s, r)
  <2>1. Clean(r) /\ r.impl[d] = None /\ \A h \in Handles \ {d} : r.impl[h] = s.impl[h]
    BY <1>1, <1>3, ViewFields DEF DropIn, Becomes
  <2>. QED  BY <1>1, <2>1 DEF RefsStep, RefIn, SetAt, Tagged, Clean
<1>. QED  BY <1>2, <1>3

LEMMA ClearRefs ==
    ASSUME NEW p, NEW s \in Views, NEW r, NEW f, NEW g, RefsStep(p, s, r, f, g), ~At(p, "create"),
           NEW d, ClearIn(p, d, s, r), Involved(p, d)
    PROVE  \A h \in Handles : g[h] = f[h]
<1>1. /\ d \in Handles /\ Tagged(s, "stale", d) /\ Clean(r) /\ s.tag # "new"
      /\ r.impl[d] = None /\ \A h \in Handles \ {d} : r.impl[h] = s.impl[h]
  BY ViewFields DEF ClearIn, Within, Becomes, Tagged
<1>. QED  BY <1>1 DEF RefsStep, RefIn, Tagged, Clean

LEMMA TakeRefs ==
    ASSUME NEW p, NEW s \in Views, NEW r, NEW f, NEW g, RefsStep(p, s, r, f, g), ~At(p, "create"),
           NEW d, NEW c, TakeIn(p, d, c, s, r) \/ TakeAllIn(p, d, c, s, r),
           Involved(p, d), Involved(p, c)
    PROVE  /\ d \in Handles /\ c \in Handles /\ d # c /\ g[d] = f[c] /\ g[c] = f[d]
           /\ \A h \in Handles \ {d, c} : g[h] = f[h]
<1>1. /\ d \in Handles /\ c \in Handles /\ d # c /\ Free(s, d) /\ Clean(r) /\ s.tag # "new"
      /\ r.impl = Taken(s.impl, d, c)
  BY HeldAreHandles DEF TakeIn, TakeAllIn, Within, Becomes, Free, Clean, Tagged
<1>2. /\ r.impl[d] = s.impl[c] /\ r.impl[c] = None
      /\ \A h \in Handles \ {d, c} : r.impl[h] = s.impl[h]
  BY <1>1, ViewFields DEF Taken
<1>. QED  BY <1>1, <1>2 DEF RefsStep, RefIn, Free, Tagged, Clean

LEMMA SwapRefs ==
    ASSUME NEW p, NEW s \in Views, NEW r, NEW f, NEW g, RefsStep(p, s, r, f, g), ~At(p, "create"),
           NEW d, NEW c, SwapIn(p, d, c, s, r) \/ SwapAllIn(p, d, c, s, r),
           Involved(p, d), Involved(p, c)
    PROVE  /\ d \in Handles /\ c \in Handles /\ d # c /\ g[d] = f[c] /\ g[c] = f[d]
           /\ \A h \in Handles \ {d, c} : g[h] = f[h]
<1>1. /\ d \in Handles /\ c \in Handles /\ d # c /\ Clean(s) /\ Clean(r) /\ s.tag # "new"
      /\ r.impl = Swapped(s.impl, d, c)
  BY HeldAreHandles DEF SwapIn, SwapAllIn, Within, Becomes, Clean
<1>2. /\ r.impl[d] = s.impl[c] /\ r.impl[c] = s.impl[d]
      /\ \A h \in Handles \ {d, c} : r.impl[h] = s.impl[h]
  BY <1>1, ViewFields DEF Swapped
<1>. QED  BY <1>1, <1>2 DEF RefsStep, RefIn, Tagged, Clean

(* The steps that leave the handles alone. *)
LEMMA OtherRefs ==
    ASSUME NEW p, NEW s \in Views, NEW r, NEW f, NEW g, RefsStep(p, s, r, f, g), ~At(p, "create"),
           s.tag \notin {"new", "stale"}, r.tag # "stale", r.impl = s.impl
    PROVE  \A h \in Handles : g[h] = f[h]
BY DEF RefsStep, RefIn, Tagged

LEMMA QuietMoves ==
    ASSUME NEW p, NEW x, NEW s, NEW r, Moves(p, x, s, r),
           x[1] \in {"ready", "new", "own", "movetarget", "swaptarget", "release", "forget",
                    "destroy", "free"}
    PROVE  s.tag \notin {"new", "stale"} /\ r.tag # "stale" /\ r.impl = s.impl
<1>1. /\ x[1] = "ready" => ReadyIn(x[2], x[3], s, r)
      /\ x[1] = "new" => NewIn(p, x[2], x[3], s, r)
      /\ x[1] = "own" => OwnIn(p, x[2], x[3], s, r)
      /\ x[1] = "movetarget" => MoveTargetIn(p, x[2], x[3], s, r)
      /\ x[1] = "swaptarget" => SwapTargetIn(p, x[2], x[3], s, r)
      /\ x[1] = "release" => ReleaseIn(p, x[2], s, r)
      /\ x[1] = "destroy" => DestroyIn(p, x[2], s, r)
      /\ x[1] = "free" => FreeIn(p, x[2], s, r)
      /\ x[1] = "forget" => ForgetIn(p, x[2], s, r)
  BY MovesIs
<1>. QED  BY <1>1 DEF ReadyIn, NewIn, OwnIn, MoveTargetIn, SwapTargetIn, ReleaseIn, DestroyIn, FreeIn,
                      ForgetIn, Becomes, Clean, Tagged

LEMMA StepFollows ==
    ASSUME Core, NEW p \in Procs, StepOf(p), ~At(p, "create"),
           NEW s, NEW r, NEW t, Doing(p, s, r, t), NEW f, NEW g, RefsStep(p, s, r, f, g)
    PROVE  Follows(f, g)
<1>t. Types /\ s \in Views
  BY DEF Core, Doing
<1>d. PICK d : d = Dst(p)
  OBVIOUS
<1>c. PICK c : c = Src(p)
  OBVIOUS
<1>x. PICK x : x = Head(todo[p])
  OBVIOUS
<1>0. /\ Moves(p, x, s, r) /\ x[2] = d /\ x[3] = c /\ \A op : At(p, op) => x[1] = op
      /\ Involved(p, d) /\ Involved(p, c)
  BY <1>c, <1>d, <1>x, StepHasHead DEF Doing, At, Dst, Src, Involved
<1>i. ASSUME s.tag # "new", NEW h \in Handles, Involved(p, h)
      PROVE  s.impl[h] = impl[h] /\ impl[h] \in Memories \cup {None}
  BY <1>i, <1>t, AgreesUnlessNew DEF Agrees, Involved, Types
<1>1. CASE DoBind(p)
  <2>1. BindIn(p, d, c, s, r) /\ bind' = Counted(impl[c], 1)
    BY <1>0, <1>1, <1>c, MovesIs DEF DoBind
  <2>2. SetAt(f, g, d, s.impl[c]) /\ f[d] = None /\ d \in Handles
    BY <1>0, <1>t, <2>1, BindRefs
  <2>3. c \in Handles /\ s.tag # "new"
    BY <2>1 DEF BindIn, Within, Free, Clean, Tagged
  <2>4. PICK n : n = impl[c]
    OBVIOUS
  <2>5. n \in Memories \cup {None} /\ SetAt(f, g, d, n) /\ bind' = Counted(n, 1)
    BY <1>0, <1>i, <2>1, <2>2, <2>3, <2>4
  <2>. QED  BY <1>t, <2>2, <2>5, OneMore
<1>2. CASE DoAttach(p)
  <2>1. AttachIn(p, d, c, s, r) /\ bind' = Counted(c, 1)
    BY <1>0, <1>2, <1>c, MovesIs DEF DoAttach
  <2>2. SetAt(f, g, d, c) /\ f[d] = None /\ d \in Handles
    BY <1>0, <1>t, <2>1, AttachRefs
  <2>3. c \in Memories
    BY <1>t, <2>1, MapsAreMemories DEF AttachIn
  <2>. QED  BY <1>t, <2>1, <2>2, <2>3, OneMore
<1>3. CASE DoUnbind(p) \/ DoDrop(p)
  <2>1. (UnbindIn(p, d, s, r) \/ DropIn(p, d, s, r)) /\ bind' = Counted(impl[d], -1)
    BY <1>0, <1>3, <1>d, MovesIs DEF DoUnbind, DoDrop
  <2>2. SetAt(f, g, d, None) /\ f[d] = s.impl[d] /\ d \in Handles
    BY <1>0, <1>t, <2>1, UnbindRefs
  <2>3. s.tag # "new"
    BY <2>1 DEF UnbindIn, DropIn, Clean
  <2>4. PICK n : n = impl[d]
    OBVIOUS
  <2>5. n = f[d] /\ f[d] \in Memories \cup {None} /\ bind' = Counted(n, -1)
    BY <1>0, <1>i, <2>1, <2>2, <2>3, <2>4
  <2>. QED  BY <1>t, <2>2, <2>5, OneLess
<1>4. CASE DoStore(p)
  <2>1. bind' = bind
    BY <1>4 DEF DoStore
  <2>2. CASE At(p, "clear")
    <3>1. ClearIn(p, d, s, r)
      BY <1>0, <2>2, MovesIs
    <3>2. \A h \in Handles : g[h] = f[h]
      BY <1>0, <1>t, <3>1, ClearRefs
    <3>3. \A m \in Memories : CountOf(g, m) = CountOf(f, m)
      BY <3>2, CountSame
    <3>. QED  BY <1>t, <2>1, <3>3, NoneMore
  <2>3. CASE At(p, "take") \/ At(p, "swap")
    <3>1. TakeIn(p, d, c, s, r) \/ SwapIn(p, d, c, s, r)
      BY <1>0, <2>3, MovesIs
    <3>2. /\ d \in Handles /\ c \in Handles /\ d # c /\ g[d] = f[c] /\ g[c] = f[d]
          /\ \A h \in Handles \ {d, c} : g[h] = f[h]
      BY <1>0, <1>t, <3>1, TakeRefs, SwapRefs
    <3>3. \A m \in Memories : CountOf(g, m) = CountOf(f, m)
      BY <3>2, CountExchanged
    <3>. QED  BY <1>t, <2>1, <3>3, NoneMore
  <2>. QED  BY <1>4, <2>2, <2>3 DEF DoStore
<1>5. CASE DoMapping(p)
  <2>1. bind' = bind
    BY <1>5 DEF DoMapping
  <2>2. CASE At(p, "unmap")
    <3>1. UnmapIn(p, d, s, r)
      BY <1>0, <2>2, MovesIs
    <3>2. s.tag \notin {"new", "stale"} /\ r.tag # "stale" /\ r.impl = s.impl
      BY <3>1 DEF UnmapIn, Clean, Becomes
    <3>3. \A h \in Handles : g[h] = f[h]
      BY <1>t, <3>2, OtherRefs
    <3>4. \A m \in Memories : CountOf(g, m) = CountOf(f, m)
      BY <3>3, CountSame
    <3>. QED  BY <1>t, <2>1, <3>4, NoneMore
  <2>3. CASE At(p, "takeall") \/ At(p, "swapall")
    <3>1. TakeAllIn(p, d, c, s, r) \/ SwapAllIn(p, d, c, s, r)
      BY <1>0, <2>3, MovesIs
    <3>2. /\ d \in Handles /\ c \in Handles /\ d # c /\ g[d] = f[c] /\ g[c] = f[d]
          /\ \A h \in Handles \ {d, c} : g[h] = f[h]
      BY <1>0, <1>t, <3>1, TakeRefs, SwapRefs
    <3>3. \A m \in Memories : CountOf(g, m) = CountOf(f, m)
      BY <3>2, CountExchanged
    <3>. QED  BY <1>t, <2>1, <3>3, NoneMore
  <2>. QED  BY <1>5, <2>2, <2>3 DEF DoMapping
<1>6. CASE DoReady(p) \/ DoNew(p) \/ DoNewFails(p) \/ DoTarget(p) \/ DoDelete(p)
  <2>1. bind' = bind
    BY <1>6 DEF DoReady, DoNew, DoNewFails, DoTarget, DoDelete, handleVars
  <2>2. x[1] \in {"ready", "new", "own", "movetarget", "swaptarget", "release", "forget", "destroy", "free"}
    BY <1>0, <1>6 DEF DoReady, DoNew, DoNewFails, DoTarget, DoDelete
  <2>3. s.tag \notin {"new", "stale"} /\ r.tag # "stale" /\ r.impl = s.impl
    BY <1>0, <2>2, QuietMoves
  <2>4. \A h \in Handles : g[h] = f[h]
    BY <1>t, <2>3, OtherRefs
  <2>5. \A m \in Memories : CountOf(g, m) = CountOf(f, m)
    BY <2>4, CountSame
  <2>. QED  BY <1>t, <2>1, <2>5, NoneMore
<1>7. ~DoCreate(p)
  BY DEF DoCreate
<1>. QED  BY <1>1, <1>2, <1>3, <1>4, <1>5, <1>6, <1>7 DEF StepOf

LEMMA CreateFollows ==
    ASSUME Core, NEW p \in Procs, StepOf(p), At(p, "create"),
           NEW s, NEW r, NEW t, Doing(p, s, r, t), NEW f, f = Refs, NEW g, RefsStep(p, s, r, f, g),
           NEW m \in Memories
    PROVE  IF m = Src(p) THEN bind'[m] = 1 /\ CountOf(g, m) = 1
           ELSE bind'[m] = bind[m] /\ CountOf(g, m) = CountOf(f, m)
<1>t. Types /\ InPlace /\ s \in Views
  BY DEF Core, Doing
<1>c. PICK c \in Memories : c = Src(p) /\ UsersOf(c) = {p}
  BY CreatorIsAlone
<1>d. PICK d : d = Dst(p)
  OBVIOUS
<1>1. bind' = [bind EXCEPT ![c] = 1]
  BY <1>c DEF StepOf, At, DoBind, DoAttach, DoUnbind, DoDrop, DoStore, DoCreate, DoReady, DoMapping,
              DoNew, DoNewFails, DoTarget, DoDelete
<1>2. CreateIn(p, d, c, s, r)
  BY <1>c, <1>d, MovesIs DEF Doing, At, Dst, Src
<1>3. /\ d \in Handles /\ Home[d] = p /\ Clean(r) /\ s.impl[d] = None
      /\ r.impl[d] = c /\ \A h \in Handles \ {d} : r.impl[h] = s.impl[h]
      /\ \A h \in Handles : s.impl[h] # c /\ (Home[h] = c => s.impl[h] = None)
      /\ s.tag = "new" /\ s.fresh = {c}
  BY <1>2, <1>t, ViewFields DEF CreateIn, Becomes
<1>4. \A h \in Handles : Home[h] = p => s.impl[h] = impl[h]
  BY DEF Doing, Sees
<1>5. \A h \in Ops(todo[p]) \cap Handles : Home[h] = p \/ Home[h] = c
  BY <1>3 DEF Doing, Sees
<1>6. \A h \in Handles : f[h] = impl[h] \/ f[h] = None
  BY DEF Refs
<1>7. \A h \in Handles : g[h] = IF Involved(p, h) THEN r.impl[h]
                                ELSE IF Home[h] = c THEN None ELSE f[h]
  BY <1>3, <1>c DEF RefsStep, RefIn, Tagged, Clean
<1>8. ASSUME NEW h \in Handles
      PROVE  Home[h] = c => impl[h] \in {c, None}
  <2>1. Placed(p, Now)
    BY <1>t DEF InPlace
  <2>. QED  BY <1>c, <2>1 DEF Placed, HandlePlaced, Fits, Now
<1>9. ASSUME NEW h \in Handles, impl[h] = c
      PROVE  Home[h] = c \/ Home[h] = p
  <2>1. CASE Home[h] \in Memories
    <3>1. Placed(p, Now)
      BY <1>t DEF InPlace
    <3>. QED  BY <1>9, <1>c, <2>1, <3>1, HomesAssumption DEF Placed, HandlePlaced, Fits, Now
  <2>2. CASE Home[h] \in Procs
    <3>1. PICK q \in Procs : q = Home[h]
      BY <2>2
    <3>2. impl[h] \in Mapped(q) \cup {None}
      BY <1>t, <3>1, MappedNow DEF InPlace, Placed, HandlePlaced, Now
    <3>3. q \in UsersOf(c)
      BY <1>9, <1>c, <3>2, HomesAssumption DEF UsersOf
    <3>. QED  BY <1>c, <3>1, <3>3
  <2>. QED  BY <2>1, <2>2, HomesAssumption
<1>10. CASE m = c
  <2>1. g[d] = c
    BY <1>3, <1>7 DEF Involved
  <2>2. ASSUME NEW h \in Handles, h # d
        PROVE  g[h] # c
    <3>1. CASE Involved(p, h)
      BY <1>3, <1>7, <2>2, <3>1
    <3>2. CASE ~Involved(p, h)
      <4>1. CASE Home[h] = c
        BY <1>7, <1>c, <3>2, <4>1, HomesAssumption
      <4>2. CASE Home[h] # c
        BY <1>6, <1>7, <1>9, <1>c, <3>2, <4>2, HomesAssumption DEF Involved
      <4>. QED  BY <4>1, <4>2
    <3>. QED  BY <3>1, <3>2
  <2>3. {h \in Handles : g[h] = c} = {d}
    BY <1>3, <2>1, <2>2
  <2>4. CountOf(g, c) = 1
    BY <2>3, FS_Singleton DEF CountOf
  <2>. QED  BY <1>1, <1>10, <1>c, <1>t, <2>4 DEF Types
<1>11. CASE m # c
  <2>1. ASSUME NEW h \in Handles
        PROVE  g[h] = m <=> f[h] = m
    <3>1. CASE Home[h] = c
      <4>1. f[h] # m
        BY <1>6, <1>8, <1>11, <3>1, HomesAssumption
      <4>2. g[h] # m
        BY <1>3, <1>7, <1>11, <3>1, <4>1, KindsAssumption, HomesAssumption
      <4>. QED  BY <4>1, <4>2
    <3>2. CASE Home[h] = p
      <4>1. h \notin Overwrites(todo[p])
        BY DEF Overwrites, At
      <4>2. f[h] = impl[h]
        BY <3>2, <4>1, OthersOverwrite DEF Refs, Involved
      <4>. QED  BY <1>3, <1>4, <1>7, <1>11, <3>2, <4>2, HomesAssumption DEF Involved
    <3>3. CASE Home[h] # c /\ Home[h] # p
      BY <1>5, <1>7, <3>3 DEF Involved
    <3>. QED  BY <3>1, <3>2, <3>3
  <2>2. CountOf(g, m) = CountOf(f, m)
    BY <2>1, CountSame
  <2>. QED  BY <1>1, <1>11, <1>c, <1>t, <2>2 DEF Types
<1>. QED  BY <1>10, <1>11, <1>c

-----------------------------------------------------------------------------
(* A step keeps the count, of every memory that is good.                   *)

LEMMA StepGood ==
    ASSUME Core, NEW p \in Procs, StepOf(p), NEW s, NEW r, NEW t, Doing(p, s, r, t),
           NEW m \in Memories, Good(m)', ~(At(p, "create") /\ Src(p) = m)
    PROVE  Good(m)
<1>1. OnlyBy(p) /\ Touches(p) /\ Mapped(p)' \subseteq Mapped(p)
  BY StepOnlyBy, StepTouches, StepMapped
<1>2. UsersOf(m) # {}
  <2>1. PICK q \in Procs : m \in Mapped(q)'
    BY DEF Good, UsersOf
  <2>2. m \in Mapped(q)
    BY <1>1, <2>1, OthersMapped
  <2>. QED  BY <2>2 DEF UsersOf
<1>3. m \notin tainted
  BY <1>1 DEF Good, Touches
<1>4. ASSUME NEW q \in Procs, q # p, At(q, "create")
      PROVE  Src(q) # m
  <2>1. todo'[q] = todo[q] /\ q \in alive'
    BY <1>1, <1>4 DEF OnlyBy, At
  <2>2. At(q, "create")' /\ Src(q)' = Src(q)
    BY <1>4, <2>1 DEF At, Src
  <2>. QED  BY <2>2 DEF Good
<1>. QED  BY <1>2, <1>3, <1>4 DEF Good

LEMMA StepCounts ==
    ASSUME Core, Counts, NEW p \in Procs, StepOf(p)
    PROVE  Counts'
<1>1. PICK s, r, t : Doing(p, s, r, t)
  BY StepHasHead, StepDoes
<1>f. PICK f : f = Refs
  OBVIOUS
<1>g. PICK g : g = Refs'
  OBVIOUS
<1>2. RefsStep(p, s, r, f, g)
  BY <1>1, <1>f, <1>g, StepRefs
<1>3. ASSUME NEW m \in Memories, Good(m)'
      PROVE  bind'[m] = CountOf(g, m)
  <2>1. CASE At(p, "create") /\ m = Src(p)
    BY <1>1, <1>2, <1>f, <2>1, CreateFollows
  <2>2. CASE ~(At(p, "create") /\ m = Src(p))
    <3>1. Good(m)
      BY <1>1, <1>3, <2>2, StepGood
    <3>2. bind[m] = CountOf(f, m)
      BY <1>f, <3>1 DEF Counts
    <3>3. CASE At(p, "create")
      BY <1>1, <1>2, <1>f, <2>2, <3>2, <3>3, CreateFollows
    <3>4. CASE ~At(p, "create")
      <4>1. Follows(f, g)
        BY <1>1, <1>2, <3>4, StepFollows
      <4>2. bind'[m] = bind[m] + CountOf(g, m) - CountOf(f, m)
        BY <4>1 DEF Follows
      <4>3. CountOf(f, m) \in Nat /\ CountOf(g, m) \in Nat
        BY CountIsNat
      <4>. QED  BY <3>2, <4>2, <4>3
    <3>. QED  BY <3>3, <3>4
  <2>. QED  BY <2>1, <2>2
<1>. QED  BY <1>3, <1>g DEF Counts, CountOf

(* The start of a call changes no handle. *)
LEMMA CallRefs ==
    ASSUME NEW p \in Procs, todo[p] = <<>>, \A q \in Procs \ {p} : todo'[q] = todo[q],
           impl' = impl, Begun(p)', NEW h \in Handles
    PROVE  Refs'[h] = Refs[h]
<1>1. /\ Refs'[h] = IF \E q \in Procs : h \in Overwrites(todo'[q]) THEN None ELSE impl[h]
      /\ Refs[h] = IF \E q \in Procs : h \in Overwrites(todo[q]) THEN None ELSE impl[h]
  BY DEF Refs, Overwrites
<1>2. h \notin Overwrites(todo[p])
  BY DEF Overwrites
<1>3. h \in Overwrites(todo'[p]) => impl[h] = None
  BY DEF Begun, Overwrites
<1>. QED  BY <1>1, <1>2, <1>3

LEMMA CallCounts ==
    ASSUME Counts, NEW p \in Procs, todo[p] = <<>>, \A q \in Procs \ {p} : todo'[q] = todo[q],
           impl' = impl, bind' = bind, alive' = alive, tainted' = tainted, Begun(p)',
           \A m \in Memories : Good(m)' => UsersOf(m) # {}
    PROVE  Counts'
<1>f. PICK f : f = Refs
  OBVIOUS
<1>g. PICK g : g = Refs'
  OBVIOUS
<1>1. ASSUME NEW m \in Memories, Good(m)'
      PROVE  bind'[m] = CountOf(g, m)
  <2>1. ASSUME NEW q \in Procs, At(q, "create")
        PROVE  Src(q) # m
    <3>1. todo'[q] = todo[q] /\ q \in alive'
      BY <2>1 DEF At
    <3>2. At(q, "create")' /\ Src(q)' = Src(q)
      BY <2>1, <3>1 DEF At, Src
    <3>. QED  BY <1>1, <3>2 DEF Good
  <2>2. Good(m)
    BY <1>1, <2>1 DEF Good
  <2>3. \A h \in Handles : g[h] = f[h]
    BY <1>f, <1>g, CallRefs
  <2>4. CountOf(g, m) = CountOf(f, m)
    BY <2>3, CountSame
  <2>. QED  BY <1>f, <2>2, <2>4 DEF Counts
<1>. QED  BY <1>1, <1>g DEF Counts, CountOf

LEMMA PlainCounts ==
    ASSUME Core, Counts, NEW p \in Procs, NEW w, Call(p, w), todo[p] = <<>>, Begun(p)'
    PROVE  Counts'
<1>1. /\ todo' = [todo EXCEPT ![p] = w] /\ impl' = impl /\ bind' = bind /\ shm' = shm
      /\ alive' = alive /\ tainted' = tainted
  BY DEF Call
<1>2. \A q \in Procs \ {p} : todo'[q] = todo[q]
  BY <1>1 DEF Core, Types
<1>3. \A m : UsersOf(m)' = UsersOf(m)
  BY <1>1 DEF UsersOf, Mapped
<1>4. \A m \in Memories : Good(m)' => UsersOf(m) # {}
  BY <1>3 DEF Good
<1>. QED  BY <1>1, <1>2, <1>4, CallCounts

LEMMA SetUpCounts ==
    ASSUME Core, Counts, NEW p \in Procs, NEW x \in Mallocs, SetUp(p, x)
    PROVE  Counts'
<1>m. PICK m : m = NameOf[x]
  OBVIOUS
<1>1. /\ Begun(p)'
      /\ UsersOf(m) = {} => At(p, "create")' /\ Src(p)' = m
  BY <1>m, SetUpKept
<1>w. PICK w : w = todo'[p]
  OBVIOUS
<1>2. w \in Seq(Steps)
  BY <1>1, <1>w DEF Begun, Core, Types
<1>3. \E first : SetsUp(p, x, m, first) /\ todo' = [todo EXCEPT ![p] = w]
  <2>1. \E first, k : SetsUp(p, x, m, first) /\ todo' = [todo EXCEPT ![p] = k]
    BY <1>m, SetUpIs
  <2>. QED  BY <1>w, <2>1 DEF Core, Types
<1>4. PICK first : SetsUp(p, x, m, first) /\ todo' = [todo EXCEPT ![p] = w]
  BY <1>3
<1>5. OnlyBy(p) /\ Mapped(p)' = Mapped(p) \cup {m}
  BY <1>2, <1>4, SetUpMaps
<1>6. ASSUME NEW k \in Memories, Good(k)'
      PROVE  UsersOf(k) # {}
  <2>1. PICK q \in Procs : k \in Mapped(q)'
    BY <1>6 DEF Good, UsersOf
  <2>2. CASE k \in Mapped(q)
    BY <2>2 DEF UsersOf
  <2>3. CASE k \notin Mapped(q)
    <3>1. k = m
      BY <1>5, <2>1, <2>3, OthersMapped
    <3>. QED  BY <1>1, <1>6, <3>1 DEF Good
  <2>. QED  BY <2>2, <2>3
<1>7. todo[p] = <<>> /\ \A q \in Procs \ {p} : todo'[q] = todo[q]
  BY <1>4, <1>5 DEF SetsUp, OnlyBy
<1>. QED  BY <1>1, <1>4, <1>6, <1>7, CallCounts DEF SetsUp

(* Nobody counts a memory that somebody died with. *)
LEMMA DieCounts ==
    ASSUME Core, Counts, NEW p \in Procs, Die(p)
    PROVE  Counts'
<1>t. Types /\ InPlace
  BY DEF Core
<1>1. /\ alive' = alive \ {p} /\ bind' = bind /\ tainted' = tainted \cup Mapped(p)
      /\ shm' = [x \in Held |-> IF Home[x] = p THEN None ELSE shm[x]]
      /\ impl' = [h \in Handles |-> IF Home[h] = p THEN None ELSE impl[h]]
      /\ todo'[p] = <<>> /\ \A q \in Procs \ {p} : todo'[q] = todo[q]
  BY <1>t DEF Die, Types
<1>2. \A q \in Procs : Mapped(q)' = IF q = p THEN {} ELSE Mapped(q)
  <2>1. \A q \in Procs : Mapped(q)' = {shm'[x] : x \in {y \in Held : Home[y] = q}} \ {None}
    BY DEF Mapped, Held
  <2>2. \A q \in Procs : Mapped(q) = {shm[x] : x \in {y \in Held : Home[y] = q}} \ {None}
    BY DEF Mapped, Held
  <2>3. Mapped(p)' = {}
    BY <1>1, <2>1
  <2>4. ASSUME NEW q \in Procs, q # p PROVE Mapped(q)' = Mapped(q)
    <3>1. \A x \in {y \in Held : Home[y] = q} : shm'[x] = shm[x]
      BY <1>1, <2>4
    <3>. QED  BY <2>1, <2>2, <3>1
  <2>. QED  BY <2>3, <2>4
<1>f. PICK f : f = Refs
  OBVIOUS
<1>g. PICK g : g = Refs'
  OBVIOUS
<1>3. ASSUME NEW m \in Memories, Good(m)'
      PROVE  bind'[m] = CountOf(g, m)
  <2>1. m \notin Mapped(p) /\ m \notin tainted /\ m # None
    BY <1>1, <1>3, HomesAssumption DEF Good
  <2>2. UsersOf(m) # {}
    BY <1>2, <1>3 DEF Good, UsersOf
  <2>3. ASSUME NEW q \in Procs, At(q, "create")
        PROVE  Src(q) # m
    <3>1. CASE q = p
      <4>1. PICK s, r, t : Doing(p, s, r, t)
        BY <2>3, <3>1, StepDoes DEF At
      <4>2. UsersOf(Src(p)) = {p}
        BY <2>3, <3>1, <4>1, CreatorIsAlone
      <4>. QED  BY <2>1, <3>1, <4>2 DEF UsersOf
    <3>2. CASE q # p
      <4>1. todo'[q] = todo[q] /\ q \in alive'
        BY <1>1, <2>3, <3>2 DEF At
      <4>2. At(q, "create")' /\ Src(q)' = Src(q)
        BY <2>3, <4>1 DEF At, Src
      <4>. QED  BY <1>3, <4>2 DEF Good
    <3>. QED  BY <3>1, <3>2
  <2>4. bind[m] = CountOf(f, m)
    BY <1>f, <2>1, <2>2, <2>3 DEF Counts, Good
  <2>5. ASSUME NEW h \in Handles
        PROVE  g[h] = m <=> f[h] = m
    <3>1. /\ g[h] = IF \E q \in Procs : h \in Overwrites(todo'[q]) THEN None ELSE impl'[h]
          /\ f[h] = IF \E q \in Procs : h \in Overwrites(todo[q]) THEN None ELSE impl[h]
      BY <1>f, <1>g DEF Refs, Overwrites
    <3>2. HandlePlaced(p, Now, h) /\ MapsIn(p, Now) = Mapped(p) /\ Now.impl = impl
      BY <1>t, MappedNow DEF InPlace, Placed, Now
    <3>3. CASE Home[h] = p
      <4>1. impl[h] # m /\ impl'[h] # m
        BY <1>1, <2>1, <3>2, <3>3 DEF HandlePlaced
      <4>. QED  BY <2>1, <3>1, <4>1
    <3>4. CASE Home[h] # p /\ h \in Overwrites(todo[p])
      <4>1. h \in Ops(todo[p])
        BY <1>t, <3>4, OverwritesOps DEF Types
      <4>2. Home[h] \in Mapped(p)
        BY <3>4, <4>1, OpsReachable DEF Reachable
      <4>3. impl[h] \in {Home[h], None}
        BY <1>t, <3>2, <4>2, MappedMemories DEF HandlePlaced, Fits
      <4>4. impl[h] # m /\ impl'[h] # m
        BY <1>1, <2>1, <4>2, <4>3
      <4>. QED  BY <2>1, <3>1, <4>4
    <3>5. CASE Home[h] # p /\ h \notin Overwrites(todo[p])
      <4>1. impl'[h] = impl[h] /\ h \notin Overwrites(todo'[p])
        BY <1>1, <3>5 DEF Overwrites
      <4>. QED  BY <1>1, <3>1, <3>5, <4>1
    <3>. QED  BY <3>3, <3>4, <3>5
  <2>6. CountOf(g, m) = CountOf(f, m)
    BY <2>5, CountSame
  <2>. QED  BY <1>1, <2>4, <2>6
<1>. QED  BY <1>3, <1>g DEF Counts, CountOf

LEMMA NextCounts ==
    ASSUME Core, Counts, Next
    PROVE  Counts'
<1>1. PICK p \in Procs : HandleCall(p) \/ MallocCall(p) \/ UniqueCall(p) \/ StepOf(p) \/ Die(p)
  BY DEF Next
<1>2. CASE HandleCall(p)
  <2>1. Begun(p)'
    BY <1>2, CopyKept, MoveKept, SwapKept, DropKept DEF HandleCall
  <2>2. todo[p] = <<>> /\ \E w : Call(p, w)
    BY <1>2 DEF HandleCall, CopyHandle, MoveHandle, SwapHandles, DropHandle, MayUse
  <2>. QED  BY <2>1, <2>2, PlainCounts
<1>3. CASE \E x \in Mallocs : SetUp(p, x)
  BY <1>3, SetUpCounts
<1>4. CASE MallocCall(p) /\ ~\E x \in Mallocs : SetUp(p, x)
  <2>1. Begun(p)'
    BY <1>4, DestroyMallocKept, MoveMallocKept DEF MallocCall
  <2>2. todo[p] = <<>> /\ \E w : Call(p, w)
    BY <1>4 DEF MallocCall, DestroyMalloc, MoveMalloc, MayUse
  <2>. QED  BY <2>1, <2>2, PlainCounts
<1>5. CASE UniqueCall(p)
  <2>1. Begun(p)'
    BY <1>5, MakeKept, MoveUniqueKept, SwapUniquesKept, OneKept DEF UniqueCall
  <2>2. todo[p] = <<>> /\ \E w : Call(p, w)
    BY <1>5 DEF UniqueCall, MakeUnique, MoveUnique, SwapUniques, ResetUnique, ReleaseUnique,
                ResetTo, DestroyUnique, MayUse
  <2>. QED  BY <2>1, <2>2, PlainCounts
<1>. QED  BY <1>1, <1>2, <1>3, <1>4, <1>5, StepCounts, DieCounts

LEMMA StutterCounts ==
    ASSUME Counts, UNCHANGED vars
    PROVE  Counts'
<1>1. /\ impl' = impl /\ bind' = bind /\ shm' = shm /\ todo' = todo /\ alive' = alive
      /\ tainted' = tainted
  BY DEF vars
<1>2. \A m : Good(m)' => Good(m)
  BY <1>1 DEF Good, UsersOf, Mapped, At, Src
<1>3. Refs' = Refs
  BY <1>1 DEF Refs, Overwrites
<1>. QED  BY <1>1, <1>2, <1>3 DEF Counts, CountOf

LEMMA CountsInvariant == Spec => [](Core /\ Counts)
<1>1. Init => Counts
  <2>. SUFFICES ASSUME Init, NEW m \in Memories PROVE ~Good(m)
    BY DEF Counts
  <2>1. \A p \in Procs : Mapped(p) = {}
    BY DEF Init, Mapped
  <2>. QED  BY <2>1 DEF Good, UsersOf
<1>2. Core /\ Counts /\ [Next]_vars => (Core /\ Counts)'
  BY NextCore, StutterCore, NextCounts, StutterCounts
<1>. QED  BY InitCore, <1>1, <1>2, PTL DEF Spec

LEMMA CountsExact ==
    ASSUME Core, Counts
    PROVE  BindCountIsExact
<1>. SUFFICES ASSUME NEW m \in Memories, Sound(m)
              PROVE  bind[m] = Cardinality({h \in Handles : impl[h] = m} \ Stale)
  BY DEF BindCountIsExact
<1>1. ASSUME NEW p \in Procs, At(p, "create")
      PROVE  Src(p) # m
  <2>1. PICK s, r, t : Doing(p, s, r, t)
    BY <1>1, StepDoes DEF At
  <2>2. Src(p) \notin ready
    BY <1>1, <2>1, CreatorIsAlone
  <2>. QED  BY <2>2 DEF Sound
<1>2. bind[m] = CountOf(Refs, m)
  BY <1>1 DEF Sound, Good, Counts
<1>3. ASSUME NEW h \in Handles
      PROVE  h \in Stale <=> \E q \in Procs : h \in Overwrites(todo[q])
  <2>1. ASSUME NEW q \in Procs
        PROVE  (At(q, "bind") \/ At(q, "take") \/ At(q, "clear")) /\ Dst(q) = h
               <=> h \in Overwrites(todo[q])
    <3>1. todo[q] # <<>> => q \in alive
      BY DEF Core, Running
    <3>. QED  BY <3>1 DEF At, Dst, Overwrites
  <2>. QED  BY <2>1 DEF Stale
<1>4. \A h \in Handles : Refs[h] = IF h \in Stale THEN None ELSE impl[h]
  BY <1>3 DEF Refs
<1>5. {h \in Handles : impl[h] = m} \ Stale = {h \in Handles : Refs[h] = m}
  BY <1>4, HomesAssumption
<1>. QED  BY <1>2, <1>5 DEF CountOf

(* The bind count of a heap is the number of the handles that are bound to *)
(* it, whatever was copied, moved, swapped and dropped by whom: see        *)
(* BindCountIsExact.                                                       *)
THEOREM CountsStayExact == Spec => []BindCountIsExact
BY CountsInvariant, CountsExact, PTL

-----------------------------------------------------------------------------
(* The objects.  A pointer that the next step forgets owns no more.        *)

Owns == [u \in Uniques |-> IF \E q \in Procs : u \in Forgets(todo[q]) THEN None ELSE target[u]]
Doomed == {u \in Uniques : \E q \in Procs : u \in Frees(todo[q])}
OwnsIn(s, u) == IF Tagged(s, "freed", u) THEN None ELSE s.target[u]

(* Of object o in state x, with the owners f of which some, D, delete. *)
OwnedBy(f, D, x, o) ==
    /\ \A u, v \in Uniques : f[u] = o /\ f[v] = o => u = v
    /\ \A u \in Uniques : f[u] = o => x = IF u \in D THEN "dead" ELSE "owned"
    /\ x = "owned" => \E u \in Uniques : f[u] = o

LEMMA OwnedSame ==
    ASSUME NEW f, NEW g, NEW D, NEW E, NEW x, NEW o, OwnedBy(f, D, x, o),
           \A u \in Uniques : g[u] = o <=> f[u] = o,
           \A u \in Uniques : f[u] = o => (u \in E <=> u \in D)
    PROVE  OwnedBy(g, E, x, o)
BY DEF OwnedBy

LEMMA OwnedNot ==
    ASSUME NEW f, NEW g, NEW D, NEW E, NEW x, NEW y, NEW o, OwnedBy(f, D, x, o),
           x \notin {"owned", "dead"}, y # "owned", \A u \in Uniques : g[u] = o => f[u] = o
    PROVE  OwnedBy(g, E, y, o)
BY DEF OwnedBy

LEMMA OwnedNew ==
    ASSUME NEW f, NEW g, NEW D, NEW E, NEW x, NEW o, OwnedBy(f, D, x, o), NEW u \in Uniques,
           x \notin {"owned", "dead"}, g[u] = o, u \notin E,
           \A v \in Uniques \ {u} : g[v] = f[v]
    PROVE  OwnedBy(g, E, "owned", o)
BY DEF OwnedBy

LEMMA OwnedExchanged ==
    ASSUME NEW f, NEW g, NEW D, NEW E, NEW x, NEW o, OwnedBy(f, D, x, o),
           NEW d \in Uniques, NEW c \in Uniques, d # c,
           g[d] = o <=> f[c] = o, g[c] = o <=> f[d] = o,
           \A u \in Uniques \ {d, c} : g[u] = o <=> f[u] = o,
           {d, c} \cap (D \cup E) = {}, \A u \in Uniques : u \in E <=> u \in D
    PROVE  OwnedBy(g, E, x, o)
BY DEF OwnedBy

LEMMA OwnedGone ==
    ASSUME NEW f, NEW g, NEW D, NEW E, NEW x, NEW y, NEW o, OwnedBy(f, D, x, o),
           NEW u \in Uniques, f[u] = o, g[u] # o, \A v \in Uniques \ {u} : g[v] = f[v],
           y # "owned"
    PROVE  OwnedBy(g, E, y, o)
BY DEF OwnedBy

LEMMA OwnedDying ==
    ASSUME NEW f, NEW g, NEW D, NEW E, NEW x, NEW o, OwnedBy(f, D, x, o),
           NEW u \in Uniques, f[u] = o, \A v \in Uniques : g[v] = f[v], u \in E
    PROVE  OwnedBy(g, E, "dead", o)
BY DEF OwnedBy

LEMMA OthersForget ==
    ASSUME Core, NEW p \in Procs, NEW q \in Procs, q # p, NEW h \in Handles, Involved(p, h)
    PROVE  h \notin Forgets(todo[q]) /\ h \notin Frees(todo[q])
<1>1. h \notin Ops(todo[q])
  BY OwnUnused DEF Involved, Core, Apart
<1>2. todo[q] \in Seq(Steps)
  BY DEF Core, Types
<1>3. todo[q] # <<>> => Head(todo[q])[2] \in Ops(todo[q])
  BY <1>2, OpsHeadTail
<1>. QED  BY <1>1, <1>3 DEF Forgets, Frees

LEMMA OwnsBefore ==
    ASSUME Core, NEW p \in Procs, NEW s, NEW r, NEW t, Doing(p, s, r, t), todo[p] # <<>>,
           NEW u \in Uniques, Involved(p, u)
    PROVE  /\ s.tag # "new" => Owns[u] = OwnsIn(s, u) /\ s.target[u] = target[u]
           /\ u \in Doomed <=> Tagged(s, "dying", u)
<1>0. u \in Handles
  BY KindsAreHandles
<1>1. s.tag # "new" => s.target[u] = target[u]
  BY <1>0, AgreesUnlessNew DEF Agrees, Involved
<1>2. PICK x : x = Head(todo[p])
  OBVIOUS
<1>3. /\ x[1] = "forget" <=> s.tag = "freed"
      /\ x[1] = "free" <=> s.tag = "dying"
      /\ s.tag \in {"freed", "dying"} => x[2] = s.who
  BY <1>2, MovesFreed DEF Doing
<1>4. /\ u \in Forgets(todo[p]) <=> Tagged(s, "freed", u)
      /\ u \in Frees(todo[p]) <=> Tagged(s, "dying", u)
  BY <1>2, <1>3 DEF Forgets, Frees, Tagged
<1>5. /\ (\E q \in Procs : u \in Forgets(todo[q])) <=> u \in Forgets(todo[p])
      /\ (\E q \in Procs : u \in Frees(todo[q])) <=> u \in Frees(todo[p])
  BY <1>0, OthersForget
<1>. QED  BY <1>1, <1>4, <1>5 DEF Owns, OwnsIn, Doomed

LEMMA OwnsAfter ==
    ASSUME Core, NEW p \in Procs, StepOf(p), NEW s, NEW r, NEW t, Doing(p, s, r, t),
           NEW u \in Uniques, Involved(p, u)
    PROVE  /\ Owns'[u] = OwnsIn(r, u) /\ r.target[u] = target'[u]
           /\ u \in Doomed' <=> Tagged(r, "dying", u)
<1>0. u \in Handles
  BY KindsAreHandles
<1>1. r.target[u] = target'[u]
  <2>1. CASE DoNewFails(p)
    <3>1. r = s /\ s.tag # "new" /\ target' = target
      BY <2>1, NewFailsIs DEF NewIn, Clean
    <3>. QED  BY <1>0, <3>1, AgreesUnlessNew DEF Agrees, Involved
  <2>2. CASE ~DoNewFails(p)
    BY <1>0, <2>2, StepEffect DEF Effect, Involved
  <2>. QED  BY <2>1, <2>2
<1>2. PICK w : w = todo'[p]
  OBVIOUS
<1>3. /\ u \in Forgets(w) <=> Tagged(r, "freed", u)
      /\ u \in Frees(w) <=> Tagged(r, "dying", u)
  <2>1. CASE DoNewFails(p)
    <3>1. NewIn(p, Dst(p), Src(p), s, r) /\ w = Destruct(Dst(p))
      BY <1>2, <2>1, StepTodo, NewFailsIs DEF Core, Types
    <3>2. r.tag = "clean"
      BY <3>1 DEF NewIn, Clean
    <3>3. Forgets(w) = {} /\ Frees(w) = {}
      BY <3>1 DEF Forgets, Frees, Destruct, Step, Unbind, Clear
    <3>. QED  BY <3>2, <3>3 DEF Tagged
  <2>2. CASE ~DoNewFails(p)
    <3>0. todo[p] \in Seq(Steps) /\ todo[p] # <<>>
      BY StepHasHead
    <3>1. w = Tail(todo[p]) /\ w \in Seq(Steps)
      BY <1>2, <2>2, <3>0, StepTodo, OpsHeadTail DEF Core, Types
    <3>2. Runs(p, w, r, t) /\ Rest(t)
      BY <3>1 DEF Doing
    <3>. QED  BY <3>1, <3>2, RunsFreed
  <2>. QED  BY <2>1, <2>2
<1>4. \A q \in Procs \ {p} : /\ todo'[q] = todo[q]
                             /\ u \notin Forgets(todo[q]) /\ u \notin Frees(todo[q])
  BY <1>0, StepOnlyBy, OthersForget DEF OnlyBy
<1>5. /\ (\E q \in Procs : u \in Forgets(todo'[q])) <=> u \in Forgets(w)
      /\ (\E q \in Procs : u \in Frees(todo'[q])) <=> u \in Frees(w)
  BY <1>2, <1>4
<1>6. /\ Owns'[u] = IF \E q \in Procs : u \in Forgets(todo'[q]) THEN None ELSE target'[u]
      /\ u \in Doomed' <=> \E q \in Procs : u \in Frees(todo'[q])
  BY DEF Owns, Doomed, Forgets, Frees
<1>. QED  BY <1>1, <1>3, <1>5, <1>6 DEF OwnsIn

LEMMA OwnsElsewhere ==
    ASSUME Core, NEW p \in Procs, StepOf(p), NEW s, NEW r, NEW t, Doing(p, s, r, t),
           NEW u \in Uniques, ~Involved(p, u)
    PROVE  /\ Owns'[u] = IF At(p, "create") /\ Home[u] = Src(p) THEN None ELSE Owns[u]
           /\ u \in Doomed' <=> u \in Doomed
<1>0. u \in Handles
  BY KindsAreHandles
<1>1. \A q \in Procs \ {p} : todo'[q] = todo[q]
  BY StepOnlyBy DEF OnlyBy
<1>2. u \notin Forgets(todo[p]) /\ u \notin Frees(todo[p])
  BY StepHasHead, OpsHeadTail DEF Involved, Forgets, Frees
<1>3. u \notin Forgets(todo'[p]) /\ u \notin Frees(todo'[p])
  <2>1. todo'[p] \in Seq(Steps)
    BY StepTypes DEF Types
  <2>2. u \notin Ops(todo'[p])
    BY <1>0, StepApart DEF Involved
  <2>3. todo'[p] # <<>> => Head(todo'[p])[2] \in Ops(todo'[p])
    BY <2>1, OpsHeadTail
  <2>. QED  BY <2>2, <2>3 DEF Forgets, Frees
<1>4. /\ (\E q \in Procs : u \in Forgets(todo'[q])) <=> \E q \in Procs : u \in Forgets(todo[q])
      /\ (\E q \in Procs : u \in Frees(todo'[q])) <=> \E q \in Procs : u \in Frees(todo[q])
  BY <1>1, <1>2, <1>3
<1>5. /\ Owns'[u] = IF \E q \in Procs : u \in Forgets(todo'[q]) THEN None ELSE target'[u]
      /\ Owns[u] = IF \E q \in Procs : u \in Forgets(todo[q]) THEN None ELSE target[u]
      /\ u \in Doomed' <=> \E q \in Procs : u \in Frees(todo'[q])
      /\ u \in Doomed <=> \E q \in Procs : u \in Frees(todo[q])
  BY DEF Owns, Doomed, Forgets, Frees
<1>6. CASE target'[u] = target[u] /\ ~(At(p, "create") /\ Home[u] = Src(p))
  BY <1>4, <1>5, <1>6
<1>7. CASE At(p, "create") /\ Home[u] = Src(p)
  <2>1. DoCreate(p)
    BY <1>7 DEF StepOf, At, DoBind, DoAttach, DoUnbind, DoDrop, DoStore, DoReady, DoMapping,
                DoNew, DoNewFails, DoTarget, DoDelete
  <2>2. target'[u] = None
    BY <1>7, <2>1 DEF DoCreate
  <2>. QED  BY <1>4, <1>5, <1>7, <2>2
<1>. QED  BY <1>0, <1>6, <1>7, StepTouches, StepHasHead DEF Touches, Kept, Involved

(* What a step does to who owns what. *)
OwnsStep(p, s, r, f, g, D, E) ==
    /\ \A u \in Uniques : Involved(p, u) =>
           /\ g[u] = OwnsIn(r, u) /\ (s.tag # "new" => f[u] = OwnsIn(s, u))
           /\ u \in D <=> Tagged(s, "dying", u)
           /\ u \in E <=> Tagged(r, "dying", u)
    /\ \A u \in Uniques : ~Involved(p, u) =>
           /\ g[u] = IF At(p, "create") /\ Home[u] = Src(p) THEN None ELSE f[u]
           /\ u \in E <=> u \in D

LEMMA StepOwns ==
    ASSUME Core, NEW p \in Procs, StepOf(p), NEW s, NEW r, NEW t, Doing(p, s, r, t),
           NEW f, f = Owns, NEW g, g = Owns', NEW D, D = Doomed, NEW E, E = Doomed'
    PROVE  OwnsStep(p, s, r, f, g, D, E)
<1>1. todo[p] # <<>>
  BY StepHasHead
<1>. QED  BY <1>1, OwnsBefore, OwnsAfter, OwnsElsewhere DEF OwnsStep

-----------------------------------------------------------------------------
(* What a call may still come to own: an object that it makes, or that its *)
(* caller gave it as a pointer.                                            *)

Plain == {x \in Steps : x[1] # "own"}
Quiet == {x \in Plain : x[1] # "create"}

(* A step still to come owns o, and none before it makes o. *)
Claims(w, o) ==
    \E j \in DOMAIN w : /\ w[j][1] = "own" /\ w[j][3] = o
                        /\ \A i \in DOMAIN w : i < j => ~(w[i][1] = "new" /\ w[i][3] = o)
(* At most one step owns, and no call that creates a memory. *)
Single(w) == \A i, j \in DOMAIN w : w[i][1] = "own" /\ w[j][1] \in {"own", "create"} => i = j

LEMMA PlainClaims ==
    ASSUME NEW w \in Seq(Plain)
    PROVE  Single(w) /\ \A o : ~Claims(w, o)
<1>1. \A i \in DOMAIN w : w[i] \in Plain
  OBVIOUS
<1>2. \A i \in DOMAIN w : w[i][1] # "own"
  BY <1>1 DEF Plain
<1>. QED  BY <1>2 DEF Single, Claims

LEMMA QuietPlain ==
    ASSUME NEW w \in Seq(Quiet)
    PROVE  w \in Seq(Plain) /\ w \in Seq(Steps)
<1>1. Quiet \subseteq Plain /\ Plain \subseteq Steps
  BY DEF Quiet, Plain
<1>. QED  BY <1>1

LEMMA PlainIsSteps ==
    ASSUME NEW w \in Seq(Plain)
    PROVE  w \in Seq(Steps)
<1>1. Plain \subseteq Steps
  BY DEF Plain
<1>. QED  BY <1>1

LEMMA QuietStep ==
    ASSUME NEW op \in StepNames \ {"own", "create"}, NEW d \in Things, NEW r \in Things,
           NEW x, x = Step(op, d, r)
    PROVE  x \in Quiet
BY StepFields DEF Quiet, Plain

(* A step that owns, among others that neither own nor create. *)
LEMMA OwnLast ==
    ASSUME NEW a \in Seq(Quiet), NEW x \in Steps, x[1] = "own", NEW w, w = a \o <<x>>
    PROVE  Single(w) /\ \A o : Claims(w, o) => o = x[3]
<1>1. PICK k \in Nat : k = Len(a)
  OBVIOUS
<1>2. DOMAIN w = 1..(k + 1) /\ w[k + 1] = x /\ \A i \in 1..k : w[i] = a[i]
  <2>1. a \in Seq(Steps) /\ <<x>> \in Seq(Steps)
    BY QuietPlain
  <2>. QED  BY <1>1, <2>1
<1>3. \A i \in 1..k : a[i] \in Quiet
  BY <1>1
<1>4. \A i \in 1..k : w[i][1] \notin {"own", "create"}
  BY <1>2, <1>3 DEF Quiet, Plain
<1>5. \A i \in DOMAIN w : w[i][1] \in {"own", "create"} => i = k + 1
  BY <1>2, <1>4
<1>. QED  BY <1>2, <1>5 DEF Single, Claims

LEMMA QuietAfter ==
    ASSUME NEW a \in Seq(Steps), NEW b \in Seq(Quiet), NEW w, w = a \o b, Single(a)
    PROVE  Single(w) /\ \A o : Claims(w, o) => Claims(a, o)
<1>1. PICK k \in Nat : k = Len(a)
  OBVIOUS
<1>2. PICK l \in Nat : l = Len(b)
  OBVIOUS
<1>3. /\ DOMAIN w = 1..(k + l) /\ DOMAIN a = 1..k
      /\ \A i \in 1..k : w[i] = a[i]
      /\ \A i \in (k + 1)..(k + l) : w[i] = b[i - k] /\ i - k \in 1..l
  <2>1. b \in Seq(Steps)
    BY QuietPlain
  <2>. QED  BY <1>1, <1>2, <2>1
<1>4. \A i \in 1..l : b[i] \in Quiet
  BY <1>2
<1>5. \A i \in (k + 1)..(k + l) : w[i][1] \notin {"own", "create"}
  BY <1>3, <1>4 DEF Quiet, Plain
<1>6. \A i \in DOMAIN w : w[i][1] \in {"own", "create"} => i \in DOMAIN a /\ w[i] = a[i]
  BY <1>3, <1>5
<1>7. DOMAIN a \subseteq DOMAIN w /\ \A i \in DOMAIN a : w[i] = a[i]
  BY <1>3
<1>8. Single(w)
  BY <1>6 DEF Single
<1>9. ASSUME NEW o, Claims(w, o) PROVE Claims(a, o)
  <2>1. PICK j \in DOMAIN w : /\ w[j][1] = "own" /\ w[j][3] = o
                              /\ \A i \in DOMAIN w : i < j => ~(w[i][1] = "new" /\ w[i][3] = o)
    BY <1>9 DEF Claims
  <2>2. j \in DOMAIN a /\ w[j] = a[j]
    BY <1>6, <2>1
  <2>. QED  BY <1>7, <2>1, <2>2 DEF Claims
<1>. QED  BY <1>8, <1>9

LEMMA TailAt ==
    ASSUME NEW w \in Seq(Steps), w # <<>>
    PROVE  /\ 1 \in DOMAIN w /\ Head(w) = w[1]
           /\ \A i \in DOMAIN Tail(w) : i + 1 \in DOMAIN w /\ Tail(w)[i] = w[i + 1] /\ i \in Nat \ {0}
           /\ \A i \in DOMAIN w : i = 1 \/ (i - 1 \in DOMAIN Tail(w) /\ i = (i - 1) + 1)
           /\ \A i \in DOMAIN w : i \in Nat \ {0}
<1>1. PICK k \in Nat : Len(w) = k + 1
  <2>1. Len(w) \in Nat /\ Len(w) # 0
    OBVIOUS
  <2>2. Len(w) - 1 \in Nat /\ Len(w) = (Len(w) - 1) + 1
    BY <2>1
  <2>. QED  BY <2>2
<1>b. PICK b : b = Tail(w)
  OBVIOUS
<1>2. b \in Seq(Steps) /\ Len(b) = k /\ \A i \in 1..k : b[i] = w[i + 1]
  BY <1>1, <1>b, HeadTailProperties
<1>3. DOMAIN w = 1..(k + 1) /\ DOMAIN b = 1..k /\ Head(w) = w[1]
  BY <1>1, <1>2
<1>4. ASSUME NEW i \in 1..k PROVE i + 1 \in 1..(k + 1) /\ i \in Nat \ {0}
  OBVIOUS
<1>5. ASSUME NEW i \in 1..(k + 1)
      PROVE  i \in Nat \ {0} /\ (i = 1 \/ (i - 1 \in 1..k /\ i = (i - 1) + 1))
  OBVIOUS
<1>6. 1 \in 1..(k + 1)
  OBVIOUS
<1>7. \A i \in DOMAIN b : i + 1 \in DOMAIN w /\ b[i] = w[i + 1] /\ i \in Nat \ {0}
  BY <1>2, <1>3, <1>4
<1>. QED  BY ONLY <1>3, <1>5, <1>6, <1>7, <1>b

LEMMA SingleTail ==
    ASSUME NEW w \in Seq(Steps), w # <<>>, Single(w)
    PROVE  /\ Single(Tail(w))
           /\ Head(w)[1] \in {"own", "create"} => \A o : ~Claims(Tail(w), o)
<1>1. PICK b : b = Tail(w)
  OBVIOUS
<1>2. /\ 1 \in DOMAIN w /\ Head(w) = w[1]
      /\ \A i \in DOMAIN b : i + 1 \in DOMAIN w /\ b[i] = w[i + 1] /\ i \in Nat \ {0}
  BY <1>1, TailAt
<1>3. Single(b)
  <2>. SUFFICES ASSUME NEW i \in DOMAIN b, NEW j \in DOMAIN b,
                       b[i][1] = "own", b[j][1] \in {"own", "create"}
                PROVE  i = j
    BY DEF Single
  <2>1. i + 1 = j + 1
    BY <1>2 DEF Single
  <2>. QED  BY <1>2, <2>1
<1>4. ASSUME Head(w)[1] \in {"own", "create"}, NEW o, Claims(b, o) PROVE FALSE
  <2>1. PICK j \in DOMAIN b : b[j][1] = "own"
    BY <1>4 DEF Claims
  <2>2. j + 1 = 1
    BY <1>2, <1>4, <2>1 DEF Single
  <2>. QED  BY <1>2, <2>1, <2>2
<1>. QED  BY <1>1, <1>3, <1>4

LEMMA OwnClaims ==
    ASSUME NEW w \in Seq(Steps), w # <<>>, Head(w)[1] = "own"
    PROVE  Claims(w, Head(w)[3])
<1>1. /\ 1 \in DOMAIN w /\ Head(w) = w[1] /\ \A i \in DOMAIN w : ~(i < 1)
  BY TailAt
<1>. QED  BY <1>1 DEF Claims

LEMMA ClaimsTail ==
    ASSUME NEW w \in Seq(Steps), w # <<>>, NEW o, Claims(Tail(w), o)
    PROVE  Claims(w, o) \/ (Head(w)[1] = "new" /\ Head(w)[3] = o)
<1>1. PICK b : b = Tail(w)
  OBVIOUS
<1>2. /\ 1 \in DOMAIN w /\ Head(w) = w[1]
      /\ \A i \in DOMAIN b : i + 1 \in DOMAIN w /\ b[i] = w[i + 1] /\ i \in Nat \ {0}
      /\ \A i \in DOMAIN w : i = 1 \/ (i - 1 \in DOMAIN b /\ i = (i - 1) + 1)
      /\ \A i \in DOMAIN w : i \in Nat \ {0}
  BY <1>1, TailAt
<1>3. PICK j \in DOMAIN b : /\ b[j][1] = "own" /\ b[j][3] = o
                            /\ \A i \in DOMAIN b : i < j => ~(b[i][1] = "new" /\ b[i][3] = o)
  BY <1>1 DEF Claims
<1>. SUFFICES ASSUME ~(w[1][1] = "new" /\ w[1][3] = o) PROVE Claims(w, o)
  BY <1>2
<1>4. ASSUME NEW i \in DOMAIN w, i < j + 1 PROVE ~(w[i][1] = "new" /\ w[i][3] = o)
  <2>1. CASE i = 1
    BY <2>1
  <2>2. CASE i # 1
    <3>1. i - 1 \in DOMAIN b /\ b[i - 1] = w[i] /\ i - 1 < j
      BY <1>2, <1>4, <2>2
    <3>. QED  BY <1>3, <3>1
  <2>. QED  BY <2>1, <2>2
<1>5. j + 1 \in DOMAIN w /\ w[j + 1] = b[j]
  BY <1>2
<1>. QED  BY <1>3, <1>4, <1>5 DEF Claims

-----------------------------------------------------------------------------
(* The steps of each call: only two calls come to own something.           *)

LEMMA OneTwoThree ==
    ASSUME NEW S, NEW x \in S, NEW y \in S, NEW z \in S
    PROVE  /\ <<>> \in Seq(S) /\ <<x>> \in Seq(S) /\ <<x, y>> \in Seq(S)
           /\ <<x, y, z>> \in Seq(S)
OBVIOUS

LEMMA JoinedIn ==
    ASSUME NEW S, NEW a \in Seq(S), NEW b \in Seq(S)
    PROVE  a \o b \in Seq(S)
OBVIOUS

LEMMA DestructQuiet ==
    ASSUME NEW d \in Handles
    PROVE  Destruct(d) \in Seq(Quiet)
<1>0. d \in Things
  BY HandlesAreThings
<1>1. PICK x : x = Step("drop", d, d)
  OBVIOUS
<1>2. PICK y : y = Step("unbind", d, d)
  OBVIOUS
<1>3. PICK z : z = Step("clear", d, d)
  OBVIOUS
<1>4. x \in Quiet /\ y \in Quiet /\ z \in Quiet
  BY <1>0, <1>1, <1>2, <1>3, QuietStep DEF StepNames
<1>5. Destruct(d) = <<x>> \/ Destruct(d) = <<y, z>>
  BY <1>1, <1>2, <1>3 DEF Destruct, Unbind, Clear
<1>6. <<x>> \in Seq(Quiet) /\ <<y, z>> \in Seq(Quiet)
  BY <1>4, OneTwoThree
<1>. QED  BY ONLY <1>5, <1>6

LEMMA AssignQuiet ==
    ASSUME NEW d \in Handles, NEW r \in Handles, NEW old, NEW new
    PROVE  CopyAssign(d, r, old, new) \in Seq(Quiet) /\ MoveAssign(d, r, old, new) \in Seq(Quiet)
<1>0. d \in Things /\ r \in Things
  BY HandlesAreThings
<1>1. PICK x : x = Step("unbind", d, d)
  OBVIOUS
<1>2. PICK y : y = Step("bind", d, r)
  OBVIOUS
<1>3. PICK z : z = Step("unbind", r, r)
  OBVIOUS
<1>4. PICK u : u = Step("clear", r, r)
  OBVIOUS
<1>5. PICK v : v = Step("take", d, r)
  OBVIOUS
<1>6. x \in Quiet /\ y \in Quiet /\ z \in Quiet /\ u \in Quiet /\ v \in Quiet
  BY <1>0, <1>1, <1>2, <1>3, <1>4, <1>5, QuietStep DEF StepNames
<1>7. CopyAssign(d, r, old, new) = <<>> \/ CopyAssign(d, r, old, new) = <<x, y>>
  BY <1>1, <1>2 DEF CopyAssign, Unbind, Bind
<1>8. MoveAssign(d, r, old, new) = <<z, u>> \/ MoveAssign(d, r, old, new) = <<x, v>>
  BY <1>1, <1>3, <1>4, <1>5 DEF MoveAssign, Unbind, Clear, Take
<1>9. <<>> \in Seq(Quiet) /\ <<x, y>> \in Seq(Quiet)
  BY <1>6, OneTwoThree
<1>10. <<z, u>> \in Seq(Quiet) /\ <<x, v>> \in Seq(Quiet)
  BY <1>6, OneTwoThree
<1>. QED  BY ONLY <1>7, <1>8, <1>9, <1>10

LEMMA ResetQuiet ==
    ASSUME NEW u \in Uniques
    PROVE  Reset(u) \in Seq(Quiet)
<1>0. u \in Things
  BY HandlesAreThings, KindsAreHandles
<1>1. PICK x : x = Step("destroy", u, u)
  OBVIOUS
<1>2. PICK y : y = Step("free", u, u)
  OBVIOUS
<1>3. PICK z : z = Step("forget", u, u)
  OBVIOUS
<1>4. x \in Quiet /\ y \in Quiet /\ z \in Quiet
  BY <1>0, <1>1, <1>2, <1>3, QuietStep DEF StepNames
<1>5. Reset(u) = <<>> \/ Reset(u) = <<x, y, z>>
  BY <1>1, <1>2, <1>3 DEF Reset
<1>6. <<>> \in Seq(Quiet) /\ <<x, y, z>> \in Seq(Quiet)
  BY <1>4, OneTwoThree
<1>. QED  BY ONLY <1>5, <1>6

LEMMA OneQuiet ==
    ASSUME NEW op \in StepNames \ {"own", "create"}, NEW d \in Things, NEW r \in Things,
           NEW w, w = <<Step(op, d, r)>>
    PROVE  w \in Seq(Quiet)
<1>1. PICK x : x = Step(op, d, r)
  OBVIOUS
<1>2. x \in Quiet /\ w = <<x>>
  BY <1>1, QuietStep
<1>. QED  BY <1>2

LEMMA AttachedQuiet ==
    ASSUME NEW p \in Procs, NEW x \in Mallocs, NEW m \in Memories
    PROVE  Attached(p, x, m) \in Seq(Quiet)
<1>1. PICK a : a = Temp(p)
  OBVIOUS
<1>2. a \in Handles /\ x \in Handles /\ a \in Things /\ m \in Things
  BY <1>1, LocalKinds, HandlesAreThings, KindsAreHandles DEF Things
<1>3. PICK u : u = <<Step("attach", a, m)>>
  OBVIOUS
<1>4. u \in Seq(Quiet)
  BY <1>2, <1>3, OneQuiet DEF StepNames
<1>5. MoveAssign(x, a, None, m) \in Seq(Quiet) /\ Destruct(a) \in Seq(Quiet)
  BY <1>2, AssignQuiet, DestructQuiet
<1>6. Attached(p, x, m) = u \o MoveAssign(x, a, None, m) \o Destruct(a)
  BY <1>1, <1>3 DEF Attached
<1>. QED  BY <1>4, <1>5, <1>6

LEMMA FunctorPlain ==
    ASSUME NEW p \in Procs, NEW m \in Memories
    PROVE  InitFunctor(p, m) \in Seq(Plain)
<1>1. PICK a : a = Temp(p)
  OBVIOUS
<1>2. PICK u : u = Setup(p)
  OBVIOUS
<1>3. /\ a \in Handles /\ u \in Handles /\ a \in Things /\ u \in Things /\ m \in Things
      /\ ListsOf[m] \subseteq Handles /\ IsFiniteSet(ListsOf[m])
  <2>1. a \in Handles /\ u \in Handles
    BY <1>1, <1>2, LocalKinds
  <2>2. ListsOf[m] \subseteq Lists
    BY DEF Lists
  <2>3. ListsOf[m] \subseteq Handles /\ IsFiniteSet(Handles)
    BY <2>2, KindsAssumption DEF Handles
  <2>4. IsFiniteSet(ListsOf[m])
    BY <2>3, FS_Subset
  <2>. QED  BY <2>1, <2>3, <2>4, HandlesAreThings DEF Things
<1>4. PICK n \in Nat : n = Cardinality(ListsOf[m])
  BY <1>3, SeqOfLists
<1>5. PICK L \in [1..n -> ListsOf[m]] : L = SetToSeq(ListsOf[m])
  BY <1>3, <1>4, SeqOfLists
<1>6. PICK x : x = Step("create", u, m)
  OBVIOUS
<1>7. PICK y : y = Step("bind", a, u)
  OBVIOUS
<1>8. PICK z : z = Step("ready", u, m)
  OBVIOUS
<1>9. x \in Plain /\ y \in Plain /\ z \in Plain
  <2>1. x \in Steps /\ x[1] = "create"
    BY <1>3, <1>6, StepFields DEF StepNames
  <2>2. y \in Quiet /\ z \in Quiet
    BY <1>3, <1>7, <1>8, QuietStep DEF StepNames
  <2>. QED  BY <2>1, <2>2 DEF Plain, Quiet
<1>10. PICK b : b = [i \in 1..n |-> Bind(L[i], a)]
  OBVIOUS
<1>11. b \in Seq(Plain)
  <2>1. ASSUME NEW i \in 1..n PROVE Bind(L[i], a) \in Plain
    <3>1. PICK h : h = L[i]
      OBVIOUS
    <3>2. h \in Things
      BY <1>3, <1>5, <3>1, HandlesAreThings
    <3>3. PICK k : k = Step("bind", h, a)
      OBVIOUS
    <3>4. k \in Quiet
      BY <1>3, <3>2, <3>3, QuietStep DEF StepNames
    <3>. QED  BY <3>1, <3>3, <3>4 DEF Quiet, Bind
  <2>2. b \in [1..n -> Plain]
    BY <1>10, <2>1
  <2>. QED  BY <2>2
<1>12. Destruct(a) \in Seq(Plain) /\ Destruct(u) \in Seq(Plain)
  BY <1>3, DestructQuiet, QuietPlain
<1>13. <<x, y>> \in Seq(Plain) /\ <<z>> \in Seq(Plain)
  BY <1>9
<1>14. InitFunctor(p, m) = <<x, y>> \o b \o Destruct(a) \o Destruct(u) \o <<z>>
  BY <1>1, <1>2, <1>4, <1>5, <1>6, <1>7, <1>8, <1>10 DEF InitFunctor, Bind
<1>15. PICK v \in Seq(Plain) : v = Destruct(a)
  BY <1>12
<1>16. PICK w \in Seq(Plain) : w = Destruct(u)
  BY <1>12
<1>17. <<x, y>> \o b \in Seq(Plain)
  BY <1>11, <1>13, JoinedIn
<1>18. <<x, y>> \o b \o v \in Seq(Plain)
  BY <1>17, JoinedIn
<1>19. <<x, y>> \o b \o v \o w \in Seq(Plain)
  BY <1>18, JoinedIn
<1>20. <<x, y>> \o b \o v \o w \o <<z>> \in Seq(Plain)
  BY <1>13, <1>19, JoinedIn
<1>. QED  BY ONLY <1>14, <1>15, <1>16, <1>20

(* The object that the call makes is not there yet. *)
LEMMA MadeSingle ==
    ASSUME NEW p \in Procs, NEW u \in Uniques, NEW g \in Users \cup Mallocs, NEW o \in Objects,
           NEW w, w = Made(p, u, g, o)
    PROVE  Single(w) /\ \A k : ~Claims(w, k)
<1>1. PICK a : a = Temp(p)
  OBVIOUS
<1>2. PICK d : d = Deleter(p)
  OBVIOUS
<1>3. /\ a \in Handles /\ d \in Handles /\ a \in Things /\ d \in Things
      /\ u \in Things /\ g \in Things /\ o \in Things
  BY <1>1, <1>2, LocalKinds, HandlesAreThings, KindsAreHandles DEF Things
<1>4. PICK x1 \in Steps : x1 = Bind(a, g) /\ x1[1] = "bind"
  BY <1>3, StepFields DEF StepNames, Bind
<1>5. PICK x2 \in Steps : x2 = Step("new", a, o) /\ x2[1] = "new" /\ x2[3] = o
  BY <1>3, StepFields DEF StepNames
<1>6. PICK x3 \in Steps : x3 = Bind(d, a) /\ x3[1] = "bind"
  BY <1>3, StepFields DEF StepNames, Bind
<1>7. PICK x4 \in Steps : x4 = Step("own", u, o) /\ x4[1] = "own" /\ x4[3] = o
  BY <1>3, StepFields DEF StepNames
<1>8. PICK x5 \in Steps : x5 = Bind(u, d) /\ x5[1] = "bind"
  BY <1>3, StepFields DEF StepNames, Bind
<1>9. PICK b : b = <<x1, x2, x3, x4, x5>>
  OBVIOUS
<1>10. /\ b \in Seq(Steps) /\ DOMAIN b = 1..5 /\ b[1] = x1 /\ b[2] = x2 /\ b[3] = x3
       /\ b[4] = x4 /\ b[5] = x5
  BY <1>9
<1>11. \A i \in DOMAIN b : b[i][1] \in {"own", "create"} => i = 4
  BY <1>4, <1>5, <1>6, <1>8, <1>10
<1>12. Single(b)
  BY <1>11 DEF Single
<1>13. \A k : ~Claims(b, k)
  <2>1. 2 \in DOMAIN b /\ b[2][1] = "new" /\ b[2][3] = o /\ b[4][3] = o /\ 2 < 4
    BY <1>5, <1>7, <1>10
  <2>. QED  BY <1>11, <2>1 DEF Claims
<1>14. PICK e \in Seq(Quiet) : e = Destruct(d)
  BY <1>3, DestructQuiet
<1>15. PICK f \in Seq(Quiet) : f = Destruct(a)
  BY <1>3, DestructQuiet
<1>16. PICK c : c = b \o e
  OBVIOUS
<1>17. Single(c) /\ \A k : ~Claims(c, k)
  BY <1>10, <1>12, <1>13, <1>16, QuietAfter
<1>18. c \in Seq(Steps) /\ w = c \o f
  <2>1. w = b \o e \o f
    BY <1>1, <1>2, <1>4, <1>5, <1>6, <1>7, <1>8, <1>9, <1>14, <1>15 DEF Made
  <2>2. e \in Seq(Steps)
    BY QuietPlain
  <2>. QED  BY <1>10, <1>16, <2>1, <2>2
<1>. QED  BY <1>17, <1>18, QuietAfter

LEMMA ReleaseQuiet ==
    ASSUME NEW x \in Handles
    PROVE  Release(x) \in Seq(Quiet)
<1>1. PICK a : a = <<Step("unmap", x, x)>>
  OBVIOUS
<1>2. a \in Seq(Quiet)
  BY <1>1, HandlesAreThings, OneQuiet DEF StepNames
<1>3. Destruct(x) \in Seq(Quiet)
  BY DestructQuiet
<1>4. Release(x) = Destruct(x) \o a
  BY <1>1 DEF Release
<1>. QED  BY <1>2, <1>3, <1>4, JoinedIn

LEMMA MallocMovedQuiet ==
    ASSUME NEW p \in Procs, NEW x \in Mallocs, NEW y \in Mallocs
    PROVE  MallocMoved(p, x, y) \in Seq(Quiet)
<1>1. PICK t : t = Temp(p)
  OBVIOUS
<1>2. t \in Handles /\ t \in Things /\ x \in Things /\ y \in Things
  BY <1>1, LocalKinds, HandlesAreThings, KindsAreHandles
<1>3. PICK a : a = Step("takeall", t, y)
  OBVIOUS
<1>4. PICK b : b = Step("swapall", t, x)
  OBVIOUS
<1>5. a \in Quiet /\ b \in Quiet
  BY <1>2, <1>3, <1>4, QuietStep DEF StepNames
<1>6. <<a, b>> \in Seq(Quiet)
  BY <1>5, OneTwoThree
<1>7. Release(t) \in Seq(Quiet)
  BY <1>2, ReleaseQuiet
<1>8. MallocMoved(p, x, y) = <<a, b>> \o Release(t)
  BY <1>1, <1>3, <1>4 DEF MallocMoved
<1>. QED  BY <1>6, <1>7, <1>8, JoinedIn

LEMMA MoveUniqueQuiet ==
    ASSUME NEW d \in Uniques, NEW r \in Uniques
    PROVE  UniqueMoveConstruct(d, r) \in Seq(Quiet) /\ UniqueMoveAssign(d, r) \in Seq(Quiet)
<1>1. d \in Handles /\ r \in Handles /\ d \in Things /\ r \in Things
  BY HandlesAreThings, KindsAreHandles
<1>2. PICK a : a = Step("movetarget", d, r)
  OBVIOUS
<1>3. PICK b : b = Step("bind", d, r)
  OBVIOUS
<1>4. a \in Quiet /\ b \in Quiet
  BY <1>1, <1>2, <1>3, QuietStep DEF StepNames
<1>5. <<a>> \in Seq(Quiet) /\ <<a, b>> \in Seq(Quiet)
  BY <1>4, OneTwoThree
<1>6. UniqueMoveConstruct(d, r) = <<a, b>>
  BY <1>2, <1>3 DEF UniqueMoveConstruct, Bind
<1>7. PICK c : c = CopyAssign(d, r, impl[d], impl[r])
  OBVIOUS
<1>8. c \in Seq(Quiet)
  BY <1>1, <1>7, AssignQuiet
<1>9. Reset(d) \o <<a>> \in Seq(Quiet)
  BY <1>5, ResetQuiet, JoinedIn
<1>10. Reset(d) \o <<a>> \o c \in Seq(Quiet)
  BY <1>8, <1>9, JoinedIn
<1>11. UniqueMoveAssign(d, r) = Reset(d) \o <<a>> \o c
  BY <1>2, <1>7 DEF UniqueMoveAssign
<1>. QED  BY ONLY <1>5, <1>6, <1>10, <1>11

LEMMA SwapUniquesQuiet ==
    ASSUME NEW p \in Procs, NEW d \in Uniques, NEW r \in Uniques
    PROVE  UniqueSwap(p, d, r) \in Seq(Quiet)
<1>t. PICK t : t = Temp(p)
  OBVIOUS
<1>1. /\ d \in Handles /\ r \in Handles /\ t \in Handles
      /\ d \in Things /\ r \in Things /\ t \in Things
  BY <1>t, LocalKinds, HandlesAreThings, KindsAreHandles
<1>2. PICK a : a = Step("swaptarget", d, r)
  OBVIOUS
<1>3. PICK b : b = Step("bind", t, d)
  OBVIOUS
<1>4. a \in Quiet /\ b \in Quiet
  BY <1>1, <1>2, <1>3, QuietStep DEF StepNames
<1>5. <<a, b>> \in Seq(Quiet)
  BY <1>4, OneTwoThree
<1>6. PICK c : c = CopyAssign(d, r, impl[d], impl[r])
  OBVIOUS
<1>7. PICK e : e = CopyAssign(r, t, impl[r], impl[d])
  OBVIOUS
<1>8. c \in Seq(Quiet) /\ e \in Seq(Quiet) /\ Destruct(t) \in Seq(Quiet)
  BY <1>1, <1>6, <1>7, AssignQuiet, DestructQuiet
<1>9. <<a, b>> \o c \in Seq(Quiet)
  BY <1>5, <1>8, JoinedIn
<1>10. <<a, b>> \o c \o e \in Seq(Quiet)
  BY <1>8, <1>9, JoinedIn
<1>11. <<a, b>> \o c \o e \o Destruct(t) \in Seq(Quiet)
  BY <1>8, <1>10, JoinedIn
<1>12. UniqueSwap(p, d, r) = <<a, b>> \o c \o e \o Destruct(t)
  BY <1>2, <1>3, <1>6, <1>7, <1>t DEF UniqueSwap, Bind
<1>. QED  BY ONLY <1>11, <1>12

-----------------------------------------------------------------------------
(* The invariant of the objects.  What a call may come to own, the memory  *)
(* of which it maps, is held, and no other call may.                       *)

ClaimHeld(p, o) ==
    Claims(todo[p], o) =>
        /\ HeapOf[o] \in Mapped(p)
        /\ Good(HeapOf[o]) => obj[o] = "held" /\ \A q \in Procs \ {p} : ~Claims(todo[q], o)
Objs ==
    /\ \A p \in Procs : Single(todo[p]) /\ \A o \in Objects : ClaimHeld(p, o)
    /\ \A o \in Objects : Good(HeapOf[o]) => OwnedBy(Owns, Doomed, obj[o], o)

(* What the steps w of a call that starts may come to own. *)
Aims(p, w) ==
    /\ Single(w)
    /\ \A o \in Objects : Claims(w, o) => /\ HeapOf[o] \in Mapped(p) /\ obj[o] = "held"
                                          /\ \A q \in Procs : ~Claims(todo[q], o)

LEMMA QuietAims ==
    ASSUME NEW p, NEW w \in Seq(Quiet)
    PROVE  Aims(p, w)
BY QuietPlain, PlainClaims DEF Aims

LEMMA HandleAims ==
    ASSUME Core, NEW p \in Procs, HandleCall(p)
    PROVE  \E w : Call(p, w) /\ Aims(p, w)
<1>1. \E w \in Seq(Quiet) : Call(p, w)
  <2>1. ASSUME NEW d \in Users, NEW r \in Users \cup Mallocs, CopyHandle(p, d, r)
        PROVE  \E w \in Seq(Quiet) : Call(p, w)
    BY <2>1, AssignQuiet, KindsAreHandles DEF CopyHandle
  <2>2. ASSUME NEW d \in Users, NEW r \in Users, MoveHandle(p, d, r)
        PROVE  \E w \in Seq(Quiet) : Call(p, w)
    BY <2>2, AssignQuiet, KindsAreHandles DEF MoveHandle
  <2>3. ASSUME NEW d \in Users, NEW r \in Users, SwapHandles(p, d, r)
        PROVE  \E w \in Seq(Quiet) : Call(p, w)
    <3>1. PICK w : w = <<Step("swap", d, r)>>
      OBVIOUS
    <3>2. w \in Seq(Quiet)
      BY <3>1, OneQuiet, HandlesAreThings, KindsAreHandles DEF StepNames
    <3>. QED  BY <2>3, <3>1, <3>2 DEF SwapHandles
  <2>4. ASSUME NEW d \in Users, DropHandle(p, d)
        PROVE  \E w \in Seq(Quiet) : Call(p, w)
    BY <2>4, DestructQuiet, KindsAreHandles DEF DropHandle
  <2>. QED  BY <2>1, <2>2, <2>3, <2>4 DEF HandleCall
<1>. QED  BY <1>1, QuietAims

LEMMA MallocAims ==
    ASSUME Core, NEW p \in Procs, MallocCall(p), ~\E x \in Mallocs : SetUp(p, x)
    PROVE  \E w : Call(p, w) /\ Aims(p, w)
<1>1. \E w \in Seq(Quiet) : Call(p, w)
  <2>1. ASSUME NEW x \in Mallocs, DestroyMalloc(p, x)
        PROVE  \E w \in Seq(Quiet) : Call(p, w)
    BY <2>1, ReleaseQuiet, KindsAreHandles DEF DestroyMalloc
  <2>2. ASSUME NEW x \in Mallocs, NEW y \in Mallocs, MoveMalloc(p, x, y)
        PROVE  \E w \in Seq(Quiet) : Call(p, w)
    BY <2>2, MallocMovedQuiet DEF MoveMalloc
  <2>. QED  BY <2>1, <2>2 DEF MallocCall
<1>. QED  BY <1>1, QuietAims

LEMMA ResetToAims ==
    ASSUME Core, NEW p \in Procs, NEW u \in Uniques, NEW o \in Objects, ResetTo(p, u, o)
    PROVE  \E w : Call(p, w) /\ Aims(p, w)
<1>1. /\ MayUse(p, {u}) /\ obj[o] = "held" /\ ~InUse(o) /\ impl[u] = HeapOf[o]
      /\ Call(p, Reset(u) \o <<Step("own", u, o)>>)
  BY DEF ResetTo
<1>2. PICK x \in Steps : x = Step("own", u, o) /\ x[1] = "own" /\ x[3] = o
  <2>1. u \in Things /\ o \in Things
    BY HandlesAreThings, KindsAreHandles DEF Things
  <2>. QED  BY <2>1, StepFields DEF StepNames
<1>3. PICK w : w = Reset(u) \o <<x>>
  OBVIOUS
<1>4. Single(w) /\ \A k : Claims(w, k) => k = o
  BY <1>2, <1>3, OwnLast, ResetQuiet
<1>5. Usable(p, u)
  BY <1>1, OneUsed
<1>6. HeapOf[o] \in Mapped(p)
  <2>1. u \in Handles /\ (Home[u] = p \/ Home[u] \in Mapped(p)) /\ Mapped(p) \subseteq Memories
    BY <1>5, MappedMemories DEF Usable, Reachable, Core
  <2>2. (Home[u] = p => impl[u] \in Mapped(p) \cup {None}) /\ Fits(u, impl[u])
    BY <2>1, MappedNow DEF Core, InPlace, Placed, HandlePlaced, Now
  <2>3. HeapOf[o] \in Memories /\ None \notin Memories
    BY HomesAssumption
  <2>. QED  BY <1>1, <2>1, <2>2, <2>3 DEF Fits
<1>7. ASSUME NEW q \in Procs PROVE ~Claims(todo[q], o)
  BY <1>1 DEF InUse, Claims
<1>8. Call(p, w)
  BY <1>1, <1>2, <1>3
<1>. QED  BY <1>1, <1>4, <1>6, <1>7, <1>8 DEF Aims

LEMMA UniqueAims ==
    ASSUME Core, NEW p \in Procs, UniqueCall(p)
    PROVE  \E w : Call(p, w) /\ Aims(p, w)
<1>1. ASSUME NEW u \in Uniques, NEW g \in Users \cup Mallocs, NEW o \in Objects,
             MakeUnique(p, u, g, o)
      PROVE  \E w : Call(p, w) /\ Aims(p, w)
  <2>1. PICK w : w = Made(p, u, g, o)
    OBVIOUS
  <2>2. Call(p, w)
    BY <1>1, <2>1 DEF MakeUnique
  <2>3. Aims(p, w)
    BY <2>1, MadeSingle DEF Aims
  <2>. QED  BY <2>2, <2>3
<1>2. ASSUME NEW u \in Uniques, NEW o \in Objects, ResetTo(p, u, o)
      PROVE  \E w : Call(p, w) /\ Aims(p, w)
  BY <1>2, ResetToAims
<1>3. ASSUME \E w \in Seq(Quiet) : Call(p, w)
      PROVE  \E w : Call(p, w) /\ Aims(p, w)
  BY <1>3, QuietAims
<1>4. ASSUME NEW d \in Uniques, NEW r \in Uniques, MoveUnique(p, d, r)
      PROVE  \E w \in Seq(Quiet) : Call(p, w)
  BY <1>4, MoveUniqueQuiet DEF MoveUnique
<1>5. ASSUME NEW d \in Uniques, NEW r \in Uniques, SwapUniques(p, d, r)
      PROVE  \E w \in Seq(Quiet) : Call(p, w)
  BY <1>5, SwapUniquesQuiet DEF SwapUniques
<1>6. ASSUME NEW u \in Uniques, ResetUnique(p, u) \/ ReleaseUnique(p, u) \/ DestroyUnique(p, u)
      PROVE  \E w \in Seq(Quiet) : Call(p, w)
  <2>1. Reset(u) \in Seq(Quiet) /\ Destruct(u) \in Seq(Quiet)
    BY ResetQuiet, DestructQuiet, KindsAreHandles
  <2>2. Reset(u) \o Destruct(u) \in Seq(Quiet)
    BY <2>1, JoinedIn
  <2>3. PICK w : w = <<Step("release", u, u)>>
    OBVIOUS
  <2>4. w \in Seq(Quiet)
    BY <2>3, OneQuiet, HandlesAreThings, KindsAreHandles DEF StepNames
  <2>5. ResetUnique(p, u) => Call(p, Reset(u))
    BY DEF ResetUnique
  <2>6. DestroyUnique(p, u) => Call(p, Reset(u) \o Destruct(u))
    BY DEF DestroyUnique
  <2>7. ReleaseUnique(p, u) => Call(p, w)
    BY <2>3 DEF ReleaseUnique
  <2>. QED  BY <1>6, <2>1, <2>2, <2>4, <2>5, <2>6, <2>7
<1>. QED  BY <1>1, <1>2, <1>3, <1>4, <1>5, <1>6 DEF UniqueCall

-----------------------------------------------------------------------------
(* What a step does to the owners.                                         *)

NoDeath(s, r) == s.tag \notin {"new", "freed", "dying"} /\ r.tag \notin {"freed", "dying"}

LEMMA QuietTargets ==
    ASSUME NEW p, NEW x, NEW s, NEW r, Moves(p, x, s, r),
           x[1] \in {"bind", "attach", "unbind", "drop", "clear", "take", "swap", "ready",
                    "takeall", "swapall", "unmap", "new"}
    PROVE  NoDeath(s, r) /\ r.target = s.target
<1>1. /\ x[1] = "bind" => BindIn(p, x[2], x[3], s, r)
      /\ x[1] = "attach" => AttachIn(p, x[2], x[3], s, r)
      /\ x[1] = "unbind" => UnbindIn(p, x[2], s, r)
      /\ x[1] = "drop" => DropIn(p, x[2], s, r)
      /\ x[1] = "clear" => ClearIn(p, x[2], s, r)
      /\ x[1] = "take" => TakeIn(p, x[2], x[3], s, r)
      /\ x[1] = "swap" => SwapIn(p, x[2], x[3], s, r)
      /\ x[1] = "ready" => ReadyIn(x[2], x[3], s, r)
      /\ x[1] = "takeall" => TakeAllIn(p, x[2], x[3], s, r)
      /\ x[1] = "swapall" => SwapAllIn(p, x[2], x[3], s, r)
      /\ x[1] = "unmap" => UnmapIn(p, x[2], s, r)
      /\ x[1] = "new" => NewIn(p, x[2], x[3], s, r)
  BY MovesIs
<1>2. ASSUME x[1] \in {"bind", "attach", "unbind", "drop", "clear", "take", "swap"}
      PROVE  NoDeath(s, r) /\ r.target = s.target
  BY <1>1, <1>2 DEF BindIn, AttachIn, UnbindIn, DropIn, ClearIn, TakeIn, SwapIn, Free, Becomes,
                    Clean, Tagged, NoDeath
<1>3. ASSUME x[1] \in {"ready", "takeall", "swapall", "unmap", "new"}
      PROVE  NoDeath(s, r) /\ r.target = s.target
  BY <1>1, <1>3 DEF ReadyIn, TakeAllIn, SwapAllIn, UnmapIn, NewIn, Becomes, Clean, NoDeath
<1>. QED  BY <1>2, <1>3

LEMMA OtherOwns ==
    ASSUME NEW p, NEW s, NEW r, NEW f, NEW g, NEW D, NEW E, OwnsStep(p, s, r, f, g, D, E),
           ~At(p, "create"), NoDeath(s, r), r.target = s.target
    PROVE  \A u \in Uniques : g[u] = f[u] /\ (u \in E <=> u \in D)
BY DEF OwnsStep, OwnsIn, Tagged, NoDeath

(* The target of u becomes o. *)
LEMMA OwnOwns ==
    ASSUME NEW p, NEW s \in Views, NEW r, NEW f, NEW g, NEW D, NEW E,
           OwnsStep(p, s, r, f, g, D, E), ~At(p, "create"),
           NEW u, NEW o, OwnIn(p, u, o, s, r), Involved(p, u)
    PROVE  /\ u \in Uniques /\ g[u] = o /\ u \notin E /\ f[u] = s.target[u]
           /\ \A v \in Uniques \ {u} : g[v] = f[v]
           /\ \A v \in Uniques : v \in E <=> v \in D
<1>1. /\ u \in Uniques /\ NoDeath(s, r)
      /\ r.target[u] = o /\ \A v \in Uniques \ {u} : r.target[v] = s.target[v]
  BY ViewFields DEF OwnIn, Becomes, Clean, NoDeath
<1>. QED  BY <1>1 DEF OwnsStep, OwnsIn, Tagged, NoDeath

LEMMA MoveOwns ==
    ASSUME NEW p, NEW s \in Views, NEW r, NEW f, NEW g, NEW D, NEW E,
           OwnsStep(p, s, r, f, g, D, E), ~At(p, "create"),
           NEW d, NEW c, MoveTargetIn(p, d, c, s, r), Involved(p, d), Involved(p, c)
    PROVE  /\ d \in Uniques /\ c \in Uniques /\ d # c
           /\ f[d] = s.target[d] /\ g[d] = f[c] /\ g[c] = None
           /\ \A v \in Uniques \ {d, c} : g[v] = f[v]
           /\ {d, c} \cap (D \cup E) = {} /\ \A v \in Uniques : v \in E <=> v \in D
<1>1. /\ d \in Uniques /\ c \in Uniques /\ d # c /\ NoDeath(s, r)
      /\ r.target = Taken(s.target, d, c)
  BY DEF MoveTargetIn, Becomes, Clean, NoDeath
<1>2. /\ r.target[d] = s.target[c] /\ r.target[c] = None
      /\ \A v \in Uniques \ {d, c} : r.target[v] = s.target[v]
  BY <1>1, ViewFields DEF Taken
<1>. QED  BY <1>1, <1>2 DEF OwnsStep, OwnsIn, Tagged, NoDeath

LEMMA SwapOwns ==
    ASSUME NEW p, NEW s \in Views, NEW r, NEW f, NEW g, NEW D, NEW E,
           OwnsStep(p, s, r, f, g, D, E), ~At(p, "create"),
           NEW d, NEW c, SwapTargetIn(p, d, c, s, r), Involved(p, d), Involved(p, c)
    PROVE  /\ d \in Uniques /\ c \in Uniques /\ d # c /\ g[d] = f[c] /\ g[c] = f[d]
           /\ \A v \in Uniques \ {d, c} : g[v] = f[v]
           /\ {d, c} \cap (D \cup E) = {} /\ \A v \in Uniques : v \in E <=> v \in D
<1>1. /\ d \in Uniques /\ c \in Uniques /\ d # c /\ NoDeath(s, r)
      /\ r.target = Swapped(s.target, d, c)
  BY DEF SwapTargetIn, Becomes, Clean, NoDeath
<1>2. /\ r.target[d] = s.target[c] /\ r.target[c] = s.target[d]
      /\ \A v \in Uniques \ {d, c} : r.target[v] = s.target[v]
  BY <1>1, ViewFields DEF Swapped
<1>. QED  BY <1>1, <1>2 DEF OwnsStep, OwnsIn, Tagged, NoDeath

LEMMA ReleaseOwns ==
    ASSUME NEW p, NEW s \in Views, NEW r, NEW f, NEW g, NEW D, NEW E,
           OwnsStep(p, s, r, f, g, D, E), ~At(p, "create"),
           NEW u, ReleaseIn(p, u, s, r), Involved(p, u)
    PROVE  /\ u \in Uniques /\ g[u] = None /\ f[u] = s.target[u]
           /\ \A v \in Uniques \ {u} : g[v] = f[v]
           /\ \A v \in Uniques : v \in E <=> v \in D
<1>1. /\ u \in Uniques /\ NoDeath(s, r)
      /\ r.target[u] = None /\ \A v \in Uniques \ {u} : r.target[v] = s.target[v]
  BY ViewFields DEF ReleaseIn, Becomes, Clean, NoDeath
<1>. QED  BY <1>1 DEF OwnsStep, OwnsIn, Tagged, NoDeath

LEMMA DestroyOwns ==
    ASSUME NEW p, NEW s \in Views, NEW r, NEW f, NEW g, NEW D, NEW E,
           OwnsStep(p, s, r, f, g, D, E), ~At(p, "create"),
           NEW u, DestroyIn(p, u, s, r), Involved(p, u)
    PROVE  /\ u \in Uniques /\ f[u] = s.target[u] /\ u \in E
           /\ \A v \in Uniques : g[v] = f[v]
           /\ \A v \in Uniques \ {u} : v \in E <=> v \in D
<1>1. u \in Uniques /\ s.tag = "clean" /\ Tagged(r, "dying", u) /\ r.target = s.target
  BY DEF DestroyIn, Becomes, Clean
<1>. QED  BY <1>1 DEF OwnsStep, OwnsIn, Tagged

LEMMA FreeOwns ==
    ASSUME NEW p, NEW s \in Views, NEW r, NEW f, NEW g, NEW D, NEW E,
           OwnsStep(p, s, r, f, g, D, E), ~At(p, "create"),
           NEW u, FreeIn(p, u, s, r), Involved(p, u)
    PROVE  /\ u \in Uniques /\ f[u] = s.target[u] /\ g[u] = None
           /\ \A v \in Uniques \ {u} : g[v] = f[v] /\ (v \in E <=> v \in D)
<1>1. u \in Uniques /\ Tagged(s, "dying", u) /\ Tagged(r, "freed", u) /\ r.target = s.target
  BY DEF FreeIn, Becomes
<1>. QED  BY <1>1 DEF OwnsStep, OwnsIn, Tagged

LEMMA ForgetOwns ==
    ASSUME NEW p, NEW s \in Views, NEW r, NEW f, NEW g, NEW D, NEW E,
           OwnsStep(p, s, r, f, g, D, E), ~At(p, "create"),
           NEW u, ForgetIn(p, u, s, r), Involved(p, u)
    PROVE  \A v \in Uniques : g[v] = f[v] /\ (v \in E <=> v \in D)
<1>1. /\ u \in Uniques /\ Tagged(s, "freed", u) /\ r.tag = "clean"
      /\ r.target[u] = None /\ \A v \in Uniques \ {u} : r.target[v] = s.target[v]
  BY ViewFields DEF ForgetIn, Becomes, Clean
<1>. QED  BY <1>1 DEF OwnsStep, OwnsIn, Tagged

(* A target that a call writes over lies in a memory somebody died with. *)
LEMMA VacantOwns ==
    ASSUME Core, NEW p \in Procs, NEW s, NEW r, NEW t, Doing(p, s, r, t),
           NEW u, Within(p, s, u), Vacant(s, u), NEW o \in Objects, Good(HeapOf[o])
    PROVE  s.target[u] # o
<1>. SUFFICES ASSUME s.target[u] = o PROVE FALSE
  OBVIOUS
<1>1. Wreck(s, u)
  BY HomesAssumption DEF Vacant
<1>2. HeapOf[o] = Home[u] /\ Home[u] \in s.taint /\ HeapOf[o] \in Memories
  BY <1>1, HomesAssumption DEF Wreck
<1>3. Home[u] \in MapsIn(p, s) /\ MapsIn(p, s) = Mapped(p)
  BY <1>2, KindsAssumption, SeenMaps DEF Within, Doing, Sees
<1>4. Home[u] \in tainted
  BY <1>2, <1>3 DEF Doing, Sees
<1>. QED  BY <1>2, <1>4 DEF Good

(* What a step does to the objects. *)
LEMMA StepObjects ==
    ASSUME Core, NEW p \in Procs, StepOf(p), ~At(p, "create"), NEW o \in Objects
    PROVE  \/ obj'[o] = obj[o]
           \/ At(p, "new") /\ Src(p) = o /\ obj[o] = "free" /\ obj'[o] \in {"held", "lost"}
           \/ At(p, "own") /\ Src(p) = o /\ obj'[o] = "owned"
           \/ At(p, "release") /\ target[Dst(p)] = o /\ obj'[o] = "held"
           \/ At(p, "destroy") /\ target[Dst(p)] = o /\ obj'[o] = "dead"
           \/ At(p, "free") /\ target[Dst(p)] = o /\ obj'[o] \in {"free", "lost"}
<1>1. obj \in [Objects -> {"free", "held", "owned", "dead", "lost"}]
  BY DEF Core, Types
<1>2. CASE DoBind(p) \/ DoAttach(p) \/ DoUnbind(p) \/ DoDrop(p) \/ DoStore(p) \/ DoReady(p) \/ DoMapping(p)
  BY <1>2 DEF DoBind, DoAttach, DoUnbind, DoDrop, DoStore, DoReady, DoMapping, objVars
<1>3. CASE DoNew(p) \/ DoNewFails(p)
  BY <1>1, <1>3 DEF DoNew, DoNewFails
<1>4. CASE DoTarget(p)
  BY <1>1, <1>4 DEF DoTarget
<1>5. CASE DoDelete(p)
  BY <1>1, <1>5 DEF DoDelete
<1>6. ~DoCreate(p)
  BY DEF DoCreate
<1>. QED  BY <1>2, <1>3, <1>4, <1>5, <1>6 DEF StepOf

(* A step keeps an object owned by who owns it. *)
LEMMA StepOwnedBy ==
    ASSUME Core, Objs, NEW p \in Procs, StepOf(p), ~At(p, "create"),
           NEW s, NEW r, NEW t, Doing(p, s, r, t),
           NEW f, f = Owns, NEW g, NEW D, D = Doomed, NEW E, OwnsStep(p, s, r, f, g, D, E),
           NEW o \in Objects, Good(HeapOf[o])
    PROVE  OwnedBy(g, E, obj'[o], o)
<1>v. s \in Views
  BY DEF Doing
<1>o. OwnedBy(f, D, obj[o], o)
  BY DEF Objs
<1>d. PICK d : d = Dst(p)
  OBVIOUS
<1>c. PICK c : c = Src(p)
  OBVIOUS
<1>x. PICK x : x = Head(todo[p])
  OBVIOUS
<1>0. /\ Moves(p, x, s, r) /\ x[2] = d /\ x[3] = c /\ x \in Steps
      /\ Involved(p, d) /\ Involved(p, c) /\ p \in alive /\ todo[p] # <<>>
  <2>1. todo[p] \in Seq(Steps) /\ todo[p] # <<>>
    BY StepHasHead
  <2>. QED  BY <2>1, <1>c, <1>d, <1>x, StepHasHead, OpsHeadTail DEF Doing, Dst, Src, Involved
<1>a. \A op : At(p, op) <=> x[1] = op
  BY <1>0, <1>x DEF At
<1>y. PICK y : y = obj'[o]
  OBVIOUS
<1>z. PICK z : z = obj[o]
  OBVIOUS
<1>b. \A u : u \in Handles /\ Involved(p, u) /\ s.tag # "new" /\ u \in Uniques => s.target[u] = target[u]
  BY AgreesUnlessNew DEF Agrees, Involved
<1>u. Uniques \subseteq Handles
  BY KindsAreHandles
<1>n. o # None
  BY HomesAssumption
<1>1. \/ y = z
      \/ x[1] = "new" /\ c = o /\ z = "free" /\ y \in {"held", "lost"}
      \/ x[1] = "own" /\ c = o /\ y = "owned"
      \/ x[1] = "release" /\ target[d] = o /\ y = "held"
      \/ x[1] = "destroy" /\ target[d] = o /\ y = "dead"
      \/ x[1] = "free" /\ target[d] = o /\ y \in {"free", "lost"}
  BY <1>a, <1>c, <1>d, <1>y, <1>z, StepObjects
<1>2. CASE x[1] \in {"bind", "attach", "unbind", "drop", "clear", "take", "swap", "ready",
                     "takeall", "swapall", "unmap", "new"}
  <2>1. NoDeath(s, r) /\ r.target = s.target
    BY <1>0, <1>2, QuietTargets
  <2>2. \A u \in Uniques : g[u] = f[u] /\ (u \in E <=> u \in D)
    BY <2>1, OtherOwns
  <2>3. CASE y = z
    BY <1>o, <1>y, <1>z, <2>2, <2>3, OwnedSame
  <2>4. CASE y # z
    <3>1. z = "free" /\ y \in {"held", "lost"}
      BY <1>1, <1>2, <2>4
    <3>. QED  BY <1>o, <1>y, <1>z, <2>2, <3>1, OwnedNot
  <2>. QED  BY <2>3, <2>4
<1>3. CASE x[1] = "own"
  <2>1. OwnIn(p, d, c, s, r)
    BY <1>0, <1>3, MovesIs
  <2>2. /\ d \in Uniques /\ g[d] = c /\ d \notin E /\ f[d] = s.target[d]
        /\ \A v \in Uniques \ {d} : g[v] = f[v]
        /\ \A v \in Uniques : v \in E <=> v \in D
    BY <1>0, <1>v, <2>1, OwnOwns
  <2>3. CASE o = c
    <3>1. Claims(todo[p], o)
      BY <1>0, <1>3, <1>x, <2>3, StepHasHead, OwnClaims
    <3>2. z = "held"
      BY <1>z, <3>1 DEF Objs, ClaimHeld
    <3>3. At(p, "own") /\ Src(p) = o
      BY <1>3, <1>a, <1>c, <2>3
    <3>4. y = "owned"
      <4>1. DoTarget(p)
        BY <3>3 DEF StepOf, At, DoBind, DoAttach, DoUnbind, DoDrop, DoStore, DoCreate, DoReady, DoMapping,
                    DoNew, DoNewFails, DoDelete
      <4>2. obj' = [obj EXCEPT ![Src(p)] = "owned"]
        BY <3>3, <4>1 DEF DoTarget, At
      <4>. QED  BY <1>y, <3>3, <4>2 DEF Core, Types
    <3>. QED  BY <1>o, <1>y, <1>z, <2>2, <2>3, <3>2, <3>4, OwnedNew
  <2>4. CASE o # c
    <3>1. y = z
      BY <1>1, <1>3, <2>4
    <3>2. s.target[d] # o
      BY <2>1, VacantOwns DEF OwnIn
    <3>. QED  BY <1>o, <1>y, <1>z, <2>2, <2>4, <3>1, <3>2, OwnedSame
  <2>. QED  BY <2>3, <2>4
<1>4. CASE x[1] = "movetarget"
  <2>1. MoveTargetIn(p, d, c, s, r)
    BY <1>0, <1>4, MovesIs
  <2>2. /\ d \in Uniques /\ c \in Uniques /\ d # c
        /\ f[d] = s.target[d] /\ g[d] = f[c] /\ g[c] = None
        /\ \A v \in Uniques \ {d, c} : g[v] = f[v]
        /\ {d, c} \cap (D \cup E) = {} /\ \A v \in Uniques : v \in E <=> v \in D
    BY <1>0, <1>v, <2>1, MoveOwns
  <2>3. s.target[d] # o
    BY <2>1, VacantOwns DEF MoveTargetIn
  <2>4. y = z
    BY <1>1, <1>4
  <2>. QED  BY <1>n, <1>o, <1>y, <1>z, <2>2, <2>3, <2>4, OwnedExchanged
<1>5. CASE x[1] = "swaptarget"
  <2>1. SwapTargetIn(p, d, c, s, r)
    BY <1>0, <1>5, MovesIs
  <2>2. /\ d \in Uniques /\ c \in Uniques /\ d # c /\ g[d] = f[c] /\ g[c] = f[d]
        /\ \A v \in Uniques \ {d, c} : g[v] = f[v]
        /\ {d, c} \cap (D \cup E) = {} /\ \A v \in Uniques : v \in E <=> v \in D
    BY <1>0, <1>v, <2>1, SwapOwns
  <2>4. y = z
    BY <1>1, <1>5
  <2>. QED  BY <1>o, <1>y, <1>z, <2>2, <2>4, OwnedExchanged
<1>6. CASE x[1] = "release"
  <2>1. ReleaseIn(p, d, s, r)
    BY <1>0, <1>6, MovesIs
  <2>2. /\ d \in Uniques /\ g[d] = None /\ f[d] = s.target[d]
        /\ \A v \in Uniques \ {d} : g[v] = f[v]
        /\ \A v \in Uniques : v \in E <=> v \in D
    BY <1>0, <1>v, <2>1, ReleaseOwns
  <2>3. s.target[d] = target[d]
    BY <1>0, <1>b, <1>u, <2>1, <2>2 DEF ReleaseIn, Clean
  <2>o. At(p, "release")
    BY <1>6, <1>a
  <2>4. CASE target[d] = o
    <3>1. y = "held"
      <4>1. DoTarget(p)
        BY <2>o DEF StepOf, At, DoBind, DoAttach, DoUnbind, DoDrop, DoStore, DoCreate, DoReady, DoMapping,
                    DoNew, DoNewFails, DoDelete
      <4>2. obj' = [obj EXCEPT ![target[Dst(p)]] = "held"]
        BY <2>o, <4>1 DEF DoTarget, At
      <4>. QED  BY <1>d, <1>y, <2>4, <4>2 DEF Core, Types
    <3>. QED  BY <1>n, <1>o, <1>y, <1>z, <2>2, <2>3, <2>4, <3>1, OwnedGone
  <2>5. CASE target[d] # o
    <3>1. y = z
      BY <1>1, <1>6, <2>5
    <3>. QED  BY <1>n, <1>o, <1>y, <1>z, <2>2, <2>3, <2>5, <3>1, OwnedSame
  <2>. QED  BY <2>4, <2>5
<1>7. CASE x[1] = "destroy"
  <2>1. DestroyIn(p, d, s, r)
    BY <1>0, <1>7, MovesIs
  <2>2. /\ d \in Uniques /\ f[d] = s.target[d] /\ d \in E
        /\ \A v \in Uniques : g[v] = f[v]
        /\ \A v \in Uniques \ {d} : v \in E <=> v \in D
    BY <1>0, <1>v, <2>1, DestroyOwns
  <2>3. s.target[d] = target[d]
    BY <1>0, <1>b, <1>u, <2>1, <2>2 DEF DestroyIn, Clean
  <2>o. At(p, "destroy")
    BY <1>7, <1>a
  <2>4. CASE target[d] = o
    <3>1. y = "dead"
      <4>1. DoDelete(p)
        BY <2>o DEF StepOf, At, DoBind, DoAttach, DoUnbind, DoDrop, DoStore, DoCreate, DoReady, DoMapping,
                    DoNew, DoNewFails, DoTarget
      <4>2. obj' = [obj EXCEPT ![target[Dst(p)]] = "dead"]
        BY <2>o, <4>1 DEF DoDelete, At
      <4>. QED  BY <1>d, <1>y, <2>4, <4>2 DEF Core, Types
    <3>. QED  BY <1>o, <1>y, <1>z, <2>2, <2>3, <2>4, <3>1, OwnedDying
  <2>5. CASE target[d] # o
    <3>1. y = z
      BY <1>1, <1>7, <2>5
    <3>. QED  BY <1>o, <1>y, <1>z, <2>2, <2>3, <2>5, <3>1, OwnedSame
  <2>. QED  BY <2>4, <2>5
<1>8. CASE x[1] = "free"
  <2>1. FreeIn(p, d, s, r)
    BY <1>0, <1>8, MovesIs
  <2>2. /\ d \in Uniques /\ f[d] = s.target[d] /\ g[d] = None
        /\ \A v \in Uniques \ {d} : g[v] = f[v] /\ (v \in E <=> v \in D)
    BY <1>0, <1>v, <2>1, FreeOwns
  <2>3. s.target[d] = target[d]
    BY <1>0, <1>b, <1>u, <2>1, <2>2 DEF FreeIn, Tagged
  <2>o. At(p, "free")
    BY <1>8, <1>a
  <2>4. CASE target[d] = o
    <3>1. y # "owned"
      <4>1. DoDelete(p)
        BY <2>o DEF StepOf, At, DoBind, DoAttach, DoUnbind, DoDrop, DoStore, DoCreate, DoReady, DoMapping,
                    DoNew, DoNewFails, DoTarget
      <4>2. obj'[o] \in {"free", "lost"}
        BY <1>d, <2>4, <2>o, <4>1 DEF DoDelete, At, Core, Types
      <4>. QED  BY <1>y, <4>2
    <3>. QED  BY <1>n, <1>o, <1>y, <1>z, <2>2, <2>3, <2>4, <3>1, OwnedGone
  <2>5. CASE target[d] # o
    <3>1. y = z
      BY <1>1, <1>8, <2>5
    <3>2. \A v \in Uniques : (g[v] = o <=> f[v] = o) /\ (f[v] = o => (v \in E <=> v \in D))
      BY <1>n, <2>2, <2>3, <2>5
    <3>. QED  BY <1>o, <1>y, <1>z, <3>1, <3>2, OwnedSame
  <2>. QED  BY <2>4, <2>5
<1>9. CASE x[1] = "forget"
  <2>1. ForgetIn(p, d, s, r)
    BY <1>0, <1>9, MovesIs
  <2>2. \A u \in Uniques : g[u] = f[u] /\ (u \in E <=> u \in D)
    BY <1>0, <1>v, <2>1, ForgetOwns
  <2>3. y = z
    BY <1>1, <1>9
  <2>. QED  BY <1>o, <1>y, <1>z, <2>2, <2>3, OwnedSame
<1>10. x[1] # "create"
  BY <1>a
<1>11. \/ x[1] \in {"bind", "attach", "unbind", "drop", "clear", "take", "swap", "ready",
                    "takeall", "swapall", "unmap", "new"}
       \/ x[1] = "create" \/ x[1] = "own" \/ x[1] = "movetarget" \/ x[1] = "swaptarget"
       \/ x[1] = "release" \/ x[1] = "destroy" \/ x[1] = "free" \/ x[1] = "forget"
  BY <1>0 DEF Moves
<1>. QED  BY <1>2, <1>3, <1>4, <1>5, <1>6, <1>7, <1>8, <1>9, <1>10, <1>11

(* In a memory that is created, nothing is owned. *)
LEMMA CreateOwnedBy ==
    ASSUME Core, Objs, NEW p \in Procs, StepOf(p), At(p, "create"),
           NEW s, NEW r, NEW t, Doing(p, s, r, t),
           NEW f, f = Owns, NEW g, NEW D, D = Doomed, NEW E, OwnsStep(p, s, r, f, g, D, E),
           NEW o \in Objects, HeapOf[o] = Src(p) \/ Good(HeapOf[o])
    PROVE  OwnedBy(g, E, obj'[o], o)
<1>c. PICK m \in Memories : m = Src(p) /\ UsersOf(m) = {p}
  BY CreatorIsAlone
<1>d. PICK d : d = Dst(p)
  OBVIOUS
<1>1. obj' = [k \in Objects |-> IF HeapOf[k] = m THEN "free" ELSE obj[k]]
  BY <1>c DEF StepOf, At, DoBind, DoAttach, DoUnbind, DoDrop, DoStore, DoCreate, DoReady, DoMapping,
              DoNew, DoNewFails, DoTarget, DoDelete
<1>2. CreateIn(p, d, m, s, r)
  BY <1>c, <1>d, MovesIs DEF Doing, At, Dst, Src
<1>3. /\ r.target = s.target /\ s.tag = "new" /\ s.fresh = {m} /\ r.tag = "clean"
      /\ \A u \in Uniques : /\ Home[u] = m => s.target[u] = None
                            /\ s.target[u] # None => HeapOf[s.target[u]] # m
  BY <1>2 DEF CreateIn, Becomes, Clean
<1>u. Uniques \subseteq Handles /\ o # None /\ HeapOf[o] \in Memories
  BY KindsAreHandles, HomesAssumption
<1>4. \A u \in Uniques : Home[u] = p => s.target[u] = target[u]
  BY <1>u DEF Doing, Sees
<1>5. \A u \in Uniques : Involved(p, u) => Home[u] = p \/ Home[u] = m
  BY <1>3, <1>u DEF Doing, Sees, Involved
<1>6. \A u \in Uniques : /\ g[u] = IF Involved(p, u) THEN s.target[u]
                                   ELSE IF Home[u] = m THEN None ELSE f[u]
                         /\ Involved(p, u) => u \notin D /\ u \notin E
                         /\ ~Involved(p, u) => (u \in E <=> u \in D)
  BY <1>3, <1>c DEF OwnsStep, OwnsIn, Tagged
<1>7. \A u \in Uniques : f[u] = target[u] \/ f[u] = None
  BY DEF Owns
<1>8. ASSUME NEW u \in Uniques, Home[u] = p
      PROVE  f[u] = target[u]
  <2>1. u \notin Forgets(todo[p])
    BY DEF Forgets, At
  <2>2. \A q \in Procs \ {p} : u \notin Forgets(todo[q])
    BY <1>8, <1>u, OthersForget DEF Involved
  <2>. QED  BY <2>1, <2>2 DEF Owns
<1>9. ASSUME NEW u \in Uniques, target[u] # None
      PROVE  /\ Fits(u, HeapOf[target[u]])
             /\ Home[u] \in Procs => HeapOf[target[u]] \in Mapped(Home[u])
  <2>1. Placed(p, Now) /\ \A q \in Procs : Placed(q, Now)
    BY DEF Core, InPlace
  <2>. QED  BY <1>9, <2>1, MappedNow DEF Placed, TargetPlaced, Now
<1>10. CASE HeapOf[o] = m
  <2>1. ASSUME NEW u \in Uniques PROVE g[u] # o
    <3>1. CASE Involved(p, u) \/ Home[u] = m
      BY <1>3, <1>6, <1>10, <1>u, <3>1
    <3>2. CASE ~Involved(p, u) /\ Home[u] # m
      <4>. SUFFICES ASSUME target[u] = o PROVE FALSE
        BY <1>6, <1>7, <1>u, <3>2
      <4>1. Home[u] \notin Memories
        BY <1>9, <1>10, <1>u, <3>2, HomesAssumption DEF Fits
      <4>2. PICK q \in Procs : q = Home[u]
        BY <1>u, <4>1, HomesAssumption
      <4>3. q \in UsersOf(m)
        BY <1>9, <1>10, <1>u, <4>2 DEF UsersOf
      <4>. QED  BY <1>c, <3>2, <4>2, <4>3 DEF Involved
    <3>. QED  BY <3>1, <3>2
  <2>2. obj'[o] = "free"
    BY <1>1, <1>10
  <2>. QED  BY <2>1, <2>2 DEF OwnedBy
<1>11. CASE HeapOf[o] # m
  <2>1. OwnedBy(f, D, obj[o], o)
    BY <1>11, <1>c DEF Objs
  <2>2. ASSUME NEW u \in Uniques, Home[u] = m PROVE f[u] # o /\ g[u] # o
    <3>1. f[u] # o
      BY <1>7, <1>9, <1>11, <1>u, <2>2, HomesAssumption DEF Fits
    <3>2. g[u] # o
      BY <1>3, <1>6, <1>u, <2>2
    <3>. QED  BY <3>1, <3>2
  <2>3. ASSUME NEW u \in Uniques, Home[u] # m PROVE g[u] = f[u]
    <3>1. CASE Home[u] = p
      <4>1. Involved(p, u)
        BY <3>1 DEF Involved
      <4>. QED  BY <1>4, <1>6, <1>8, <3>1, <4>1
    <3>2. CASE Home[u] # p
      BY <1>5, <1>6, <2>3, <3>2
    <3>. QED  BY <3>1, <3>2
  <2>4. \A u \in Uniques : g[u] = o <=> f[u] = o
    BY <2>2, <2>3
  <2>5. \A u \in Uniques : u \in E <=> u \in D
    BY <1>6
  <2>6. obj'[o] = obj[o]
    BY <1>1, <1>11
  <2>7. PICK z : z = obj[o]
    OBVIOUS
  <2>. QED  BY <2>1, <2>4, <2>5, <2>6, <2>7, OwnedSame
<1>. QED  BY <1>10, <1>11

(* An object that a call may come to own stays held. *)
LEMMA HeldStays ==
    ASSUME Core, Objs, NEW p \in Procs, StepOf(p), NEW s, NEW r, NEW t, Doing(p, s, r, t),
           NEW o \in Objects, Good(HeapOf[o]), obj[o] = "held",
           ~(At(p, "own") /\ Src(p) = o), ~(At(p, "create") /\ Src(p) = HeapOf[o])
    PROVE  obj'[o] = "held"
<1>1. CASE At(p, "create")
  <2>1. DoCreate(p)
    BY <1>1 DEF StepOf, At, DoBind, DoAttach, DoUnbind, DoDrop, DoStore, DoReady, DoMapping,
                DoNew, DoNewFails, DoTarget, DoDelete
  <2>. QED  BY <1>1, <2>1 DEF DoCreate
<1>2. CASE ~At(p, "create")
  <2>1. OwnedBy(Owns, Doomed, obj[o], o)
    BY DEF Objs
  <2>2. \A u \in Uniques : Owns[u] # o
    BY <2>1 DEF OwnedBy
  <2>3. ASSUME At(p, "release") \/ At(p, "destroy") \/ At(p, "free") PROVE target[Dst(p)] # o
    <3>d. PICK d : d = Dst(p)
      OBVIOUS
    <3>1. ReleaseIn(p, d, s, r) \/ DestroyIn(p, d, s, r) \/ FreeIn(p, d, s, r)
      BY <2>3, <3>d, MovesIs DEF Doing, At, Dst
    <3>2. d \in Uniques /\ s.tag \notin {"new", "freed"}
      BY <3>1 DEF ReleaseIn, DestroyIn, FreeIn, Clean, Tagged
    <3>3. Involved(p, d) /\ todo[p] # <<>>
      BY <3>d, StepHasHead DEF Involved
    <3>4. Owns[d] = OwnsIn(s, d) /\ s.target[d] = target[d]
      BY <3>2, <3>3, OwnsBefore
    <3>5. OwnsIn(s, d) = s.target[d]
      BY <3>2 DEF OwnsIn, Tagged
    <3>. QED  BY <2>2, <3>2, <3>4, <3>5, <3>d
  <2>. QED  BY <1>2, <2>3, StepObjects
<1>. QED  BY <1>1, <1>2


(* What the call that makes the step may still come to own. *)
LEMMA StepAims ==
    ASSUME Core, NEW p \in Procs, StepOf(p), NEW s, NEW r, NEW t, Doing(p, s, r, t),
           Single(todo[p])
    PROVE  /\ Single(todo'[p])
           /\ \A o : Claims(todo'[p], o) =>
                  /\ Mapped(p)' = Mapped(p) /\ ~At(p, "own") /\ ~At(p, "create")
                  /\ Claims(todo[p], o) \/ (DoNew(p) /\ Src(p) = o)
<1>w. PICK w : w = todo'[p]
  OBVIOUS
<1>1. CASE DoNewFails(p)
  <2>1. w = Destruct(Dst(p)) /\ Dst(p) \in Handles
    BY <1>1, <1>w, StepTodo, NewFailsIs DEF Core, Types, NewIn
  <2>2. w \in Seq(Plain)
    BY <2>1, DestructQuiet, QuietPlain
  <2>. QED  BY <1>w, <2>2, PlainClaims
<1>2. CASE ~DoNewFails(p)
  <2>1. todo[p] # <<>> /\ todo[p] \in Seq(Steps) /\ w = Tail(todo[p])
    BY <1>2, <1>w, StepHasHead, StepTodo DEF Core, Types
  <2>2. Single(w) /\ (Head(todo[p])[1] \in {"own", "create"} => \A o : ~Claims(w, o))
    BY <2>1, SingleTail
  <2>3. ASSUME NEW o, Claims(w, o)
        PROVE  /\ Mapped(p)' = Mapped(p) /\ ~At(p, "own") /\ ~At(p, "create")
               /\ Claims(todo[p], o) \/ (DoNew(p) /\ Src(p) = o)
    <3>1. Head(todo[p])[1] \notin {"own", "create"}
      BY <2>2, <2>3
    <3>2. ~At(p, "own") /\ ~At(p, "create")
      BY <3>1 DEF At
    <3>3. w # <<>>
      BY <2>3 DEF Claims
    <3>4. Mapped(p)' = Mapped(p)
      BY <1>2, <2>1, <3>3, MapsUntilOver
    <3>5. Claims(todo[p], o) \/ (Head(todo[p])[1] = "new" /\ Head(todo[p])[3] = o)
      BY <2>1, <2>3, ClaimsTail
    <3>6. ASSUME Head(todo[p])[1] = "new", Head(todo[p])[3] = o
          PROVE  DoNew(p) /\ Src(p) = o
      <4>1. At(p, "new") /\ Src(p) = o
        BY <2>1, <3>6, StepHasHead DEF At, Src
      <4>. QED  BY <1>2, <4>1 DEF StepOf, At, DoBind, DoAttach, DoUnbind, DoDrop, DoStore, DoCreate,
                                  DoReady, DoMapping, DoTarget, DoDelete
    <3>. QED  BY <3>2, <3>4, <3>5, <3>6
  <2>. QED  BY <1>w, <2>2, <2>3
<1>. QED  BY <1>1, <1>2

LEMMA StepClaims ==
    ASSUME Core, Objs, NEW p \in Procs, StepOf(p), NEW q \in Procs, NEW o \in Objects
    PROVE  Single(todo'[q]) /\ ClaimHeld(q, o)'
<1>1. PICK s, r, t : Doing(p, s, r, t)
  BY StepHasHead, StepDoes
<1>2. \A k \in Procs \ {p} : todo'[k] = todo[k] /\ Mapped(k)' = Mapped(k)
  BY <1>1, StepOnlyBy, OthersMapped DEF OnlyBy
<1>3. /\ Single(todo'[p])
      /\ Claims(todo'[p], o) =>
            /\ Mapped(p)' = Mapped(p) /\ ~At(p, "own") /\ ~At(p, "create")
            /\ Claims(todo[p], o) \/ (DoNew(p) /\ Src(p) = o)
  BY <1>1, StepAims DEF Objs
<1>4. \A k \in Procs : ClaimHeld(k, o)
  BY DEF Objs
<1>5. HeapOf[o] \in Memories
  BY HomesAssumption
<1>6. ASSUME Good(HeapOf[o])', ~(At(p, "create") /\ Src(p) = HeapOf[o])
      PROVE  Good(HeapOf[o])
  BY <1>1, <1>5, <1>6, StepGood
<1>7. ASSUME DoNew(p), Src(p) = o
      PROVE  obj[o] = "free" /\ obj'[o] = "held" /\ HeapOf[o] \in Mapped(p) /\ At(p, "new")
  <2>1. At(p, "new") /\ obj[o] = "free" /\ obj' = [obj EXCEPT ![o] = "held"]
    BY <1>7 DEF DoNew
  <2>2. NewIn(p, Dst(p), o, s, r)
    BY <1>1, <1>7, <2>1, MovesIs DEF Doing, At, Dst, Src
  <2>3. HeapOf[o] \in MapsIn(p, s) /\ MapsIn(p, s) = Mapped(p)
    BY <1>1, <2>2, SeenMaps DEF NewIn, Doing, Sees
  <2>. QED  BY <2>1, <2>3 DEF Core, Types
<1>8. CASE q = p
  <2>. SUFFICES ASSUME Claims(todo'[p], o)
                PROVE  /\ HeapOf[o] \in Mapped(p)'
                       /\ Good(HeapOf[o])' => /\ obj'[o] = "held"
                                              /\ \A k \in Procs \ {p} : ~Claims(todo'[k], o)
    BY <1>3, <1>8 DEF ClaimHeld, Claims
  <2>1. CASE Claims(todo[p], o)
    <3>1. HeapOf[o] \in Mapped(p)'
      BY <1>3, <1>4, <2>1 DEF ClaimHeld
    <3>2. ASSUME Good(HeapOf[o])'
          PROVE  obj'[o] = "held" /\ \A k \in Procs \ {p} : ~Claims(todo'[k], o)
      <4>1. Good(HeapOf[o])
        BY <1>3, <1>6, <3>2
      <4>2. obj[o] = "held" /\ \A k \in Procs \ {p} : ~Claims(todo[k], o)
        BY <1>4, <2>1, <4>1 DEF ClaimHeld
      <4>3. obj'[o] = "held"
        BY <1>1, <1>3, <4>1, <4>2, HeldStays
      <4>. QED  BY <1>2, <4>2, <4>3
    <3>. QED  BY <3>1, <3>2
  <2>2. CASE DoNew(p) /\ Src(p) = o
    <3>1. HeapOf[o] \in Mapped(p)' /\ obj'[o] = "held"
      BY <1>3, <1>7, <2>2
    <3>2. ASSUME Good(HeapOf[o])', NEW k \in Procs \ {p}, Claims(todo'[k], o) PROVE FALSE
      <4>1. Good(HeapOf[o])
        BY <1>3, <1>6, <3>2
      <4>2. obj[o] = "held"
        BY <1>2, <1>4, <3>2, <4>1 DEF ClaimHeld
      <4>. QED  BY <1>7, <2>2, <4>2
    <3>. QED  BY <3>1, <3>2
  <2>. QED  BY <1>3, <2>1, <2>2
<1>9. CASE q # p
  <2>0. todo'[q] = todo[q] /\ Mapped(q)' = Mapped(q) /\ Single(todo[q])
    BY <1>2, <1>9 DEF Objs
  <2>. SUFFICES ASSUME Claims(todo[q], o)
                PROVE  /\ HeapOf[o] \in Mapped(q)
                       /\ Good(HeapOf[o])' => /\ obj'[o] = "held"
                                              /\ \A k \in Procs \ {q} : ~Claims(todo'[k], o)
    BY <2>0 DEF ClaimHeld, Claims
  <2>1. HeapOf[o] \in Mapped(q)
    BY <1>4 DEF ClaimHeld
  <2>2. ~(At(p, "create") /\ Src(p) = HeapOf[o])
    <3>1. q \in UsersOf(HeapOf[o])
      BY <2>1 DEF UsersOf
    <3>. QED  BY <1>1, <1>9, <3>1, CreatorIsAlone
  <2>3. ASSUME Good(HeapOf[o])'
        PROVE  obj'[o] = "held" /\ \A k \in Procs \ {q} : ~Claims(todo'[k], o)
    <3>1. Good(HeapOf[o])
      BY <1>6, <2>2, <2>3
    <3>2. obj[o] = "held" /\ \A k \in Procs \ {q} : ~Claims(todo[k], o)
      BY <1>4, <3>1 DEF ClaimHeld
    <3>3. ~(At(p, "own") /\ Src(p) = o)
      <4>. SUFFICES ASSUME At(p, "own"), Src(p) = o PROVE FALSE
        OBVIOUS
      <4>1. Claims(todo[p], o)
        BY StepHasHead, OwnClaims DEF At, Src
      <4>. QED  BY <1>9, <3>2, <4>1
    <3>4. obj'[o] = "held"
      BY <1>1, <2>2, <3>1, <3>2, <3>3, HeldStays
    <3>5. ~Claims(todo'[p], o)
      BY <1>3, <1>7, <1>9, <3>2
    <3>6. \A k \in Procs \ {q} : ~Claims(todo'[k], o)
      BY <1>2, <3>2, <3>5
    <3>. QED  BY <3>4, <3>6
  <2>. QED  BY <2>1, <2>3
<1>. QED  BY <1>8, <1>9

LEMMA StepObjs ==
    ASSUME Core, Objs, NEW p \in Procs, StepOf(p)
    PROVE  Objs'
<1>1. PICK s, r, t : Doing(p, s, r, t)
  BY StepHasHead, StepDoes
<1>f. PICK f : f = Owns
  OBVIOUS
<1>g. PICK g : g = Owns'
  OBVIOUS
<1>d. PICK D : D = Doomed
  OBVIOUS
<1>e. PICK E : E = Doomed'
  OBVIOUS
<1>2. OwnsStep(p, s, r, f, g, D, E)
  BY <1>1, <1>d, <1>e, <1>f, <1>g, StepOwns
<1>3. ASSUME NEW o \in Objects, Good(HeapOf[o])'
      PROVE  OwnedBy(g, E, obj'[o], o)
  <2>1. (HeapOf[o] = Src(p) /\ At(p, "create")) \/ Good(HeapOf[o])
    BY <1>1, <1>3, StepGood, HomesAssumption
  <2>2. CASE At(p, "create")
    BY <1>1, <1>2, <1>d, <1>f, <2>1, <2>2, CreateOwnedBy
  <2>3. CASE ~At(p, "create")
    BY <1>1, <1>2, <1>d, <1>f, <2>1, <2>3, StepOwnedBy
  <2>. QED  BY <2>2, <2>3
<1>4. \A o \in Objects : Good(HeapOf[o])' => OwnedBy(Owns, Doomed, obj[o], o)'
  BY <1>3, <1>e, <1>g DEF OwnedBy
<1>5. \A q \in Procs : Single(todo'[q])
  <2>1. \A q \in Procs \ {p} : todo'[q] = todo[q]
    BY <1>1, StepOnlyBy DEF OnlyBy
  <2>2. \A q \in Procs : Single(todo[q])
    BY DEF Objs
  <2>3. Single(todo'[p])
    BY <1>1, <2>2, StepAims
  <2>. QED  BY <2>1, <2>2, <2>3
<1>6. \A q \in Procs : Single(todo[q])'
  <2>1. \A q \in Procs : Single(todo[q])' <=> Single(todo'[q])
    BY DEF Single
  <2>. QED  BY <1>5, <2>1
<1>7. \A q \in Procs, o \in Objects : ClaimHeld(q, o)'
  BY StepClaims
<1>. QED  BY <1>4, <1>6, <1>7 DEF Objs

-----------------------------------------------------------------------------
(* The start of a call, and a process that dies.                           *)

LEMMA CallOwns ==
    ASSUME NEW p \in Procs, todo[p] = <<>>, \A q \in Procs \ {p} : todo'[q] = todo[q],
           target' = target, Begun(p)', NEW u \in Uniques
    PROVE  Owns'[u] = Owns[u] /\ (u \in Doomed' <=> u \in Doomed)
<1>1. /\ Owns'[u] = IF \E q \in Procs : u \in Forgets(todo'[q]) THEN None ELSE target[u]
      /\ Owns[u] = IF \E q \in Procs : u \in Forgets(todo[q]) THEN None ELSE target[u]
      /\ u \in Doomed' <=> \E q \in Procs : u \in Frees(todo'[q])
      /\ u \in Doomed <=> \E q \in Procs : u \in Frees(todo[q])
  BY DEF Owns, Doomed, Forgets, Frees
<1>2. Forgets(todo[p]) = {} /\ Frees(todo[p]) = {}
  BY DEF Forgets, Frees
<1>3. Forgets(todo'[p]) = {} /\ Frees(todo'[p]) = {}
  BY DEF Begun, Forgets, Frees
<1>. QED  BY <1>1, <1>2, <1>3

(* The memories that are good after a call began were good before. *)
LEMMA CallGood ==
    ASSUME NEW p \in Procs, todo[p] = <<>>, \A q \in Procs \ {p} : todo'[q] = todo[q],
           alive' = alive, tainted' = tainted,
           NEW m, Good(m)', UsersOf(m) # {}
    PROVE  Good(m)
<1>1. ASSUME NEW q \in Procs, At(q, "create")
      PROVE  Src(q) # m
  <2>1. todo'[q] = todo[q] /\ q \in alive'
    BY <1>1 DEF At
  <2>2. At(q, "create")' /\ Src(q)' = Src(q)
    BY <1>1, <2>1 DEF At, Src
  <2>. QED  BY <2>2 DEF Good
<1>. QED  BY <1>1 DEF Good

LEMMA CallObjs ==
    ASSUME Objs, NEW p \in Procs, todo[p] = <<>>, NEW w, todo'[p] = w,
           \A q \in Procs \ {p} : todo'[q] = todo[q],
           target' = target, obj' = obj, alive' = alive, tainted' = tainted, Begun(p)',
           \A q \in Procs : Mapped(q) \subseteq Mapped(q)',
           \A m \in Memories : Good(m)' => UsersOf(m) # {}, Aims(p, w)
    PROVE  Objs'
<1>f. PICK f : f = Owns
  OBVIOUS
<1>g. PICK g : g = Owns'
  OBVIOUS
<1>d. PICK D : D = Doomed
  OBVIOUS
<1>e. PICK E : E = Doomed'
  OBVIOUS
<1>1. \A u \in Uniques : g[u] = f[u] /\ (u \in E <=> u \in D)
  BY <1>d, <1>e, <1>f, <1>g, CallOwns
<1>2. ASSUME NEW o \in Objects, Good(HeapOf[o])'
      PROVE  Good(HeapOf[o])
  BY <1>2, CallGood, HomesAssumption
<1>3. ASSUME NEW o \in Objects, Good(HeapOf[o])'
      PROVE  OwnedBy(g, E, obj[o], o)
  <2>1. OwnedBy(f, D, obj[o], o)
    BY <1>2, <1>3, <1>d, <1>f DEF Objs
  <2>2. PICK z : z = obj[o]
    OBVIOUS
  <2>. QED  BY <1>1, <2>1, <2>2, OwnedSame
<1>4. \A o \in Objects : Good(HeapOf[o])' => OwnedBy(Owns, Doomed, obj[o], o)'
  BY <1>3, <1>e, <1>g DEF OwnedBy
<1>5. \A q \in Procs : Single(todo[q])'
  <2>1. \A q \in Procs : Single(todo[q])' <=> Single(todo'[q])
    BY DEF Single
  <2>. QED  BY <2>1 DEF Objs, Aims
<1>6. ASSUME NEW q \in Procs, NEW o \in Objects
      PROVE  ClaimHeld(q, o)'
  <2>. SUFFICES ASSUME Claims(todo'[q], o)
                PROVE  /\ HeapOf[o] \in Mapped(q)'
                       /\ Good(HeapOf[o])' => /\ obj[o] = "held"
                                              /\ \A k \in Procs \ {q} : ~Claims(todo'[k], o)
    BY DEF ClaimHeld, Claims
  <2>1. CASE q = p
    BY <2>1 DEF Aims
  <2>2. CASE q # p
    <3>1. Claims(todo[q], o) /\ ClaimHeld(q, o)
      BY <2>2 DEF Objs
    <3>2. ~Claims(w, o)
      BY <3>1 DEF Aims
    <3>. QED  BY <1>2, <3>1, <3>2 DEF ClaimHeld
  <2>. QED  BY <2>1, <2>2
<1>. QED  BY <1>4, <1>5, <1>6 DEF Objs

LEMMA PlainObjs ==
    ASSUME Core, Objs, NEW p \in Procs, NEW w, Call(p, w), Aims(p, w), todo[p] = <<>>, Begun(p)'
    PROVE  Objs'
<1>1. /\ todo' = [todo EXCEPT ![p] = w] /\ shm' = shm /\ target' = target /\ obj' = obj
      /\ alive' = alive /\ tainted' = tainted
  BY DEF Call
<1>2. todo'[p] = w /\ \A q \in Procs \ {p} : todo'[q] = todo[q]
  BY <1>1 DEF Core, Types
<1>3. \A q : Mapped(q)' = Mapped(q)
  BY <1>1 DEF Mapped
<1>4. \A m \in Memories : Good(m)' => UsersOf(m) # {}
  BY <1>3 DEF Good, UsersOf
<1>. QED  BY <1>1, <1>2, <1>3, <1>4, CallObjs

LEMMA SetUpObjs ==
    ASSUME Core, Objs, NEW p \in Procs, NEW x \in Mallocs, SetUp(p, x)
    PROVE  Objs'
<1>m. PICK m : m = NameOf[x]
  OBVIOUS
<1>1. /\ Begun(p)'
      /\ UsersOf(m) = {} => At(p, "create")' /\ Src(p)' = m
  BY <1>m, SetUpKept
<1>2. PICK first, w : /\ SetsUp(p, x, m, first) /\ todo' = [todo EXCEPT ![p] = w]
                      /\ w = Attached(p, x, m) \/ w = InitFunctor(p, m) \o Attached(p, x, m)
  BY <1>m, SetUpIs
<1>3. w \in Seq(Plain)
  <2>1. m \in Memories
    BY <1>2 DEF SetsUp
  <2>2. Attached(p, x, m) \in Seq(Plain) /\ InitFunctor(p, m) \in Seq(Plain)
    BY <2>1, AttachedQuiet, QuietPlain, FunctorPlain
  <2>3. InitFunctor(p, m) \o Attached(p, x, m) \in Seq(Plain)
    BY <2>2, JoinedIn
  <2>. QED  BY <1>2, <2>2, <2>3
<1>4. w \in Seq(Steps) /\ Aims(p, w)
  BY <1>3, PlainIsSteps, PlainClaims DEF Aims
<1>5. OnlyBy(p) /\ Mapped(p)' = Mapped(p) \cup {m}
  BY <1>2, <1>4, SetUpMaps
<1>6. ASSUME NEW k \in Memories, Good(k)'
      PROVE  UsersOf(k) # {}
  <2>1. PICK q \in Procs : k \in Mapped(q)'
    BY <1>6 DEF Good, UsersOf
  <2>2. CASE k \in Mapped(q)
    BY <2>2 DEF UsersOf
  <2>3. CASE k \notin Mapped(q)
    <3>1. k = m
      BY <1>5, <2>1, <2>3, OthersMapped
    <3>. QED  BY <1>1, <1>6, <3>1 DEF Good
  <2>. QED  BY <2>2, <2>3
<1>7. \A q \in Procs : Mapped(q) \subseteq Mapped(q)'
  BY <1>5, OthersMapped
<1>8. todo'[p] = w /\ todo[p] = <<>> /\ \A q \in Procs \ {p} : todo'[q] = todo[q]
  BY <1>2, <1>5 DEF SetsUp, OnlyBy, Core, Types
<1>9. target' = target /\ obj' = obj /\ alive' = alive /\ tainted' = tainted
  BY <1>2 DEF SetsUp
<1>. QED  BY <1>1, <1>4, <1>6, <1>7, <1>8, <1>9, CallObjs

LEMMA DieMapped ==
    ASSUME Types, NEW p \in Procs, Die(p), NEW q \in Procs
    PROVE  Mapped(q)' = IF q = p THEN {} ELSE Mapped(q)
<1>1. shm' = [x \in Held |-> IF Home[x] = p THEN None ELSE shm[x]]
  BY DEF Die, Types
<1>2. Mapped(q)' = {shm'[x] : x \in {y \in Held : Home[y] = q}} \ {None}
  BY DEF Mapped, Held
<1>3. Mapped(q) = {shm[x] : x \in {y \in Held : Home[y] = q}} \ {None}
  BY DEF Mapped, Held
<1>4. CASE q = p
  BY <1>1, <1>2, <1>4
<1>5. CASE q # p
  <2>1. \A x \in {y \in Held : Home[y] = q} : shm'[x] = shm[x]
    BY <1>1, <1>5
  <2>. QED  BY <1>2, <1>3, <1>5, <2>1
<1>. QED  BY <1>4, <1>5

(* The memories that are good after a process died were good before. *)
LEMMA DieGood ==
    ASSUME Core, NEW p \in Procs, Die(p), NEW m \in Memories, Good(m)'
    PROVE  Good(m) /\ m \notin Mapped(p)
<1>1. /\ alive' = alive \ {p} /\ tainted' = tainted \cup Mapped(p)
      /\ \A q \in Procs \ {p} : todo'[q] = todo[q]
  BY DEF Die, Core, Types
<1>2. m \notin Mapped(p) /\ m \notin tainted
  BY <1>1 DEF Good
<1>3. UsersOf(m) # {}
  <2>1. PICK q \in Procs : m \in Mapped(q)'
    BY DEF Good, UsersOf
  <2>2. m \in Mapped(q)
    BY <2>1, DieMapped DEF Core
  <2>. QED  BY <2>2 DEF UsersOf
<1>4. ASSUME NEW q \in Procs, At(q, "create")
      PROVE  Src(q) # m
  <2>1. CASE q = p
    <3>1. PICK s, r, t : Doing(p, s, r, t)
      BY <1>4, <2>1, StepDoes DEF At
    <3>2. UsersOf(Src(p)) = {p}
      BY <1>4, <2>1, <3>1, CreatorIsAlone
    <3>. QED  BY <1>2, <2>1, <3>2 DEF UsersOf
  <2>2. CASE q # p
    <3>1. todo'[q] = todo[q] /\ q \in alive'
      BY <1>1, <1>4, <2>2 DEF At
    <3>2. At(q, "create")' /\ Src(q)' = Src(q)
      BY <1>4, <3>1 DEF At, Src
    <3>. QED  BY <3>2 DEF Good
  <2>. QED  BY <2>1, <2>2
<1>. QED  BY <1>2, <1>3, <1>4 DEF Good

(* Who owned an object of such a memory owns it still. *)
LEMMA DieOwns ==
    ASSUME Core, NEW p \in Procs, Die(p), NEW o \in Objects, HeapOf[o] \notin Mapped(p),
           NEW u \in Uniques
    PROVE  /\ Owns'[u] = o <=> Owns[u] = o
           /\ Owns[u] = o => (u \in Doomed' <=> u \in Doomed)
<1>t. Types /\ InPlace /\ u \in Handles /\ None \notin Objects
  BY KindsAreHandles, HomesAssumption DEF Core
<1>1. /\ target' = [v \in Uniques |-> IF Home[v] = p THEN None ELSE target[v]]
      /\ todo'[p] = <<>> /\ \A q \in Procs \ {p} : todo'[q] = todo[q]
  BY <1>t DEF Die, Types
<1>2. /\ Owns'[u] = IF \E q \in Procs : u \in Forgets(todo'[q]) THEN None ELSE target'[u]
      /\ Owns[u] = IF \E q \in Procs : u \in Forgets(todo[q]) THEN None ELSE target[u]
      /\ u \in Doomed' <=> \E q \in Procs : u \in Frees(todo'[q])
      /\ u \in Doomed <=> \E q \in Procs : u \in Frees(todo[q])
  BY DEF Owns, Doomed, Forgets, Frees
<1>3. TargetPlaced(p, Now, u) /\ MapsIn(p, Now) = Mapped(p) /\ Now.target = target
  BY <1>t, MappedNow DEF InPlace, Placed, Now
<1>4. target[u] # None => target[u] \in Objects /\ HeapOf[target[u]] \in Memories
  BY <1>t, HomesAssumption DEF Types
<1>5. CASE Home[u] = p
  <2>1. target[u] # o
    BY <1>t, <1>3, <1>5 DEF TargetPlaced
  <2>2. target'[u] # o
    BY <1>t, <1>1, <1>5
  <2>. QED  BY <1>t, <1>2, <2>1, <2>2
<1>6. CASE Home[u] # p /\ u \in Ops(todo[p])
  <2>1. Home[u] \in Mapped(p) /\ Home[u] \in Memories
    BY <1>t, <1>6, OpsReachable, MappedMemories DEF Reachable
  <2>2. target[u] # None => HeapOf[target[u]] = Home[u]
    BY <1>3, <1>4, <2>1, HomesAssumption DEF TargetPlaced, Fits
  <2>3. target[u] # o /\ target'[u] # o
    BY <1>t, <1>1, <1>6, <2>1, <2>2
  <2>. QED  BY <1>t, <1>2, <2>3
<1>7. CASE Home[u] # p /\ u \notin Ops(todo[p])
  <2>1. target'[u] = target[u]
    BY <1>1, <1>7
  <2>2. u \notin Forgets(todo[p]) /\ u \notin Frees(todo[p])
    BY <1>t, <1>7, OpsHeadTail DEF Forgets, Frees, Types
  <2>3. u \notin Forgets(todo'[p]) /\ u \notin Frees(todo'[p])
    BY <1>1 DEF Forgets, Frees
  <2>4. (\E q \in Procs : u \in Forgets(todo'[q])) <=> (\E q \in Procs : u \in Forgets(todo[q]))
    BY <1>1, <2>2, <2>3
  <2>5. (\E q \in Procs : u \in Frees(todo'[q])) <=> (\E q \in Procs : u \in Frees(todo[q]))
    BY <1>1, <2>2, <2>3
  <2>. QED  BY <1>2, <2>1, <2>4, <2>5
<1>. QED  BY <1>5, <1>6, <1>7

LEMMA DieObjs ==
    ASSUME Core, Objs, NEW p \in Procs, Die(p)
    PROVE  Objs'
<1>1. /\ obj' = obj /\ todo'[p] = <<>> /\ \A q \in Procs \ {p} : todo'[q] = todo[q]
  BY DEF Die, Core, Types
<1>f. PICK f : f = Owns
  OBVIOUS
<1>g. PICK g : g = Owns'
  OBVIOUS
<1>d. PICK D : D = Doomed
  OBVIOUS
<1>e. PICK E : E = Doomed'
  OBVIOUS
<1>2. ASSUME NEW o \in Objects, Good(HeapOf[o])'
      PROVE  Good(HeapOf[o]) /\ HeapOf[o] \notin Mapped(p)
  BY <1>2, DieGood, HomesAssumption
<1>3. ASSUME NEW o \in Objects, Good(HeapOf[o])'
      PROVE  OwnedBy(g, E, obj[o], o)
  <2>1. OwnedBy(f, D, obj[o], o)
    BY <1>2, <1>3, <1>d, <1>f DEF Objs
  <2>2. \A u \in Uniques : (g[u] = o <=> f[u] = o) /\ (f[u] = o => (u \in E <=> u \in D))
    BY <1>2, <1>3, <1>d, <1>e, <1>f, <1>g, DieOwns
  <2>3. PICK z : z = obj[o]
    OBVIOUS
  <2>. QED  BY <2>1, <2>2, <2>3, OwnedSame
<1>4. \A o \in Objects : Good(HeapOf[o])' => OwnedBy(Owns, Doomed, obj[o], o)'
  BY <1>1, <1>3, <1>e, <1>g DEF OwnedBy
<1>5. \A q \in Procs : Single(todo[q])'
  <2>1. \A q \in Procs : Single(todo[q])' <=> Single(todo'[q])
    BY DEF Single
  <2>2. Single(<<>>)
    BY DEF Single
  <2>. QED  BY <1>1, <2>1, <2>2 DEF Objs
<1>6. ASSUME NEW q \in Procs, NEW o \in Objects
      PROVE  ClaimHeld(q, o)'
  <2>. SUFFICES ASSUME Claims(todo'[q], o)
                PROVE  /\ HeapOf[o] \in Mapped(q)'
                       /\ Good(HeapOf[o])' => /\ obj[o] = "held"
                                              /\ \A k \in Procs \ {q} : ~Claims(todo'[k], o)
    BY <1>1 DEF ClaimHeld, Claims
  <2>1. ~Claims(<<>>, o)
    BY DEF Claims
  <2>2. q # p
    BY <1>1, <2>1
  <2>3. Claims(todo[q], o) /\ ClaimHeld(q, o)
    BY <1>1, <2>2 DEF Objs
  <2>4. Mapped(q)' = Mapped(q)
    BY <2>2, DieMapped DEF Core
  <2>. QED  BY <1>1, <1>2, <2>1, <2>3, <2>4 DEF ClaimHeld
<1>. QED  BY <1>4, <1>5, <1>6 DEF Objs

LEMMA NextObjs ==
    ASSUME Core, Objs, Next
    PROVE  Objs'
<1>1. PICK p \in Procs : HandleCall(p) \/ MallocCall(p) \/ UniqueCall(p) \/ StepOf(p) \/ Die(p)
  BY DEF Next
<1>2. CASE HandleCall(p)
  <2>1. Begun(p)'
    BY <1>2, CopyKept, MoveKept, SwapKept, DropKept DEF HandleCall
  <2>2. todo[p] = <<>>
    BY <1>2 DEF HandleCall, CopyHandle, MoveHandle, SwapHandles, DropHandle, MayUse
  <2>3. \E w : Call(p, w) /\ Aims(p, w)
    BY <1>2, HandleAims
  <2>. QED  BY <2>1, <2>2, <2>3, PlainObjs
<1>3. CASE \E x \in Mallocs : SetUp(p, x)
  BY <1>3, SetUpObjs
<1>4. CASE MallocCall(p) /\ ~\E x \in Mallocs : SetUp(p, x)
  <2>1. Begun(p)'
    BY <1>4, DestroyMallocKept, MoveMallocKept DEF MallocCall
  <2>2. todo[p] = <<>>
    BY <1>4 DEF MallocCall, DestroyMalloc, MoveMalloc, MayUse
  <2>3. \E w : Call(p, w) /\ Aims(p, w)
    BY <1>4, MallocAims
  <2>. QED  BY <2>1, <2>2, <2>3, PlainObjs
<1>5. CASE UniqueCall(p)
  <2>1. Begun(p)'
    BY <1>5, MakeKept, MoveUniqueKept, SwapUniquesKept, OneKept DEF UniqueCall
  <2>2. todo[p] = <<>>
    BY <1>5 DEF UniqueCall, MakeUnique, MoveUnique, SwapUniques, ResetUnique, ReleaseUnique,
                ResetTo, DestroyUnique, MayUse
  <2>3. \E w : Call(p, w) /\ Aims(p, w)
    BY <1>5, UniqueAims
  <2>. QED  BY <2>1, <2>2, <2>3, PlainObjs
<1>. QED  BY <1>1, <1>2, <1>3, <1>4, <1>5, StepObjs, DieObjs

LEMMA StutterObjs ==
    ASSUME Objs, UNCHANGED vars
    PROVE  Objs'
<1>1. /\ shm' = shm /\ target' = target /\ obj' = obj /\ todo' = todo /\ alive' = alive
      /\ tainted' = tainted
  BY DEF vars
<1>2. \A m : Good(m)' <=> Good(m)
  BY <1>1 DEF Good, UsersOf, Mapped, At, Src
<1>3. \A p : Mapped(p)' = Mapped(p)
  BY <1>1 DEF Mapped
<1>4. Owns' = Owns /\ Doomed' = Doomed
  BY <1>1 DEF Owns, Doomed, Forgets, Frees
<1>5. \A o \in Objects : Good(HeapOf[o])' => OwnedBy(Owns, Doomed, obj[o], o)'
  <2>. SUFFICES ASSUME NEW o \in Objects, Good(HeapOf[o])'
                PROVE  OwnedBy(Owns, Doomed, obj[o], o)'
    OBVIOUS
  <2>1. OwnedBy(Owns, Doomed, obj[o], o)
    BY <1>2 DEF Objs
  <2>. QED  BY <1>1, <1>4, <2>1 DEF OwnedBy
<1>6. \A p \in Procs : Single(todo[p])'
  BY <1>1 DEF Objs, Single
<1>7. \A p \in Procs, o \in Objects : ClaimHeld(p, o)'
  BY <1>1, <1>2, <1>3 DEF Objs, ClaimHeld, Claims
<1>. QED  BY <1>5, <1>6, <1>7 DEF Objs

LEMMA ObjsInvariant == Spec => [](Core /\ Objs)
<1>1. Init => Objs
  <2>. SUFFICES ASSUME Init PROVE Objs
    OBVIOUS
  <2>1. \A p \in Procs : Mapped(p) = {} /\ todo[p] = <<>>
    BY DEF Init, Mapped
  <2>2. \A m : ~Good(m)
    BY <2>1 DEF Good, UsersOf
  <2>3. Single(<<>>) /\ \A o : ~Claims(<<>>, o)
    BY DEF Single, Claims
  <2>. QED  BY <2>1, <2>2, <2>3 DEF Objs, ClaimHeld
<1>2. Core /\ Objs /\ [Next]_vars => (Core /\ Objs)'
  BY NextCore, StutterCore, NextObjs, StutterObjs
<1>. QED  BY InitCore, <1>1, <1>2, PTL DEF Spec

(* A pointer whose object is being freed has it in the heap of its handle. *)
LEMMA FreesAtHome ==
    ASSUME Core, NEW p \in Procs, NEW o \in Objects, Deleting(p, o), Sound(HeapOf[o])
    PROVE  Dst(p) \in Uniques /\ impl[Dst(p)] = HeapOf[o]
<1>1. todo[p] # <<>> /\ Head(todo[p])[1] = "free" /\ target[Dst(p)] = o
  BY DEF Deleting, At
<1>2. PICK s, r, t : Doing(p, s, r, t)
  BY <1>1, StepDoes
<1>3. PICK u : u = Dst(p)
  OBVIOUS
<1>4. FreeIn(p, u, s, r)
  BY <1>1, <1>2, <1>3, MovesIs DEF Doing, Dst
<1>5. u \in Uniques /\ u \in Handles /\ u \in Ops(todo[p])
  BY <1>1, <1>3, <1>4, OpsHeadTail, KindsAreHandles DEF FreeIn, Core, Types, Dst
<1>6. s.impl[u] = impl[u] /\ s.target[u] = target[u]
  <2>1. Agrees(p, s)
    BY <1>2, <1>4, AgreesUnlessNew DEF FreeIn, Tagged
  <2>. QED  BY <1>5, <2>1 DEF Agrees
<1>7. s.target[u] = o /\ o # None
  BY <1>1, <1>3, <1>6, HomesAssumption
<1>8. ~Wreck(s, u)
  <2>. SUFFICES ASSUME Wreck(s, u) PROVE FALSE
    OBVIOUS
  <2>1. Home[u] = HeapOf[o] /\ Home[u] \in s.taint
    BY <1>7 DEF Wreck
  <2>2. Home[u] \in Memories
    BY <2>1, HomesAssumption
  <2>3. Home[u] \in Mapped(p)
    BY <1>5, <2>2, OpsReachable, KindsAssumption DEF Reachable
  <2>4. Home[u] \in tainted
    BY <1>2, <2>1, <2>3 DEF Doing, Sees
  <2>. QED  BY <2>1, <2>4 DEF Sound
<1>. QED  BY <1>3, <1>4, <1>5, <1>6, <1>7, <1>8 DEF FreeIn, Right

LEMMA SoundIsGood ==
    ASSUME Core, NEW m, Sound(m)
    PROVE  Good(m)
<1>1. ASSUME NEW p \in Procs, At(p, "create")
      PROVE  Src(p) # m
  <2>1. PICK s, r, t : Doing(p, s, r, t)
    BY <1>1, StepDoes DEF At
  <2>2. Src(p) \notin ready
    BY <1>1, <2>1, CreatorIsAlone
  <2>. QED  BY <2>2 DEF Sound
<1>. QED  BY <1>1 DEF Sound, Good

LEMMA ObjsOwned ==
    ASSUME Core, Objs
    PROVE  OwnedOnce
<1>. SUFFICES ASSUME NEW o \in Objects, Sound(HeapOf[o])
              PROVE  /\ obj[o] = "owned" => Cardinality(Owners(o)) = 1
                     /\ Owners(o) # {} => obj[o] = "owned" \/ \E p \in Procs : Deleting(p, o)
                     /\ \A p \in Procs : Deleting(p, o) => impl[Dst(p)] = HeapOf[o]
  BY DEF OwnedOnce
<1>1. PICK f : f = Owns
  OBVIOUS
<1>2. OwnedBy(f, Doomed, obj[o], o)
  BY <1>1, SoundIsGood DEF Objs
<1>3. \A q \in Procs : todo[q] # <<>> => q \in alive
  BY DEF Core, Running
<1>4. Owners(o) = {u \in Uniques : f[u] = o}
  <2>1. ASSUME NEW u \in Uniques, NEW q \in Procs
        PROVE  At(q, "forget") /\ Dst(q) = u <=> u \in Forgets(todo[q])
    BY <1>3 DEF At, Dst, Forgets
  <2>2. ASSUME NEW u \in Uniques
        PROVE  f[u] = IF \E q \in Procs : u \in Forgets(todo[q]) THEN None ELSE target[u]
    BY <1>1 DEF Owns
  <2>3. o # None
    BY HomesAssumption
  <2>4. ASSUME NEW u \in Uniques
        PROVE  (target[u] = o /\ \A p \in Procs : At(p, "forget") => Dst(p) # u) <=> f[u] = o
    BY <2>1, <2>2, <2>3
  <2>. QED  BY <2>4 DEF Owners
<1>5. ASSUME obj[o] = "owned"
      PROVE  Cardinality(Owners(o)) = 1
  <2>1. PICK u \in Uniques : f[u] = o
    BY <1>2, <1>5 DEF OwnedBy
  <2>2. Owners(o) = {u}
    BY <1>2, <1>4, <2>1 DEF OwnedBy
  <2>. QED  BY <2>2, FS_Singleton
<1>6. ASSUME NEW u \in Uniques, f[u] = o, obj[o] # "owned"
      PROVE  \E p \in Procs : Deleting(p, o)
  <2>1. u \in Doomed
    BY <1>2, <1>6 DEF OwnedBy
  <2>2. PICK q \in Procs : u \in Frees(todo[q])
    BY <2>1 DEF Doomed
  <2>3. target[u] = o
    BY <1>1, <1>6, HomesAssumption DEF Owns
  <2>4. At(q, "free") /\ Dst(q) = u
    BY <1>3, <2>2 DEF Frees, At, Dst
  <2>. QED  BY <2>3, <2>4 DEF Deleting
<1>7. \A p \in Procs : Deleting(p, o) => impl[Dst(p)] = HeapOf[o]
  BY FreesAtHome
<1>. QED  BY <1>4, <1>5, <1>6, <1>7

(* As long as nobody died with its memory, an object that is owned has one *)
(* owner, which can give it back to the heap it is from, and the object of *)
(* an owner is alive unless it is just deleted: see OwnedOnce.             *)
THEOREM ObjectsStayOwnedOnce == Spec => []OwnedOnce
BY ObjsInvariant, ObjsOwned, PTL

=============================================================================
