-------------------------- MODULE SharedPtr_proofs --------------------------
(***************************************************************************)
(* Proofs about SharedPtr, for any threads, any of which may die, any      *)
(* blocks and handles: the counts are the references, so nothing dangles,  *)
(* nothing is disposed of twice and nothing is kept.                       *)
(*                                                                         *)
(* The first part is about the references alone: what a change of one      *)
(* handle, or of one frame of a stack, does to their number.  A torn       *)
(* handle, which is being constructed or destroyed in place, is no         *)
(* reference; one drop at most works on it.  The second part says what a   *)
(* frame that disposes of an object or destroys a block has to do with the *)
(* counts, the object and the mutex, and is inductive.                     *)
(***************************************************************************)
EXTENDS SharedPtr, FiniteSetTheorems, SequenceTheorems, TLAPS

Kinds == {"shared", "weak"}
Targets == Blocks \cup {Null}

(* References and DropsDue, of any handles and any stacks: where a frame of *)
(* F is.                                                                   *)
Refs(r, b, k) == {h \in Handles : r[h] = b /\ Kind(h) = k}
Places(s, F) ==
    {x \in UNION {{t} \X DOMAIN s[t] : t \in Threads} : s[x[1]][x[2]] \in F}
Decs(b, k) == {f \in Frames : f.at = "dec" /\ f.blk = b /\ f.kind = k}
Drops(s, b, k) == Places(s, Decs(b, k))

(* What handles r refer to, without the torn ones T. *)
Held(r, T) == [h \in Handles |-> IF h \in T THEN Null ELSE r[h]]

(* The frames of drops that work on a handle in place. *)
Owners(h) == {f \in Frames : f.of = h}
Owned(s, h) == Places(s, Owners(h))

(* There are n references of kind k to b. *)
Balanced(r, s, b, k, n) ==
    /\ IsFiniteSet(Refs(r, b, k)) /\ IsFiniteSet(Drops(s, b, k))
    /\ n = Cardinality(Refs(r, b, k)) + Cardinality(Drops(s, b, k))

If(c) == IF c THEN 1 ELSE 0

LEMMA KindType == \A h \in Handles : Kind(h) \in Kinds
BY HandlesAssumption DEF Kind, Kinds, Handles, Variables

LEMMA NullIsNoHandle == \A h \in Handles : h # Null
BY HandlesAssumption DEF Handles, Variables

LEMMA BalancedNat ==
    ASSUME NEW r, NEW s, NEW b, NEW k, NEW n, Balanced(r, s, b, k, n)
    PROVE  /\ n \in Nat
           /\ n = 0 <=> Refs(r, b, k) = {} /\ Drops(s, b, k) = {}
BY FS_CardinalityType, FS_EmptySet DEF Balanced

(* A handle gets another target. *)
LEMMA Retarget ==
    ASSUME NEW r \in [Handles -> Targets], NEW s, NEW h \in Handles, NEW c \in Targets,
           NEW b \in Blocks, NEW k \in Kinds, NEW n \in Nat, Balanced(r, s, b, k, n)
    PROVE  Balanced(Swapped(h, c, r), s, b, k,
                    n - If(r[h] = b /\ Kind(h) = k) + If(c = b /\ Kind(h) = k))
<1>. DEFINE A == Refs(r, b, k)
            B == Refs(Swapped(h, c, r), b, k)
            D == Cardinality(Drops(s, b, k))
<1>1. h \in A <=> r[h] = b /\ Kind(h) = k
  BY DEF Refs
<1>2. B = IF c = b /\ Kind(h) = k THEN A \cup {h} ELSE A \ {h}
  BY DEF Refs, Swapped
<1>3. IsFiniteSet(A) /\ Cardinality(A) \in Nat /\ D \in Nat /\ n = Cardinality(A) + D
  BY FS_CardinalityType DEF Balanced
<1>. HIDE DEF A, B, D
<1>4. CASE c = b /\ Kind(h) = k
  <2>1. B = A \cup {h}
    BY <1>2, <1>4
  <2>2. IsFiniteSet(B) /\ Cardinality(B) = IF h \in A THEN Cardinality(A) ELSE Cardinality(A) + 1
    BY <1>3, <2>1, FS_AddElement
  <2>3. Cardinality(B) + D = n - If(r[h] = b /\ Kind(h) = k) + If(c = b /\ Kind(h) = k)
    BY <1>1, <1>3, <1>4, <2>2 DEF If
  <2>. QED  BY <2>2, <2>3 DEF Balanced, B, D
<1>5. CASE ~(c = b /\ Kind(h) = k)
  <2>1. B = A \ {h}
    BY <1>2, <1>5
  <2>2. IsFiniteSet(B) /\ Cardinality(B) = IF h \in A THEN Cardinality(A) - 1 ELSE Cardinality(A)
    BY <1>3, <2>1, FS_RemoveElement
  <2>3. Cardinality(B) + D = n - If(r[h] = b /\ Kind(h) = k) + If(c = b /\ Kind(h) = k)
    BY <1>1, <1>3, <1>5, <2>2 DEF If
  <2>. QED  BY <2>2, <2>3 DEF Balanced, B, D
<1>. QED  BY <1>4, <1>5

(* The stacks. *)
Stacks == [Threads -> Seq(Frames)]

LEMMA PlacesMember ==
    ASSUME NEW s \in Stacks, NEW F, NEW x
    PROVE  x \in Places(s, F) <=>
             \E t \in Threads : \E i \in 1..Len(s[t]) : x = <<t, i>> /\ s[t][i] \in F
<1>1. \A t \in Threads : DOMAIN s[t] = 1..Len(s[t])
  BY DEF Stacks
<1>. QED  BY <1>1 DEF Places

(* At most the frame m + 1 of t differs, the top: it goes, comes or changes. *)
TopDiffers(s, u, t, m) ==
    /\ \A v \in Threads \ {t} : u[v] = s[v]
    /\ Len(s[t]) \in {m, m + 1} /\ Len(u[t]) \in {m, m + 1}
    /\ \A i \in 1..m : u[t][i] = s[t][i]

TopIn(s, t, m, F) == Len(s[t]) = m + 1 /\ s[t][m + 1] \in F

LEMMA TopPlaces ==
    ASSUME NEW s \in Stacks, NEW u \in Stacks, NEW t \in Threads, NEW m \in Nat,
           TopDiffers(s, u, t, m), NEW F
    PROVE  /\ <<t, m + 1>> \in Places(s, F) <=> TopIn(s, t, m, F)
           /\ Places(u, F) = IF TopIn(u, t, m, F)
                             THEN Places(s, F) \cup {<<t, m + 1>>}
                             ELSE Places(s, F) \ {<<t, m + 1>>}
<1>0. Len(s[t]) \in Nat /\ Len(u[t]) \in Nat
  BY DEF Stacks
<1>1. <<t, m + 1>> \in Places(s, F) <=> TopIn(s, t, m, F)
  BY <1>0, PlacesMember DEF TopIn, TopDiffers
<1>2. <<t, m + 1>> \in Places(u, F) <=> TopIn(u, t, m, F)
  BY <1>0, PlacesMember DEF TopIn, TopDiffers
<1>3. ASSUME NEW y, y # <<t, m + 1>>
      PROVE  y \in Places(u, F) <=> y \in Places(s, F)
  <2>1. ASSUME NEW v \in Threads, NEW i \in Nat, <<v, i>> # <<t, m + 1>>
        PROVE  /\ i \in 1..Len(u[v]) <=> i \in 1..Len(s[v])
               /\ i \in 1..Len(s[v]) => u[v][i] = s[v][i]
    <3>1. CASE v # t
      BY <3>1 DEF TopDiffers
    <3>2. CASE v = t
      BY <1>0, <2>1, <3>2 DEF TopDiffers
    <3>. QED  BY <3>1, <3>2
  <2>2. \A v \in Threads : Len(u[v]) \in Nat /\ Len(s[v]) \in Nat
    BY DEF Stacks
  <2>3. ASSUME NEW v \in Threads, NEW i, y = <<v, i>>
        PROVE  i \in 1..Len(u[v]) /\ u[v][i] \in F <=> i \in 1..Len(s[v]) /\ s[v][i] \in F
    BY <1>3, <2>1, <2>2, <2>3, SMTT(40)
  <2>4. /\ y \in Places(u, F) <=>
             \E v \in Threads : \E i \in 1..Len(u[v]) : y = <<v, i>> /\ u[v][i] \in F
        /\ y \in Places(s, F) <=>
             \E v \in Threads : \E i \in 1..Len(s[v]) : y = <<v, i>> /\ s[v][i] \in F
    BY PlacesMember
  <2>. QED  BY <2>3, <2>4
<1>. QED  BY <1>1, <1>2, <1>3

LEMMA Restack ==
    ASSUME NEW r, NEW s \in Stacks, NEW u \in Stacks, NEW t \in Threads, NEW m \in Nat,
           TopDiffers(s, u, t, m),
           NEW b \in Blocks, NEW k \in Kinds, NEW n \in Nat, Balanced(r, s, b, k, n)
    PROVE  Balanced(r, u, b, k,
                    n - If(TopIn(s, t, m, Decs(b, k)))
                      + If(TopIn(u, t, m, Decs(b, k))))
<1>. DEFINE x == <<t, m + 1>>
            F == Decs(b, k)
            A == Drops(s, b, k)
            B == Drops(u, b, k)
            R == Cardinality(Refs(r, b, k))
            was == If(TopIn(s, t, m, F))
            is == If(TopIn(u, t, m, F))
<1>1. /\ was = IF x \in A THEN 1 ELSE 0
      /\ \/ is = 1 /\ B = A \cup {x}
         \/ is = 0 /\ B = A \ {x}
  <2>. HIDE DEF F
  <2>1. /\ x \in Places(s, F) <=> TopIn(s, t, m, F)
        /\ Places(u, F) = IF TopIn(u, t, m, F) THEN Places(s, F) \cup {x} ELSE Places(s, F) \ {x}
    BY TopPlaces
  <2>2. A = Places(s, F) /\ B = Places(u, F)
    BY DEF Drops, F
  <2>. QED  BY <2>1, <2>2 DEF If
<1>2. IsFiniteSet(A) /\ Cardinality(A) \in Nat /\ R \in Nat /\ n = R + Cardinality(A)
  BY FS_CardinalityType DEF Balanced
<1>. HIDE DEF was, is, A, B, R, x, F
<1>3. IsFiniteSet(B) /\ R + Cardinality(B) = n - was + is
  <2>1. CASE is = 1 /\ B = A \cup {x}
    BY <1>1, <1>2, <2>1, FS_AddElement
  <2>2. CASE is = 0 /\ B = A \ {x}
    <3>1. IsFiniteSet(B) /\ Cardinality(B) = Cardinality(A) - was
      BY <1>1, <1>2, <2>2, FS_RemoveElement
    <3>2. was \in {0, 1}
      BY <1>1
    <3>. QED  BY <1>2, <2>2, <3>1, <3>2
  <2>. QED  BY <1>1, <2>1, <2>2
<1>. QED  BY <1>2, <1>3 DEF Balanced, B, R, was, is, F

(* What the actions do to the stack of one thread. *)
Pushed(s, t, f) == [s EXCEPT ![t] = Append(@, f)]
Popped(s, t) == [s EXCEPT ![t] = Front(@)]
Turned(s, t, l) == [s EXCEPT ![t] = Append(Front(@), [Last(@) EXCEPT !.at = l])]

LEMMA PushTop ==
    ASSUME NEW s \in Stacks, NEW t \in Threads, NEW f \in Frames, NEW u,
           u = Pushed(s, t, f), NEW m, m = Len(s[t])
    PROVE  /\ m \in Nat /\ u \in Stacks /\ TopDiffers(s, u, t, m)
           /\ Len(u[t]) = m + 1 /\ u[t][m + 1] = f
<1>1. s[t] \in Seq(Frames)
  BY DEF Stacks
<1>2. u[t] = Append(s[t], f) /\ \A v \in Threads \ {t} : u[v] = s[v]
  BY DEF Stacks, Pushed
<1>3. Append(s[t], f) \in Seq(Frames)
  BY <1>1, AppendProperties
<1>. DEFINE Lists == Seq(Frames)
<1>4. u \in [Threads -> Lists]
  <2>. HIDE DEF Lists
  <2>1. s \in [Threads -> Lists] /\ Append(s[t], f) \in Lists
    BY <1>3 DEF Stacks, Lists
  <2>. QED  BY <2>1 DEF Pushed
<1>. QED  BY <1>1, <1>2, <1>4, AppendProperties DEF Stacks, TopDiffers

LEMMA FrontFacts ==
    ASSUME NEW S, NEW q \in Seq(S), q # <<>>
    PROVE  /\ Len(q) - 1 \in Nat /\ q[Len(q)] \in S
           /\ Front(q) \in Seq(S) /\ Len(Front(q)) = Len(q) - 1
           /\ \A i \in 1..Len(q) - 1 : Front(q)[i] = q[i]
<1>. DEFINE n == Len(q) - 1
<1>1. Len(q) \in Nat /\ Len(q) # 0
  BY EmptySeq
<1>2. n \in Nat /\ n \in 1 - 1..Len(q)
  BY <1>1
<1>3. q[Len(q)] \in S /\ Front(q) = SubSeq(q, 1, n)
  BY <1>1 DEF Front
<1>. HIDE DEF n
<1>4. /\ SubSeq(q, 1, n) \in Seq(S)
      /\ Len(SubSeq(q, 1, n)) = IF 1 <= n THEN n - 1 + 1 ELSE 0
      /\ \A i \in 1..n - 1 + 1 : SubSeq(q, 1, n)[i] = q[1 + i - 1]
  BY <1>2, SubSeqProperties
<1>5. Len(Front(q)) = n /\ \A i \in 1..n : Front(q)[i] = q[i]
  BY <1>2, <1>3, <1>4
<1>. QED  BY <1>2, <1>3, <1>4, <1>5 DEF n

LEMMA PopTop ==
    ASSUME NEW s \in Stacks, NEW t \in Threads, s[t] # <<>>, NEW u,
           u = Popped(s, t), NEW m, m = Len(s[t]) - 1
    PROVE  /\ m \in Nat /\ u \in Stacks /\ TopDiffers(s, u, t, m)
           /\ Len(u[t]) = m /\ Len(s[t]) = m + 1
<1>1. s[t] \in Seq(Frames)
  BY DEF Stacks
<1>2. u[t] = Front(s[t]) /\ \A v \in Threads \ {t} : u[v] = s[v]
  BY DEF Stacks, Popped
<1>3. /\ Len(s[t]) - 1 \in Nat
      /\ Front(s[t]) \in Seq(Frames) /\ Len(Front(s[t])) = Len(s[t]) - 1
      /\ \A i \in 1..Len(s[t]) - 1 : Front(s[t])[i] = s[t][i]
  BY <1>1, FrontFacts
<1>. DEFINE Lists == Seq(Frames)
<1>4. u \in [Threads -> Lists]
  <2>. HIDE DEF Lists
  <2>1. s \in [Threads -> Lists] /\ Front(s[t]) \in Lists
    BY <1>3 DEF Stacks, Lists
  <2>. QED  BY <2>1 DEF Popped
<1>. QED  BY <1>1, <1>2, <1>3, <1>4 DEF Stacks, TopDiffers

LEMMA TurnTop ==
    ASSUME NEW s \in Stacks, NEW t \in Threads, s[t] # <<>>, NEW u,
           NEW l \in {"dispose", "destroy", "clear"},
           u = Turned(s, t, l),
           NEW m, m = Len(s[t]) - 1
    PROVE  /\ m \in Nat /\ u \in Stacks /\ TopDiffers(s, u, t, m)
           /\ Len(u[t]) = m + 1 /\ Len(s[t]) = m + 1
           /\ s[t][m + 1] \in Frames /\ u[t][m + 1] = [s[t][m + 1] EXCEPT !.at = l]
<1>. DEFINE f == [s[t][Len(s[t])] EXCEPT !.at = l]
            q == Front(s[t])
<1>1. s[t] \in Seq(Frames)
  BY DEF Stacks
<1>2. /\ m \in Nat /\ Len(s[t]) = m + 1 /\ s[t][m + 1] \in Frames
      /\ q \in Seq(Frames) /\ Len(q) = m
      /\ \A i \in 1..m : q[i] = s[t][i]
  BY <1>1, FrontFacts
<1>3. f \in Frames
  BY <1>2 DEF Frames
<1>4. u[t] = Append(q, f) /\ \A x \in Threads \ {t} : u[x] = s[x]
  BY DEF Stacks, Turned, Last
<1>. HIDE DEF q
<1>5. /\ Append(q, f) \in Seq(Frames)
      /\ Len(Append(q, f)) = m + 1 /\ Append(q, f)[m + 1] = f
      /\ \A i \in 1..m : Append(q, f)[i] = q[i]
  <2>. HIDE DEF f
  <2>. QED  BY <1>2, <1>3, AppendProperties
<1>. DEFINE Lists == Seq(Frames)
<1>6. u \in [Threads -> Lists]
  <2>. HIDE DEF Lists
  <2>1. s \in [Threads -> Lists] /\ Append(q, f) \in Lists
    BY <1>5 DEF Stacks, Lists
  <2>. QED  BY <2>1, <1>4 DEF q, Turned, Last
<1>. QED  BY <1>2, <1>4, <1>5, <1>6 DEF Stacks, TopDiffers

-----------------------------------------------------------------------------
(* The frames that dispose of an object or destroy a block. *)
Tasks == {"dispose", "destroy"}
Doers(b, l) == {f \in Frames : f.at = l /\ f.blk = b}
Doing(s, b, l) == Places(s, Doers(b, l))

(* A drop begins: there is one more reference, and nobody disposes. *)
LEMMA DecPushed ==
    ASSUME NEW s \in Stacks, NEW t \in Threads, NEW c \in Blocks, NEW j \in Kinds,
           NEW o \in Handles \cup {Null},
           NEW u, u = Pushed(s, t, DecFrame(c, j, o))
    PROVE  /\ u \in Stacks
           /\ \A b \in Blocks, l \in Tasks : Doing(u, b, l) = Doing(s, b, l)
           /\ \A r : \A b \in Blocks, k \in Kinds, n \in Nat :
                Balanced(r, s, b, k, n) => Balanced(r, u, b, k, n + If(c = b /\ j = k))
           /\ \A h \in Handles : Owned(u, h) = IF o = h
                                              THEN Owned(s, h) \cup {<<t, Len(s[t]) + 1>>}
                                              ELSE Owned(s, h)
<1>. DEFINE m == Len(s[t])
            f == DecFrame(c, j, o)
<1>1. f \in Frames /\ f.at = "dec" /\ f.blk = c /\ f.kind = j /\ f.of = o
  BY DEF DecFrame, Frames, Kinds
<1>2. /\ m \in Nat /\ u \in Stacks /\ TopDiffers(s, u, t, m)
      /\ Len(u[t]) = m + 1 /\ u[t][m + 1] = f
  <2>1. f \in Frames /\ u = Pushed(s, t, f)
    BY <1>1
  <2>. HIDE DEF f
  <2>. QED  BY <2>1, PushTop
<1>3. Len(s[t]) # m + 1
  BY <1>2
<1>. HIDE DEF m, f
<1>4. ASSUME NEW b \in Blocks, NEW l \in Tasks
      PROVE  Doing(u, b, l) = Doing(s, b, l)
  <2>1. ~TopIn(s, t, m, Doers(b, l)) /\ ~TopIn(u, t, m, Doers(b, l))
    BY <1>1, <1>2, <1>3 DEF TopIn, Doers, Tasks
  <2>2. /\ <<t, m + 1>> \notin Places(s, Doers(b, l))
        /\ Places(u, Doers(b, l)) = Places(s, Doers(b, l)) \ {<<t, m + 1>>}
    BY <1>2, <2>1, TopPlaces
  <2>. QED  BY <2>2 DEF Doing
<1>5. ASSUME NEW r, NEW b \in Blocks, NEW k \in Kinds, NEW n \in Nat,
             Balanced(r, s, b, k, n)
      PROVE  Balanced(r, u, b, k, n + If(c = b /\ j = k))
  <2>1. f \in Decs(b, k) <=> c = b /\ j = k
    BY <1>1 DEF Decs
  <2>2. If(TopIn(s, t, m, Decs(b, k))) = 0
    BY <1>3 DEF TopIn, If
  <2>3. If(TopIn(u, t, m, Decs(b, k))) = If(c = b /\ j = k)
    BY <1>2, <2>1 DEF TopIn, If
  <2>4. Balanced(r, u, b, k,
                 n - If(TopIn(s, t, m, Decs(b, k)))
                   + If(TopIn(u, t, m, Decs(b, k))))
    BY <1>2, <1>5, Restack
  <2>. QED  BY <2>2, <2>3, <2>4
<1>6. ASSUME NEW h \in Handles
      PROVE  Owned(u, h) = IF o = h THEN Owned(s, h) \cup {<<t, m + 1>>} ELSE Owned(s, h)
  <2>1. ~TopIn(s, t, m, Owners(h)) /\ (TopIn(u, t, m, Owners(h)) <=> o = h)
    BY <1>1, <1>2, <1>3 DEF TopIn, Owners
  <2>2. /\ <<t, m + 1>> \notin Places(s, Owners(h))
        /\ Places(u, Owners(h)) = IF o = h THEN Places(s, Owners(h)) \cup {<<t, m + 1>>}
                                  ELSE Places(s, Owners(h)) \ {<<t, m + 1>>}
    BY <1>2, <2>1, TopPlaces
  <2>. QED  BY <2>2 DEF Owned
<1>. QED  BY <1>2, <1>4, <1>5, <1>6 DEF m

(* The stack of a thread that was not in a drop. *)
LEMMA OldPending ==
    ASSUME TypeOK, NEW t \in Threads, Idle(t), NEW h \in Handles, DropOld(t, h)
    PROVE  /\ stack \in Stacks /\ stack' \in Stacks
           /\ \A b \in Blocks, l \in Tasks : Doing(stack', b, l) = Doing(stack, b, l)
           /\ \A r : \A b \in Blocks, k \in Kinds, n \in Nat :
                Balanced(r, stack, b, k, n) =>
                Balanced(r, stack', b, k, n + If(ref[h] = b /\ Kind(h) = k))
           /\ \A g \in Handles : Owned(stack', g) = Owned(stack, g)
<1>1. stack \in Stacks /\ ref[h] \in Targets /\ Kind(h) \in Kinds
  BY KindType DEF TypeOK, Stacks, Targets
<1>2. CASE ref[h] = Null
  <2>1. stack' = stack
    BY <1>1, <1>2 DEF DropOld, Pending, Idle, Stacks
  <2>2. \A b \in Blocks, k \in Kinds : If(ref[h] = b /\ Kind(h) = k) = 0
    BY <1>2, HandlesAssumption DEF If
  <2>3. \A n \in Nat : n + 0 = n
    OBVIOUS
  <2>. QED  BY <1>1, <2>1, <2>2, <2>3
<1>3. CASE ref[h] # Null
  <2>1. ref[h] \in Blocks /\ Null \in Handles \cup {Null}
    BY <1>1, <1>3 DEF Targets
  <2>2. Append(<<>>, DecFrame(ref[h], Kind(h), Null)) = <<DecFrame(ref[h], Kind(h), Null)>>
    OBVIOUS
  <2>3. stack' = Pushed(stack, t, DecFrame(ref[h], Kind(h), Null))
    BY <1>3, <2>2 DEF DropOld, Pending, Idle, Pushed
  <2>4. \A g \in Handles : Null # g
    BY NullIsNoHandle
  <2>. QED  BY <1>1, <2>1, <2>3, <2>4, DecPushed
<1>. QED  BY <1>2, <1>3

(* A handle gets another target, and what it had is to be dropped. *)
LEMMA OldDropped ==
    ASSUME TypeOK, NEW t \in Threads, Idle(t), NEW h \in Handles, DropOld(t, h),
           NEW r \in [Handles -> Targets], r[h] = ref[h], NEW c \in Targets,
           NEW b \in Blocks, NEW k \in Kinds, NEW n \in Nat, Balanced(r, stack, b, k, n)
    PROVE  Balanced(Swapped(h, c, r), stack', b, k, n + If(c = b /\ Kind(h) = k))
<1>. DEFINE old == If(ref[h] = b /\ Kind(h) = k)
            new == If(c = b /\ Kind(h) = k)
            q == Swapped(h, c, r)
<1>1. Balanced(r, stack', b, k, n + old)
  BY OldPending
<1>2. old \in {0, 1} /\ new \in {0, 1} /\ n + old \in Nat
  BY DEF If
<1>3. Balanced(q, stack', b, k, n + old - old + new)
  <2>1. old = If(r[h] = b /\ Kind(h) = k)
    OBVIOUS
  <2>. HIDE DEF old
  <2>. QED  BY <1>1, <1>2, <2>1, Retarget
<1>. HIDE DEF old, new
<1>4. n + old - old + new = n + new
  BY <1>2
<1>. QED  BY <1>3, <1>4 DEF new

-----------------------------------------------------------------------------
(* The counts. *)
CountTable == [Blocks -> [shared : Nat, weak : Nat]]
Recounted(c, b, k, n) == [c EXCEPT ![b][k] = n]

LEMMA CountTypes ==
    ASSUME NEW c \in CountTable, NEW b \in Blocks
    PROVE  /\ c[b].shared \in Nat /\ c[b].weak \in Nat
           /\ \A k \in Kinds : c[b][k] \in Nat
           /\ c[b]["shared"] = c[b].shared /\ c[b]["weak"] = c[b].weak
BY DEF CountTable, Kinds

LEMMA OneCount ==
    ASSUME NEW c \in CountTable, NEW b \in Blocks, NEW k \in Kinds, NEW n \in Nat
    PROVE  /\ Recounted(c, b, k, n) \in CountTable
           /\ Recounted(c, b, k, n)[b][k] = n
           /\ \A a \in Blocks, j \in Kinds :
                a # b \/ j # k => Recounted(c, b, k, n)[a][j] = c[a][j]
           /\ \A a \in Blocks : a # b => Recounted(c, b, k, n)[a] = c[a]
<1>1. CASE k = "shared"
  BY <1>1 DEF CountTable, Kinds, Recounted
<1>2. CASE k = "weak"
  BY <1>2 DEF CountTable, Kinds, Recounted
<1>. QED  BY <1>1, <1>2 DEF Kinds

-----------------------------------------------------------------------------
(* The inductive invariant. *)
Counts ==
    \A b \in Blocks, k \in Kinds : Balanced(Held(ref, torn), stack, b, k, cnt[b][k])

(* A drop in place is the only one of its handle, which is torn. *)
TornByOne(s, T) ==
    \A h \in Handles :
        /\ Owned(s, h) # {} => h \in T
        /\ \A x, y \in Owned(s, h) : x = y

(* What the frames that dispose of an object (dis) or destroy a block      *)
(* (des) have to do with a block: whether it is live (up), its object o,   *)
(* counts c and mutex l.                                                   *)
Sound(dis, des, up, o, c, l) ==
    /\ \A x \in dis : x[1] \in Threads /\ l = x[1] /\ o = "dying"
    /\ des # {} => c.shared = 0 /\ c.weak = 0 /\ o \in {"dying", "gone"}
    /\ (\A x, y \in dis \cup des : x = y) /\ dis \cap des = {}
    /\ dis \cup des # {} => up
    /\ ~up => c.shared = 0 /\ c.weak = 0
    /\ up => /\ o # "none" /\ (o = "alive" <=> c.shared > 0)
             /\ o = "dying" => dis \cup des # {}
             /\ c.shared = 0 /\ c.weak = 0 => des # {}

SoundBlock(b) ==
    Sound(Doing(stack, b, "dispose"), Doing(stack, b, "destroy"),
          b \in live, obj[b], cnt[b], lock[b])

IInv == TypeOK /\ Counts /\ TornByOne(stack, torn) /\ \A b \in Blocks : SoundBlock(b)

LEMMA TypeParts ==
    TypeOK <=> /\ ref \in [Handles -> Targets]
               /\ torn \subseteq Handles
               /\ cnt \in CountTable
               /\ live \subseteq Blocks
               /\ obj \in [Blocks -> {"none", "alive", "dying", "gone"}]
               /\ lock \in [Blocks -> Threads \cup {Null}]
               /\ stack \in Stacks
               /\ alive \subseteq Threads
BY DEF TypeOK, Targets, CountTable, Stacks

LEMMA TypePartsNext ==
    TypeOK' <=> /\ ref' \in [Handles -> Targets]
                /\ torn' \subseteq Handles
                /\ cnt' \in CountTable
                /\ live' \subseteq Blocks
                /\ obj' \in [Blocks -> {"none", "alive", "dying", "gone"}]
                /\ lock' \in [Blocks -> Threads \cup {Null}]
                /\ stack' \in Stacks
                /\ alive' \subseteq Threads
BY DEF TypeOK, Targets, CountTable, Stacks

LEMMA InitIInv == Init => IInv
<1>. SUFFICES ASSUME Init PROVE IInv
  OBVIOUS
<1>1. TypeOK
  BY DEF Init, TypeOK
<1>2. \A b \in Blocks, k \in Kinds : cnt[b][k] = 0
  BY DEF Init, Kinds
<1>3. \A b \in Blocks, k \in Kinds : Refs(Held(ref, torn), b, k) = {}
  BY HandlesAssumption DEF Init, Refs, Held
<1>4. \A F : Places(stack, F) = {}
  <2>1. \A t \in Threads : stack[t] = <<>>
    BY DEF Init
  <2>2. \A t \in Threads : Len(stack[t]) = 0
    BY <2>1
  <2>. QED  BY <1>1, <2>2, TypeParts, PlacesMember
<1>5. Counts
  BY <1>2, <1>3, <1>4, FS_EmptySet DEF Counts, Balanced, Drops
<1>6. \A b \in Blocks : SoundBlock(b)
  BY <1>4 DEF Init, SoundBlock, Sound, Doing
<1>7. TornByOne(stack, torn)
  BY <1>4 DEF TornByOne, Owned
<1>. QED  BY <1>1, <1>5, <1>6, <1>7 DEF IInv

(* Nobody begins to dispose of a block or ends: it stays sound while its   *)
(* own state does.                                                         *)
LEMMA StaysSound ==
    ASSUME NEW b \in Blocks, SoundBlock(b),
           Doing(stack', b, "dispose") = Doing(stack, b, "dispose"),
           Doing(stack', b, "destroy") = Doing(stack, b, "destroy"),
           b \in live' <=> b \in live, obj'[b] = obj[b], cnt'[b] = cnt[b], lock'[b] = lock[b]
    PROVE  SoundBlock(b)'
BY DEF SoundBlock, Sound

(* What the whole handles refer to now. *)
Whole == Held(ref, torn)

LEMMA WholeType == TypeOK => Whole \in [Handles -> Targets]
BY TypeParts DEF Whole, Held, Targets

LEMMA WholeSwapped ==
    ASSUME NEW r \in [Handles -> Targets], NEW T, NEW h \in Handles, h \notin T, NEW c
    PROVE  /\ Held(Swapped(h, c, r), T) = Swapped(h, c, Held(r, T))
           /\ Held(r, T)[h] = r[h]
BY DEF Held, Swapped

(* A block that a whole handle refers to has a count. *)
LEMMA Referred ==
    ASSUME IInv, NEW h \in Handles, h \notin torn, ref[h] # Null
    PROVE  ref[h] \in Blocks /\ Kind(h) \in Kinds /\ cnt[ref[h]][Kind(h)] > 0
<1>. DEFINE b == ref[h]
            k == Kind(h)
<1>1. b \in Blocks /\ k \in Kinds /\ cnt[b][k] \in Nat
  BY KindType, TypeParts, CountTypes DEF IInv, Targets
<1>2. h \in Refs(Whole, b, k)
  BY DEF Refs, Whole, Held
<1>3. Balanced(Whole, stack, b, k, cnt[b][k])
  BY <1>1 DEF IInv, Counts, Whole
<1>. HIDE DEF b, k
<1>4. cnt[b][k] # 0
  BY <1>2, <1>3, BalancedNat
<1>. QED  BY <1>1, <1>4 DEF b, k

-----------------------------------------------------------------------------
(* The operations on handles. *)
LEMMA MakeIInv ==
    ASSUME IInv, NEW t \in Threads, NEW h \in Handles, NEW c \in Blocks, Make(t, h, c)
    PROVE  IInv'
<1>1. /\ stack \in Stacks /\ stack' \in Stacks
      /\ \A b \in Blocks, l \in Tasks : Doing(stack', b, l) = Doing(stack, b, l)
      /\ \A g \in Handles : Owned(stack', g) = Owned(stack, g)
  BY OldPending DEF Make, MayCall, IInv
<1>2. cnt' \in CountTable /\ cnt'[c] = [shared |-> 1, weak |-> 0]
      /\ (\A b \in Blocks : b # c => cnt'[b] = cnt[b])
      /\ cnt[c].shared = 0 /\ cnt[c].weak = 0
  BY TypeParts DEF IInv, Make, CountTable, SoundBlock, Sound
<1>3. TypeOK'
  <2>1. ref' \in [Handles -> Targets]
    BY TypeParts DEF IInv, Make, Swapped, Targets
  <2>2. live' \subseteq Blocks /\ obj' \in [Blocks -> {"none", "alive", "dying", "gone"}]
    BY TypeParts DEF IInv, Make
  <2>. QED  BY <1>1, <1>2, <2>1, <2>2, TypeParts, TypePartsNext DEF IInv, Make
<1>4. Counts'
  <2>. SUFFICES ASSUME NEW b \in Blocks, NEW k \in Kinds
                PROVE  Balanced(Whole', stack', b, k, cnt'[b][k])
    BY DEF Counts, Whole
  <2>1. cnt[b][k] \in Nat /\ Balanced(Whole, stack, b, k, cnt[b][k])
    BY TypeParts, CountTypes DEF IInv, Counts, Whole
  <2>2. ref \in [Handles -> Targets] /\ c \in Targets /\ ref' = Swapped(h, c, ref)
        /\ Idle(t) /\ DropOld(t, h) /\ TypeOK /\ h \notin torn /\ torn' = torn
    BY TypeParts DEF IInv, Make, MayCall, Targets, Usable
  <2>3. /\ Whole \in [Handles -> Targets] /\ Whole[h] = ref[h]
        /\ Whole' = Swapped(h, c, Whole)
    BY <2>2, WholeType, WholeSwapped DEF Whole
  <2>5. Balanced(Whole', stack', b, k, cnt[b][k] + If(c = b /\ Kind(h) = k))
    <3>. HIDE DEF Whole
    <3>. QED  BY <2>1, <2>2, <2>3, OldDropped
  <2>4. cnt'[b][k] = cnt[b][k] + If(c = b /\ Kind(h) = k)
    BY <1>2, <2>1 DEF If, Kinds, Make
  <2>. QED  BY <2>5, <2>4
<1>5. ASSUME NEW b \in Blocks PROVE SoundBlock(b)'
  <2>1. CASE b = c
    BY <1>1, <1>2, <2>1, TypeParts DEF IInv, Make, SoundBlock, Sound, Tasks
  <2>2. CASE b # c
    BY <1>1, <1>2, <2>2, StaysSound, TypeParts DEF IInv, Make, Tasks
  <2>. QED  BY <2>1, <2>2
<1>6. TornByOne(stack', torn')
  BY <1>1 DEF IInv, TornByOne, Make
<1>. QED  BY <1>3, <1>4, <1>5, <1>6 DEF IInv

(* A step that only moves references. *)
LEMMA MovesReferences ==
    ASSUME IInv, UNCHANGED <<cnt, live, obj, lock>>,
           ref' \in [Handles -> Targets], torn' \subseteq Handles,
           stack' \in Stacks, alive' \subseteq Threads, TornByOne(stack', torn'),
           \A b \in Blocks, l \in Tasks : Doing(stack', b, l) = Doing(stack, b, l),
           \A b \in Blocks, k \in Kinds : Balanced(Whole', stack', b, k, cnt[b][k])
    PROVE  IInv'
<1>1. TypeOK'
  BY TypeParts, TypePartsNext DEF IInv
<1>2. Counts'
  BY DEF Counts, Whole
<1>3. \A b \in Blocks : SoundBlock(b)'
  BY StaysSound DEF IInv, Tasks
<1>. QED  BY <1>1, <1>2, <1>3 DEF IInv

(* A step that takes one more reference to the block of a handle. *)
LEMMA TakesReference ==
    ASSUME IInv, UNCHANGED <<live, obj, lock>>,
           ref' \in [Handles -> Targets], stack' \in Stacks, alive' \subseteq Threads,
           torn' = torn, TornByOne(stack', torn),
           \A b \in Blocks, l \in Tasks : Doing(stack', b, l) = Doing(stack, b, l),
           NEW h \in Handles, NEW g \in Handles \ torn, NEW c, c = ref[g], c # Null,
           MayTake(h, g, c), cnt' = Increased(c, Kind(h)),
           \A b \in Blocks, k \in Kinds :
             Balanced(Whole', stack', b, k, cnt[b][k] + If(c = b /\ Kind(h) = k))
    PROVE  IInv'
<1>. DEFINE j == Kind(h)
            n == cnt[c][j] + 1
<1>1. c \in Blocks /\ j \in Kinds /\ Kind(g) \in Kinds /\ cnt[c][Kind(g)] > 0
  BY Referred, KindType
<1>2. cnt \in CountTable /\ cnt[c][j] \in Nat /\ n \in Nat
      /\ \A b \in Blocks, k \in Kinds : cnt[b][k] \in Nat
  BY <1>1, TypeParts, CountTypes DEF IInv
<1>3. cnt' = Recounted(cnt, c, j, n)
  BY DEF Increased, Recounted
<1>. HIDE DEF j, n
<1>4. /\ cnt' \in CountTable /\ cnt'[c][j] = n
      /\ \A b \in Blocks, k \in Kinds : b # c \/ k # j => cnt'[b][k] = cnt[b][k]
      /\ \A b \in Blocks : b # c => cnt'[b] = cnt[b]
  <2>1. c \in Blocks /\ j \in Kinds /\ n \in Nat /\ cnt \in CountTable
    BY <1>1, <1>2
  <2>2. /\ Recounted(cnt, c, j, n) \in CountTable
        /\ Recounted(cnt, c, j, n)[c][j] = n
        /\ \A a \in Blocks, k \in Kinds :
             a # c \/ k # j => Recounted(cnt, c, j, n)[a][k] = cnt[a][k]
        /\ \A a \in Blocks : a # c => Recounted(cnt, c, j, n)[a] = cnt[a]
    BY ONLY <2>1, OneCount
  <2>. QED  BY ONLY <1>3, <2>2
<1>5. TypeOK'
  BY <1>4, TypeParts, TypePartsNext DEF IInv
<1>6. Counts'
  <2>1. \A b \in Blocks, k \in Kinds : cnt'[b][k] = cnt[b][k] + If(c = b /\ j = k)
    BY <1>1, <1>2, <1>4 DEF If, n
  <2>. QED  BY <2>1 DEF Counts, Whole, j
<1>7. ASSUME NEW b \in Blocks PROVE SoundBlock(b)'
  <2>1. CASE b # c
    BY <1>4, <2>1, StaysSound DEF IInv, Tasks
  <2>2. CASE b = c
    <3>1. /\ cnt[c].shared \in Nat /\ cnt[c].weak \in Nat
          /\ cnt'[c].shared \in Nat /\ cnt'[c].weak \in Nat
          /\ cnt[c]["shared"] = cnt[c].shared /\ cnt[c]["weak"] = cnt[c].weak
          /\ cnt'[c]["shared"] = cnt'[c].shared /\ cnt'[c]["weak"] = cnt'[c].weak
      BY <1>1, <1>2, <1>4, CountTypes
    <3>2. j = "shared" => cnt[c].shared > 0
      BY <1>1, <3>1 DEF MayTake, j, Kinds
    <3>3. cnt[c].shared > 0 \/ cnt[c].weak > 0
      BY <1>1, <3>1 DEF Kinds
    <3>4. CASE j = "shared"
      <4>1. cnt'[c].shared = cnt[c].shared + 1 /\ cnt'[c].weak = cnt[c].weak
        BY <1>1, <1>4, <3>1, <3>4 DEF n, Kinds
      <4>. QED  BY <2>2, <3>1, <3>2, <3>4, <4>1 DEF IInv, SoundBlock, Sound, Tasks
    <3>5. CASE j = "weak"
      <4>1. cnt'[c].shared = cnt[c].shared /\ cnt'[c].weak = cnt[c].weak + 1
        BY <1>1, <1>4, <3>1, <3>5 DEF n, Kinds
      <4>. QED  BY <2>2, <3>1, <3>3, <4>1 DEF IInv, SoundBlock, Sound, Tasks
    <3>. QED  BY <1>1, <3>4, <3>5 DEF Kinds
  <2>. QED  BY <2>1, <2>2
<1>. QED  BY <1>5, <1>6, <1>7 DEF IInv

LEMMA Facts ==
    ASSUME IInv
    PROVE  /\ TypeOK /\ ref \in [Handles -> Targets] /\ stack \in Stacks
           /\ torn \subseteq Handles /\ TornByOne(stack, torn)
           /\ alive \subseteq Threads /\ Null \in Targets
           /\ Whole \in [Handles -> Targets]
           /\ \A h \in Handles : ref[h] \in Targets /\ Kind(h) \in Kinds
           /\ \A b \in Blocks, k \in Kinds :
                cnt[b][k] \in Nat /\ Balanced(Whole, stack, b, k, cnt[b][k])
<1>1. Whole \in [Handles -> Targets]
  BY WholeType DEF IInv
<1>. QED  BY <1>1, KindType, TypeParts, CountTypes DEF IInv, Counts, Targets, Whole

LEMMA SwappedType ==
    ASSUME NEW r \in [Handles -> Targets], NEW h \in Handles, NEW c \in Targets
    PROVE  /\ Swapped(h, c, r) \in [Handles -> Targets] /\ Swapped(h, c, r)[h] = c
           /\ \A g \in Handles : g # h => Swapped(h, c, r)[g] = r[g]
BY DEF Swapped

LEMMA SameOwners ==
    ASSUME IInv, \A h \in Handles : Owned(stack', h) = Owned(stack, h)
    PROVE  TornByOne(stack', torn)
BY DEF IInv, TornByOne

LEMMA CopyIInv ==
    ASSUME IInv, NEW t \in Threads, NEW h \in Handles, NEW g \in Handles, Copy(t, h, g)
    PROVE  IInv'
<1>. DEFINE c == ref[g]
<1>1. /\ c # Null /\ c \in Targets /\ MayTake(h, g, c) /\ cnt' = Increased(c, Kind(h))
      /\ ref' = Swapped(h, c, ref) /\ Idle(t) /\ DropOld(t, h)
      /\ h \notin torn /\ g \in Handles \ torn
      /\ UNCHANGED <<torn, live, obj, lock, alive>>
  BY Facts DEF Copy, Copied, MayCall, Usable
<1>2. ref' \in [Handles -> Targets] /\ alive' \subseteq Threads
  BY <1>1, Facts, SwappedType
<1>3. stack' \in Stacks /\ \A b \in Blocks, l \in Tasks : Doing(stack', b, l) = Doing(stack, b, l)
  BY <1>1, Facts, OldPending
<1>4. TornByOne(stack', torn)
  BY <1>1, Facts, OldPending, SameOwners
<1>5. Whole' = Swapped(h, c, Whole) /\ Whole[h] = ref[h]
  BY <1>1, Facts, WholeSwapped DEF Whole
<1>6. ASSUME NEW b \in Blocks, NEW k \in Kinds
      PROVE  Balanced(Whole', stack', b, k, cnt[b][k] + If(c = b /\ Kind(h) = k))
  <2>. HIDE DEF Whole
  <2>. QED  BY <1>1, <1>5, Facts, OldDropped
<1>. QED  BY <1>1, <1>2, <1>3, <1>4, <1>6, TakesReference

(* A reference leaves a whole handle. *)
LEMMA Emptied ==
    ASSUME IInv, NEW g \in Handles, g \notin torn, NEW b \in Blocks, NEW k \in Kinds
    PROVE  LET r == Swapped(g, Null, Whole)
               n == cnt[b][k] - If(ref[g] = b /\ Kind(g) = k)
           IN  n \in Nat /\ Balanced(r, stack, b, k, n)
<1>. DEFINE n == cnt[b][k]
            old == If(ref[g] = b /\ Kind(g) = k)
            new == If(Null = b /\ Kind(g) = k)
<1>1. n \in Nat /\ Balanced(Whole, stack, b, k, n) /\ Null \in Targets
      /\ Whole \in [Handles -> Targets] /\ Whole[g] = ref[g]
  BY Facts, WholeSwapped DEF Whole
<1>2. new = 0 /\ old \in {0, 1}
  BY HandlesAssumption DEF If
<1>3. old = 1 => n > 0
  BY Referred, HandlesAssumption DEF If
<1>4. Balanced(Swapped(g, Null, Whole), stack, b, k, n - old + new)
  <2>1. old = If(Whole[g] = b /\ Kind(g) = k)
    BY <1>1
  <2>. HIDE DEF n, old, Whole
  <2>. QED  BY <1>1, <2>1, Retarget
<1>. HIDE DEF n, old, new
<1>5. n - old \in Nat /\ n - old + new = n - old
  BY <1>1, <1>2, <1>3
<1>. QED  BY <1>4, <1>5 DEF n, old

LEMMA MoveIInv ==
    ASSUME IInv, NEW t \in Threads, NEW h \in Handles, NEW g \in Handles, Move(t, h, g)
    PROVE  IInv'
<1>. DEFINE p == Swapped(g, Null, ref)
            r == Swapped(g, Null, Whole)
            c == ref[g]
<1>1. /\ c # Null /\ c \in Targets /\ h # g /\ Kind(h) = Kind(g)
      /\ ref' = Swapped(h, c, p) /\ Idle(t) /\ DropOld(t, h)
      /\ h \notin torn /\ g \notin torn
      /\ UNCHANGED <<torn, cnt, live, obj, lock, alive>>
  BY Facts DEF Move, Moved, Differ, MayCall, Usable
<1>2. /\ p \in [Handles -> Targets] /\ r \in [Handles -> Targets] /\ r[h] = ref[h]
      /\ Whole' = Swapped(h, c, r)
  <2>1. p \in [Handles -> Targets] /\ p[h] = ref[h]
    BY <1>1, Facts, SwappedType
  <2>2. Held(p, torn) = r
    BY <1>1, Facts, WholeSwapped DEF Whole
  <2>3. Held(Swapped(h, c, p), torn) = Swapped(h, c, Held(p, torn)) /\ Held(p, torn)[h] = p[h]
    <3>. HIDE DEF p, c
    <3>. QED  BY <1>1, <2>1, WholeSwapped
  <2>4. Whole' = Held(Swapped(h, c, p), torn)
    BY <1>1 DEF Whole
  <2>5. r \in [Handles -> Targets]
    BY Facts, SwappedType
  <2>. QED  BY <2>1, <2>2, <2>3, <2>4, <2>5
<1>3. ref' \in [Handles -> Targets] /\ alive' \subseteq Threads /\ torn' \subseteq Handles
  <2>. HIDE DEF p, c
  <2>. QED  BY <1>1, <1>2, Facts, SwappedType
<1>4. /\ stack' \in Stacks /\ \A b \in Blocks, l \in Tasks : Doing(stack', b, l) = Doing(stack, b, l)
      /\ TornByOne(stack', torn')
  BY <1>1, Facts, OldPending, SameOwners
<1>5. ASSUME NEW b \in Blocks, NEW k \in Kinds
      PROVE  Balanced(Whole', stack', b, k, cnt[b][k])
  <2>. DEFINE i == If(c = b /\ Kind(g) = k)
              n == cnt[b][k] - i
  <2>1. n \in Nat /\ Balanced(r, stack, b, k, n)
    BY <1>1, Emptied
  <2>2. Balanced(Whole', stack', b, k, n + If(c = b /\ Kind(h) = k))
    <3>. HIDE DEF n, i, r, c, Whole, p
    <3>. QED  BY <1>1, <1>2, <2>1, Facts, OldDropped
  <2>3. n + If(c = b /\ Kind(h) = k) = cnt[b][k]
    BY <1>1, Facts DEF If
  <2>. QED  BY <2>2, <2>3
<1>. QED  BY <1>1, <1>3, <1>4, <1>5, MovesReferences

LEMMA SwapIInv ==
    ASSUME IInv, NEW t \in Threads, NEW h \in Handles, NEW g \in Handles, Swap(t, h, g)
    PROVE  IInv'
<1>. DEFINE p == Swapped(g, ref[h], ref)
            r == Swapped(g, ref[h], Whole)
            c == ref[g]
            d == ref[h]
<1>1. /\ c \in Targets /\ d \in Targets /\ Kind(h) = Kind(g)
      /\ ref' = Swapped(h, c, p) /\ h \notin torn /\ g \notin torn
      /\ UNCHANGED <<torn, cnt, live, obj, lock, stack, alive>>
  BY Facts DEF Swap, Usable
<1>2. /\ p \in [Handles -> Targets] /\ r \in [Handles -> Targets] /\ r[h] = d
      /\ Whole' = Swapped(h, c, r) /\ Whole[g] = c
  <2>1. p \in [Handles -> Targets] /\ p[h] = d
    BY <1>1, Facts DEF Swapped
  <2>2. Held(p, torn) = r /\ Whole[g] = c
    BY <1>1, Facts, WholeSwapped DEF Whole
  <2>3. Held(Swapped(h, c, p), torn) = Swapped(h, c, Held(p, torn)) /\ Held(p, torn)[h] = p[h]
    <3>. HIDE DEF p, c
    <3>. QED  BY <1>1, <2>1, WholeSwapped
  <2>4. Whole' = Held(Swapped(h, c, p), torn)
    BY <1>1 DEF Whole
  <2>5. r \in [Handles -> Targets]
    BY <1>1, Facts, SwappedType
  <2>. QED  BY <2>1, <2>2, <2>3, <2>4, <2>5
<1>3. ref' \in [Handles -> Targets] /\ alive' \subseteq Threads /\ stack' \in Stacks
      /\ torn' \subseteq Handles /\ TornByOne(stack', torn')
  <2>. HIDE DEF p, c
  <2>. QED  BY <1>1, <1>2, Facts, SwappedType
<1>4. ASSUME NEW b \in Blocks, NEW k \in Kinds
      PROVE  Balanced(Whole', stack', b, k, cnt[b][k])
  <2>. DEFINE n == cnt[b][k]
              x == If(c = b /\ Kind(g) = k)
              y == If(d = b /\ Kind(g) = k)
              m == n - x + y
  <2>1. n \in Nat /\ Balanced(Whole, stack, b, k, n) /\ x \in {0, 1} /\ y \in {0, 1}
    BY Facts DEF If
  <2>2. x = 1 => n > 0
    BY <1>1, Referred, HandlesAssumption DEF If
  <2>3. Balanced(r, stack, b, k, m)
    <3>1. x = If(Whole[g] = b /\ Kind(g) = k) /\ y = If(ref[h] = b /\ Kind(g) = k)
          /\ ref[h] \in Targets /\ Whole \in [Handles -> Targets]
      BY <1>1, <1>2, Facts
    <3>. HIDE DEF n, x, y, Whole
    <3>. QED  BY <2>1, <3>1, Retarget
  <2>4. m \in Nat
    <3>. HIDE DEF n, x, y
    <3>. QED  BY <2>1, <2>2
  <2>5. Balanced(Whole', stack, b, k, m - y + x)
    <3>1. y = If(r[h] = b /\ Kind(h) = k) /\ x = If(c = b /\ Kind(h) = k)
      BY <1>1, <1>2
    <3>. HIDE DEF n, x, y, m, r, c, d, Whole, p
    <3>. QED  BY <1>1, <1>2, <2>3, <2>4, <3>1, Retarget
  <2>6. m - y + x = n
    <3>. HIDE DEF n, x, y
    <3>. QED  BY <2>1
  <2>. QED  BY <1>1, <2>5, <2>6
<1>. QED  BY <1>1, <1>3, <1>4, MovesReferences

LEMMA ResetIInv ==
    ASSUME IInv, NEW t \in Threads, NEW h \in Handles, Reset(t, h)
    PROVE  IInv'
<1>1. /\ ref' = Swapped(h, Null, ref) /\ Idle(t) /\ DropOld(t, h) /\ h \notin torn
      /\ UNCHANGED <<torn, cnt, live, obj, lock, alive>>
  BY DEF Reset, MayCall, Usable
<1>2. ref' \in [Handles -> Targets] /\ alive' \subseteq Threads /\ torn' \subseteq Handles
  BY <1>1, Facts, SwappedType
<1>3. /\ stack' \in Stacks /\ \A b \in Blocks, l \in Tasks : Doing(stack', b, l) = Doing(stack, b, l)
      /\ TornByOne(stack', torn')
  BY <1>1, Facts, OldPending, SameOwners
<1>4. ASSUME NEW b \in Blocks, NEW k \in Kinds
      PROVE  Balanced(Whole', stack', b, k, cnt[b][k])
  <2>1. Whole' = Swapped(h, Null, Whole) /\ Whole[h] = ref[h]
    BY <1>1, Facts, WholeSwapped DEF Whole
  <2>2. Balanced(Whole', stack', b, k, cnt[b][k] + If(Null = b /\ Kind(h) = k))
    <3>. HIDE DEF Whole
    <3>. QED  BY <1>1, <2>1, Facts, OldDropped
  <2>3. cnt[b][k] + If(Null = b /\ Kind(h) = k) = cnt[b][k]
    BY Facts, HandlesAssumption DEF If
  <2>. QED  BY <2>2, <2>3
<1>. QED  BY <1>1, <1>2, <1>3, <1>4, MovesReferences

(* A reference passes from a whole handle to a drop of it in place, or of  *)
(* a temporary.                                                            *)
LEMMA HandedToDrop ==
    ASSUME IInv, NEW t \in Threads, NEW g \in Handles, ref[g] # Null, g \notin torn,
           NEW o \in {g, Null},
           stack' = Pushed(stack, t, DecFrame(ref[g], Kind(g), o)),
           Whole' = Swapped(g, Null, Whole), ref' \in [Handles -> Targets],
           torn' = IF o = g THEN torn \cup {g} ELSE torn,
           alive' \subseteq Threads,
           UNCHANGED <<cnt, live, obj, lock>>
    PROVE  IInv'
<1>. DEFINE c == ref[g]
            x == <<t, Len(stack[t]) + 1>>
<1>1. c \in Blocks /\ Kind(g) \in Kinds /\ o \in Handles \cup {Null}
  BY Referred
<1>2. /\ stack' \in Stacks /\ \A b \in Blocks, l \in Tasks : Doing(stack', b, l) = Doing(stack, b, l)
      /\ \A h \in Handles : Owned(stack', h) = IF o = h THEN Owned(stack, h) \cup {x}
                                               ELSE Owned(stack, h)
  BY <1>1, Facts, DecPushed
<1>3. ASSUME NEW b \in Blocks, NEW k \in Kinds
      PROVE  Balanced(Whole', stack', b, k, cnt[b][k])
  <2>. DEFINE i == If(c = b /\ Kind(g) = k)
              n == cnt[b][k] - i
  <2>1. n \in Nat /\ Balanced(Whole', stack, b, k, n)
    BY Emptied
  <2>2. Balanced(Whole', stack', b, k, n + i)
    <3>. HIDE DEF n, Whole
    <3>. QED  BY <1>1, <2>1, Facts, DecPushed
  <2>3. n + i = cnt[b][k]
    BY Facts DEF If
  <2>. QED  BY <2>2, <2>3
<1>4. TornByOne(stack', torn')
  <2>1. Owned(stack, g) = {}
    BY Facts DEF TornByOne
  <2>2. \A h \in Handles : h # Null
    BY NullIsNoHandle
  <2>. HIDE DEF x
  <2>. QED  BY <1>2, <2>1, <2>2, Facts DEF TornByOne
<1>5. torn' \subseteq Handles
  BY Facts
<1>. QED  BY <1>2, <1>3, <1>4, <1>5, MovesReferences

LEMMA DestructIInv ==
    ASSUME IInv, NEW t \in Threads, NEW h \in Handles, Destruct(t, h),
           UNCHANGED <<ref, cnt, live, obj, lock, alive>>
    PROVE  IInv'
<1>1. /\ ref[h] # Null /\ h \notin torn /\ torn' = torn \cup {h}
      /\ stack' = Pushed(stack, t, DecFrame(ref[h], Kind(h), h))
  BY DEF Destruct, Pushed
<1>2. Whole' = Swapped(h, Null, Whole)
  BY <1>1, Facts DEF Whole, Held, Swapped
<1>3. ref' \in [Handles -> Targets] /\ alive' \subseteq Threads
  BY Facts
<1>. QED  BY <1>1, <1>2, <1>3, HandedToDrop

LEMMA DropIInv ==
    ASSUME IInv, NEW t \in Threads, NEW h \in Handles, Drop(t, h)
    PROVE  IInv'
BY DestructIInv DEF Drop

-----------------------------------------------------------------------------
(* Deaths. *)
LEMMA OrphanPushed ==
    ASSUME NEW t \in Threads, Idle(t), stack \in Stacks, NEW c, NEW k, Orphaned(t, c, k)
    PROVE  stack' = Pushed(stack, t, DecFrame(c, k, Null))
<1>1. Append(<<>>, DecFrame(c, k, Null)) = <<DecFrame(c, k, Null)>>
  OBVIOUS
<1>. QED  BY <1>1 DEF Orphaned, Pushed, Idle, Stacks

LEMMA DieIInv == ASSUME IInv, NEW t \in Threads, Die(t) PROVE IInv'
<1>1. UNCHANGED <<ref, torn, cnt, live, obj, lock, stack>> /\ alive' \subseteq Threads
  BY Facts DEF Die, Dead
<1>2. Whole' = Whole
  BY <1>1 DEF Whole
<1>. QED  BY <1>1, <1>2, Facts, MovesReferences

LEMMA DieAmidMakeIInv ==
    ASSUME IInv, NEW t \in Threads, NEW c \in Blocks, DieAmidMake(t, c)
    PROVE  IInv'
<1>0. "shared" \in Kinds /\ stack' = Pushed(stack, t, DecFrame(c, "shared", Null))
      /\ Null \in Handles \cup {Null} /\ UNCHANGED <<ref, torn, lock>>
  BY Facts, OrphanPushed DEF DieAmidMake, Kinds
<1>1. /\ stack' \in Stacks
      /\ \A b \in Blocks, l \in Tasks : Doing(stack', b, l) = Doing(stack, b, l)
      /\ \A h \in Handles : Owned(stack', h) = Owned(stack, h)
  BY <1>0, Facts, DecPushed, NullIsNoHandle
<1>2. cnt' \in CountTable /\ cnt'[c] = [shared |-> 1, weak |-> 0]
      /\ (\A b \in Blocks : b # c => cnt'[b] = cnt[b])
      /\ cnt[c].shared = 0 /\ cnt[c].weak = 0
  BY TypeParts DEF IInv, DieAmidMake, CountTable, SoundBlock, Sound
<1>3. TypeOK'
  <2>1. live' \subseteq Blocks /\ obj' \in [Blocks -> {"none", "alive", "dying", "gone"}]
        /\ alive' \subseteq Threads
    BY TypeParts DEF IInv, DieAmidMake, Dead
  <2>. QED  BY <1>0, <1>1, <1>2, <2>1, TypeParts, TypePartsNext DEF IInv
<1>4. Counts'
  <2>. SUFFICES ASSUME NEW b \in Blocks, NEW k \in Kinds
                PROVE  Balanced(Whole', stack', b, k, cnt'[b][k])
    BY DEF Counts, Whole
  <2>1. cnt[b][k] \in Nat /\ Balanced(Whole, stack, b, k, cnt[b][k])
    BY Facts
  <2>2. Balanced(Whole, stack', b, k, cnt[b][k] + If(c = b /\ "shared" = k))
    <3>. HIDE DEF Whole
    <3>. QED  BY <1>0, <2>1, Facts, DecPushed
  <2>3. cnt'[b][k] = cnt[b][k] + If(c = b /\ "shared" = k)
    BY <1>2, <2>1 DEF If, Kinds
  <2>4. Whole' = Whole
    BY <1>0 DEF Whole
  <2>. QED  BY <2>2, <2>3, <2>4
<1>5. ASSUME NEW b \in Blocks PROVE SoundBlock(b)'
  <2>1. CASE b = c
    BY <1>1, <1>2, <2>1, TypeParts DEF IInv, DieAmidMake, SoundBlock, Sound, Tasks
  <2>2. CASE b # c
    BY <1>1, <1>2, <2>2, StaysSound, TypeParts DEF IInv, DieAmidMake, Tasks
  <2>. QED  BY <2>1, <2>2
<1>6. TornByOne(stack', torn')
  BY <1>0, <1>1, SameOwners
<1>. QED  BY <1>3, <1>4, <1>5, <1>6 DEF IInv

LEMMA DieAmidConstructIInv ==
    ASSUME IInv, NEW t \in Threads, NEW h \in Handles, NEW g \in Handles,
           DieAmidConstruct(t, h, g)
    PROVE  IInv'
<1>1. /\ h \notin torn /\ ref[h] = Null
      /\ ref' = Swapped(h, ref[g], ref) /\ torn' = torn \cup {h} /\ alive' \subseteq Threads
      /\ UNCHANGED <<cnt, live, obj, lock, stack>>
  BY Facts DEF DieAmidConstruct, Dead, Usable
<1>2. Whole' = Whole
  BY <1>1, Facts DEF Whole, Held, Swapped
<1>3. ref' \in [Handles -> Targets] /\ torn' \subseteq Handles
  BY <1>1, Facts, SwappedType
<1>4. TornByOne(stack', torn')
  BY <1>1, Facts DEF TornByOne
<1>. QED  BY <1>1, <1>2, <1>3, <1>4, Facts, MovesReferences

LEMMA DieAmidCopyIInv ==
    ASSUME IInv, NEW t \in Threads, NEW h \in Handles, NEW g \in Handles, DieAmidCopy(t, h, g)
    PROVE  IInv'
<1>. DEFINE c == ref[g]
<1>1. /\ c # Null /\ c \in Blocks /\ Kind(h) \in Kinds /\ g \in Handles \ torn
      /\ MayTake(h, g, c) /\ cnt' = Increased(c, Kind(h)) /\ Null \in Handles \cup {Null}
      /\ Orphaned(t, c, Kind(h)) /\ Idle(t) /\ alive' \subseteq Threads
      /\ UNCHANGED <<ref, torn, live, obj, lock>>
  BY Facts DEF DieAmidCopy, Copied, Usable, Dead, Targets
<1>2. stack' = Pushed(stack, t, DecFrame(c, Kind(h), Null))
  BY <1>1, Facts, OrphanPushed
<1>3. /\ stack' \in Stacks /\ \A b \in Blocks, l \in Tasks : Doing(stack', b, l) = Doing(stack, b, l)
      /\ TornByOne(stack', torn)
  BY <1>1, <1>2, Facts, DecPushed, NullIsNoHandle, SameOwners
<1>4. ASSUME NEW b \in Blocks, NEW k \in Kinds
      PROVE  Balanced(Whole', stack', b, k, cnt[b][k] + If(c = b /\ Kind(h) = k))
  <2>1. Whole' = Whole
    BY <1>1 DEF Whole
  <2>. HIDE DEF Whole
  <2>. QED  BY <1>1, <1>2, <2>1, Facts, DecPushed
<1>5. ref' \in [Handles -> Targets]
  BY <1>1, Facts
<1>. QED  BY <1>1, <1>3, <1>4, <1>5, TakesReference

LEMMA DieAmidMoveIInv ==
    ASSUME IInv, NEW t \in Threads, NEW h \in Handles, NEW g \in Handles, DieAmidMove(t, h, g)
    PROVE  IInv'
<1>1. stack' = Pushed(stack, t, DecFrame(ref[g], Kind(g), Null))
  BY Facts, OrphanPushed DEF DieAmidMove
<1>2. ref[g] # Null /\ ref' = Swapped(g, Null, ref) /\ alive' \subseteq Threads
      /\ g \notin torn /\ UNCHANGED <<torn, cnt, live, obj, lock>>
  BY Facts DEF DieAmidMove, Moved, Usable, Dead
<1>3. Whole' = Swapped(g, Null, Whole) /\ ref' \in [Handles -> Targets]
  BY <1>2, Facts, WholeSwapped, SwappedType DEF Whole
<1>4. Null # g
  BY NullIsNoHandle
<1>. QED  BY <1>1, <1>2, <1>3, <1>4, HandedToDrop

-----------------------------------------------------------------------------
(* The drops. *)
LEMMA TopFacts ==
    ASSUME IInv, NEW t \in Threads, NEW l, TopAt(t, l)
    PROVE  /\ stack[t] # <<>> /\ stack[t] \in Seq(Frames)
           /\ Len(stack[t]) - 1 \in Nat
           /\ Top(t) = stack[t][Len(stack[t])] /\ Top(t) \in Frames
           /\ Top(t).at = l /\ Top(t).blk \in Blocks /\ Top(t).kind \in Kinds
           /\ Top(t).of \in Handles \cup {Null}
<1>1. stack[t] # <<>> /\ stack[t] \in Seq(Frames)
  BY Facts DEF TopAt, Idle, Stacks
<1>2. Len(stack[t]) - 1 \in Nat /\ stack[t][Len(stack[t])] \in Frames
  BY <1>1, FrontFacts
<1>3. Top(t) = stack[t][Len(stack[t])]
  BY DEF Top, Last
<1>. QED  BY <1>1, <1>2, <1>3 DEF TopAt, Frames, Kinds

LEMMA DropFieldIInv ==
    ASSUME IInv, NEW t \in Threads, DropField(t)
    PROVE  IInv'
<1>1. Top(t).blk \in Handles
  BY TopFacts DEF DropField, Handles
<1>. QED  BY <1>1, DestructIInv DEF DropField

(* The innermost frame goes ("pop"), or turns to what comes next. *)
TopBecomes(t, d) == stack' = IF d = "pop" THEN Popped(stack, t) ELSE Turned(stack, t, d)

TopChanged(t, l, d) ==
    LET x == <<t, Len(stack[t])>>
    IN  /\ stack' \in Stacks
        /\ \A b \in Blocks, k \in Kinds :
             Balanced(Whole, stack', b, k, cnt[b][k] - If(Top(t) \in Decs(b, k)))
        /\ \A b \in Blocks, j \in Tasks :
             /\ x \in Doing(stack, b, j) <=> l = j /\ Top(t).blk = b
             /\ Doing(stack', b, j) = IF d = j /\ Top(t).blk = b
                                      THEN Doing(stack, b, j) \cup {x}
                                      ELSE Doing(stack, b, j) \ {x}
        /\ \A h \in Handles :
             /\ x \in Owned(stack, h) <=> Top(t).of = h
             /\ Owned(stack', h) = IF d # "pop" /\ Top(t).of = h
                                   THEN Owned(stack, h) \cup {x}
                                   ELSE Owned(stack, h) \ {x}

LEMMA TopChanges ==
    ASSUME IInv, NEW t \in Threads, NEW l, TopAt(t, l),
           NEW d \in {"pop", "dispose", "destroy", "clear"}, TopBecomes(t, d)
    PROVE  TopChanged(t, l, d)
<1>. DEFINE m == Len(stack[t]) - 1
            u == stack'
<1>1. /\ stack[t] # <<>> /\ stack \in Stacks /\ Top(t) \in Frames /\ Top(t).at = l
      /\ Top(t) = stack[t][Len(stack[t])]
  BY TopFacts, Facts
<1>2. /\ m \in Nat /\ u \in Stacks /\ TopDiffers(stack, u, t, m)
      /\ Len(stack[t]) = m + 1 /\ stack[t][m + 1] = Top(t)
      /\ IF d = "pop" THEN Len(u[t]) = m
         ELSE Len(u[t]) = m + 1 /\ u[t][m + 1] = [Top(t) EXCEPT !.at = d]
  <2>1. CASE d = "pop"
    BY <1>1, <2>1, PopTop DEF TopBecomes
  <2>2. CASE d # "pop"
    <3>1. d \in {"dispose", "destroy", "clear"} /\ u = Turned(stack, t, d)
      BY <2>2 DEF TopBecomes
    <3>2. /\ m \in Nat /\ u \in Stacks /\ TopDiffers(stack, u, t, m)
          /\ Len(u[t]) = m + 1 /\ Len(stack[t]) = m + 1
          /\ u[t][m + 1] = [stack[t][m + 1] EXCEPT !.at = d]
      BY <1>1, <3>1, TurnTop
    <3>. QED  BY <1>1, <2>2, <3>2
  <2>. QED  BY <2>1, <2>2
<1>. DEFINE x == <<t, m + 1>>
            v == [Top(t) EXCEPT !.at = d]
<1>4. /\ d # "pop" => v \in Frames
      /\ v.at = d /\ v.blk = Top(t).blk /\ v.kind = Top(t).kind /\ v.of = Top(t).of
  BY <1>1 DEF Frames
<1>. HIDE DEF m, v
<1>3. ASSUME NEW F
      PROVE  /\ x \in Places(stack, F) <=> Top(t) \in F
             /\ TopIn(u, t, m, F) <=> d # "pop" /\ v \in F
             /\ TopIn(stack, t, m, F) <=> Top(t) \in F
             /\ Places(u, F) = IF d # "pop" /\ v \in F
                               THEN Places(stack, F) \cup {x} ELSE Places(stack, F) \ {x}
  <2>1. /\ TopIn(stack, t, m, F) <=> Top(t) \in F
        /\ TopIn(u, t, m, F) <=> d # "pop" /\ v \in F
    BY <1>2 DEF TopIn, v
  <2>2. stack \in Stacks /\ u \in Stacks /\ m \in Nat /\ TopDiffers(stack, u, t, m)
    BY <1>1, <1>2
  <2>3. /\ x \in Places(stack, F) <=> TopIn(stack, t, m, F)
        /\ Places(u, F) = IF TopIn(u, t, m, F) THEN Places(stack, F) \cup {x}
                          ELSE Places(stack, F) \ {x}
    BY ONLY <2>2, t \in Threads, TopPlaces
  <2>. QED  BY <2>1, <2>3
<1>5. ASSUME NEW b \in Blocks, NEW k \in Kinds
      PROVE  Balanced(Whole, u, b, k, cnt[b][k] - If(Top(t) \in Decs(b, k)))
  <2>1. If(TopIn(stack, t, m, Decs(b, k))) = If(Top(t) \in Decs(b, k))
    <3>1. TopIn(stack, t, m, Decs(b, k)) <=> Top(t) \in Decs(b, k)
      BY <1>3
    <3>. QED  BY ONLY <3>1 DEF If
  <2>2. If(TopIn(u, t, m, Decs(b, k))) = 0
    <3>1. TopIn(u, t, m, Decs(b, k)) => v \in Decs(b, k)
      BY <1>3
    <3>2. v.at # "dec"
      BY <1>4
    <3>. QED  BY ONLY <3>1, <3>2 DEF If, Decs
  <2>3. Balanced(Whole, u, b, k,
                 cnt[b][k] - If(TopIn(stack, t, m, Decs(b, k)))
                   + If(TopIn(u, t, m, Decs(b, k))))
    BY <1>1, <1>2, Facts, Restack
  <2>4. cnt[b][k] - If(Top(t) \in Decs(b, k)) + 0 = cnt[b][k] - If(Top(t) \in Decs(b, k))
    BY Facts DEF If
  <2>. QED  BY <2>1, <2>2, <2>3, <2>4
<1>6. ASSUME NEW b \in Blocks, NEW j \in Tasks
      PROVE  /\ x \in Doing(stack, b, j) <=> l = j /\ Top(t).blk = b
             /\ Doing(u, b, j) = IF d = j /\ Top(t).blk = b
                                 THEN Doing(stack, b, j) \cup {x}
                                 ELSE Doing(stack, b, j) \ {x}
  <2>1. Top(t) \in Doers(b, j) <=> l = j /\ Top(t).blk = b
    BY <1>1 DEF Doers
  <2>2. d # "pop" /\ v \in Doers(b, j) <=> d = j /\ Top(t).blk = b
    BY <1>4 DEF Doers, Tasks
  <2>. QED  BY <1>3, <2>1, <2>2 DEF Doing
<1>7. ASSUME NEW h \in Handles
      PROVE  /\ x \in Owned(stack, h) <=> Top(t).of = h
             /\ Owned(u, h) = IF d # "pop" /\ Top(t).of = h
                              THEN Owned(stack, h) \cup {x} ELSE Owned(stack, h) \ {x}
  <2>1. Top(t) \in Owners(h) <=> Top(t).of = h
    BY <1>1 DEF Owners
  <2>2. d # "pop" /\ v \in Owners(h) <=> d # "pop" /\ Top(t).of = h
    BY <1>4 DEF Owners
  <2>. QED  BY <1>3, <2>1, <2>2 DEF Owned
<1>8. x = <<t, Len(stack[t])>>
  BY <1>2
<1>. QED  BY <1>2, <1>5, <1>6, <1>7, <1>8 DEF TopChanged

(* A frame that goes was that of a temporary: the handles stay torn.       *)
LEMMA OwnersStay ==
    ASSUME IInv, NEW t \in Threads, NEW l, TopAt(t, l),
           NEW d \in {"pop", "dispose", "destroy", "clear"}, TopBecomes(t, d),
           d = "pop" => Top(t).of = Null
    PROVE  TornByOne(stack', torn)
<1>. DEFINE x == <<t, Len(stack[t])>>
<1>1. \A h \in Handles :
         /\ x \in Owned(stack, h) <=> Top(t).of = h
         /\ Owned(stack', h) = IF d # "pop" /\ Top(t).of = h
                               THEN Owned(stack, h) \cup {x} ELSE Owned(stack, h) \ {x}
  <2>1. TopChanged(t, l, d)
    BY TopChanges
  <2>. QED  BY ONLY <2>1 DEF TopChanged
<1>. HIDE DEF x
<1>2. \A h \in Handles : Owned(stack', h) = Owned(stack, h)
  BY <1>1, NullIsNoHandle
<1>. QED  BY <1>2, SameOwners

(* try_dispose_com returns. *)
After(t) == IF Top(t).of = Null THEN "pop" ELSE "clear"

LEMMA ReturnedIs ==
    ASSUME NEW t, stack' = Returned(t)
    PROVE  /\ TopBecomes(t, After(t)) /\ After(t) \in {"pop", "clear"}
           /\ After(t) = "pop" => Top(t).of = Null
BY DEF TopBecomes, After, Returned, Pop, TopTo, Popped, Turned

(* A task is over. *)
LEMMA TopDone ==
    ASSUME IInv, NEW t \in Threads, NEW l \in Tasks, TopAt(t, l), stack' = Returned(t)
    PROVE  /\ stack' \in Stacks /\ TornByOne(stack', torn)
           /\ \A b \in Blocks, k \in Kinds : Balanced(Whole, stack', b, k, cnt[b][k])
           /\ \E x : /\ x \in Doing(stack, Top(t).blk, l)
                     /\ \A b \in Blocks, j \in Tasks :
                          Doing(stack', b, j) = Doing(stack, b, j) \ {x}
                     /\ \A b \in Blocks, j \in Tasks :
                          x \in Doing(stack, b, j) => b = Top(t).blk
<1>. DEFINE x == <<t, Len(stack[t])>>
            d == After(t)
<1>1. /\ TopBecomes(t, d) /\ d \in {"pop", "dispose", "destroy", "clear"} /\ d \notin Tasks
      /\ d = "pop" => Top(t).of = Null
  BY ReturnedIs DEF Tasks
<1>. HIDE DEF d
<1>2. /\ stack' \in Stacks
      /\ \A b \in Blocks, k \in Kinds :
           Balanced(Whole, stack', b, k, cnt[b][k] - If(Top(t) \in Decs(b, k)))
      /\ \A b \in Blocks, j \in Tasks :
           /\ x \in Doing(stack, b, j) <=> l = j /\ Top(t).blk = b
           /\ Doing(stack', b, j) = IF d = j /\ Top(t).blk = b
                                    THEN Doing(stack, b, j) \cup {x}
                                    ELSE Doing(stack, b, j) \ {x}
  <2>1. TopChanged(t, l, d)
    BY <1>1, TopChanges
  <2>. HIDE DEF Whole
  <2>. QED  BY ONLY <2>1 DEF TopChanged
<1>3. \A b \in Blocks, k \in Kinds : cnt[b][k] - If(Top(t) \in Decs(b, k)) = cnt[b][k]
  BY TopFacts, Facts DEF Decs, If, Tasks
<1>4. TornByOne(stack', torn)
  BY <1>1, OwnersStay
<1>5. Top(t).blk \in Blocks
  BY TopFacts
<1>. HIDE DEF x
<1>6. /\ x \in Doing(stack, Top(t).blk, l)
      /\ \A b \in Blocks, j \in Tasks : Doing(stack', b, j) = Doing(stack, b, j) \ {x}
      /\ \A b \in Blocks, j \in Tasks : x \in Doing(stack, b, j) => b = Top(t).blk
  BY <1>1, <1>2, <1>5
<1>7. \A b \in Blocks, k \in Kinds : Balanced(Whole, stack', b, k, cnt[b][k])
  <2>. HIDE DEF Whole
  <2>. QED  BY <1>2, <1>3
<1>. QED  BY <1>2, <1>4, <1>6, <1>7

LEMMA ClearIInv ==
    ASSUME IInv, NEW t \in Threads, Clear(t)
    PROVE  IInv'
<1>. DEFINE x == <<t, Len(stack[t])>>
            o == Top(t).of
<1>1. /\ TopAt(t, "clear") /\ TopBecomes(t, "pop") /\ o \in Handles \cup {Null}
      /\ ref' = Swapped(o, Null, ref) /\ torn' = torn \ {o}
      /\ UNCHANGED <<cnt, live, obj, lock, alive>>
  BY TopFacts DEF Clear, TopBecomes, Pop, Popped
<1>2. /\ stack' \in Stacks
      /\ \A b \in Blocks, k \in Kinds :
           Balanced(Whole, stack', b, k, cnt[b][k] - If(Top(t) \in Decs(b, k)))
      /\ \A b \in Blocks, j \in Tasks :
           x \notin Doing(stack, b, j) /\ Doing(stack', b, j) = Doing(stack, b, j) \ {x}
      /\ \A h \in Handles :
           /\ x \in Owned(stack, h) <=> Top(t).of = h
           /\ Owned(stack', h) = Owned(stack, h) \ {x}
  <2>1. /\ stack' \in Stacks
        /\ \A b \in Blocks, k \in Kinds :
             Balanced(Whole, stack', b, k, cnt[b][k] - If(Top(t) \in Decs(b, k)))
        /\ \A b \in Blocks, j \in Tasks :
             /\ x \in Doing(stack, b, j) <=> "clear" = j /\ Top(t).blk = b
             /\ Doing(stack', b, j) = IF "pop" = j /\ Top(t).blk = b
                                      THEN Doing(stack, b, j) \cup {x}
                                      ELSE Doing(stack, b, j) \ {x}
        /\ \A h \in Handles :
             /\ x \in Owned(stack, h) <=> Top(t).of = h
             /\ Owned(stack', h) = IF "pop" # "pop" /\ Top(t).of = h
                                   THEN Owned(stack, h) \cup {x}
                                   ELSE Owned(stack, h) \ {x}
    <3>1. TopChanged(t, "clear", "pop")
      BY <1>1, TopChanges
    <3>. QED  BY ONLY <3>1 DEF TopChanged
  <2>2. \A j \in Tasks : "clear" # j /\ "pop" # j
    BY DEF Tasks
  <2>. HIDE DEF x, Whole
  <2>. QED  BY <2>1, <2>2
<1>3. \A b \in Blocks, k \in Kinds : cnt[b][k] - If(Top(t) \in Decs(b, k)) = cnt[b][k]
  BY <1>1, TopFacts, Facts DEF Decs, If
<1>. HIDE DEF x, o
<1>4. \A b \in Blocks, j \in Tasks : Doing(stack', b, j) = Doing(stack, b, j)
  <2>. TAKE b \in Blocks, j \in Tasks
  <2>1. x \notin Doing(stack, b, j) /\ Doing(stack', b, j) = Doing(stack, b, j) \ {x}
    BY <1>2
  <2>. QED  BY ONLY <2>1
<1>5. /\ TornByOne(stack', torn')
      /\ o \in Handles => o \in torn
  BY <1>1, <1>2, Facts DEF TornByOne, o
<1>6. Whole' = Whole /\ ref' \in [Handles -> Targets] /\ torn' \subseteq Handles
  <2>1. CASE o \in Handles
    <3>1. /\ ref' = [ref EXCEPT ![o] = Null] /\ ref' \in [Handles -> Targets]
          /\ torn' = torn \ {o} /\ o \in torn /\ torn \subseteq Handles
      BY <1>1, <1>5, <2>1, Facts DEF Swapped
    <3>2. \A h \in Handles : (IF h \in torn' THEN Null ELSE ref'[h])
                               = (IF h \in torn THEN Null ELSE ref[h])
      BY <3>1, Facts
    <3>. QED  BY <3>1, <3>2 DEF Whole, Held
  <2>2. CASE o = Null
    <3>1. Null \notin Handles
      BY NullIsNoHandle
    <3>2. ref' = ref /\ torn' = torn
      BY <1>1, <2>2, <3>1, Facts DEF Swapped
    <3>. QED  BY <3>2, Facts DEF Whole
  <2>. QED  BY <1>1, <2>1, <2>2
<1>7. \A b \in Blocks, k \in Kinds : Balanced(Whole', stack', b, k, cnt[b][k])
  <2>. HIDE DEF Whole
  <2>. QED  BY <1>2, <1>3, <1>6
<1>8. alive' \subseteq Threads
  BY <1>1, Facts
<1>. QED  BY <1>1, <1>2, <1>4, <1>5, <1>6, <1>7, <1>8, MovesReferences

LEMMA DecrementIInv ==
    ASSUME IInv, NEW t \in Threads, Decrement(t)
    PROVE  IInv'
<1>. DEFINE b == Top(t).blk
            j == Top(t).kind
            n == cnt[b][j] - 1
            c == Decreased(b, j)
            due == IF Due(c[b]) = "dispose" /\ obj[b] = "gone" THEN "keep" ELSE Due(c[b])
            d == IF due = "keep" THEN After(t) ELSE due
            x == <<t, Len(stack[t])>>
<1>1. /\ TopAt(t, "dec") /\ b \in Blocks /\ j \in Kinds
      /\ Top(t) \in Frames /\ Top(t).at = "dec"
  BY TopFacts DEF Decrement
<1>2. /\ lock[b] = Null /\ cnt' = c
      /\ lock' = [lock EXCEPT ![b] = LockFor(t, due)]
      /\ obj' = IF due # "keep" /\ obj[b] = "alive" THEN [obj EXCEPT ![b] = "dying"] ELSE obj
      /\ stack' = IF due = "keep" THEN Returned(t) ELSE TopTo(t, due)
      /\ UNCHANGED <<ref, torn, live, alive>>
  BY DEF Decrement
<1>3. due \in Tasks \cup {"keep"}
  BY DEF Due, Tasks
<1>4. /\ TopBecomes(t, d) /\ d \in {"pop", "dispose", "destroy", "clear"}
      /\ d = "pop" => Top(t).of = Null
      /\ \A l \in Tasks : d = l <=> due = l
  <2>1. CASE due = "keep"
    <3>1. d = After(t) /\ stack' = Returned(t)
      BY <1>2, <2>1
    <3>. HIDE DEF due, d
    <3>. QED  BY <2>1, <3>1, ReturnedIs DEF Tasks
  <2>2. CASE due # "keep"
    <3>1. d = due /\ stack' = TopTo(t, due) /\ d \in Tasks
      BY <1>2, <1>3, <2>2
    <3>. HIDE DEF due, d
    <3>. QED  BY <3>1 DEF TopBecomes, TopTo, Turned, Tasks
  <2>. QED  BY <2>1, <2>2
<1>40. TornByOne(stack', torn')
  <2>1. torn' = torn
    BY <1>2
  <2>. HIDE DEF d
  <2>. QED  BY <1>1, <1>4, <2>1, OwnersStay
<1>41. /\ stack' \in Stacks
       /\ \A a \in Blocks, k \in Kinds :
            Balanced(Whole, stack', a, k, cnt[a][k] - If(Top(t) \in Decs(a, k)))
       /\ \A a \in Blocks, l \in Tasks :
            /\ x \notin Doing(stack, a, l)
            /\ Doing(stack', a, l) = IF due = l /\ b = a
                                     THEN Doing(stack, a, l) \cup {x}
                                     ELSE Doing(stack, a, l)
  <2>. HIDE DEF due, d, Whole
  <2>1. /\ stack' \in Stacks
        /\ \A a \in Blocks, k \in Kinds :
             Balanced(Whole, stack', a, k, cnt[a][k] - If(Top(t) \in Decs(a, k)))
        /\ \A a \in Blocks, l \in Tasks :
             /\ x \in Doing(stack, a, l) <=> "dec" = l /\ Top(t).blk = a
             /\ Doing(stack', a, l) = IF d = l /\ Top(t).blk = a
                                      THEN Doing(stack, a, l) \cup {x}
                                      ELSE Doing(stack, a, l) \ {x}
    <3>1. TopChanged(t, "dec", d)
      BY <1>1, <1>4, TopChanges
    <3>. QED  BY ONLY <3>1 DEF TopChanged
  <2>2. \A a \in Blocks : Top(t).blk = a <=> b = a
    OBVIOUS
  <2>. HIDE DEF x, b, j, n, c
  <2>3. ASSUME NEW a \in Blocks, NEW l \in Tasks
        PROVE  /\ x \notin Doing(stack, a, l)
               /\ Doing(stack', a, l) = IF due = l /\ b = a
                                        THEN Doing(stack, a, l) \cup {x}
                                        ELSE Doing(stack, a, l)
    <3>1. /\ x \in Doing(stack, a, l) <=> "dec" = l /\ Top(t).blk = a
          /\ Doing(stack', a, l) = IF d = l /\ Top(t).blk = a
                                   THEN Doing(stack, a, l) \cup {x}
                                   ELSE Doing(stack, a, l) \ {x}
      BY <2>1
    <3>2. "dec" # l /\ (d = l <=> due = l) /\ (Top(t).blk = a <=> b = a)
      BY <1>4, <2>2 DEF Tasks
    <3>. QED  BY ONLY <3>1, <3>2
  <2>. QED  BY <2>1, <2>3
<1>5. \A a \in Blocks, k \in Kinds : Top(t) \in Decs(a, k) <=> a = b /\ k = j
  BY <1>1 DEF Decs
<1>6. n \in Nat
  <2>1. Balanced(Whole, stack', b, j, n)
    <3>. HIDE DEF Whole
    <3>1. cnt[b][j] - If(Top(t) \in Decs(b, j)) = n
      BY <1>1, <1>5, Facts DEF If
    <3>. QED  BY <1>1, <1>41, <3>1
  <2>. QED  BY <1>1, <2>1, BalancedNat
<1>7. cnt \in CountTable /\ cnt' = Recounted(cnt, b, j, n)
  BY <1>2, TypeParts DEF IInv, Decreased, Recounted
<1>8. /\ cnt' \in CountTable /\ cnt'[b][j] = n
      /\ \A a \in Blocks, k \in Kinds : a # b \/ k # j => cnt'[a][k] = cnt[a][k]
      /\ \A a \in Blocks : a # b => cnt'[a] = cnt[a]
  <2>1. b \in Blocks /\ j \in Kinds /\ n \in Nat /\ cnt \in CountTable
    BY <1>1, <1>6, <1>7
  <2>. HIDE DEF b, j, n
  <2>2. /\ Recounted(cnt, b, j, n) \in CountTable
        /\ Recounted(cnt, b, j, n)[b][j] = n
        /\ \A a \in Blocks, k \in Kinds :
             a # b \/ k # j => Recounted(cnt, b, j, n)[a][k] = cnt[a][k]
        /\ \A a \in Blocks : a # b => Recounted(cnt, b, j, n)[a] = cnt[a]
    BY ONLY <2>1, OneCount, SMTT(40)
  <2>. QED  BY ONLY <1>7, <2>2
<1>9. TypeOK'
  <2>1. lock' \in [Blocks -> Threads \cup {Null}]
        /\ obj' \in [Blocks -> {"none", "alive", "dying", "gone"}]
    <3>. HIDE DEF due
    <3>. QED  BY <1>2, TypeParts DEF IInv, LockFor
  <2>. QED  BY <1>2, <1>41, <1>8, <2>1, TypeParts, TypePartsNext DEF IInv
<1>10. Counts'
  <2>. SUFFICES ASSUME NEW a \in Blocks, NEW k \in Kinds
                PROVE  Balanced(Whole', stack', a, k, cnt'[a][k])
    BY DEF Counts, Whole
  <2>1. cnt'[a][k] = cnt[a][k] - If(Top(t) \in Decs(a, k))
    BY <1>1, <1>5, <1>8, Facts DEF If
  <2>2. Whole' = Whole
    BY <1>2 DEF Whole
  <2>. HIDE DEF Whole
  <2>. QED  BY <1>41, <2>1, <2>2
<1>11. ASSUME NEW a \in Blocks PROVE SoundBlock(a)'
  <2>1. CASE a # b
    <3>1. lock'[a] = lock[a] /\ obj'[a] = obj[a] /\ cnt'[a] = cnt[a] /\ live' = live
      <4>. HIDE DEF due
      <4>. QED  BY <1>2, <1>8, <2>1, TypeParts DEF IInv
    <3>2. Doing(stack', a, "dispose") = Doing(stack, a, "dispose")
          /\ Doing(stack', a, "destroy") = Doing(stack, a, "destroy")
      BY <1>41, <2>1 DEF Tasks
    <3>. QED  BY <3>1, <3>2, StaysSound DEF IInv
  <2>2. CASE a = b
    <3>. DEFINE dis == Doing(stack, b, "dispose")
                des == Doing(stack, b, "destroy")
    <3>1. /\ cnt[b].shared \in Nat /\ cnt[b].weak \in Nat
          /\ cnt'[b].shared \in Nat /\ cnt'[b].weak \in Nat
          /\ cnt[b]["shared"] = cnt[b].shared /\ cnt[b]["weak"] = cnt[b].weak
          /\ cnt'[b]["shared"] = cnt'[b].shared /\ cnt'[b]["weak"] = cnt'[b].weak
      BY <1>1, <1>7, <1>8, CountTypes
    <3>2. \/ /\ cnt[b].shared = cnt'[b].shared + 1 /\ cnt'[b].weak = cnt[b].weak
          \/ /\ cnt[b].weak = cnt'[b].weak + 1 /\ cnt'[b].shared = cnt[b].shared
      BY <1>1, <1>6, <1>8, <3>1 DEF Kinds
    <3>3. Sound(dis, des, b \in live, obj[b], cnt[b], lock[b])
      BY <1>1 DEF IInv, SoundBlock
    <3>4. b \in live /\ dis = {} /\ des = {} /\ obj[b] \notin {"none", "dying"}
      <4>. HIDE DEF dis, des, b
      <4>. QED  BY <1>2, <3>1, <3>2, <3>3, HandlesAssumption DEF Sound
    <3>5. /\ obj[b] \in {"alive", "gone"} /\ (obj[b] = "alive" <=> cnt[b].shared > 0)
      <4>1. obj[b] \in {"none", "alive", "dying", "gone"}
        BY <1>1, TypeParts DEF IInv
      <4>. QED  BY <3>3, <3>4, <4>1 DEF Sound
    <3>6. /\ due = "keep" => cnt'[b].shared > 0 \/ (cnt'[b].weak > 0 /\ obj[b] = "gone")
          /\ due = "dispose" => cnt'[b].shared = 0 /\ cnt'[b].weak > 0 /\ obj[b] = "alive"
          /\ due = "destroy" => cnt'[b].shared = 0 /\ cnt'[b].weak = 0
      <4>1. due = IF Due(cnt'[b]) = "dispose" /\ obj[b] = "gone" THEN "keep" ELSE Due(cnt'[b])
        BY <1>2
      <4>2. /\ Due(cnt'[b]) = "keep" => cnt'[b].shared > 0
            /\ Due(cnt'[b]) = "dispose" => cnt'[b].shared = 0 /\ cnt'[b].weak > 0
            /\ Due(cnt'[b]) = "destroy" => cnt'[b].shared = 0 /\ cnt'[b].weak = 0
            /\ Due(cnt'[b]) \in {"keep", "dispose", "destroy"}
        BY <3>1 DEF Due
      <4>. HIDE DEF due
      <4>. QED  BY <3>5, <4>1, <4>2
    <3>. HIDE DEF due
    <3>7. /\ lock'[b] = IF due = "dispose" THEN t ELSE Null
          /\ obj'[b] = IF due # "keep" /\ obj[b] = "alive" THEN "dying" ELSE obj[b]
          /\ live' = live
      BY <1>1, <1>2, TypeParts DEF IInv, LockFor
    <3>8. /\ Doing(stack', b, "dispose") = IF due = "dispose" THEN {x} ELSE {}
          /\ Doing(stack', b, "destroy") = IF due = "destroy" THEN {x} ELSE {}
      BY <1>1, <1>41, <3>4 DEF Tasks
    <3>9. Sound(Doing(stack', b, "dispose"), Doing(stack', b, "destroy"),
                b \in live', obj'[b], cnt'[b], lock'[b])
      <4>0. x[1] = t /\ \A y, z \in {x} : y = z
        OBVIOUS
      <4>. HIDE DEF x, b
      <4>1. CASE due = "keep"
        BY <3>1, <3>2, <3>4, <3>5, <3>6, <3>7, <3>8, <4>1 DEF Sound
      <4>2. CASE due = "dispose"
        <5>1. /\ Doing(stack', b, "dispose") = {x} /\ Doing(stack', b, "destroy") = {}
              /\ lock'[b] = t /\ obj'[b] = "dying" /\ b \in live'
              /\ cnt'[b].shared = 0 /\ cnt'[b].weak > 0
          BY <3>4, <3>6, <3>7, <3>8, <4>2
        <5>. QED  BY <3>1, <4>0, <5>1 DEF Sound
      <4>3. CASE due = "destroy"
        <5>1. /\ Doing(stack', b, "dispose") = {} /\ Doing(stack', b, "destroy") = {x}
              /\ obj'[b] \in {"dying", "gone"} /\ b \in live'
              /\ cnt'[b].shared = 0 /\ cnt'[b].weak = 0
          BY <3>4, <3>5, <3>6, <3>7, <3>8, <4>3
        <5>. QED  BY <4>0, <5>1 DEF Sound
      <4>. QED  BY <1>3, <4>1, <4>2, <4>3 DEF Tasks
    <3>. QED  BY <2>2, <3>9, SMTT(40) DEF SoundBlock
  <2>. QED  BY <2>1, <2>2
<1>. QED  BY <1>40, <1>9, <1>10, <1>11 DEF IInv

LEMMA FinishDisposeIInv ==
    ASSUME IInv, NEW t \in Threads, FinishDispose(t)
    PROVE  IInv'
<1>. DEFINE b == Top(t).blk
<1>1. "dispose" \in Tasks /\ TopAt(t, "dispose") /\ b \in Blocks
  BY TopFacts DEF FinishDispose, Tasks
<1>2. /\ obj' = [obj EXCEPT ![b] = "gone"] /\ lock' = [lock EXCEPT ![b] = Null]
      /\ stack' = Returned(t) /\ UNCHANGED <<ref, torn, cnt, live, alive>>
  BY DEF FinishDispose
<1>3. /\ stack' \in Stacks /\ TornByOne(stack', torn)
      /\ \A a \in Blocks, k \in Kinds : Balanced(Whole, stack', a, k, cnt[a][k])
  BY <1>1, <1>2, TopDone
<1>4. PICK x : /\ x \in Doing(stack, b, "dispose")
               /\ \A a \in Blocks, j \in Tasks : Doing(stack', a, j) = Doing(stack, a, j) \ {x}
               /\ \A a \in Blocks, j \in Tasks : x \in Doing(stack, a, j) => a = b
  BY <1>1, <1>2, TopDone
<1>. HIDE DEF b
<1>5. TypeOK'
  BY <1>2, <1>3, TypeParts, TypePartsNext DEF IInv
<1>6. Counts'
  <2>1. Whole' = Whole /\ cnt' = cnt
    BY <1>2 DEF Whole
  <2>2. \A a \in Blocks, k \in Kinds : Balanced(Whole', stack', a, k, cnt'[a][k])
    <3>. HIDE DEF Whole
    <3>. QED  BY <1>3, <2>1
  <2>. QED  BY <2>2 DEF Counts, Whole
<1>7. ASSUME NEW a \in Blocks PROVE SoundBlock(a)'
  <2>1. Doing(stack', a, "dispose") = Doing(stack, a, "dispose") \ {x}
        /\ Doing(stack', a, "destroy") = Doing(stack, a, "destroy") \ {x}
    BY <1>4 DEF Tasks
  <2>2. CASE a # b
    <3>1. x \notin Doing(stack, a, "dispose") /\ x \notin Doing(stack, a, "destroy")
      BY <1>4, <2>2 DEF Tasks
    <3>2. obj'[a] = obj[a] /\ lock'[a] = lock[a]
      BY <1>2, <2>2, TypeParts DEF IInv
    <3>. QED  BY <1>2, <2>1, <3>1, <3>2, StaysSound DEF IInv
  <2>3. CASE a = b
    <3>1. obj'[b] = "gone" /\ cnt' = cnt /\ live' = live
      BY <1>1, <1>2, TypeParts DEF IInv
    <3>2. Sound(Doing(stack, b, "dispose"), Doing(stack, b, "destroy"),
                b \in live, obj[b], cnt[b], lock[b])
      BY <1>1 DEF IInv, SoundBlock
    <3>3. Doing(stack', b, "dispose") = {} /\ Doing(stack', b, "destroy") = {}
          /\ Doing(stack, b, "destroy") = {}
      BY <1>4, <2>1, <2>3, <3>2 DEF Sound
    <3>. QED  BY <1>4, <2>3, <3>1, <3>2, <3>3 DEF SoundBlock, Sound
  <2>. QED  BY <2>2, <2>3
<1>8. TornByOne(stack', torn')
  BY <1>2, <1>3
<1>. QED  BY <1>5, <1>6, <1>7, <1>8 DEF IInv

LEMMA DestroyIInv ==
    ASSUME IInv, NEW t \in Threads, Destroy(t)
    PROVE  IInv'
<1>. DEFINE b == Top(t).blk
<1>1. "destroy" \in Tasks /\ TopAt(t, "destroy") /\ b \in Blocks
  BY TopFacts DEF Destroy, Tasks
<1>2. /\ obj' = [obj EXCEPT ![b] = "none"] /\ live' = live \ {b}
      /\ stack' = Returned(t) /\ UNCHANGED <<ref, torn, cnt, lock, alive>>
  BY DEF Destroy
<1>3. /\ stack' \in Stacks /\ TornByOne(stack', torn)
      /\ \A a \in Blocks, k \in Kinds : Balanced(Whole, stack', a, k, cnt[a][k])
  BY <1>1, <1>2, TopDone
<1>4. PICK x : /\ x \in Doing(stack, b, "destroy")
               /\ \A a \in Blocks, j \in Tasks : Doing(stack', a, j) = Doing(stack, a, j) \ {x}
               /\ \A a \in Blocks, j \in Tasks : x \in Doing(stack, a, j) => a = b
  BY <1>1, <1>2, TopDone
<1>. HIDE DEF b
<1>5. TypeOK'
  BY <1>2, <1>3, TypeParts, TypePartsNext DEF IInv
<1>6. Counts'
  <2>1. Whole' = Whole /\ cnt' = cnt
    BY <1>2 DEF Whole
  <2>2. \A a \in Blocks, k \in Kinds : Balanced(Whole', stack', a, k, cnt'[a][k])
    <3>. HIDE DEF Whole
    <3>. QED  BY <1>3, <2>1
  <2>. QED  BY <2>2 DEF Counts, Whole
<1>7. ASSUME NEW a \in Blocks PROVE SoundBlock(a)'
  <2>1. Doing(stack', a, "dispose") = Doing(stack, a, "dispose") \ {x}
        /\ Doing(stack', a, "destroy") = Doing(stack, a, "destroy") \ {x}
    BY <1>4 DEF Tasks
  <2>2. CASE a # b
    <3>1. x \notin Doing(stack, a, "dispose") /\ x \notin Doing(stack, a, "destroy")
      BY <1>4, <2>2 DEF Tasks
    <3>2. obj'[a] = obj[a] /\ (a \in live' <=> a \in live)
      BY <1>2, <2>2, TypeParts DEF IInv
    <3>. QED  BY <1>2, <2>1, <3>1, <3>2, StaysSound DEF IInv
  <2>3. CASE a = b
    <3>1. Sound(Doing(stack, b, "dispose"), Doing(stack, b, "destroy"),
                b \in live, obj[b], cnt[b], lock[b])
      BY <1>1 DEF IInv, SoundBlock
    <3>2. /\ Doing(stack', b, "dispose") = {} /\ Doing(stack', b, "destroy") = {}
          /\ cnt[b].shared = 0 /\ cnt[b].weak = 0
      BY <1>4, <2>1, <2>3, <3>1 DEF Sound
    <3>. QED  BY <1>2, <2>3, <3>2 DEF SoundBlock, Sound
  <2>. QED  BY <2>2, <2>3
<1>8. TornByOne(stack', torn')
  BY <1>2, <1>3
<1>. QED  BY <1>5, <1>6, <1>7, <1>8 DEF IInv

LEMMA NextIInv == IInv /\ [Next]_vars => IInv'
<1>. SUFFICES ASSUME IInv, [Next]_vars PROVE IInv'
  OBVIOUS
<1>1. CASE UNCHANGED vars
  <2>1. UNCHANGED <<ref, torn, cnt, live, obj, lock, stack, alive>>
    BY <1>1 DEF vars
  <2>2. Whole' = Whole
    BY <2>1 DEF Whole
  <2>. QED  BY <2>1, <2>2, Facts, MovesReferences
<1>2. ASSUME NEW t \in Threads,
             \/ \E h \in Handles, b \in Blocks : Make(t, h, b)
             \/ \E h, g \in Handles : Copy(t, h, g) \/ Move(t, h, g) \/ Swap(t, h, g)
             \/ \E h \in Handles : Reset(t, h) \/ Drop(t, h)
      PROVE  IInv'
  BY <1>2, MakeIInv, CopyIInv, MoveIInv, SwapIInv, ResetIInv, DropIInv
<1>3. ASSUME NEW t \in Threads, Dropping(t) PROVE IInv'
  BY <1>3, DecrementIInv, DropFieldIInv, FinishDisposeIInv, DestroyIInv, ClearIInv DEF Dropping
<1>4. ASSUME NEW t \in Threads,
             \/ Die(t)
             \/ \E b \in Blocks : DieAmidMake(t, b)
             \/ \E h, g \in Handles :
                   DieAmidConstruct(t, h, g) \/ DieAmidCopy(t, h, g) \/ DieAmidMove(t, h, g)
      PROVE  IInv'
  BY <1>4, DieIInv, DieAmidMakeIInv, DieAmidConstructIInv, DieAmidCopyIInv, DieAmidMoveIInv
<1>. QED  BY <1>1, <1>2, <1>3, <1>4 DEF Next

-----------------------------------------------------------------------------
(* What the invariant says of References, DropsDue and FramesOf. *)
LEMMA SameReferences ==
    ASSUME IInv, NEW b \in Blocks, NEW k \in Kinds
    PROVE  References(b, k) = Refs(Whole, b, k) /\ DropsDue(b, k) = Drops(stack, b, k)
<1>1. References(b, k) = Refs(Whole, b, k)
  BY HandlesAssumption DEF References, Refs, Whole, Held
<1>2. ASSUME NEW t \in Threads, NEW i \in DOMAIN stack[t]
      PROVE  /\ stack[t][i] \in Frames
             /\ stack[t][i] \in Decs(b, k) <=>
                  stack[t][i].blk = b /\ stack[t][i].at = "dec" /\ stack[t][i].kind = k
  <2>1. stack[t][i] \in Frames
    BY Facts DEF Stacks
  <2>. QED  BY <2>1 DEF Decs
<1>3. DropsDue(b, k) = Drops(stack, b, k)
  BY <1>2 DEF DropsDue, FramesOf, FrameOf, Drops, Places
<1>. QED  BY <1>1, <1>3

LEMMA SameFrames ==
    ASSUME IInv, NEW b \in Blocks
    PROVE  /\ FramesOf(b) = Drops(stack, b, "shared") \cup Drops(stack, b, "weak")
                              \cup Doing(stack, b, "dispose") \cup Doing(stack, b, "destroy")
           /\ \A l \in Tasks : {x \in FramesOf(b) : FrameOf(x).at = l} = Doing(stack, b, l)
<1>1. ASSUME NEW t \in Threads, NEW i \in DOMAIN stack[t]
      PROVE  /\ stack[t][i] \in Frames
             /\ \A k \in Kinds : stack[t][i] \in Decs(b, k) <=>
                  stack[t][i].blk = b /\ stack[t][i].at = "dec" /\ stack[t][i].kind = k
             /\ \A l \in Tasks : stack[t][i] \in Doers(b, l) <=>
                  stack[t][i].blk = b /\ stack[t][i].at = l
             /\ stack[t][i].at \in {"dec", "dispose", "destroy", "clear"}
             /\ stack[t][i].kind \in Kinds
  <2>1. stack[t][i] \in Frames
    BY Facts DEF Stacks
  <2>. QED  BY <2>1 DEF Frames, Decs, Doers, Kinds
<1>2. FramesOf(b) = Drops(stack, b, "shared") \cup Drops(stack, b, "weak")
                      \cup Doing(stack, b, "dispose") \cup Doing(stack, b, "destroy")
  BY <1>1 DEF FramesOf, FrameOf, Drops, Doing, Places, Kinds, Tasks
<1>3. \A l \in Tasks : {x \in FramesOf(b) : FrameOf(x).at = l} = Doing(stack, b, l)
  BY <1>1 DEF FramesOf, FrameOf, Doing, Places, Tasks
<1>. QED  BY <1>2, <1>3

LEMMA Invariant == Spec => []IInv
BY InitIInv, NextIInv, PTL DEF Spec

(* Every variable has its type (TypeOK): no count of a control block ever  *)
(* goes below zero (try_dispose_com, offset_shared_ptr.cpp:25-26).         *)
THEOREM TypeCorrect == Spec => []TypeOK
<1>1. IInv => TypeOK
  BY DEF IInv
<1>. QED  BY <1>1, Invariant, PTL

(* The counts are the numbers of whole handles and of drops to come,       *)
(* whatever is copied, moved, swapped and dropped at the same time and     *)
(* whoever dies (offset_shared_ptr.hpp:250-255, :314-316).                 *)
THEOREM CountsAreExact == Spec => []CountsAreReferences
<1>1. IInv => CountsAreReferences
  <2>. SUFFICES ASSUME IInv, NEW b \in live, NEW k \in Kinds
                PROVE  cnt[b][k] = Cardinality(References(b, k)) + Cardinality(DropsDue(b, k))
    BY DEF CountsAreReferences, Kinds
  <2>1. b \in Blocks
    BY TypeParts DEF IInv
  <2>. QED  BY <2>1, SameReferences DEF IInv, Counts, Balanced, Whole
<1>. QED  BY <1>1, Invariant, PTL

(* What the counts, the references and the frames of one block say.        *)
LEMMA BlockFacts ==
    ASSUME IInv, NEW b \in Blocks
    PROVE  LET dis == Doing(stack, b, "dispose")
               des == Doing(stack, b, "destroy")
           IN  /\ cnt[b].shared \in Nat /\ cnt[b].weak \in Nat
               /\ cnt[b].shared = 0 <=>
                    References(b, "shared") = {} /\ DropsDue(b, "shared") = {}
               /\ cnt[b].weak = 0 <=> References(b, "weak") = {} /\ DropsDue(b, "weak") = {}
               /\ Sound(dis, des, b \in live, obj[b], cnt[b], lock[b])
               /\ FramesOf(b) = DropsDue(b, "shared") \cup DropsDue(b, "weak") \cup dis \cup des
               /\ {x \in FramesOf(b) : FrameOf(x).at = "dispose"} = dis
               /\ {x \in FramesOf(b) : FrameOf(x).at = "destroy"} = des
<1>1. "shared" \in Kinds /\ "weak" \in Kinds
  BY DEF Kinds
<1>2. /\ cnt[b].shared \in Nat /\ cnt[b].weak \in Nat
      /\ cnt[b]["shared"] = cnt[b].shared /\ cnt[b]["weak"] = cnt[b].weak
  BY TypeParts, CountTypes DEF IInv
<1>3. ASSUME NEW k \in Kinds
      PROVE  cnt[b][k] = 0 <=> References(b, k) = {} /\ DropsDue(b, k) = {}
  <2>1. Balanced(Whole, stack, b, k, cnt[b][k])
    BY Facts
  <2>. QED  BY <2>1, BalancedNat, SameReferences
<1>4. Sound(Doing(stack, b, "dispose"), Doing(stack, b, "destroy"),
            b \in live, obj[b], cnt[b], lock[b])
  BY DEF IInv, SoundBlock
<1>5. \A k \in Kinds : DropsDue(b, k) = Drops(stack, b, k)
  BY SameReferences
<1>. QED  BY <1>1, <1>2, <1>3, <1>4, <1>5, SameFrames DEF Tasks

(* No whole handle and no drop refers to a block that was given back, and  *)
(* no shared_ptr to an object whose destructor has begun.                  *)
THEOREM NothingDangles == Spec => []NoDangling
<1>1. IInv => NoDangling
  <2>. SUFFICES ASSUME IInv, NEW b \in Blocks
                PROVE  /\ References(b, "weak") \cup FramesOf(b) # {} => b \in live
                       /\ References(b, "shared") # {} => b \in live /\ obj[b] = "alive"
    BY DEF NoDangling
  <2>. QED  BY BlockFacts DEF Sound
<1>. QED  BY <1>1, Invariant, PTL

(* One drop alone disposes of an object or destroys a block.               *)
THEOREM OneDropDisposes == Spec => []OneDisposer
<1>1. IInv => OneDisposer
  <2>. SUFFICES ASSUME IInv, NEW b \in Blocks
                PROVE  LET at(l) == {x \in FramesOf(b) : FrameOf(x).at = l}
                       IN  /\ Cardinality(at("dispose") \cup at("destroy")) <= 1
                           /\ at("destroy") # {} => FramesOf(b) = at("destroy")
    BY DEF OneDisposer
  <2>. DEFINE dis == Doing(stack, b, "dispose")
              des == Doing(stack, b, "destroy")
  <2>1. Sound(dis, des, b \in live, obj[b], cnt[b], lock[b])
    BY BlockFacts
  <2>2. Cardinality(dis \cup des) <= 1
    <3>. HIDE DEF dis, des
    <3>1. CASE dis \cup des = {}
      BY <3>1, FS_EmptySet
    <3>2. CASE dis \cup des # {}
      <4>1. PICK x \in dis \cup des : dis \cup des = {x}
        BY <2>1, <3>2 DEF Sound
      <4>2. Cardinality({x}) = 1
        BY FS_Singleton
      <4>. QED  BY <4>1, <4>2
    <3>. QED  BY <3>1, <3>2
  <2>3. des # {} => FramesOf(b) = des
    <3>. SUFFICES ASSUME des # {} PROVE FramesOf(b) = des
      OBVIOUS
    <3>1. dis = {} /\ cnt[b].shared = 0 /\ cnt[b].weak = 0
      <4>. HIDE DEF dis, des
      <4>. QED  BY <2>1 DEF Sound
    <3>. QED  BY <3>1, BlockFacts
  <2>. QED  BY <2>2, <2>3, BlockFacts
<1>. QED  BY <1>1, Invariant, PTL

(* An object goes with its last shared_ptr, a block with its last handle.  *)
THEOREM NothingIsKept == Spec => []NothingKept
<1>1. IInv => NothingKept
  <2>. SUFFICES ASSUME IInv, NEW b \in live
                PROVE  /\ References(b, "shared") \cup References(b, "weak") \cup FramesOf(b) # {}
                       /\ obj[b] = "alive" =>
                            References(b, "shared") # {} \/ DropsDue(b, "shared") # {}
    BY DEF NothingKept
  <2>1. b \in Blocks
    BY TypeParts DEF IInv
  <2>. QED  BY <2>1, BlockFacts DEF Sound
<1>. QED  BY <1>1, Invariant, PTL
=============================================================================
