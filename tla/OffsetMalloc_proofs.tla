------------------------ MODULE OffsetMalloc_proofs ------------------------
(***************************************************************************)
(* Proofs about OffsetMalloc, for any heap and any sequence of requests    *)
(* that ask for no more alignment than a header has, and return what they  *)
(* got in any order.                                                       *)
(***************************************************************************)
EXTENDS OffsetMalloc, FiniteSetTheorems, SequenceTheorems, TLAPS

-----------------------------------------------------------------------------
(* Least and greatest elements, and induction with sets.                   *)

LEMMA LeastOf ==
    ASSUME NEW T \in SUBSET Nat, T # {}
    PROVE  \E n \in T : \A k \in T : n <= k
<1>. DEFINE I == {0..n : n \in T}
<1>1. IsWellFoundedOn(StrictSubsetOrdering(Nat), FiniteSubsetsOf(Nat))
  BY FS_StrictSubsetOrderingWellFounded
<1>2. I # {} /\ I \subseteq FiniteSubsetsOf(Nat)
  <2>1. \A n \in T : IsFiniteSet(0..n) /\ 0..n \in SUBSET Nat
    BY FS_Interval
  <2>. QED  BY <2>1 DEF FiniteSubsetsOf
<1>3. PICK i \in I : \A j \in I : <<j, i>> \notin StrictSubsetOrdering(Nat)
  <2>. HIDE DEF I
  <2>. QED  BY <1>1, <1>2, WFMin, Zenon
<1>4. PICK n \in T : i = 0..n
  OBVIOUS
<1>5. ASSUME NEW k \in T
      PROVE  n <= k
  <2>1. <<0..k, 0..n>> \notin StrictSubsetOrdering(Nat)
    BY <1>3, <1>4
  <2>2. ~(0..k \subseteq 0..n /\ 0..k # 0..n)
    BY <2>1 DEF StrictSubsetOrdering
  <2>3. n \in 0..n
    OBVIOUS
  <2>. QED  BY <2>2, <2>3
<1>. QED  BY <1>5

LEMMA SetInduction ==
    ASSUME NEW T, 0 \in T, \A n \in Nat : n \in T => n + 1 \in T
    PROVE  \A n \in Nat : n \in T
<1>. DEFINE Out == {n \in Nat : n \notin T}
<1>. SUFFICES ASSUME Out # {} PROVE FALSE
  OBVIOUS
<1>1. PICK n \in Out : \A k \in Out : n <= k
  BY LeastOf
<1>2. n # 0 /\ n - 1 \in Nat
  BY <1>1
<1>3. n - 1 \in T
  BY <1>1, <1>2
<1>. QED  BY <1>1, <1>2, <1>3

LEMMA GreatestOf ==
    ASSUME NEW N \in Nat, NEW T \in SUBSET (0..N), T # {}
    PROVE  \E n \in T : \A k \in T : k <= n
<1>. DEFINE R == {N - n : n \in T}
<1>1. R \in SUBSET Nat /\ R # {}
  <2>1. \A n \in T : N - n \in Nat
    OBVIOUS
  <2>2. \E n : n \in T
    OBVIOUS
  <2>. QED  BY <2>1, <2>2
<1>2. PICK d \in R : \A k \in R : d <= k
  BY <1>1, LeastOf
<1>3. PICK n \in T : d = N - n
  OBVIOUS
<1>4. ASSUME NEW k \in T
      PROVE  k <= n
  <2>1. N - k \in R
    OBVIOUS
  <2>2. N - n <= N - k
    BY <1>2, <1>3, <2>1
  <2>. QED  BY <2>2
<1>. QED  BY <1>4

LEMMA FirstOfIsLeast ==
    ASSUME NEW S \in SUBSET Nat, S # {}
    PROVE  FirstOf(S) \in S /\ \A k \in S : FirstOf(S) <= k
BY LeastOf DEF FirstOf

-----------------------------------------------------------------------------
(* The ring, and the walk around it.                                       *)

Memories == [next : [Addr -> Addr \cup {Null}], size : [Addr -> 0..Units],
             freep : [{Base} -> Addr]]

(* c follows b in F, in address order; base_blk_ follows the last. *)
Succ(F, b, c) ==
    /\ c \in F
    /\ \/ b < c /\ \A x \in F : x <= b \/ c <= x
       \/ c = Base /\ \A x \in F : x <= b

(* F: the free blocks. *)
Ring(m, F) ==
    /\ F \in SUBSET Addr
    /\ Base \in F /\ Freep(m) \in F
    /\ \A b \in F : Succ(F, b, NextOf(m, b))

LEMMA AddrFacts == Units \in Nat /\ Units # 0 /\ Base = 0 /\ Addr = 0..Units /\ Null \notin Addr
BY ConstAssumption DEF Addr, Base, Null

LEMMA SuccUnique ==
    ASSUME NEW F \in SUBSET Addr, NEW b \in F, NEW d \in F, NEW c, Succ(F, b, c), Succ(F, d, c)
    PROVE  b = d
BY AddrFacts DEF Succ

LEMMA WalkFollows ==
    ASSUME NEW m, NEW F \in SUBSET Addr, Freep(m) \in F,
           \A b \in F : NextOf(m, b) \in F
    PROVE  /\ Walk(m) \in [1..Units + 2 -> F] /\ Walk(m)[1] = Freep(m)
           /\ \A i \in 1..Units + 1 : Walk(m)[i + 1] = NextOf(m, Walk(m)[i])
<1>. DEFINE D == 1..Units + 2
            Step(h) == [i \in D |-> IF i = 1 THEN Freep(m)
                                    ELSE IF h[i - 1] = Null THEN Null
                                    ELSE NextOf(m, h[i - 1])]
            Good(g, n) == /\ g \in [1..n + 1 -> F] /\ g[1] = Freep(m)
                          /\ \A i \in 1..n : g[i + 1] = NextOf(m, g[i])
            T == {n \in Nat : \E g : Good(g, n)}
<1>1. 0 \in T
  <2>1. Good([i \in 1..0 + 1 |-> Freep(m)], 0)
    OBVIOUS
  <2>. QED  BY <2>1
<1>2. ASSUME NEW n \in Nat, n \in T
      PROVE  n + 1 \in T
  <2>1. PICK g : Good(g, n)
    BY <1>2
  <2>. DEFINE h == [i \in 1..(n + 1) + 1 |-> IF i = (n + 1) + 1 THEN NextOf(m, g[n + 1]) ELSE g[i]]
  <2>2. g[n + 1] \in F
    BY <2>1
  <2>3. \A i \in 1..(n + 1) + 1 :
           IF i = (n + 1) + 1 THEN h[i] = NextOf(m, g[n + 1]) ELSE i \in 1..n + 1 /\ h[i] = g[i]
    OBVIOUS
  <2>4. h \in [1..(n + 1) + 1 -> F]
    BY <2>1, <2>2
  <2>. HIDE DEF h
  <2>5. h[1] = Freep(m)
    BY <2>1, <2>3
  <2>6. ASSUME NEW i \in 1..n + 1
        PROVE  h[i + 1] = NextOf(m, h[i])
    <3>1. h[i] = g[i] /\ i + 1 \in 1..(n + 1) + 1
      BY <2>3
    <3>2. CASE i = n + 1
      BY <2>3, <3>1, <3>2
    <3>3. CASE i \in 1..n
      BY <2>1, <2>3, <3>1, <3>3
    <3>. QED  BY <3>2, <3>3
  <2>. QED  BY <2>4, <2>5, <2>6
<1>3. PICK g : Good(g, Units + 1)
  <2>. HIDE DEF T
  <2>1. Units + 1 \in T
    BY <1>1, <1>2, SetInduction, AddrFacts
  <2>. QED  BY <2>1 DEF T
<1>. HIDE DEF T
<1>4. g = Step(g)
  <2>1. g \in [D -> F]
    BY <1>3, AddrFacts
  <2>2. ASSUME NEW i \in D
        PROVE  g[i] = IF i = 1 THEN Freep(m)
                      ELSE IF g[i - 1] = Null THEN Null ELSE NextOf(m, g[i - 1])
    <3>1. CASE i = 1
      BY <1>3, <3>1
    <3>2. CASE i # 1
      <4>1. i - 1 \in 1..Units + 1 /\ (i - 1) + 1 = i
        BY <3>2, AddrFacts
      <4>2. g[i] = NextOf(m, g[i - 1]) /\ g[i - 1] \in F
        BY <1>3, <4>1, AddrFacts
      <4>. QED  BY <3>2, <4>2, AddrFacts
    <3>. QED  BY <3>1, <3>2
  <2>. QED  BY <2>1, <2>2
<1>. DEFINE f == CHOOSE h : h = Step(h)
<1>5. f = Step(f)
  <2>. HIDE DEF Step
  <2>. QED  BY <1>4
<1>6. Walk(m) = f
  BY DEF Walk
<1>. HIDE DEF f
<1>7. \A i \in D : f[i] = IF i = 1 THEN Freep(m)
                           ELSE IF f[i - 1] = Null THEN Null ELSE NextOf(m, f[i - 1])
  BY <1>5
<1>8. \A i \in D : f[i] = g[i]
  <2>. DEFINE S == {i \in Nat : i + 1 \in D => f[i + 1] = g[i + 1]}
  <2>1. 0 \in S
    BY <1>3, <1>7
  <2>2. ASSUME NEW n \in Nat, n \in S
        PROVE  n + 1 \in S
    <3>. SUFFICES ASSUME (n + 1) + 1 \in D
                  PROVE  f[(n + 1) + 1] = g[(n + 1) + 1]
      OBVIOUS
    <3>1. n + 1 \in D /\ n + 1 \in 1..Units + 1 /\ (n + 1) + 1 # 1 /\ ((n + 1) + 1) - 1 = n + 1
      BY AddrFacts
    <3>2. f[n + 1] = g[n + 1]
      BY <2>2, <3>1
    <3>3. g[n + 1] \in F /\ g[(n + 1) + 1] = NextOf(m, g[n + 1])
      <4>1. n + 1 \in 1..(Units + 1) + 1
        BY <3>1, AddrFacts
      <4>. QED  BY <1>3, <3>1, <4>1
    <3>4. f[(n + 1) + 1] = IF f[n + 1] = Null THEN Null ELSE NextOf(m, f[n + 1])
      BY <1>7, <3>1
    <3>. QED  BY <3>2, <3>3, <3>4, AddrFacts
  <2>. HIDE DEF S
  <2>3. \A n \in Nat : n \in S
    BY <2>1, <2>2, SetInduction
  <2>. SUFFICES ASSUME NEW i \in D PROVE f[i] = g[i]
    OBVIOUS
  <2>4. i - 1 \in Nat /\ (i - 1) + 1 = i
    BY AddrFacts
  <2>. QED  BY <2>3, <2>4 DEF S
<1>9. f \in [D -> F]
  <2>1. \A i \in D : g[i] \in F
    BY <1>3, AddrFacts
  <2>2. f = [i \in D |-> f[i]]
    BY <1>5
  <2>. QED  BY <1>8, <2>1, <2>2
<1>10. f[1] = Freep(m)
  BY <1>7, AddrFacts
<1>11. \A i \in 1..Units + 1 : f[i + 1] = NextOf(m, f[i])
  <2>. TAKE i \in 1..Units + 1
  <2>1. i \in D /\ i + 1 \in D
    BY AddrFacts
  <2>. QED  BY <1>3, <1>8, <2>1
<1>. QED  BY <1>6, <1>9, <1>10, <1>11

(* What closes under next is the whole ring. *)
LEMMA ClosedIsAll ==
    ASSUME NEW m, NEW F, Ring(m, F), NEW V \in SUBSET F, V # {},
           \A b \in V : NextOf(m, b) \in V
    PROVE  V = F
<1>1. Units \in Nat /\ Base = 0 /\ Base \in F /\ \A x \in F : x \in 0..Units
  BY AddrFacts DEF Ring
<1>2. \A b \in F : Succ(F, b, NextOf(m, b))
  BY DEF Ring
<1>3. Base \in V
  <2>1. PICK b \in V : \A x \in V : x <= b
    BY <1>1, GreatestOf
  <2>2. PICK c \in V : c = NextOf(m, b)
    BY <2>1
  <2>3. b \in 0..Units /\ c \in 0..Units /\ c <= b /\ Succ(F, b, c)
    BY <1>1, <1>2, <2>1, <2>2
  <2>4. c = Base
    BY ONLY <1>1, <2>3 DEF Succ
  <2>. QED  BY <2>4
<1>4. ASSUME NEW b \in F \ V
      PROVE  FALSE
  <2>. DEFINE Out == F \ V
  <2>1. PICK c \in Out : \A x \in Out : c <= x
    <3>1. Out \in SUBSET Nat /\ Out # {}
      BY <1>1
    <3>. QED  BY <3>1, LeastOf
  <2>2. c \in 0..Units /\ c # Base /\ c \in F /\ c \notin V
    BY <1>1, <1>3
  <2>. DEFINE Below == {x \in F : x < c}
  <2>3. Base < c
    BY ONLY <1>1, <2>2
  <2>4. Base \in Below /\ Below \in SUBSET (0..Units)
    BY <1>1, <2>3
  <2>5. PICK d \in Below : \A x \in Below : x <= d
    BY <1>1, <2>4, GreatestOf
  <2>6. d \in F /\ d < c /\ d \in 0..Units
    BY <1>1
  <2>7. d \in V
    <3>1. ~(c <= d)
      BY ONLY <2>2, <2>6
    <3>. QED  BY <2>1, <2>6, <3>1
  <2>8. PICK n \in V : n = NextOf(m, d)
    BY <2>7
  <2>9. Succ(F, d, n) /\ n \in F /\ n \in 0..Units
    BY <1>1, <1>2, <2>6, <2>8
  <2>10. d < n /\ n <= c
    BY ONLY <2>2, <2>6, <2>9 DEF Succ
  <2>11. ~(n < c)
    <3>. SUFFICES ASSUME n < c PROVE FALSE
      OBVIOUS
    <3>1. n <= d
      BY <2>5, <2>9
    <3>. QED  BY ONLY <2>6, <2>9, <2>10, <3>1
  <2>12. n = c
    BY ONLY <2>2, <2>9, <2>10, <2>11
  <2>. QED  BY <2>2, <2>12
<1>. QED  BY <1>4

LEMMA UnitsCounted ==
    /\ IsFiniteSet(Addr) /\ Cardinality(Addr) = Units + 1
    /\ IsFiniteSet(1..Units + 2) /\ Cardinality(1..Units + 2) = Units + 2
<1>1. Units \in Nat /\ Addr = 0..Units
  BY AddrFacts
<1>2. Cardinality(0..Units) = IF 0 > Units THEN 0 ELSE Units - 0 + 1
  BY ONLY <1>1, FS_Interval
<1>3. Cardinality(1..(Units + 2)) = IF 1 > Units + 2 THEN 0 ELSE (Units + 2) - 1 + 1
  <2>. DEFINE N == Units + 2
  <2>1. N \in Int
    BY <1>1
  <2>. HIDE DEF N
  <2>2. Cardinality(1..N) = IF 1 > N THEN 0 ELSE N - 1 + 1
    BY ONLY <2>1, FS_Interval
  <2>. QED  BY <2>2 DEF N
<1>. QED  BY <1>1, <1>2, <1>3, FS_Interval

(* The walk comes back to where it began, after all free blocks.           *)
LEMMA WalkReturns ==
    ASSUME NEW m, NEW F, Ring(m, F)
    PROVE  \E k \in 1..Units + 1 : Walk(m)[k + 1] = Walk(m)[1]
<1>. DEFINE w == Walk(m)
<1>1. F \in SUBSET Addr /\ Freep(m) \in F /\ \A b \in F : NextOf(m, b) \in F
  BY DEF Ring, Succ
<1>2. /\ w \in [1..Units + 2 -> F]
      /\ \A i \in 1..Units + 1 : w[i + 1] = NextOf(m, w[i])
  BY <1>1, WalkFollows
<1>. HIDE DEF w
<1>3. \E i, j \in 1..Units + 2 : i # j /\ w[i] = w[j]
  <2>1. IsFiniteSet(F) /\ Cardinality(F) <= Cardinality(Addr)
    BY <1>1, UnitsCounted, FS_Subset
  <2>2. Cardinality(F) < Cardinality(1..Units + 2)
    BY <2>1, UnitsCounted, FS_CardinalityType, AddrFacts
  <2>. DEFINE D == 1..Units + 2
  <2>3. IsFiniteSet(D) /\ Cardinality(F) < Cardinality(D) /\ w \in [D -> F]
    BY <1>2, <2>2, UnitsCounted
  <2>. HIDE DEF D
  <2>4. \E i, j \in D : i # j /\ w[i] = w[j]
    BY <2>1, <2>3, FS_PigeonHole
  <2>. QED  BY <2>4 DEF D
<1>4. PICK i \in 1..Units + 2, j \in 1..Units + 2 : i < j /\ w[i] = w[j]
  <2>1. PICK i \in 1..Units + 2, j \in 1..Units + 2 : i # j /\ w[i] = w[j]
    BY <1>3
  <2>. QED  BY <2>1, AddrFacts
<1>. DEFINE T == {d \in Nat : d < i => w[i - d] = w[j - d]}
<1>5. 0 \in T
  BY <1>4, AddrFacts
<1>6. ASSUME NEW d \in Nat, d \in T
      PROVE  d + 1 \in T
  <2>. SUFFICES ASSUME d + 1 < i PROVE w[i - (d + 1)] = w[j - (d + 1)]
    OBVIOUS
  <2>. DEFINE a == i - (d + 1)  b == j - (d + 1)
  <2>1. a \in 1..Units + 1 /\ b \in 1..Units + 1 /\ a + 1 = i - d /\ b + 1 = j - d
    BY <1>4, AddrFacts
  <2>2. w[a + 1] = w[b + 1]
    BY <1>6, <2>1
  <2>3. w[a] \in F /\ w[b] \in F
    BY <1>2, <2>1, AddrFacts
  <2>4. Succ(F, w[a], w[a + 1]) /\ Succ(F, w[b], w[b + 1])
    BY <1>2, <2>1, <2>3 DEF Ring
  <2>. QED  BY <1>1, <2>2, <2>3, <2>4, SuccUnique
<1>7. i - 1 \in T
  <2>. HIDE DEF T
  <2>1. i - 1 \in Nat
    BY AddrFacts
  <2>. QED  BY <1>5, <1>6, <2>1, SetInduction
<1>8. w[1] = w[j - (i - 1)]
  <2>1. i - 1 < i /\ i - (i - 1) = 1
    BY AddrFacts
  <2>. QED  BY <1>7, <2>1
<1>9. j - i \in 1..Units + 1 /\ j - (i - 1) = (j - i) + 1
  BY <1>4, AddrFacts
<1>. QED  BY <1>8, <1>9 DEF w

LEMMA RingWalk ==
    ASSUME NEW m, NEW F, Ring(m, F)
    PROVE  /\ RingLength(Walk(m)) \in 1..Units + 1
           /\ Walk(m) \in [1..Units + 2 -> F] /\ Walk(m)[1] = Freep(m)
           /\ \A i \in 1..RingLength(Walk(m)) : Walk(m)[i + 1] = NextOf(m, Walk(m)[i])
           /\ \A i \in 2..RingLength(Walk(m)) : Walk(m)[i] # Freep(m)
           /\ {Walk(m)[i] : i \in 1..RingLength(Walk(m))} = F
<1>. DEFINE w == Walk(m)
            back == {i \in 1..Units + 1 : w[i + 1] = w[1]}
            k == RingLength(w)
<1>1. F \in SUBSET Addr /\ Freep(m) \in F /\ \A b \in F : NextOf(m, b) \in F
  BY DEF Ring, Succ
<1>2. /\ w \in [1..Units + 2 -> F] /\ w[1] = Freep(m)
      /\ \A i \in 1..Units + 1 : w[i + 1] = NextOf(m, w[i])
  BY <1>1, WalkFollows
<1>3. back # {} /\ back \in SUBSET Nat
  BY WalkReturns
<1>4. k \in back /\ \A i \in back : k <= i
  BY <1>3, FirstOfIsLeast DEF RingLength
<1>. HIDE DEF w, k
<1>5. k \in 1..Units + 1 /\ k \in Nat /\ w[k + 1] = w[1]
  BY <1>4
<1>6. \A i \in 1..k : i \in 1..Units + 1 /\ i \in 1..Units + 2
  BY <1>5, AddrFacts
<1>7. \A i \in 1..k : w[i + 1] = NextOf(m, w[i]) /\ w[i] \in F
  BY <1>2, <1>6
<1>8. ASSUME NEW i \in 2..k
      PROVE  w[i] # Freep(m)
  <2>1. i - 1 \in 1..Units + 1 /\ (i - 1) + 1 = i /\ i - 1 < k
    BY <1>5, AddrFacts
  <2>2. i - 1 \notin back
    BY <1>4, <1>5, <2>1
  <2>. QED  BY <1>2, <2>1, <2>2
<1>9. {w[i] : i \in 1..k} = F
  <2>. DEFINE V == {w[i] : i \in 1..k}
  <2>1. V \in SUBSET F
    BY <1>7
  <2>2. 1 \in 1..k
    BY <1>5
  <2>3. ASSUME NEW b \in V
        PROVE  NextOf(m, b) \in V
    <3>1. PICK i \in 1..k : b = w[i]
      OBVIOUS
    <3>2. NextOf(m, b) = w[i + 1]
      BY <1>7, <3>1
    <3>3. i = k \/ i + 1 \in 1..k
      BY <1>5
    <3>. QED  BY <1>5, <2>2, <3>2, <3>3
  <2>4. V # {}
    BY <2>2
  <2>. HIDE DEF V
  <2>5. V = F
    BY <2>1, <2>3, <2>4, ClosedIsAll
  <2>. QED  BY <2>5 DEF V
<1>. QED  BY <1>2, <1>5, <1>7, <1>8, <1>9 DEF w, k

-----------------------------------------------------------------------------
(* The blocks in the heap: F free, U in use.                               *)

Blocks(F, U) == (F \ {Base}) \cup U

Lays(m, F, U) ==
    /\ m \in Memories /\ Ring(m, F) /\ SizeOf(m, Base) = 0
    /\ U \subseteq 1..Units /\ U \cap F = {}
    /\ \A b \in Blocks(F, U) : 1 <= SizeOf(m, b) /\ EndOf(m, b) <= Units + 1
    /\ \A b, c \in Blocks(F, U) : b < c => EndOf(m, b) <= c

Tiles(m, F, U) ==
    /\ Lays(m, F, U)
    /\ \A b, c \in F \ {Base} : EndOf(m, b) # c

(* Every unit is in some block. *)
Covers(m, F, U) ==
    \A u \in 1..Units : \E b \in Blocks(F, U) : b <= u /\ u < EndOf(m, b)

LEMMA LaysTyped ==
    ASSUME NEW m, NEW F, NEW U, Lays(m, F, U)
    PROVE  /\ Units \in Nat /\ Base = 0 /\ Base \in F /\ Base \notin U
           /\ \A x \in F \cup U : x \in 0..Units /\ x \in Addr /\ SizeOf(m, x) \in Nat
           /\ \A x \in Blocks(F, U) : x # Base /\ x \in F \cup U
           /\ \A x \in F : Succ(F, x, NextOf(m, x)) /\ NextOf(m, x) \in F
           /\ Freep(m) \in F
<1>1. Units \in Nat /\ Base = 0 /\ Base \in F /\ Base \notin U
  BY AddrFacts DEF Tiles, Lays, Ring
<1>2. \A x \in F \cup U : x \in 0..Units /\ x \in Addr
  BY AddrFacts DEF Tiles, Lays, Ring
<1>3. \A x \in Addr : SizeOf(m, x) \in Nat
  BY AddrFacts DEF Tiles, Lays, Memories, SizeOf
<1>. QED  BY <1>1, <1>2, <1>3 DEF Tiles, Lays, Ring, Blocks, Succ

(* Only the headers of blocks matter. *)
LEMMA TilesFrame ==
    ASSUME NEW m, NEW F, NEW U, Tiles(m, F, U), NEW r \in Memories,
           Freep(r) = Freep(m), \A x \in F : NextOf(r, x) = NextOf(m, x),
           \A x \in F \cup U : SizeOf(r, x) = SizeOf(m, x)
    PROVE  /\ Tiles(r, F, U)
           /\ Covers(m, F, U) => Covers(r, F, U)
<1>1. \A x \in Blocks(F, U) : EndOf(r, x) = EndOf(m, x) /\ SizeOf(r, x) = SizeOf(m, x)
  BY DEF Blocks, EndOf
<1>2. Base \in F /\ \A x \in F \ {Base} : x \in Blocks(F, U)
  BY DEF Tiles, Lays, Ring, Blocks
<1>3. Ring(r, F)
  BY DEF Tiles, Lays, Ring
<1>4. Tiles(r, F, U)
  BY <1>1, <1>2, <1>3 DEF Tiles, Lays
<1>. QED  BY <1>1, <1>4 DEF Covers

LEMMA BlocksTyped ==
    ASSUME NEW m, NEW F, NEW U, Lays(m, F, U)
    PROVE  /\ Units \in Nat
           /\ \A x \in Blocks(F, U) :
                 /\ x \in 1..Units /\ SizeOf(m, x) \in 1..Units
                 /\ EndOf(m, x) = x + SizeOf(m, x) /\ EndOf(m, x) \in 2..Units + 1
           /\ \A x, y \in Blocks(F, U) : x < y => EndOf(m, x) <= y
           /\ \A x \in F \ {Base} : x \in Blocks(F, U)
<1>1. Units \in Nat /\ \A x \in Blocks(F, U) : x \in 0..Units /\ x # 0 /\ SizeOf(m, x) \in Nat
  BY LaysTyped
<1>2. \A x \in Blocks(F, U) : 1 <= SizeOf(m, x) /\ EndOf(m, x) <= Units + 1
  BY DEF Tiles, Lays
<1>3. \A x \in Blocks(F, U) : EndOf(m, x) = x + SizeOf(m, x)
  BY DEF EndOf
<1>4. \A x \in Blocks(F, U) : /\ x \in 1..Units /\ SizeOf(m, x) \in 1..Units
                              /\ EndOf(m, x) \in 2..Units + 1
  BY ONLY <1>1, <1>2, <1>3
<1>. QED  BY <1>1, <1>3, <1>4 DEF Tiles, Lays, Blocks

(* A block gives up its end; or it has done so, and nobody got it.         *)
LEMMA TilesCut ==
    ASSUME NEW m, NEW F, NEW U, Tiles(m, F, U), NEW b \in F, NEW n \in Nat \ {0},
           SizeOf(m, b) > n + 1, NEW r \in Memories, Freep(r) \in F,
           \A x \in F : NextOf(r, x) = NextOf(m, x),
           SizeOf(r, b) = SizeOf(m, b) - n,
           \A x \in (F \cup U) \ {b} : SizeOf(r, x) = SizeOf(m, x)
    PROVE  Tiles(r, F, U) /\ b \in Blocks(F, U)
<1>. DEFINE B == Blocks(F, U)
<1>1. b \in B /\ b # Base
  BY DEF Tiles, Lays, Blocks
<1>2. /\ Units \in Nat
      /\ \A x \in B : /\ x \in 1..Units /\ SizeOf(m, x) \in 1..Units
                      /\ EndOf(m, x) = x + SizeOf(m, x) /\ EndOf(m, x) \in 2..Units + 1
  BY BlocksTyped DEF Tiles
<1>3. \A x, y \in B : x < y => EndOf(m, x) <= y
  BY BlocksTyped DEF Tiles
<1>4. /\ \A x \in F \ {Base} : x \in B
      /\ \A x, y \in F \ {Base} : EndOf(m, x) # y
  BY BlocksTyped DEF Tiles
<1>. HIDE DEF B
<1>5. /\ \A x \in B \ {b} : SizeOf(r, x) = SizeOf(m, x) /\ EndOf(r, x) = EndOf(m, x)
      /\ EndOf(r, b) = EndOf(m, b) - n
  <2>1. \A x \in B \ {b} : SizeOf(r, x) = SizeOf(m, x)
    BY DEF B, Blocks
  <2>2. \A x \in B : EndOf(r, x) = x + SizeOf(r, x)
    BY DEF EndOf
  <2>. QED  BY <1>1, <1>2, <2>1, <2>2
<1>6. \A x \in B : 1 <= SizeOf(r, x) /\ EndOf(r, x) <= EndOf(m, x) /\ EndOf(r, x) \in Int
  BY <1>1, <1>2, <1>5
<1>7. Ring(r, F)
  BY DEF Tiles, Lays, Ring
<1>8. SizeOf(r, Base) = 0 /\ U \subseteq 1..Units /\ U \cap F = {}
  BY <1>1, LaysTyped DEF Tiles, Lays
<1>9. \A x \in B : EndOf(r, x) <= Units + 1
  BY <1>2, <1>6
<1>10. \A x, y \in B : x < y => EndOf(r, x) <= y
  <2>. SUFFICES ASSUME NEW x \in B, NEW y \in B, x < y PROVE EndOf(r, x) <= y
    OBVIOUS
  <2>. QED  BY ONLY <1>2, <1>3, <1>6, x < y, x \in B, y \in B
<1>11. \A x, y \in F \ {Base} : EndOf(r, x) # y
  <2>. SUFFICES ASSUME NEW x \in F \ {Base}, NEW y \in F \ {Base}, EndOf(r, x) = y
                PROVE  FALSE
    OBVIOUS
  <2>1. x = b
    BY <1>4, <1>5
  <2>2. b < y
    <3>1. EndOf(r, b) = b + SizeOf(r, b) /\ 1 <= SizeOf(r, b) /\ SizeOf(r, b) \in Int
      BY <1>1, <1>2, <1>6 DEF EndOf
    <3>. QED  BY <1>1, <1>2, <2>1, <3>1
  <2>3. EndOf(m, b) <= y
    BY <1>1, <1>3, <1>4, <2>2
  <2>. QED  BY <1>1, <1>2, <1>5, <2>1, <2>3
<1>. QED  BY <1>1, <1>6, <1>7, <1>8, <1>9, <1>10, <1>11 DEF Tiles, Lays, B

(* What was cut off becomes a block of its own.                            *)
LEMMA TilesSplit ==
    ASSUME NEW m, NEW F, NEW U, Tiles(m, F, U), NEW b \in F, NEW n \in Nat \ {0},
           SizeOf(m, b) > n + 1, NEW r \in Memories, Freep(r) \in F,
           \A x \in F : NextOf(r, x) = NextOf(m, x),
           SizeOf(r, b) = SizeOf(m, b) - n, NEW k, k = b + SizeOf(r, b),
           SizeOf(r, k) = n,
           \A x \in (F \cup U) \ {b} : SizeOf(r, x) = SizeOf(m, x)
    PROVE  /\ Tiles(r, F, U \cup {k}) /\ k \in 1..Units /\ k \notin F \cup U
           /\ Covers(m, F, U) => Covers(r, F, U \cup {k})
<1>. DEFINE B == Blocks(F, U)
            C == Blocks(F, U \cup {k})
<1>1. Tiles(r, F, U) /\ b \in B
  BY TilesCut
<1>2. /\ Units \in Nat
      /\ \A x \in B : /\ x \in 1..Units /\ SizeOf(m, x) \in 1..Units
                      /\ EndOf(m, x) = x + SizeOf(m, x) /\ EndOf(m, x) \in 2..Units + 1
  BY BlocksTyped DEF Tiles
<1>3. \A x, y \in B : x < y => EndOf(m, x) <= y
  BY BlocksTyped DEF Tiles
<1>4. /\ \A x \in B : EndOf(r, x) \in 2..Units + 1 /\ EndOf(r, x) = x + SizeOf(r, x)
      /\ \A x, y \in B : x < y => EndOf(r, x) <= y
  BY <1>1, BlocksTyped DEF Tiles
<1>. HIDE DEF B
<1>5. k \in 1..Units /\ b < k /\ k + n = EndOf(m, b) /\ k \in Int /\ EndOf(r, b) = k
  BY <1>1, <1>2, <1>4
<1>6. \A x \in B : x # k /\ (x < k => EndOf(r, x) <= k) /\ (k < x => k + n <= x)
  <2>. SUFFICES ASSUME NEW x \in B
                PROVE  x # k /\ (x < k => EndOf(r, x) <= k) /\ (k < x => k + n <= x)
    OBVIOUS
  <2>1. CASE x = b
    BY <1>2, <1>5, <2>1
  <2>2. CASE x < b
    <3>1. EndOf(r, x) <= b
      BY <1>1, <1>4, <2>2
    <3>. QED  BY <1>1, <1>2, <1>4, <1>5, <2>2, <3>1
  <2>3. CASE x > b
    <3>1. EndOf(m, b) <= x
      BY <1>1, <1>2, <1>3, <2>3
    <3>. QED  BY <1>1, <1>2, <1>5, <2>3, <3>1
  <2>. QED  BY <1>1, <1>2, <2>1, <2>2, <2>3
<1>7. k \notin F \cup U /\ C = B \cup {k} /\ k # Base
  <2>1. k # Base
    BY <1>5 DEF Base
  <2>. QED  BY <1>6, <2>1 DEF B, Blocks
<1>8. EndOf(r, k) = k + n
  BY DEF EndOf
<1>. HIDE DEF C
<1>9. \A x \in C : 1 <= SizeOf(r, x) /\ EndOf(r, x) <= Units + 1
  <2>1. \A x \in B : 1 <= SizeOf(r, x) /\ EndOf(r, x) <= Units + 1
    BY <1>1 DEF Tiles, Lays, B
  <2>. QED  BY <1>1, <1>2, <1>5, <1>7, <1>8, <2>1
<1>10. \A x, y \in C : x < y => EndOf(r, x) <= y
  <2>. SUFFICES ASSUME NEW x \in C, NEW y \in C, x < y PROVE EndOf(r, x) <= y
    OBVIOUS
  <2>1. CASE x \in B /\ y \in B
    BY <1>4, <2>1
  <2>2. CASE x = k \/ y = k
    BY <1>5, <1>6, <1>7, <1>8, <2>2
  <2>. QED  BY <1>7, <2>1, <2>2
<1>11. Tiles(r, F, U \cup {k})
  BY <1>1, <1>5, <1>7, <1>9, <1>10, ZenonT(60) DEF Tiles, Lays, C
<1>12. ASSUME Covers(m, F, U)
       PROVE  Covers(r, F, U \cup {k})
  <2>. SUFFICES ASSUME NEW u \in 1..Units
                PROVE  \E x \in C : x <= u /\ u < EndOf(r, x)
    BY DEF Covers, C
  <2>1. PICK x \in B : x <= u /\ u < EndOf(m, x)
    BY <1>12 DEF Covers, B
  <2>2. x # b => EndOf(r, x) = EndOf(m, x)
    <3>1. x # b => SizeOf(r, x) = SizeOf(m, x)
      BY DEF B, Blocks
    <3>. QED  BY <3>1 DEF EndOf
  <2>. QED  BY <1>1, <1>2, <1>5, <1>7, <1>8, <2>1, <2>2
<1>. QED  BY <1>5, <1>7, <1>11, <1>12

(* Taking a block out of the ring, and putting one in.                     *)
LEMMA SuccWithout ==
    ASSUME NEW F \in SUBSET Nat, Base \in F, NEW b \in F \ {Base}, NEW pre \in F,
           Succ(F, pre, b), NEW c, Succ(F, b, c)
    PROVE  /\ pre # b /\ c # b /\ Succ(F \ {b}, pre, c)
           /\ \A x \in F \ {pre} : \A y : Succ(F, x, y) => Succ(F \ {b}, x, y)
<1>1. pre # b /\ pre < b
  BY DEF Succ, Base
<1>2. c # b
  BY DEF Succ, Base
<1>3. Succ(F \ {b}, pre, c)
  <2>1. c \in F \ {b} /\ pre \in Nat /\ b \in Nat /\ c \in Nat
    BY <1>2 DEF Succ
  <2>2. \A x \in F : x <= pre \/ b <= x
    BY <1>1 DEF Succ, Base
  <2>3. CASE b < c /\ \A x \in F : x <= b \/ c <= x
    BY <1>1, <2>1, <2>2, <2>3 DEF Succ
  <2>4. CASE c = Base /\ \A x \in F : x <= b
    BY <1>1, <2>1, <2>2, <2>4 DEF Succ
  <2>. QED  BY <2>3, <2>4 DEF Succ
<1>4. ASSUME NEW x \in F \ {pre}, NEW y, Succ(F, x, y)
      PROVE  Succ(F \ {b}, x, y)
  <2>1. y # b
    <3>. SUFFICES ASSUME y = b PROVE FALSE
      OBVIOUS
    <3>. QED  BY <1>1, <1>4 DEF Succ, Base
  <2>. QED  BY <1>4, <2>1 DEF Succ
<1>. QED  BY <1>1, <1>2, <1>3, <1>4

LEMMA SuccWith ==
    ASSUME NEW F \in SUBSET Nat, Base \in F, NEW b \in Nat \ F, NEW pre \in F,
           NEW c, Succ(F, pre, c), Between(pre, b, c)
    PROVE  /\ Succ(F \cup {b}, pre, b) /\ Succ(F \cup {b}, b, c)
           /\ \A x \in F \ {pre} : \A y : Succ(F, x, y) => Succ(F \cup {b}, x, y)
<1>1. pre \in Nat /\ c \in Nat /\ c \in F /\ pre < b /\ Base = 0 /\ b # c
  BY DEF Succ, Between, Base
<1>2. \A x \in F : x <= pre \/ b <= x
  BY <1>1 DEF Succ, Between
<1>3. Succ(F \cup {b}, pre, b)
  BY <1>1, <1>2 DEF Succ
<1>4. Succ(F \cup {b}, b, c)
  <2>1. CASE pre < c /\ \A x \in F : x <= pre \/ c <= x
    BY <1>1, <2>1 DEF Succ, Between
  <2>2. CASE c = Base /\ \A x \in F : x <= pre
    BY <1>1, <2>2 DEF Succ, Between
  <2>. QED  BY <2>1, <2>2 DEF Succ
<1>5. ASSUME NEW x \in F \ {pre}, NEW y, Succ(F, x, y)
      PROVE  Succ(F \cup {b}, x, y)
  <2>1. x \in Nat /\ y \in Nat /\ y \in F /\ x # pre
    BY <1>5 DEF Succ
  <2>2. CASE x < y /\ \A z \in F : z <= x \/ y <= z
    <3>1. pre <= x \/ y <= pre
      BY <2>2
    <3>2. b <= x \/ y <= b
      <4>1. CASE y <= pre
        BY <1>1, <2>1, <4>1
      <4>2. CASE pre <= x
        BY <1>1, <1>2, <2>1, <4>2
      <4>. QED  BY <3>1, <4>1, <4>2
    <3>. QED  BY <2>1, <2>2, <3>2 DEF Succ
  <2>3. CASE y = Base /\ \A z \in F : z <= x
    <3>1. b <= x
      BY <1>1, <1>2, <2>1, <2>3
    <3>. QED  BY <2>1, <2>3, <3>1 DEF Succ
  <2>. QED  BY <1>5, <2>2, <2>3 DEF Succ
<1>. QED  BY <1>3, <1>4, <1>5

(* A block leaves the free list.                                           *)
LEMMA TilesUnlinked ==
    ASSUME NEW m, NEW F, NEW U, Tiles(m, F, U), NEW b \in F \ {Base}, NEW pre \in F,
           NextOf(m, pre) = b, NEW r \in Memories, Freep(r) \in F \ {b},
           NextOf(r, pre) = NextOf(m, b),
           \A x \in F \ {pre, b} : NextOf(r, x) = NextOf(m, x),
           \A x \in F \cup U : SizeOf(r, x) = SizeOf(m, x)
    PROVE  /\ Tiles(r, F \ {b}, U) /\ Tiles(r, F \ {b}, U \cup {b})
           /\ Covers(m, F, U) => Covers(r, F \ {b}, U \cup {b})
<1>. DEFINE G == F \ {b}
<1>0. F \in SUBSET Addr /\ F \in SUBSET Nat /\ Base \in F /\ Base \in G
  BY AddrFacts DEF Tiles, Lays, Ring
<1>1. \A x \in F : Succ(F, x, NextOf(m, x))
  BY DEF Tiles, Lays, Ring
<1>2. /\ pre # b /\ Succ(G, pre, NextOf(m, b))
      /\ \A x \in F \ {pre} : \A y : Succ(F, x, y) => Succ(G, x, y)
  <2>1. Succ(F, pre, b) /\ Succ(F, b, NextOf(m, b))
    BY <1>1
  <2>. QED  BY <1>0, <2>1, SuccWithout
<1>3. Ring(r, G)
  <2>1. \A x \in G : Succ(G, x, NextOf(r, x))
    BY <1>1, <1>2
  <2>. QED  BY <1>0, <2>1 DEF Ring
<1>4. /\ Blocks(G, U \cup {b}) = Blocks(F, U) /\ Blocks(G, U) \subseteq Blocks(F, U)
      /\ \A x \in Blocks(F, U) : SizeOf(r, x) = SizeOf(m, x) /\ EndOf(r, x) = EndOf(m, x)
  BY DEF Blocks, EndOf
<1>5. b \in 1..Units /\ U \subseteq 1..Units /\ U \cap F = {}
  <2>1. b \in Blocks(F, U)
    BY DEF Blocks
  <2>. QED  BY <2>1, BlocksTyped, ZenonT(60) DEF Tiles, Lays
<1>6. SizeOf(r, Base) = 0 /\ \A x \in F : SizeOf(r, x) = SizeOf(m, x) /\ EndOf(r, x) = EndOf(m, x)
  BY <1>0 DEF Tiles, Lays, EndOf
<1>. HIDE DEF G
<1>7. Lays(r, G, U) /\ Lays(r, G, U \cup {b})
  <2>1. G \subseteq F /\ b \notin G
    BY DEF G
  <2>. QED  BY <1>3, <1>4, <1>5, <1>6, <2>1, SMTT(40) DEF Tiles, Lays
<1>8. \A x, y \in G \ {Base} : EndOf(r, x) # y
  BY <1>6 DEF Tiles, G
<1>9. ASSUME Covers(m, F, U)
      PROVE  Covers(r, G, U \cup {b})
  BY <1>4, <1>9 DEF Covers
<1>. QED  BY <1>7, <1>8, <1>9 DEF Tiles, G

(* A block that was in use is linked in; it may touch its neighbours.      *)
LEMMA LaysInserted ==
    ASSUME NEW m, NEW F, NEW U, Tiles(m, F, U), NEW b \in U, NEW pre \in F,
           NEW nxt, nxt = NextOf(m, pre), Between(pre, b, nxt),
           NEW r \in Memories, Freep(r) \in F, NextOf(r, pre) = b, NextOf(r, b) = nxt,
           \A x \in F \ {pre} : NextOf(r, x) = NextOf(m, x),
           \A x \in F \cup U : SizeOf(r, x) = SizeOf(m, x)
    PROVE  /\ Lays(r, F \cup {b}, U \ {b})
           /\ Covers(m, F, U) => Covers(r, F \cup {b}, U \ {b})
           /\ \A x \in F \cup U : EndOf(r, x) = EndOf(m, x)
           /\ \A x, y \in (F \cup {b}) \ {Base} :
                 EndOf(r, x) = y => (x = pre /\ y = b) \/ (x = b /\ y = nxt)
<1>. DEFINE G == F \cup {b}
            B == Blocks(F, U)
<1>0. /\ F \in SUBSET Addr /\ F \in SUBSET Nat /\ Base \in F /\ b \in Addr
      /\ b \in Nat \ F /\ b # Base /\ U \subseteq 1..Units /\ U \cap F = {}
  BY AddrFacts DEF Tiles, Lays, Ring
<1>1. \A x \in F : Succ(F, x, NextOf(m, x))
  BY DEF Tiles, Lays, Ring
<1>2. /\ Succ(G, pre, b) /\ Succ(G, b, nxt)
      /\ \A x \in F \ {pre} : \A y : Succ(F, x, y) => Succ(G, x, y)
  <2>1. Succ(F, pre, nxt)
    BY <1>1
  <2>. QED  BY <1>0, <2>1, SuccWith
<1>3. Ring(r, G)
  <2>1. \A x \in G : Succ(G, x, NextOf(r, x))
    BY <1>1, <1>2
  <2>. QED  BY <1>0, <2>1 DEF Ring
<1>4. Blocks(G, U \ {b}) = B /\ \A x \in F \cup U : EndOf(r, x) = EndOf(m, x)
  BY <1>0 DEF Blocks, EndOf
<1>5. \A x \in B : SizeOf(r, x) = SizeOf(m, x) /\ EndOf(r, x) = EndOf(m, x)
  BY DEF Blocks, EndOf
<1>6. Lays(r, G, U \ {b})
  <2>1. SizeOf(r, Base) = 0
    BY <1>0 DEF Tiles, Lays
  <2>2. (U \ {b}) \cap G = {}
    BY <1>0
  <2>. HIDE DEF G, B
  <2>3. /\ \A x \in B : 1 <= SizeOf(r, x) /\ EndOf(r, x) <= Units + 1
        /\ \A x, y \in B : x < y => EndOf(r, x) <= y
    BY <1>5 DEF Tiles, Lays, B
  <2>. QED  BY <1>0, <1>3, <1>4, <2>1, <2>2, <2>3 DEF Lays
<1>7. ASSUME Covers(m, F, U)
      PROVE  Covers(r, G, U \ {b})
  <2>. HIDE DEF G
  <2>. QED  BY <1>4, <1>5, <1>7 DEF Covers
<1>8. ASSUME NEW x \in G \ {Base}, NEW y \in G \ {Base}, EndOf(r, x) = y
      PROVE  (x = pre /\ y = b) \/ (x = b /\ y = nxt)
  <2>1. x \in B /\ y \in B /\ b \in B /\ EndOf(m, x) = y
    BY <1>4, <1>8 DEF Blocks
  <2>2. /\ \A z \in B : z \in Nat /\ z < EndOf(m, z)
        /\ \A z, v \in B : z < v => EndOf(m, z) <= v
    <3>1. Lays(m, F, U) /\ Units \in Nat
      BY AddrFacts DEF Tiles
    <3>2. \A z \in B : /\ z \in 1..Units /\ SizeOf(m, z) \in 1..Units
                       /\ EndOf(m, z) = z + SizeOf(m, z)
      BY <3>1, BlocksTyped
    <3>3. \A z, v \in B : z < v => EndOf(m, z) <= v
      BY <3>1, BlocksTyped
    <3>. QED  BY ONLY <3>1, <3>2, <3>3
  <2>3. pre \in Nat /\ nxt \in Nat /\ nxt \in F /\ pre < b /\ b \in Nat
    BY <1>0, <1>1 DEF Succ, Between
  <2>4. \A z \in F : z <= pre \/ (b < nxt /\ nxt <= z)
    BY <1>1, <1>0, <2>3 DEF Succ, Between
  <2>5. \A z \in F \ {Base} : z \in B
    BY DEF Blocks
  <2>. HIDE DEF B
  <2>6. ~(x \in F /\ y \in F)
    BY <1>8, <2>1 DEF Tiles
  <2>7. CASE y = b /\ x \in F
    <3>1. x \in Nat /\ x < b
      BY <2>1, <2>2, <2>7
    <3>2. x <= pre
      BY <2>3, <2>4, <2>7, <3>1
    <3>3. CASE x < pre
      <4>1. pre # Base /\ pre \in B
        BY <2>3, <2>5, <3>1, <3>3 DEF Base
      <4>2. EndOf(m, x) <= pre
        BY <2>1, <2>2, <3>3, <4>1
      <4>. QED  BY <2>1, <2>3, <2>7, <4>2
    <3>. QED  BY <2>3, <2>7, <3>1, <3>2, <3>3
  <2>8. CASE x = b /\ y \in F
    <3>1. y \in Nat /\ b < y
      BY <2>1, <2>2, <2>8
    <3>2. b < nxt /\ nxt <= y
      BY <2>3, <2>4, <2>8, <3>1
    <3>3. nxt \in B
      BY <2>3, <2>5, <3>2 DEF Base
    <3>4. y <= nxt
      BY <2>1, <2>2, <2>8, <3>2, <3>3
    <3>. QED  BY <2>3, <2>8, <3>1, <3>2, <3>4
  <2>9. CASE x = b /\ y = b
    BY <2>1, <2>2, <2>9
  <2>. QED  BY <1>8, <2>6, <2>7, <2>8, <2>9
<1>. QED  BY <1>4, <1>6, <1>7, <1>8

(* Two free blocks that touch become one.                                  *)
LEMMA LaysMerged ==
    ASSUME NEW m, NEW F, NEW U, Lays(m, F, U), NEW x \in F \ {Base}, NEW y \in F \ {Base},
           EndOf(m, x) = y, NEW r \in Memories, Freep(r) \in F \ {y},
           NextOf(r, x) = NextOf(m, y), SizeOf(r, x) = SizeOf(m, x) + SizeOf(m, y),
           \A z \in F \ {x, y} : NextOf(r, z) = NextOf(m, z),
           \A z \in (F \cup U) \ {x, y} : SizeOf(r, z) = SizeOf(m, z)
    PROVE  /\ Lays(r, F \ {y}, U) /\ x # y
           /\ Covers(m, F, U) => Covers(r, F \ {y}, U)
           /\ EndOf(r, x) = EndOf(m, y)
           /\ \A z \in (F \cup U) \ {x, y} : EndOf(r, z) = EndOf(m, z)
<1>. DEFINE G == F \ {y}
            B == Blocks(F, U)
            C == Blocks(G, U)
<1>0. /\ F \in SUBSET Addr /\ F \in SUBSET Nat /\ Base \in F /\ Base \in G
      /\ U \subseteq 1..Units /\ U \cap F = {}
  BY AddrFacts DEF Lays, Ring
<1>1. \A z \in F : Succ(F, z, NextOf(m, z))
  BY DEF Lays, Ring
<1>2. /\ Units \in Nat
      /\ \A z \in B : /\ z \in 1..Units /\ SizeOf(m, z) \in 1..Units
                      /\ EndOf(m, z) = z + SizeOf(m, z) /\ EndOf(m, z) \in 2..Units + 1
  BY BlocksTyped
<1>3. \A z, v \in B : z < v => EndOf(m, z) <= v
  BY BlocksTyped
<1>4. x \in B /\ y \in B /\ C = B \ {y}
  BY <1>0 DEF Blocks
<1>5. x < y /\ x # y
  BY <1>2, <1>4
<1>6. NextOf(m, x) = y
  <2>. DEFINE n == NextOf(m, x)
  <2>1. Succ(F, x, n) /\ n \in F /\ n \in Nat /\ x \in Nat /\ y \in Nat
    BY <1>0, <1>1 DEF Succ
  <2>2. x < n /\ n <= y
    BY <1>5, <2>1 DEF Succ
  <2>3. n \in B
    BY <2>1, <2>2 DEF Blocks, Base
  <2>4. y <= n
    BY <1>3, <1>4, <2>2, <2>3
  <2>. QED  BY <2>1, <2>2, <2>4
<1>7. Ring(r, G)
  <2>1. Succ(F, x, y) /\ Succ(F, y, NextOf(m, y))
    BY <1>1, <1>6
  <2>2. /\ Succ(G, x, NextOf(m, y))
        /\ \A z \in F \ {x} : \A v : Succ(F, z, v) => Succ(G, z, v)
    BY <1>0, <2>1, SuccWithout
  <2>3. \A z \in G : Succ(G, z, NextOf(r, z))
    BY <1>1, <2>2
  <2>. QED  BY <1>0, <2>3 DEF Ring
<1>8. \A z \in (F \cup U) \ {x, y} : EndOf(r, z) = EndOf(m, z) /\ SizeOf(r, z) = SizeOf(m, z)
  BY DEF EndOf
<1>9. EndOf(r, x) = EndOf(m, y) /\ 1 <= SizeOf(r, x)
  <2>1. EndOf(r, x) = x + (SizeOf(m, x) + SizeOf(m, y)) /\ y = x + SizeOf(m, x)
    BY <1>2, <1>4 DEF EndOf
  <2>. QED  BY <1>2, <1>4, <2>1
<1>10. \A z \in B \ {x, y} : EndOf(r, z) = EndOf(m, z) /\ SizeOf(r, z) = SizeOf(m, z)
  BY <1>8 DEF Blocks
<1>11. SizeOf(r, Base) = 0
  <2>1. Base \in (F \cup U) \ {x, y}
    BY <1>0
  <2>. QED  BY <2>1 DEF Lays
<1>. HIDE DEF B, C, G
<1>12. \A z \in C : 1 <= SizeOf(r, z) /\ EndOf(r, z) <= Units + 1
  BY <1>2, <1>4, <1>9, <1>10
<1>13. \A z, v \in C : z < v => EndOf(r, z) <= v
  <2>. SUFFICES ASSUME NEW z \in C, NEW v \in C, z < v PROVE EndOf(r, z) <= v
    OBVIOUS
  <2>1. z \in B /\ v \in B /\ z # y /\ v # y
    BY <1>4
  <2>2. CASE z = x
    <3>1. y <= v
      BY <1>3, <2>1, <2>2
    <3>2. y < v
      BY <1>2, <1>4, <2>1, <3>1
    <3>. QED  BY <1>3, <1>4, <1>9, <2>1, <2>2, <3>2
  <2>3. CASE z # x
    BY <1>3, <1>10, <2>1, <2>3
  <2>. QED  BY <2>2, <2>3
<1>14. Lays(r, G, U)
  BY <1>0, <1>7, <1>11, <1>12, <1>13 DEF Lays, C, G
<1>15. ASSUME Covers(m, F, U)
       PROVE  Covers(r, G, U)
  <2>. SUFFICES ASSUME NEW u \in 1..Units
                PROVE  \E z \in C : z <= u /\ u < EndOf(r, z)
    BY DEF Covers, C
  <2>1. PICK z \in B : z <= u /\ u < EndOf(m, z)
    BY <1>15 DEF Covers, B
  <2>2. CASE z = x \/ z = y
    <3>1. x <= u /\ u < EndOf(m, y)
      BY <1>2, <1>4, <1>5, <2>1, <2>2
    <3>2. x \in C
      BY <1>4, <1>5
    <3>. QED  BY <1>9, <3>1, <3>2
  <2>3. CASE z # x /\ z # y
    BY <1>4, <1>10, <2>1, <2>3
  <2>. QED  BY <2>2, <2>3
<1>. QED  BY <1>5, <1>8, <1>9, <1>14, <1>15 DEF G

(* deallocate in three steps: link b in after pre, then merge it with the  *)
(* block after it, then the block before it with it.                       *)
Linked(m, pre, b) ==
    [next |-> [m.next EXCEPT ![b] = NextOf(m, pre), ![pre] = b],
     size |-> m.size, freep |-> [x \in {Base} |-> pre]]
Merged(m, x, y) ==
    [next |-> [m.next EXCEPT ![x] = NextOf(m, y)],
     size |-> [m.size EXCEPT ![x] = SizeOf(m, x) + SizeOf(m, y)],
     freep |-> m.freep]

JoinsNxt(m, pre, b) == EndOf(m, b) = NextOf(m, pre)
JoinsPre(m, pre, b) == EndOf(m, pre) = b
WithNxt(m, pre, b) ==
    IF JoinsNxt(m, pre, b) THEN Merged(Linked(m, pre, b), b, NextOf(m, pre))
    ELSE Linked(m, pre, b)
Returned(m, pre, b) ==
    IF JoinsPre(m, pre, b) THEN Merged(WithNxt(m, pre, b), pre, b) ELSE WithNxt(m, pre, b)
RingWithNxt(m, F, pre, b) ==
    IF JoinsNxt(m, pre, b) THEN (F \cup {b}) \ {NextOf(m, pre)} ELSE F \cup {b}
RingReturned(m, F, pre, b) ==
    IF JoinsPre(m, pre, b) THEN RingWithNxt(m, F, pre, b) \ {b} ELSE RingWithNxt(m, F, pre, b)

LEMMA LinkedCells ==
    ASSUME NEW m \in Memories, NEW pre \in Addr, NEW b \in Addr, pre # b
    PROVE  /\ Linked(m, pre, b) \in Memories /\ Freep(Linked(m, pre, b)) = pre
           /\ NextOf(Linked(m, pre, b), pre) = b
           /\ NextOf(Linked(m, pre, b), b) = NextOf(m, pre)
           /\ \A x \in Addr \ {pre, b} : NextOf(Linked(m, pre, b), x) = NextOf(m, x)
           /\ \A x \in Addr : SizeOf(Linked(m, pre, b), x) = SizeOf(m, x)
BY DEF Linked, Memories, NextOf, SizeOf, Freep

LEMMA MergedCells ==
    ASSUME NEW m \in Memories, NEW x \in Addr, NEW y \in Addr, x # y,
           SizeOf(m, x) + SizeOf(m, y) <= Units
    PROVE  /\ Merged(m, x, y) \in Memories /\ Freep(Merged(m, x, y)) = Freep(m)
           /\ NextOf(Merged(m, x, y), x) = NextOf(m, y)
           /\ SizeOf(Merged(m, x, y), x) = SizeOf(m, x) + SizeOf(m, y)
           /\ \A z \in Addr \ {x} : /\ NextOf(Merged(m, x, y), z) = NextOf(m, z)
                                    /\ SizeOf(Merged(m, x, y), z) = SizeOf(m, z)
<1>1. SizeOf(m, x) + SizeOf(m, y) \in 0..Units
  <2>1. SizeOf(m, x) \in 0..Units /\ SizeOf(m, y) \in 0..Units
    BY DEF Memories, SizeOf
  <2>. QED  BY <2>1, AddrFacts
<1>2. NextOf(m, y) \in Addr \cup {Null}
  BY DEF Memories, NextOf
<1>3. m.next \in [Addr -> Addr \cup {Null}] /\ m.size \in [Addr -> 0..Units] /\ m.freep \in [{Base} -> Addr]
  BY DEF Memories
<1>. DEFINE v == SizeOf(m, x) + SizeOf(m, y)
<1>. HIDE DEF v
<1>4. [m.size EXCEPT ![x] = v] \in [Addr -> 0..Units] /\ [m.next EXCEPT ![x] = NextOf(m, y)] \in [Addr -> Addr \cup {Null}]
  BY <1>1, <1>2, <1>3 DEF v
<1>. QED  BY <1>3, <1>4 DEF Merged, Memories, NextOf, SizeOf, Freep, v

(* Blocks that touch have room for one another.                            *)
LEMMA TouchingFit ==
    ASSUME NEW m, NEW F, NEW U, Lays(m, F, U), NEW x \in F \ {Base}, NEW y \in F \ {Base},
           EndOf(m, x) = y
    PROVE  x # y /\ SizeOf(m, x) + SizeOf(m, y) <= Units
<1>1. x \in Blocks(F, U) /\ y \in Blocks(F, U)
  BY DEF Blocks
<1>2. /\ Units \in Nat
      /\ \A z \in Blocks(F, U) : /\ z \in 1..Units /\ SizeOf(m, z) \in 1..Units
                                 /\ EndOf(m, z) = z + SizeOf(m, z) /\ EndOf(m, z) \in 2..Units + 1
  BY BlocksTyped
<1>. QED  BY <1>1, <1>2

LEMMA TilesReturned ==
    ASSUME NEW m, NEW F, NEW U, Tiles(m, F, U), NEW b \in U, NEW pre \in F,
           Between(pre, b, NextOf(m, pre))
    PROVE  /\ Tiles(Returned(m, pre, b), RingReturned(m, F, pre, b), U \ {b})
           /\ Covers(m, F, U) =>
                 Covers(Returned(m, pre, b), RingReturned(m, F, pre, b), U \ {b})
<1>n. PICK nxt : nxt = NextOf(m, pre)
  OBVIOUS
<1>. DEFINE one == Linked(m, pre, b)
            two == WithNxt(m, pre, b)
            three == Returned(m, pre, b)
            F1 == F \cup {b}
            F2 == RingWithNxt(m, F, pre, b)
            F3 == RingReturned(m, F, pre, b)
            V == U \ {b}
<1>1. /\ m \in Memories /\ F \subseteq Addr /\ U \subseteq Addr /\ b \in Addr /\ pre \in Addr
      /\ pre # b /\ b \notin F /\ b # Base /\ Base \in F /\ nxt \in F /\ b \in Nat /\ pre \in Nat
      /\ nxt \in Nat /\ pre # nxt /\ b # nxt /\ pre < b
  <2>1. Lays(m, F, U)
    BY DEF Tiles
  <2>2. /\ \A x \in F \cup U : x \in Addr /\ x \in 0..Units
        /\ \A x \in F : NextOf(m, x) \in F
        /\ Units \in Nat /\ Base \in F /\ Base \notin U
    BY <2>1, LaysTyped
  <2>3. m \in Memories /\ b \notin F /\ pre # b /\ b # Base
    BY <2>1, <2>2 DEF Lays
  <2>4. pre < b /\ (b < nxt \/ nxt < pre)
    BY <1>n DEF Between
  <2>5. pre \in Nat /\ b \in Nat /\ nxt \in Nat /\ nxt \in F
    BY <1>n, <2>2
  <2>6. pre # nxt
    BY ONLY <2>4, <2>5
  <2>. QED  BY <2>2, <2>3, <2>4, <2>5, <2>6
<1>2. /\ one \in Memories /\ Freep(one) = pre
      /\ NextOf(one, pre) = b /\ NextOf(one, b) = nxt
      /\ \A x \in Addr \ {pre, b} : NextOf(one, x) = NextOf(m, x)
      /\ \A x \in Addr : SizeOf(one, x) = SizeOf(m, x)
  BY <1>n, <1>1, LinkedCells
<1>. HIDE DEF one, two, three, F2, F3
<1>3. /\ Lays(one, F1, V)
      /\ Covers(m, F, U) => Covers(one, F1, V)
      /\ \A x \in F \cup U : EndOf(one, x) = EndOf(m, x)
      /\ \A x, y \in F1 \ {Base} :
            EndOf(one, x) = y => (x = pre /\ y = b) \/ (x = b /\ y = nxt)
  <2>1. /\ Freep(one) \in F /\ Between(pre, b, nxt)
        /\ \A x \in F \ {pre} : NextOf(one, x) = NextOf(m, x)
        /\ \A x \in F \cup U : SizeOf(one, x) = SizeOf(m, x)
    BY <1>n, <1>1, <1>2
  <2>. QED  BY <1>n, <1>2, <2>1, LaysInserted
<1>. HIDE DEF F1, V
<1>4. b \in F1 /\ pre \in F1 /\ nxt \in F1 /\ F1 \subseteq Addr /\ V \subseteq Addr
  BY <1>1 DEF F1, V
<1>5. /\ Lays(two, F2, V) /\ F2 \subseteq Addr
      /\ Covers(one, F1, V) => Covers(two, F2, V)
      /\ b \in F2 /\ pre \in F2
      /\ two \in Memories /\ Freep(two) = pre
      /\ EndOf(two, pre) = EndOf(m, pre)
      /\ \A x, y \in F2 \ {Base} : EndOf(two, x) = y => x = pre /\ y = b
  <2>1. CASE EndOf(m, b) # nxt
    <3>1. two = one /\ F2 = F1
      BY <1>n, <2>1 DEF two, F2, one, F1, WithNxt, RingWithNxt, JoinsNxt
    <3>2. EndOf(one, b) # nxt /\ EndOf(one, pre) = EndOf(m, pre)
      BY <1>3, <2>1
    <3>. QED  BY <1>2, <1>3, <1>4, <3>1, <3>2
  <2>2. CASE EndOf(m, b) = nxt
    <3>1. two = Merged(one, b, nxt) /\ F2 = F1 \ {nxt}
      BY <1>n, <2>2 DEF two, F2, one, F1, WithNxt, RingWithNxt, JoinsNxt
    <3>2. EndOf(one, b) = nxt
      BY <1>3, <2>2
    <3>3. nxt # Base /\ b \in F1 \ {Base} /\ nxt \in F1 \ {Base}
      <4>1. SizeOf(one, b) \in Nat /\ nxt = b + SizeOf(one, b)
        <5>1. SizeOf(one, b) \in 0..Units
          BY <1>2, <1>4 DEF Memories, SizeOf
        <5>2. nxt = b + SizeOf(one, b)
          BY <3>2 DEF EndOf
        <5>. QED  BY <5>1, <5>2, AddrFacts
      <4>. QED  BY <1>1, <1>4, <4>1, AddrFacts
    <3>4. SizeOf(one, b) + SizeOf(one, nxt) <= Units
      BY <1>3, <3>2, <3>3, TouchingFit
    <3>5. /\ two \in Memories /\ Freep(two) = pre
          /\ NextOf(two, b) = NextOf(one, nxt)
          /\ SizeOf(two, b) = SizeOf(one, b) + SizeOf(one, nxt)
          /\ \A z \in Addr \ {b} : /\ NextOf(two, z) = NextOf(one, z)
                                   /\ SizeOf(two, z) = SizeOf(one, z)
      BY <1>1, <1>2, <1>4, <3>1, <3>4, MergedCells
    <3>6. /\ Lays(two, F1 \ {nxt}, V)
          /\ Covers(one, F1, V) => Covers(two, F1 \ {nxt}, V)
          /\ EndOf(two, b) = EndOf(one, nxt)
          /\ \A z \in (F1 \cup V) \ {b, nxt} : EndOf(two, z) = EndOf(one, z)
      <4>1. /\ Freep(two) \in F1 \ {nxt}
            /\ \A z \in F1 \ {b, nxt} : NextOf(two, z) = NextOf(one, z)
            /\ \A z \in (F1 \cup V) \ {b, nxt} : SizeOf(two, z) = SizeOf(one, z)
        BY <1>1, <1>4, <3>5
      <4>. QED  BY <1>3, <3>2, <3>3, <3>5, <4>1, LaysMerged
    <3>7. EndOf(two, pre) = EndOf(m, pre)
      BY <1>1, <1>3, <1>4, <3>6
    <3>8. ASSUME NEW x \in F2 \ {Base}, NEW y \in F2 \ {Base}, EndOf(two, x) = y
          PROVE  x = pre /\ y = b
      <4>1. CASE x = b
        <5>1. EndOf(one, nxt) = y /\ y \in F1 \ {Base}
          BY <3>1, <3>6, <3>8, <4>1
        <5>. QED  BY <1>1, <1>3, <3>3, <5>1
      <4>2. CASE x # b
        <5>1. EndOf(one, x) = y /\ x \in F1 \ {Base} /\ y \in F1 \ {Base}
          BY <3>1, <3>6, <3>8, <4>2
        <5>. QED  BY <1>3, <4>2, <5>1
      <4>. QED  BY <4>1, <4>2
    <3>9. b \in F2 /\ pre \in F2 /\ F2 \subseteq Addr
      BY <1>1, <1>4, <3>1
    <3>. QED  BY <3>1, <3>5, <3>6, <3>7, <3>8, <3>9
  <2>. QED  BY <2>1, <2>2
<1>6. CASE EndOf(m, pre) # b
  <2>1. three = two /\ F3 = F2
    BY <1>6 DEF three, two, F3, F2, Returned, RingReturned, JoinsPre
  <2>2. \A x, y \in F2 \ {Base} : EndOf(two, x) # y
    BY <1>5, <1>6
  <2>. QED  BY <1>3, <1>5, <2>1, <2>2 DEF Tiles, three, F3, V
<1>7. CASE EndOf(m, pre) = b
  <2>1. three = Merged(two, pre, b) /\ F3 = F2 \ {b}
    BY <1>7 DEF three, two, F3, F2, Returned, RingReturned, JoinsPre
  <2>2. pre # Base
    <3>1. SizeOf(m, Base) = 0 /\ Base = 0
      BY AddrFacts DEF Tiles, Lays
    <3>2. EndOf(m, Base) = 0
      BY <3>1 DEF EndOf
    <3>. QED  BY <1>1, <1>7, <3>1, <3>2
  <2>3. pre \in F2 \ {Base} /\ b \in F2 \ {Base} /\ EndOf(two, pre) = b
    BY <1>1, <1>5, <1>7, <2>2
  <2>4. SizeOf(two, pre) + SizeOf(two, b) <= Units
    BY <1>5, <2>3, TouchingFit
  <2>5. /\ three \in Memories /\ Freep(three) = pre
        /\ NextOf(three, pre) = NextOf(two, b)
        /\ SizeOf(three, pre) = SizeOf(two, pre) + SizeOf(two, b)
        /\ \A z \in Addr \ {pre} : /\ NextOf(three, z) = NextOf(two, z)
                                   /\ SizeOf(three, z) = SizeOf(two, z)
    BY <1>1, <1>5, <2>1, <2>4, MergedCells
  <2>6. /\ Lays(three, F2 \ {b}, V)
        /\ Covers(two, F2, V) => Covers(three, F2 \ {b}, V)
        /\ EndOf(three, pre) = EndOf(two, b)
        /\ \A z \in (F2 \cup V) \ {pre, b} : EndOf(three, z) = EndOf(two, z)
    <3>1. /\ Freep(three) \in F2 \ {b}
          /\ \A z \in F2 \ {pre, b} : NextOf(three, z) = NextOf(two, z)
          /\ \A z \in (F2 \cup V) \ {pre, b} : SizeOf(three, z) = SizeOf(two, z)
      BY <1>1, <1>4, <1>5, <2>5
    <3>. QED  BY <1>5, <2>3, <2>5, <3>1, LaysMerged
  <2>7. ASSUME NEW x \in (F2 \ {b}) \ {Base}, NEW y \in (F2 \ {b}) \ {Base}, EndOf(three, x) = y
        PROVE  FALSE
    <3>1. CASE x = pre
      <4>1. EndOf(two, b) = y
        BY <2>6, <2>7, <3>1
      <4>. QED  BY <1>1, <1>5, <2>3, <4>1
    <3>2. CASE x # pre
      <4>1. EndOf(two, x) = y
        BY <2>6, <2>7, <3>2
      <4>. QED  BY <1>5, <3>2, <4>1
    <3>. QED  BY <3>1, <3>2
  <2>8. Tiles(three, F2 \ {b}, V)
    BY <2>6, <2>7 DEF Tiles
  <2>. QED  BY <1>3, <1>5, <2>1, <2>6, <2>8 DEF three, F3, V
<1>. QED  BY <1>6, <1>7

(* A heap that is all in use takes back its first block.                   *)
LEMMA TilesRefilled ==
    ASSUME NEW m, NEW U, Tiles(m, {Base}, U), NEW b \in U, NEW r \in Memories,
           Freep(r) = Base, NextOf(r, Base) = b, NextOf(r, b) = Base,
           \A x \in {Base} \cup U : SizeOf(r, x) = SizeOf(m, x)
    PROVE  /\ Tiles(r, {Base, b}, U \ {b})
           /\ Covers(m, {Base}, U) => Covers(r, {Base, b}, U \ {b})
<1>0. /\ Base \in Addr /\ b \in Addr /\ Base = 0 /\ b \in Nat /\ b > 0 /\ b # Base
      /\ U \subseteq 1..Units /\ U \cap {Base} = {}
  BY AddrFacts DEF Tiles, Lays, Ring
<1>. DEFINE F == {Base, b}
            B == Blocks({Base}, U)
<1>1. Ring(r, F)
  BY <1>0 DEF Ring, Succ
<1>2. Blocks(F, U \ {b}) = B /\ B = U
  BY <1>0 DEF Blocks
<1>3. \A x \in U : SizeOf(r, x) = SizeOf(m, x) /\ EndOf(r, x) = EndOf(m, x)
  BY DEF EndOf
<1>. HIDE DEF B
<1>4. /\ \A x \in B : 1 <= SizeOf(r, x) /\ EndOf(r, x) <= Units + 1
      /\ \A x, y \in B : x < y => EndOf(r, x) <= y
  BY <1>2, <1>3 DEF Tiles, Lays, B
<1>5. SizeOf(r, Base) = 0 /\ U \ {b} \subseteq 1..Units /\ (U \ {b}) \cap F = {}
  BY <1>0 DEF Tiles, Lays
<1>6. Lays(r, F, U \ {b})
  <2>. HIDE DEF F
  <2>. QED  BY <1>1, <1>2, <1>4, <1>5 DEF Lays
<1>7. EndOf(r, b) # b
  <2>1. 1 <= SizeOf(r, b) /\ SizeOf(r, b) \in Int
    <3>1. SizeOf(r, b) \in 0..Units
      BY <1>0 DEF Memories, SizeOf
    <3>. QED  BY <1>2, <1>4, <3>1
  <2>. QED  BY <1>0, <2>1 DEF EndOf
<1>8. ASSUME Covers(m, {Base}, U)
      PROVE  Covers(r, F, U \ {b})
  <2>. HIDE DEF F
  <2>. QED  BY <1>2, <1>3, <1>8 DEF Covers, B
<1>. QED  BY <1>6, <1>7, <1>8 DEF Tiles

-----------------------------------------------------------------------------
(* What the stores of a call do.                                           *)

(* The recursion of AfterStores, for the lengths that occur: the function  *)
(* exists, for here it is.                                                 *)
LEMMA AfterFew ==
    ASSUME NEW m, NEW ws, Len(ws) \in 0..4
    PROVE  /\ Len(ws) = 0 => AfterStores(m, ws) = m
           /\ Len(ws) = 1 => AfterStores(m, ws) = Store(m, ws[1])
           /\ Len(ws) = 2 => AfterStores(m, ws) = Store(Store(m, ws[1]), ws[2])
           /\ Len(ws) = 3 => AfterStores(m, ws) = Store(Store(Store(m, ws[1]), ws[2]), ws[3])
           /\ Len(ws) = 4 => AfterStores(m, ws) =
                                Store(Store(Store(Store(m, ws[1]), ws[2]), ws[3]), ws[4])
<1>. DEFINE D == 0..Len(ws)
            Step(f) == [i \in D |-> IF i = 0 THEN m ELSE Store(f[i - 1], ws[i])]
            a == Store(m, ws[1])
            b == Store(a, ws[2])
            c == Store(b, ws[3])
            d == Store(c, ws[4])
            g == [i \in D |-> IF i = 0 THEN m ELSE IF i = 1 THEN a ELSE IF i = 2 THEN b
                              ELSE IF i = 3 THEN c ELSE d]
            f == CHOOSE h : h = Step(h)
<1>0. \A i \in D : i \in {0, 1, 2, 3, 4} /\ (i # 0 => i - 1 \in D)
  <2>. PICK n \in 0..4 : n = Len(ws)
    OBVIOUS
  <2>1. D = 0..n
    OBVIOUS
  <2>. HIDE DEF D, g, Step
  <2>. QED  BY <2>1
<1>. HIDE DEF D
<1>1. g = Step(g)
  <2>. SUFFICES ASSUME NEW i \in D
                PROVE  g[i] = IF i = 0 THEN m ELSE Store(g[i - 1], ws[i])
    OBVIOUS
  <2>1. i \in {0, 1, 2, 3, 4} /\ (i # 0 => i - 1 \in D)
    BY <1>0
  <2>. HIDE DEF g
  <2>2. \A j \in D : g[j] = IF j = 0 THEN m ELSE IF j = 1 THEN a ELSE IF j = 2 THEN b
                             ELSE IF j = 3 THEN c ELSE d
    BY DEF g
  <2>. QED  BY <2>1, <2>2
<1>2. f = Step(f)
  <2>. HIDE DEF g, Step
  <2>. QED  BY <1>1
<1>3. AfterStores(m, ws) = f[Len(ws)]
  BY DEF AfterStores, D
<1>. HIDE DEF f
<1>4. \A i \in D : f[i] = IF i = 0 THEN m ELSE Store(f[i - 1], ws[i])
  BY <1>2
<1>. QED  BY <1>3, <1>4 DEF D

Links == Addr \cup {Null}

LEMMA StoreNext ==
    ASSUME NEW m \in Memories, NEW b \in Addr, NEW v \in Links
    PROVE  /\ Store(m, SetNext(b, v)) \in Memories
           /\ Freep(Store(m, SetNext(b, v))) = Freep(m)
           /\ \A x \in Addr : /\ NextOf(Store(m, SetNext(b, v)), x) = IF x = b THEN v ELSE NextOf(m, x)
                              /\ SizeOf(Store(m, SetNext(b, v)), x) = SizeOf(m, x)
BY DEF Memories, Store, SetNext, NextOf, SizeOf, Freep, Links

LEMMA StoreSize ==
    ASSUME NEW m \in Memories, NEW b \in Addr, NEW v \in 0..Units
    PROVE  /\ Store(m, SetSize(b, v)) \in Memories
           /\ Freep(Store(m, SetSize(b, v))) = Freep(m)
           /\ \A x \in Addr : /\ NextOf(Store(m, SetSize(b, v)), x) = NextOf(m, x)
                              /\ SizeOf(Store(m, SetSize(b, v)), x) = IF x = b THEN v ELSE SizeOf(m, x)
BY DEF Memories, Store, SetSize, NextOf, SizeOf, Freep

LEMMA StoreFreep ==
    ASSUME NEW m \in Memories, NEW b \in Addr
    PROVE  /\ Store(m, SetFreep(b)) \in Memories
           /\ Freep(Store(m, SetFreep(b))) = b
           /\ \A x \in Addr : /\ NextOf(Store(m, SetFreep(b)), x) = NextOf(m, x)
                              /\ SizeOf(Store(m, SetFreep(b)), x) = SizeOf(m, x)
BY DEF Memories, Store, SetFreep, NextOf, SizeOf, Freep

(* A slot for a header's alignment is where the block is. *)
LEMMA AlignedAlready ==
    ASSUME NEW a, a \in Int
    PROVE  AlignUp(1, a) = a
BY DEF AlignUp

LEMMA NothingInFront ==
    ASSUME NEW b \in Int
    PROVE  SlotOptimize(b, 1) = 0
<1>1. HeapAt \in Nat
  BY ConstAssumption
<1>2. AlignUp(1, HeapAt + b + 1) = HeapAt + b + 1
  BY <1>1, AlignedAlready
<1>. QED  BY <1>1, <1>2 DEF SlotOptimize

(* A header is kept as long as its block is free or in use. *)
UsedBy(L) == {Block(a) : a \in L}

LEMMA ScrubbedTiles ==
    ASSUME NEW m, NEW F, NEW L, Tiles(m, F, UsedBy(L))
    PROVE  /\ Tiles(Scrubbed(m, L), F, UsedBy(L))
           /\ Covers(m, F, UsedBy(L)) => Covers(Scrubbed(m, L), F, UsedBy(L))
           /\ \A x \in UsedBy(L) : SizeOf(Scrubbed(m, L), x) = SizeOf(m, x)
<1>. DEFINE w == Walk(m)
            kept == Range(w) \cup {Block(a) : a \in L}
            r == [next |-> [b \in Addr |-> IF b \in kept THEN m.next[b] ELSE 0],
                  size |-> [b \in Addr |-> IF b \in kept THEN m.size[b] ELSE 0],
                  freep |-> m.freep]
<1>1. m \in Memories /\ Ring(m, F) /\ F \subseteq Addr /\ UsedBy(L) \subseteq Addr
  BY AddrFacts DEF Tiles, Lays, Ring
<1>2. F \cup UsedBy(L) \subseteq kept
  <2>1. {w[i] : i \in 1..RingLength(w)} = F /\ w \in [1..Units + 2 -> F]
        /\ RingLength(w) \in 1..Units + 1
    BY <1>1, RingWalk
  <2>2. ASSUME NEW b \in F PROVE b \in Range(w)
    <3>1. PICK i \in 1..RingLength(w) : b = w[i]
      BY <2>1
    <3>. HIDE DEF w
    <3>2. i \in 1..Units + 2
      BY <2>1, AddrFacts
    <3>. QED  BY <2>1, <3>1, <3>2 DEF Range
  <2>. QED  BY <2>2 DEF UsedBy
<1>0. /\ m.next \in [Addr -> Addr \cup {Null}] /\ m.size \in [Addr -> 0..Units]
      /\ m.freep \in [{Base} -> Addr] /\ 0 \in Addr /\ 0 \in 0..Units
  BY <1>1, AddrFacts, SMTT(40) DEF Memories
<1>3. Scrubbed(m, L) = r
  <2>. DEFINE next == [b \in Addr |-> IF b \in kept THEN m.next[b] ELSE 0]
              size == [b \in Addr |-> IF b \in kept THEN m.size[b] ELSE 0]
  <2>1. Scrubbed(m, L) = [m EXCEPT !.next = next, !.size = size]
    BY DEF Scrubbed
  <2>2. r = [next |-> next, size |-> size, freep |-> m.freep]
    OBVIOUS
  <2>. HIDE DEF next, size, r
  <2>3. [m EXCEPT !.next = next, !.size = size] = [next |-> next, size |-> size, freep |-> m.freep]
    <3>1. PICK k : k = [m EXCEPT !.next = next]
      OBVIOUS
    <3>2. k = [next |-> next, size |-> m.size, freep |-> m.freep]
      BY <1>1, <3>1 DEF Memories
    <3>3. [m EXCEPT !.next = next, !.size = size] = [k EXCEPT !.size = size]
      BY <3>1
    <3>4. [k EXCEPT !.size = size] = [next |-> next, size |-> size, freep |-> m.freep]
      BY <3>2
    <3>. QED  BY <3>3, <3>4
  <2>. QED  BY <2>1, <2>2, <2>3
<1>. HIDE DEF kept
<1>4. r \in Memories
  BY <1>0 DEF Memories
<1>5. /\ Freep(r) = Freep(m)
      /\ \A x \in F \cup UsedBy(L) : NextOf(r, x) = NextOf(m, x) /\ SizeOf(r, x) = SizeOf(m, x)
  BY <1>1, <1>2 DEF Freep, NextOf, SizeOf
<1>. HIDE DEF r
<1>6. Tiles(r, F, UsedBy(L)) /\ (Covers(m, F, UsedBy(L)) => Covers(r, F, UsedBy(L)))
  BY <1>4, <1>5, TilesFrame
<1>. QED  BY <1>3, <1>5, <1>6

-----------------------------------------------------------------------------
(* The inductive invariant.                                                *)

Allocs(m, L) ==
    /\ \A a \in L : a.req \in Requests /\ a.align \in Aligns /\ a.req < SizeOf(m, Block(a))
    /\ \A a, b \in L : a # b => Block(a) # Block(b)

(* Some ring and the blocks in use tile m; lossy: not all of it. *)
Heap(m, L, lossy) ==
    /\ Allocs(m, L)
    /\ \E F : Tiles(m, F, UsedBy(L)) /\ (lossy \/ Covers(m, F, UsedBy(L)))

HeapInv == died \in BOOLEAN /\ stuck = FALSE /\ Heap(mem, live, died)

LEMMA AllocsFrame ==
    ASSUME NEW m, NEW L, Allocs(m, L), NEW r,
           \A x \in UsedBy(L) : SizeOf(r, x) = SizeOf(m, x)
    PROVE  Allocs(r, L)
<1>1. \A a \in L : Block(a) \in UsedBy(L)
  BY DEF UsedBy
<1>. QED  BY <1>1 DEF Allocs

LEMMA AllocsAdded ==
    ASSUME NEW m, NEW L, Allocs(m, L), NEW a, a.req \in Requests, a.align \in Aligns,
           a.req < SizeOf(m, Block(a)), Block(a) \notin UsedBy(L)
    PROVE  Allocs(m, L \cup {a}) /\ UsedBy(L \cup {a}) = UsedBy(L) \cup {Block(a)}
<1>1. \A c \in L : Block(c) \in UsedBy(L)
  BY DEF UsedBy
<1>2. UsedBy(L \cup {a}) = UsedBy(L) \cup {Block(a)}
  BY DEF UsedBy
<1>. QED  BY <1>1, <1>2 DEF Allocs

LEMMA AllocsRemoved ==
    ASSUME NEW m, NEW L, Allocs(m, L), NEW a \in L
    PROVE  Allocs(m, L \ {a}) /\ UsedBy(L \ {a}) = UsedBy(L) \ {Block(a)}
<1>1. \A c \in L : c # a => Block(c) # Block(a)
  BY DEF Allocs
<1>2. UsedBy(L \ {a}) = UsedBy(L) \ {Block(a)}
  BY <1>1 DEF UsedBy
<1>. QED  BY <1>2 DEF Allocs

LEMMA ScrubbedHeap ==
    ASSUME NEW m, NEW L, NEW lossy, Heap(m, L, lossy)
    PROVE  Heap(Scrubbed(m, L), L, lossy)
<1>1. PICK F : Tiles(m, F, UsedBy(L)) /\ (lossy \/ Covers(m, F, UsedBy(L)))
  BY DEF Heap
<1>n. PICK r : r = Scrubbed(m, L)
  OBVIOUS
<1>2. /\ Tiles(r, F, UsedBy(L)) /\ (Covers(m, F, UsedBy(L)) => Covers(r, F, UsedBy(L)))
      /\ \A x \in UsedBy(L) : SizeOf(r, x) = SizeOf(m, x)
  BY <1>1, <1>n, ScrubbedTiles
<1>3. Allocs(r, L)
  BY <1>2, AllocsFrame DEF Heap
<1>4. Heap(r, L, lossy)
  BY <1>1, <1>2, <1>3 DEF Heap
<1>. QED  BY <1>4, <1>n

-----------------------------------------------------------------------------
(* A call that dies has made the first few of its stores.                  *)
LEMMA AfterPrefix ==
    ASSUME NEW m, NEW S, NEW ws \in Seq(S), Len(ws) \in 1..4, NEW k \in 0..Len(ws) - 1
    PROVE  /\ k = 0 => AfterStores(m, SubSeq(ws, 1, k)) = m
           /\ k = 1 => AfterStores(m, SubSeq(ws, 1, k)) = Store(m, ws[1])
           /\ k = 2 => AfterStores(m, SubSeq(ws, 1, k)) = Store(Store(m, ws[1]), ws[2])
           /\ k = 3 => AfterStores(m, SubSeq(ws, 1, k)) =
                           Store(Store(Store(m, ws[1]), ws[2]), ws[3])
<1>n. PICK us : us = SubSeq(ws, 1, k)
  OBVIOUS
<1>1. Len(us) = k /\ \A i \in 1..k : us[i] = ws[i]
  <2>1. 1 \in 1..Len(ws) + 1 /\ k \in 0..Len(ws)
    OBVIOUS
  <2>. QED  BY <1>n, <2>1, SubSeqProperties
<1>2. k \in 0..3 /\ Len(us) \in 0..4
  <2>. PICK l \in 1..4 : l = Len(ws)
    OBVIOUS
  <2>1. k \in 0..l - 1
    OBVIOUS
  <2>2. k \in 0..3
    BY ONLY <2>1, l \in 1..4
  <2>. QED  BY ONLY <1>1, <2>2
<1>3. /\ k = 0 => AfterStores(m, us) = m
      /\ k = 1 => AfterStores(m, us) = Store(m, us[1])
      /\ k = 2 => AfterStores(m, us) = Store(Store(m, us[1]), us[2])
      /\ k = 3 => AfterStores(m, us) = Store(Store(Store(m, us[1]), us[2]), us[3])
  BY <1>1, <1>2, AfterFew
<1>4. /\ k = 1 => us[1] = ws[1]
      /\ k = 2 => us[1] = ws[1] /\ us[2] = ws[2]
      /\ k = 3 => us[1] = ws[1] /\ us[2] = ws[2] /\ us[3] = ws[3]
  BY <1>1
<1>. QED  BY <1>n, <1>3, <1>4

(* What a split leaves after each of its stores.                           *)
SplitStores(b, rest, n) ==
    << SetSize(b, rest), SetFreep(b), SetNext(b + rest, Null), SetSize(b + rest, n) >>

LEMMA CutIsFresh ==
    ASSUME NEW m, NEW F, NEW U, Lays(m, F, U), NEW b \in F, NEW n \in Nat \ {0},
           SizeOf(m, b) > n + 1, NEW rest, rest = SizeOf(m, b) - n
    PROVE  /\ b + rest \in 1..Units /\ b + rest \notin F \cup U /\ b + rest # b
           /\ rest \in 0..Units /\ n \in 0..Units /\ b \in Addr /\ b + rest \in Addr
<1>1. b \in Blocks(F, U) /\ b # Base
  BY DEF Lays, Blocks
<1>2. /\ Units \in Nat
      /\ \A x \in Blocks(F, U) :
            /\ x \in 1..Units /\ SizeOf(m, x) \in 1..Units
            /\ EndOf(m, x) = x + SizeOf(m, x) /\ EndOf(m, x) \in 2..Units + 1
  BY BlocksTyped
<1>3. \A x, y \in Blocks(F, U) : x < y => EndOf(m, x) <= y
  BY BlocksTyped
<1>n. PICK k : k = b + rest
  OBVIOUS
<1>4. k \in 1..Units /\ b < k /\ k < EndOf(m, b) /\ k # b /\ rest \in 0..Units /\ n \in 0..Units
  BY <1>1, <1>2, <1>n
<1>5. k \notin Blocks(F, U)
  <2>. SUFFICES ASSUME k \in Blocks(F, U) PROVE FALSE
    OBVIOUS
  <2>1. EndOf(m, b) <= k
    BY <1>1, <1>3, <1>4
  <2>. QED  BY <1>1, <1>2, <1>4, <2>1
<1>6. k \notin F \cup U /\ b \in Addr /\ k \in Addr
  BY <1>1, <1>2, <1>4, <1>5, AddrFacts DEF Blocks
<1>. QED  BY <1>4, <1>6, <1>n

LEMMA SplitHeap ==
    ASSUME NEW m, NEW F, NEW L, NEW lossy, Allocs(m, L), Tiles(m, F, UsedBy(L)),
           lossy \/ Covers(m, F, UsedBy(L)), NEW b \in F, NEW n \in Nat \ {0},
           SizeOf(m, b) > n + 1, NEW rest, rest = SizeOf(m, b) - n,
           NEW a, a.req \in Requests, a.align \in Aligns, a.req < n, Block(a) = b + rest
    PROVE  /\ \A k \in 0..3 :
                 Heap(AfterStores(m, SubSeq(SplitStores(b, rest, n), 1, k)), L, TRUE)
           /\ Heap(AfterStores(m, SplitStores(b, rest, n)), L \cup {a}, lossy)
<1>n. PICK k : k = b + rest
  OBVIOUS
<1>. DEFINE U == UsedBy(L)
            s1 == Store(m, SetSize(b, rest))
            s2 == Store(s1, SetFreep(b))
            s3 == Store(s2, SetNext(k, Null))
            s4 == Store(s3, SetSize(k, n))
            ws == SplitStores(b, rest, n)
<1>1. /\ m \in Memories /\ Lays(m, F, U) /\ F \subseteq Addr /\ U \subseteq Addr
      /\ Freep(m) \in F
  BY AddrFacts DEF Tiles, Lays, Ring
<1>2. /\ k \in 1..Units /\ k \notin F \cup U /\ k # b /\ b \in Addr /\ k \in Addr
      /\ rest \in 0..Units /\ n \in 0..Units
  BY <1>1, <1>n, CutIsFresh
<1>. HIDE DEF U, s1, s2, s3, s4, ws
<1>3. /\ s1 \in Memories /\ Freep(s1) \in F
      /\ \A x \in Addr : /\ NextOf(s1, x) = NextOf(m, x)
                         /\ SizeOf(s1, x) = IF x = b THEN rest ELSE SizeOf(m, x)
  BY <1>1, <1>2, StoreSize, SMTT(40) DEF s1
<1>4. /\ s2 \in Memories /\ Freep(s2) \in F
      /\ \A x \in Addr : /\ NextOf(s2, x) = NextOf(m, x)
                         /\ SizeOf(s2, x) = IF x = b THEN rest ELSE SizeOf(m, x)
  BY <1>2, <1>3, StoreFreep DEF s2
<1>5. /\ s3 \in Memories /\ Freep(s3) \in F
      /\ \A x \in Addr : /\ NextOf(s3, x) = IF x = k THEN Null ELSE NextOf(m, x)
                         /\ SizeOf(s3, x) = IF x = b THEN rest ELSE SizeOf(m, x)
  <2>1. Null \in Links
    BY DEF Links
  <2>2. /\ s3 \in Memories /\ Freep(s3) = Freep(s2)
        /\ \A x \in Addr : /\ NextOf(s3, x) = IF x = k THEN Null ELSE NextOf(s2, x)
                           /\ SizeOf(s3, x) = SizeOf(s2, x)
    BY <1>2, <1>4, <2>1, StoreNext DEF s3
  <2>. QED  BY <1>4, <2>2
<1>6. /\ s4 \in Memories /\ Freep(s4) \in F
      /\ \A x \in Addr : /\ NextOf(s4, x) = IF x = k THEN Null ELSE NextOf(m, x)
                         /\ SizeOf(s4, x) = IF x = k THEN n ELSE IF x = b THEN rest ELSE SizeOf(m, x)
  BY <1>2, <1>5, StoreSize, SMTT(40) DEF s4
<1>7. Tiles(m, F, U) /\ (lossy \/ Covers(m, F, U))
  BY DEF U
<1>8. ASSUME NEW r \in {s1, s2, s3}
      PROVE  Heap(r, L, TRUE)
  <2>1. /\ r \in Memories /\ Freep(r) \in F
        /\ \A x \in F : NextOf(r, x) = NextOf(m, x)
        /\ \A x \in F \cup U : SizeOf(r, x) = IF x = b THEN rest ELSE SizeOf(m, x)
    BY <1>1, <1>2, <1>3, <1>4, <1>5
  <2>2. SizeOf(r, b) = SizeOf(m, b) - n /\ \A x \in (F \cup U) \ {b} : SizeOf(r, x) = SizeOf(m, x)
    BY <2>1
  <2>3. Tiles(r, F, U)
    BY <1>7, <2>1, <2>2, TilesCut
  <2>4. \A x \in U : SizeOf(r, x) = SizeOf(m, x)
    BY <1>1, <2>2 DEF Lays
  <2>5. Allocs(r, L)
    BY <2>4, AllocsFrame DEF U
  <2>. QED  BY <2>3, <2>5 DEF Heap, U
<1>9. Heap(s4, L \cup {a}, lossy)
  <2>1. /\ \A x \in F : NextOf(s4, x) = NextOf(m, x)
        /\ \A x \in (F \cup U) \ {b} : SizeOf(s4, x) = SizeOf(m, x)
        /\ SizeOf(s4, b) = SizeOf(m, b) - n /\ SizeOf(s4, k) = n /\ k = b + SizeOf(s4, b)
    BY <1>1, <1>2, <1>6, <1>n
  <2>2. Tiles(s4, F, U \cup {k}) /\ (Covers(m, F, U) => Covers(s4, F, U \cup {k}))
    BY <1>6, <1>7, <2>1, TilesSplit
  <2>3. \A x \in U : SizeOf(s4, x) = SizeOf(m, x)
    BY <1>1, <2>1 DEF Lays
  <2>4. Allocs(s4, L)
    BY <2>3, AllocsFrame DEF U
  <2>5. Block(a) = k /\ Block(a) \notin UsedBy(L) /\ a.req < SizeOf(s4, Block(a))
    BY <1>2, <1>n, <2>1 DEF U
  <2>6. Allocs(s4, L \cup {a}) /\ UsedBy(L \cup {a}) = U \cup {k}
    BY <2>4, <2>5, AllocsAdded DEF U
  <2>. QED  BY <1>7, <2>2, <2>6 DEF Heap
<1>10. Heap(m, L, TRUE)
  BY <1>7 DEF Heap, U
<1>11. Len(ws) = 4 /\ /\ ws[1] = SetSize(b, rest) /\ ws[2] = SetFreep(b)
                     /\ ws[3] = SetNext(k, Null) /\ ws[4] = SetSize(k, n)
  BY <1>n DEF ws, SplitStores
<1>12. \E S : ws \in Seq(S)
  <2>. WITNESS {SetSize(b, rest), SetFreep(b), SetNext(k, Null), SetSize(k, n)}
  <2>. QED  BY <1>n DEF ws, SplitStores
<1>13. AfterStores(m, ws) = s4
  BY <1>11, AfterFew DEF s1, s2, s3, s4
<1>14. ASSUME NEW j \in 0..3
       PROVE  Heap(AfterStores(m, SubSeq(ws, 1, j)), L, TRUE)
  <2>1. AfterStores(m, SubSeq(ws, 1, j)) \in {m, s1, s2, s3}
    <3>. PICK S : ws \in Seq(S)
      BY <1>12
    <3>1. Len(ws) \in 1..4 /\ j \in 0..Len(ws) - 1
      BY <1>11
    <3>2. /\ j = 0 => AfterStores(m, SubSeq(ws, 1, j)) = m
          /\ j = 1 => AfterStores(m, SubSeq(ws, 1, j)) = Store(m, ws[1])
          /\ j = 2 => AfterStores(m, SubSeq(ws, 1, j)) = Store(Store(m, ws[1]), ws[2])
          /\ j = 3 => AfterStores(m, SubSeq(ws, 1, j)) =
                          Store(Store(Store(m, ws[1]), ws[2]), ws[3])
      BY <3>1, AfterPrefix
    <3>. QED  BY <1>11, <3>2 DEF s1, s2, s3
  <2>. QED  BY <1>8, <1>10, <2>1
<1>. QED  BY <1>9, <1>13, <1>14 DEF ws

(* What taking a block whole leaves after each of its stores: the block is *)
(* out of the ring from the first on.                                      *)
TakeStores(pre, b, nxt) == << SetNext(pre, nxt), SetNext(b, Null), SetFreep(pre) >>

LEMMA TakeHeap ==
    ASSUME NEW m, NEW F, NEW L, NEW lossy, Allocs(m, L), Tiles(m, F, UsedBy(L)),
           lossy \/ Covers(m, F, UsedBy(L)), NEW b \in F, b # Base, b # Freep(m),
           NEW pre \in F, NextOf(m, pre) = b, NEW nxt, nxt = NextOf(m, b),
           NEW a, a.req \in Requests, a.align \in Aligns, a.req < SizeOf(m, b), Block(a) = b
    PROVE  /\ \A k \in 0..2 :
                 Heap(AfterStores(m, SubSeq(TakeStores(pre, b, nxt), 1, k)), L, TRUE)
           /\ Heap(AfterStores(m, TakeStores(pre, b, nxt)), L \cup {a}, lossy)
<1>. DEFINE U == UsedBy(L)
            G == F \ {b}
            s1 == Store(m, SetNext(pre, nxt))
            s2 == Store(s1, SetNext(b, Null))
            s3 == Store(s2, SetFreep(pre))
            ws == TakeStores(pre, b, nxt)
<1>1. /\ m \in Memories /\ Lays(m, F, U) /\ F \subseteq Addr /\ U \subseteq Addr
      /\ Freep(m) \in F /\ Succ(F, b, nxt) /\ Succ(F, pre, b) /\ nxt \in F
      /\ U \cap F = {}
  BY AddrFacts DEF Tiles, Lays, Ring, Succ
<1>2. /\ b \in Addr /\ pre \in Addr /\ nxt \in Links /\ pre # b
      /\ Null \in Links
  <2>1. pre # b
    BY <1>1, AddrFacts DEF Succ
  <2>. QED  BY <1>1, <2>1 DEF Links
<1>3. Tiles(m, F, U) /\ (lossy \/ Covers(m, F, U))
  BY DEF U
<1>. HIDE DEF U, s1, s2, s3, ws
<1>4. /\ s1 \in Memories /\ Freep(s1) = Freep(m)
      /\ \A x \in Addr : /\ NextOf(s1, x) = IF x = pre THEN nxt ELSE NextOf(m, x)
                         /\ SizeOf(s1, x) = SizeOf(m, x)
  <2>1. m \in Memories
    BY <1>1
  <2>. QED  BY ONLY <1>2, <2>1, StoreNext DEF s1
<1>5. /\ s2 \in Memories /\ Freep(s2) = Freep(s1)
      /\ \A x \in Addr : /\ NextOf(s2, x) = IF x = b THEN Null ELSE NextOf(s1, x)
                         /\ SizeOf(s2, x) = SizeOf(s1, x)
  BY <1>2, <1>4, StoreNext DEF s2
<1>6. /\ s3 \in Memories /\ Freep(s3) = pre
      /\ \A x \in Addr : /\ NextOf(s3, x) = NextOf(s2, x)
                         /\ SizeOf(s3, x) = SizeOf(s2, x)
  BY <1>2, <1>5, StoreFreep DEF s3
<1>7. ASSUME NEW r \in {s1, s2, s3}
      PROVE  /\ Tiles(r, G, U) /\ Tiles(r, G, U \cup {b})
             /\ Covers(m, F, U) => Covers(r, G, U \cup {b})
             /\ \A x \in F \cup U : SizeOf(r, x) = SizeOf(m, x)
  <2>1. r \in Memories /\ Freep(r) \in F \ {b}
    BY <1>1, <1>2, <1>4, <1>5, <1>6
  <2>2. NextOf(r, pre) = NextOf(m, b) /\ \A x \in F \ {pre, b} : NextOf(r, x) = NextOf(m, x)
    BY <1>1, <1>2, <1>4, <1>5, <1>6
  <2>3. \A x \in F \cup U : SizeOf(r, x) = SizeOf(m, x)
    BY <1>1, <1>4, <1>5, <1>6
  <2>4. b \in F \ {Base}
    OBVIOUS
  <2>. QED  BY <1>3, <2>1, <2>2, <2>3, <2>4, TilesUnlinked
<1>8. ASSUME NEW r \in {s1, s2, s3}
      PROVE  Allocs(r, L) /\ Heap(r, L, TRUE)
  <2>1. \A x \in UsedBy(L) : SizeOf(r, x) = SizeOf(m, x)
    BY <1>7 DEF U
  <2>2. Allocs(r, L)
    BY <2>1, AllocsFrame
  <2>. QED  BY <1>7, <2>2 DEF Heap, U
<1>9. Heap(s3, L \cup {a}, lossy)
  <2>1. Block(a) \notin UsedBy(L) /\ a.req < SizeOf(s3, Block(a))
    BY <1>1, <1>7 DEF U
  <2>2. Allocs(s3, L)
    BY <1>8
  <2>3. Allocs(s3, L \cup {a}) /\ UsedBy(L \cup {a}) = U \cup {b}
    BY <2>1, <2>2, AllocsAdded DEF U
  <2>. QED  BY <1>3, <1>7, <2>3 DEF Heap
<1>10. Heap(m, L, TRUE)
  BY <1>3 DEF Heap, U
<1>11. /\ Len(ws) = 3 /\ ws[1] = SetNext(pre, nxt) /\ ws[2] = SetNext(b, Null)
       /\ ws[3] = SetFreep(pre)
  BY DEF ws, TakeStores
<1>12. \E S : ws \in Seq(S)
  <2>. WITNESS {SetNext(pre, nxt), SetNext(b, Null), SetFreep(pre)}
  <2>. QED  BY DEF ws, TakeStores
<1>13. AfterStores(m, ws) = s3
  BY <1>11, AfterFew DEF s1, s2, s3
<1>14. ASSUME NEW j \in 0..2
       PROVE  Heap(AfterStores(m, SubSeq(ws, 1, j)), L, TRUE)
  <2>1. AfterStores(m, SubSeq(ws, 1, j)) \in {m, s1, s2}
    <3>. PICK S : ws \in Seq(S)
      BY <1>12
    <3>1. Len(ws) \in 1..4 /\ j \in 0..Len(ws) - 1
      BY <1>11
    <3>2. /\ j = 0 => AfterStores(m, SubSeq(ws, 1, j)) = m
          /\ j = 1 => AfterStores(m, SubSeq(ws, 1, j)) = Store(m, ws[1])
          /\ j = 2 => AfterStores(m, SubSeq(ws, 1, j)) = Store(Store(m, ws[1]), ws[2])
      BY <3>1, AfterPrefix
    <3>. QED  BY <1>11, <3>2 DEF s1, s2
  <2>. QED  BY <1>8, <1>10, <2>1
<1>. QED  BY <1>9, <1>13, <1>14 DEF ws

-----------------------------------------------------------------------------
(* allocate preserves the invariant.                                       *)

LEMMA AllocateStep ==
    ASSUME HeapInv, Aligns \subseteq {1}, NEW req \in Requests, NEW align \in Aligns,
           Allocate(req, align)
    PROVE  HeapInv'
<1>1. PICK F : Tiles(mem, F, UsedBy(live)) /\ (died \/ Covers(mem, F, UsedBy(live)))
  BY DEF HeapInv, Heap
<1>2. /\ Allocs(mem, live) /\ died \in BOOLEAN /\ stuck = FALSE
      /\ req \in Nat /\ align = 1 /\ HeapAt \in Nat
  BY ConstAssumption DEF HeapInv, Heap
<1>3. Ring(mem, F) /\ F \subseteq Addr /\ SizeOf(mem, Base) = 0 /\ mem \in Memories
  BY <1>1 DEF Tiles, Lays, Ring
<1>n. PICK n : n = Needed(req, align)
  OBVIOUS
<1>w. PICK w : w = Walk(mem)
  OBVIOUS
<1>. DEFINE fit == {i \in 1..RingLength(w) : Fits(mem, w, i, n)}
            got == Allocation(mem, w, n, align, fit)
            ptr == AlignUp(align, HeapAt + got.blk + 1)
            a == [ptr |-> ptr, req |-> req, align |-> align]
<1>4. n = req + 1 /\ n \in Nat \ {0}
  BY <1>2, <1>n DEF Needed
<1>5. /\ RingLength(w) \in 1..Units + 1
      /\ \A i \in 1..RingLength(w) : w[i + 1] = NextOf(mem, w[i])
      /\ \A i \in 2..RingLength(w) : w[i] # Freep(mem)
      /\ \A i \in 1..RingLength(w) : w[i] \in F
  <2>1. {w[i] : i \in 1..RingLength(w)} = F
    BY <1>3, <1>w, RingWalk
  <2>. QED  BY <1>3, <1>w, <2>1, RingWalk
<1>6. \/ /\ fit # {}
         /\ \/ Finish(got.stores, live \cup {a})
            \/ DieAmid(got.stores, live)
      \/ UNCHANGED vars
  BY <1>n, <1>w DEF Allocate
<1>7. CASE UNCHANGED vars
  BY <1>7 DEF HeapInv, vars
<1>8. CASE fit # {} /\ (Finish(got.stores, live \cup {a}) \/ DieAmid(got.stores, live))
  <2>i. PICK i : i = FirstOf(fit)
    OBVIOUS
  <2>1. i \in 1..RingLength(w) /\ Fits(mem, w, i, n)
    <3>1. fit \in SUBSET Nat
      OBVIOUS
    <3>2. i \in fit
      <4>. HIDE DEF fit
      <4>. QED  BY <1>8, <2>i, <3>1, FirstOfIsLeast
    <3>. QED  BY <3>2
  <2>b. PICK b : b = w[i]
    OBVIOUS
  <2>2. b \in F /\ b \in Nat /\ b \in Addr /\ SizeOf(mem, b) \in Nat
    <3>1. b \in F
      BY <1>5, <2>1, <2>b
    <3>2. b \in Addr /\ b \in Nat
      BY <1>3, <3>1, AddrFacts
    <3>3. SizeOf(mem, b) \in 0..Units
      BY <1>3, <3>2 DEF Memories, SizeOf
    <3>. QED  BY <3>1, <3>2, <3>3, AddrFacts
  <2>3. got = IF CanSplit(mem, b, n) THEN SplitBlock(mem, b, n, align)
              ELSE TakeBlock(mem, w[i - 1], b, n, align)
    BY <2>i, <2>b DEF Allocation
  <2>. HIDE DEF fit, got
  <2>p. PICK ws, blk : ws = got.stores /\ blk = got.blk
    OBVIOUS
  <2>4. ASSUME blk \in Int
        PROVE  Block(a) = blk /\ a.req = req /\ a.align = align
    <3>1. HeapAt + blk + 1 \in Int
      BY <1>2, <2>4
    <3>2. ptr = HeapAt + blk + 1
      BY <1>2, <2>p, <3>1, AlignedAlready
    <3>. HIDE DEF ptr
    <3>3. a.ptr = ptr /\ a.req = req /\ a.align = align
      OBVIOUS
    <3>. HIDE DEF a
    <3>. QED  BY <1>2, <2>4, <3>2, <3>3 DEF Block
  <2>. HIDE DEF ptr, a
  <2>5. CASE CanSplit(mem, b, n)
    <3>r. PICK rest : rest = SizeOf(mem, b) - n
      OBVIOUS
    <3>1. blk = b + rest /\ ws = SplitStores(b, rest, n) /\ blk \in Int /\ SizeOf(mem, b) > n + 1
      <4>1. b + SizeOf(mem, b) - n \in Int /\ SizeOf(mem, b) - (n - 0) = rest /\ n - 0 = n
            /\ b + rest \in Int
        BY <1>4, <2>2, <3>r
      <4>2. SlotOptimize(b + SizeOf(mem, b) - n, align) = 0
        BY <1>2, <4>1, NothingInFront
      <4>3. got = [blk |-> b + rest, stores |-> SplitStores(b, rest, n)]
        BY <2>3, <2>5, <4>1, <4>2 DEF SplitBlock, SplitStores
      <4>. QED  BY <2>5, <2>p, <4>1, <4>3 DEF CanSplit
    <3>2. a.req \in Requests /\ a.align \in Aligns /\ a.req < n /\ Block(a) = b + rest
      BY <1>2, <1>4, <2>4, <3>1
    <3>3. /\ \A k \in 0..3 : Heap(AfterStores(mem, SubSeq(SplitStores(b, rest, n), 1, k)), live, TRUE)
          /\ Heap(AfterStores(mem, SplitStores(b, rest, n)), live \cup {a}, died)
      BY <1>1, <1>2, <1>4, <2>2, <3>r, <3>1, <3>2, SplitHeap
    <3>4. Len(ws) = 4
      BY <3>1 DEF SplitStores
    <3>5. CASE Finish(ws, live \cup {a})
      BY <1>2, <3>1, <3>3, <3>5, ScrubbedHeap DEF Finish, HeapInv
    <3>6. CASE DieAmid(ws, live)
      <4>1. PICK k \in 0..3 : mem' = Scrubbed(AfterStores(mem, SubSeq(ws, 1, k)), live)
        BY <3>4, <3>6 DEF DieAmid
      <4>2. Heap(AfterStores(mem, SubSeq(ws, 1, k)), live, TRUE)
        BY <3>1, <3>3
      <4>3. Heap(mem', live, TRUE)
        BY <4>1, <4>2, ScrubbedHeap
      <4>. QED  BY <1>2, <3>6, <4>3 DEF DieAmid, HeapInv
    <3>. QED  BY <1>8, <2>p, <3>5, <3>6
  <2>6. CASE ~CanSplit(mem, b, n)
    <3>1. i > 1 /\ SizeOf(mem, b) >= n /\ i \in 2..RingLength(w) /\ i - 1 \in 1..RingLength(w)
          /\ (i - 1) + 1 = i
      BY <1>5, <2>1, <2>6, <2>b, AddrFacts DEF Fits
    <3>p. PICK pre, nxt : pre = w[i - 1] /\ nxt = NextOf(mem, b)
      OBVIOUS
    <3>2. pre \in F /\ NextOf(mem, pre) = b /\ b # Freep(mem) /\ b # Base
      <4>1. b # Base
        BY <1>3, <1>4, <3>1
      <4>. QED  BY <1>5, <2>b, <3>1, <3>p, <4>1
    <3>3. blk = b /\ ws = TakeStores(pre, b, nxt)
      <4>1. SlotOptimize(b, align) = 0
        BY <1>2, <2>2, NothingInFront
      <4>2. got = [blk |-> b, stores |-> TakeStores(pre, b, nxt)]
        BY <2>3, <2>6, <3>p, <4>1 DEF TakeBlock, TakeStores
      <4>. QED  BY <2>p, <4>2
    <3>4. a.req \in Requests /\ a.align \in Aligns /\ a.req < SizeOf(mem, b) /\ Block(a) = b
      BY <1>2, <1>4, <2>2, <2>4, <3>1, <3>3
    <3>5. /\ \A k \in 0..2 : Heap(AfterStores(mem, SubSeq(TakeStores(pre, b, nxt), 1, k)), live, TRUE)
          /\ Heap(AfterStores(mem, TakeStores(pre, b, nxt)), live \cup {a}, died)
      BY <1>1, <1>2, <2>2, <3>p, <3>2, <3>4, TakeHeap, ZenonT(60)
    <3>6. Len(ws) = 3
      BY <3>3 DEF TakeStores
    <3>7. CASE Finish(ws, live \cup {a})
      BY <1>2, <3>3, <3>5, <3>7, ScrubbedHeap DEF Finish, HeapInv
    <3>8. CASE DieAmid(ws, live)
      <4>1. PICK k \in 0..2 : mem' = Scrubbed(AfterStores(mem, SubSeq(ws, 1, k)), live)
        BY <3>6, <3>8 DEF DieAmid
      <4>2. Heap(AfterStores(mem, SubSeq(ws, 1, k)), live, TRUE)
        BY <3>3, <3>5
      <4>3. Heap(mem', live, TRUE)
        BY <4>1, <4>2, ScrubbedHeap
      <4>. QED  BY <1>2, <3>8, <4>3 DEF DieAmid, HeapInv
    <3>. QED  BY <1>8, <2>p, <3>7, <3>8
  <2>. QED  BY <2>5, <2>6
<1>. QED  BY <1>6, <1>7, <1>8

-----------------------------------------------------------------------------
(* What the stores of deallocate leave is Returned.                        *)

(* Merging reads and writes headers only, whatever the sizes add up to. *)
Shaped(m) == m \in [next : [Addr -> Addr \cup {Null}], size : [Addr -> Nat],
                    freep : [{Base} -> Addr]]

LEMMA MergedShape ==
    ASSUME NEW m, Shaped(m), NEW x \in Addr, NEW y \in Addr, x # y
    PROVE  /\ Shaped(Merged(m, x, y)) /\ Freep(Merged(m, x, y)) = Freep(m)
           /\ NextOf(Merged(m, x, y), x) = NextOf(m, y)
           /\ SizeOf(Merged(m, x, y), x) = SizeOf(m, x) + SizeOf(m, y)
           /\ \A z \in Addr \ {x} : /\ NextOf(Merged(m, x, y), z) = NextOf(m, z)
                                    /\ SizeOf(Merged(m, x, y), z) = SizeOf(m, z)
<1>1. SizeOf(m, x) + SizeOf(m, y) \in Nat
  BY DEF Shaped, SizeOf
<1>2. NextOf(m, y) \in Addr \cup {Null}
  BY DEF Shaped, NextOf
<1>3. m.next \in [Addr -> Addr \cup {Null}] /\ m.size \in [Addr -> Nat] /\ m.freep \in [{Base} -> Addr]
  BY DEF Shaped
<1>. DEFINE v == SizeOf(m, x) + SizeOf(m, y)
<1>. HIDE DEF v
<1>4. [m.size EXCEPT ![x] = v] \in [Addr -> Nat] /\ [m.next EXCEPT ![x] = NextOf(m, y)] \in [Addr -> Addr \cup {Null}]
  BY <1>1, <1>2, <1>3 DEF v
<1>. QED  BY <1>3, <1>4 DEF Merged, Shaped, NextOf, SizeOf, Freep, v

LEMMA ReturnedCells ==
    ASSUME NEW m \in Memories, NEW pre \in Addr, NEW b \in Addr, NEW nxt \in Addr,
           nxt = NextOf(m, pre), pre # b, pre # nxt, b # nxt, NEW t, t = Returned(m, pre, b)
    PROVE  /\ Freep(t) = pre
           /\ NextOf(t, pre) = IF JoinsPre(m, pre, b)
                               THEN IF JoinsNxt(m, pre, b) THEN NextOf(m, nxt) ELSE nxt
                               ELSE b
           /\ SizeOf(t, pre) = IF JoinsPre(m, pre, b)
                               THEN IF JoinsNxt(m, pre, b)
                                    THEN SizeOf(m, pre) + SizeOf(m, b) + SizeOf(m, nxt)
                                    ELSE SizeOf(m, pre) + SizeOf(m, b)
                               ELSE SizeOf(m, pre)
           /\ NextOf(t, b) = IF JoinsNxt(m, pre, b) THEN NextOf(m, nxt) ELSE nxt
           /\ SizeOf(t, b) = IF JoinsNxt(m, pre, b) THEN SizeOf(m, b) + SizeOf(m, nxt)
                             ELSE SizeOf(m, b)
           /\ \A x \in Addr \ {pre, b} : NextOf(t, x) = NextOf(m, x) /\ SizeOf(t, x) = SizeOf(m, x)
<1>s. PICK one : one = Linked(m, pre, b)
  OBVIOUS
<1>t. PICK two : two = WithNxt(m, pre, b)
  OBVIOUS
<1>1. /\ one \in Memories /\ Freep(one) = pre /\ NextOf(one, pre) = b /\ NextOf(one, b) = nxt
      /\ \A x \in Addr \ {pre, b} : NextOf(one, x) = NextOf(m, x)
      /\ \A x \in Addr : SizeOf(one, x) = SizeOf(m, x)
  BY <1>s, LinkedCells
<1>2. Shaped(one)
  <2>1. \A x \in 0..Units : x \in Nat
    BY AddrFacts
  <2>2. [Addr -> 0..Units] \subseteq [Addr -> Nat]
    BY <2>1
  <2>. QED  BY <1>1, <2>2 DEF Memories, Shaped
<1>3. \A x \in Addr : SizeOf(m, x) \in Nat
  BY AddrFacts DEF Memories, SizeOf
<1>4. /\ Shaped(two) /\ Freep(two) = pre /\ NextOf(two, pre) = b
      /\ NextOf(two, b) = IF JoinsNxt(m, pre, b) THEN NextOf(m, nxt) ELSE nxt
      /\ SizeOf(two, b) = IF JoinsNxt(m, pre, b) THEN SizeOf(m, b) + SizeOf(m, nxt)
                          ELSE SizeOf(m, b)
      /\ \A x \in Addr \ {pre, b} : NextOf(two, x) = NextOf(m, x)
      /\ \A x \in Addr \ {b} : SizeOf(two, x) = SizeOf(m, x)
  <2>1. CASE JoinsNxt(m, pre, b)
    <3>1. two = Merged(one, b, nxt)
      BY <1>s, <1>t, <2>1 DEF WithNxt
    <3>2. /\ Shaped(two) /\ Freep(two) = Freep(one) /\ NextOf(two, b) = NextOf(one, nxt)
          /\ SizeOf(two, b) = SizeOf(one, b) + SizeOf(one, nxt)
          /\ \A z \in Addr \ {b} : NextOf(two, z) = NextOf(one, z) /\ SizeOf(two, z) = SizeOf(one, z)
      BY <1>2, <3>1, MergedShape
    <3>. QED  BY <1>1, <2>1, <3>2
  <2>2. CASE ~JoinsNxt(m, pre, b)
    BY <1>1, <1>2, <1>s, <1>t, <2>2 DEF WithNxt
  <2>. QED  BY <2>1, <2>2
<1>5. CASE JoinsPre(m, pre, b)
  <2>1. t = Merged(two, pre, b)
    BY <1>t, <1>5 DEF Returned
  <2>2. /\ Freep(t) = Freep(two) /\ NextOf(t, pre) = NextOf(two, b)
        /\ SizeOf(t, pre) = SizeOf(two, pre) + SizeOf(two, b)
        /\ \A z \in Addr \ {pre} : NextOf(t, z) = NextOf(two, z) /\ SizeOf(t, z) = SizeOf(two, z)
    BY <1>4, <2>1, MergedShape
  <2>3. SizeOf(t, pre) = IF JoinsNxt(m, pre, b)
                         THEN SizeOf(m, pre) + SizeOf(m, b) + SizeOf(m, nxt)
                         ELSE SizeOf(m, pre) + SizeOf(m, b)
    BY <1>3, <1>4, <2>2
  <2>. QED  BY <1>4, <1>5, <2>2, <2>3
<1>6. CASE ~JoinsPre(m, pre, b)
  <2>1. t = two
    BY <1>t, <1>6 DEF Returned
  <2>. QED  BY <1>4, <1>6, <2>1
<1>. QED  BY <1>5, <1>6

LEMMA InsertionCells ==
    ASSUME NEW m \in Memories, NEW pre \in Addr, NEW b \in Addr, NEW nxt \in Addr,
           nxt = NextOf(m, pre), pre # b, pre # nxt, b # nxt,
           NEW sp \in Nat, NEW sb \in Nat, NEW sn \in Nat,
           sp = SizeOf(m, pre), sb = SizeOf(m, b), sn = SizeOf(m, nxt),
           JoinsPre(m, pre, b) => sp + sb \in 0..Units,
           JoinsNxt(m, pre, b) => sb + sn \in 0..Units,
           JoinsPre(m, pre, b) /\ JoinsNxt(m, pre, b) => sp + sb + sn \in 0..Units,
           NEW r, r = AfterStores(m, Insertion(m, pre, b, nxt))
    PROVE  /\ r \in Memories /\ Freep(r) = pre
           /\ NextOf(r, pre) = IF JoinsPre(m, pre, b)
                               THEN IF JoinsNxt(m, pre, b) THEN NextOf(m, nxt) ELSE nxt
                               ELSE b
           /\ SizeOf(r, pre) = IF JoinsPre(m, pre, b)
                               THEN IF JoinsNxt(m, pre, b) THEN sp + sb + sn ELSE sp + sb
                               ELSE sp
           /\ ~JoinsPre(m, pre, b) =>
                 /\ NextOf(r, b) = IF JoinsNxt(m, pre, b) THEN NextOf(m, nxt) ELSE nxt
                 /\ SizeOf(r, b) = IF JoinsNxt(m, pre, b) THEN sb + sn ELSE sb
           /\ \A x \in Addr \ {pre, b} : NextOf(r, x) = NextOf(m, x) /\ SizeOf(r, x) = SizeOf(m, x)
<1>n. PICK nn : nn = NextOf(m, nxt)
  OBVIOUS
<1>i. PICK ws : ws = Insertion(m, pre, b, nxt)
  OBVIOUS
<1>0. nn \in Links /\ nxt \in Links /\ b \in Links
  BY <1>n DEF Memories, NextOf, Links
<1>1. CASE JoinsPre(m, pre, b) /\ JoinsNxt(m, pre, b)
  <2>1. ws = << SetNext(pre, nn), SetSize(pre, sp + sb + sn), SetFreep(pre) >>
    BY <1>1, <1>n, <1>i DEF Insertion, JoinsPre, JoinsNxt
  <2>2. PICK s1 : s1 = Store(m, SetNext(pre, nn))
    OBVIOUS
  <2>3. PICK s2 : s2 = Store(s1, SetSize(pre, sp + sb + sn))
    OBVIOUS
  <2>4. r = Store(s2, SetFreep(pre))
    <3>1. Len(ws) = 3 /\ ws[1] = SetNext(pre, nn) /\ ws[2] = SetSize(pre, sp + sb + sn)
          /\ ws[3] = SetFreep(pre)
      BY <2>1
    <3>2. r = Store(Store(Store(m, ws[1]), ws[2]), ws[3])
      BY <1>i, <3>1, AfterFew
    <3>. QED  BY <2>2, <2>3, <3>1, <3>2
  <2>5. s1 \in Memories /\ \A x \in Addr : /\ NextOf(s1, x) = IF x = pre THEN nn ELSE NextOf(m, x)
                                         /\ SizeOf(s1, x) = SizeOf(m, x)
    BY <1>0, <2>2, StoreNext, SMTT(40)
  <2>v. PICK v \in 0..Units : v = sp + sb + sn
    BY <1>1
  <2>6. s2 \in Memories /\ \A x \in Addr : /\ NextOf(s2, x) = NextOf(s1, x)
                                         /\ SizeOf(s2, x) = IF x = pre THEN v ELSE SizeOf(s1, x)
    BY <2>3, <2>5, <2>v, StoreSize
  <2>7. r \in Memories /\ Freep(r) = pre
        /\ \A x \in Addr : NextOf(r, x) = NextOf(s2, x) /\ SizeOf(r, x) = SizeOf(s2, x)
    BY <2>4, <2>6, StoreFreep
  <2>. QED  BY <1>1, <1>n, <2>5, <2>6, <2>7, <2>v
<1>2. CASE JoinsPre(m, pre, b) /\ ~JoinsNxt(m, pre, b)
  <2>1. ws = << SetSize(pre, sp + sb), SetFreep(pre) >>
    BY <1>2, <1>i DEF Insertion, JoinsPre, JoinsNxt
  <2>2. PICK s1 : s1 = Store(m, SetSize(pre, sp + sb))
    OBVIOUS
  <2>3. r = Store(s1, SetFreep(pre))
    <3>1. Len(ws) = 2 /\ ws[1] = SetSize(pre, sp + sb) /\ ws[2] = SetFreep(pre)
      BY <2>1
    <3>2. r = Store(Store(m, ws[1]), ws[2])
      BY <1>i, <3>1, AfterFew
    <3>. QED  BY <2>2, <3>1, <3>2
  <2>v. PICK v \in 0..Units : v = sp + sb
    BY <1>2
  <2>4. s1 \in Memories /\ \A x \in Addr : /\ NextOf(s1, x) = NextOf(m, x)
                                         /\ SizeOf(s1, x) = IF x = pre THEN v ELSE SizeOf(m, x)
    BY <2>2, <2>v, StoreSize, SMTT(40)
  <2>5. r \in Memories /\ Freep(r) = pre
        /\ \A x \in Addr : NextOf(r, x) = NextOf(s1, x) /\ SizeOf(r, x) = SizeOf(s1, x)
    BY <2>3, <2>4, StoreFreep
  <2>. QED  BY <1>2, <2>4, <2>5, <2>v
<1>3. CASE ~JoinsPre(m, pre, b) /\ JoinsNxt(m, pre, b)
  <2>1. ws = << SetNext(b, nn), SetNext(pre, b), SetSize(b, sb + sn), SetFreep(pre) >>
    BY <1>3, <1>n, <1>i DEF Insertion, JoinsPre, JoinsNxt
  <2>2. PICK s1 : s1 = Store(m, SetNext(b, nn))
    OBVIOUS
  <2>3. PICK s2 : s2 = Store(s1, SetNext(pre, b))
    OBVIOUS
  <2>4. PICK s3 : s3 = Store(s2, SetSize(b, sb + sn))
    OBVIOUS
  <2>5. r = Store(s3, SetFreep(pre))
    <3>1. Len(ws) = 4 /\ ws[1] = SetNext(b, nn) /\ ws[2] = SetNext(pre, b)
          /\ ws[3] = SetSize(b, sb + sn) /\ ws[4] = SetFreep(pre)
      BY <2>1
    <3>2. r = Store(Store(Store(Store(m, ws[1]), ws[2]), ws[3]), ws[4])
      BY <1>i, <3>1, AfterFew
    <3>. QED  BY <2>2, <2>3, <2>4, <3>1, <3>2
  <2>6. s1 \in Memories /\ \A x \in Addr : /\ NextOf(s1, x) = IF x = b THEN nn ELSE NextOf(m, x)
                                         /\ SizeOf(s1, x) = SizeOf(m, x)
    BY <1>0, <2>2, StoreNext, SMTT(40)
  <2>7. s2 \in Memories /\ \A x \in Addr : /\ NextOf(s2, x) = IF x = pre THEN b ELSE NextOf(s1, x)
                                         /\ SizeOf(s2, x) = SizeOf(s1, x)
    BY <1>0, <2>3, <2>6, StoreNext, SMTT(40)
  <2>v. PICK v \in 0..Units : v = sb + sn
    BY <1>3
  <2>8. s3 \in Memories /\ \A x \in Addr : /\ NextOf(s3, x) = NextOf(s2, x)
                                         /\ SizeOf(s3, x) = IF x = b THEN v ELSE SizeOf(s2, x)
    BY <2>4, <2>7, <2>v, StoreSize, SMTT(40)
  <2>9. r \in Memories /\ Freep(r) = pre
        /\ \A x \in Addr : NextOf(r, x) = NextOf(s3, x) /\ SizeOf(r, x) = SizeOf(s3, x)
    BY <2>5, <2>8, StoreFreep
  <2>. QED  BY <1>3, <1>n, <2>6, <2>7, <2>8, <2>9, <2>v
<1>4. CASE ~JoinsPre(m, pre, b) /\ ~JoinsNxt(m, pre, b)
  <2>1. ws = << SetNext(b, nxt), SetNext(pre, b), SetFreep(pre) >>
    BY <1>4, <1>i DEF Insertion, JoinsPre, JoinsNxt
  <2>2. PICK s1 : s1 = Store(m, SetNext(b, nxt))
    OBVIOUS
  <2>3. PICK s2 : s2 = Store(s1, SetNext(pre, b))
    OBVIOUS
  <2>4. r = Store(s2, SetFreep(pre))
    <3>1. Len(ws) = 3 /\ ws[1] = SetNext(b, nxt) /\ ws[2] = SetNext(pre, b) /\ ws[3] = SetFreep(pre)
      BY <2>1
    <3>2. r = Store(Store(Store(m, ws[1]), ws[2]), ws[3])
      BY <1>i, <3>1, AfterFew
    <3>. QED  BY <2>2, <2>3, <3>1, <3>2
  <2>5. s1 \in Memories /\ \A x \in Addr : /\ NextOf(s1, x) = IF x = b THEN nxt ELSE NextOf(m, x)
                                         /\ SizeOf(s1, x) = SizeOf(m, x)
    BY <1>0, <2>2, StoreNext, SMTT(40)
  <2>6. s2 \in Memories /\ \A x \in Addr : /\ NextOf(s2, x) = IF x = pre THEN b ELSE NextOf(s1, x)
                                         /\ SizeOf(s2, x) = SizeOf(s1, x)
    BY <1>0, <2>3, <2>5, StoreNext, SMTT(40)
  <2>7. r \in Memories /\ Freep(r) = pre
        /\ \A x \in Addr : NextOf(r, x) = NextOf(s2, x) /\ SizeOf(r, x) = SizeOf(s2, x)
    BY <2>4, <2>6, StoreFreep
  <2>. QED  BY <1>4, <2>5, <2>6, <2>7
<1>. QED  BY <1>1, <1>2, <1>3, <1>4

LEMMA ReturnHeap ==
    ASSUME NEW m, NEW F, NEW L, NEW lossy, Allocs(m, L), Tiles(m, F, UsedBy(L)),
           lossy \/ Covers(m, F, UsedBy(L)), NEW a \in L, NEW b, b = Block(a),
           NEW pre \in F, NEW nxt, nxt = NextOf(m, pre), Between(pre, b, nxt)
    PROVE  Heap(AfterStores(m, Insertion(m, pre, b, nxt)), L \ {a}, lossy)
<1>. DEFINE U == UsedBy(L)
            G == RingReturned(m, F, pre, b)
<1>1. /\ m \in Memories /\ b \in U /\ b \in Addr /\ pre \in Addr /\ nxt \in Addr /\ nxt \in F
      /\ b \in Nat /\ pre \in Nat /\ nxt \in Nat /\ F \subseteq Addr /\ U \subseteq Addr
      /\ U \cap F = {}
  <2>1. Lays(m, F, U) /\ b \in U
    BY DEF Tiles, UsedBy
  <2>. HIDE DEF U
  <2>2. /\ \A x \in F \cup U : x \in Addr /\ x \in 0..Units
        /\ \A x \in F : NextOf(m, x) \in F
        /\ Units \in Nat
    BY <2>1, LaysTyped
  <2>. QED  BY <2>1, <2>2 DEF Lays
<1>2. pre # b /\ pre # nxt /\ b # nxt
  BY <1>1 DEF Between
<1>t. PICK t : t = Returned(m, pre, b)
  OBVIOUS
<1>r. PICK r : r = AfterStores(m, Insertion(m, pre, b, nxt))
  OBVIOUS
<1>s. PICK sp, sb, sn : sp = SizeOf(m, pre) /\ sb = SizeOf(m, b) /\ sn = SizeOf(m, nxt)
  OBVIOUS
<1>3. sp \in Nat /\ sb \in Nat /\ sn \in Nat
  <2>1. \A x \in Addr : SizeOf(m, x) \in 0..Units
    BY <1>1 DEF Memories, SizeOf
  <2>. QED  BY ONLY <1>1, <1>s, <2>1, AddrFacts
<1>4. Tiles(m, F, U) /\ (lossy \/ Covers(m, F, U))
  OBVIOUS
<1>. HIDE DEF U, G
<1>5. Tiles(t, G, U \ {b}) /\ (Covers(m, F, U) => Covers(t, G, U \ {b}))
  BY <1>1, <1>4, <1>t, TilesReturned DEF G
<1>6. t \in Memories /\ \A x \in Addr : SizeOf(t, x) \in 0..Units
  <2>1. t \in Memories
    BY <1>5 DEF Tiles, Lays
  <2>. QED  BY <2>1 DEF Memories, SizeOf
<1>7. /\ Freep(t) = pre
      /\ NextOf(t, pre) = IF JoinsPre(m, pre, b)
                          THEN IF JoinsNxt(m, pre, b) THEN NextOf(m, nxt) ELSE nxt
                          ELSE b
      /\ SizeOf(t, pre) = IF JoinsPre(m, pre, b)
                          THEN IF JoinsNxt(m, pre, b) THEN sp + sb + sn ELSE sp + sb
                          ELSE sp
      /\ NextOf(t, b) = IF JoinsNxt(m, pre, b) THEN NextOf(m, nxt) ELSE nxt
      /\ SizeOf(t, b) = IF JoinsNxt(m, pre, b) THEN sb + sn ELSE sb
      /\ \A x \in Addr \ {pre, b} : NextOf(t, x) = NextOf(m, x) /\ SizeOf(t, x) = SizeOf(m, x)
  BY <1>1, <1>2, <1>s, <1>t, ReturnedCells
<1>8. /\ r \in Memories /\ Freep(r) = pre
      /\ NextOf(r, pre) = NextOf(t, pre) /\ SizeOf(r, pre) = SizeOf(t, pre)
      /\ ~JoinsPre(m, pre, b) => NextOf(r, b) = NextOf(t, b) /\ SizeOf(r, b) = SizeOf(t, b)
      /\ \A x \in Addr \ {pre, b} : NextOf(r, x) = NextOf(m, x) /\ SizeOf(r, x) = SizeOf(m, x)
  <2>1. /\ JoinsPre(m, pre, b) => sp + sb \in 0..Units \/ JoinsNxt(m, pre, b)
        /\ JoinsNxt(m, pre, b) => sb + sn \in 0..Units
        /\ JoinsPre(m, pre, b) /\ JoinsNxt(m, pre, b) => sp + sb + sn \in 0..Units
    BY <1>1, <1>6, <1>7
  <2>2. JoinsPre(m, pre, b) => sp + sb \in 0..Units
    BY <1>3, <2>1, AddrFacts
  <2>. QED  BY <1>1, <1>2, <1>3, <1>r, <1>s, <1>7, <2>1, <2>2, InsertionCells, SMTT(40)
<1>9. G \subseteq F \cup {b} /\ (JoinsPre(m, pre, b) => b \notin G)
  BY DEF G, RingReturned, RingWithNxt
<1>10. ASSUME NEW x \in G \cup (U \ {b})
       PROVE  NextOf(r, x) = NextOf(t, x) /\ SizeOf(r, x) = SizeOf(t, x)
  <2>1. x \in Addr
    BY <1>1, <1>9
  <2>2. x = b => ~JoinsPre(m, pre, b)
    BY <1>9
  <2>. QED  BY <1>7, <1>8, <2>1, <2>2
<1>11. Tiles(r, G, U \ {b}) /\ (Covers(m, F, U) => Covers(r, G, U \ {b}))
  <2>1. /\ Freep(r) = Freep(t) /\ \A x \in G : NextOf(r, x) = NextOf(t, x)
        /\ \A x \in G \cup (U \ {b}) : SizeOf(r, x) = SizeOf(t, x)
    BY <1>7, <1>8, <1>10
  <2>. QED  BY <1>5, <1>8, <2>1, TilesFrame
<1>12. Allocs(r, L \ {a}) /\ UsedBy(L \ {a}) = U \ {b}
  <2>1. Allocs(m, L \ {a}) /\ UsedBy(L \ {a}) = U \ {b}
    BY AllocsRemoved DEF U
  <2>2. \A x \in U \ {b} : SizeOf(r, x) = SizeOf(m, x)
    BY <1>1, <1>8
  <2>. QED  BY <2>1, <2>2, AllocsFrame
<1>13. Heap(r, L \ {a}, lossy)
  BY <1>4, <1>11, <1>12 DEF Heap
<1>. QED  BY <1>13, <1>r

LEMMA RefillHeap ==
    ASSUME NEW m, NEW L, NEW lossy, Allocs(m, L), Tiles(m, {Base}, UsedBy(L)),
           lossy \/ Covers(m, {Base}, UsedBy(L)), NEW a \in L, NEW b, b = Block(a),
           Freep(m) = Base
    PROVE  Heap(AfterStores(m, Refill(b)), L \ {a}, lossy)
<1>. DEFINE U == UsedBy(L)
<1>1. m \in Memories /\ b \in U /\ b \in Addr /\ Base \in Addr /\ b # Base /\ U \subseteq Addr
  <2>1. Lays(m, {Base}, U) /\ b \in U
    BY DEF Tiles, UsedBy
  <2>. HIDE DEF U
  <2>. QED  BY <2>1, LaysTyped DEF Lays
<1>2. Tiles(m, {Base}, U) /\ (lossy \/ Covers(m, {Base}, U))
  OBVIOUS
<1>. HIDE DEF U
<1>s. PICK s : s = Store(m, SetNext(Base, b))
  OBVIOUS
<1>r. PICK r : r = Store(s, SetNext(b, Base))
  OBVIOUS
<1>3. AfterStores(m, Refill(b)) = r
  <2>. PICK ws : ws = Refill(b)
    OBVIOUS
  <2>1. Len(ws) = 2 /\ ws[1] = SetNext(Base, b) /\ ws[2] = SetNext(b, Base)
    BY DEF Refill
  <2>. QED  BY <1>s, <1>r, <2>1, AfterFew
<1>4. b \in Links /\ Base \in Links
  BY <1>1 DEF Links
<1>5. /\ s \in Memories /\ Freep(s) = Freep(m)
      /\ \A x \in Addr : /\ NextOf(s, x) = IF x = Base THEN b ELSE NextOf(m, x)
                         /\ SizeOf(s, x) = SizeOf(m, x)
  BY <1>1, <1>4, <1>s, StoreNext
<1>6. /\ r \in Memories /\ Freep(r) = Freep(s)
      /\ \A x \in Addr : /\ NextOf(r, x) = IF x = b THEN Base ELSE NextOf(s, x)
                         /\ SizeOf(r, x) = SizeOf(s, x)
  BY <1>1, <1>4, <1>5, <1>r, StoreNext
<1>7. /\ Freep(r) = Base /\ NextOf(r, Base) = b /\ NextOf(r, b) = Base
      /\ \A x \in {Base} \cup U : SizeOf(r, x) = SizeOf(m, x)
  BY <1>1, <1>5, <1>6
<1>8. /\ Tiles(r, {Base, b}, U \ {b})
      /\ Covers(m, {Base}, U) => Covers(r, {Base, b}, U \ {b})
  BY <1>1, <1>2, <1>6, <1>7, TilesRefilled
<1>9. Allocs(r, L \ {a}) /\ UsedBy(L \ {a}) = U \ {b}
  <2>1. Allocs(m, L \ {a}) /\ UsedBy(L \ {a}) = U \ {b}
    BY AllocsRemoved DEF U
  <2>. QED  BY <1>7, <2>1, AllocsFrame
<1>10. Heap(r, L \ {a}, lossy)
  BY <1>2, <1>8, <1>9 DEF Heap
<1>. QED  BY <1>3, <1>10

(* A block in use has its place in the ring, unless nothing is free.       *)
LEMMA PlaceFound ==
    ASSUME NEW m, NEW F, NEW U, Lays(m, F, U), NEW b \in U,
           \A x \in F : ~Between(x, b, NextOf(m, x))
    PROVE  F = {Base} /\ NextOf(m, Base) = Base /\ Freep(m) = Base
<1>1. /\ Units \in Nat /\ Base = 0 /\ Base \in F /\ F \subseteq 0..Units /\ b \in 1..Units
      /\ b \notin F /\ Freep(m) \in F
      /\ \A x \in F : Succ(F, x, NextOf(m, x)) /\ NextOf(m, x) \in F
  <2>1. b \in 1..Units /\ b \notin F
    BY DEF Lays
  <2>. QED  BY <2>1, LaysTyped
<1>. DEFINE T == {x \in F : x < b}
<1>2. PICK x \in T : \A y \in T : y <= x
  <2>1. T \in SUBSET (0..Units) /\ T # {}
    <3>1. b \in Nat /\ 0 < b
      BY <1>1
    <3>2. 0 \in T
      BY <1>1, <3>1
    <3>3. T \subseteq F
      OBVIOUS
    <3>. HIDE DEF T
    <3>. QED  BY ONLY <1>1, <3>2, <3>3
  <2>. HIDE DEF T
  <2>. QED  BY <1>1, <2>1, GreatestOf
<1>n. PICK nxt : nxt = NextOf(m, x)
  OBVIOUS
<1>3. x \in F /\ x < b /\ nxt \in F /\ Succ(F, x, nxt) /\ ~Between(x, b, nxt)
      /\ x \in Nat /\ nxt \in Nat /\ b \in Nat /\ nxt # b
  <2>1. x \in F /\ x < b
    OBVIOUS
  <2>2. nxt \in F /\ Succ(F, x, nxt) /\ ~Between(x, b, nxt)
    BY <1>1, <1>n, <2>1
  <2>3. \A y \in F : y \in Nat
    BY ONLY <1>1
  <2>. QED  BY <1>1, <2>1, <2>2, <2>3
<1>4. nxt = Base /\ \A y \in F : y <= x
  <2>. SUFFICES ASSUME x < nxt PROVE FALSE
    BY <1>3 DEF Succ
  <2>1. nxt \notin T
    BY <1>2, <1>3
  <2>. QED  BY <1>3, <2>1 DEF Between
<1>5. x = Base
  BY <1>1, <1>3, <1>4 DEF Between
<1>6. F = {Base}
  <2>1. \A y \in F : y = Base
    BY ONLY <1>1, <1>4, <1>5
  <2>. QED  BY ONLY <1>1, <2>1
<1>. QED  BY <1>1, <1>6

-----------------------------------------------------------------------------
(* deallocate preserves the invariant, as long as nobody dies in it: it    *)
(* finds a place for the block.                                            *)

LEMMA DeallocateStep ==
    ASSUME HeapInv, "deallocate" \notin MayDieIn, NEW a \in live, Deallocate(a)
    PROVE  HeapInv'
<1>1. PICK F : Tiles(mem, F, UsedBy(live)) /\ (died \/ Covers(mem, F, UsedBy(live)))
  BY DEF HeapInv, Heap
<1>2. Allocs(mem, live) /\ died \in BOOLEAN /\ stuck = FALSE
  BY DEF HeapInv, Heap
<1>b. PICK b : b = Block(a)
  OBVIOUS
<1>w. PICK w : w = Walk(mem)
  OBVIOUS
<1>3. Ring(mem, F) /\ Lays(mem, F, UsedBy(live)) /\ b \in UsedBy(live)
  BY <1>1, <1>b DEF Tiles, Lays, UsedBy
<1>4. /\ RingLength(w) \in 1..Units + 1
      /\ \A i \in 1..RingLength(w) : w[i + 1] = NextOf(mem, w[i]) /\ w[i] \in F
      /\ \A x \in F : \E i \in 1..RingLength(w) : x = w[i]
  <2>1. {w[i] : i \in 1..RingLength(w)} = F
    BY <1>3, <1>w, RingWalk
  <2>. QED  BY <1>3, <1>w, <2>1, RingWalk
<1>. DEFINE at == {i \in 1..RingLength(w) : Between(w[i], b, w[i + 1])}
            insertion == Insertion(mem, w[FirstOf(at)], b, w[FirstOf(at) + 1])
<1>5. \/ at # {} /\ Finish(insertion, live \ {a})
      \/ at = {} /\ Finish(Refill(b), live \ {a})
      \/ at = {} /\ ~HeapIsFull(mem)
  BY <1>b, <1>w DEF Deallocate
<1>6. CASE at # {} /\ Finish(insertion, live \ {a})
  <2>i. PICK i : i = FirstOf(at)
    OBVIOUS
  <2>1. i \in 1..RingLength(w) /\ Between(w[i], b, w[i + 1])
    <3>1. at \in SUBSET Nat
      OBVIOUS
    <3>2. i \in at
      <4>. HIDE DEF at
      <4>. QED  BY <1>6, <2>i, <3>1, FirstOfIsLeast
    <3>. QED  BY <3>2
  <2>p. PICK pre, nxt : pre = w[i] /\ nxt = w[i + 1]
    OBVIOUS
  <2>2. pre \in F /\ nxt = NextOf(mem, pre) /\ Between(pre, b, nxt)
    BY <1>4, <2>1, <2>p
  <2>3. Heap(AfterStores(mem, Insertion(mem, pre, b, nxt)), live \ {a}, died)
    BY <1>1, <1>2, <1>b, <2>2, ReturnHeap
  <2>4. insertion = Insertion(mem, pre, b, nxt)
    BY <2>i, <2>p
  <2>. HIDE DEF insertion, at
  <2>. QED  BY <1>2, <1>6, <2>3, <2>4, ScrubbedHeap DEF Finish, HeapInv
<1>7. ASSUME at = {}
      PROVE  F = {Base} /\ NextOf(mem, Base) = Base /\ Freep(mem) = Base
  <2>1. ASSUME NEW x \in F
        PROVE  ~Between(x, b, NextOf(mem, x))
    <3>1. PICK i \in 1..RingLength(w) : x = w[i]
      BY <1>4
    <3>2. ~Between(w[i], b, w[i + 1])
      BY <1>7
    <3>. QED  BY <1>4, <3>1, <3>2
  <2>. QED  BY <1>3, <2>1, PlaceFound
<1>8. CASE at = {} /\ Finish(Refill(b), live \ {a})
  <2>1. Heap(AfterStores(mem, Refill(b)), live \ {a}, died)
    BY <1>1, <1>2, <1>7, <1>8, <1>b, RefillHeap
  <2>. QED  BY <1>2, <1>8, <2>1, ScrubbedHeap DEF Finish, HeapInv
<1>9. CASE at = {} /\ ~HeapIsFull(mem)
  BY <1>7, <1>9 DEF HeapIsFull
<1>. QED  BY <1>5, <1>6, <1>8, <1>9

-----------------------------------------------------------------------------
LEMMA InitHeap ==
    ASSUME Init
    PROVE  HeapInv
<1>. DEFINE F == {Base, 1}
            m == [next |-> [b \in Addr |-> IF b = Base THEN 1 ELSE 0],
                  size |-> [b \in Addr |-> IF b = 1 THEN Units ELSE 0],
                  freep |-> [b \in {Base} |-> Base]]
<1>1. mem = m /\ live = {} /\ died = FALSE /\ stuck = FALSE /\ UsedBy(live) = {}
  BY DEF Init, UsedBy
<1>2. /\ 1 \in Addr /\ 0 \in Addr /\ Base = 0 /\ Base \in Addr /\ Units \in 0..Units /\ 0 \in 0..Units
      /\ Units \in Nat /\ Units >= 1
  BY AddrFacts
<1>3. m \in Memories
  BY <1>2 DEF Memories
<1>4. /\ Freep(m) = Base /\ NextOf(m, Base) = 1 /\ NextOf(m, 1) = Base
      /\ SizeOf(m, Base) = 0 /\ SizeOf(m, 1) = Units /\ EndOf(m, 1) = 1 + Units
  BY <1>2 DEF Freep, NextOf, SizeOf, EndOf
<1>. HIDE DEF m
<1>5. Ring(m, F)
  BY <1>2, <1>4 DEF Ring, Succ
<1>6. Blocks(F, {}) = {1}
  BY <1>2 DEF Blocks
<1>7. Lays(m, F, {})
  BY <1>2, <1>3, <1>4, <1>5, <1>6 DEF Lays
<1>8. \A b, c \in F \ {Base} : EndOf(m, b) # c
  BY <1>2, <1>4
<1>9. Tiles(m, F, {})
  BY <1>7, <1>8 DEF Tiles
<1>10. Covers(m, F, {})
  BY <1>2, <1>4, <1>6 DEF Covers
<1>11. Allocs(m, {})
  BY DEF Allocs
<1>12. Heap(m, {}, FALSE)
  <2>. HIDE DEF F
  <2>1. UsedBy({}) = {}
    BY DEF UsedBy
  <2>. QED  BY <1>9, <1>10, <1>11, <2>1 DEF Heap
<1>. QED  BY <1>1, <1>12 DEF HeapInv

LEMMA HeapInvHolds ==
    ASSUME Aligns \subseteq {1}, "deallocate" \notin MayDieIn
    PROVE  Spec => []HeapInv
<1>1. HeapInv /\ [Next]_vars => HeapInv'
  <2>. SUFFICES ASSUME HeapInv, [Next]_vars PROVE HeapInv'
    OBVIOUS
  <2>1. CASE UNCHANGED vars
    BY <2>1 DEF HeapInv, vars
  <2>. QED  BY <2>1, AllocateStep, DeallocateStep DEF Next
<1>. QED  BY <1>1, InitHeap, PTL DEF Spec

-----------------------------------------------------------------------------
(* What the invariant says in the terms of OffsetMalloc.                   *)

LEMMA RingIsFreeBlocks ==
    ASSUME NEW F, Ring(mem, F)
    PROVE  FreeBlocks = F /\ RingLength(Walk(mem)) # 0
<1>1. {Walk(mem)[i] : i \in 1..RingLength(Walk(mem))} = F /\ RingLength(Walk(mem)) \in 1..Units + 1
  BY RingWalk
<1>. QED  BY <1>1, AddrFacts DEF FreeBlocks

LEMMA InvTyped == HeapInv => TypeOK
<1>. SUFFICES ASSUME HeapInv PROVE TypeOK
  OBVIOUS
<1>1. PICK F : Tiles(mem, F, UsedBy(live))
  BY DEF HeapInv, Heap
<1>2. mem \in Memories /\ UsedBy(live) \subseteq Addr
  BY <1>1, AddrFacts DEF Tiles, Lays
<1>3. ASSUME NEW a \in live
      PROVE  a.req \in Requests /\ a.align \in Aligns /\ Block(a) \in Addr
  <2>1. Block(a) \in UsedBy(live)
    BY DEF UsedBy
  <2>. QED  BY <1>2, <2>1 DEF HeapInv, Heap, Allocs
<1>. QED  BY <1>2, <1>3 DEF HeapInv, TypeOK, Memories

LEMMA InvRing == HeapInv => FreeListSound
<1>. SUFFICES ASSUME HeapInv PROVE FreeListSound
  OBVIOUS
<1>1. PICK F : Tiles(mem, F, UsedBy(live))
  BY DEF HeapInv, Heap
<1>2. Ring(mem, F) /\ F \subseteq Nat /\ Base \in F /\ SizeOf(mem, Base) = 0
  BY <1>1, AddrFacts DEF Tiles, Lays, Ring
<1>3. FreeBlocks = F /\ RingLength(Walk(mem)) # 0
  BY <1>2, RingIsFreeBlocks
<1>4. ASSUME NEW b \in F
      PROVE  LET above == {c \in F : c > b}
             IN  NextOf(mem, b) = IF above = {} THEN Base ELSE FirstOf(above)
  <2>. DEFINE above == {c \in F : c > b}
  <2>n. PICK nxt : nxt = NextOf(mem, b)
    OBVIOUS
  <2>1. Succ(F, b, nxt) /\ nxt \in F /\ nxt \in Nat /\ b \in Nat
    BY <1>2, <2>n DEF Ring, Succ
  <2>2. CASE above = {}
    BY <1>2, <2>1, <2>2, <2>n DEF Succ
  <2>3. CASE above # {}
    <3>1. above \in SUBSET Nat
      BY <1>2
    <3>2. nxt \in above /\ \A x \in above : nxt <= x
      <4>1. PICK y \in F : y > b
        BY <2>3
      <4>2. ~(y <= b)
        BY <1>2, <2>1, <4>1
      <4>3. b < nxt /\ \A x \in F : x <= b \/ nxt <= x
        BY <2>1, <4>2 DEF Succ
      <4>. QED  BY <1>2, <2>1, <4>3
    <3>. HIDE DEF above
    <3>3. FirstOf(above) \in above /\ \A x \in above : FirstOf(above) <= x
      BY <2>3, <3>1, FirstOfIsLeast
    <3>4. FirstOf(above) = nxt
      <4>. PICK l : l = FirstOf(above)
        OBVIOUS
      <4>1. l <= nxt /\ nxt <= l /\ l \in Nat
        BY <3>1, <3>2, <3>3
      <4>. QED  BY <2>1, <4>1
    <3>5. NextOf(mem, b) = IF above = {} THEN Base ELSE FirstOf(above)
      BY <2>3, <2>n, <3>4
    <3>. QED  BY <3>5 DEF above
  <2>. QED  BY <2>2, <2>3
<1>. QED  BY <1>2, <1>3, <1>4 DEF FreeListSound

LEMMA InvTiles ==
    ASSUME HeapInv
    PROVE  NoOverlap /\ NothingLost /\ Coalesced
<1>1. PICK F : Tiles(mem, F, UsedBy(live)) /\ (~died => Covers(mem, F, UsedBy(live)))
  BY DEF HeapInv, Heap
<1>2. FreeBlocks = F /\ Lays(mem, F, UsedBy(live)) /\ Used = UsedBy(live)
  <2>1. Ring(mem, F)
    BY <1>1 DEF Tiles, Lays
  <2>. QED  BY <1>1, <2>1, RingIsFreeBlocks DEF Tiles, Used, UsedBy
<1>. DEFINE B == Blocks(F, Used)
<1>3. Used \cup Spare = B
  BY <1>2 DEF Spare, Blocks
<1>4. /\ Units \in Nat
      /\ \A x \in B : x \in 1..Units /\ EndOf(mem, x) \in 2..Units + 1
      /\ \A x, y \in B : x < y => EndOf(mem, x) <= y
  BY <1>2, BlocksTyped
<1>. HIDE DEF B
<1>5. NoOverlap
  <2>1. /\ \A a, b \in live : a # b => Block(a) # Block(b)
        /\ \A a \in live : a.req < SizeOf(mem, Block(a))
    BY DEF HeapInv, Heap, Allocs
  <2>2. Used \cap FreeBlocks = {}
    BY <1>2 DEF Lays
  <2>3. ASSUME NEW b \in B
        PROVE  Extent(b) \subseteq 1..Units
    BY <1>4 DEF Extent
  <2>4. ASSUME NEW b \in B, NEW c \in B, b # c
        PROVE  Extent(b) \cap Extent(c) = {}
    <3>1. /\ b \in Nat /\ c \in Nat /\ EndOf(mem, b) \in Nat /\ EndOf(mem, c) \in Nat
          /\ b < c => EndOf(mem, b) <= c
          /\ c < b => EndOf(mem, c) <= b
      BY <1>4
    <3>. QED  BY <2>4, <3>1 DEF Extent
  <2>. QED  BY <1>3, <2>1, <2>2, <2>3, <2>4 DEF NoOverlap
<1>6. NothingLost
  <2>. SUFFICES ASSUME ~died PROVE 1..Units = UNION {Extent(b) : b \in B}
    BY <1>3 DEF NothingLost
  <2>1. ASSUME NEW u \in 1..Units
        PROVE  \E b \in B : u \in Extent(b)
    <3>1. PICK b \in B : b <= u /\ u < EndOf(mem, b)
      BY <1>1, <1>2 DEF Covers, B
    <3>2. b \in Nat /\ EndOf(mem, b) \in Nat /\ u \in Nat
      BY <1>4
    <3>. QED  BY <3>1, <3>2 DEF Extent
  <2>2. ASSUME NEW b \in B
        PROVE  Extent(b) \subseteq 1..Units
    BY <1>4 DEF Extent
  <2>. QED  BY <2>1, <2>2
<1>7. Coalesced
  BY <1>1, <1>2 DEF Coalesced, Spare, Tiles
<1>. QED  BY <1>5, <1>6, <1>7

-----------------------------------------------------------------------------
(* The theorems are about callers that ask for no more alignment than a    *)
(* header has (a larger one lets blocks overlap: the aligned run), and     *)
(* that do not die inside deallocate.  They may die inside allocate.       *)

(* Headers, op_freep_ and the recorded allocations keep their types. *)
THEOREM HeapIsTyped ==
    ASSUME Aligns \subseteq {1}, "deallocate" \notin MayDieIn
    PROVE  Spec => []TypeOK
BY HeapInvHolds, InvTyped, PTL

(* The free list is always a ring in address order through base_blk_: the  *)
(* walks of allocate and deallocate end.                                   *)
THEOREM FreeListStaysSound ==
    ASSUME Aligns \subseteq {1}, "deallocate" \notin MayDieIn
    PROVE  Spec => []FreeListSound
BY HeapInvHolds, InvRing, PTL

(* No unit of memory is ever in two blocks, and every allocation is as     *)
(* large as what was asked for.                                            *)
THEOREM BlocksNeverOverlap ==
    ASSUME Aligns \subseteq {1}, "deallocate" \notin MayDieIn
    PROVE  Spec => []NoOverlap
BY HeapInvHolds, InvTiles, PTL

(* As long as nobody has died in allocate, every unit is in some block. *)
THEOREM NoUnitIsLost ==
    ASSUME Aligns \subseteq {1}, "deallocate" \notin MayDieIn
    PROVE  Spec => []NothingLost
BY HeapInvHolds, InvTiles, PTL

(* deallocate leaves no two free blocks that touch, in whatever order      *)
(* blocks come back.                                                       *)
THEOREM FreeBlocksAreMerged ==
    ASSUME Aligns \subseteq {1}, "deallocate" \notin MayDieIn
    PROVE  Spec => []Coalesced
BY HeapInvHolds, InvTiles, PTL

(* deallocate never throws "fail to free" for a block that was allocated. *)
THEOREM ReturnsSucceed ==
    ASSUME Aligns \subseteq {1}, "deallocate" \notin MayDieIn
    PROVE  Spec => []EveryReturnSucceeds
<1>1. HeapInv => EveryReturnSucceeds
  BY DEF HeapInv, EveryReturnSucceeds
<1>. QED  BY <1>1, HeapInvHolds, PTL
=============================================================================
