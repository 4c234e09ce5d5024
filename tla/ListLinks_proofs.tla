-------------------------- MODULE ListLinks_proofs --------------------------
(***************************************************************************)
(* What a few stores do to the links of lists: they keep their type, and   *)
(* change no cell but those they write.                                    *)
(***************************************************************************)
EXTENDS ListLinks, SequenceTheorems, FiniteSetTheorems, TLAPS

Entities == Nodes \cup Lists
Targets == Nodes \cup {Null}
Fields == {"nxt", "pre"}
Writes == Fields \X Entities \X Targets

(* The recursion of AfterStores, for the lengths that occur: the function  *)
(* exists, for here it is.                                                 *)
LEMMA AfterFew ==
    ASSUME NEW l, NEW ws, Len(ws) \in 0..4
    PROVE  LET r == AfterStores(l, ws)
           IN  /\ Len(ws) = 0 => r = l
               /\ Len(ws) = 1 => r = Store(l, ws[1])
               /\ Len(ws) = 2 => r = Store(Store(l, ws[1]), ws[2])
               /\ Len(ws) = 3 => r = Store(Store(Store(l, ws[1]), ws[2]), ws[3])
               /\ Len(ws) = 4 =>
                     r = Store(Store(Store(Store(l, ws[1]), ws[2]), ws[3]), ws[4])
<1>. DEFINE D == 0..Len(ws)
            Step(f) == [i \in D |-> IF i = 0 THEN l ELSE Store(f[i - 1], ws[i])]
            g == [i \in D |->
                    IF i = 0 THEN l
                    ELSE IF i = 1 THEN Store(l, ws[1])
                    ELSE IF i = 2 THEN Store(Store(l, ws[1]), ws[2])
                    ELSE IF i = 3 THEN Store(Store(Store(l, ws[1]), ws[2]), ws[3])
                    ELSE Store(Store(Store(Store(l, ws[1]), ws[2]), ws[3]), ws[4])]
            f == CHOOSE h : h = Step(h)
<1>0. \A i \in D : i \in {0, 1, 2, 3, 4} /\ (i # 0 => i - 1 \in D)
  <2>. PICK n \in 0..4 : n = Len(ws)
    OBVIOUS
  <2>1. D = 0..n
    OBVIOUS
  <2>. HIDE DEF D, g, Step
  <2>. QED  BY <2>1
<1>. HIDE DEF D
<1>1. g = Step(g)
  <2>. SUFFICES ASSUME NEW i \in D
                PROVE  g[i] = IF i = 0 THEN l ELSE Store(g[i - 1], ws[i])
    OBVIOUS
  <2>1. i \in {0, 1, 2, 3, 4} /\ (i # 0 => i - 1 \in D)
    BY <1>0
  <2>. HIDE DEF g
  <2>2. \A j \in D : g[j] = IF j = 0 THEN l
                    ELSE IF j = 1 THEN Store(l, ws[1])
                    ELSE IF j = 2 THEN Store(Store(l, ws[1]), ws[2])
                    ELSE IF j = 3 THEN Store(Store(Store(l, ws[1]), ws[2]), ws[3])
                    ELSE Store(Store(Store(Store(l, ws[1]), ws[2]), ws[3]), ws[4])
    BY DEF g
  <2>. QED  BY <2>1, <2>2
<1>2. f = Step(f)
  <2>. HIDE DEF g, Step
  <2>. QED  BY <1>1
<1>3. AfterStores(l, ws) = f[Len(ws)]
  BY DEF AfterStores, D
<1>. HIDE DEF f
<1>4. \A i \in D : f[i] = IF i = 0 THEN l ELSE Store(f[i - 1], ws[i])
  BY <1>2
<1>. QED  BY <1>3, <1>4 DEF D

LEMMA StoreCell ==
    ASSUME NEW l \in Links, NEW w \in Writes, NEW f \in Fields, NEW e \in Entities
    PROVE  /\ Store(l, w) \in Links
           /\ Store(l, w)[f][e] = l[f][e] \/ w = <<f, e, Store(l, w)[f][e]>>
<1>1. /\ Store(l, w) \in Links
      /\ Store(l, w)[f][e] = IF w[1] = f /\ w[2] = e THEN w[3] ELSE l[f][e]
  BY DEF Links, Writes, Store, Fields, Entities, Targets
<1>. QED  BY <1>1 DEF Writes

Wrote(ws, f, e, v) == \E i \in 1..Len(ws) : ws[i] = <<f, e, v>>

(* A cell keeps its value, or has one that was written to it. *)
LEMMA CellsWritten ==
    ASSUME NEW l \in Links, NEW ws \in Seq(Writes), Len(ws) \in 0..3,
           NEW f \in Fields, NEW e \in Entities
    PROVE  LET r == AfterStores(l, ws)
           IN  /\ r \in Links
               /\ r[f][e] = l[f][e] \/ Wrote(ws, f, e, r[f][e])
<1>. DEFINE r == AfterStores(l, ws)
            a == Store(l, ws[1])
            b == Store(a, ws[2])
            c == Store(b, ws[3])
            w(i) == ws[i]
<1>1. \A i \in 1..Len(ws) : w(i) \in Writes
  OBVIOUS
<1>2. /\ Len(ws) = 0 => r = l
      /\ Len(ws) = 1 => r = a
      /\ Len(ws) = 2 => r = b
      /\ Len(ws) = 3 => r = c
  BY AfterFew
<1>3. Len(ws) >= 1 =>
         a \in Links /\ (a[f][e] = l[f][e] \/ w(1) = <<f, e, a[f][e]>>)
  BY <1>1, StoreCell
<1>4. Len(ws) >= 2 =>
         b \in Links /\ (b[f][e] = a[f][e] \/ w(2) = <<f, e, b[f][e]>>)
  <2>. HIDE DEF a
  <2>. QED  BY <1>1, <1>3, StoreCell
<1>5. Len(ws) = 3 =>
         c \in Links /\ (c[f][e] = b[f][e] \/ w(3) = <<f, e, c[f][e]>>)
  <2>. HIDE DEF b
  <2>. QED  BY <1>1, <1>4, StoreCell
<1>. HIDE DEF a, b, c, r
<1>6. r \in Links /\ (r[f][e] = l[f][e] \/ \E i \in 1..Len(ws) : w(i) = <<f, e, r[f][e]>>)
  <2>1. Len(ws) \in {0, 1, 2, 3}
    OBVIOUS
  <2>. HIDE DEF w
  <2>2. CASE Len(ws) = 0
    BY <1>2, <2>2
  <2>3. CASE Len(ws) = 1
    BY <1>2, <1>3, <2>3
  <2>4. CASE Len(ws) = 2
    BY <1>2, <1>3, <1>4, <2>4
  <2>5. CASE Len(ws) = 3
    BY <1>2, <1>3, <1>4, <1>5, <2>5
  <2>. QED  BY <2>1, <2>2, <2>3, <2>4, <2>5
<1>. QED  BY <1>6 DEF r, Wrote

(* At most three stores, of values in V, to the links of nodes and x.      *)
Within(ws, x, V) ==
    ws \in Seq(Fields \X (Nodes \cup {x}) \X V) /\ Len(ws) \in 0..3

(* Such stores leave the other lists alone, and bring in no other value.   *)
Touched(l, r, x, V) ==
    /\ r \in Links
    /\ \A f \in Fields, d \in Lists \ {x} : r[f][d] = l[f][d]
    /\ \A f \in Fields, e \in Entities : r[f][e] \in V \cup {l[f][e]}

LEMMA WithinKeeps ==
    ASSUME NEW l \in Links, NEW x \in Entities, NEW V \in SUBSET Targets,
           NEW ws, Within(ws, x, V)
    PROVE  Touched(l, AfterStores(l, ws), x, V)
<1>. DEFINE r == AfterStores(l, ws)
            W == Fields \X (Nodes \cup {x}) \X V
<1>1. W \subseteq Writes
  BY DEF Writes, Entities
<1>2. ws \in Seq(W) /\ Len(ws) \in 0..3
  BY DEF Within
<1>3. ws \in Seq(Writes)
  <2>. HIDE DEF W
  <2>. QED  BY <1>1, <1>2
<1>4. \A i \in 1..Len(ws) : ws[i] \in W
  <2>. HIDE DEF W
  <2>. QED  BY <1>2
<1>5. ASSUME NEW f \in Fields, NEW e \in Entities
      PROVE  /\ r \in Links
             /\ r[f][e] # l[f][e] => e \in Nodes \cup {x} /\ r[f][e] \in V
  <2>1. r \in Links /\ (r[f][e] = l[f][e] \/ Wrote(ws, f, e, r[f][e]))
    BY <1>2, <1>3, CellsWritten
  <2>. HIDE DEF r
  <2>. QED  BY <1>4, <2>1 DEF Wrote
<1>6. "nxt" \in Fields /\ x \in Entities
  BY DEF Fields
<1>. HIDE DEF r
<1>7. r \in Links
  BY <1>5, <1>6
<1>8. Touched(l, r, x, V)
  BY <1>5, <1>7, LinksAssumption DEF Touched, Entities
<1>. QED  BY <1>8 DEF r

LEMMA PrefixWithin ==
    ASSUME NEW x, NEW V, NEW ws, Within(ws, x, V), NEW k \in 0..Len(ws)
    PROVE  Within(SubSeq(ws, 1, k), x, V)
<1>. DEFINE W == Fields \X (Nodes \cup {x}) \X V
<1>. HIDE DEF W
<1>. ws \in Seq(W) /\ Len(ws) \in 0..3
  BY DEF Within, W
<1>1. SubSeq(ws, 1, k) \in Seq(W) /\ Len(SubSeq(ws, 1, k)) = k
  BY SubSeqProperties
<1>. QED  BY <1>1 DEF Within, W

LEMMA FewWrites ==
    ASSUME NEW W, NEW a \in W, NEW b \in W, NEW c \in W
    PROVE  /\ <<a, b>> \in Seq(W) /\ Len(<<a, b>>) = 2
           /\ <<a, b, c>> \in Seq(W) /\ Len(<<a, b, c>>) = 3
OBVIOUS

LEMMA ConstructedWithin ==
    ASSUME NEW n \in Nodes
    PROVE  Within(<<SetPre(n, Null), SetNxt(n, Null)>>, n, {Null})
BY DEF Within, SetPre, SetNxt, Fields

LEMMA PushBackWithin ==
    ASSUME NEW l \in Links, NEW c \in Lists, NEW n \in Nodes
    PROVE  Within(PushBack(l, c, n), c, {n, LastNode(l, c)})
<1>. DEFINE t == LastNode(l, c)
            W == Fields \X (Nodes \cup {c}) \X {n, t}
<1>1. SetHead(c, n) \in W /\ SetTail(c, n) \in W
  BY DEF SetHead, SetTail, SetPre, SetNxt, Fields
<1>2. CASE t = Null
  <2>1. PushBack(l, c, n) = <<SetHead(c, n), SetTail(c, n)>>
    BY <1>2 DEF PushBack
  <2>. HIDE DEF W
  <2>. QED  BY <1>1, <2>1, FewWrites DEF Within, W
<1>3. CASE t # Null
  <2>1. PushBack(l, c, n) = <<SetNxt(t, n), SetPre(n, t), SetTail(c, n)>>
    BY <1>3 DEF PushBack
  <2>2. t \in Nodes
    BY <1>3 DEF Links, LastNode
  <2>3. SetNxt(t, n) \in W /\ SetPre(n, t) \in W
    BY <2>2 DEF SetPre, SetNxt, Fields
  <2>. HIDE DEF W
  <2>. QED  BY <1>1, <2>1, <2>3, FewWrites DEF Within, W
<1>. QED  BY <1>2, <1>3

LEMMA UnlinkWithin ==
    ASSUME NEW c \in Lists, NEW pre \in Targets, NEW nxt \in Targets
    PROVE  Within(Unlink(c, pre, nxt), c, {pre, nxt, Null})
<1>. DEFINE W == Fields \X (Nodes \cup {c}) \X {pre, nxt, Null}
<1>1. ASSUME NEW f \in Fields, NEW e \in Nodes \cup {c}, NEW v \in {pre, nxt, Null}
      PROVE  <<f, e, v>> \in W
  OBVIOUS
<1>2. \E a, b \in W : Unlink(c, pre, nxt) = <<a, b>>
  <2>. HIDE DEF W
  <2>. USE DEF SetHead, SetTail, SetPre, SetNxt, Fields, Targets
  <2>1. CASE pre = Null /\ nxt = Null
    BY <1>1, <2>1 DEF Unlink
  <2>2. CASE pre = Null /\ nxt # Null
    BY <1>1, <2>2 DEF Unlink
  <2>3. CASE pre # Null /\ nxt = Null
    BY <1>1, <2>3 DEF Unlink
  <2>4. CASE pre # Null /\ nxt # Null
    BY <1>1, <2>4 DEF Unlink
  <2>. QED  BY <2>1, <2>2, <2>3, <2>4
<1>. HIDE DEF W
<1>. QED  BY <1>2, FewWrites DEF Within, W
-----------------------------------------------------------------------------
(* Induction, for sets: the library's theorems about it take an operator.  *)

LEMMA LeastOf ==
    ASSUME NEW T \in SUBSET Nat, T # {}
    PROVE  \E n \in T : \A k \in T : n <= k
<1>. DEFINE I == {0..n : n \in T}
<1>1. IsWellFoundedOn(StrictSubsetOrdering(Nat), FiniteSubsetsOf(Nat))
  BY FS_StrictSubsetOrderingWellFounded
<1>2. I # {} /\ I \subseteq FiniteSubsetsOf(Nat)
  <2>1. \A n \in T : IsFiniteSet(0..n) /\ 0..n \in SUBSET Nat
    BY FS_Interval
  <2>. QED  BY <2>1 DEF FiniteSubsetsOf
<1>3. PICK i \in I : \A j \in I : <<j, i>> \notin StrictSubsetOrdering(Nat)
  <2>. HIDE DEF I
  <2>. QED  BY <1>1, <1>2, WFMin, Zenon
<1>4. PICK n \in T : i = 0..n
  OBVIOUS
<1>5. ASSUME NEW k \in T
      PROVE  n <= k
  <2>1. <<0..k, 0..n>> \notin StrictSubsetOrdering(Nat)
    BY <1>3, <1>4
  <2>2. ~(0..k \subseteq 0..n /\ 0..k # 0..n)
    BY <2>1 DEF StrictSubsetOrdering
  <2>3. n \in 0..n
    OBVIOUS
  <2>. QED  BY <2>2, <2>3
<1>. QED  BY <1>5

LEMMA SetInduction ==
    ASSUME NEW T, 0 \in T, \A n \in Nat : n \in T => n + 1 \in T
    PROVE  \A n \in Nat : n \in T
<1>. DEFINE Out == {n \in Nat : n \notin T}
<1>. SUFFICES ASSUME Out # {} PROVE FALSE
  OBVIOUS
<1>1. PICK n \in Out : \A k \in Out : n <= k
  BY LeastOf
<1>2. n # 0 /\ n - 1 \in Nat
  BY <1>1
<1>3. n - 1 \in T
  BY <1>1, <1>2
<1>. QED  BY <1>1, <1>2, <1>3

-----------------------------------------------------------------------------
(* Lists that are whole: the nodes s of the list c, linked in both         *)
(* directions.                                                             *)

El(s, i) == IF i \in 1..Len(s) THEN s[i] ELSE Null

Chain(l, c, s) ==
    /\ s \in Seq(Nodes)
    /\ \A i, j \in 1..Len(s) : s[i] = s[j] => i = j
    /\ l.nxt[c] = El(s, 1) /\ l.pre[c] = El(s, Len(s))
    /\ \A i \in 1..Len(s) :
          l.nxt[s[i]] = El(s, i + 1) /\ l.pre[s[i]] = El(s, i - 1)

In(s) == {s[i] : i \in 1..Len(s)}

LEMMA ElFacts ==
    ASSUME NEW s \in Seq(Nodes), NEW i \in Nat
    PROVE  /\ Len(s) \in Nat
           /\ i \in 1..Len(s) => El(s, i) = s[i] /\ s[i] \in Nodes /\ s[i] # Null
           /\ i \notin 1..Len(s) => El(s, i) = Null
BY LinksAssumption DEF El

(* A walk along a whole list meets its nodes, and stops.                   *)
LEMMA ForwardIsChain ==
    ASSUME NEW l, NEW c, NEW s, Chain(l, c, s), NEW Steps \in Nat,
           Len(s) <= Steps + 1
    PROVE  Forward(l, c, Steps) = s
<1>. DEFINE D == 0..Steps
            Step(h) == [i \in D |-> IF i = 0 THEN FirstNode(l, c)
                                    ELSE IF h[i - 1] = Null THEN Null
                                    ELSE l.nxt[h[i - 1]]]
            g == [i \in D |-> El(s, i + 1)]
            f == CHOOSE h : h = Step(h)
            visited == Cardinality({i \in D : f[i] # Null})
<1>0. s \in Seq(Nodes) /\ Len(s) \in Nat
  BY DEF Chain
<1>1. g = Step(g)
  <2>. SUFFICES ASSUME NEW i \in D
                PROVE  g[i] = IF i = 0 THEN FirstNode(l, c)
                              ELSE IF g[i - 1] = Null THEN Null
                              ELSE l.nxt[g[i - 1]]
    OBVIOUS
  <2>1. CASE i = 0
    BY <2>1 DEF Chain, FirstNode
  <2>2. CASE i # 0
    <3>1. g[i] = El(s, i + 1) /\ i - 1 \in D /\ g[i - 1] = El(s, i) /\ i \in Nat
      BY <2>2
    <3>2. CASE i \in 1..Len(s)
      <4>1. El(s, i) = s[i] /\ s[i] # Null
        BY <1>0, <3>1, <3>2, ElFacts
      <4>2. l.nxt[s[i]] = El(s, i + 1)
        BY <3>2 DEF Chain
      <4>. HIDE DEF g
      <4>. QED  BY <2>2, <3>1, <4>1, <4>2
    <3>3. CASE i \notin 1..Len(s)
      <4>1. El(s, i) = Null /\ El(s, i + 1) = Null
        BY <1>0, <3>1, <3>3 DEF El
      <4>. HIDE DEF g
      <4>. QED  BY <2>2, <3>1, <4>1
    <3>. QED  BY <3>2, <3>3
  <2>. QED  BY <2>1, <2>2
<1>2. f = Step(f)
  <2>. HIDE DEF g, Step
  <2>. QED  BY <1>1
<1>. HIDE DEF f
<1>3. \A i \in D : f[i] = g[i]
  <2>. DEFINE T == {i \in Nat : i \in D => f[i] = g[i]}
  <2>1. 0 \in T
    BY <1>1, <1>2
  <2>2. ASSUME NEW n \in Nat, n \in T
        PROVE  n + 1 \in T
    <3>. SUFFICES ASSUME n + 1 \in D PROVE f[n + 1] = g[n + 1]
      OBVIOUS
    <3>1. n \in D /\ n + 1 # 0 /\ (n + 1) - 1 = n
      OBVIOUS
    <3>2. f[n] = g[n]
      BY <2>2, <3>1
    <3>3. f[n + 1] = IF f[n] = Null THEN Null ELSE l.nxt[f[n]]
      BY <1>2, <3>1
    <3>4. g[n + 1] = IF g[n] = Null THEN Null ELSE l.nxt[g[n]]
      <4>. HIDE DEF g
      <4>. QED  BY <1>1, <3>1
    <3>. HIDE DEF g
    <3>. QED  BY <3>2, <3>3, <3>4
  <2>. HIDE DEF T
  <2>3. \A n \in Nat : n \in T
    BY <2>1, <2>2, SetInduction
  <2>4. \A i \in D : i \in Nat
    OBVIOUS
  <2>. HIDE DEF D, g
  <2>. QED  BY <2>3, <2>4 DEF T
<1>4. visited = Len(s)
  <2>1. {i \in D : f[i] # Null} = 0..(Len(s) - 1)
    <3>1. ASSUME NEW i \in D
          PROVE  f[i] # Null <=> i \in 0..(Len(s) - 1)
      <4>1. i + 1 \in Nat /\ (i + 1 \in 1..Len(s) <=> i \in 0..(Len(s) - 1))
        BY <1>0
      <4>2. f[i] = El(s, i + 1)
        BY <1>3
      <4>. HIDE DEF g, D
      <4>. QED  BY <1>0, <4>1, <4>2, ElFacts
    <3>2. 0..(Len(s) - 1) \subseteq D
      BY <1>0
    <3>. HIDE DEF D
    <3>. QED  BY <3>1, <3>2
  <2>2. Cardinality(0..(Len(s) - 1)) = Len(s)
    <3>1. 0 \in Int /\ Len(s) - 1 \in Int
      BY <1>0
    <3>2. Cardinality(0..(Len(s) - 1)) =
             IF 0 > Len(s) - 1 THEN 0 ELSE (Len(s) - 1) - 0 + 1
      BY ONLY <3>1, FS_Interval
    <3>. QED  BY <1>0, <3>2
  <2>. QED  BY <2>1, <2>2
<1>5. Forward(l, c, Steps) = [i \in 1..visited |-> f[i - 1]]
  BY DEF Forward, f, FirstNode
<1>6. Forward(l, c, Steps) = [i \in 1..Len(s) |-> f[i - 1]]
  <2>. HIDE DEF visited
  <2>. QED  BY <1>4, <1>5
<1>7. ASSUME NEW i \in 1..Len(s)
      PROVE  f[i - 1] = s[i]
  <2>1. i - 1 \in D /\ (i - 1) + 1 = i
    BY <1>0
  <2>2. f[i - 1] = El(s, i)
    BY <1>3, <2>1
  <2>. QED  BY <2>2 DEF El
<1>. HIDE DEF visited
<1>8. s = [i \in 1..Len(s) |-> s[i]]
  BY <1>0
<1>. QED  BY <1>6, <1>7, <1>8

(* What the stores of the operations come to, cell by cell.                *)
LEMMA ConstructedCells ==
    ASSUME NEW l \in Links, NEW n \in Nodes
    PROVE  /\ Constructed(l, n) \in Links
           /\ \A e \in Entities :
                 /\ Constructed(l, n).nxt[e] = IF e = n THEN Null ELSE l.nxt[e]
                 /\ Constructed(l, n).pre[e] = IF e = n THEN Null ELSE l.pre[e]
<1>. DEFINE ws == <<SetPre(n, Null), SetNxt(n, Null)>>
<1>1. Constructed(l, n) = Store(Store(l, ws[1]), ws[2])
  <2>1. Len(ws) = 2
    OBVIOUS
  <2>. HIDE DEF ws
  <2>2. AfterStores(l, ws) = Store(Store(l, ws[1]), ws[2])
    BY <2>1, AfterFew
  <2>. QED  BY <2>2 DEF Constructed, ws
<1>. QED  BY <1>1 DEF Store, SetPre, SetNxt, Links, Entities

LEMMA PushBackCells ==
    ASSUME NEW l \in Links, NEW c \in Lists, NEW n \in Nodes, l.pre[n] = Null
    PROVE  LET t == LastNode(l, c)
               r == AfterStores(l, PushBack(l, c, n))
           IN  /\ r \in Links
               /\ \A e \in Entities :
                     /\ r.nxt[e] = IF e = (IF t = Null THEN c ELSE t) THEN n
                                   ELSE l.nxt[e]
                     /\ r.pre[e] = IF e = c THEN n ELSE IF e = n THEN t ELSE l.pre[e]
<1>. DEFINE t == LastNode(l, c)
            ws == PushBack(l, c, n)
<1>1. n # c /\ c \notin Nodes /\ t \in Nodes \cup {Null}
  BY LinksAssumption DEF LastNode, Links
<1>2. CASE t = Null
  <2>1. ws = <<SetHead(c, n), SetTail(c, n)>>
    BY <1>2 DEF PushBack
  <2>2. AfterStores(l, ws) = Store(Store(l, SetHead(c, n)), SetTail(c, n))
    BY <2>1, AfterFew
  <2>. QED
    BY <1>1, <1>2, <2>2 DEF Store, SetHead, SetTail, SetPre, SetNxt, Links, Entities
<1>3. CASE t # Null
  <2>1. ws = <<SetNxt(t, n), SetPre(n, t), SetTail(c, n)>>
    BY <1>3 DEF PushBack
  <2>2. AfterStores(l, ws) = Store(Store(Store(l, SetNxt(t, n)), SetPre(n, t)), SetTail(c, n))
    BY <2>1, AfterFew
  <2>. HIDE DEF t, ws
  <2>3. AfterStores(l, ws) =
           [nxt |-> [l.nxt EXCEPT ![t] = n], pre |-> [[l.pre EXCEPT ![n] = t] EXCEPT ![c] = n]]
    BY <1>1, <1>3, <2>2 DEF Store, SetHead, SetTail, SetPre, SetNxt, Links
  <2>4. AfterStores(l, ws) \in Links
    BY <1>1, <1>3, <2>3 DEF Links
  <2>5. ASSUME NEW e \in Entities
        PROVE  /\ AfterStores(l, ws).nxt[e] = IF e = t THEN n ELSE l.nxt[e]
               /\ AfterStores(l, ws).pre[e] = IF e = c THEN n ELSE IF e = n THEN t ELSE l.pre[e]
    BY <1>1, <2>3 DEF Links, Entities
  <2>. QED  BY <1>3, <2>4, <2>5 DEF t, ws
<1>. QED  BY <1>2, <1>3

LEMMA UnlinkFirstCells ==
    ASSUME NEW l \in Links, NEW c \in Lists, NEW b \in Nodes \cup {Null}
    PROVE  LET r == AfterStores(l, Unlink(c, Null, b))
           IN  /\ r \in Links
               /\ \A e \in Entities :
                     /\ r.nxt[e] = IF e = c THEN b ELSE l.nxt[e]
                     /\ r.pre[e] = IF e = (IF b = Null THEN c ELSE b) THEN Null
                                   ELSE l.pre[e]
<1>. DEFINE ws == Unlink(c, Null, b)
<1>1. CASE b = Null
  <2>1. ws = <<SetHead(c, Null), SetTail(c, Null)>>
    BY <1>1 DEF Unlink
  <2>2. AfterStores(l, ws) = Store(Store(l, SetHead(c, Null)), SetTail(c, Null))
    BY <2>1, AfterFew
  <2>. QED
    BY <1>1, <2>2 DEF Store, SetHead, SetTail, SetPre, SetNxt, Links, Entities
<1>2. CASE b # Null
  <2>1. ws = <<SetHead(c, b), SetPre(b, Null)>>
    BY <1>2 DEF Unlink
  <2>2. AfterStores(l, ws) = Store(Store(l, SetHead(c, b)), SetPre(b, Null))
    BY <2>1, AfterFew
  <2>. QED
    BY <1>2, <2>2 DEF Store, SetHead, SetPre, SetNxt, Links, Entities
<1>. QED  BY <1>1, <1>2

(* A whole list stays what it is while nobody stores to it or its nodes.   *)
LEMMA ChainFrame ==
    ASSUME NEW l, NEW c, NEW s, NEW r, Chain(l, c, s),
           \A e \in In(s) \cup {c} : r.nxt[e] = l.nxt[e] /\ r.pre[e] = l.pre[e]
    PROVE  Chain(r, c, s)
BY DEF Chain, In

LEMMA ChainPushed ==
    ASSUME NEW l \in Links, NEW c \in Lists, NEW s, Chain(l, c, s),
           NEW n \in Nodes \ In(s), l.nxt[n] = Null, l.pre[n] = Null
    PROVE  Chain(AfterStores(l, PushBack(l, c, n)), c, Append(s, n))
<1>. DEFINE r == AfterStores(l, PushBack(l, c, n))
            t == LastNode(l, c)
            u == Append(s, n)
            m == Len(s)
<1>1. /\ s \in Seq(Nodes) /\ m \in Nat /\ \A i \in 1..m : s[i] \in Nodes /\ s[i] # n
      /\ t = El(s, m)
  BY DEF Chain, LastNode, In
<1>2. /\ u \in Seq(Nodes) /\ Len(u) = m + 1 /\ u[m + 1] = n
      /\ \A i \in 1..m : u[i] = s[i]
  BY <1>1
<1>3. \A e \in Entities :
         /\ r.nxt[e] = IF e = (IF t = Null THEN c ELSE t) THEN n ELSE l.nxt[e]
         /\ r.pre[e] = IF e = c THEN n ELSE IF e = n THEN t ELSE l.pre[e]
  BY PushBackCells
<1>4. c \notin Nodes /\ Null \notin Nodes /\ Nodes \subseteq Entities /\ c \in Entities
  BY LinksAssumption DEF Entities
<1>. HIDE DEF r, u
<1>5. \A i \in Nat : El(u, i) = IF i = m + 1 THEN n ELSE El(s, i)
  BY <1>1, <1>2 DEF El
<1>. HIDE DEF t
<1>6. \A i, j \in 1..m : s[i] = s[j] => i = j
  BY DEF Chain
<1>7. \A i, j \in 1..Len(u) : u[i] = u[j] => i = j
  <2>. TAKE i, j \in 1..Len(u)
  <2>1. /\ i \in 1..m \/ i = m + 1
        /\ j \in 1..m \/ j = m + 1
    BY <1>1, <1>2
  <2>. HIDE DEF m
  <2>. QED  BY <1>1, <1>2, <1>6, <2>1
<1>8. r.nxt[c] = El(u, 1) /\ r.pre[c] = El(u, Len(u))
  <2>1. l.nxt[c] = El(s, 1)
    BY DEF Chain
  <2>2. CASE m = 0
    BY <1>1, <1>2, <1>3, <1>4, <1>5, <2>2 DEF El
  <2>3. CASE m # 0
    <3>1. t \in Nodes
      BY <1>1, <2>3 DEF El
    <3>. QED  BY <1>1, <1>2, <1>3, <1>4, <1>5, <2>1, <2>3, <3>1
  <2>. QED  BY <2>2, <2>3
<1>9. ASSUME NEW i \in 1..Len(u)
      PROVE  r.nxt[u[i]] = El(u, i + 1) /\ r.pre[u[i]] = El(u, i - 1)
  <2>0. i \in Nat /\ i + 1 \in Nat /\ i - 1 \in Nat /\ (i \in 1..m \/ i = m + 1)
    BY <1>1, <1>2
  <2>1. CASE i = m + 1
    <3>1. u[i] = n /\ El(u, i + 1) = Null /\ El(u, i - 1) = El(s, m)
      BY <1>1, <1>2, <1>5, <2>1 DEF El
    <3>2. n # t
      BY <1>1, <1>4 DEF El
    <3>3. r.nxt[n] = Null /\ r.pre[n] = t
      BY <1>3, <1>4, <3>2
    <3>. QED  BY <1>1, <3>1, <3>3
  <2>2. CASE i \in 1..m
    <3>1. /\ u[i] = s[i] /\ s[i] \in Nodes /\ s[i] # n
          /\ l.nxt[s[i]] = El(s, i + 1) /\ l.pre[s[i]] = El(s, i - 1)
      BY <1>1, <1>2, <2>2 DEF Chain
    <3>2. t = s[m] /\ t # Null
      BY <1>1, <1>4, <2>2 DEF El
    <3>3. r.pre[s[i]] = El(s, i - 1) /\ El(u, i - 1) = El(s, i - 1)
      BY <1>1, <1>3, <1>4, <1>5, <2>0, <2>2, <3>1
    <3>4. r.nxt[s[i]] = IF i = m THEN n ELSE El(s, i + 1)
      BY <1>1, <1>3, <1>4, <1>6, <2>2, <3>1, <3>2
    <3>5. El(u, i + 1) = IF i = m THEN n ELSE El(s, i + 1)
      BY <1>1, <1>5, <2>0, <2>2
    <3>. QED  BY <3>1, <3>3, <3>4, <3>5
  <2>. QED  BY <2>0, <2>1, <2>2
<1>. QED  BY <1>2, <1>7, <1>8, <1>9 DEF Chain, r, u

LEMMA ChainUnlinked ==
    ASSUME NEW l \in Links, NEW c \in Lists, NEW s, Chain(l, c, s), s # <<>>
    PROVE  /\ FirstNode(l, c) = s[1] /\ s[1] \in Nodes
           /\ l.pre[s[1]] = Null
           /\ Chain(AfterStores(l, Unlink(c, l.pre[s[1]], l.nxt[s[1]])), c, Tail(s))
<1>. DEFINE m == Len(s)
            b == l.nxt[s[1]]
            r == AfterStores(l, Unlink(c, Null, b))
            u == Tail(s)
<1>1. /\ s \in Seq(Nodes) /\ m \in Nat /\ m # 0 /\ \A i \in 1..m : s[i] \in Nodes
  BY DEF Chain
<1>2. /\ u \in Seq(Nodes) /\ Len(u) = m - 1
      /\ \A i \in 1..(m - 1) : u[i] = s[i + 1]
  BY <1>1
<1>3. /\ FirstNode(l, c) = s[1] /\ s[1] \in Nodes
      /\ l.pre[s[1]] = Null /\ b = El(s, 2)
  BY <1>1 DEF Chain, FirstNode, El
<1>4. b \in Nodes \cup {Null}
  BY <1>1, <1>3 DEF El
<1>5. \A e \in Entities :
         /\ r.nxt[e] = IF e = c THEN b ELSE l.nxt[e]
         /\ r.pre[e] = IF e = (IF b = Null THEN c ELSE b) THEN Null ELSE l.pre[e]
  BY <1>4, UnlinkFirstCells
<1>6. c \notin Nodes /\ Null \notin Nodes /\ Nodes \subseteq Entities /\ c \in Entities
  BY LinksAssumption DEF Entities
<1>. HIDE DEF r, u, b
<1>7. \A i \in Nat : i # 0 => El(u, i) = El(s, i + 1)
  BY <1>1, <1>2 DEF El
<1>8. El(u, 0) = Null /\ (El(u, Len(u)) = IF m = 1 THEN Null ELSE El(s, m))
  BY <1>1, <1>2 DEF El
<1>9. \A i, j \in 1..Len(u) : u[i] = u[j] => i = j
  BY <1>1, <1>2 DEF Chain
<1>10. r.nxt[c] = El(u, 1) /\ r.pre[c] = El(u, Len(u))
  <2>1. r.nxt[c] = El(u, 1)
    BY <1>3, <1>5, <1>6, <1>7
  <2>2. l.pre[c] = El(s, m)
    BY DEF Chain
  <2>3. b = Null <=> m = 1
    <3>1. m # 1 => 2 \in 1..m /\ s[2] \in Nodes
      <4>. HIDE DEF m
      <4>1. m # 1 => 2 \in 1..m
        <5>1. m \in Nat /\ m # 0
          BY <1>1
        <5>. QED  BY ONLY <5>1
      <4>. QED  BY <1>1, <4>1
    <3>2. m = 1 => 2 \notin 1..m
      OBVIOUS
    <3>. QED  BY <1>3, <1>6, <3>1, <3>2 DEF El
  <2>. QED  BY <1>4, <1>5, <1>6, <1>8, <2>1, <2>2, <2>3
<1>11. ASSUME NEW i \in 1..Len(u)
       PROVE  r.nxt[u[i]] = El(u, i + 1) /\ r.pre[u[i]] = El(u, i - 1)
  <2>1. /\ i \in Nat /\ i # 0 /\ i + 1 \in 1..m /\ i + 1 \in Nat /\ i - 1 \in Nat
        /\ u[i] = s[i + 1] /\ s[i + 1] \in Nodes
    BY <1>1, <1>2
  <2>2. l.nxt[s[i + 1]] = El(s, (i + 1) + 1) /\ l.pre[s[i + 1]] = El(s, (i + 1) - 1)
    BY <2>1 DEF Chain
  <2>3. r.nxt[u[i]] = El(u, i + 1)
    <3>1. i + 1 # 0 /\ i + 1 \in Nat
      BY <2>1
    <3>2. El(u, i + 1) = El(s, (i + 1) + 1)
      BY <1>7, <3>1
    <3>. QED  BY <1>5, <1>6, <2>1, <2>2, <3>2
  <2>4. b = s[2] /\ b # Null
    BY <1>1, <1>2, <1>3, <1>6 DEF El
  <2>5. s[i + 1] = b <=> i = 1
    BY <1>1, <2>1, <2>4 DEF Chain
  <2>6. r.pre[u[i]] = IF i = 1 THEN Null ELSE El(s, i)
    BY <1>5, <1>6, <2>1, <2>2, <2>4, <2>5
  <2>7. El(u, i - 1) = IF i = 1 THEN Null ELSE El(s, i)
    <3>1. CASE i = 1
      <4>1. i - 1 = 0
        BY <3>1
      <4>. QED  BY <1>8, <3>1, <4>1
    <3>2. CASE i # 1
      <4>1. i - 1 \in Nat /\ i - 1 # 0 /\ (i - 1) + 1 = i
        BY <2>1, <3>2
      <4>. QED  BY <1>7, <3>2, <4>1
    <3>. QED  BY <3>1, <3>2
  <2>. QED  BY <2>3, <2>6, <2>7
<1>12. Chain(r, c, u)
  BY <1>2, <1>9, <1>10, <1>11 DEF Chain
<1>. QED  BY <1>3, <1>12 DEF r, u, b
=============================================================================
