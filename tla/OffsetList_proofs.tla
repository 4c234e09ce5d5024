------------------------- MODULE OffsetList_proofs -------------------------
(***************************************************************************)
(* Proofs about OffsetList, for any lists, heaps, nodes and sequence of    *)
(* calls: after each call every list is whole, in both directions, and     *)
(* made of nodes of its own.                                               *)
(***************************************************************************)
EXTENDS OffsetList, ListLinks_proofs

-----------------------------------------------------------------------------
(* Cells.                                                                  *)

LinkTable == [Entities -> Targets]
Mems == [nxt : LinkTable, pre : LinkTable, val : [Nodes -> Values \cup {Undefined}]]

LEMMA NullFacts ==
    /\ Null \notin Nodes /\ Null \notin Lists /\ Nodes \cap Lists = {}
    /\ Null \in Targets /\ Nodes \subseteq Targets /\ Nodes \subseteq Entities
    /\ Lists \subseteq Entities
BY LinksAssumption DEF Entities, Targets

LEMMA MemCells ==
    ASSUME NEW m \in Mems
    PROVE  /\ \A e \in Entities : m.nxt[e] \in Targets /\ m.pre[e] \in Targets
           /\ \A n \in Nodes : m.val[n] \in Values \cup {Undefined}
BY DEF Mems, LinkTable

NxtStored(m, r, x, v) ==
    /\ r.val = m.val
    /\ \A e \in Entities : /\ r.nxt[e] = IF e = x THEN v ELSE m.nxt[e]
                           /\ r.pre[e] = m.pre[e]

PreStored(m, r, x, v) ==
    /\ r.val = m.val
    /\ \A e \in Entities : /\ r.pre[e] = IF e = x THEN v ELSE m.pre[e]
                           /\ r.nxt[e] = m.nxt[e]

LEMMA StoreNxt ==
    ASSUME NEW m \in Mems, NEW x \in Entities, NEW v \in Targets
    PROVE  /\ Store(m, SetNxt(x, v)) \in Mems
           /\ NxtStored(m, Store(m, SetNxt(x, v)), x, v)
BY DEF Mems, LinkTable, Store, SetNxt, NxtStored

LEMMA StorePre ==
    ASSUME NEW m \in Mems, NEW x \in Entities, NEW v \in Targets
    PROVE  /\ Store(m, SetPre(x, v)) \in Mems
           /\ PreStored(m, Store(m, SetPre(x, v)), x, v)
BY DEF Mems, LinkTable, Store, SetPre, PreStored

(* A new node, and one that goes. *)
LEMMA ConstructedMem ==
    ASSUME NEW m \in Mems, NEW n \in Nodes
    PROVE  /\ Constructed(m, n) \in Mems /\ Constructed(m, n).val = m.val
           /\ \A e \in Entities :
                 /\ Constructed(m, n).nxt[e] = IF e = n THEN Null ELSE m.nxt[e]
                 /\ Constructed(m, n).pre[e] = IF e = n THEN Null ELSE m.pre[e]
<1>w. PICK ws : ws = <<SetPre(n, Null), SetNxt(n, Null)>>
  OBVIOUS
<1>1. Len(ws) = 2 /\ ws[1] = SetPre(n, Null) /\ ws[2] = SetNxt(n, Null)
  BY <1>w
<1>2. AfterStores(m, ws) = Store(Store(m, ws[1]), ws[2])
  BY <1>1, AfterFew
<1>3. PICK r : r = Store(m, SetPre(n, Null))
  OBVIOUS
<1>4. Constructed(m, n) = Store(r, SetNxt(n, Null))
  BY <1>w, <1>1, <1>2, <1>3 DEF Constructed
<1>5. n \in Entities /\ Null \in Targets
  BY NullFacts
<1>6. r \in Mems /\ PreStored(m, r, n, Null)
  BY <1>3, <1>5, StorePre
<1>7. PICK q : q = Constructed(m, n)
  OBVIOUS
<1>8. q \in Mems /\ NxtStored(r, q, n, Null)
  BY <1>4, <1>5, <1>6, <1>7, StoreNxt
<1>. QED  BY <1>6, <1>7, <1>8 DEF NxtStored, PreStored

LEMMA DataStored ==
    ASSUME NEW m \in Mems, NEW n \in Nodes, NEW v \in Values \cup {Undefined}
    PROVE  LET r == [Constructed(m, n) EXCEPT !.val[n] = v]
           IN  /\ r \in Mems
               /\ \A e \in Entities : /\ r.nxt[e] = IF e = n THEN Null ELSE m.nxt[e]
                                      /\ r.pre[e] = IF e = n THEN Null ELSE m.pre[e]
               /\ \A k \in Nodes : r.val[k] = IF k = n THEN v ELSE m.val[k]
<1>q. PICK q : q = Constructed(m, n)
  OBVIOUS
<1>1. /\ q \in Mems /\ q.val = m.val
      /\ \A e \in Entities : /\ q.nxt[e] = IF e = n THEN Null ELSE m.nxt[e]
                             /\ q.pre[e] = IF e = n THEN Null ELSE m.pre[e]
  BY <1>q, ConstructedMem
<1>r. PICK r : r = [q EXCEPT !.val[n] = v]
  OBVIOUS
<1>2. /\ r \in Mems /\ r.nxt = q.nxt /\ r.pre = q.pre
      /\ \A k \in Nodes : r.val[k] = IF k = n THEN v ELSE q.val[k]
  BY <1>1, <1>r DEF Mems
<1>. QED  BY <1>1, <1>2, <1>q, <1>r

LEMMA WithNodeCells ==
    ASSUME NEW m \in Mems, NEW n \in Nodes, NEW v \in Values
    PROVE  /\ WithNode(m, n, v) \in Mems
           /\ \A e \in Entities :
                 /\ WithNode(m, n, v).nxt[e] = IF e = n THEN Null ELSE m.nxt[e]
                 /\ WithNode(m, n, v).pre[e] = IF e = n THEN Null ELSE m.pre[e]
           /\ \A k \in Nodes : WithNode(m, n, v).val[k] = IF k = n THEN v ELSE m.val[k]
BY DataStored DEF WithNode

LEMMA WithoutNodeCells ==
    ASSUME NEW m \in Mems, NEW n \in Nodes
    PROVE  /\ WithoutNode(m, n) \in Mems
           /\ \A e \in Entities :
                 /\ WithoutNode(m, n).nxt[e] = IF e = n THEN Null ELSE m.nxt[e]
                 /\ WithoutNode(m, n).pre[e] = IF e = n THEN Null ELSE m.pre[e]
           /\ \A k \in Nodes : WithoutNode(m, n).val[k] = IF k = n THEN Undefined ELSE m.val[k]
BY DataStored DEF WithoutNode

(* n is linked between prev and next, unlinked from there; the ends of two *)
(* lists are exchanged or taken.                                           *)
LinkedIn(m, r, c, n, prev, next) ==
    /\ r \in Mems /\ r.val = m.val
    /\ \A e \in Entities :
          /\ r.nxt[e] = IF e = n THEN next
                        ELSE IF e = (IF prev = Null THEN c ELSE prev) THEN n ELSE m.nxt[e]
          /\ r.pre[e] = IF e = n THEN prev
                        ELSE IF e = (IF next = Null THEN c ELSE next) THEN n ELSE m.pre[e]

Joined(m, r, c, prev, next) ==
    /\ r \in Mems /\ r.val = m.val
    /\ \A e \in Entities :
          /\ r.nxt[e] = IF e = (IF prev = Null THEN c ELSE prev) THEN next ELSE m.nxt[e]
          /\ r.pre[e] = IF e = (IF next = Null THEN c ELSE next) THEN prev ELSE m.pre[e]

LEMMA PushFrontMem ==
    ASSUME NEW m \in Mems, NEW c \in Lists, NEW n \in Nodes, m.nxt[n] = Null, m.pre[n] = Null,
           NEW f, f = FirstNode(m, c), n # f, NEW r, r = AfterStores(m, PushFront(m, c, n))
    PROVE  LinkedIn(m, r, c, n, Null, f)
<1>w. PICK ws : ws = PushFront(m, c, n)
  OBVIOUS
<1>r. r = AfterStores(m, ws)
  BY <1>w
<1>0. n \in Entities /\ c \in Entities /\ n # c /\ n \in Targets /\ n # Null /\ f \in Targets
      /\ f # c /\ Null \in Targets /\ m.nxt[c] = f /\ (f # Null => f \in Entities)
  BY NullFacts, MemCells DEF FirstNode, Targets
<1>1. CASE f = Null
  <2>1. ws = << SetHead(c, n), SetTail(c, n) >>
    BY <1>1, <1>w DEF PushFront
  <2>s1. PICK s1 : s1 = Store(m, SetNxt(c, n))
    OBVIOUS
  <2>2. r = Store(s1, SetPre(c, n))
    <3>1. Len(ws) = 2 /\ ws[1] = SetNxt(c, n) /\ ws[2] = SetPre(c, n)
      BY <2>1 DEF SetHead, SetTail
    <3>2. r = Store(Store(m, ws[1]), ws[2])
      BY <1>r, <3>1, AfterFew
    <3>. QED  BY <2>s1, <3>1, <3>2
  <2>3. s1 \in Mems /\ NxtStored(m, s1, c, n)
    BY <1>0, <2>s1, <1>1, StoreNxt
  <2>4. r \in Mems /\ PreStored(s1, r, c, n)
    BY <1>0, <2>3, <2>2, <1>1, StorePre
  <2>. QED  BY <1>0, <1>1, <2>3, <2>4 DEF LinkedIn, NxtStored, PreStored
<1>2. CASE f # Null
  <2>1. ws = << SetPre(f, n), SetNxt(n, f), SetHead(c, n) >>
    BY <1>2, <1>w DEF PushFront
  <2>s1. PICK s1 : s1 = Store(m, SetPre(f, n))
    OBVIOUS
  <2>s2. PICK s2 : s2 = Store(s1, SetNxt(n, f))
    OBVIOUS
  <2>2. r = Store(s2, SetNxt(c, n))
    <3>1. Len(ws) = 3 /\ ws[1] = SetPre(f, n) /\ ws[2] = SetNxt(n, f) /\ ws[3] = SetNxt(c, n)
      BY <2>1 DEF SetHead, SetTail
    <3>2. r = Store(Store(Store(m, ws[1]), ws[2]), ws[3])
      BY <1>r, <3>1, AfterFew
    <3>. QED  BY <2>s1, <2>s2, <3>1, <3>2
  <2>3. s1 \in Mems /\ PreStored(m, s1, f, n)
    BY <1>0, <2>s1, <1>2, StorePre
  <2>4. s2 \in Mems /\ NxtStored(s1, s2, n, f)
    BY <1>0, <2>3, <2>s2, <1>2, StoreNxt
  <2>5. r \in Mems /\ NxtStored(s2, r, c, n)
    BY <1>0, <2>4, <2>2, <1>2, StoreNxt
  <2>. QED  BY <1>0, <1>2, <2>3, <2>4, <2>5 DEF LinkedIn, NxtStored, PreStored
<1>. QED  BY <1>1, <1>2

LEMMA PushBackMem ==
    ASSUME NEW m \in Mems, NEW c \in Lists, NEW n \in Nodes, m.nxt[n] = Null, m.pre[n] = Null,
           NEW t, t = LastNode(m, c), n # t, NEW r, r = AfterStores(m, PushBack(m, c, n))
    PROVE  LinkedIn(m, r, c, n, t, Null)
<1>w. PICK ws : ws = PushBack(m, c, n)
  OBVIOUS
<1>r. r = AfterStores(m, ws)
  BY <1>w
<1>0. n \in Entities /\ c \in Entities /\ n # c /\ n \in Targets /\ n # Null /\ t \in Targets
      /\ t # c /\ Null \in Targets /\ m.pre[c] = t /\ (t # Null => t \in Entities)
  BY NullFacts, MemCells DEF LastNode, Targets
<1>1. CASE t = Null
  <2>1. ws = << SetHead(c, n), SetTail(c, n) >>
    BY <1>1, <1>w DEF PushBack
  <2>s1. PICK s1 : s1 = Store(m, SetNxt(c, n))
    OBVIOUS
  <2>2. r = Store(s1, SetPre(c, n))
    <3>1. Len(ws) = 2 /\ ws[1] = SetNxt(c, n) /\ ws[2] = SetPre(c, n)
      BY <2>1 DEF SetHead, SetTail
    <3>2. r = Store(Store(m, ws[1]), ws[2])
      BY <1>r, <3>1, AfterFew
    <3>. QED  BY <2>s1, <3>1, <3>2
  <2>3. s1 \in Mems /\ NxtStored(m, s1, c, n)
    BY <1>0, <2>s1, <1>1, StoreNxt
  <2>4. r \in Mems /\ PreStored(s1, r, c, n)
    BY <1>0, <2>3, <2>2, <1>1, StorePre
  <2>. QED  BY <1>0, <1>1, <2>3, <2>4 DEF LinkedIn, NxtStored, PreStored
<1>2. CASE t # Null
  <2>1. ws = << SetNxt(t, n), SetPre(n, t), SetTail(c, n) >>
    BY <1>2, <1>w DEF PushBack
  <2>s1. PICK s1 : s1 = Store(m, SetNxt(t, n))
    OBVIOUS
  <2>s2. PICK s2 : s2 = Store(s1, SetPre(n, t))
    OBVIOUS
  <2>2. r = Store(s2, SetPre(c, n))
    <3>1. Len(ws) = 3 /\ ws[1] = SetNxt(t, n) /\ ws[2] = SetPre(n, t) /\ ws[3] = SetPre(c, n)
      BY <2>1 DEF SetHead, SetTail
    <3>2. r = Store(Store(Store(m, ws[1]), ws[2]), ws[3])
      BY <1>r, <3>1, AfterFew
    <3>. QED  BY <2>s1, <2>s2, <3>1, <3>2
  <2>3. s1 \in Mems /\ NxtStored(m, s1, t, n)
    BY <1>0, <2>s1, <1>2, StoreNxt
  <2>4. s2 \in Mems /\ PreStored(s1, s2, n, t)
    BY <1>0, <2>3, <2>s2, <1>2, StorePre
  <2>5. r \in Mems /\ PreStored(s2, r, c, n)
    BY <1>0, <2>4, <2>2, <1>2, StorePre
  <2>. QED  BY <1>0, <1>2, <2>3, <2>4, <2>5 DEF LinkedIn, NxtStored, PreStored
<1>. QED  BY <1>1, <1>2

LEMMA InsertMem ==
    ASSUME NEW m \in Mems, NEW c \in Lists, NEW n \in Nodes, m.nxt[n] = Null, m.pre[n] = Null,
           NEW pos \in Nodes, NEW q, q = m.pre[pos], n # q, n # pos, pos # q, NEW r, r = AfterStores(m, InsertBefore(m, c, pos, n))
    PROVE  LinkedIn(m, r, c, n, q, pos)
<1>w. PICK ws : ws = InsertBefore(m, c, pos, n)
  OBVIOUS
<1>r. r = AfterStores(m, ws)
  BY <1>w
<1>0. n \in Entities /\ c \in Entities /\ n # c /\ n \in Targets /\ n # Null /\ q \in Targets
      /\ q # c /\ Null \in Targets /\ (q # Null => q \in Entities) /\ pos \in Entities
      /\ pos \in Targets /\ pos # Null /\ pos # c
  BY NullFacts, MemCells DEF Targets
<1>1. CASE q = Null
  <2>1. ws = << SetPre(pos, n), SetNxt(n, pos), SetHead(c, n) >>
    BY <1>0, <1>1, <1>w DEF InsertBefore
  <2>s1. PICK s1 : s1 = Store(m, SetPre(pos, n))
    OBVIOUS
  <2>s2. PICK s2 : s2 = Store(s1, SetNxt(n, pos))
    OBVIOUS
  <2>2. r = Store(s2, SetNxt(c, n))
    <3>1. Len(ws) = 3 /\ ws[1] = SetPre(pos, n) /\ ws[2] = SetNxt(n, pos) /\ ws[3] = SetNxt(c, n)
      BY <2>1 DEF SetHead, SetTail
    <3>2. r = Store(Store(Store(m, ws[1]), ws[2]), ws[3])
      BY <1>r, <3>1, AfterFew
    <3>. QED  BY <2>s1, <2>s2, <3>1, <3>2
  <2>3. s1 \in Mems /\ PreStored(m, s1, pos, n)
    BY <1>0, <2>s1, <1>1, StorePre
  <2>4. s2 \in Mems /\ NxtStored(s1, s2, n, pos)
    BY <1>0, <2>3, <2>s2, <1>1, StoreNxt
  <2>5. r \in Mems /\ NxtStored(s2, r, c, n)
    BY <1>0, <2>4, <2>2, <1>1, StoreNxt
  <2>. QED  BY <1>0, <1>1, <2>3, <2>4, <2>5 DEF LinkedIn, NxtStored, PreStored
<1>2. CASE q # Null
  <2>1. ws = << SetNxt(q, n), SetPre(pos, n), SetPre(n, q), SetNxt(n, pos) >>
    BY <1>0, <1>2, <1>w DEF InsertBefore
  <2>s1. PICK s1 : s1 = Store(m, SetNxt(q, n))
    OBVIOUS
  <2>s2. PICK s2 : s2 = Store(s1, SetPre(pos, n))
    OBVIOUS
  <2>s3. PICK s3 : s3 = Store(s2, SetPre(n, q))
    OBVIOUS
  <2>2. r = Store(s3, SetNxt(n, pos))
    <3>1. Len(ws) = 4 /\ ws[1] = SetNxt(q, n) /\ ws[2] = SetPre(pos, n) /\ ws[3] = SetPre(n, q) /\ ws[4] = SetNxt(n, pos)
      BY <2>1 DEF SetHead, SetTail
    <3>2. r = Store(Store(Store(Store(m, ws[1]), ws[2]), ws[3]), ws[4])
      BY <1>r, <3>1, AfterFew
    <3>. QED  BY <2>s1, <2>s2, <2>s3, <3>1, <3>2
  <2>3. s1 \in Mems /\ NxtStored(m, s1, q, n)
    BY <1>0, <2>s1, <1>2, StoreNxt
  <2>4. s2 \in Mems /\ PreStored(s1, s2, pos, n)
    BY <1>0, <2>3, <2>s2, <1>2, StorePre
  <2>5. s3 \in Mems /\ PreStored(s2, s3, n, q)
    BY <1>0, <2>4, <2>s3, <1>2, StorePre
  <2>6. r \in Mems /\ NxtStored(s3, r, n, pos)
    BY <1>0, <2>5, <2>2, <1>2, StoreNxt
  <2>. QED  BY <1>0, <1>2, <2>3, <2>4, <2>5, <2>6 DEF LinkedIn, NxtStored, PreStored
<1>. QED  BY <1>1, <1>2

LEMMA UnlinkMem ==
    ASSUME NEW m \in Mems, NEW c \in Lists, NEW p \in Targets, NEW q \in Targets, NEW r, r = AfterStores(m, Unlink(c, p, q))
    PROVE  Joined(m, r, c, p, q)
<1>w. PICK ws : ws = Unlink(c, p, q)
  OBVIOUS
<1>r. r = AfterStores(m, ws)
  BY <1>w
<1>0. c \in Entities /\ Null \in Targets /\ (p # Null => p \in Entities) /\ (q # Null => q \in Entities)
      /\ p # c /\ q # c
  BY NullFacts DEF Targets
<1>1. CASE p = Null /\ q = Null
  <2>1. ws = << SetHead(c, Null), SetTail(c, Null) >>
    BY <1>1, <1>w DEF Unlink
  <2>s1. PICK s1 : s1 = Store(m, SetNxt(c, Null))
    OBVIOUS
  <2>2. r = Store(s1, SetPre(c, Null))
    <3>1. Len(ws) = 2 /\ ws[1] = SetNxt(c, Null) /\ ws[2] = SetPre(c, Null)
      BY <2>1 DEF SetHead, SetTail
    <3>2. r = Store(Store(m, ws[1]), ws[2])
      BY <1>r, <3>1, AfterFew
    <3>. QED  BY <2>s1, <3>1, <3>2
  <2>3. s1 \in Mems /\ NxtStored(m, s1, c, Null)
    BY <1>0, <2>s1, <1>1, StoreNxt
  <2>4. r \in Mems /\ PreStored(s1, r, c, Null)
    BY <1>0, <2>3, <2>2, <1>1, StorePre
  <2>. QED  BY <1>0, <1>1, <2>3, <2>4 DEF Joined, NxtStored, PreStored
<1>2. CASE p = Null /\ q # Null
  <2>1. ws = << SetHead(c, q), SetPre(q, Null) >>
    BY <1>2, <1>w DEF Unlink
  <2>s1. PICK s1 : s1 = Store(m, SetNxt(c, q))
    OBVIOUS
  <2>2. r = Store(s1, SetPre(q, Null))
    <3>1. Len(ws) = 2 /\ ws[1] = SetNxt(c, q) /\ ws[2] = SetPre(q, Null)
      BY <2>1 DEF SetHead, SetTail
    <3>2. r = Store(Store(m, ws[1]), ws[2])
      BY <1>r, <3>1, AfterFew
    <3>. QED  BY <2>s1, <3>1, <3>2
  <2>3. s1 \in Mems /\ NxtStored(m, s1, c, q)
    BY <1>0, <2>s1, <1>2, StoreNxt
  <2>4. r \in Mems /\ PreStored(s1, r, q, Null)
    BY <1>0, <2>3, <2>2, <1>2, StorePre
  <2>. QED  BY <1>0, <1>2, <2>3, <2>4 DEF Joined, NxtStored, PreStored
<1>3. CASE p # Null /\ q = Null
  <2>1. ws = << SetTail(c, p), SetNxt(p, Null) >>
    BY <1>3, <1>w DEF Unlink
  <2>s1. PICK s1 : s1 = Store(m, SetPre(c, p))
    OBVIOUS
  <2>2. r = Store(s1, SetNxt(p, Null))
    <3>1. Len(ws) = 2 /\ ws[1] = SetPre(c, p) /\ ws[2] = SetNxt(p, Null)
      BY <2>1 DEF SetHead, SetTail
    <3>2. r = Store(Store(m, ws[1]), ws[2])
      BY <1>r, <3>1, AfterFew
    <3>. QED  BY <2>s1, <3>1, <3>2
  <2>3. s1 \in Mems /\ PreStored(m, s1, c, p)
    BY <1>0, <2>s1, <1>3, StorePre
  <2>4. r \in Mems /\ NxtStored(s1, r, p, Null)
    BY <1>0, <2>3, <2>2, <1>3, StoreNxt
  <2>. QED  BY <1>0, <1>3, <2>3, <2>4 DEF Joined, NxtStored, PreStored
<1>4. CASE p # Null /\ q # Null
  <2>1. ws = << SetNxt(p, q), SetPre(q, p) >>
    BY <1>4, <1>w DEF Unlink
  <2>s1. PICK s1 : s1 = Store(m, SetNxt(p, q))
    OBVIOUS
  <2>2. r = Store(s1, SetPre(q, p))
    <3>1. Len(ws) = 2 /\ ws[1] = SetNxt(p, q) /\ ws[2] = SetPre(q, p)
      BY <2>1 DEF SetHead, SetTail
    <3>2. r = Store(Store(m, ws[1]), ws[2])
      BY <1>r, <3>1, AfterFew
    <3>. QED  BY <2>s1, <3>1, <3>2
  <2>3. s1 \in Mems /\ NxtStored(m, s1, p, q)
    BY <1>0, <2>s1, <1>4, StoreNxt
  <2>4. r \in Mems /\ PreStored(s1, r, q, p)
    BY <1>0, <2>3, <2>2, <1>4, StorePre
  <2>. QED  BY <1>0, <1>4, <2>3, <2>4 DEF Joined, NxtStored, PreStored
<1>. QED  BY <1>1, <1>2, <1>3, <1>4

-----------------------------------------------------------------------------
(* Sequences: an element more, and a range less.                           *)

Inserted(s, p, n) ==
    [k \in 1..(Len(s) + 1) |->
        IF k <= p THEN s[k] ELSE IF k = p + 1 THEN n ELSE s[k - 1]]

Cut(s, i, j) ==
    [k \in 1..(Len(s) - (j - i)) |-> IF k < i THEN s[k] ELSE s[k + (j - i)]]

Span(s, i, j) == {s[k] : k \in i..(j - 1)}

IsInserted(s, p, n, u) ==
    /\ u \in Seq(Nodes) /\ Len(u) = Len(s) + 1
    /\ \A k \in 1..(Len(s) + 1) :
          u[k] = IF k <= p THEN s[k] ELSE IF k = p + 1 THEN n ELSE s[k - 1]
    /\ In(u) = In(s) \cup {n}

IsCut(s, i, j, u) ==
    /\ u \in Seq(Nodes) /\ Len(u) = Len(s) - (j - i) /\ Len(u) \in Nat
    /\ \A k \in 1..Len(u) : u[k] = IF k < i THEN s[k] ELSE s[k + (j - i)]
    /\ In(s) = In(u) \cup Span(s, i, j)
    /\ In(u) \cap Span(s, i, j) = {}

LEMMA InsertedFacts ==
    ASSUME NEW s \in Seq(Nodes), NEW p \in 0..Len(s), NEW n \in Nodes
    PROVE  IsInserted(s, p, n, Inserted(s, p, n))
<1>u. PICK u : u = Inserted(s, p, n)
  OBVIOUS
<1>1. Len(s) \in Nat /\ \A k \in 1..Len(s) : s[k] \in Nodes
  OBVIOUS
<1>m. PICK m \in Nat : m = Len(s)
  BY <1>1
<1>2. /\ u = [k \in 1..(m + 1) |-> u[k]]
      /\ \A k \in 1..(m + 1) : u[k] = IF k <= p THEN s[k] ELSE IF k = p + 1 THEN n ELSE s[k - 1]
  BY <1>m, <1>u DEF Inserted
<1>3. \A k \in 1..(m + 1) : u[k] \in Nodes
  <2>. TAKE k \in 1..(m + 1)
  <2>1. p \in Nat /\ p <= m
    BY <1>m
  <2>2. k <= p => k \in 1..m
    BY <2>1
  <2>3. ~(k <= p) /\ k # p + 1 => k - 1 \in 1..m
    BY <2>1
  <2>. QED  BY <1>1, <1>2, <1>m, <2>2, <2>3
<1>4. u \in Seq(Nodes) /\ Len(u) = m + 1
  BY <1>2, <1>3
<1>5. In(u) \subseteq In(s) \cup {n}
  <2>. SUFFICES ASSUME NEW k \in 1..(m + 1) PROVE u[k] \in In(s) \cup {n}
    BY <1>4 DEF In
  <2>1. p \in Nat /\ p <= m
    BY <1>m
  <2>2. k <= p => k \in 1..m
    BY <2>1
  <2>3. ~(k <= p) /\ k # p + 1 => k - 1 \in 1..m
    BY <2>1
  <2>. QED  BY <1>2, <1>m, <2>2, <2>3 DEF In
<1>6. n \in In(u)
  <2>1. p + 1 \in 1..(m + 1) /\ ~(p + 1 <= p)
    BY <1>m
  <2>2. u[p + 1] = n
    BY <1>2, <2>1
  <2>. QED  BY <1>4, <2>1, <2>2 DEF In
<1>7. In(s) \subseteq In(u)
  <2>. SUFFICES ASSUME NEW k \in 1..m PROVE s[k] \in In(u)
    BY <1>m DEF In
  <2>1. CASE k <= p
    <3>1. k \in 1..(m + 1) /\ u[k] = s[k]
      BY <1>2, <2>1
    <3>. QED  BY <1>4, <3>1 DEF In
  <2>2. CASE ~(k <= p)
    <3>1. k + 1 \in 1..(m + 1) /\ ~(k + 1 <= p) /\ k + 1 # p + 1 /\ (k + 1) - 1 = k
      BY <1>m, <2>2
    <3>2. u[k + 1] = s[k]
      BY <1>2, <3>1
    <3>. QED  BY <1>4, <3>1, <3>2 DEF In
  <2>. QED  BY <2>1, <2>2
<1>. QED  BY <1>2, <1>4, <1>5, <1>6, <1>7, <1>m, <1>u DEF IsInserted

LEMMA CutFacts ==
    ASSUME NEW s \in Seq(Nodes), NEW j \in 1..(Len(s) + 1), NEW i \in 1..j,
           \A a, b \in 1..Len(s) : s[a] = s[b] => a = b
    PROVE  IsCut(s, i, j, Cut(s, i, j))
<1>u. PICK u : u = Cut(s, i, j)
  OBVIOUS
<1>1. Len(s) \in Nat /\ \A k \in 1..Len(s) : s[k] \in Nodes
  OBVIOUS
<1>m. PICK m \in Nat : m = Len(s)
  BY <1>1
<1>d. PICK d \in Nat : d = j - i /\ j = i + d /\ m - d \in Nat
  BY <1>m
<1>0. i \in Nat /\ j \in Nat /\ 1 <= i /\ i <= j /\ j <= m + 1
  BY <1>m
<1>2. /\ u = [k \in 1..(m - d) |-> u[k]]
      /\ \A k \in 1..(m - d) : u[k] = IF k < i THEN s[k] ELSE s[k + d]
  BY <1>m, <1>d, <1>u DEF Cut
<1>3. \A k \in 1..(m - d) : k \in 1..m /\ k + d \in 1..m
  BY <1>d
<1>4. u \in Seq(Nodes) /\ Len(u) = m - d
  <2>1. \A k \in 1..(m - d) : u[k] \in Nodes
    BY <1>1, <1>2, <1>3, <1>m
  <2>2. PICK q \in Nat : q = m - d
    BY <1>d
  <2>3. u = [k \in 1..q |-> u[k]] /\ \A k \in 1..q : u[k] \in Nodes
    BY <1>2, <2>1, <2>2
  <2>4. u \in Seq(Nodes) /\ Len(u) = q
    BY ONLY <2>3, q \in Nat
  <2>. QED  BY <2>2, <2>4
<1>5. In(u) \subseteq In(s)
  <2>. SUFFICES ASSUME NEW k \in 1..(m - d) PROVE u[k] \in In(s)
    BY <1>4 DEF In
  <2>. QED  BY <1>2, <1>3, <1>m DEF In
<1>6. \A k \in i..(j - 1) : k \in 1..m
  BY <1>0
<1>7. Span(s, i, j) \subseteq In(s)
  BY <1>6, <1>m DEF In, Span
<1>8. In(s) \subseteq In(u) \cup Span(s, i, j)
  <2>. SUFFICES ASSUME NEW k \in 1..m PROVE s[k] \in In(u) \cup Span(s, i, j)
    BY <1>m DEF In
  <2>1. CASE k < i
    <3>1. k \in 1..(m - d)
      BY <1>0, <1>d, <2>1
    <3>. QED  BY <1>2, <1>4, <2>1, <3>1 DEF In
  <2>2. CASE k \in i..(j - 1)
    BY <2>2 DEF Span
  <2>3. CASE k >= j
    <3>1. k - d \in 1..(m - d) /\ ~(k - d < i) /\ (k - d) + d = k
      BY <1>0, <1>d, <2>3
    <3>2. u[k - d] = s[k]
      BY <1>2, <3>1
    <3>. QED  BY <1>4, <3>1, <3>2 DEF In
  <2>. QED  BY <1>0, <2>1, <2>2, <2>3
<1>9. In(u) \cap Span(s, i, j) = {}
  <2>. SUFFICES ASSUME NEW k \in 1..(m - d), NEW l \in i..(j - 1), u[k] = s[l] PROVE FALSE
    BY <1>4 DEF In, Span
  <2>1. (k < i => k = l) /\ (~(k < i) => k + d = l)
    BY <1>2, <1>3, <1>6, <1>m
  <2>. QED  BY <1>0, <1>d, <2>1
<1>. QED  BY <1>2, <1>4, <1>5, <1>7, <1>8, <1>9, <1>m, <1>d, <1>u DEF IsCut

-----------------------------------------------------------------------------
(* A whole list with one node more, or with a range of them gone.          *)

LEMMA ChainInserted ==
    ASSUME NEW m, NEW r, NEW c \in Lists, NEW s, Chain(m, c, s), NEW p \in 0..Len(s),
           NEW n \in Nodes \ In(s), LinkedIn(m, r, c, n, El(s, p), El(s, p + 1)),
           NEW u, u = Inserted(s, p, n)
    PROVE  Chain(r, c, u)
<1>1. /\ s \in Seq(Nodes) /\ Len(s) \in Nat /\ \A k \in 1..Len(s) : s[k] \in Nodes /\ s[k] # n
      /\ \A i, j \in 1..Len(s) : s[i] = s[j] => i = j
  BY DEF Chain, In
<1>m. PICK m0 \in Nat : m0 = Len(s)
  BY <1>1
<1>0. p \in Nat /\ p <= m0
  BY <1>m
<1>2. /\ u \in Seq(Nodes) /\ Len(u) = m0 + 1
      /\ \A k \in 1..(m0 + 1) : u[k] = IF k <= p THEN s[k] ELSE IF k = p + 1 THEN n ELSE s[k - 1]
  <2>1. n \in Nodes
    OBVIOUS
  <2>2. IsInserted(s, p, n, u)
    BY <1>1, <2>1, InsertedFacts
  <2>. QED  BY <1>m, <2>2 DEF IsInserted
<1>e. \A k \in Nat : /\ k \in 1..m0 => El(s, k) = s[k] /\ s[k] \in Nodes
                     /\ k \notin 1..m0 => El(s, k) = Null
  BY <1>1, <1>m DEF El
<1>3. \A k \in Nat : El(u, k) = IF k <= p THEN El(s, k) ELSE IF k = p + 1 THEN n ELSE El(s, k - 1)
  <2>. TAKE k \in Nat
  <2>1. CASE k <= p
    BY <1>0, <1>2, <1>m, <2>1 DEF El
  <2>2. CASE k = p + 1
    BY <1>0, <1>2, <2>2 DEF El
  <2>3. CASE k > p + 1
    <3>1. k - 1 \in Nat /\ ~(k <= p) /\ k # p + 1 /\ (k \in 1..(m0 + 1) <=> k - 1 \in 1..m0)
      BY <1>0, <2>3
    <3>. QED  BY <1>2, <1>m, <3>1 DEF El
  <2>. QED  BY <1>0, <2>1, <2>2, <2>3
<1>4. c \notin Nodes /\ Null \notin Nodes /\ Nodes \subseteq Entities /\ c \in Entities /\ c # Null
  BY NullFacts
<1>v. PICK prev : prev = El(s, p)
  OBVIOUS
<1>x. PICK next : next = El(s, p + 1)
  OBVIOUS
<1>5. \A e \in Entities :
          /\ r.nxt[e] = IF e = n THEN next
                        ELSE IF e = (IF prev = Null THEN c ELSE prev) THEN n ELSE m.nxt[e]
          /\ r.pre[e] = IF e = n THEN prev
                        ELSE IF e = (IF next = Null THEN c ELSE next) THEN n ELSE m.pre[e]
  BY <1>v, <1>x DEF LinkedIn
<1>6. /\ p = 0 => prev = Null
      /\ p # 0 => p \in 1..m0 /\ prev = s[p] /\ prev \in Nodes /\ prev # Null
  BY <1>0, <1>4, <1>e, <1>v
<1>7. /\ p = m0 => next = Null
      /\ p # m0 => p + 1 \in 1..m0 /\ next = s[p + 1] /\ next \in Nodes /\ next # Null
  BY <1>0, <1>4, <1>e, <1>x
<1>8. \A i, j \in 1..Len(u) : u[i] = u[j] => i = j
  <2>. SUFFICES ASSUME NEW i \in 1..(m0 + 1), NEW j \in 1..(m0 + 1), u[i] = u[j] PROVE i = j
    BY <1>2
  <2>1. ASSUME NEW k \in 1..(m0 + 1)
        PROVE  /\ k <= p => k \in 1..m0 /\ u[k] = s[k] /\ u[k] # n
               /\ k = p + 1 => u[k] = n
               /\ k > p + 1 => k - 1 \in 1..m0 /\ u[k] = s[k - 1] /\ u[k] # n
    <3>1. /\ k <= p => k \in 1..m0
          /\ k > p + 1 => k - 1 \in 1..m0 /\ ~(k <= p) /\ k # p + 1
          /\ k = p + 1 => ~(k <= p)
      BY <1>0
    <3>. QED  BY <1>1, <1>2, <1>m, <3>1
  <2>2. i \in Nat /\ j \in Nat /\ (i <= p \/ i = p + 1 \/ i > p + 1) /\ (j <= p \/ j = p + 1 \/ j > p + 1)
    BY <1>0
  <2>3. CASE i <= p
    BY <1>0, <1>1, <1>m, <2>1, <2>2, <2>3
  <2>4. CASE i = p + 1
    BY <1>0, <1>1, <1>m, <2>1, <2>2, <2>4
  <2>5. CASE i > p + 1
    BY <1>0, <1>1, <1>m, <2>1, <2>2, <2>5
  <2>. QED  BY <2>2, <2>3, <2>4, <2>5
<1>9. r.nxt[c] = El(u, 1)
  <2>1. r.nxt[c] = IF prev = Null THEN n ELSE m.nxt[c]
    BY <1>4, <1>5, <1>6
  <2>2. m.nxt[c] = El(s, 1)
    BY DEF Chain
  <2>3. El(u, 1) = IF 1 <= p THEN El(s, 1) ELSE IF 1 = p + 1 THEN n ELSE El(s, 1 - 1)
    BY <1>3
  <2>. QED  BY <1>0, <1>6, <2>1, <2>2, <2>3
<1>10. r.pre[c] = El(u, Len(u))
  <2>1. r.pre[c] = IF next = Null THEN n ELSE m.pre[c]
    BY <1>4, <1>5, <1>7
  <2>2. m.pre[c] = El(s, m0)
    BY <1>m DEF Chain
  <2>3. El(u, m0 + 1) = IF m0 + 1 <= p THEN El(s, m0 + 1) ELSE IF m0 + 1 = p + 1 THEN n ELSE El(s, m0)
    BY <1>3
  <2>. QED  BY <1>0, <1>2, <1>7, <2>1, <2>2, <2>3
<1>11. ASSUME NEW i \in 1..(m0 + 1)
       PROVE  r.nxt[u[i]] = El(u, i + 1) /\ r.pre[u[i]] = El(u, i - 1)
  <2>0. i \in Nat /\ i + 1 \in Nat /\ i - 1 \in Nat
    OBVIOUS
  <2>n. El(u, i + 1) = IF i + 1 <= p THEN El(s, i + 1) ELSE IF i + 1 = p + 1 THEN n ELSE El(s, i)
    BY <1>3, <2>0
  <2>p. El(u, i - 1) = IF i - 1 <= p THEN El(s, i - 1) ELSE IF i - 1 = p + 1 THEN n ELSE El(s, i - 2)
    BY <1>3, <2>0
  <2>1. CASE i = p + 1
    <3>1. u[i] = n
      BY <1>0, <1>2, <2>1
    <3>2. r.nxt[n] = next /\ r.pre[n] = prev
      BY <1>4, <1>5
    <3>. QED  BY <1>0, <1>v, <1>x, <2>0, <2>1, <2>n, <2>p, <3>1, <3>2
  <2>2. CASE i <= p
    <3>1. i \in 1..m0 /\ u[i] = s[i] /\ s[i] # n /\ s[i] \in Entities /\ s[i] # c
      BY <1>0, <1>1, <1>2, <1>4, <1>m, <2>2
    <3>2. m.nxt[s[i]] = El(s, i + 1) /\ m.pre[s[i]] = El(s, i - 1)
      BY <1>m, <3>1 DEF Chain
    <3>3. prev # Null /\ (s[i] = prev <=> i = p)
      BY <1>1, <1>0, <1>6, <1>m, <2>2, <3>1
    <3>4. ~(next # Null /\ s[i] = next)
      BY <1>0, <1>1, <1>7, <1>m, <2>2, <3>1
    <3>5. r.nxt[s[i]] = IF i = p THEN n ELSE El(s, i + 1)
      BY <1>5, <3>1, <3>2, <3>3
    <3>6. r.pre[s[i]] = El(s, i - 1)
      BY <1>5, <3>1, <3>2, <3>4
    <3>. QED  BY <1>0, <2>0, <2>2, <2>n, <2>p, <3>1, <3>5, <3>6
  <2>3. CASE i > p + 1
    <3>1. i - 1 \in 1..m0 /\ ~(i <= p) /\ i # p + 1 /\ p # m0
      BY <1>0, <2>3
    <3>2. u[i] = s[i - 1] /\ s[i - 1] # n /\ s[i - 1] \in Entities /\ s[i - 1] # c
      BY <1>1, <1>2, <1>4, <1>m, <3>1
    <3>3. m.nxt[s[i - 1]] = El(s, i) /\ m.pre[s[i - 1]] = El(s, i - 2)
      <4>1. (i - 1) + 1 = i /\ (i - 1) - 1 = i - 2
        BY <2>0
      <4>2. m.nxt[s[i - 1]] = El(s, (i - 1) + 1) /\ m.pre[s[i - 1]] = El(s, (i - 1) - 1)
        BY <1>m, <3>1 DEF Chain
      <4>. QED  BY <4>1, <4>2
    <3>4. ~(prev # Null /\ s[i - 1] = prev)
      BY <1>0, <1>1, <1>6, <1>m, <2>3, <3>1
    <3>5. next # Null /\ (s[i - 1] = next <=> i = p + 2)
      BY <1>0, <1>1, <1>7, <1>m, <2>0, <3>1
    <3>6. r.nxt[s[i - 1]] = El(s, i)
      BY <1>5, <3>2, <3>3, <3>4
    <3>7. r.pre[s[i - 1]] = IF i = p + 2 THEN n ELSE El(s, i - 2)
      BY <1>5, <3>2, <3>3, <3>5
    <3>. QED  BY <1>0, <2>0, <2>3, <2>n, <2>p, <3>2, <3>6, <3>7
  <2>. QED  BY <1>0, <2>0, <2>1, <2>2, <2>3
<1>. QED  BY <1>2, <1>8, <1>9, <1>10, <1>11 DEF Chain

(* The nodes G are forgotten, as destroying them leaves them. *)
Freed(m, r, G) ==
    /\ r \in Mems
    /\ \A e \in Entities : /\ r.nxt[e] = IF e \in G THEN Null ELSE m.nxt[e]
                           /\ r.pre[e] = IF e \in G THEN Null ELSE m.pre[e]
    /\ \A k \in Nodes : r.val[k] = IF k \in G THEN Undefined ELSE m.val[k]

LEMMA ChainCut ==
    ASSUME NEW m, NEW q, NEW r, NEW c \in Lists, NEW s, Chain(m, c, s),
           NEW j \in 1..(Len(s) + 1), NEW i \in 1..j,
           Freed(m, q, Span(s, i, j)), Joined(q, r, c, El(s, i - 1), El(s, j)),
           NEW u, u = Cut(s, i, j)
    PROVE  Chain(r, c, u)
<1>1. /\ s \in Seq(Nodes) /\ Len(s) \in Nat /\ \A k \in 1..Len(s) : s[k] \in Nodes
      /\ \A a, b \in 1..Len(s) : s[a] = s[b] => a = b
  BY DEF Chain
<1>m. PICK m0 \in Nat : m0 = Len(s)
  BY <1>1
<1>d. PICK d \in Nat : d = j - i /\ j = i + d /\ m0 - d \in Nat
  BY <1>m
<1>0. i \in Nat /\ j \in Nat /\ 1 <= i /\ i <= j /\ j <= m0 + 1
  BY <1>m
<1>w. PICK w \in Nat : w = m0 - d /\ m0 = w + d
  BY <1>d
<1>2. /\ u \in Seq(Nodes) /\ Len(u) = w
      /\ \A k \in 1..w : u[k] = IF k < i THEN s[k] ELSE s[k + d]
  <2>2. IsCut(s, i, j, u)
    BY <1>1, CutFacts
  <2>. QED  BY <1>m, <1>d, <1>w, <2>2 DEF IsCut
<1>e. \A k \in Nat : /\ k \in 1..m0 => El(s, k) = s[k] /\ s[k] \in Nodes
                     /\ k \notin 1..m0 => El(s, k) = Null
  BY <1>1, <1>m DEF El
<1>i. \A k \in 1..w : k \in 1..m0 /\ k + d \in 1..m0
  BY <1>w
<1>3. \A k \in Nat : El(u, k) = IF k < i THEN El(s, k) ELSE El(s, k + d)
  <2>. TAKE k \in Nat
  <2>1. CASE k < i
    <3>1. k \in 1..w <=> k \in 1..m0
      BY <1>0, <1>d, <1>w, <2>1
    <3>. QED  BY <1>2, <1>m, <2>1, <3>1 DEF El
  <2>2. CASE ~(k < i)
    <3>1. k \in 1..w <=> k + d \in 1..m0
      BY <1>0, <1>d, <1>w, <2>2
    <3>. QED  BY <1>2, <1>m, <2>2, <3>1 DEF El
  <2>. QED  BY <2>1, <2>2
<1>4. c \notin Nodes /\ Null \notin Nodes /\ Nodes \subseteq Entities /\ c \in Entities /\ c # Null
  BY NullFacts
<1>g. PICK G : G = Span(s, i, j)
  OBVIOUS
<1>v. PICK prev : prev = El(s, i - 1)
  OBVIOUS
<1>x. PICK next : next = El(s, j)
  OBVIOUS
<1>5. \A e \in Entities :
          /\ r.nxt[e] = IF e = (IF prev = Null THEN c ELSE prev) THEN next
                        ELSE IF e \in G THEN Null ELSE m.nxt[e]
          /\ r.pre[e] = IF e = (IF next = Null THEN c ELSE next) THEN prev
                        ELSE IF e \in G THEN Null ELSE m.pre[e]
  BY <1>v, <1>x, <1>g DEF Joined, Freed
<1>n. G \subseteq Nodes
  <2>1. \A k \in i..(j - 1) : k \in 1..m0
    BY <1>0
  <2>. QED  BY <1>1, <1>g, <1>m, <2>1 DEF Span
<1>6. /\ i = 1 => prev = Null
      /\ i # 1 => i - 1 \in 1..m0 /\ prev = s[i - 1] /\ prev \in Nodes /\ prev # Null
  BY <1>0, <1>4, <1>e, <1>v
<1>7. /\ j = m0 + 1 => next = Null
      /\ j # m0 + 1 => j \in 1..m0 /\ next = s[j] /\ next \in Nodes /\ next # Null
  BY <1>0, <1>4, <1>e, <1>x
<1>8. \A a, b \in 1..Len(u) : u[a] = u[b] => a = b
  <2>. SUFFICES ASSUME NEW a \in 1..w, NEW b \in 1..w, u[a] = u[b] PROVE a = b
    BY <1>2
  <2>1. /\ a \in 1..m0 /\ a + d \in 1..m0 /\ b \in 1..m0 /\ b + d \in 1..m0
        /\ u[a] = IF a < i THEN s[a] ELSE s[a + d]
        /\ u[b] = IF b < i THEN s[b] ELSE s[b + d]
    BY <1>2, <1>i
  <2>2. CASE a < i
    BY <1>0, <1>1, <1>d, <1>m, <2>1, <2>2
  <2>3. CASE ~(a < i)
    BY <1>0, <1>1, <1>d, <1>m, <2>1, <2>3
  <2>. QED  BY <2>2, <2>3
<1>9. r.nxt[c] = El(u, 1)
  <2>1. r.nxt[c] = IF prev = Null THEN next ELSE m.nxt[c]
    BY <1>4, <1>5, <1>6, <1>n
  <2>2. m.nxt[c] = El(s, 1)
    BY DEF Chain
  <2>3. El(u, 1) = IF 1 < i THEN El(s, 1) ELSE El(s, 1 + d)
    BY <1>3
  <2>4. i = 1 => 1 + d = j
    BY <1>d
  <2>. QED  BY <1>0, <1>6, <1>x, <2>1, <2>2, <2>3, <2>4
<1>10. r.pre[c] = El(u, Len(u))
  <2>1. r.pre[c] = IF next = Null THEN prev ELSE m.pre[c]
    BY <1>4, <1>5, <1>7, <1>n
  <2>2. m.pre[c] = El(s, m0)
    BY <1>m DEF Chain
  <2>3. El(u, w) = IF w < i THEN El(s, w) ELSE El(s, w + d)
    BY <1>3
  <2>4. /\ j = m0 + 1 => w = i - 1 /\ w < i
        /\ j # m0 + 1 => ~(w < i) /\ w + d = m0
    BY <1>0, <1>d, <1>w
  <2>. QED  BY <1>2, <1>7, <1>v, <2>1, <2>2, <2>3, <2>4
<1>11. ASSUME NEW k \in 1..w
       PROVE  r.nxt[u[k]] = El(u, k + 1) /\ r.pre[u[k]] = El(u, k - 1)
  <2>0. k \in Nat /\ k + 1 \in Nat /\ k - 1 \in Nat /\ k \in 1..m0 /\ k + d \in 1..m0
    BY <1>i
  <2>n. El(u, k + 1) = IF k + 1 < i THEN El(s, k + 1) ELSE El(s, (k + 1) + d)
    BY <1>3, <2>0
  <2>p. El(u, k - 1) = IF k - 1 < i THEN El(s, k - 1) ELSE El(s, (k - 1) + d)
    BY <1>3, <2>0
  <2>g. ASSUME NEW a \in 1..m0, a < i \/ a >= j
        PROVE  s[a] \notin G
    <3>1. \A b \in i..(j - 1) : b \in 1..m0 /\ b # a
      BY <1>0, <2>g
    <3>. QED  BY <1>1, <1>g, <1>m, <3>1 DEF Span
  <2>1. CASE k < i
    <3>1. u[k] = s[k] /\ s[k] \in Entities /\ s[k] \in Nodes /\ s[k] # c /\ s[k] \notin G
      BY <1>1, <1>2, <1>4, <1>m, <2>0, <2>1, <2>g
    <3>2. m.nxt[s[k]] = El(s, k + 1) /\ m.pre[s[k]] = El(s, k - 1)
      BY <1>m, <2>0 DEF Chain
    <3>3. prev # Null => (s[k] = prev <=> k = i - 1)
      BY <1>0, <1>1, <1>6, <1>m, <2>0
    <3>4. ~(next # Null /\ s[k] = next)
      BY <1>0, <1>1, <1>7, <1>m, <2>0, <2>1
    <3>5. r.nxt[s[k]] = IF k = i - 1 THEN next ELSE El(s, k + 1)
      BY <1>0, <1>5, <1>6, <2>0, <2>1, <3>1, <3>2, <3>3
    <3>6. r.pre[s[k]] = El(s, k - 1)
      BY <1>5, <3>1, <3>2, <3>4
    <3>7. /\ k = i - 1 => ~(k + 1 < i) /\ (k + 1) + d = j
          /\ k # i - 1 => k + 1 < i
          /\ k - 1 < i
      BY <1>0, <1>d, <2>0, <2>1
    <3>. QED  BY <1>x, <2>n, <2>p, <3>1, <3>5, <3>6, <3>7
  <2>2. CASE ~(k < i)
    <3>0. k + d >= j /\ k + d \in Nat
      BY <1>0, <1>d, <2>0, <2>2
    <3>1. /\ u[k] = s[k + d] /\ s[k + d] \in Entities /\ s[k + d] \in Nodes /\ s[k + d] # c
          /\ s[k + d] \notin G
      BY <1>1, <1>2, <1>4, <1>m, <2>0, <2>2, <2>g, <3>0
    <3>2. m.nxt[s[k + d]] = El(s, (k + 1) + d) /\ m.pre[s[k + d]] = El(s, (k - 1) + d)
      <4>1. (k + 1) + d = (k + d) + 1 /\ (k - 1) + d = (k + d) - 1
        BY <2>0
      <4>2. m.nxt[s[k + d]] = El(s, (k + d) + 1) /\ m.pre[s[k + d]] = El(s, (k + d) - 1)
        BY <1>m, <2>0 DEF Chain
      <4>. QED  BY <4>1, <4>2
    <3>3. ~(prev # Null /\ s[k + d] = prev)
      BY <1>0, <1>1, <1>6, <1>m, <2>0, <3>0
    <3>4. next # Null /\ (s[k + d] = next <=> k = i)
      <4>1. j # m0 + 1 /\ (k + d = j <=> k = i)
        BY <1>0, <1>d, <2>0, <3>0
      <4>. QED  BY <1>1, <1>7, <1>m, <2>0, <4>1
    <3>5. r.nxt[s[k + d]] = El(s, (k + 1) + d)
      BY <1>5, <3>1, <3>2, <3>3
    <3>6. r.pre[s[k + d]] = IF k = i THEN prev ELSE El(s, (k - 1) + d)
      BY <1>5, <3>1, <3>2, <3>4
    <3>7. /\ ~(k + 1 < i)
          /\ k = i => k - 1 < i /\ k - 1 = i - 1
          /\ k # i => ~(k - 1 < i)
      BY <1>0, <2>0, <2>2
    <3>. QED  BY <1>v, <2>n, <2>p, <3>1, <3>5, <3>6, <3>7
  <2>. QED  BY <2>1, <2>2
<1>. QED  BY <1>2, <1>8, <1>9, <1>10, <1>11 DEF Chain

-----------------------------------------------------------------------------
(* The invariant of the memory: S holds the nodes of each list.            *)

Owns(m, c, s) ==
    /\ Chain(m, c, s)
    /\ \A n \in In(s) : m.val[n] # Undefined /\ HeapOf[n] = HeapOf[c]

Apart(S) == \A c, d \in Lists : c # d => In(S[c]) \cap In(S[d]) = {}

Blank(m) == \A n \in Nodes : m.val[n] = Undefined => m.nxt[n] = Null /\ m.pre[n] = Null

Holds(m, S) ==
    /\ m \in Mems
    /\ S \in [Lists -> Seq(Nodes)]
    /\ \A c \in Lists : Owns(m, c, S[c])
    /\ Apart(S)
    /\ Blank(m)

Used(S) == UNION {In(S[c]) : c \in Lists}

(* The nodes that are allocated and in no list. *)
Lost(m, S) == Allocated(m) \ Used(S)

(* T is S but for the list c, which is u. *)
Replaced(S, T, c, u) ==
    /\ T \in [Lists -> Seq(Nodes)]
    /\ T[c] = u
    /\ \A d \in Lists \ {c} : T[d] = S[d]

LEMMA ReplacedExists ==
    ASSUME NEW S \in [Lists -> Seq(Nodes)], NEW c \in Lists, NEW u \in Seq(Nodes)
    PROVE  \E T : Replaced(S, T, c, u)
<1>. DEFINE Q == Seq(Nodes)
<1>1. u \in Q /\ S \in [Lists -> Q]
  OBVIOUS
<1>. HIDE DEF Q
<1>2. [S EXCEPT ![c] = u] \in [Lists -> Q]
  BY <1>1
<1>3. Replaced(S, [S EXCEPT ![c] = u], c, u)
  BY <1>1, <1>2 DEF Replaced, Q
<1>. QED  BY <1>3

LEMMA ChainIsSeq ==
    ASSUME NEW m, NEW c, NEW s, Chain(m, c, s)
    PROVE  /\ s \in Seq(Nodes) /\ Len(s) \in Nat
           /\ \A i \in 1..Len(s) : s[i] \in Nodes /\ s[i] \in In(s)
           /\ \A i, j \in 1..Len(s) : s[i] = s[j] => i = j
           /\ In(s) \subseteq Nodes
BY DEF Chain, In

LEMMA ChainSize ==
    ASSUME NEW m, NEW c, NEW s, Chain(m, c, s)
    PROVE  /\ Cardinality(Nodes) \in Nat
           /\ Len(s) <= Cardinality(Nodes)
           /\ Cardinality(In(s)) = Len(s)
<1>1. /\ s \in Seq(Nodes) /\ Len(s) \in Nat
      /\ \A i \in 1..Len(s) : s[i] \in Nodes /\ s[i] \in In(s)
      /\ \A i, j \in 1..Len(s) : s[i] = s[j] => i = j
      /\ In(s) \subseteq Nodes
  BY ChainIsSeq
<1>2. IsFiniteSet(Nodes)
  BY ListAssumption
<1>3. IsFiniteSet(In(s)) /\ Cardinality(In(s)) <= Cardinality(Nodes)
  BY <1>1, <1>2, FS_Subset
<1>4. Cardinality(Nodes) \in Nat
  BY <1>2, FS_CardinalityType
<1>5. \E f \in [1..Len(s) -> In(s)] :
         /\ \A a, b \in 1..Len(s) : f[a] = f[b] => a = b
         /\ \A t \in In(s) : \E a \in 1..Len(s) : f[a] = t
  <2>1. PICK f : f = [i \in 1..Len(s) |-> s[i]]
    OBVIOUS
  <2>. QED  BY <1>1, <2>1 DEF In
<1>6. ExistsBijection(1..Len(s), In(s))
  BY <1>5, <1>1 DEF ExistsBijection, Bijection, Injection, Surjection, IsInjective
<1>7. Cardinality(In(s)) = Len(s)
  BY <1>1, <1>6, FS_CountingElements
<1>. QED  BY <1>3, <1>4, <1>7

(* What the walks of the model visit. *)
LEMMA Visited ==
    ASSUME NEW m, NEW c, NEW s, Chain(m, c, s)
    PROVE  /\ NodesIn(m, c) = s
           /\ ToSet(NodesIn(m, c)) = In(s)
           /\ ValuesIn(m, c) = [i \in 1..Len(s) |-> m.val[s[i]]]
<1>1. s \in Seq(Nodes) /\ Len(s) \in Nat
  BY ChainIsSeq
<1>2. Cardinality(Nodes) \in Nat /\ Len(s) <= Cardinality(Nodes) + 1
  BY <1>1, ChainSize
<1>3. NodesIn(m, c) = s
  BY <1>2, ForwardIsChain DEF NodesIn
<1>4. ToSet(s) = In(s)
  <2>1. DOMAIN s = 1..Len(s)
    BY <1>1
  <2>. QED  BY <2>1 DEF ToSet, In
<1>. QED  BY <1>3, <1>4 DEF ValuesIn

LEMMA HoldsFacts ==
    ASSUME NEW m, NEW S, Holds(m, S), NEW c \in Lists
    PROVE  /\ m \in Mems /\ S[c] \in Seq(Nodes) /\ Len(S[c]) \in Nat
           /\ Chain(m, c, S[c])
           /\ In(S[c]) \subseteq Used(S)
           /\ \A n \in In(S[c]) : n \in Nodes /\ m.val[n] \in Values /\ HeapOf[n] = HeapOf[c]
           /\ NodesIn(m, c) = S[c]
           /\ Cardinality(In(S[c])) = Len(S[c])
<1>1. /\ m \in Mems /\ Chain(m, c, S[c])
      /\ \A n \in In(S[c]) : m.val[n] # Undefined /\ HeapOf[n] = HeapOf[c]
  BY DEF Holds, Owns
<1>2. S[c] \in Seq(Nodes) /\ Len(S[c]) \in Nat /\ In(S[c]) \subseteq Nodes
  BY <1>1, ChainIsSeq
<1>3. \A n \in Nodes : m.val[n] \in Values \cup {Undefined}
  BY <1>1, MemCells
<1>4. NodesIn(m, c) = S[c] /\ Cardinality(In(S[c])) = Len(S[c])
  BY <1>1, Visited, ChainSize
<1>. QED  BY <1>1, <1>2, <1>3, <1>4 DEF Used

LEMMA UsedFacts ==
    ASSUME NEW m, NEW S, Holds(m, S)
    PROVE  /\ Used(S) \subseteq Allocated(m) /\ Allocated(m) \subseteq Nodes
           /\ \A n \in Used(S) : n \in Nodes /\ \E c \in Lists : n \in In(S[c])
BY HoldsFacts, ListAssumption DEF Used, Allocated

(* The other lists have no part in what happens to the list c. *)
Spares(m, S, r, c, u) ==
    \A d \in Lists \ {c} :
       /\ r.nxt[d] = m.nxt[d] /\ r.pre[d] = m.pre[d]
       /\ \A e \in In(S[d]) : /\ e \notin In(u)
                             /\ r.nxt[e] = m.nxt[e] /\ r.pre[e] = m.pre[e]
                             /\ r.val[e] = m.val[e]

LEMMA HoldsReplaced ==
    ASSUME NEW m, NEW S, Holds(m, S), NEW c \in Lists, NEW u, NEW T, Replaced(S, T, c, u),
           NEW r \in Mems, Owns(r, c, u), Blank(r), Spares(m, S, r, c, u)
    PROVE  Holds(r, T)
<1>1. T \in [Lists -> Seq(Nodes)] /\ T[c] = u /\ \A d \in Lists \ {c} : T[d] = S[d]
  BY DEF Replaced
<1>2. ASSUME NEW d \in Lists \ {c}
      PROVE  Owns(r, d, T[d])
  <2>1. T[d] = S[d] /\ Owns(m, d, S[d])
    BY <1>1 DEF Holds
  <2>2. Chain(m, d, S[d]) /\ \A n \in In(S[d]) : m.val[n] # Undefined /\ HeapOf[n] = HeapOf[d]
    BY <2>1 DEF Owns
  <2>5. \A e \in In(S[d]) \cup {d} : r.nxt[e] = m.nxt[e] /\ r.pre[e] = m.pre[e]
    BY DEF Spares
  <2>6. Chain(r, d, S[d])
    BY <2>2, <2>5, ChainFrame
  <2>7. \A e \in In(S[d]) : r.val[e] = m.val[e]
    BY DEF Spares
  <2>. QED  BY <2>1, <2>2, <2>6, <2>7 DEF Owns
<1>3. \A d \in Lists : Owns(r, d, T[d])
  BY <1>1, <1>2
<1>4. Apart(T)
  <2>. SUFFICES ASSUME NEW a \in Lists, NEW b \in Lists, a # b
                PROVE  In(T[a]) \cap In(T[b]) = {}
    BY DEF Apart
  <2>1. In(S[a]) \cap In(S[b]) = {}
    BY DEF Apart, Holds
  <2>2. CASE a = c
    <3>1. b \in Lists \ {c} /\ T[a] = u /\ T[b] = S[b]
      BY <1>1, <2>2
    <3>. QED  BY <3>1 DEF Spares
  <2>3. CASE b = c
    <3>1. a \in Lists \ {c} /\ T[b] = u /\ T[a] = S[a]
      BY <1>1, <2>3
    <3>. QED  BY <3>1 DEF Spares
  <2>4. CASE a # c /\ b # c
    <3>1. T[a] = S[a] /\ T[b] = S[b]
      BY <1>1, <2>4
    <3>. QED  BY <2>1, <3>1
  <2>. QED  BY <2>2, <2>3, <2>4
<1>. QED  BY <1>1, <1>3, <1>4 DEF Holds

-----------------------------------------------------------------------------
(* What the operations make of memory that holds S.                        *)

LEMMA UsedReplaced ==
    ASSUME NEW S, NEW c \in Lists, NEW u, NEW T, Replaced(S, T, c, u)
    PROVE  \A e : e \in Used(T) <=> e \in In(u) \/ \E d \in Lists \ {c} : e \in In(S[d])
BY DEF Replaced, Used

LEMMA UsedSplit ==
    ASSUME NEW m, NEW S, Holds(m, S), NEW c \in Lists
    PROVE  /\ \A e : e \in Used(S) <=> e \in In(S[c]) \/ \E d \in Lists \ {c} : e \in In(S[d])
           /\ \A d \in Lists \ {c} : In(S[c]) \cap In(S[d]) = {}
BY DEF Used, Holds, Apart

(* A place next to the nodes of s: the nodes there, or none. *)
LEMMA Neighbours ==
    ASSUME NEW s \in Seq(Nodes), NEW i \in Nat
    PROVE  El(s, i) = Null \/ (El(s, i) \in In(s) /\ El(s, i) \in Nodes)
BY DEF El, In

(* Nodes that are allocated and not blank, or of another list, stay so.    *)
Inserts(m, S, r, T, n, v) ==
    /\ Holds(r, T)
    /\ Used(T) = Used(S) \cup {n}
    /\ Lost(r, T) = Lost(m, S)
    /\ \A k \in Nodes : r.val[k] = IF k = n THEN v ELSE m.val[k]

LEMMA FreeNode ==
    ASSUME NEW m, NEW S, Holds(m, S), NEW c \in Lists, NEW n \in FreeFor(m, c)
    PROVE  /\ n \in Nodes /\ m.val[n] = Undefined /\ HeapOf[n] = HeapOf[c]
           /\ n \notin Used(S) /\ \A d \in Lists : n \notin In(S[d])
           /\ m.nxt[n] = Null /\ m.pre[n] = Null
<1>1. n \in Nodes /\ m.val[n] = Undefined /\ HeapOf[n] = HeapOf[c]
  BY DEF FreeFor, Allocated
<1>2. n \notin Used(S)
  BY <1>1, UsedFacts DEF Allocated
<1>. QED  BY <1>1, <1>2 DEF Used, Holds, Blank

LEMMA NodeInserted ==
    ASSUME NEW m, NEW S, Holds(m, S), NEW c \in Lists, NEW n \in FreeFor(m, c), NEW v \in Values,
           NEW s, s = S[c], NEW p \in 0..Len(s), NEW t, t = WithNode(m, n, v),
           NEW r, LinkedIn(t, r, c, n, El(s, p), El(s, p + 1)),
           NEW u, u = Inserted(s, p, n), NEW T, Replaced(S, T, c, u)
    PROVE  Inserts(m, S, r, T, n, v)
<1>0. m \in Mems /\ v # Undefined /\ c \notin Nodes /\ Nodes \subseteq Entities /\ c \in Entities
  BY ListAssumption, NullFacts DEF Holds
<1>1. /\ n \in Nodes /\ m.val[n] = Undefined /\ HeapOf[n] = HeapOf[c]
      /\ n \notin Used(S) /\ \A d \in Lists : n \notin In(S[d])
      /\ m.nxt[n] = Null /\ m.pre[n] = Null
  BY FreeNode
<1>2. /\ t \in Mems
      /\ \A e \in Entities : /\ t.nxt[e] = m.nxt[e] /\ t.pre[e] = m.pre[e]
      /\ \A k \in Nodes : t.val[k] = IF k = n THEN v ELSE m.val[k]
  BY <1>0, <1>1, WithNodeCells
<1>3. /\ Chain(m, c, s) /\ s \in Seq(Nodes) /\ Len(s) \in Nat /\ In(s) \subseteq Nodes
      /\ \A k \in In(s) : m.val[k] # Undefined /\ HeapOf[k] = HeapOf[c]
  BY HoldsFacts, ChainIsSeq DEF Holds, Owns
<1>4. Chain(t, c, s)
  BY <1>0, <1>2, <1>3, ChainFrame
<1>5. Chain(r, c, u)
  <2>1. n \in Nodes \ In(s)
    BY <1>1
  <2>. QED  BY <1>4, <2>1, ChainInserted
<1>6. In(u) = In(s) \cup {n}
  <2>1. IsInserted(s, p, n, u)
    BY <1>1, <1>3, InsertedFacts
  <2>. QED  BY <2>1 DEF IsInserted
<1>7. r \in Mems /\ \A k \in Nodes : r.val[k] = IF k = n THEN v ELSE m.val[k]
  BY <1>2 DEF LinkedIn
<1>8. Owns(r, c, u)
  BY <1>0, <1>1, <1>3, <1>5, <1>6, <1>7 DEF Owns
<1>9. ASSUME NEW e \in Entities, e # c, e # n, e \notin In(s)
      PROVE  r.nxt[e] = m.nxt[e] /\ r.pre[e] = m.pre[e]
  <2>1. p \in Nat /\ p + 1 \in Nat
    BY <1>3
  <2>2. /\ El(s, p) = Null \/ El(s, p) \in In(s)
        /\ El(s, p + 1) = Null \/ El(s, p + 1) \in In(s)
    BY <1>3, <2>1, Neighbours
  <2>. QED  BY <1>2, <1>9, <2>2 DEF LinkedIn
<1>10. Blank(r)
  <2>. SUFFICES ASSUME NEW k \in Nodes, r.val[k] = Undefined PROVE r.nxt[k] = Null /\ r.pre[k] = Null
    BY DEF Blank
  <2>1. k # n /\ m.val[k] = Undefined
    BY <1>0, <1>7
  <2>2. k \notin In(s) /\ k # c /\ k \in Entities
    BY <1>0, <1>3, <2>1
  <2>. QED  BY <1>9, <2>1, <2>2 DEF Holds, Blank
<1>11. Holds(r, T)
  <2>1. \A d \in Lists \ {c} : In(s) \cap In(S[d]) = {}
    BY UsedSplit
  <2>2. ASSUME NEW d \in Lists \ {c}
        PROVE  /\ r.nxt[d] = m.nxt[d] /\ r.pre[d] = m.pre[d]
               /\ \A e \in In(S[d]) : /\ e \notin In(u)
                                     /\ r.nxt[e] = m.nxt[e] /\ r.pre[e] = m.pre[e]
                                     /\ r.val[e] = m.val[e]
    <3>1. d \in Entities /\ d # c /\ d # n /\ d \notin In(s)
      BY <1>1, <1>3, NullFacts
    <3>2. \A e \in In(S[d]) : e \in Nodes /\ e # n /\ e \notin In(s)
      BY <1>1, <2>1, HoldsFacts
    <3>. QED  BY <1>0, <1>6, <1>7, <1>9, <3>1, <3>2
  <2>3. Spares(m, S, r, c, u)
    BY <2>2 DEF Spares
  <2>. QED  BY <1>7, <1>8, <1>10, <2>3, HoldsReplaced
<1>12. Used(T) = Used(S) \cup {n}
  <2>1. \A e : e \in Used(T) <=> e \in In(u) \/ \E d \in Lists \ {c} : e \in In(S[d])
    BY UsedReplaced
  <2>2. \A e : e \in Used(S) <=> e \in In(s) \/ \E d \in Lists \ {c} : e \in In(S[d])
    BY UsedSplit
  <2>. QED  BY <1>6, <2>1, <2>2
<1>13. Lost(r, T) = Lost(m, S)
  BY <1>0, <1>1, <1>7, <1>12 DEF Lost, Allocated
<1>. QED  BY <1>7, <1>11, <1>12, <1>13 DEF Inserts

-----------------------------------------------------------------------------
(* The loop that destroys a range. *)

LEMMA MemsEqual ==
    ASSUME NEW a \in Mems, NEW b \in Mems,
           \A e \in Entities : a.nxt[e] = b.nxt[e] /\ a.pre[e] = b.pre[e],
           \A k \in Nodes : a.val[k] = b.val[k]
    PROVE  a = b
<1>1. a.nxt = b.nxt /\ a.pre = b.pre
  BY DEF Mems, LinkTable
<1>2. a.val = b.val
  BY DEF Mems
<1>3. a = [nxt |-> a.nxt, pre |-> a.pre, val |-> a.val]
  BY DEF Mems
<1>4. b = [nxt |-> b.nxt, pre |-> b.pre, val |-> b.val]
  BY DEF Mems
<1>. QED  BY <1>1, <1>2, <1>3, <1>4

(* m without the nodes G. *)
Without(m, G) ==
    [nxt |-> [e \in Entities |-> IF e \in G THEN Null ELSE m.nxt[e]],
     pre |-> [e \in Entities |-> IF e \in G THEN Null ELSE m.pre[e]],
     val |-> [k \in Nodes |-> IF k \in G THEN Undefined ELSE m.val[k]]]

LEMMA WithoutFreed ==
    ASSUME NEW m \in Mems, NEW G
    PROVE  Freed(m, Without(m, G), G)
<1>. DEFINE t == [e \in Entities |-> IF e \in G THEN Null ELSE m.nxt[e]]
            p == [e \in Entities |-> IF e \in G THEN Null ELSE m.pre[e]]
            w == [k \in Nodes |-> IF k \in G THEN Undefined ELSE m.val[k]]
<1>0. /\ Null \in Targets
      /\ \A e \in Entities : m.nxt[e] \in Targets /\ m.pre[e] \in Targets
      /\ \A n \in Nodes : m.val[n] \in Values \cup {Undefined}
  BY NullFacts, MemCells
<1>1. t \in LinkTable /\ p \in LinkTable
  BY <1>0 DEF LinkTable
<1>2. w \in [Nodes -> Values \cup {Undefined}]
  BY <1>0
<1>3. /\ \A e \in Entities : /\ t[e] = IF e \in G THEN Null ELSE m.nxt[e]
                             /\ p[e] = IF e \in G THEN Null ELSE m.pre[e]
      /\ \A k \in Nodes : w[k] = IF k \in G THEN Undefined ELSE m.val[k]
  OBVIOUS
<1>4. Without(m, G) = [nxt |-> t, pre |-> p, val |-> w]
  BY DEF Without
<1>. HIDE DEF t, p, w
<1>5. PICK r : r = Without(m, G)
  OBVIOUS
<1>6. r \in Mems /\ r.nxt = t /\ r.pre = p /\ r.val = w
  BY <1>1, <1>2, <1>4, <1>5 DEF Mems
<1>7. Freed(m, r, G)
  BY <1>3, <1>6 DEF Freed
<1>. QED  BY <1>5, <1>7

LEMMA FreedUnique ==
    ASSUME NEW m, NEW G, NEW a, NEW b, Freed(m, a, G), Freed(m, b, G)
    PROVE  a = b
BY MemsEqual DEF Freed

LEMMA FreedStep ==
    ASSUME NEW m \in Mems, NEW G, NEW n \in Nodes, NEW H, \A e : e \in H <=> e \in G \/ e = n,
           NEW a, Freed(m, a, G)
    PROVE  WithoutNode(a, n) = Without(m, H)
<1>1. a \in Mems
  BY DEF Freed
<1>2. PICK b : b = WithoutNode(a, n)
  OBVIOUS
<1>3. /\ b \in Mems
      /\ \A e \in Entities : /\ b.nxt[e] = IF e = n THEN Null ELSE a.nxt[e]
                             /\ b.pre[e] = IF e = n THEN Null ELSE a.pre[e]
      /\ \A k \in Nodes : b.val[k] = IF k = n THEN Undefined ELSE a.val[k]
  BY <1>1, <1>2, WithoutNodeCells
<1>4. Freed(m, b, H)
  BY <1>3 DEF Freed
<1>5. Freed(m, Without(m, H), H)
  BY WithoutFreed
<1>. QED  BY <1>2, <1>4, <1>5, FreedUnique

LEMMA DestroyedFreed ==
    ASSUME NEW m \in Mems, NEW c, NEW s, Chain(m, c, s),
           NEW j \in 1..(Len(s) + 1), NEW i \in 1..j,
           NEW first, first = El(s, i), NEW last, last = El(s, j)
    PROVE  Freed(m, Destroyed(m, first, last), Span(s, i, j))
<1>. DEFINE N == Cardinality(Nodes)
            D == 0..N
            M(k) == Without(m, Span(s, i, i + k))
            Step(h) == [k \in D |-> IF k = 0 THEN [mem |-> m, cur |-> first]
                                    ELSE LET t == h[k - 1]
                                         IN  IF t.cur = last THEN t
                                             ELSE [mem |-> WithoutNode(t.mem, t.cur),
                                                   cur |-> t.mem.nxt[t.cur]]]
            f == CHOOSE h : h = Step(h)
<1>1. /\ s \in Seq(Nodes) /\ Len(s) \in Nat /\ \A k \in 1..Len(s) : s[k] \in Nodes
      /\ \A a, b \in 1..Len(s) : s[a] = s[b] => a = b
      /\ N \in Nat /\ Len(s) <= N
  BY ChainIsSeq, ChainSize
<1>d. PICK d \in Nat : d = j - i /\ j = i + d
  OBVIOUS
<1>0. i \in Nat /\ j \in Nat /\ 1 <= i /\ j <= Len(s) + 1 /\ d <= N /\ d \in D
  BY <1>1, <1>d
<1>. DEFINE g == [k \in D |-> IF k <= d THEN [mem |-> M(k), cur |-> El(s, i + k)]
                                        ELSE [mem |-> M(d), cur |-> last]]
<1>2. ASSUME NEW k \in 0..d
      PROVE  /\ Freed(m, M(k), Span(s, i, i + k))
             /\ k < d => /\ El(s, i + k) = s[i + k] /\ s[i + k] \in Nodes /\ s[i + k] # last
                         /\ s[i + k] \notin Span(s, i, i + k)
                         /\ m.nxt[s[i + k]] = El(s, i + (k + 1))
  <2>1. Freed(m, M(k), Span(s, i, i + k))
    BY WithoutFreed
  <2>2. ASSUME k < d
        PROVE  /\ El(s, i + k) = s[i + k] /\ s[i + k] \in Nodes /\ s[i + k] # last
               /\ s[i + k] \notin Span(s, i, i + k)
               /\ m.nxt[s[i + k]] = El(s, i + (k + 1))
    <3>1. i + k \in 1..Len(s) /\ i + k # j /\ i + (k + 1) = (i + k) + 1
      BY <1>0, <1>1, <1>d, <2>2
    <3>2. El(s, i + k) = s[i + k] /\ s[i + k] \in Nodes
      BY <1>1, <3>1 DEF El
    <3>3. s[i + k] # last
      BY <1>0, <1>1, <3>1, <3>2, LinksAssumption DEF El
    <3>4. \A a \in i..((i + k) - 1) : a \in 1..Len(s) /\ a # i + k
      BY <1>0, <1>1, <3>1
    <3>5. s[i + k] \notin Span(s, i, i + k)
      BY <1>1, <3>1, <3>4 DEF Span
    <3>6. m.nxt[s[i + k]] = El(s, (i + k) + 1)
      BY <3>1 DEF Chain
    <3>. QED  BY <3>1, <3>2, <3>3, <3>5, <3>6
  <2>. QED  BY <2>1, <2>2
<1>3. M(0) = m
  <2>1. Span(s, i, i + 0) = {}
    <3>1. i..((i + 0) - 1) = {}
      BY <1>0
    <3>. QED  BY <3>1 DEF Span
  <2>2. Freed(m, Without(m, {}), {}) /\ Freed(m, m, {})
    BY WithoutFreed DEF Freed
  <2>3. Without(m, {}) = m
    BY <2>2, FreedUnique
  <2>. QED  BY <2>1, <2>3
<1>4. ASSUME NEW k \in Nat, k < d
      PROVE  /\ WithoutNode(M(k), s[i + k]) = M(k + 1)
             /\ M(k).nxt[s[i + k]] = El(s, i + (k + 1))
  <2>1. k \in 0..d
    BY <1>4
  <2>2. /\ Freed(m, M(k), Span(s, i, i + k))
        /\ s[i + k] \in Nodes /\ s[i + k] \notin Span(s, i, i + k)
        /\ m.nxt[s[i + k]] = El(s, i + (k + 1))
    BY <1>2, <1>4, <2>1
  <2>3. \A e : e \in Span(s, i, i + (k + 1)) <=> e \in Span(s, i, i + k) \/ e = s[i + k]
    <3>1. \A a : a \in i..((i + (k + 1)) - 1) <=> a \in i..((i + k) - 1) \/ a = i + k
      BY <1>0
    <3>. QED  BY <3>1 DEF Span
  <2>. HIDE DEF M
  <2>4. WithoutNode(M(k), s[i + k]) = Without(m, Span(s, i, i + (k + 1)))
    BY <2>2, <2>3, FreedStep
  <2>5. M(k).nxt[s[i + k]] = m.nxt[s[i + k]]
    BY <2>2, NullFacts DEF Freed
  <2>. QED  BY <2>2, <2>4, <2>5 DEF M
<1>. HIDE DEF M
<1>5. g = Step(g)
  <2>. SUFFICES ASSUME NEW k \in D
                PROVE  g[k] = IF k = 0 THEN [mem |-> m, cur |-> first]
                              ELSE LET t == g[k - 1]
                                   IN  IF t.cur = last THEN t
                                       ELSE [mem |-> WithoutNode(t.mem, t.cur),
                                             cur |-> t.mem.nxt[t.cur]]
    OBVIOUS
  <2>1. CASE k = 0
    <3>1. g[k] = [mem |-> M(0), cur |-> El(s, i + 0)] /\ i + 0 = i
      BY <1>0, <2>1
    <3>. QED  BY <1>3, <2>1, <3>1
  <2>2. CASE k # 0 /\ k <= d
    <3>0. k - 1 \in D /\ k - 1 \in Nat /\ k - 1 \in 0..d /\ k - 1 < d /\ (k - 1) + 1 = k /\ k - 1 <= d
      <4>. HIDE DEF g, Step
      <4>1. k \in Nat /\ k <= N
        BY <1>1
      <4>. QED  BY <1>0, <1>1, <2>2, <4>1
    <3>1. g[k - 1] = [mem |-> M(k - 1), cur |-> El(s, i + (k - 1))]
      BY <3>0
    <3>2. g[k] = [mem |-> M(k), cur |-> El(s, i + k)]
      BY <2>2
    <3>. HIDE DEF g, D
    <3>3. El(s, i + (k - 1)) = s[i + (k - 1)] /\ s[i + (k - 1)] # last
      BY <1>2, <3>0
    <3>4. /\ WithoutNode(M(k - 1), s[i + (k - 1)]) = M((k - 1) + 1)
          /\ M(k - 1).nxt[s[i + (k - 1)]] = El(s, i + ((k - 1) + 1))
      BY <1>4, <3>0
    <3>5. /\ WithoutNode(M(k - 1), s[i + (k - 1)]) = M(k)
          /\ M(k - 1).nxt[s[i + (k - 1)]] = El(s, i + k)
      BY <3>0, <3>4
    <3>. QED  BY <2>2, <3>1, <3>2, <3>3, <3>5
  <2>3. CASE k # 0 /\ ~(k <= d)
    <3>0. k - 1 \in D /\ k - 1 \in Nat /\ (k - 1 <= d => k - 1 = d)
      <4>. HIDE DEF g, Step
      <4>1. k \in Nat /\ k <= N
        BY <1>1
      <4>. QED  BY <1>0, <1>1, <2>3, <4>1
    <3>1. g[k - 1] = [mem |-> M(d), cur |-> last]
      <4>1. CASE k - 1 <= d
        <5>1. k - 1 = d /\ El(s, i + d) = last
          BY <1>d, <3>0, <4>1
        <5>. QED  BY <3>0, <4>1, <5>1
      <4>2. CASE ~(k - 1 <= d)
        BY <3>0, <4>2
      <4>. QED  BY <4>1, <4>2
    <3>2. g[k] = [mem |-> M(d), cur |-> last]
      BY <2>3
    <3>. HIDE DEF g, D
    <3>. QED  BY <2>3, <3>1, <3>2
  <2>. QED  BY <2>1, <2>2, <2>3
<1>6. f = Step(f)
  <2>. HIDE DEF g, Step
  <2>. QED  BY <1>5
<1>. HIDE DEF f
<1>. DEFINE Of(t) == IF t.cur = last THEN t
                     ELSE [mem |-> WithoutNode(t.mem, t.cur), cur |-> t.mem.nxt[t.cur]]
<1>s. ASSUME NEW h, h = Step(h), NEW e \in D, e # 0
      PROVE  h[e] = Of(h[e - 1])
  <2>. HIDE DEF D
  <2>. QED  BY ONLY <1>s
<1>7. \A k \in D : f[k] = g[k]
  <2>. DEFINE T == {k \in Nat : k \in D => f[k] = g[k]}
  <2>1. 0 \in T
    <3>1. f[0] = [mem |-> m, cur |-> first] /\ g[0] = [mem |-> m, cur |-> first]
      <4>1. 0 \in D
        BY <1>1
      <4>. HIDE DEF g
      <4>. QED  BY <1>5, <1>6, <4>1
    <3>. QED  BY <3>1
  <2>2. ASSUME NEW k \in Nat, k \in T
        PROVE  k + 1 \in T
    <3>. SUFFICES ASSUME k + 1 \in D PROVE f[k + 1] = g[k + 1]
      OBVIOUS
    <3>1. k \in D /\ k + 1 # 0 /\ (k + 1) - 1 = k
      BY <1>1
    <3>2. f[k] = g[k]
      <4>. HIDE DEF g, D, Step
      <4>. QED  BY <2>2, <3>1
    <3>. HIDE DEF g, D, Step, Of
    <3>3. f[k + 1] = Of(f[k])
      <4>1. f[k + 1] = Of(f[(k + 1) - 1])
        BY <1>6, <1>s, <3>1
      <4>. QED  BY <3>1, <4>1
    <3>4. g[k + 1] = Of(g[k])
      <4>1. g[k + 1] = Of(g[(k + 1) - 1])
        BY <1>5, <1>s, <3>1
      <4>. QED  BY <3>1, <4>1
    <3>. QED  BY <3>2, <3>3, <3>4
  <2>. HIDE DEF T
  <2>3. \A k \in Nat : k \in T
    BY <2>1, <2>2, SetInduction
  <2>4. \A k \in D : k \in Nat
    OBVIOUS
  <2>. HIDE DEF D, g
  <2>. QED  BY <2>3, <2>4 DEF T
<1>8. Destroyed(m, first, last) = f[N].mem
  BY DEF Destroyed, f
<1>9. N \in D /\ g[N].mem = M(d)
  <2>1. N \in D
    BY <1>1
  <2>2. N <= d => N = d
    BY <1>0, <1>1
  <2>. QED  BY <2>1, <2>2
<1>10. Destroyed(m, first, last) = M(d)
  <2>. HIDE DEF g, D
  <2>. QED  BY <1>7, <1>8, <1>9
<1>11. d \in 0..d /\ i + d = j
  BY <1>d
<1>. QED  BY <1>2, <1>10, <1>11

-----------------------------------------------------------------------------
(* Erase, clear, and a list whose ends are forgotten. *)

Removes(m, S, r, T, G) ==
    /\ Holds(r, T)
    /\ Used(T) = Used(S) \ G
    /\ Lost(r, T) = Lost(m, S)
    /\ \A k \in Nodes : r.val[k] = IF k \in G THEN Undefined ELSE m.val[k]

LEMMA NodesRemoved ==
    ASSUME NEW m, NEW S, Holds(m, S), NEW c \in Lists, NEW s, s = S[c],
           NEW j \in 1..(Len(s) + 1), NEW i \in 1..j, NEW q, Freed(m, q, Span(s, i, j)),
           NEW r, Joined(q, r, c, El(s, i - 1), El(s, j)),
           NEW u, u = Cut(s, i, j), NEW T, Replaced(S, T, c, u)
    PROVE  Removes(m, S, r, T, Span(s, i, j))
<1>g. PICK G : G = Span(s, i, j)
  OBVIOUS
<1>0. m \in Mems /\ c \notin Nodes /\ Nodes \subseteq Entities /\ c \in Entities
  BY NullFacts DEF Holds
<1>3. /\ Chain(m, c, s) /\ s \in Seq(Nodes) /\ Len(s) \in Nat /\ In(s) \subseteq Nodes
      /\ \A k \in In(s) : m.val[k] # Undefined /\ HeapOf[k] = HeapOf[c]
      /\ \A a, b \in 1..Len(s) : s[a] = s[b] => a = b
  BY HoldsFacts, ChainIsSeq DEF Holds, Owns
<1>5. Chain(r, c, u)
  BY <1>3, ChainCut
<1>6. In(s) = In(u) \cup G /\ In(u) \cap G = {}
  <2>1. IsCut(s, i, j, u)
    BY <1>3, CutFacts
  <2>. QED  BY <1>g, <2>1 DEF IsCut
<1>7. r \in Mems /\ \A k \in Nodes : r.val[k] = IF k \in G THEN Undefined ELSE m.val[k]
  BY <1>g DEF Joined, Freed
<1>8. Owns(r, c, u)
  BY <1>3, <1>5, <1>6, <1>7 DEF Owns
<1>9. ASSUME NEW e \in Entities, e # c, e \notin In(u)
      PROVE  /\ r.nxt[e] = IF e \in G THEN Null ELSE m.nxt[e]
             /\ r.pre[e] = IF e \in G THEN Null ELSE m.pre[e]
  <2>1. i - 1 \in Nat /\ j \in Nat
    BY <1>3
  <2>2. El(s, i - 1) = Null \/ El(s, i - 1) \in In(u)
    <3>1. CASE i = 1
      BY <3>1 DEF El
    <3>2. CASE i # 1
      <4>1. i - 1 \in 1..Len(s) /\ i - 1 < i
        BY <1>3, <3>2
      <4>2. El(s, i - 1) = s[i - 1] /\ s[i - 1] \in In(s)
        BY <4>1 DEF El, In
      <4>3. \A a \in i..(j - 1) : a \in 1..Len(s) /\ a # i - 1
        BY <1>3
      <4>4. s[i - 1] \notin G
        BY <1>3, <1>g, <4>1, <4>3 DEF Span
      <4>. QED  BY <1>6, <4>2, <4>4
    <3>. QED  BY <3>1, <3>2
  <2>3. El(s, j) = Null \/ El(s, j) \in In(u)
    <3>1. CASE j = Len(s) + 1
      BY <1>3, <3>1 DEF El
    <3>2. CASE j # Len(s) + 1
      <4>1. j \in 1..Len(s)
        BY <1>3, <3>2
      <4>2. El(s, j) = s[j] /\ s[j] \in In(s)
        BY <4>1 DEF El, In
      <4>3. \A a \in i..(j - 1) : a \in 1..Len(s) /\ a # j
        BY <1>3
      <4>4. s[j] \notin G
        BY <1>3, <1>g, <4>1, <4>3 DEF Span
      <4>. QED  BY <1>6, <4>2, <4>4
    <3>. QED  BY <3>1, <3>2
  <2>. QED  BY <1>9, <1>g, <2>2, <2>3 DEF Joined, Freed
<1>10. Blank(r)
  <2>. SUFFICES ASSUME NEW k \in Nodes, r.val[k] = Undefined PROVE r.nxt[k] = Null /\ r.pre[k] = Null
    BY DEF Blank
  <2>1. k \in G \/ m.val[k] = Undefined
    BY <1>7
  <2>2. k \notin In(u) /\ k # c /\ k \in Entities
    BY <1>0, <1>3, <1>6, <2>1
  <2>. QED  BY <1>9, <2>1, <2>2 DEF Holds, Blank
<1>11. Holds(r, T)
  <2>1. \A d \in Lists \ {c} : In(s) \cap In(S[d]) = {}
    BY UsedSplit
  <2>2. ASSUME NEW d \in Lists \ {c}
        PROVE  /\ r.nxt[d] = m.nxt[d] /\ r.pre[d] = m.pre[d]
               /\ \A e \in In(S[d]) : /\ e \notin In(u)
                                     /\ r.nxt[e] = m.nxt[e] /\ r.pre[e] = m.pre[e]
                                     /\ r.val[e] = m.val[e]
    <3>1. d \in Entities /\ d # c /\ d \notin In(s)
      BY <1>3, NullFacts
    <3>2. \A e \in In(S[d]) : e \in Nodes /\ e \notin In(s)
      BY <2>1, HoldsFacts
    <3>. QED  BY <1>0, <1>6, <1>7, <1>9, <3>1, <3>2
  <2>3. Spares(m, S, r, c, u)
    BY <2>2 DEF Spares
  <2>. QED  BY <1>7, <1>8, <1>10, <2>3, HoldsReplaced
<1>12. Used(T) = Used(S) \ G
  <2>1. \A e : e \in Used(T) <=> e \in In(u) \/ \E d \in Lists \ {c} : e \in In(S[d])
    BY UsedReplaced
  <2>2. /\ \A e : e \in Used(S) <=> e \in In(s) \/ \E d \in Lists \ {c} : e \in In(S[d])
        /\ \A d \in Lists \ {c} : In(s) \cap In(S[d]) = {}
    BY UsedSplit
  <2>. QED  BY <1>6, <2>1, <2>2
<1>13. Lost(r, T) = Lost(m, S)
  <2>1. G \subseteq Used(S)
    BY <1>6, HoldsFacts
  <2>. QED  BY <1>7, <1>12, <2>1 DEF Lost, Allocated
<1>. QED  BY <1>7, <1>11, <1>12, <1>13, <1>g DEF Removes

LEMMA ErasedHolds ==
    ASSUME NEW m, NEW S, Holds(m, S), NEW c \in Lists, NEW s, s = S[c],
           NEW j \in 1..(Len(s) + 1), NEW i \in 1..j, i \in 1..Len(s),
           NEW r, r = Erased(m, c, s[i], El(s, j))
    PROVE  /\ \E T : Replaced(S, T, c, Cut(s, i, j))
           /\ \A T : Replaced(S, T, c, Cut(s, i, j)) => Removes(m, S, r, T, Span(s, i, j))
<1>1. /\ Chain(m, c, s) /\ s \in Seq(Nodes) /\ Len(s) \in Nat /\ m \in Mems
      /\ S \in [Lists -> Seq(Nodes)]
      /\ \A a, b \in 1..Len(s) : s[a] = s[b] => a = b
  BY HoldsFacts, ChainIsSeq DEF Holds
<1>2. /\ El(s, i) = s[i] /\ s[i] \in Nodes /\ s[i] # Null /\ m.pre[s[i]] = El(s, i - 1)
      /\ i - 1 \in Nat /\ j \in Nat
  BY <1>1, LinksAssumption DEF El, Chain
<1>p. PICK p : p = El(s, i - 1)
  OBVIOUS
<1>x. PICK x : x = El(s, j)
  OBVIOUS
<1>3. p \in Targets /\ x \in Targets
  BY <1>1, <1>2, <1>p, <1>x, Neighbours, NullFacts
<1>q. PICK q : q = Destroyed(m, s[i], x)
  OBVIOUS
<1>4. Freed(m, q, Span(s, i, j))
  BY <1>1, <1>2, <1>q, <1>x, DestroyedFreed
<1>5. r = AfterStores(q, Unlink(c, p, x))
  BY <1>2, <1>p, <1>q, <1>x DEF Erased
<1>6. q \in Mems
  BY <1>4 DEF Freed
<1>7. Joined(q, r, c, p, x)
  BY <1>3, <1>5, <1>6, UnlinkMem
<1>u. PICK u : u = Cut(s, i, j)
  OBVIOUS
<1>8. u \in Seq(Nodes)
  <2>1. IsCut(s, i, j, u)
    BY <1>1, <1>u, CutFacts
  <2>. QED  BY <2>1 DEF IsCut
<1>9. \E T : Replaced(S, T, c, u)
  BY <1>1, <1>8, ReplacedExists
<1>10. ASSUME NEW T, Replaced(S, T, c, u)
       PROVE  Removes(m, S, r, T, Span(s, i, j))
  BY <1>4, <1>7, <1>10, <1>p, <1>x, <1>u, NodesRemoved
<1>. QED  BY <1>9, <1>10, <1>u

LEMMA ClearedHolds ==
    ASSUME NEW m, NEW S, Holds(m, S), NEW c \in Lists, NEW T, Replaced(S, T, c, <<>>),
           NEW r, r = Cleared(m, c)
    PROVE  Removes(m, S, r, T, In(S[c]))
<1>s. PICK s : s = S[c]
  OBVIOUS
<1>1. /\ Chain(m, c, s) /\ s \in Seq(Nodes) /\ Len(s) \in Nat /\ m \in Mems
      /\ \A a, b \in 1..Len(s) : s[a] = s[b] => a = b
  BY <1>s, HoldsFacts, ChainIsSeq DEF Holds
<1>j. PICK j \in Nat : j = Len(s) + 1
  BY <1>1
<1>2. FirstNode(m, c) = El(s, 1) /\ El(s, j) = Null /\ El(s, 1 - 1) = Null
  BY <1>1, <1>j DEF Chain, FirstNode, El
<1>3. 1 \in 1..j /\ j \in 1..(Len(s) + 1)
  BY <1>1, <1>j
<1>q. PICK q : q = Destroyed(m, FirstNode(m, c), Null)
  OBVIOUS
<1>4. Freed(m, q, Span(s, 1, j))
  BY <1>1, <1>2, <1>3, <1>q, DestroyedFreed
<1>5. r = AfterStores(q, Unlink(c, Null, Null))
  BY <1>q DEF Cleared, Unlink
<1>6. q \in Mems /\ Null \in Targets
  BY <1>4, NullFacts DEF Freed
<1>7. Joined(q, r, c, Null, Null)
  BY <1>5, <1>6, UnlinkMem
<1>8. Joined(q, r, c, El(s, 1 - 1), El(s, j))
  BY <1>2, <1>7
<1>u. PICK u : u = Cut(s, 1, j)
  OBVIOUS
<1>9. IsCut(s, 1, j, u)
  BY <1>1, <1>3, <1>u, CutFacts
<1>10. u = <<>>
  <2>1. u \in Seq(Nodes) /\ Len(u) = 0
    BY <1>1, <1>9, <1>j DEF IsCut
  <2>. QED  BY <2>1
<1>11. Span(s, 1, j) = In(s)
  <2>1. \A a : a \in 1..(j - 1) <=> a \in 1..Len(s)
    BY <1>1, <1>j
  <2>. QED  BY <2>1 DEF Span, In
<1>12. Replaced(S, T, c, u)
  BY <1>10
<1>13. Removes(m, S, r, T, Span(s, 1, j))
  BY <1>3, <1>4, <1>8, <1>12, <1>s, <1>u, NodesRemoved
<1>. QED  BY <1>11, <1>13, <1>s

-----------------------------------------------------------------------------
(* Pushes and insert: the node n, holding v, after the first p nodes. *)

LEMMA NewNode ==
    ASSUME NEW m, NEW S, Holds(m, S), NEW c \in Lists, NEW n \in FreeFor(m, c), NEW v \in Values,
           NEW s, s = S[c], NEW t, t = WithNode(m, n, v)
    PROVE  /\ t \in Mems /\ t.nxt[n] = Null /\ t.pre[n] = Null
           /\ n \in Nodes /\ n \notin In(s)
           /\ s \in Seq(Nodes) /\ Len(s) \in Nat /\ Chain(t, c, s)
           /\ Chain(m, c, s)
<1>1. m \in Mems /\ c \notin Nodes /\ Nodes \subseteq Entities /\ c \in Entities
  BY NullFacts DEF Holds
<1>2. n \in Nodes /\ n \notin In(s) /\ m.nxt[n] = Null /\ m.pre[n] = Null
  BY FreeNode
<1>3. /\ t \in Mems
      /\ \A e \in Entities : t.nxt[e] = m.nxt[e] /\ t.pre[e] = m.pre[e]
  BY <1>1, <1>2, WithNodeCells
<1>4. Chain(m, c, s) /\ s \in Seq(Nodes) /\ Len(s) \in Nat /\ In(s) \subseteq Nodes
  BY HoldsFacts, ChainIsSeq
<1>5. Chain(t, c, s)
  BY <1>1, <1>3, <1>4, ChainFrame
<1>. QED  BY <1>1, <1>2, <1>3, <1>4, <1>5

LEMMA InsertedExists ==
    ASSUME NEW m, NEW S, Holds(m, S), NEW c \in Lists, NEW n \in FreeFor(m, c),
           NEW p \in 0..Len(S[c])
    PROVE  \E T : Replaced(S, T, c, Inserted(S[c], p, n))
<1>1. n \in Nodes
  BY FreeNode
<1>2. S[c] \in Seq(Nodes) /\ S \in [Lists -> Seq(Nodes)]
  BY HoldsFacts DEF Holds
<1>3. IsInserted(S[c], p, n, Inserted(S[c], p, n))
  BY <1>1, <1>2, InsertedFacts
<1>4. Inserted(S[c], p, n) \in Seq(Nodes)
  BY <1>3 DEF IsInserted
<1>. QED  BY <1>2, <1>4, ReplacedExists

LEMMA PushFrontHolds ==
    ASSUME NEW m, NEW S, Holds(m, S), NEW c \in Lists, NEW n \in FreeFor(m, c), NEW v \in Values,
           NEW t, t = WithNode(m, n, v), NEW r, r = AfterStores(t, PushFront(t, c, n)),
           NEW T, Replaced(S, T, c, Inserted(S[c], 0, n))
    PROVE  Inserts(m, S, r, T, n, v)
<1>s. PICK s : s = S[c]
  OBVIOUS
<1>1. /\ t \in Mems /\ t.nxt[n] = Null /\ t.pre[n] = Null
      /\ n \in Nodes /\ n \notin In(s)
      /\ s \in Seq(Nodes) /\ Len(s) \in Nat /\ Chain(t, c, s)
  BY <1>s, NewNode
<1>f. PICK f : f = FirstNode(t, c)
  OBVIOUS
<1>2. f = El(s, 1) /\ El(s, 0) = Null
  BY <1>1, <1>f DEF Chain, FirstNode, El
<1>3. n # f
  BY <1>1, <1>2, Neighbours, NullFacts
<1>4. LinkedIn(t, r, c, n, Null, f)
  BY <1>1, <1>3, <1>f, PushFrontMem
<1>p. PICK p \in 0..Len(s) : p = 0
  BY <1>1
<1>5. LinkedIn(t, r, c, n, El(s, p), El(s, p + 1))
  BY <1>2, <1>4, <1>p
<1>. QED  BY <1>5, <1>s, <1>p, NodeInserted

LEMMA PushBackHolds ==
    ASSUME NEW m, NEW S, Holds(m, S), NEW c \in Lists, NEW n \in FreeFor(m, c), NEW v \in Values,
           NEW t, t = WithNode(m, n, v), NEW r, r = AfterStores(t, PushBack(t, c, n)),
           NEW T, Replaced(S, T, c, Inserted(S[c], Len(S[c]), n))
    PROVE  Inserts(m, S, r, T, n, v)
<1>s. PICK s : s = S[c]
  OBVIOUS
<1>1. /\ t \in Mems /\ t.nxt[n] = Null /\ t.pre[n] = Null
      /\ n \in Nodes /\ n \notin In(s)
      /\ s \in Seq(Nodes) /\ Len(s) \in Nat /\ Chain(t, c, s)
  BY <1>s, NewNode
<1>p. PICK p \in 0..Len(s) : p = Len(s)
  BY <1>1
<1>f. PICK f : f = LastNode(t, c)
  OBVIOUS
<1>2. f = El(s, p) /\ El(s, p + 1) = Null
  BY <1>1, <1>f, <1>p DEF Chain, LastNode, El
<1>3. n # f
  BY <1>1, <1>2, <1>p, Neighbours, NullFacts
<1>4. LinkedIn(t, r, c, n, f, Null)
  BY <1>1, <1>3, <1>f, PushBackMem
<1>5. LinkedIn(t, r, c, n, El(s, p), El(s, p + 1))
  BY <1>2, <1>4, <1>p
<1>. QED  BY <1>5, <1>s, <1>p, NodeInserted

LEMMA InsertHolds ==
    ASSUME NEW m, NEW S, Holds(m, S), NEW c \in Lists, NEW n \in FreeFor(m, c), NEW v \in Values,
           NEW i \in 1..Len(S[c]), NEW pos, pos = S[c][i],
           NEW t, t = WithNode(m, n, v), NEW r, r = AfterStores(t, InsertBefore(t, c, pos, n)),
           NEW T, Replaced(S, T, c, Inserted(S[c], i - 1, n))
    PROVE  Inserts(m, S, r, T, n, v)
<1>s. PICK s : s = S[c]
  OBVIOUS
<1>1. /\ t \in Mems /\ t.nxt[n] = Null /\ t.pre[n] = Null
      /\ n \in Nodes /\ n \notin In(s)
      /\ s \in Seq(Nodes) /\ Len(s) \in Nat /\ Chain(t, c, s)
  BY <1>s, NewNode
<1>p. PICK p \in 0..Len(s) : p = i - 1 /\ i = p + 1 /\ p \in Nat
  BY <1>1, <1>s
<1>i. i \in 1..Len(s) /\ pos = s[i]
  BY <1>s
<1>2. pos \in Nodes /\ pos \in In(s) /\ El(s, p + 1) = pos /\ t.pre[pos] = El(s, p)
  BY <1>1, <1>i, <1>p DEF Chain, El, In
<1>q. PICK q : q = t.pre[pos]
  OBVIOUS
<1>3. n # q /\ n # pos
  BY <1>1, <1>2, <1>p, <1>q, Neighbours, NullFacts
<1>4. pos # q
  <2>1. \A a, b \in 1..Len(s) : s[a] = s[b] => a = b
    BY <1>1 DEF Chain
  <2>. QED  BY <1>1, <1>2, <1>i, <1>p, <1>q, <2>1, NullFacts DEF El
<1>5. LinkedIn(t, r, c, n, q, pos)
  BY <1>1, <1>2, <1>3, <1>4, <1>q, InsertMem
<1>6. LinkedIn(t, r, c, n, El(s, p), El(s, p + 1))
  BY <1>2, <1>5, <1>q
<1>. QED  BY <1>6, <1>s, <1>p, NodeInserted

-----------------------------------------------------------------------------
(* A push_back for each of some values. *)

Grown(m, c, n, v) == LET t == WithNode(m, n, v) IN AfterStores(t, PushBack(t, c, n))

Longer(s, ns, k) ==
    [i \in 1..(Len(s) + k) |-> IF i <= Len(s) THEN s[i] ELSE ns[i - Len(s)]]

LEMMA AppendedSteps ==
    ASSUME NEW m, NEW c, NEW ns, NEW vs, Len(vs) \in Nat
    PROVE  \E h : /\ h[0] = m /\ h[Len(vs)] = Appended(m, c, ns, vs)
                  /\ \A i \in 1..Len(vs) : h[i] = Grown(h[i - 1], c, ns[i], vs[i])
<1>. DEFINE D == 0..Len(vs)
            F(a, i) == Grown(a, c, ns[i], vs[i])
            Step(h) == [i \in D |-> IF i = 0 THEN m ELSE F(h[i - 1], i)]
            f == CHOOSE h : h = Step(h)
            Good(h, k) == h[0] = m /\ \A i \in 1..k : h[i] = F(h[i - 1], i)
            T == {k \in Nat : \E h : Good(h, k)}
<1>. HIDE DEF F
<1>1. 0 \in T
  <2>1. PICK h : h = [i \in {0} |-> m]
    OBVIOUS
  <2>2. Good(h, 0)
    BY <2>1
  <2>. QED  BY <2>2
<1>2. ASSUME NEW k \in Nat, k \in T
      PROVE  k + 1 \in T
  <2>1. PICK h : h[0] = m /\ \A i \in 1..k : h[i] = F(h[i - 1], i)
    BY <1>2
  <2>2. PICK x : x = F(h[k], k + 1)
    OBVIOUS
  <2>3. PICK g : g = [i \in 0..(k + 1) |-> IF i <= k THEN h[i] ELSE x]
    OBVIOUS
  <2>4. g[0] = m
    BY <2>1, <2>3
  <2>5. ASSUME NEW i \in 1..(k + 1)
        PROVE  g[i] = F(g[i - 1], i)
    <3>1. i - 1 \in 0..(k + 1) /\ i - 1 <= k /\ i \in 0..(k + 1)
      OBVIOUS
    <3>2. g[i - 1] = h[i - 1]
      BY <2>3, <3>1
    <3>3. CASE i <= k
      <4>1. g[i] = h[i] /\ i \in 1..k
        BY <2>3, <3>1, <3>3
      <4>. QED  BY <2>1, <3>2, <4>1
    <3>4. CASE ~(i <= k)
      <4>1. i = k + 1 /\ i - 1 = k
        BY <3>4
      <4>2. g[i] = x
        BY <2>3, <3>1, <3>4
      <4>. QED  BY <2>2, <3>2, <4>1, <4>2
    <3>. QED  BY <3>3, <3>4
  <2>6. Good(g, k + 1)
    BY <2>4, <2>5
  <2>. QED  BY <2>6
<1>3. \A k \in Nat : k \in T
  <2>. HIDE DEF T
  <2>. QED  BY <1>1, <1>2, SetInduction
<1>4. PICK h : h[0] = m /\ \A i \in 1..Len(vs) : h[i] = F(h[i - 1], i)
  BY <1>3
<1>5. PICK g : g = [i \in D |-> h[i]]
  OBVIOUS
<1>6. g = Step(g)
  <2>1. \A i \in D : g[i] = IF i = 0 THEN m ELSE F(g[i - 1], i)
    <3>. TAKE i \in D
    <3>1. i # 0 => i - 1 \in D /\ i \in 1..Len(vs)
      OBVIOUS
    <3>2. g[i] = h[i] /\ (i # 0 => g[i - 1] = h[i - 1])
      BY <1>5, <3>1
    <3>. QED  BY <1>4, <3>1, <3>2
  <2>. HIDE DEF D
  <2>. QED  BY <1>5, <2>1
<1>7. f = Step(f)
  <2>. HIDE DEF Step
  <2>. QED  BY <1>6
<1>8. Appended(m, c, ns, vs) = f[Len(vs)]
  BY DEF Appended, Grown, F
<1>. HIDE DEF f
<1>9. f[0] = m /\ \A i \in 1..Len(vs) : f[i] = F(f[i - 1], i)
  <2>1. 0 \in D /\ \A i \in 1..Len(vs) : i \in D /\ i # 0
    OBVIOUS
  <2>. HIDE DEF D
  <2>. QED  BY <1>7, <2>1
<1>. QED  BY <1>8, <1>9 DEF F

Appends(m, S, r, T, R) ==
    /\ Holds(r, T)
    /\ Used(T) = Used(S) \cup R
    /\ Lost(r, T) = Lost(m, S)
    /\ \A k \in Nodes \ R : r.val[k] = m.val[k]

Firsts(ns, k) == {ns[i] : i \in 1..k}

LEMMA LongerNone ==
    ASSUME NEW s \in Seq(Nodes), NEW ns
    PROVE  Longer(s, ns, 0) = s
<1>1. PICK m \in Nat : m = Len(s) /\ m + 0 = m
  OBVIOUS
<1>2. Longer(s, ns, 0) = [i \in 1..m |-> s[i]]
  BY <1>1 DEF Longer
<1>3. s = [i \in 1..m |-> s[i]]
  BY <1>1
<1>. QED  BY <1>2, <1>3

LEMMA LongerOne ==
    ASSUME NEW s \in Seq(Nodes), NEW ns, NEW k \in Nat, NEW u, u = Longer(s, ns, k), u \in Seq(Nodes)
    PROVE  Inserted(u, Len(u), ns[k + 1]) = Longer(s, ns, k + 1)
<1>1. PICK m \in Nat : m = Len(s)
  OBVIOUS
<1>2. PICK w \in Nat : w = m + k
  OBVIOUS
<1>3. u = [i \in 1..w |-> IF i <= m THEN s[i] ELSE ns[i - m]]
  BY <1>1, <1>2 DEF Longer
<1>4. Len(u) = w
  BY <1>3
<1>5. Inserted(u, w, ns[k + 1]) =
         [i \in 1..(w + 1) |-> IF i <= w THEN u[i] ELSE IF i = w + 1 THEN ns[k + 1] ELSE u[i - 1]]
  BY <1>4 DEF Inserted
<1>6. Longer(s, ns, k + 1) = [i \in 1..(w + 1) |-> IF i <= m THEN s[i] ELSE ns[i - m]]
  <2>1. m + (k + 1) = w + 1
    BY <1>2
  <2>. QED  BY <1>1, <2>1 DEF Longer
<1>7. ASSUME NEW i \in 1..(w + 1)
      PROVE  (IF i <= w THEN u[i] ELSE IF i = w + 1 THEN ns[k + 1] ELSE u[i - 1])
                = (IF i <= m THEN s[i] ELSE ns[i - m])
  <2>1. CASE i <= w
    <3>1. i \in 1..w
      BY <2>1
    <3>. QED  BY <1>3, <2>1, <3>1
  <2>2. CASE i = w + 1
    <3>1. ~(i <= w) /\ ~(i <= m) /\ i - m = k + 1
      BY <1>2, <2>2
    <3>. QED  BY <2>2, <3>1
  <2>. QED  BY <2>1, <2>2
<1>. DEFINE A(i) == IF i <= w THEN u[i] ELSE IF i = w + 1 THEN ns[k + 1] ELSE u[i - 1]
            B(i) == IF i <= m THEN s[i] ELSE ns[i - m]
<1>8. (\A i \in 1..(w + 1) : A(i) = B(i))
         => [i \in 1..(w + 1) |-> A(i)] = [i \in 1..(w + 1) |-> B(i)]
  <2>. HIDE DEF A, B
  <2>. QED  OBVIOUS
<1>9. [i \in 1..(w + 1) |-> A(i)] = [i \in 1..(w + 1) |-> B(i)]
  BY <1>7, <1>8
<1>. QED  BY <1>4, <1>5, <1>6, <1>9

LEMMA AppendedHolds ==
    ASSUME NEW m, NEW S, Holds(m, S), NEW c \in Lists, NEW K \in Nat, NEW vs, Len(vs) = K,
           \A i \in 1..K : vs[i] \in Values, NEW ns \in Allocations(m, c, K)
    PROVE  \E T : /\ Replaced(S, T, c, Longer(S[c], ns, K))
                  /\ Appends(m, S, Appended(m, c, ns, vs), T, Firsts(ns, K))
                  /\ \A i \in 1..K : Appended(m, c, ns, vs).val[ns[i]] = vs[i]
<1>s. PICK s : s = S[c]
  OBVIOUS
<1>1. s \in Seq(Nodes) /\ S \in [Lists -> Seq(Nodes)] /\ m \in Mems
  BY <1>s, HoldsFacts DEF Holds
<1>2. /\ \A i \in 1..K : ns[i] \in FreeFor(m, c)
      /\ \A i, j \in 1..K : ns[i] = ns[j] => i = j
  <2>1. ns \in [1..K -> FreeFor(m, c)] /\ IsInjective(ns)
    BY DEF Allocations
  <2>. QED  BY <2>1 DEF IsInjective
<1>3. PICK h : /\ h[0] = m /\ h[K] = Appended(m, c, ns, vs)
               /\ \A i \in 1..K : h[i] = Grown(h[i - 1], c, ns[i], vs[i])
  <2>1. Len(vs) \in Nat
    OBVIOUS
  <2>2. PICK h : /\ h[0] = m /\ h[Len(vs)] = Appended(m, c, ns, vs)
                 /\ \A i \in 1..Len(vs) : h[i] = Grown(h[i - 1], c, ns[i], vs[i])
    BY ONLY <2>1, AppendedSteps
  <2>3. h[K] = Appended(m, c, ns, vs) /\ \A i \in 1..K : h[i] = Grown(h[i - 1], c, ns[i], vs[i])
    BY <2>2
  <2>. QED  BY <2>2, <2>3
<1>. DEFINE P(k, T) == /\ Replaced(S, T, c, Longer(s, ns, k))
                       /\ Appends(m, S, h[k], T, Firsts(ns, k))
                       /\ \A i \in 1..k : h[k].val[ns[i]] = vs[i]
            Q == {k \in Nat : k <= K => \E T : P(k, T)}
<1>4. 0 \in Q
  <2>1. Replaced(S, S, c, Longer(s, ns, 0))
    BY <1>1, <1>s, LongerNone DEF Replaced
  <2>2. Appends(m, S, h[0], S, Firsts(ns, 0))
    <3>1. Firsts(ns, 0) = {}
      BY DEF Firsts
    <3>. QED  BY <1>3, <3>1 DEF Appends
  <2>3. P(0, S)
    BY <2>1, <2>2
  <2>. QED  BY <2>3
<1>5. ASSUME NEW k \in Nat, k \in Q
      PROVE  k + 1 \in Q
  <2>. SUFFICES ASSUME k + 1 <= K PROVE \E T : P(k + 1, T)
    OBVIOUS
  <2>k. k <= K /\ k + 1 \in 1..K /\ (k + 1) - 1 = k
    OBVIOUS
  <2>1. PICK T : P(k, T)
    BY <1>5, <2>k
  <2>a. PICK a : a = h[k]
    OBVIOUS
  <2>n. PICK n : n = ns[k + 1]
    OBVIOUS
  <2>v. PICK v \in Values : v = vs[k + 1]
    BY <2>k
  <2>r. PICK r : r = h[k + 1]
    OBVIOUS
  <2>2. /\ Holds(a, T)
        /\ Used(T) = Used(S) \cup Firsts(ns, k)
        /\ Lost(a, T) = Lost(m, S)
        /\ \A x \in Nodes \ Firsts(ns, k) : a.val[x] = m.val[x]
        /\ \A i \in 1..k : a.val[ns[i]] = vs[i]
    BY <2>1, <2>a DEF Appends
  <2>3. /\ T \in [Lists -> Seq(Nodes)] /\ T[c] = Longer(s, ns, k)
        /\ \A d \in Lists \ {c} : T[d] = S[d]
    BY <2>1 DEF Replaced
  <2>4. n \in Nodes /\ m.val[n] = Undefined /\ HeapOf[n] = HeapOf[c]
    BY <1>2, <2>k, <2>n DEF FreeFor, Allocated
  <2>5. \A i \in 1..k : ns[i] # n
    <3>1. \A i \in 1..k : i \in 1..K /\ i # k + 1
      BY <2>k
    <3>. QED  BY <1>2, <2>k, <2>n, <3>1
  <2>6. n \in FreeFor(a, c)
    <3>1. n \notin Firsts(ns, k)
      BY <2>5 DEF Firsts
    <3>2. a.val[n] = Undefined
      BY <2>2, <2>4, <3>1
    <3>. QED  BY <2>4, <3>2 DEF FreeFor, Allocated
  <2>u. PICK u : u = T[c]
    OBVIOUS
  <2>7. u \in Seq(Nodes) /\ Len(u) \in Nat /\ Len(u) \in 0..Len(u)
    BY <2>2, <2>u, HoldsFacts
  <2>8. PICK V : Replaced(T, V, c, Inserted(u, Len(u), n))
    BY <2>2, <2>6, <2>7, <2>u, InsertedExists
  <2>t. PICK t : t = WithNode(a, n, v)
    OBVIOUS
  <2>9. r = AfterStores(t, PushBack(t, c, n))
    <3>1. r = Grown(h[(k + 1) - 1], c, ns[k + 1], vs[k + 1])
      BY <1>3, <2>k, <2>r
    <3>2. r = Grown(a, c, n, v)
      BY <2>a, <2>k, <2>n, <2>v, <3>1
    <3>. QED  BY <2>t, <3>2 DEF Grown
  <2>10. Inserts(a, T, r, V, n, v)
    BY <2>2, <2>6, <2>8, <2>9, <2>t, <2>u, PushBackHolds
  <2>11. Inserted(u, Len(u), n) = Longer(s, ns, k + 1)
    BY <1>1, <2>3, <2>7, <2>n, <2>u, LongerOne
  <2>12. Replaced(S, V, c, Longer(s, ns, k + 1))
    BY <2>3, <2>8, <2>11 DEF Replaced
  <2>13. \A x : x \in Firsts(ns, k + 1) <=> x \in Firsts(ns, k) \/ x = n
    <3>1. \A i : i \in 1..(k + 1) <=> i \in 1..k \/ i = k + 1
      OBVIOUS
    <3>. QED  BY <2>n, <3>1 DEF Firsts
  <2>14. Appends(m, S, r, V, Firsts(ns, k + 1))
    BY <2>2, <2>10, <2>13 DEF Appends, Inserts
  <2>15. \A i \in 1..(k + 1) : r.val[ns[i]] = vs[i]
    <3>. TAKE i \in 1..(k + 1)
    <3>1. ns[i] \in Nodes
      <4>1. i \in 1..K
        BY <2>k
      <4>. QED  BY <1>2, <4>1 DEF FreeFor
    <3>2. i = k + 1 \/ i \in 1..k
      OBVIOUS
    <3>3. CASE i = k + 1
      BY <2>10, <2>n, <2>v, <3>1, <3>3 DEF Inserts
    <3>4. CASE i \in 1..k
      BY <2>2, <2>5, <2>10, <3>1, <3>4 DEF Inserts
    <3>. QED  BY <3>2, <3>3, <3>4
  <2>16. P(k + 1, V)
    BY <2>12, <2>14, <2>15, <2>r
  <2>. HIDE DEF P
  <2>. QED  BY <2>16
<1>6. \A k \in Nat : k \in Q
  <2>. HIDE DEF Q
  <2>. QED  BY <1>4, <1>5, SetInduction
<1>7. PICK T : P(K, T)
  <2>1. K \in Q /\ K <= K
    BY <1>6
  <2>. QED  BY <2>1
<1>. QED  BY <1>3, <1>7, <1>s

-----------------------------------------------------------------------------
(* The ends of lists: forgotten, exchanged, taken over. *)

LEMMA DroppedHolds ==
    ASSUME NEW m, NEW S, Holds(m, S), NEW c \in Lists, NEW T, Replaced(S, T, c, <<>>),
           NEW r, r = AfterStores(m, <<SetHead(c, Null), SetTail(c, Null)>>)
    PROVE  /\ Holds(r, T) /\ r.val = m.val
           /\ Used(T) = Used(S) \ In(S[c])
           /\ Lost(r, T) = Lost(m, S) \cup In(S[c])
<1>0. m \in Mems /\ Null \in Targets /\ c \notin Nodes /\ Nodes \subseteq Entities /\ c \in Entities
  BY NullFacts DEF Holds
<1>1. r = AfterStores(m, Unlink(c, Null, Null))
  BY DEF Unlink
<1>2. Joined(m, r, c, Null, Null)
  BY <1>0, <1>1, UnlinkMem
<1>3. /\ r \in Mems /\ r.val = m.val /\ r.nxt[c] = Null /\ r.pre[c] = Null
      /\ \A e \in Entities : e # c => r.nxt[e] = m.nxt[e] /\ r.pre[e] = m.pre[e]
  BY <1>0, <1>2 DEF Joined
<1>e. <<>> \in Seq(Nodes)
  OBVIOUS
<1>u. PICK u : u = <<>> /\ u \in Seq(Nodes)
  BY <1>e
<1>4. In(u) = {} /\ Len(u) = 0
  BY <1>u DEF In
<1>5. Owns(r, c, u)
  BY <1>3, <1>4 DEF Owns, Chain, El
<1>6. Blank(r)
  BY <1>0, <1>3 DEF Blank, Holds
<1>7. \A d \in Lists : d \in Entities /\ \A e \in In(S[d]) : e \in Nodes
  BY HoldsFacts, NullFacts
<1>8. Spares(m, S, r, c, u)
  BY <1>0, <1>3, <1>4, <1>7 DEF Spares
<1>9. Replaced(S, T, c, u)
  BY <1>u
<1>10. Holds(r, T)
  BY <1>3, <1>5, <1>6, <1>8, <1>9, HoldsReplaced
<1>11. Used(T) = Used(S) \ In(S[c])
  <2>1. \A e : e \in Used(T) <=> e \in In(u) \/ \E d \in Lists \ {c} : e \in In(S[d])
    BY <1>9, UsedReplaced
  <2>2. /\ \A e : e \in Used(S) <=> e \in In(S[c]) \/ \E d \in Lists \ {c} : e \in In(S[d])
        /\ \A d \in Lists \ {c} : In(S[c]) \cap In(S[d]) = {}
    BY UsedSplit
  <2>. QED  BY <1>4, <2>1, <2>2
<1>12. In(S[c]) \subseteq Used(S) /\ In(S[c]) \subseteq Allocated(m)
  BY HoldsFacts, ListAssumption DEF Allocated
<1>. QED  BY <1>3, <1>10, <1>11, <1>12 DEF Lost, Allocated

(* Heads and tails of c and d change places. *)
Exchanged(m, r, c, d) ==
    /\ r \in Mems /\ r.val = m.val
    /\ r.nxt[c] = m.nxt[d] /\ r.nxt[d] = m.nxt[c] /\ r.pre[c] = m.pre[d] /\ r.pre[d] = m.pre[c]
    /\ \A e \in Entities \ {c, d} : r.nxt[e] = m.nxt[e] /\ r.pre[e] = m.pre[e]

Crossed(S, T, c, d) ==
    /\ T \in [Lists -> Seq(Nodes)] /\ T[c] = S[d] /\ T[d] = S[c]
    /\ \A x \in Lists \ {c, d} : T[x] = S[x]

LEMMA CrossedExists ==
    ASSUME NEW S \in [Lists -> Seq(Nodes)], NEW c \in Lists, NEW d \in Lists
    PROVE  \E T : Crossed(S, T, c, d)
<1>. DEFINE Q == Seq(Nodes)
            T == [x \in Lists |-> IF x = c THEN S[d] ELSE IF x = d THEN S[c] ELSE S[x]]
<1>1. S \in [Lists -> Q]
  OBVIOUS
<1>2. T \in [Lists -> Q]
  <2>. HIDE DEF Q
  <2>. QED  BY <1>1
<1>3. T[c] = S[d] /\ T[d] = S[c] /\ \A x \in Lists \ {c, d} : T[x] = S[x]
  OBVIOUS
<1>. HIDE DEF T
<1>. QED  BY <1>2, <1>3 DEF Crossed

LEMMA ChainMoved ==
    ASSUME NEW m, NEW r, NEW c, NEW d, NEW s, Chain(m, d, s),
           \A e \in In(s) : r.nxt[e] = m.nxt[e] /\ r.pre[e] = m.pre[e],
           r.nxt[c] = m.nxt[d], r.pre[c] = m.pre[d]
    PROVE  Chain(r, c, s)
BY DEF Chain, In

LEMMA ExchangedHolds ==
    ASSUME NEW m, NEW S, Holds(m, S), NEW c \in Lists, NEW d \in Lists, c # d,
           HeapOf[c] = HeapOf[d], NEW r, Exchanged(m, r, c, d), NEW T, Crossed(S, T, c, d)
    PROVE  Holds(r, T) /\ r.val = m.val /\ Used(T) = Used(S) /\ Lost(r, T) = Lost(m, S)
<1>0. m \in Mems /\ c \notin Nodes /\ d \notin Nodes /\ Nodes \subseteq Entities
  BY NullFacts DEF Holds
<1>1. /\ r \in Mems /\ r.val = m.val
      /\ r.nxt[c] = m.nxt[d] /\ r.nxt[d] = m.nxt[c] /\ r.pre[c] = m.pre[d] /\ r.pre[d] = m.pre[c]
      /\ \A e \in Entities \ {c, d} : r.nxt[e] = m.nxt[e] /\ r.pre[e] = m.pre[e]
  BY DEF Exchanged
<1>2. \A e \in Nodes : r.nxt[e] = m.nxt[e] /\ r.pre[e] = m.pre[e]
  BY <1>0, <1>1
<1>3. /\ T \in [Lists -> Seq(Nodes)] /\ T[c] = S[d] /\ T[d] = S[c]
      /\ \A x \in Lists \ {c, d} : T[x] = S[x]
  BY DEF Crossed
<1>4. ASSUME NEW x \in Lists
      PROVE  /\ Chain(m, x, S[x]) /\ In(S[x]) \subseteq Nodes
             /\ \A n \in In(S[x]) : m.val[n] # Undefined /\ HeapOf[n] = HeapOf[x]
  BY HoldsFacts, ChainIsSeq DEF Holds, Owns
<1>5. Owns(r, c, S[d])
  <2>1. Chain(r, c, S[d])
    BY <1>1, <1>2, <1>4, ChainMoved
  <2>. QED  BY <1>1, <1>4, <2>1 DEF Owns
<1>6. Owns(r, d, S[c])
  <2>1. Chain(r, d, S[c])
    BY <1>1, <1>2, <1>4, ChainMoved
  <2>. QED  BY <1>1, <1>4, <2>1 DEF Owns
<1>7. ASSUME NEW x \in Lists \ {c, d}
      PROVE  Owns(r, x, S[x])
  <2>1. x \in Entities \ {c, d}
    BY NullFacts
  <2>2. r.nxt[x] = m.nxt[x] /\ r.pre[x] = m.pre[x]
    BY <1>1, <2>1
  <2>3. Chain(r, x, S[x])
    BY <1>2, <1>4, <2>2, ChainMoved
  <2>. QED  BY <1>1, <1>4, <2>3 DEF Owns
<1>8. \A x \in Lists : Owns(r, x, T[x])
  BY <1>3, <1>5, <1>6, <1>7
<1>9. Apart(T)
  <2>. SUFFICES ASSUME NEW a \in Lists, NEW b \in Lists, a # b
                PROVE  In(T[a]) \cap In(T[b]) = {}
    BY DEF Apart
  <2>1. \A x, y \in Lists : x # y => In(S[x]) \cap In(S[y]) = {}
    BY DEF Holds, Apart
  <2>2. PICK x \in Lists : T[a] = S[x] /\ (x = IF a = c THEN d ELSE IF a = d THEN c ELSE a)
    BY <1>3
  <2>3. PICK y \in Lists : T[b] = S[y] /\ (y = IF b = c THEN d ELSE IF b = d THEN c ELSE b)
    BY <1>3
  <2>4. x # y
    BY <2>2, <2>3
  <2>. QED  BY <2>1, <2>2, <2>3, <2>4
<1>10. Blank(r)
  BY <1>1, <1>2 DEF Blank, Holds
<1>11. Holds(r, T)
  BY <1>1, <1>3, <1>8, <1>9, <1>10 DEF Holds
<1>12. Used(T) = Used(S)
  <2>1. ASSUME NEW e
        PROVE  (\E x \in Lists : e \in In(T[x])) <=> (\E x \in Lists : e \in In(S[x]))
    BY <1>3
  <2>. QED  BY <2>1 DEF Used
<1>. QED  BY <1>1, <1>11, <1>12 DEF Lost, Allocated

LEMMA ExchangeMem ==
    ASSUME NEW m \in Mems, NEW c \in Lists, NEW d \in Lists, c # d,
           NEW r, r = AfterStores(m, Exchange(m, c, d))
    PROVE  Exchanged(m, r, c, d)
<1>w. PICK ws : ws = Exchange(m, c, d)
  OBVIOUS
<1>a. PICK hc : hc = FirstNode(m, c)
  OBVIOUS
<1>b. PICK hd : hd = FirstNode(m, d)
  OBVIOUS
<1>x. PICK tc : tc = LastNode(m, c)
  OBVIOUS
<1>y. PICK td : td = LastNode(m, d)
  OBVIOUS
<1>0. /\ c \in Entities /\ d \in Entities
      /\ hc \in Targets /\ hd \in Targets /\ tc \in Targets /\ td \in Targets
  BY NullFacts, MemCells, <1>a, <1>b, <1>x, <1>y DEF FirstNode, LastNode
<1>1. ws = <<SetNxt(d, hc), SetNxt(c, hd), SetPre(d, tc), SetPre(c, td)>>
  BY <1>w, <1>a, <1>b, <1>x, <1>y DEF Exchange, SetHead, SetTail
<1>2. /\ Len(ws) = 4 /\ ws[1] = SetNxt(d, hc) /\ ws[2] = SetNxt(c, hd)
      /\ ws[3] = SetPre(d, tc) /\ ws[4] = SetPre(c, td)
  BY <1>1
<1>3. AfterStores(m, ws) = Store(Store(Store(Store(m, ws[1]), ws[2]), ws[3]), ws[4])
  BY <1>2, AfterFew
<1>s1. PICK s1 : s1 = Store(m, SetNxt(d, hc))
  OBVIOUS
<1>s2. PICK s2 : s2 = Store(s1, SetNxt(c, hd))
  OBVIOUS
<1>s3. PICK s3 : s3 = Store(s2, SetPre(d, tc))
  OBVIOUS
<1>4. r = Store(s3, SetPre(c, td))
  BY <1>w, <1>2, <1>3, <1>s1, <1>s2, <1>s3
<1>5. s1 \in Mems /\ NxtStored(m, s1, d, hc)
  BY <1>0, <1>s1, StoreNxt
<1>6. s2 \in Mems /\ NxtStored(s1, s2, c, hd)
  BY <1>0, <1>s2, <1>5, StoreNxt
<1>7. s3 \in Mems /\ PreStored(s2, s3, d, tc)
  BY <1>0, <1>s3, <1>6, StorePre
<1>8. r \in Mems /\ PreStored(s3, r, c, td)
  BY <1>0, <1>4, <1>7, StorePre
<1>. QED  BY <1>0, <1>a, <1>b, <1>x, <1>y, <1>5, <1>6, <1>7, <1>8
          DEF NxtStored, PreStored, Exchanged, FirstNode, LastNode

(* An empty list that takes over another one's ends. *)
LEMMA StealMem ==
    ASSUME NEW m \in Mems, NEW c \in Lists, NEW d \in Lists, c # d,
           m.nxt[c] = Null, m.pre[c] = Null,
           NEW r, r = AfterStores(m, Steal(m, c, d))
    PROVE  Exchanged(m, r, c, d)
<1>w. PICK ws : ws = Steal(m, c, d)
  OBVIOUS
<1>b. PICK hd : hd = FirstNode(m, d)
  OBVIOUS
<1>y. PICK td : td = LastNode(m, d)
  OBVIOUS
<1>0. /\ c \in Entities /\ d \in Entities
      /\ hd \in Targets /\ td \in Targets /\ Null \in Targets
  BY NullFacts, MemCells, <1>b, <1>y DEF FirstNode, LastNode
<1>1. ws = <<SetNxt(c, hd), SetNxt(d, Null), SetPre(c, td), SetPre(d, Null)>>
  BY <1>w, <1>b, <1>y DEF Steal, SetHead, SetTail
<1>2. /\ Len(ws) = 4 /\ ws[1] = SetNxt(c, hd) /\ ws[2] = SetNxt(d, Null)
      /\ ws[3] = SetPre(c, td) /\ ws[4] = SetPre(d, Null)
  BY <1>1
<1>3. AfterStores(m, ws) = Store(Store(Store(Store(m, ws[1]), ws[2]), ws[3]), ws[4])
  BY <1>2, AfterFew
<1>s1. PICK s1 : s1 = Store(m, SetNxt(c, hd))
  OBVIOUS
<1>s2. PICK s2 : s2 = Store(s1, SetNxt(d, Null))
  OBVIOUS
<1>s3. PICK s3 : s3 = Store(s2, SetPre(c, td))
  OBVIOUS
<1>4. r = Store(s3, SetPre(d, Null))
  BY <1>w, <1>2, <1>3, <1>s1, <1>s2, <1>s3
<1>5. s1 \in Mems /\ NxtStored(m, s1, c, hd)
  BY <1>0, <1>s1, StoreNxt
<1>6. s2 \in Mems /\ NxtStored(s1, s2, d, Null)
  BY <1>0, <1>s2, <1>5, StoreNxt
<1>7. s3 \in Mems /\ PreStored(s2, s3, c, td)
  BY <1>0, <1>s3, <1>6, StorePre
<1>8. r \in Mems /\ PreStored(s3, r, d, Null)
  BY <1>0, <1>4, <1>7, StorePre
<1>. QED  BY <1>0, <1>b, <1>y, <1>5, <1>6, <1>7, <1>8
          DEF NxtStored, PreStored, Exchanged, FirstNode, LastNode

-----------------------------------------------------------------------------
(* What the lists hold. *)

ValuesOf(m, s) == [i \in 1..Len(s) |-> m.val[s[i]]]

Others(m, S, r, T, X) ==
    \A x \in Lists \ X : T[x] = S[x] /\ ValuesOf(r, T[x]) = ValuesOf(m, S[x])

LEMMA SameValues ==
    ASSUME NEW m, NEW r, NEW s, \A n \in In(s) : r.val[n] = m.val[n]
    PROVE  ValuesOf(r, s) = ValuesOf(m, s)
BY DEF ValuesOf, In

LEMMA ValuesOfList ==
    ASSUME NEW m, NEW S, Holds(m, S), NEW c \in Lists, NEW k, k = Len(S[c])
    PROVE  /\ ValuesIn(m, c) = ValuesOf(m, S[c]) /\ k \in Nat
           /\ Len(ValuesIn(m, c)) = k
           /\ \A i \in 1..k : ValuesIn(m, c)[i] = m.val[S[c][i]] /\ ValuesIn(m, c)[i] \in Values
<1>1. Chain(m, c, S[c]) /\ k \in Nat
  BY HoldsFacts
<1>2. \A n \in In(S[c]) : m.val[n] \in Values
  BY HoldsFacts
<1>3. ValuesIn(m, c) = ValuesOf(m, S[c])
  BY <1>1, Visited DEF ValuesOf
<1>4. \A i \in 1..k : S[c][i] \in In(S[c])
  BY DEF In
<1>. QED  BY <1>1, <1>2, <1>3, <1>4 DEF ValuesOf

LEMMA AppendedValues ==
    ASSUME NEW r, NEW ns, NEW k \in Nat, NEW vs, \A i \in 1..k : r.val[ns[i]] = vs[i]
    PROVE  ValuesOf(r, Longer(<<>>, ns, k)) = [i \in 1..k |-> vs[i]]
<1>1. Longer(<<>>, ns, k) = [i \in 1..k |-> ns[i]]
  <2>1. Len(<<>>) = 0 /\ 0 + k = k
    OBVIOUS
  <2>2. Longer(<<>>, ns, k) = [i \in 1..k |-> IF i <= 0 THEN <<>>[i] ELSE ns[i - 0]]
    BY <2>1 DEF Longer
  <2>3. \A i \in 1..k : (IF i <= 0 THEN <<>>[i] ELSE ns[i - 0]) = ns[i]
    <3>. TAKE i \in 1..k
    <3>1. ~(i <= 0) /\ i - 0 = i
      OBVIOUS
    <3>. QED  BY <3>1
  <2>. QED  BY <2>2, <2>3
<1>2. Len([i \in 1..k |-> ns[i]]) = k
  OBVIOUS
<1>. QED  BY <1>1, <1>2 DEF ValuesOf

(* Nodes in no list are forgotten, some of them freed. *)
Forgot(m, r, G, H) ==
    /\ r \in Mems
    /\ \A e \in Entities : /\ r.nxt[e] = IF e \in G THEN Null ELSE m.nxt[e]
                           /\ r.pre[e] = IF e \in G THEN Null ELSE m.pre[e]
    /\ \A k \in Nodes : r.val[k] = IF k \in H THEN Undefined ELSE m.val[k]

LEMMA ForgottenHolds ==
    ASSUME NEW m, NEW S, Holds(m, S), NEW G \in SUBSET Lost(m, S), NEW H \in SUBSET G,
           NEW r, Forgot(m, r, G, H)
    PROVE  Holds(r, S) /\ \A c \in Lists : ValuesOf(r, S[c]) = ValuesOf(m, S[c])
<1>0. /\ r \in Mems
      /\ \A e \in Entities : /\ r.nxt[e] = IF e \in G THEN Null ELSE m.nxt[e]
                             /\ r.pre[e] = IF e \in G THEN Null ELSE m.pre[e]
      /\ \A k \in Nodes : r.val[k] = IF k \in H THEN Undefined ELSE m.val[k]
  BY DEF Forgot
<1>1. \A e \in G : e \in Nodes /\ \A c \in Lists : e \notin In(S[c])
  BY DEF Lost, Allocated, Used
<1>2. ASSUME NEW c \in Lists
      PROVE  Owns(r, c, S[c]) /\ ValuesOf(r, S[c]) = ValuesOf(m, S[c])
  <2>1. /\ Chain(m, c, S[c]) /\ In(S[c]) \subseteq Nodes
        /\ \A n \in In(S[c]) : m.val[n] # Undefined /\ HeapOf[n] = HeapOf[c]
    BY HoldsFacts, ChainIsSeq DEF Holds, Owns
  <2>2. \A n \in In(S[c]) : n \notin G /\ n \in Entities
    BY <1>1, <2>1, NullFacts
  <2>3. c \in Entities /\ c \notin G
    BY <1>1, NullFacts
  <2>4. \A e \in In(S[c]) \cup {c} : r.nxt[e] = m.nxt[e] /\ r.pre[e] = m.pre[e]
    BY <1>0, <2>2, <2>3
  <2>5. Chain(r, c, S[c])
    BY <2>1, <2>4, ChainFrame
  <2>6. \A n \in In(S[c]) : r.val[n] = m.val[n]
    BY <1>0, <2>1, <2>2
  <2>. QED  BY <2>1, <2>5, <2>6, SameValues DEF Owns
<1>3. Blank(r)
  <2>. SUFFICES ASSUME NEW k \in Nodes, r.val[k] = Undefined PROVE r.nxt[k] = Null /\ r.pre[k] = Null
    BY DEF Blank
  <2>1. k \in G \/ m.val[k] = Undefined
    BY <1>0
  <2>. QED  BY <1>0, <2>1, NullFacts DEF Holds, Blank
<1>. QED  BY <1>0, <1>2, <1>3 DEF Holds

-----------------------------------------------------------------------------
(* The move of d to the list c, which was emptied; G is what d gives back. *)

MoveNeeds(m, S, c, d, ns, G) ==
    IF HeapOf[c] = HeapOf[d] THEN G = {}
    ELSE G = In(S[d]) /\ ns \in Allocations(m, c, Len(S[d]))

IsMoved(m, S, r, T, c, d, G) ==
    /\ Holds(r, T) /\ Lost(r, T) = Lost(m, S) /\ Used(S) \ G \subseteq Used(T)
    /\ T[d] = <<>> /\ ValuesOf(r, T[c]) = ValuesOf(m, S[d])
    /\ HeapOf[c] = HeapOf[d] => T[c] = S[d]
    /\ Others(m, S, r, T, {c, d})

LEMMA MovedHolds ==
    ASSUME NEW m, NEW S, Holds(m, S), NEW c \in Lists, NEW d \in Lists, c # d, S[c] = <<>>,
           NEW ns, NEW G, MoveNeeds(m, S, c, d, ns, G),
           NEW r, r = Moved(m, c, d, ns)
    PROVE  \E T : IsMoved(m, S, r, T, c, d, G)
<1>0. m \in Mems /\ S \in [Lists -> Seq(Nodes)]
  BY DEF Holds
<1>1. CASE HeapOf[c] = HeapOf[d]
  <2>1. r = AfterStores(m, Steal(m, c, d))
    BY <1>1 DEF Moved
  <2>2. m.nxt[c] = Null /\ m.pre[c] = Null
    <3>1. Chain(m, c, S[c])
      BY HoldsFacts
    <3>2. Len(S[c]) = 0
      OBVIOUS
    <3>. QED  BY <3>1, <3>2 DEF Chain, El
  <2>3. Exchanged(m, r, c, d)
    BY <1>0, <2>1, <2>2, StealMem
  <2>4. PICK T : Crossed(S, T, c, d)
    BY <1>0, CrossedExists
  <2>5. Holds(r, T) /\ r.val = m.val /\ Used(T) = Used(S) /\ Lost(r, T) = Lost(m, S)
    BY <1>1, <2>3, <2>4, ExchangedHolds
  <2>6. /\ T[c] = S[d] /\ T[d] = S[c]
        /\ \A x \in Lists \ {c, d} : T[x] = S[x]
    BY <2>4 DEF Crossed
  <2>7. \A s : ValuesOf(r, s) = ValuesOf(m, s)
    BY <2>5 DEF ValuesOf
  <2>8. Others(m, S, r, T, {c, d})
    BY <2>6, <2>7 DEF Others
  <2>9. G = {}
    BY <1>1 DEF MoveNeeds
  <2>10. IsMoved(m, S, r, T, c, d, G)
    BY <2>5, <2>6, <2>7, <2>8, <2>9 DEF IsMoved
  <2>. QED  BY <2>10
<1>2. CASE HeapOf[c] # HeapOf[d]
  <2>k. PICK K : K = Len(S[d])
    OBVIOUS
  <2>v. PICK vs : vs = ValuesIn(m, d)
    OBVIOUS
  <2>1. /\ K \in Nat /\ Len(vs) = K
        /\ \A i \in 1..K : vs[i] = m.val[S[d][i]] /\ vs[i] \in Values
    BY <2>k, <2>v, ValuesOfList
  <2>2. ns \in Allocations(m, c, K) /\ G = In(S[d])
    BY <1>2, <2>k DEF MoveNeeds
  <2>a. PICK a : a = Appended(m, c, ns, vs)
    OBVIOUS
  <2>3. PICK T1 : /\ Replaced(S, T1, c, Longer(S[c], ns, K))
                  /\ Appends(m, S, a, T1, Firsts(ns, K))
                  /\ \A i \in 1..K : a.val[ns[i]] = vs[i]
    BY <2>1, <2>2, <2>a, AppendedHolds
  <2>4. r = Cleared(a, d)
    BY <1>2, <2>a, <2>v DEF Moved
  <2>5. /\ Holds(a, T1) /\ Used(T1) = Used(S) \cup Firsts(ns, K) /\ Lost(a, T1) = Lost(m, S)
        /\ \A k \in Nodes \ Firsts(ns, K) : a.val[k] = m.val[k]
    BY <2>3 DEF Appends
  <2>6. /\ T1 \in [Lists -> Seq(Nodes)] /\ T1[c] = Longer(<<>>, ns, K)
        /\ \A x \in Lists \ {c} : T1[x] = S[x]
    BY <2>3 DEF Replaced
  <2>7. <<>> \in Seq(Nodes)
    OBVIOUS
  <2>8. PICK T : Replaced(T1, T, d, <<>>)
    BY <2>6, <2>7, ReplacedExists
  <2>9. Removes(a, T1, r, T, In(S[d]))
    <3>1. Removes(a, T1, r, T, In(T1[d]))
      BY <2>4, <2>5, <2>8, ClearedHolds
    <3>. QED  BY <2>6, <3>1
  <2>10. /\ Holds(r, T) /\ Used(T) = Used(T1) \ In(S[d]) /\ Lost(r, T) = Lost(a, T1)
         /\ \A k \in Nodes : r.val[k] = IF k \in In(S[d]) THEN Undefined ELSE a.val[k]
    BY <2>9 DEF Removes
  <2>11. T[d] = <<>> /\ T[c] = Longer(<<>>, ns, K) /\ \A x \in Lists \ {c, d} : T[x] = S[x]
    BY <2>6, <2>8 DEF Replaced
  <2>12. \A i \in 1..K : ns[i] \in FreeFor(m, c)
    BY <2>2 DEF Allocations
  <2>13. \A i \in 1..K : ns[i] \in Nodes /\ \A x \in Lists : ns[i] \notin In(S[x])
    BY <2>12, FreeNode
  <2>14. ValuesOf(r, T[c]) = ValuesOf(m, S[d])
    <3>1. \A i \in 1..K : r.val[ns[i]] = vs[i]
      BY <2>3, <2>10, <2>13
    <3>2. ValuesOf(r, T[c]) = [i \in 1..K |-> vs[i]]
      BY <2>1, <2>11, <3>1, AppendedValues
    <3>. QED  BY <2>1, <2>k, <3>2 DEF ValuesOf
  <2>15. ASSUME NEW x \in Lists \ {c, d}
         PROVE  ValuesOf(r, T[x]) = ValuesOf(m, S[x])
    <3>1. In(S[d]) \cap In(S[x]) = {}
      BY UsedSplit
    <3>2. \A n \in In(S[x]) : n \in Nodes
      BY HoldsFacts
    <3>3. \A n \in In(S[x]) : n \notin Firsts(ns, K)
      BY <2>13 DEF Firsts
    <3>4. \A n \in In(S[x]) : r.val[n] = m.val[n]
      BY <2>5, <2>10, <3>1, <3>2, <3>3
    <3>. QED  BY <2>11, <3>4, SameValues
  <2>16. Others(m, S, r, T, {c, d})
    BY <2>11, <2>15 DEF Others
  <2>17. Used(S) \ G \subseteq Used(T)
    BY <2>2, <2>5, <2>10
  <2>18. IsMoved(m, S, r, T, c, d, G)
    BY <1>2, <2>5, <2>10, <2>11, <2>14, <2>16, <2>17 DEF IsMoved
  <2>. QED  BY <2>18
<1>. QED  BY <1>1, <1>2

-----------------------------------------------------------------------------
(* The swap element by element. *)

Forget(b, O, H) ==
    [b EXCEPT !.val = [n \in Nodes |-> IF n \in H THEN Undefined ELSE @[n]],
              !.nxt = [e \in DOMAIN @ |-> IF e \in O THEN Null ELSE @[e]],
              !.pre = [e \in DOMAIN @ |-> IF e \in O THEN Null ELSE @[e]]]

LEMMA ForgottenCells ==
    ASSUME NEW b \in Mems, NEW O, NEW H
    PROVE  Forgot(b, Forget(b, O, H), O, H)
<1>r. PICK r : r = Forget(b, O, H)
  OBVIOUS
<1>1. DOMAIN b.nxt = Entities /\ DOMAIN b.pre = Entities
  BY DEF Mems, LinkTable
<1>v. PICK v : v = [n \in Nodes |-> IF n \in H THEN Undefined ELSE b.val[n]]
  OBVIOUS
<1>n. PICK t : t = [e \in Entities |-> IF e \in O THEN Null ELSE b.nxt[e]]
  OBVIOUS
<1>p. PICK p : p = [e \in Entities |-> IF e \in O THEN Null ELSE b.pre[e]]
  OBVIOUS
<1>2. r = [b EXCEPT !.val = v, !.nxt = t, !.pre = p]
  BY <1>1, <1>v, <1>n, <1>p, <1>r DEF Forget
<1>3. t \in LinkTable /\ p \in LinkTable
  <2>1. /\ Null \in Targets
        /\ \A e \in Entities : b.nxt[e] \in Targets /\ b.pre[e] \in Targets
    BY NullFacts, MemCells
  <2>. QED  BY <1>n, <1>p, <2>1 DEF LinkTable
<1>4. v \in [Nodes -> Values \cup {Undefined}]
  <2>1. \A n \in Nodes : b.val[n] \in Values \cup {Undefined}
    BY MemCells
  <2>. QED  BY <1>v, <2>1
<1>5. r = [nxt |-> t, pre |-> p, val |-> v]
  <2>1. b = [nxt |-> b.nxt, pre |-> b.pre, val |-> b.val]
    BY DEF Mems
  <2>. QED  BY ONLY <1>2, <2>1
<1>6. r \in Mems /\ r.nxt = t /\ r.pre = p /\ r.val = v
  <2>1. r.nxt = t /\ r.pre = p /\ r.val = v
    BY ONLY <1>5
  <2>2. r \in Mems
    BY <1>3, <1>4, <1>5 DEF Mems
  <2>. QED  BY <2>1, <2>2
<1>. QED  BY <1>6, <1>v, <1>n, <1>p, <1>r DEF Forgot

(* What a swap between heaps reads in the nodes that hold w. *)
IsRead(s, w, k) ==
    /\ s \in [1..k -> Values] /\ Len(s) = k /\ s = [i \in 1..k |-> s[i]]
    /\ w # <<>> => s # <<>> /\ s[1] = w[1]

LEMMA SalvagedFacts ==
    ASSUME NEW w, NEW n \in Nat, Len(w) = n, NEW s \in Salvaged(w)
    PROVE  \E k \in 0..n : IsRead(s, w, k)
<1>1. /\ s \in UNION {[1..k -> Values] : k \in 0..n}
      /\ w # <<>> => s # <<>> /\ s[1] = w[1]
  BY DEF Salvaged
<1>2. PICK k \in 0..n : s \in [1..k -> Values]
  BY <1>1
<1>3. k \in Nat /\ DOMAIN s = 1..k
  BY <1>2
<1>4. s \in Seq(Values)
  BY <1>2, <1>3
<1>5. Len(s) = k
  BY <1>3, <1>4
<1>. QED  BY <1>1, <1>2, <1>5 DEF IsRead

SwapNeeds(m, S, c, d, ns, ms, ws, r) ==
    /\ HeapOf[c] # HeapOf[d]
    /\ ns \in Allocations(m, c, Len(S[d]))
    /\ ws \in Salvaged(ValuesIn(m, c))
    /\ ms \in Allocations(Cleared(m, d), d, Len(ws))
    /\ r = SwappedByElement(m, c, d, ns, ms, ws)

IsSwapped(m, S, c, d, ws, r, T) ==
    /\ Holds(r, T) /\ Used(S) \ (In(S[c]) \cup In(S[d])) \subseteq Used(T)
    /\ ValuesOf(r, T[c]) = ValuesOf(m, S[d])
    /\ ValuesOf(r, T[d]) = ws
    /\ Others(m, S, r, T, {c, d})

LEMMA SwappedHolds ==
    ASSUME NEW m, NEW S, Holds(m, S), NEW c \in Lists, NEW d \in Lists, c # d,
           NEW ns, NEW ms, NEW ws, NEW r, SwapNeeds(m, S, c, d, ns, ms, ws, r)
    PROVE  \E T : IsSwapped(m, S, c, d, ws, r, T)
<1>a. /\ HeapOf[c] # HeapOf[d]
      /\ ns \in Allocations(m, c, Len(S[d]))
      /\ ws \in Salvaged(ValuesIn(m, c))
      /\ ms \in Allocations(Cleared(m, d), d, Len(ws))
      /\ r = SwappedByElement(m, c, d, ns, ms, ws)
  BY DEF SwapNeeds
<1>0. m \in Mems /\ S \in [Lists -> Seq(Nodes)] /\ <<>> \in Seq(Nodes)
  BY DEF Holds
<1>k. PICK K : K = Len(S[d])
  OBVIOUS
<1>l. PICK L : L = Len(ws)
  OBVIOUS
<1>v. PICK vs : vs = ValuesIn(m, d)
  OBVIOUS
<1>1. /\ K \in Nat /\ Len(vs) = K
      /\ \A i \in 1..K : vs[i] = m.val[S[d][i]] /\ vs[i] \in Values
  BY <1>k, <1>v, ValuesOfList
<1>2. /\ L \in Nat /\ Len(ws) = L /\ ws = [i \in 1..L |-> ws[i]]
      /\ \A i \in 1..L : ws[i] \in Values
      /\ Len(S[c]) \in Nat /\ L <= Len(S[c])
  <2>1. Len(S[c]) \in Nat /\ Len(ValuesIn(m, c)) = Len(S[c])
    BY ValuesOfList
  <2>w. PICK w : w = ValuesIn(m, c)
    OBVIOUS
  <2>n. PICK n : n = Len(S[c])
    OBVIOUS
  <2>2. PICK k \in 0..n : IsRead(ws, w, k)
    BY <1>a, <2>w, <2>n, <2>1, SalvagedFacts
  <2>3. /\ Len(ws) = k /\ ws = [i \in 1..k |-> ws[i]]
        /\ \A i \in 1..k : ws[i] \in Values
    BY <2>2 DEF IsRead
  <2>. QED  BY <1>l, <2>n, <2>1, <2>2, <2>3
(* The elements of c are left where they are. *)
<1>x. PICK x0 : x0 = AfterStores(m, <<SetHead(c, Null), SetTail(c, Null)>>)
  OBVIOUS
<1>3. PICK T0 : Replaced(S, T0, c, <<>>)
  BY <1>0, ReplacedExists
<1>4. /\ Holds(x0, T0) /\ x0.val = m.val
      /\ Used(T0) = Used(S) \ In(S[c])
      /\ Lost(x0, T0) = Lost(m, S) \cup In(S[c])
  BY <1>3, <1>x, DroppedHolds
<1>5. T0 \in [Lists -> Seq(Nodes)] /\ T0[c] = <<>> /\ \A x \in Lists \ {c} : T0[x] = S[x]
  BY <1>3 DEF Replaced
(* Those of d are copied to c. *)
<1>6. ns \in Allocations(x0, c, K)
  <2>1. FreeFor(x0, c) = FreeFor(m, c)
    BY <1>4 DEF FreeFor, Allocated
  <2>. QED  BY <1>a, <1>k, <2>1 DEF Allocations
<1>t. PICK this : this = Appended(x0, c, ns, vs)
  OBVIOUS
<1>7. PICK T1 : /\ Replaced(T0, T1, c, Longer(T0[c], ns, K))
                /\ Appends(x0, T0, this, T1, Firsts(ns, K))
                /\ \A i \in 1..K : this.val[ns[i]] = vs[i]
  BY <1>1, <1>4, <1>6, <1>t, AppendedHolds
<1>8. /\ Holds(this, T1) /\ Used(T1) = Used(T0) \cup Firsts(ns, K) /\ Lost(this, T1) = Lost(x0, T0)
      /\ \A k \in Nodes \ Firsts(ns, K) : this.val[k] = m.val[k]
  BY <1>4, <1>7 DEF Appends
<1>9. /\ T1 \in [Lists -> Seq(Nodes)] /\ T1[c] = Longer(<<>>, ns, K)
      /\ \A x \in Lists \ {c} : T1[x] = S[x]
  BY <1>5, <1>7 DEF Replaced
<1>10. \A i \in 1..K : /\ ns[i] \in Nodes /\ HeapOf[ns[i]] = HeapOf[c]
                       /\ \A x \in Lists : ns[i] \notin In(S[x])
  <2>1. \A i \in 1..K : ns[i] \in FreeFor(m, c)
    BY <1>a, <1>k DEF Allocations
  <2>. QED  BY <2>1, FreeNode
(* d is cleared. *)
<1>y. PICK y : y = Cleared(this, d)
  OBVIOUS
<1>11. PICK T2 : Replaced(T1, T2, d, <<>>)
  BY <1>0, <1>9, ReplacedExists
<1>12. Removes(this, T1, y, T2, In(S[d]))
  <2>1. Removes(this, T1, y, T2, In(T1[d]))
    BY <1>8, <1>11, <1>y, ClearedHolds
  <2>. QED  BY <1>9, <2>1
<1>13. /\ Holds(y, T2) /\ Used(T2) = Used(T1) \ In(S[d]) /\ Lost(y, T2) = Lost(this, T1)
       /\ \A k \in Nodes : y.val[k] = IF k \in In(S[d]) THEN Undefined ELSE this.val[k]
  BY <1>12 DEF Removes
<1>14. /\ T2[d] = <<>> /\ T2[c] = Longer(<<>>, ns, K)
       /\ \A x \in Lists \ {c, d} : T2[x] = S[x]
  BY <1>9, <1>11 DEF Replaced
(* The elements left behind are copied to d. *)
<1>z. PICK z : z = Cleared(m, d)
  OBVIOUS
<1>15. FreeFor(z, d) = FreeFor(y, d)
  <2>1. PICK V : Replaced(S, V, d, <<>>)
    BY <1>0, ReplacedExists
  <2>2. Removes(m, S, z, V, In(S[d]))
    BY <1>z, <2>1, ClearedHolds
  <2>3. \A k \in Nodes : z.val[k] = IF k \in In(S[d]) THEN Undefined ELSE m.val[k]
    BY <2>2 DEF Removes
  <2>4. ASSUME NEW k \in Nodes, HeapOf[k] = HeapOf[d]
        PROVE  z.val[k] = y.val[k]
    <3>1. k \notin Firsts(ns, K)
      BY <1>a, <1>10, <2>4 DEF Firsts
    <3>. QED  BY <1>8, <1>13, <2>3, <3>1
  <2>. QED  BY <2>4 DEF FreeFor, Allocated
<1>16. ms \in Allocations(y, d, L)
  BY <1>a, <1>15, <1>l, <1>z DEF Allocations
<1>b. PICK both : both = Appended(y, d, ms, ws)
  OBVIOUS
<1>17. PICK T : /\ Replaced(T2, T, d, Longer(T2[d], ms, L))
                /\ Appends(y, T2, both, T, Firsts(ms, L))
                /\ \A i \in 1..L : both.val[ms[i]] = ws[i]
  BY <1>2, <1>13, <1>16, <1>b, AppendedHolds, SMTT(40)
<1>18. /\ Holds(both, T) /\ Used(T) = Used(T2) \cup Firsts(ms, L) /\ Lost(both, T) = Lost(y, T2)
       /\ \A k \in Nodes \ Firsts(ms, L) : both.val[k] = y.val[k]
  BY <1>17 DEF Appends
<1>19. /\ T[d] = Longer(<<>>, ms, L) /\ T[c] = Longer(<<>>, ns, K)
       /\ \A x \in Lists \ {c, d} : T[x] = S[x]
  BY <1>14, <1>17 DEF Replaced
(* They are forgotten. *)
<1>old. PICK old : old = NodesIn(m, c)
  OBVIOUS
<1>h. PICK H : H = {old[i] : i \in 2..L}
  OBVIOUS
<1>o. PICK O : O = ToSet(old)
  OBVIOUS
<1>20. r = Forget(both, O, H)
  BY <1>a, <1>l, <1>x, <1>t, <1>v, <1>y, <1>b, <1>old, <1>h, <1>o DEF SwappedByElement, Forget
<1>21. both \in Mems
  BY <1>18 DEF Holds
<1>22. Forgot(both, r, O, H)
  BY <1>20, <1>21, ForgottenCells
<1>23. O = In(S[c]) /\ H \subseteq O
  <2>1. Chain(m, c, S[c])
    BY HoldsFacts
  <2>2. old = S[c] /\ O = In(S[c])
    BY <1>o, <1>old, <2>1, Visited
  <2>3. L \in Nat /\ Len(old) \in Nat /\ L <= Len(old)
    BY <1>2, <2>2
  <2>4. \A i \in 2..L : i \in 1..Len(old)
    BY <2>3
  <2>. QED  BY <1>h, <2>2, <2>4 DEF In
<1>24. O \in SUBSET Lost(both, T)
  BY <1>4, <1>8, <1>13, <1>18, <1>23
<1>25. Holds(r, T) /\ \A x \in Lists : ValuesOf(r, T[x]) = ValuesOf(both, T[x])
  <2>1. H \in SUBSET O
    BY <1>23
  <2>. QED  BY <1>18, <1>22, <1>24, <2>1, ForgottenHolds
(* What the lists hold now. *)
<1>26. ValuesOf(both, T[d]) = ws
  <2>1. ValuesOf(both, T[d]) = [i \in 1..L |-> ws[i]]
    BY <1>2, <1>17, <1>19, AppendedValues, SMTT(40)
  <2>. QED  BY <1>2, <2>1
<1>27. \A i \in 1..L : ms[i] \in FreeFor(y, d)
  BY <1>16 DEF Allocations
<1>28. \A i \in 1..L : ms[i] \in Nodes /\ \A x \in Lists : ms[i] \notin In(T2[x])
  BY <1>13, <1>27, FreeNode
<1>29. ValuesOf(both, T[c]) = ValuesOf(m, S[d])
  <2>1. ASSUME NEW i \in 1..K
        PROVE  both.val[ns[i]] = vs[i]
    <3>1. ns[i] \in In(T2[c])
      <4>1. PICK s : s = T2[c]
        OBVIOUS
      <4>2. Len(s) = K /\ s[i] = ns[i]
        <5>1. s = Longer(<<>>, ns, K)
          BY <1>14, <4>1
        <5>2. Len(<<>>) = 0 /\ 0 + K = K
          BY <1>1
        <5>3. s = [a \in 1..K |-> IF a <= 0 THEN <<>>[a] ELSE ns[a - 0]]
          BY <5>1, <5>2 DEF Longer
        <5>4. ~(i <= 0) /\ i - 0 = i
          BY <1>1
        <5>. QED  BY <1>1, <5>3, <5>4
      <4>. QED  BY <4>1, <4>2 DEF In
    <3>2. ns[i] \notin Firsts(ms, L)
      BY <1>28, <3>1 DEF Firsts
    <3>3. both.val[ns[i]] = y.val[ns[i]]
      BY <1>10, <1>18, <3>2
    <3>4. y.val[ns[i]] = this.val[ns[i]]
      BY <1>10, <1>13
    <3>. QED  BY <1>7, <3>3, <3>4
  <2>2. ValuesOf(both, T[c]) = [i \in 1..K |-> vs[i]]
    BY <1>1, <1>19, <2>1, AppendedValues, SMTT(40)
  <2>. QED  BY <1>1, <1>k, <2>2 DEF ValuesOf
<1>30. ASSUME NEW x \in Lists \ {c, d}
       PROVE  ValuesOf(both, T[x]) = ValuesOf(m, S[x])
  <2>1. In(S[d]) \cap In(S[x]) = {}
    BY UsedSplit
  <2>2. \A n \in In(S[x]) : n \in Nodes
    BY HoldsFacts
  <2>3. \A n \in In(S[x]) : n \notin Firsts(ns, K)
    BY <1>10 DEF Firsts
  <2>4. \A n \in In(S[x]) : n \notin Firsts(ms, L)
    BY <1>14, <1>28 DEF Firsts
  <2>5. \A n \in In(S[x]) : both.val[n] = m.val[n]
    BY <1>8, <1>13, <1>18, <2>1, <2>2, <2>3, <2>4
  <2>. QED  BY <1>19, <2>5, SameValues
<1>31. Others(m, S, r, T, {c, d})
  BY <1>19, <1>25, <1>30 DEF Others
<1>32. Used(S) \ (In(S[c]) \cup In(S[d])) \subseteq Used(T)
  BY <1>4, <1>8, <1>13, <1>18
<1>. QED  BY <1>25, <1>26, <1>29, <1>31, <1>32 DEF IsSwapped

-----------------------------------------------------------------------------
(* The caller's iterator, and the calls. *)

(* It is at the end of a list or at an element of one. *)
IterOk(i, S) ==
    i = NoIterator \/ (i \in Iterators /\ i.node \in Used(S) \cup {Null})

LEMMA HomeFacts ==
    ASSUME NEW m, NEW S, Holds(m, S), NEW i, IterOk(i, S), i # NoIterator
    PROVE  /\ i \in Iterators /\ HomeIn(m, i) \in Lists
           /\ i.node # Null => i.node \in In(S[HomeIn(m, i)])
           /\ i.node = Null => HomeIn(m, i) = i.owner
<1>1. i \in Iterators /\ i.owner \in Lists /\ i.node \in Used(S) \cup {Null}
  BY DEF IterOk, Iterators
<1>2. \A c \in Lists : Contains(NodesIn(m, c), i.node) <=> i.node \in In(S[c])
  <2>. TAKE c \in Lists
  <2>1. NodesIn(m, c) = S[c]
    BY HoldsFacts
  <2>. QED  BY <2>1 DEF Contains, In
<1>3. \A c \in Lists : Null \notin In(S[c])
  BY HoldsFacts, NullFacts
<1>h. PICK H : H = {c \in Lists : Contains(NodesIn(m, c), i.node)}
  OBVIOUS
<1>4. HomeIn(m, i) = IF H = {} THEN i.owner ELSE CHOOSE c \in H : TRUE
  BY <1>h DEF HomeIn
<1>5. CASE i.node = Null
  <2>1. H = {}
    BY <1>2, <1>3, <1>5, <1>h
  <2>. QED  BY <1>1, <1>4, <1>5, <2>1
<1>6. CASE i.node # Null
  <2>1. H # {}
    <3>1. \E c \in Lists : i.node \in In(S[c])
      BY <1>1, <1>6 DEF Used
    <3>. QED  BY <1>2, <1>h, <3>1
  <2>2. HomeIn(m, i) \in H
    BY <1>4, <2>1
  <2>. QED  BY <1>1, <1>2, <1>6, <1>h, <2>2
<1>. QED  BY <1>5, <1>6

(* An iterator whose element stays is right afterwards. *)
LEMMA IterKept ==
    ASSUME NEW S, NEW T, NEW gone, Used(S) \ gone \subseteq Used(T), NEW i, IterOk(i, S),
           NEW k, k = IF i # NoIterator /\ i.node \in gone THEN NoIterator ELSE i
    PROVE  IterOk(k, T)
BY DEF IterOk

LEMMA IterMoved ==
    ASSUME NEW T, NEW i \in Iterators, NEW c \in Lists, NEW n \in Used(T) \cup {Null},
           n \in Targets
    PROVE  /\ IterOk([i EXCEPT !.owner = c, !.node = n], T)
           /\ IterOk([i EXCEPT !.node = n], T)
BY DEF IterOk, Iterators, Targets

(* A link leads to an element of the same list, or nowhere. *)
LEMMA LinkLeads ==
    ASSUME NEW m, NEW S, Holds(m, S), NEW c \in Lists, NEW d \in Directions,
           NEW e, e \in In(S[c]) \cup {c}
    PROVE  m[d][e] \in In(S[c]) \cup {Null} /\ m[d][e] \in Used(S) \cup {Null} /\ m[d][e] \in Targets
<1>s. PICK s : s = S[c]
  OBVIOUS
<1>1. /\ m \in Mems /\ Chain(m, c, s) /\ s \in Seq(Nodes) /\ Len(s) \in Nat /\ In(s) \subseteq Nodes
      /\ In(s) \subseteq Used(S)
  BY <1>s, HoldsFacts, ChainIsSeq
<1>2. \A i \in Nat : El(s, i) \in In(s) \cup {Null}
  BY <1>1, Neighbours
<1>3. m.nxt[e] \in In(s) \cup {Null} /\ m.pre[e] \in In(s) \cup {Null}
  <2>1. CASE e = c
    BY <1>1, <1>2, <2>1 DEF Chain
  <2>2. CASE e \in In(s)
    <3>1. PICK i \in 1..Len(s) : e = s[i]
      BY <2>2 DEF In
    <3>2. i + 1 \in Nat /\ i - 1 \in Nat
      OBVIOUS
    <3>3. m.nxt[e] = El(s, i + 1) /\ m.pre[e] = El(s, i - 1)
      BY <1>1, <3>1 DEF Chain
    <3>. QED  BY <1>2, <3>2, <3>3
  <2>. QED  BY <1>s, <2>1, <2>2
<1>4. m[d] = m.nxt \/ m[d] = m.pre
  BY DEF Directions
<1>. QED  BY <1>1, <1>3, <1>4, <1>s, NullFacts DEF Targets

(* What each call comes to: lists that are whole, and no node lost.        *)
Outcome(S) == \E T : /\ Holds(mem', T) /\ IterOk(it', T)
                     /\ Lost(mem', T) = Lost(mem, S)

LEMMA OneInserted ==
    ASSUME NEW S, Holds(mem, S), IterOk(it, S), NEW r, r = mem', NEW T, NEW n, NEW v,
           Inserts(mem, S, r, T, n, v),
           NEW c \in Lists, it' \in {it, [it EXCEPT !.owner = c, !.node = n]},
           it' # it => it \in Iterators
    PROVE  Outcome(S)
<1>1. Holds(r, T) /\ Used(T) = Used(S) \cup {n} /\ Lost(r, T) = Lost(mem, S)
  BY DEF Inserts
<1>2. IterOk(it', T)
  <2>1. CASE it' = it
    BY <1>1, <2>1 DEF IterOk
  <2>2. CASE it' # it
    <3>1. n \in Used(T) /\ n \in Targets
      BY <1>1, UsedFacts, NullFacts
    <3>2. it \in Iterators /\ it' = [it EXCEPT !.owner = c, !.node = n] /\ n \in Used(T) \cup {Null}
      BY <2>2, <3>1
    <3>3. IterOk([it EXCEPT !.owner = c, !.node = n], T)
      BY <3>1, <3>2, IterMoved
    <3>. QED  BY <3>2, <3>3
  <2>. QED  BY <2>1, <2>2
<1>. QED  BY <1>1, <1>2 DEF Outcome

LEMMA PushFrontOutcome ==
    ASSUME NEW S, Holds(mem, S), IterOk(it, S), NEW c \in Lists, NEW v \in Values,
           NEW n \in FreeFor(mem, c), PushFrontOf(c, v, n)
    PROVE  Outcome(S)
<1>r. PICK r : r = mem'
  OBVIOUS
<1>t. PICK t : t = WithNode(mem, n, v)
  OBVIOUS
<1>1. r = AfterStores(t, PushFront(t, c, n)) /\ it' = it
  BY <1>r, <1>t DEF PushFrontOf
<1>2. 0 \in 0..Len(S[c])
  BY HoldsFacts
<1>3. PICK T : Replaced(S, T, c, Inserted(S[c], 0, n))
  BY <1>2, InsertedExists
<1>4. Inserts(mem, S, r, T, n, v)
  BY <1>1, <1>3, <1>t, PushFrontHolds
<1>. QED  BY <1>1, <1>4, <1>r, OneInserted

LEMMA PushBackOutcome ==
    ASSUME NEW S, Holds(mem, S), IterOk(it, S), NEW c \in Lists, NEW v \in Values,
           NEW n \in FreeFor(mem, c), PushBackOf(c, v, n)
    PROVE  Outcome(S)
<1>r. PICK r : r = mem'
  OBVIOUS
<1>n. PICK ns : ns = <<n>>
  OBVIOUS
<1>v. PICK vs : vs = <<v>>
  OBVIOUS
<1>1. r = Appended(mem, c, ns, vs) /\ it' = it
  BY <1>r, <1>n, <1>v DEF PushBackOf
<1>2. ns \in Allocations(mem, c, 1)
  <2>1. ns \in [1..1 -> FreeFor(mem, c)]
    BY <1>n
  <2>2. IsInjective(ns)
    BY <1>n DEF IsInjective
  <2>. QED  BY <2>1, <2>2 DEF Allocations
<1>3. 1 \in Nat /\ Len(vs) = 1 /\ \A i \in 1..1 : vs[i] \in Values
  BY <1>v
<1>4. PICK T : Appends(mem, S, r, T, Firsts(ns, 1))
  BY <1>1, <1>2, <1>3, AppendedHolds
<1>5. Used(S) \subseteq Used(T)
  BY <1>4 DEF Appends
<1>6. IterOk(it', T)
  BY <1>1, <1>5 DEF IterOk
<1>. QED  BY <1>4, <1>6, <1>r DEF Appends, Outcome

LEMMA InsertedHere ==
    ASSUME NEW S, Holds(mem, S), NEW c \in Lists, NEW n \in FreeFor(mem, c), NEW v \in Values,
           NEW p \in 0..Len(S[c]), NEW e, e = El(S[c], p + 1),
           NEW t, t = WithNode(mem, n, v), NEW r, r = AfterStores(t, InsertBefore(t, c, e, n)),
           NEW T, Replaced(S, T, c, Inserted(S[c], p, n))
    PROVE  Inserts(mem, S, r, T, n, v)
<1>m. PICK m \in Nat : m = Len(S[c])
  BY HoldsFacts
<1>1. CASE p = Len(S[c])
  <2>1. e = Null
    BY <1>m, <1>1 DEF El
  <2>2. r = AfterStores(t, PushBack(t, c, n))
    BY <2>1 DEF InsertBefore
  <2>3. Replaced(S, T, c, Inserted(S[c], Len(S[c]), n))
    BY <1>1
  <2>. QED  BY <2>2, <2>3, PushBackHolds
<1>2. CASE p # Len(S[c])
  <2>i. PICK i \in 1..Len(S[c]) : i = p + 1 /\ i - 1 = p
    BY <1>m, <1>2
  <2>1. e = S[c][i]
    BY <2>i DEF El
  <2>2. Replaced(S, T, c, Inserted(S[c], i - 1, n))
    BY <2>i
  <2>. QED  BY <2>1, <2>2, InsertHolds
<1>. QED  BY <1>1, <1>2

LEMMA InsertOutcome ==
    ASSUME NEW S, Holds(mem, S), IterOk(it, S), Position, NEW v \in Values,
           NEW n \in FreeFor(mem, HomeOf(it)), Insert(v, n)
    PROVE  Outcome(S)
<1>r. PICK r : r = mem'
  OBVIOUS
<1>t. PICK t : t = WithNode(mem, n, v)
  OBVIOUS
<1>1. it # NoIterator
  BY DEF Position
<1>c. PICK c : c = HomeOf(it)
  OBVIOUS
<1>2. /\ it \in Iterators /\ c \in Lists
      /\ it.node # Null => it.node \in In(S[c])
  BY <1>1, <1>c, HomeFacts DEF HomeOf
<1>3. /\ r = AfterStores(t, InsertBefore(t, c, it.node, n))
      /\ it' \in {it, [it EXCEPT !.owner = c, !.node = n]}
      /\ n \in FreeFor(mem, c)
  BY <1>r, <1>t, <1>c DEF Insert
<1>p. PICK p \in 0..Len(S[c]) : it.node = El(S[c], p + 1)
  <2>m. PICK m \in Nat : m = Len(S[c])
    BY <1>2, HoldsFacts
  <2>1. CASE it.node = Null
    <3>1. El(S[c], m + 1) = Null /\ m \in 0..Len(S[c])
      BY <2>m DEF El
    <3>. QED  BY <2>1, <2>m, <3>1
  <2>2. CASE it.node # Null
    <3>1. PICK i \in 1..Len(S[c]) : it.node = S[c][i]
      BY <1>2, <2>2 DEF In
    <3>2. i - 1 \in 0..Len(S[c]) /\ El(S[c], (i - 1) + 1) = it.node
      BY <2>m, <3>1 DEF El
    <3>. QED  BY <3>2
  <2>. QED  BY <2>1, <2>2
<1>e. PICK e : e = it.node
  OBVIOUS
<1>T. PICK T : Replaced(S, T, c, Inserted(S[c], p, n))
  BY <1>2, <1>3, InsertedExists
<1>4. Inserts(mem, S, r, T, n, v)
  BY <1>2, <1>3, <1>t, <1>p, <1>e, <1>T, InsertedHere
<1>. QED  BY <1>2, <1>3, <1>4, <1>r, OneInserted

LEMMA Dropped ==
    ASSUME NEW S, IterOk(it, S), NEW gone, DropIterator(gone), NEW T, Used(S) \ gone \subseteq Used(T)
    PROVE  IterOk(it', T)
BY DEF DropIterator, IterOk

(* The elements i to j - 1 of c go. *)
IsErased(m, S, r, T, c, i, j) ==
    Replaced(S, T, c, Cut(S[c], i, j)) /\ Removes(m, S, r, T, Span(S[c], i, j))

LEMMA RangeErased ==
    ASSUME NEW S, Holds(mem, S), NEW c \in Lists, NEW s, s = S[c],
           NEW j \in 1..(Len(s) + 1), NEW i \in 1..j, i \in 1..Len(s),
           NEW r, r = Erased(mem, c, s[i], El(s, j))
    PROVE  \E T : IsErased(mem, S, r, T, c, i, j)
<1>1. /\ \E T : Replaced(S, T, c, Cut(s, i, j))
      /\ \A T : Replaced(S, T, c, Cut(s, i, j)) => Removes(mem, S, r, T, Span(s, i, j))
  BY ErasedHolds
<1>2. PICK T : Replaced(S, T, c, Cut(s, i, j)) /\ Removes(mem, S, r, T, Span(s, i, j))
  BY <1>1
<1>3. IsErased(mem, S, r, T, c, i, j)
  BY <1>2 DEF IsErased
<1>. QED  BY <1>3

(* What the pops and erase erase. *)
LEMMA PopFrontErases ==
    ASSUME NEW S, Holds(mem, S), NEW c \in Lists, PopFront(c), NEW s, s = S[c]
    PROVE  /\ Len(s) \in Nat /\ 1 \in 1..Len(s) /\ 2 \in 1..(Len(s) + 1) /\ 1 \in 1..2
           /\ mem' = Erased(mem, c, s[1], El(s, 2))
           /\ DropIterator(Span(s, 1, 2))
<1>1. Chain(mem, c, s) /\ s \in Seq(Nodes) /\ Len(s) \in Nat
  BY HoldsFacts
<1>2. 1 \in 1..Len(s) /\ FirstNode(mem, c) = s[1]
  <2>1. El(s, 1) # Null /\ FirstNode(mem, c) = El(s, 1)
    BY <1>1 DEF PopFront, IsEmpty, FirstNode, Chain
  <2>. QED  BY <2>1 DEF El
<1>3. mem.nxt[s[1]] = El(s, 2)
  <2>1. mem.nxt[s[1]] = El(s, 1 + 1)
    BY <1>1, <1>2 DEF Chain
  <2>. QED  BY <2>1
<1>4. mem' = Erased(mem, c, s[1], El(s, 2)) /\ DropIterator({s[1]})
  BY <1>2, <1>3 DEF PopFront
<1>5. Span(s, 1, 2) = {s[1]}
  <2>1. 1..(2 - 1) = {1}
    OBVIOUS
  <2>. QED  BY <2>1 DEF Span
<1>6. 2 \in 1..(Len(s) + 1) /\ 1 \in 1..2
  BY <1>1, <1>2
<1>. QED  BY <1>1, <1>2, <1>4, <1>5, <1>6

LEMMA PopBackErases ==
    ASSUME NEW S, Holds(mem, S), NEW c \in Lists, PopBack(c), NEW s, s = S[c], NEW n, n = Len(s)
    PROVE  /\ n \in Nat /\ n \in 1..Len(s) /\ n + 1 \in 1..(Len(s) + 1) /\ n \in 1..(n + 1)
           /\ mem' = Erased(mem, c, s[n], El(s, n + 1))
           /\ DropIterator(Span(s, n, n + 1))
<1>1. Chain(mem, c, s) /\ s \in Seq(Nodes) /\ n \in Nat
  BY HoldsFacts
<1>2. n \in 1..Len(s) /\ LastNode(mem, c) = s[n]
  <2>1. El(s, 1) # Null /\ LastNode(mem, c) = El(s, n)
    BY <1>1 DEF PopBack, IsEmpty, FirstNode, LastNode, Chain
  <2>2. n # 0
    BY <2>1 DEF El
  <2>. QED  BY <1>1, <2>1, <2>2 DEF El
<1>3. El(s, n + 1) = Null
  BY <1>1 DEF El
<1>4. mem' = Erased(mem, c, s[n], El(s, n + 1)) /\ DropIterator({s[n]})
  BY <1>2, <1>3 DEF PopBack
<1>5. n + 1 \in 1..(Len(s) + 1) /\ n \in 1..(n + 1)
  BY <1>1, <1>2
<1>6. Span(s, n, n + 1) = {s[n]}
  <2>1. n..((n + 1) - 1) = {n}
    BY <1>1
  <2>. QED  BY <2>1 DEF Span
<1>. QED  BY <1>1, <1>2, <1>4, <1>5, <1>6

LEMMA PopFrontOutcome ==
    ASSUME NEW S, Holds(mem, S), IterOk(it, S), NEW c \in Lists, PopFront(c)
    PROVE  Outcome(S)
<1>s. PICK s : s = S[c]
  OBVIOUS
<1>r. PICK r : r = mem'
  OBVIOUS
<1>1. /\ 1 \in 1..Len(s) /\ 2 \in 1..(Len(s) + 1) /\ 1 \in 1..2
      /\ r = Erased(mem, c, s[1], El(s, 2)) /\ DropIterator(Span(s, 1, 2))
  BY <1>s, <1>r, PopFrontErases
<1>2. PICK T : IsErased(mem, S, r, T, c, 1, 2)
  BY <1>1, <1>s, RangeErased
<1>3. /\ Holds(r, T) /\ Lost(r, T) = Lost(mem, S)
      /\ Used(T) = Used(S) \ Span(s, 1, 2)
  BY <1>2, <1>s DEF IsErased, Removes
<1>4. IterOk(it', T)
  BY <1>1, <1>3, Dropped
<1>. QED  BY <1>3, <1>4, <1>r DEF Outcome

LEMMA PopBackOutcome ==
    ASSUME NEW S, Holds(mem, S), IterOk(it, S), NEW c \in Lists, PopBack(c)
    PROVE  Outcome(S)
<1>s. PICK s : s = S[c]
  OBVIOUS
<1>n. PICK n : n = Len(s)
  OBVIOUS
<1>r. PICK r : r = mem'
  OBVIOUS
<1>1. /\ n \in 1..Len(s) /\ n + 1 \in 1..(Len(s) + 1) /\ n \in 1..(n + 1)
      /\ r = Erased(mem, c, s[n], El(s, n + 1)) /\ DropIterator(Span(s, n, n + 1))
  BY <1>s, <1>n, <1>r, PopBackErases
<1>2. PICK T : IsErased(mem, S, r, T, c, n, n + 1)
  BY <1>1, <1>s, RangeErased
<1>3. /\ Holds(r, T) /\ Lost(r, T) = Lost(mem, S)
      /\ Used(T) = Used(S) \ Span(s, n, n + 1)
  BY <1>2, <1>s DEF IsErased, Removes
<1>4. IterOk(it', T)
  BY <1>1, <1>3, Dropped
<1>. QED  BY <1>3, <1>4, <1>r DEF Outcome

ErasesFrom(r, c, s, last, i, j) ==
    /\ j \in 1..(Len(s) + 1) /\ i \in 1..Len(s) /\ i \in 1..j
    /\ it.node = s[i] /\ last = El(s, j)
    /\ r = Erased(mem, c, s[i], El(s, j))

LEMMA EraseErases ==
    ASSUME NEW S, Holds(mem, S), IterOk(it, S), Position, NEW last \in RangeEnds, Erase(last),
           NEW c, c = HomeOf(it), NEW s, s = S[c], NEW r, r = mem'
    PROVE  \E i, j : ErasesFrom(r, c, s, last, i, j)
<1>1. /\ it \in Iterators /\ c \in Lists /\ it.node # Null /\ it.node \in In(S[c])
  BY HomeFacts DEF HomeOf, Position, Erase
<1>2. /\ s \in Seq(Nodes) /\ Len(s) \in Nat
      /\ \A a, b \in 1..Len(s) : s[a] = s[b] => a = b
      /\ NodesIn(mem, c) = s
  BY <1>1, HoldsFacts, ChainIsSeq
<1>3. PICK i \in 1..Len(s) : it.node = s[i]
  BY <1>1 DEF In
<1>4. \E j \in 1..(Len(s) + 1) : i \in 1..j /\ last = El(s, j)
  <2>1. CASE last = Null
    <3>1. Len(s) + 1 \in 1..(Len(s) + 1) /\ i \in 1..(Len(s) + 1) /\ El(s, Len(s) + 1) = Null
      BY <1>2 DEF El
    <3>. QED  BY <2>1, <3>1
  <2>2. CASE last # Null
    <3>1. PICK k \in 1..Len(s) : last = s[k] /\ \E j \in 1..k : s[j] = it.node
      BY <1>2, <2>2 DEF RangeEnds
    <3>2. i \in 1..k
      <4>1. PICK j \in 1..k : s[j] = it.node
        BY <3>1
      <4>2. j \in 1..Len(s)
        BY <1>2
      <4>. QED  BY <1>2, <1>3, <4>1, <4>2
    <3>3. k \in 1..(Len(s) + 1) /\ El(s, k) = s[k]
      BY <1>2 DEF El
    <3>. QED  BY <3>1, <3>2, <3>3
  <2>. QED  BY <2>1, <2>2
<1>5. PICK j \in 1..(Len(s) + 1) : i \in 1..j /\ last = El(s, j)
  BY <1>4
<1>6. r = Erased(mem, c, s[i], El(s, j))
  BY <1>3, <1>5 DEF Erase
<1>7. ErasesFrom(r, c, s, last, i, j)
  BY <1>3, <1>5, <1>6 DEF ErasesFrom
<1>. QED  BY <1>7

LEMMA EraseOutcome ==
    ASSUME NEW S, Holds(mem, S), IterOk(it, S), Position, NEW last \in RangeEnds, Erase(last)
    PROVE  Outcome(S)
<1>c. PICK c : c = HomeOf(it)
  OBVIOUS
<1>1. it \in Iterators /\ c \in Lists
  BY <1>c, HomeFacts DEF HomeOf, Position
<1>s. PICK s : s = S[c]
  OBVIOUS
<1>r. PICK r : r = mem'
  OBVIOUS
<1>2. /\ s \in Seq(Nodes) /\ Len(s) \in Nat
      /\ \A a, b \in 1..Len(s) : s[a] = s[b] => a = b
      /\ In(s) \subseteq Used(S) /\ In(s) \subseteq Nodes
  BY <1>1, <1>s, HoldsFacts, ChainIsSeq
<1>3. it' = [it EXCEPT !.owner = c, !.node = last]
  BY <1>c DEF Erase
<1>4. PICK i, j : ErasesFrom(r, c, s, last, i, j)
  BY <1>c, <1>s, <1>r, EraseErases
<1>5. /\ j \in 1..(Len(s) + 1) /\ i \in 1..Len(s) /\ i \in 1..j
      /\ last = El(s, j) /\ r = Erased(mem, c, s[i], El(s, j))
  BY <1>4 DEF ErasesFrom
<1>6. PICK T : IsErased(mem, S, r, T, c, i, j)
  BY <1>1, <1>5, <1>s, RangeErased
<1>7. /\ Holds(r, T) /\ Lost(r, T) = Lost(mem, S)
      /\ Used(T) = Used(S) \ Span(s, i, j)
  BY <1>6, <1>s DEF IsErased, Removes
<1>8. last \in Used(T) \cup {Null} /\ last \in Targets
  <2>1. CASE j \in 1..Len(s)
    <3>1. last = s[j] /\ s[j] \in In(s)
      BY <1>5, <2>1 DEF El, In
    <3>2. \A a \in i..(j - 1) : a \in 1..Len(s) /\ a # j
      BY <1>2, <1>5
    <3>3. last \notin Span(s, i, j)
      BY <1>2, <1>5, <2>1, <3>1, <3>2 DEF Span
    <3>. QED  BY <1>2, <1>7, <3>1, <3>3, NullFacts
  <2>2. CASE j \notin 1..Len(s)
    BY <1>5, <2>2, NullFacts DEF El
  <2>. QED  BY <2>1, <2>2
<1>9. IterOk(it', T)
  <2>1. IterOk([it EXCEPT !.owner = c, !.node = last], T)
    BY <1>1, <1>8, IterMoved
  <2>. QED  BY <1>3, <2>1
<1>. QED  BY <1>7, <1>9, <1>r DEF Outcome

LEMMA ElementsOf ==
    ASSUME NEW S, Holds(mem, S), NEW c \in Lists
    PROVE  /\ Elements(c) = In(S[c]) /\ Cardinality(Elements(c)) = Len(S[c])
           /\ Len(S[c]) \in Nat
<1>1. Chain(mem, c, S[c]) /\ Len(S[c]) \in Nat
  BY HoldsFacts
<1>2. Elements(c) = In(S[c])
  BY <1>1, Visited DEF Elements
<1>. QED  BY <1>1, <1>2, ChainSize

(* c is emptied first. *)
LEMMA EmptiedFirst ==
    ASSUME NEW S, Holds(mem, S), NEW c \in Lists, NEW r, r = Cleared(mem, c)
    PROVE  \E T : /\ Holds(r, T) /\ Lost(r, T) = Lost(mem, S) /\ Used(T) = Used(S) \ In(S[c])
                  /\ T[c] = <<>> /\ \A x \in Lists \ {c} : T[x] = S[x]
<1>1. S \in [Lists -> Seq(Nodes)] /\ <<>> \in Seq(Nodes)
  BY DEF Holds
<1>2. PICK T : Replaced(S, T, c, <<>>)
  BY <1>1, ReplacedExists
<1>3. Removes(mem, S, r, T, In(S[c]))
  BY <1>2, ClearedHolds
<1>. QED  BY <1>2, <1>3 DEF Removes, Replaced

LEMMA ClearOutcome ==
    ASSUME NEW S, Holds(mem, S), IterOk(it, S), NEW c \in Lists, Clear(c)
    PROVE  Outcome(S)
<1>r. PICK r : r = Cleared(mem, c)
  OBVIOUS
<1>1. PICK T : /\ Holds(r, T) /\ Lost(r, T) = Lost(mem, S) /\ Used(T) = Used(S) \ In(S[c])
  BY <1>r, EmptiedFirst
<1>2. mem' = r /\ DropIterator(In(S[c]))
  BY <1>r, ElementsOf DEF Clear
<1>3. IterOk(it', T)
  BY <1>1, <1>2, Dropped
<1>. QED  BY <1>1, <1>2, <1>3 DEF Outcome

LEMMA CopyAssignOutcome ==
    ASSUME NEW S, Holds(mem, S), IterOk(it, S), NEW c \in Lists, NEW d \in Lists, c # d,
           CopyAssign(c, d)
    PROVE  Outcome(S)
<1>a. PICK a : a = Cleared(mem, c)
  OBVIOUS
<1>1. PICK T1 : /\ Holds(a, T1) /\ Lost(a, T1) = Lost(mem, S) /\ Used(T1) = Used(S) \ In(S[c])
                /\ T1[c] = <<>> /\ \A x \in Lists \ {c} : T1[x] = S[x]
  BY <1>a, EmptiedFirst
<1>k. PICK K : K = Len(S[d])
  OBVIOUS
<1>v. PICK vs : vs = ValuesIn(a, d)
  OBVIOUS
<1>2. T1[d] = S[d]
  BY <1>1
<1>3. K \in Nat /\ Len(vs) = K /\ \A i \in 1..K : vs[i] \in Values
  <2>1. K = Len(T1[d])
    BY <1>2, <1>k
  <2>. QED  BY <1>1, <1>v, <2>1, ValuesOfList
<1>4. /\ \E ns \in Allocations(a, c, K) : mem' = Appended(a, c, ns, vs)
      /\ DropIterator(In(S[c]))
  BY <1>a, <1>k, <1>v, ElementsOf DEF CopyAssign
<1>r. PICK r : r = mem'
  OBVIOUS
<1>5. PICK ns \in Allocations(a, c, K) : r = Appended(a, c, ns, vs)
  BY <1>4, <1>r
<1>6. PICK T : Appends(a, T1, r, T, Firsts(ns, K))
  BY <1>1, <1>3, <1>5, AppendedHolds
<1>7. Holds(r, T) /\ Lost(r, T) = Lost(mem, S) /\ Used(S) \ In(S[c]) \subseteq Used(T)
  BY <1>1, <1>6 DEF Appends
<1>8. IterOk(it', T)
  BY <1>4, <1>7, Dropped
<1>. QED  BY <1>7, <1>8, <1>r DEF Outcome

LEMMA MoveAssignOutcome ==
    ASSUME NEW S, Holds(mem, S), IterOk(it, S), NEW c \in Lists, NEW d \in Lists, c # d,
           MoveAssign(c, d)
    PROVE  Outcome(S)
<1>a. PICK a : a = Cleared(mem, c)
  OBVIOUS
<1>1. PICK T1 : /\ Holds(a, T1) /\ Lost(a, T1) = Lost(mem, S) /\ Used(T1) = Used(S) \ In(S[c])
                /\ T1[c] = <<>> /\ \A x \in Lists \ {c} : T1[x] = S[x]
  BY <1>a, EmptiedFirst
<1>2. T1[d] = S[d]
  BY <1>1
<1>g. PICK G : G = LostBy(c, d)
  OBVIOUS
<1>3. /\ HeapOf[c] = HeapOf[d] => G = {}
      /\ HeapOf[c] # HeapOf[d] => G = In(S[d]) /\ Cardinality(G) = Len(S[d])
  BY <1>g, ElementsOf DEF LostBy
<1>4. /\ \E ns \in Allocations(a, c, Cardinality(G)) : mem' = Moved(a, c, d, ns)
      /\ DropIterator(In(S[c]) \cup G)
  BY <1>a, <1>g, ElementsOf DEF MoveAssign
<1>r. PICK r : r = mem'
  OBVIOUS
<1>5. PICK ns \in Allocations(a, c, Cardinality(G)) : r = Moved(a, c, d, ns)
  BY <1>4, <1>r
<1>6. MoveNeeds(a, T1, c, d, ns, G)
  BY <1>2, <1>3, <1>5 DEF MoveNeeds
<1>7. PICK T : IsMoved(a, T1, r, T, c, d, G)
  BY <1>1, <1>5, <1>6, MovedHolds
<1>t. Holds(r, T) /\ Lost(r, T) = Lost(a, T1) /\ Used(T1) \ G \subseteq Used(T)
  BY <1>7 DEF IsMoved
<1>8. Used(S) \ (In(S[c]) \cup G) \subseteq Used(T)
  BY <1>1, <1>t
<1>9. IterOk(it', T)
  BY <1>4, <1>8, Dropped
<1>. QED  BY <1>1, <1>t, <1>9, <1>r DEF Outcome

LEMMA SwapSameHeapOutcome ==
    ASSUME NEW S, Holds(mem, S), IterOk(it, S), NEW c \in Lists, NEW d \in Lists, c # d,
           SwapSameHeap(c, d)
    PROVE  Outcome(S)
<1>r. PICK r : r = mem'
  OBVIOUS
<1>1. HeapOf[c] = HeapOf[d] /\ r = AfterStores(mem, Exchange(mem, c, d)) /\ it' = it
  BY <1>r DEF SwapSameHeap
<1>2. mem \in Mems /\ S \in [Lists -> Seq(Nodes)]
  BY DEF Holds
<1>3. Exchanged(mem, r, c, d)
  BY <1>1, <1>2, ExchangeMem
<1>4. PICK T : Crossed(S, T, c, d)
  BY <1>2, CrossedExists
<1>5. Holds(r, T) /\ Used(T) = Used(S) /\ Lost(r, T) = Lost(mem, S)
  BY <1>1, <1>3, <1>4, ExchangedHolds
<1>6. IterOk(it', T)
  BY <1>1, <1>5 DEF IterOk
<1>. QED  BY <1>5, <1>6, <1>r DEF Outcome

(* The one call after which fewer nodes can be had. *)
LEMMA SwapAcrossOutcome ==
    ASSUME NEW S, Holds(mem, S), IterOk(it, S), NEW c \in Lists, NEW d \in Lists, c # d,
           SwapAcross(c, d)
    PROVE  \E T : Holds(mem', T) /\ IterOk(it', T)
<1>z. PICK z : z = Cleared(mem, d)
  OBVIOUS
<1>k. PICK K : K = Len(S[d])
  OBVIOUS
<1>w. PICK w : w = ValuesIn(mem, c)
  OBVIOUS
<1>r. PICK r : r = mem'
  OBVIOUS
<1>1. /\ HeapOf[c] # HeapOf[d]
      /\ \E ns \in Allocations(mem, c, K), q \in Salvaged(w) :
            \E ms \in Allocations(z, d, Len(q)) : r = SwappedByElement(mem, c, d, ns, ms, q)
      /\ DropIterator(In(S[c]) \cup In(S[d]))
  BY <1>z, <1>k, <1>w, <1>r, ElementsOf DEF SwapAcross
<1>2. PICK ns \in Allocations(mem, c, K), q \in Salvaged(w) :
            \E ms \in Allocations(z, d, Len(q)) : r = SwappedByElement(mem, c, d, ns, ms, q)
  BY <1>1
<1>3. PICK ms \in Allocations(z, d, Len(q)) : r = SwappedByElement(mem, c, d, ns, ms, q)
  BY <1>2
<1>4. SwapNeeds(mem, S, c, d, ns, ms, q, r)
  BY <1>z, <1>k, <1>w, <1>1, <1>3 DEF SwapNeeds
<1>s. PICK T : IsSwapped(mem, S, c, d, q, r, T)
  BY <1>4, SwappedHolds
<1>5. Holds(r, T) /\ Used(S) \ (In(S[c]) \cup In(S[d])) \subseteq Used(T)
  BY <1>s DEF IsSwapped
<1>6. IterOk(it', T)
  BY <1>1, <1>5, Dropped
<1>. QED  BY <1>5, <1>6, <1>r

LEMMA PointOutcome ==
    ASSUME NEW S, Holds(mem, S), NEW i, PointAt(i), IterOk(i, S)
    PROVE  Outcome(S)
BY DEF PointAt, Outcome

LEMMA BeginEndOutcome ==
    ASSUME NEW S, Holds(mem, S), NEW c \in Lists, NEW d \in Directions,
           Begin(c, d) \/ End(c, d)
    PROVE  Outcome(S)
<1>1. mem[d][c] \in Used(S) \cup {Null} /\ mem[d][c] \in Targets /\ Null \in Targets
  BY LinkLeads, NullFacts
<1>2. ASSUME NEW n \in Targets, n \in Used(S) \cup {Null}
      PROVE  IterOk([owner |-> c, node |-> n, dir |-> d], S)
  BY <1>2 DEF IterOk, Iterators, Targets
<1>3. CASE Begin(c, d)
  BY <1>1, <1>2, <1>3, PointOutcome DEF Begin
<1>4. CASE End(c, d)
  BY <1>1, <1>2, <1>4, PointOutcome DEF End
<1>. QED  BY <1>3, <1>4

LEMMA StepOutcome ==
    ASSUME NEW S, Holds(mem, S), IterOk(it, S), Increment \/ Decrement
    PROVE  Outcome(S)
<1>1. it # NoIterator
  BY DEF Increment, Decrement
<1>c. PICK c \in Lists : c = HomeOf(it) /\ (it.node # Null => it.node \in In(S[c]))
  BY <1>1, HomeFacts DEF HomeOf
<1>2. it \in Iterators /\ it.owner \in Lists /\ it.dir \in Directions
  BY <1>1, HomeFacts DEF Iterators
<1>3. Opposite(it.dir) \in Directions
  BY DEF Opposite, Directions
<1>4. ASSUME NEW n \in Targets, n \in Used(S) \cup {Null}
      PROVE  IterOk([it EXCEPT !.node = n], S)
  BY <1>2, <1>4, IterMoved
<1>5. CASE Increment
  <2>n. PICK n : n = mem[it.dir][it.node]
    OBVIOUS
  <2>1. it.node # Null /\ PointAt([it EXCEPT !.node = n])
    BY <1>5, <2>n DEF Increment
  <2>2. n \in Targets /\ n \in Used(S) \cup {Null}
    <3>1. it.node \in In(S[c]) \cup {c}
      BY <1>c, <2>1
    <3>. QED  BY <1>2, <2>n, <3>1, LinkLeads
  <2>. QED  BY <1>4, <2>1, <2>2, PointOutcome
<1>6. CASE Decrement
  <2>e. PICK e : e = IF it.node = Null THEN it.owner ELSE it.node
    OBVIOUS
  <2>n. PICK n : n = mem[Opposite(it.dir)][e]
    OBVIOUS
  <2>1. PointAt([it EXCEPT !.node = n])
    BY <1>6, <2>e, <2>n DEF Decrement
  <2>2. n \in Targets /\ n \in Used(S) \cup {Null}
    <3>1. PICK x \in Lists : e \in In(S[x]) \cup {x}
      BY <1>2, <1>c, <2>e
    <3>. QED  BY <1>3, <2>n, <3>1, LinkLeads
  <2>. QED  BY <1>4, <2>1, <2>2, PointOutcome
<1>. QED  BY <1>5, <1>6

-----------------------------------------------------------------------------
(* The inductive invariant: there are sequences of nodes, one for each     *)
(* list, that the links hold in both directions, each list of allocated    *)
(* nodes of its own; the iterator stands in one of them or at an end.      *)

ListInv ==
    /\ view = View(mem, it)
    /\ \E S : Holds(mem, S) /\ IterOk(it, S)

LEMMA InitMem ==
    ASSUME Init
    PROVE  /\ mem \in Mems
           /\ \A e \in Entities : mem.nxt[e] = Null /\ mem.pre[e] = Null
           /\ \A n \in Nodes : mem.val[n] = Undefined
<1>. DEFINE L == [e \in Entities |-> Null]
<1>. DEFINE V == [n \in Nodes |-> Undefined]
<1>1. L \in LinkTable /\ V \in [Nodes -> Values \cup {Undefined}]
  BY NullFacts DEF LinkTable
<1>n. NoLinks.nxt = L /\ NoLinks.pre = L
  BY DEF NoLinks, Entities
<1>2. mem = [nxt |-> L, pre |-> L, val |-> V]
  BY <1>n DEF Init
<1>. HIDE DEF L, V
<1>3. mem \in Mems /\ mem.nxt = L /\ mem.pre = L /\ mem.val = V
  BY <1>1, <1>2 DEF Mems
<1>. QED  BY <1>3 DEF L, V

LEMMA ListInvInit == Init => ListInv
<1>. SUFFICES ASSUME Init PROVE ListInv
  OBVIOUS
<1>1. /\ mem \in Mems
      /\ \A e \in Entities : mem.nxt[e] = Null /\ mem.pre[e] = Null
      /\ \A n \in Nodes : mem.val[n] = Undefined
  BY InitMem
<1>2. PICK S : S = [c \in Lists |-> <<>>]
  OBVIOUS
<1>3. <<>> \in Seq(Nodes) /\ Len(<<>>) = 0
  OBVIOUS
<1>4. S \in [Lists -> Seq(Nodes)] /\ \A c \in Lists : S[c] = <<>>
  BY <1>2, <1>3
<1>5. In(<<>>) = {}
  BY DEF In
<1>6. ASSUME NEW c \in Lists
      PROVE  Owns(mem, c, <<>>)
  <2>1. mem.nxt[c] = Null /\ mem.pre[c] = Null
    BY <1>1, NullFacts
  <2>2. Chain(mem, c, <<>>)
    BY <1>3, <2>1 DEF Chain, El
  <2>. QED  BY <1>5, <2>2 DEF Owns
<1>7. Blank(mem)
  BY <1>1, NullFacts DEF Blank
<1>8. Apart(S)
  BY <1>4, <1>5 DEF Apart
<1>9. Holds(mem, S)
  BY <1>1, <1>4, <1>6, <1>7, <1>8 DEF Holds
<1>10. IterOk(it, S) /\ view = View(mem, it)
  BY DEF Init, IterOk
<1>. QED  BY <1>9, <1>10 DEF ListInv

(* A call other than a swap between heaps has an Outcome. *)
LEMMA CallOutcome ==
    ASSUME NEW S, Holds(mem, S), IterOk(it, S), Call,
           ~ \E c, d \in Lists : SwapAcross(c, d)
    PROVE  Outcome(S)
<1>1. CASE \E c \in Lists, v \in Values : \E n \in FreeFor(mem, c) :
              PushFrontOf(c, v, n) \/ PushBackOf(c, v, n)
  BY <1>1, PushFrontOutcome, PushBackOutcome
<1>2. CASE Position /\ \E v \in Values : \E n \in FreeFor(mem, HomeOf(it)) : Insert(v, n)
  BY <1>2, InsertOutcome
<1>3. CASE Position /\ \E last \in RangeEnds : Erase(last)
  BY <1>3, EraseOutcome
<1>4. CASE \E c \in Lists : PopFront(c) \/ PopBack(c) \/ Clear(c)
  BY <1>4, PopFrontOutcome, PopBackOutcome, ClearOutcome
<1>5. CASE \E c, d \in Lists : c # d /\ CopyAssign(c, d)
  BY <1>5, CopyAssignOutcome
<1>6. CASE \E c, d \in Lists : c # d /\ MoveAssign(c, d)
  BY <1>6, MoveAssignOutcome
<1>7. CASE \E c, d \in Lists : c # d /\ SwapSameHeap(c, d)
  BY <1>7, SwapSameHeapOutcome
<1>8. CASE \E c \in Lists, d \in Directions : Begin(c, d) \/ End(c, d)
  BY <1>8, BeginEndOutcome
<1>9. CASE Increment \/ Decrement
  BY <1>9, StepOutcome
<1>. QED  BY <1>1, <1>2, <1>3, <1>4, <1>5, <1>6, <1>7, <1>8, <1>9 DEF Call

(* A swap of a list with itself is no call: the heaps are the same. *)
LEMMA AcrossIsOfTwo ==
    ASSUME NEW c, NEW d, SwapAcross(c, d)
    PROVE  c # d
BY DEF SwapAcross

LEMMA ListInvNext == ListInv /\ [Next]_vars => ListInv'
<1>. SUFFICES ASSUME ListInv, [Next]_vars PROVE ListInv'
  OBVIOUS
<1>1. PICK S : Holds(mem, S) /\ IterOk(it, S)
  BY DEF ListInv
<1>2. CASE UNCHANGED vars
  <2>1. mem' = mem /\ it' = it /\ view' = view
    BY <1>2 DEF vars
  <2>2. view' = View(mem', it')
    BY <2>1 DEF ListInv
  <2>3. Holds(mem', S) /\ IterOk(it', S)
    BY <1>1, <2>1
  <2>. QED  BY <2>2, <2>3 DEF ListInv
<1>3. CASE Next
  <2>1. Call /\ view' = View(mem', it')
    BY <1>3 DEF Next
  <2>2. \E T : Holds(mem', T) /\ IterOk(it', T)
    <3>1. CASE \E c, d \in Lists : SwapAcross(c, d)
      BY <1>1, <3>1, AcrossIsOfTwo, SwapAcrossOutcome
    <3>2. CASE ~ \E c, d \in Lists : SwapAcross(c, d)
      BY <1>1, <2>1, <3>2, CallOutcome DEF Outcome
    <3>. QED  BY <3>1, <3>2
  <2>. QED  BY <2>1, <2>2 DEF ListInv
<1>. QED  BY <1>2, <1>3

THEOREM ListsAreWhole == Spec => []ListInv
BY ListInvInit, ListInvNext, PTL DEF Spec

-----------------------------------------------------------------------------
(* What the callers see.                                                   *)

(* Links, data and iterator keep their types, and a node that was given    *)
(* back by erase, clear, an assignment or a swap has null links            *)
(* (usee_allocator_destruct_node and the constructor of the next one).     *)
THEOREM ListIsTyped == Spec => []TypeOK
<1>1. ListInv => TypeOK
  <2>. SUFFICES ASSUME ListInv PROVE TypeOK
    OBVIOUS
  <2>1. PICK S : Holds(mem, S) /\ IterOk(it, S)
    BY DEF ListInv
  <2>2. mem \in Mems /\ Blank(mem)
    BY <2>1 DEF Holds
  <2>3. mem.nxt \in LinkTable /\ mem.pre \in LinkTable
    BY <2>2 DEF Mems
  <2>4. [nxt |-> mem.nxt, pre |-> mem.pre] \in Links
    BY <2>3 DEF Links, LinkTable, Entities, Targets
  <2>5. mem.val \in [Nodes -> Values \cup {Undefined}]
    BY <2>2 DEF Mems
  <2>6. it \in Iterators \cup {NoIterator}
    BY <2>1 DEF IterOk
  <2>7. \A n \in Nodes \ Allocated(mem) : mem.nxt[n] = Null /\ mem.pre[n] = Null
    BY <2>2 DEF Allocated, Blank
  <2>. QED  BY <2>4, <2>5, <2>6, <2>7 DEF TypeOK
<1>. QED  BY <1>1, ListsAreWhole, PTL

(* Whatever the calls, op_pre_ and op_tail_ lead back through the nodes    *)
(* that op_head_ and op_nxt_ lead to: no insert, erase, steal or exchange  *)
(* leaves a link of one direction behind.                                  *)
THEOREM BothWalksAgree == Spec => []WalksAgree
<1>1. ListInv => WalksAgree
  <2>. SUFFICES ASSUME ListInv, NEW c \in Lists, NEW w, w = NodesIn(mem, c)
                PROVE  /\ IsInjective(w)
                       /\ LastNode(mem, c) = IF w = <<>> THEN Null ELSE Last(w)
                       /\ \A i \in 1..Len(w) :
                             mem.pre[w[i]] = IF i = 1 THEN Null ELSE w[i - 1]
    BY DEF WalksAgree
  <2>1. PICK S : Holds(mem, S) /\ IterOk(it, S)
    BY DEF ListInv
  <2>2. Chain(mem, c, w)
    BY <2>1, HoldsFacts
  <2>3. /\ w \in Seq(Nodes) /\ Len(w) \in Nat
        /\ \A i, j \in 1..Len(w) : w[i] = w[j] => i = j
    BY <2>2, ChainIsSeq
  <2>m. PICK m \in Nat : m = Len(w)
    BY <2>3
  <2>4. IsInjective(w)
    BY <2>3 DEF IsInjective
  <2>5. LastNode(mem, c) = IF w = <<>> THEN Null ELSE Last(w)
    <3>1. LastNode(mem, c) = El(w, m)
      BY <2>2, <2>m DEF Chain, LastNode
    <3>2. CASE w = <<>>
      <4>1. m = 0
        BY <2>m, <3>2
      <4>. QED  BY <3>1, <3>2, <4>1, <2>m DEF El
    <3>3. CASE w # <<>>
      <4>1. m # 0
        BY <2>m, <2>3, <3>3
      <4>2. m \in 1..Len(w)
        BY <4>1, <2>m
      <4>. QED  BY <2>m, <3>1, <3>3, <4>2 DEF El, Last
    <3>. QED  BY <3>2, <3>3
  <2>6. ASSUME NEW i \in 1..Len(w)
        PROVE  mem.pre[w[i]] = IF i = 1 THEN Null ELSE w[i - 1]
    <3>1. mem.pre[w[i]] = El(w, i - 1)
      BY <2>2 DEF Chain
    <3>2. i = 1 => i - 1 \notin 1..Len(w)
      OBVIOUS
    <3>3. i # 1 => i - 1 \in 1..Len(w)
      BY <2>m
    <3>. QED  BY <3>1, <3>2, <3>3 DEF El
  <2>. QED  BY <2>4, <2>5, <2>6
<1>. QED  BY <1>1, ListsAreWhole, PTL

(* Each list owns its nodes: they are allocated, from the heap of its own  *)
(* allocator, and in no other list, although moves and swaps pass whole    *)
(* chains from one list to another.                                        *)
THEOREM ListsOwnTheirNodes == Spec => []NodesAreOwned
<1>1. ListInv => NodesAreOwned
  <2>. SUFFICES ASSUME ListInv, NEW c \in Lists
                PROVE  /\ Elements(c) \subseteq Allocated(mem)
                       /\ \A n \in Elements(c) : HeapOf[n] = HeapOf[c]
                       /\ \A d \in Lists \ {c} : Elements(c) \cap Elements(d) = {}
    BY DEF NodesAreOwned
  <2>1. PICK S : Holds(mem, S) /\ IterOk(it, S)
    BY DEF ListInv
  <2>2. \A d \in Lists : Elements(d) = In(S[d])
    <3>. TAKE d \in Lists
    <3>1. Chain(mem, d, S[d])
      BY <2>1, HoldsFacts
    <3>. QED  BY <3>1, Visited DEF Elements
  <2>3. \A n \in In(S[c]) : n \in Nodes /\ mem.val[n] # Undefined /\ HeapOf[n] = HeapOf[c]
    BY <2>1, HoldsFacts, ListAssumption
  <2>4. \A d \in Lists \ {c} : In(S[c]) \cap In(S[d]) = {}
    BY <2>1, UsedSplit
  <2>. QED  BY <2>2, <2>3, <2>4 DEF Allocated
<1>. QED  BY <1>1, ListsAreWhole, PTL

(* Where a value comes to stand: x is vs with v behind the first p. *)
WithValue(x, vs, p, v, k) ==
    /\ vs \in Seq(Values) /\ Len(vs) = k /\ k \in Nat
    /\ x \in Seq(Values) /\ Len(x) = k + 1
    /\ \A i \in 1..(k + 1) :
          x[i] = IF i <= p THEN vs[i] ELSE IF i = p + 1 THEN v ELSE vs[i - 1]

LEMMA InsertedValues ==
    ASSUME NEW m, NEW S, Holds(m, S), NEW c \in Lists, NEW n \in FreeFor(m, c), NEW v \in Values,
           NEW p \in 0..Len(S[c]), NEW r, NEW T, Replaced(S, T, c, Inserted(S[c], p, n)),
           Inserts(m, S, r, T, n, v),
           NEW k, k = Len(S[c]), NEW vs, vs = ValuesIn(m, c), NEW x, x = ValuesIn(r, c)
    PROVE  WithValue(x, vs, p, v, k)
<1>s. PICK s : s = S[c]
  OBVIOUS
<1>u. PICK u : u = T[c]
  OBVIOUS
<1>1. /\ k \in Nat /\ Len(vs) = k /\ vs = ValuesOf(m, s)
      /\ \A i \in 1..k : vs[i] = m.val[s[i]] /\ vs[i] \in Values
  BY <1>s, ValuesOfList
<1>2. n \in Nodes /\ s \in Seq(Nodes) /\ \A e \in Lists : n \notin In(S[e])
  BY <1>s, FreeNode, HoldsFacts
<1>3. IsInserted(s, p, n, u)
  <2>1. u = Inserted(s, p, n) /\ p \in 0..Len(s)
    BY <1>s, <1>u DEF Replaced
  <2>. QED  BY <1>2, <2>1, InsertedFacts
<1>4. /\ Len(u) = k + 1
      /\ \A i \in 1..(k + 1) :
            u[i] = IF i <= p THEN s[i] ELSE IF i = p + 1 THEN n ELSE s[i - 1]
  BY <1>3, <1>s DEF IsInserted
<1>5. Holds(r, T) /\ \A e \in Nodes : r.val[e] = IF e = n THEN v ELSE m.val[e]
  BY DEF Inserts
<1>6. /\ x = ValuesOf(r, u) /\ Len(x) = k + 1
      /\ \A i \in 1..(k + 1) : x[i] = r.val[u[i]] /\ x[i] \in Values
  BY <1>4, <1>5, <1>u, ValuesOfList
<1>7. vs \in Seq(Values)
  <2>1. vs = [i \in 1..k |-> m.val[s[i]]]
    BY <1>1, <1>s DEF ValuesOf
  <2>. QED  BY <1>1, <2>1
<1>8. x \in Seq(Values)
  <2>1. x = [i \in 1..(k + 1) |-> r.val[u[i]]]
    BY <1>4, <1>6 DEF ValuesOf
  <2>2. k + 1 \in Nat /\ \A i \in 1..(k + 1) : r.val[u[i]] \in Values
    BY <1>1, <1>6
  <2>. QED  BY <2>1, <2>2
<1>9. \A i \in 1..k : s[i] \in Nodes /\ s[i] # n
  <2>1. \A i \in 1..k : s[i] \in Nodes /\ s[i] \in In(s)
    BY <1>2, <1>s DEF In
  <2>. QED  BY <1>2, <1>s, <2>1
<1>10. ASSUME NEW i \in 1..(k + 1)
       PROVE  x[i] = IF i <= p THEN vs[i] ELSE IF i = p + 1 THEN v ELSE vs[i - 1]
  <2>1. p \in Nat /\ p <= k
    BY <1>1
  <2>2. CASE i <= p
    <3>1. i \in 1..k /\ u[i] = s[i]
      BY <1>1, <1>4, <2>1, <2>2
    <3>. QED  BY <1>1, <1>5, <1>6, <1>9, <2>2, <3>1, SMTT(40)
  <2>3. CASE i = p + 1
    <3>1. ~(i <= p) /\ u[i] = n
      BY <1>1, <1>4, <2>1, <2>3
    <3>. QED  BY <1>2, <1>5, <1>6, <2>3, <3>1
  <2>4. CASE ~(i <= p) /\ i # p + 1
    <3>1. i - 1 \in 1..k /\ u[i] = s[i - 1]
      BY <1>1, <1>4, <2>1, <2>4
    <3>. QED  BY <1>1, <1>5, <1>6, <1>9, <2>4, <3>1, SMTT(40)
  <2>. QED  BY <2>2, <2>3, <2>4
<1>. QED  BY <1>1, <1>6, <1>7, <1>8, <1>10 DEF WithValue

LEMMA ValuePrepended ==
    ASSUME NEW x \in Seq(Values), NEW vs \in Seq(Values), NEW v \in Values, NEW k \in Nat,
           Len(vs) = k, Len(x) = k + 1, x[1] = v, \A i \in 2..(k + 1) : x[i] = vs[i - 1]
    PROVE  x = <<v>> \o vs
<1>y. PICK y : y = <<v>> \o vs
  OBVIOUS
<1>1. y \in Seq(Values) /\ Len(y) = k + 1 /\ y[1] = v
  BY <1>y
<1>2. \A i \in 2..(k + 1) : y[i] = vs[i - 1]
  BY <1>y
<1>3. \A i \in 1..(k + 1) : i = 1 \/ i \in 2..(k + 1)
  OBVIOUS
<1>4. \A i \in 1..(k + 1) : x[i] = y[i]
  BY <1>1, <1>2, <1>3
<1>5. x = [i \in 1..(k + 1) |-> x[i]] /\ y = [i \in 1..(k + 1) |-> y[i]]
  BY <1>1
<1>. QED  BY <1>4, <1>5, <1>y

LEMMA ValueAppended ==
    ASSUME NEW x \in Seq(Values), NEW vs \in Seq(Values), NEW v \in Values, NEW k \in Nat,
           Len(vs) = k, Len(x) = k + 1, x[k + 1] = v, \A i \in 1..k : x[i] = vs[i]
    PROVE  x = Append(vs, v)
<1>y. PICK y : y = Append(vs, v)
  OBVIOUS
<1>1. y \in Seq(Values) /\ Len(y) = k + 1 /\ y[k + 1] = v
  BY <1>y
<1>2. \A i \in 1..k : y[i] = vs[i]
  BY <1>y
<1>3. \A i \in 1..(k + 1) : i = k + 1 \/ i \in 1..k
  OBVIOUS
<1>4. \A i \in 1..(k + 1) : x[i] = y[i]
  BY <1>1, <1>2, <1>3
<1>5. x = [i \in 1..(k + 1) |-> x[i]] /\ y = [i \in 1..(k + 1) |-> y[i]]
  BY <1>1
<1>. QED  BY <1>4, <1>5, <1>y

LEMMA PushedFront ==
    ASSUME NEW S, Holds(mem, S), NEW c \in Lists, NEW n \in FreeFor(mem, c), NEW v \in Values,
           NEW t, t = WithNode(mem, n, v)
    PROVE  ValuesIn(AfterStores(t, PushFront(t, c, n)), c) = <<v>> \o ValuesIn(mem, c)
<1>r. PICK r : r = AfterStores(t, PushFront(t, c, n))
  OBVIOUS
<1>v. PICK vs : vs = ValuesIn(mem, c)
  OBVIOUS
<1>k. PICK k : k = Len(S[c])
  OBVIOUS
<1>x. PICK x : x = ValuesIn(r, c)
  OBVIOUS
<1>1. k \in Nat /\ 0 \in 0..Len(S[c])
  BY <1>k, HoldsFacts
<1>2. PICK T : Replaced(S, T, c, Inserted(S[c], 0, n))
  BY <1>1, InsertedExists
<1>3. Inserts(mem, S, r, T, n, v)
  BY <1>2, <1>r, PushFrontHolds
<1>4. WithValue(x, vs, 0, v, k)
  BY <1>1, <1>2, <1>3, <1>k, <1>v, <1>x, InsertedValues
<1>5. /\ vs \in Seq(Values) /\ Len(vs) = k /\ x \in Seq(Values) /\ Len(x) = k + 1
      /\ \A i \in 1..(k + 1) : x[i] = IF i <= 0 THEN vs[i] ELSE IF i = 0 + 1 THEN v ELSE vs[i - 1]
  BY <1>4 DEF WithValue
<1>6. x[1] = v /\ \A i \in 2..(k + 1) : x[i] = vs[i - 1]
  BY <1>1, <1>5
<1>7. x = <<v>> \o vs
  BY <1>1, <1>5, <1>6, ValuePrepended
<1>. QED  BY <1>7, <1>x, <1>v, <1>r

LEMMA PushedBack ==
    ASSUME NEW S, Holds(mem, S), NEW c \in Lists, NEW n \in FreeFor(mem, c), NEW v \in Values,
           NEW t, t = WithNode(mem, n, v)
    PROVE  ValuesIn(AfterStores(t, PushBack(t, c, n)), c) = Append(ValuesIn(mem, c), v)
<1>r. PICK r : r = AfterStores(t, PushBack(t, c, n))
  OBVIOUS
<1>v. PICK vs : vs = ValuesIn(mem, c)
  OBVIOUS
<1>k. PICK k : k = Len(S[c])
  OBVIOUS
<1>x. PICK x : x = ValuesIn(r, c)
  OBVIOUS
<1>1. k \in Nat /\ Len(S[c]) \in 0..Len(S[c])
  BY <1>k, HoldsFacts
<1>2. PICK T : Replaced(S, T, c, Inserted(S[c], Len(S[c]), n))
  BY <1>1, InsertedExists
<1>3. Inserts(mem, S, r, T, n, v)
  BY <1>2, <1>r, PushBackHolds
<1>p. PICK p \in 0..Len(S[c]) : p = Len(S[c])
  BY <1>1
<1>c. Replaced(S, T, c, Inserted(S[c], p, n)) /\ p = k
  BY <1>2, <1>p, <1>k
<1>4. WithValue(x, vs, p, v, k)
  BY <1>c, <1>3, <1>k, <1>v, <1>x, InsertedValues
<1>5. /\ vs \in Seq(Values) /\ Len(vs) = k /\ x \in Seq(Values) /\ Len(x) = k + 1
      /\ \A i \in 1..(k + 1) : x[i] = IF i <= k THEN vs[i] ELSE IF i = k + 1 THEN v ELSE vs[i - 1]
  BY <1>4, <1>c DEF WithValue
<1>6. x[k + 1] = v /\ \A i \in 1..k : x[i] = vs[i]
  BY <1>1, <1>5
<1>7. x = Append(vs, v)
  BY <1>1, <1>5, <1>6, ValueAppended
<1>. QED  BY <1>7, <1>x, <1>v, <1>r

LEMMA PoppedBack ==
    ASSUME NEW S, Holds(mem, S), NEW c \in Lists, ~IsEmpty(mem, c)
    PROVE  ValuesIn(Erased(mem, c, LastNode(mem, c), Null), c) = Front(ValuesIn(mem, c))
<1>s. PICK s : s = S[c]
  OBVIOUS
<1>v. PICK vs : vs = ValuesIn(mem, c)
  OBVIOUS
<1>r. PICK r : r = Erased(mem, c, LastNode(mem, c), Null)
  OBVIOUS
<1>x. PICK x : x = ValuesIn(r, c)
  OBVIOUS
<1>1. /\ Chain(mem, c, s) /\ s \in Seq(Nodes) /\ Len(s) \in Nat
      /\ \A a, b \in 1..Len(s) : s[a] = s[b] => a = b
  BY <1>s, HoldsFacts, ChainIsSeq
<1>n. PICK n \in Nat : n = Len(s)
  BY <1>1
<1>2. n \in 1..Len(s) /\ LastNode(mem, c) = s[n]
  <2>1. El(s, 1) # Null /\ LastNode(mem, c) = El(s, n)
    BY <1>1, <1>n DEF IsEmpty, FirstNode, LastNode, Chain
  <2>2. n # 0
    BY <1>n, <2>1 DEF El
  <2>. QED  BY <1>n, <2>1, <2>2 DEF El
<1>3. El(s, n + 1) = Null
  BY <1>n DEF El
<1>4. r = Erased(mem, c, s[n], El(s, n + 1))
  BY <1>r, <1>2, <1>3
<1>5. n + 1 \in 1..(Len(s) + 1) /\ n \in 1..(n + 1)
  BY <1>n, <1>2
<1>6. /\ \E T : Replaced(S, T, c, Cut(s, n, n + 1))
      /\ \A T : Replaced(S, T, c, Cut(s, n, n + 1)) => Removes(mem, S, r, T, Span(s, n, n + 1))
  BY <1>2, <1>4, <1>5, <1>s, ErasedHolds
<1>7. PICK T : /\ Replaced(S, T, c, Cut(s, n, n + 1))
               /\ Removes(mem, S, r, T, Span(s, n, n + 1))
  BY <1>6
<1>u. PICK u : u = T[c]
  OBVIOUS
<1>8. IsCut(s, n, n + 1, u)
  <2>1. IsCut(s, n, n + 1, Cut(s, n, n + 1))
    BY <1>1, <1>5, CutFacts
  <2>. QED  BY <1>7, <1>u, <2>1 DEF Replaced
<1>9. /\ u \in Seq(Nodes) /\ Len(u) = n - 1 /\ n - 1 \in Nat
      /\ \A i \in 1..(n - 1) : u[i] = s[i]
      /\ In(u) \cap Span(s, n, n + 1) = {}
  <2>1. (n + 1) - n = 1
    OBVIOUS
  <2>2. /\ u \in Seq(Nodes) /\ Len(u) = n - 1 /\ n - 1 \in Nat
        /\ \A i \in 1..(n - 1) : u[i] = IF i < n THEN s[i] ELSE s[i + 1]
        /\ In(u) \cap Span(s, n, n + 1) = {}
    BY <1>8, <1>n, <2>1 DEF IsCut
  <2>3. \A i \in 1..(n - 1) : i < n
    OBVIOUS
  <2>. QED  BY <2>2, <2>3
<1>10. /\ Holds(r, T)
       /\ \A e \in Nodes : r.val[e] = IF e \in Span(s, n, n + 1) THEN Undefined ELSE mem.val[e]
  BY <1>7 DEF Removes
<1>l. PICK l : l = Len(u)
  OBVIOUS
<1>11. x = ValuesOf(r, u)
  BY <1>10, <1>l, <1>u, <1>x, ValuesOfList
<1>12. Len(vs) = n /\ \A i \in 1..n : vs[i] = mem.val[s[i]]
  BY <1>n, <1>s, <1>v, ValuesOfList
<1>13. ASSUME NEW i \in 1..(n - 1)
       PROVE  r.val[u[i]] = vs[i]
  <2>1. u[i] = s[i] /\ u[i] \in In(u) /\ u[i] \in Nodes
    BY <1>9 DEF In
  <2>2. i \in 1..n
    OBVIOUS
  <2>. QED  BY <1>9, <1>10, <1>12, <2>1, <2>2
<1>14. x = [i \in 1..(n - 1) |-> r.val[u[i]]]
  BY <1>9, <1>11 DEF ValuesOf
<1>15. Front(vs) = [i \in 1..(n - 1) |-> vs[i]]
  BY <1>12 DEF Front
<1>. QED  BY <1>13, <1>14, <1>15, <1>x, <1>r, <1>v

(* A push puts its value before or behind all others, insert at end() too, *)
(* and a pop from the back takes the last one, in every list that can be   *)
(* reached: what makes the channels of ipsm_malloc queues.                 *)
THEOREM EndsKeepTheirOrder == Spec => []EndsAreInOrder
<1>1. ListInv => EndsAreInOrder
  <2>. SUFFICES ASSUME ListInv PROVE EndsAreInOrder
    OBVIOUS
  <2>1. PICK S : Holds(mem, S) /\ IterOk(it, S)
    BY DEF ListInv
  <2>2. ASSUME NEW c \in Lists, NEW n \in FreeFor(mem, c), NEW v \in Values,
               NEW t, t = WithNode(mem, n, v)
        PROVE  /\ ValuesIn(AfterStores(t, PushFront(t, c, n)), c) = <<v>> \o ValuesIn(mem, c)
               /\ ValuesIn(AfterStores(t, PushBack(t, c, n)), c) = Append(ValuesIn(mem, c), v)
               /\ ValuesIn(AfterStores(t, InsertBefore(t, c, Null, n)), c)
                    = Append(ValuesIn(mem, c), v)
    <3>1. InsertBefore(t, c, Null, n) = PushBack(t, c, n)
      BY DEF InsertBefore
    <3>. QED  BY <2>1, <2>2, <3>1, PushedFront, PushedBack
  <2>3. ASSUME NEW c \in Lists, ~IsEmpty(mem, c)
        PROVE  ValuesIn(Erased(mem, c, LastNode(mem, c), Null), c) = Front(ValuesIn(mem, c))
    BY <2>1, <2>3, PoppedBack
  <2>. QED  BY <2>2, <2>3 DEF EndsAreInOrder
<1>. QED  BY <1>1, ListsAreWhole, PTL

LEMMA Leaked ==
    ASSUME NEW m, NEW S, Holds(m, S), NEW i
    PROVE  View(m, i).leaked = Lost(m, S)
<1>1. \A c \in Lists : ToSet(NodesIn(m, c)) = In(S[c])
  <2>. TAKE c \in Lists
  <2>1. Chain(m, c, S[c])
    BY HoldsFacts
  <2>. QED  BY <2>1, Visited
<1>2. UNION {ToSet(NodesIn(m, c)) : c \in Lists} = Used(S)
  BY <1>1 DEF Used
<1>3. View(m, i).leaked = Allocated(m) \ UNION {ToSet(NodesIn(m, c)) : c \in Lists}
  BY DEF View
<1>. QED  BY <1>2, <1>3 DEF Lost

(* No call but a swap between heaps changes which nodes are allocated and  *)
(* in no list: insert links what it allocates, erase, clear and the moves  *)
(* free what they unlink.                                                  *)
THEOREM NodesAreFreed == Spec => OthersLeakNothing
<1>1. ListInv /\ [Next]_vars
        => [view'.leaked # view.leaked => \E c, d \in Lists : SwapAcross(c, d)]_vars
  <2>. SUFFICES ASSUME ListInv, Next, ~ \E c, d \in Lists : SwapAcross(c, d)
                PROVE  view'.leaked = view.leaked
    OBVIOUS
  <2>1. PICK S : Holds(mem, S) /\ IterOk(it, S)
    BY DEF ListInv
  <2>2. Call /\ view' = View(mem', it') /\ view = View(mem, it)
    BY DEF Next, ListInv
  <2>3. Outcome(S)
    BY <2>1, <2>2, CallOutcome
  <2>4. PICK T : Holds(mem', T) /\ Lost(mem', T) = Lost(mem, S)
    BY <2>3 DEF Outcome
  <2>5. view.leaked = Lost(mem, S)
    BY <2>1, <2>2, Leaked
  <2>6. view'.leaked = Lost(mem', T)
    <3>1. PICK r : r = mem'
      OBVIOUS
    <3>2. View(r, it').leaked = Lost(r, T)
      BY <2>4, <3>1, Leaked
    <3>. QED  BY <2>2, <3>1, <3>2
  <2>. QED  BY <2>4, <2>5, <2>6
<1>2. Spec => [][Next]_vars
  BY PTL DEF Spec
<1>. QED  BY <1>1, <1>2, ListsAreWhole, PTL DEF OthersLeakNothing

-----------------------------------------------------------------------------
(* The lists as sequences of values, the iterator as a place in them: each *)
(* call is a call of ListOfValues.                                         *)

Facing(i) == IF i.dir = "nxt" THEN "forward" ELSE "reverse"
EndOf(s, i) == IF i.dir = "nxt" THEN Len(s) + 1 ELSE 0

(* i stands at index k of the list c, which is S[c]. *)
Place(i, S, c, k) ==
    /\ i \in Iterators /\ c \in Lists
    /\ \/ i.node # Null /\ k \in 1..Len(S[c]) /\ S[c][k] = i.node
       \/ i.node = Null /\ c = i.owner /\ k = EndOf(S[c], i)

LEMMA PlaceExists ==
    ASSUME NEW m, NEW S, Holds(m, S), NEW i, IterOk(i, S), i # NoIterator
    PROVE  \E c, k : Place(i, S, c, k)
<1>c. PICK c : c = HomeIn(m, i)
  OBVIOUS
<1>1. /\ i \in Iterators /\ c \in Lists
      /\ i.node # Null => i.node \in In(S[c])
      /\ i.node = Null => c = i.owner
  BY <1>c, HomeFacts
<1>2. CASE i.node = Null
  <2>1. Place(i, S, c, EndOf(S[c], i))
    BY <1>1, <1>2 DEF Place
  <2>. QED  BY <2>1
<1>3. CASE i.node # Null
  <2>1. PICK k \in 1..Len(S[c]) : S[c][k] = i.node
    BY <1>1, <1>3 DEF In
  <2>2. Place(i, S, c, k)
    BY <1>1, <1>3, <2>1 DEF Place
  <2>. QED  BY <2>2
<1>. QED  BY <1>2, <1>3

LEMMA PlaceIsOk ==
    ASSUME NEW m, NEW S, Holds(m, S), NEW i, NEW c, NEW k, Place(i, S, c, k)
    PROVE  /\ IterOk(i, S) /\ i # NoIterator /\ HomeIn(m, i) = c
           /\ k \in Nat /\ Len(S[c]) \in Nat /\ k <= Len(S[c]) + 1
           /\ i.node # Null <=> k \in 1..Len(S[c])
           /\ c \in Lists /\ i \in Iterators
<1>1. i \in Iterators /\ c \in Lists /\ i # NoIterator
  BY IteratorAssumption DEF Place
<1>2. S[c] \in Seq(Nodes) /\ Len(S[c]) \in Nat /\ In(S[c]) \subseteq Used(S)
  BY <1>1, HoldsFacts
<1>3. CASE i.node # Null
  <2>1. k \in 1..Len(S[c]) /\ i.node \in In(S[c])
    BY <1>3 DEF Place, In
  <2>2. IterOk(i, S)
    BY <1>1, <1>2, <2>1 DEF IterOk
  <2>3. HomeIn(m, i) \in Lists /\ i.node \in In(S[HomeIn(m, i)])
    BY <1>1, <1>3, <2>2, HomeFacts
  <2>4. HomeIn(m, i) = c
    BY <1>1, <2>1, <2>3 DEF Holds, Apart
  <2>. QED  BY <1>1, <1>2, <1>3, <2>1, <2>2, <2>4
<1>4. CASE i.node = Null
  <2>1. c = i.owner /\ k = EndOf(S[c], i)
    BY <1>4 DEF Place
  <2>2. IterOk(i, S)
    BY <1>1, <1>4 DEF IterOk
  <2>3. HomeIn(m, i) = c
    BY <1>1, <1>4, <2>1, <2>2, HomeFacts
  <2>4. k \in Nat /\ k <= Len(S[c]) + 1 /\ k \notin 1..Len(S[c])
    BY <1>2, <2>1 DEF EndOf
  <2>. QED  BY <1>1, <1>2, <1>4, <2>2, <2>3, <2>4
<1>. QED  BY <1>3, <1>4

(* What ListOfValues has of the lists and of the iterator. *)
ContentIs(C, m, S) ==
    /\ C = [c \in Lists |-> C[c]]
    /\ \A c \in Lists : C[c] = ValuesOf(m, S[c])

AtIs(p, i, S) ==
    /\ i = NoIterator => p = NoIterator
    /\ \A c, k : Place(i, S, c, k) => p = [list |-> c, index |-> k, dir |-> Facing(i)]

LEMMA ViewIs ==
    ASSUME NEW m, NEW S, Holds(m, S), NEW i, NEW w, w = View(m, i)
    PROVE  ContentIs(w.content, m, S) /\ AtIs(w.at, i, S)
<1>1. w.content = [c \in Lists |-> ValuesIn(m, c)]
  BY DEF View
<1>2. \A c \in Lists : ValuesIn(m, c) = ValuesOf(m, S[c])
  <2>. SUFFICES ASSUME NEW c \in Lists PROVE ValuesIn(m, c) = ValuesOf(m, S[c])
    OBVIOUS
  <2>1. PICK k : k = Len(S[c])
    OBVIOUS
  <2>. QED  BY <2>1, ValuesOfList
<1>3. ContentIs(w.content, m, S)
  BY <1>1, <1>2 DEF ContentIs
<1>4. i = NoIterator => w.at = NoIterator
  BY DEF View
<1>5. ASSUME NEW c, NEW k, Place(i, S, c, k)
      PROVE  w.at = [list |-> c, index |-> k, dir |-> Facing(i)]
  <2>1. /\ i # NoIterator /\ HomeIn(m, i) = c /\ c \in Lists
        /\ NodesIn(m, c) = S[c]
        /\ Len(S[c]) \in Nat /\ \A a, b \in 1..Len(S[c]) : S[c][a] = S[c][b] => a = b
    <3>1. i # NoIterator /\ HomeIn(m, i) = c /\ c \in Lists
      BY <1>5, PlaceIsOk
    <3>. QED  BY <3>1, HoldsFacts, ChainIsSeq
  <2>2. ([x \in Lists |-> NodesIn(m, x)])[HomeIn(m, i)] = S[c]
    BY <2>1
  <2>x. PICK x : x = CASE i.node # Null -> SelectInSeq(S[c], LAMBDA n : n = i.node)
                       [] i.node = Null /\ i.dir = "nxt" -> Len(S[c]) + 1
                       [] OTHER -> 0
    OBVIOUS
  <2>3. w.at = [list |-> c, index |-> x, dir |-> Facing(i)]
    BY <2>1, <2>2, <2>x DEF View, Facing
  <2>4. x = k
    <3>1. CASE i.node # Null
      <4>1. k \in 1..Len(S[c]) /\ S[c][k] = i.node
        BY <1>5, <3>1 DEF Place
      <4>I. PICK I : I = {a \in 1..Len(S[c]) : S[c][a] = i.node}
        OBVIOUS
      <4>2. I = {k}
        BY <2>1, <4>1, <4>I
      <4>3. Min(I) = k
        BY <4>2 DEF Min
      <4>4. SelectInSeq(S[c], LAMBDA n : n = i.node) = IF I # {} THEN Min(I) ELSE 0
        BY <4>I DEF SelectInSeq
      <4>. QED  BY <2>x, <3>1, <4>2, <4>3, <4>4
    <3>2. CASE i.node = Null
      BY <1>5, <2>x, <3>2 DEF Place, EndOf
    <3>. QED  BY <3>1, <3>2
  <2>. QED  BY <2>3, <2>4
<1>. QED  BY <1>3, <1>4, <1>5 DEF AtIs

LEMMA InsertAtIs ==
    ASSUME NEW x, NEW vs, NEW v \in Values, NEW k \in Nat, NEW p \in 0..k,
           WithValue(x, vs, p, v, k)
    PROVE  x = InsertAt(vs, p + 1, v)
<1>1. /\ vs \in Seq(Values) /\ Len(vs) = k /\ x \in Seq(Values) /\ Len(x) = k + 1
      /\ \A i \in 1..(k + 1) :
            x[i] = IF i <= p THEN vs[i] ELSE IF i = p + 1 THEN v ELSE vs[i - 1]
  BY DEF WithValue
<1>0. p \in Nat /\ p <= k /\ k - p \in Nat
  OBVIOUS
<1>a. PICK a : a = SubSeq(vs, 1, p)
  OBVIOUS
<1>b. PICK b : b = SubSeq(vs, p + 1, k)
  OBVIOUS
<1>2. a \in Seq(Values) /\ Len(a) = p /\ \A i \in 1..p : a[i] = vs[i]
  BY <1>0, <1>1, <1>a
<1>3. b \in Seq(Values) /\ Len(b) = k - p /\ \A i \in 1..(k - p) : b[i] = vs[p + i]
  BY <1>0, <1>1, <1>b
<1>y. PICK y : y = (a \o <<v>>) \o b
  OBVIOUS
<1>4. /\ a \o <<v>> \in Seq(Values) /\ Len(a \o <<v>>) = p + 1
      /\ \A i \in 1..p : (a \o <<v>>)[i] = vs[i]
      /\ (a \o <<v>>)[p + 1] = v
  BY <1>0, <1>2
<1>5. /\ y \in Seq(Values) /\ Len(y) = k + 1
      /\ \A i \in 1..(p + 1) : y[i] = (a \o <<v>>)[i]
      /\ \A i \in 1..(k - p) : y[(p + 1) + i] = b[i]
  BY <1>0, <1>3, <1>4, <1>y, SMTT(40)
<1>6. ASSUME NEW i \in 1..(k + 1)
      PROVE  y[i] = x[i]
  <2>1. CASE i <= p
    BY <1>0, <1>1, <1>4, <1>5, <2>1
  <2>2. CASE i = p + 1
    BY <1>0, <1>1, <1>4, <1>5, <2>2
  <2>3. CASE ~(i <= p) /\ i # p + 1
    <3>1. PICK e \in 1..(k - p) : i = (p + 1) + e
      <4>1. i - (p + 1) \in 1..(k - p) /\ i = (p + 1) + (i - (p + 1))
        BY <1>0, <2>3
      <4>. QED  BY <4>1
    <3>2. y[i] = vs[p + e]
      BY <1>3, <1>5, <3>1
    <3>3. p + e = i - 1
      BY <1>0, <3>1
    <3>. QED  BY <1>1, <2>3, <3>2, <3>3
  <2>. QED  BY <2>1, <2>2, <2>3
<1>7. y = [i \in 1..(k + 1) |-> y[i]] /\ x = [i \in 1..(k + 1) |-> x[i]]
  BY <1>1, <1>5
<1>8. x = y
  BY <1>6, <1>7
<1>9. InsertAt(vs, p + 1, v) = (SubSeq(vs, 1, p) \o <<v>>) \o SubSeq(vs, p + 1, k)
  <2>1. (p + 1) - 1 = p
    BY <1>0
  <2>. QED  BY <1>1, <2>1 DEF InsertAt
<1>. QED  BY <1>8, <1>9, <1>a, <1>b, <1>y

(* x is vs without the elements i to j - 1. *)
WithoutValues(x, vs, i, j, k) ==
    /\ vs \in Seq(Values) /\ Len(vs) = k
    /\ x \in Seq(Values) /\ Len(x) = k - (j - i)
    /\ \A a \in 1..(k - (j - i)) : x[a] = IF a < i THEN vs[a] ELSE vs[a + (j - i)]

LEMMA TakenOut ==
    ASSUME NEW x, NEW vs, NEW k \in Nat, NEW j \in 1..(k + 1), NEW i \in 1..j,
           WithoutValues(x, vs, i, j, k)
    PROVE  x = SubSeq(vs, 1, i - 1) \o SubSeq(vs, j, Len(vs))
<1>d. PICK d \in Nat : d = j - i /\ j = i + d
  OBVIOUS
<1>h. PICK h \in Nat : h = i - 1 /\ i = h + 1 /\ h + d <= k
  BY <1>d
<1>l. PICK l \in Nat : l = k - (h + d) /\ k - d = h + l /\ k = h + d + l
  BY <1>h
<1>1. /\ vs \in Seq(Values) /\ Len(vs) = k /\ x \in Seq(Values) /\ Len(x) = h + l
      /\ \A a \in 1..(h + l) : x[a] = IF a < i THEN vs[a] ELSE vs[a + d]
  BY <1>d, <1>l DEF WithoutValues
<1>a. PICK a : a = SubSeq(vs, 1, h)
  OBVIOUS
<1>b. PICK b : b = SubSeq(vs, h + d + 1, k)
  OBVIOUS
<1>2. a \in Seq(Values) /\ Len(a) = h /\ \A e \in 1..h : a[e] = vs[e]
  BY <1>1, <1>a, <1>l
<1>3. b \in Seq(Values) /\ Len(b) = l /\ \A e \in 1..l : b[e] = vs[h + d + e]
  BY <1>1, <1>b, <1>l
<1>y. PICK y : y = a \o b
  OBVIOUS
<1>4. /\ y \in Seq(Values) /\ Len(y) = h + l
      /\ \A e \in 1..h : y[e] = vs[e]
      /\ \A e \in 1..l : y[h + e] = b[e]
  <2>a. a \in Seq(Values) /\ b \in Seq(Values) /\ Len(a) = h /\ Len(b) = l
    BY <1>2, <1>3
  <2>1. y \in Seq(Values) /\ Len(y) = h + l
    BY ONLY <2>a, <1>y
  <2>2. \A e \in 1..h : y[e] = a[e]
    BY <1>2, <1>3, <1>y
  <2>3. ASSUME NEW e \in 1..l PROVE y[h + e] = b[e]
    <3>1. h + e \in 1..(Len(a) + Len(b)) /\ ~(h + e <= Len(a)) /\ (h + e) - Len(a) = e
      BY <1>2, <1>3
    <3>2. PICK f : f = h + e
      OBVIOUS
    <3>3. f \in 1..(Len(a) + Len(b)) /\ ~(f <= Len(a)) /\ f - Len(a) = e
      BY <3>1, <3>2
    <3>4. y[f] = b[f - Len(a)]
      BY ONLY <2>a, <1>y, <3>3, SMTT(40)
    <3>. QED  BY <3>2, <3>3, <3>4
  <2>. QED  BY <1>2, <2>1, <2>2, <2>3
<1>5. ASSUME NEW e \in 1..(h + l)
      PROVE  y[e] = x[e]
  <2>1. CASE e <= h
    BY <1>1, <1>4, <1>h, <2>1
  <2>2. CASE ~(e <= h)
    <3>1. PICK f \in 1..l : e = h + f
      <4>1. e - h \in 1..l /\ e = h + (e - h)
        BY <2>2
      <4>. QED  BY <4>1
    <3>2. y[e] = vs[h + d + f]
      BY <1>3, <1>4, <3>1
    <3>3. e + d = h + d + f /\ ~(e < i)
      BY <1>h, <3>1
    <3>. QED  BY <1>1, <3>2, <3>3
  <2>. QED  BY <2>1, <2>2
<1>6. y = [e \in 1..(h + l) |-> y[e]] /\ x = [e \in 1..(h + l) |-> x[e]]
  BY <1>1, <1>4
<1>7. x = y
  BY <1>5, <1>6
<1>8. i - 1 = h /\ j = h + d + 1 /\ Len(vs) = k
  BY <1>1, <1>d, <1>h
<1>. QED  BY <1>7, <1>8, <1>a, <1>b, <1>y

LEMMA ContentUpdated ==
    ASSUME NEW C, NEW D, NEW m, NEW S, NEW r, NEW T, ContentIs(C, m, S), ContentIs(D, r, T),
           NEW c \in Lists, Others(m, S, r, T, {c}), NEW x, ValuesOf(r, T[c]) = x
    PROVE  D = [C EXCEPT ![c] = x]
<1>1. /\ C = [e \in Lists |-> C[e]] /\ D = [e \in Lists |-> D[e]]
      /\ D[c] = x /\ \A e \in Lists \ {c} : D[e] = C[e]
  BY DEF ContentIs, Others
<1>2. [C EXCEPT ![c] = x] = [e \in Lists |-> IF e = c THEN x ELSE C[e]]
  BY <1>1
<1>3. \A e \in Lists : D[e] = IF e = c THEN x ELSE C[e]
  BY <1>1
<1>. QED  BY <1>1, <1>2, <1>3

(* Behind the new node, places move up. *)
LEMMA PlaceShifts ==
    ASSUME NEW S, NEW T, NEW c \in Lists, NEW n, NEW p, S[c] \in Seq(Nodes), Len(S[c]) \in Nat,
           p \in 0..Len(S[c]), IsInserted(S[c], p, n, T[c]), \A e \in Lists \ {c} : T[e] = S[e],
           NEW i, NEW a, NEW k, Place(i, S, a, k)
    PROVE  /\ a # c => Place(i, T, a, k)
           /\ a = c /\ k <= p => Place(i, T, a, k)
           /\ a = c /\ k > p => Place(i, T, a, k + 1)
<1>1. a \in Lists
  BY DEF Place
<1>2. CASE a # c
  BY <1>1, <1>2 DEF Place, EndOf
<1>3. CASE a = c
  <2>s. PICK s : s = S[c]
    OBVIOUS
  <2>m. PICK m0 \in Nat : m0 = Len(s)
    BY <2>s
  <2>u. PICK u : u = T[c]
    OBVIOUS
  <2>1. /\ Len(u) = m0 + 1 /\ p \in Nat /\ p <= m0
        /\ \A e \in 1..(m0 + 1) : u[e] = IF e <= p THEN s[e] ELSE IF e = p + 1 THEN n ELSE s[e - 1]
    BY <2>s, <2>m, <2>u DEF IsInserted
  <2>2. /\ i \in Iterators
        /\ \/ i.node # Null /\ k \in 1..m0 /\ s[k] = i.node
           \/ i.node = Null /\ c = i.owner /\ k = IF i.dir = "nxt" THEN m0 + 1 ELSE 0
    BY <1>3, <2>s, <2>m DEF Place, EndOf
  <2>3. CASE i.node # Null
    <3>1. k \in 1..m0 /\ s[k] = i.node
      BY <2>2, <2>3
    <3>2. CASE k <= p
      <4>1. k \in 1..Len(u) /\ u[k] = i.node
        BY <2>1, <3>1, <3>2
      <4>. QED  BY <1>3, <2>2, <2>3, <2>u, <3>2, <3>1, <2>1, <4>1 DEF Place
    <3>3. CASE k > p
      <4>1. k + 1 \in 1..Len(u) /\ u[k + 1] = s[k]
        <5>1. k + 1 \in 1..(m0 + 1) /\ ~(k + 1 <= p) /\ k + 1 # p + 1 /\ (k + 1) - 1 = k
          BY <2>1, <3>1, <3>3
        <5>. QED  BY <2>1, <5>1
      <4>. QED  BY <1>3, <2>1, <2>2, <2>3, <2>u, <3>1, <3>3, <4>1 DEF Place
    <3>. QED  BY <2>1, <3>1, <3>2, <3>3
  <2>4. CASE i.node = Null
    <3>1. c = i.owner /\ k = IF i.dir = "nxt" THEN m0 + 1 ELSE 0
      BY <2>2, <2>4
    <3>2. /\ k <= p => k = EndOf(u, i)
          /\ k > p => k + 1 = EndOf(u, i)
      BY <2>1, <3>1 DEF EndOf
    <3>. QED  BY <1>3, <2>2, <2>4, <2>u, <3>1, <3>2 DEF Place
  <2>. QED  BY <2>3, <2>4
<1>. QED  BY <1>2, <1>3

LEMMA PutInStep ==
    ASSUME NEW S, Holds(mem, S), view = View(mem, it), view' = View(mem', it'),
           NEW c \in Lists, NEW n \in FreeFor(mem, c), NEW v \in Values,
           NEW p \in 0..Len(S[c]), NEW r, r = mem',
           NEW T, Replaced(S, T, c, Inserted(S[c], p, n)), Inserts(mem, S, r, T, n, v)
    PROVE  Promise!PutIn(c, p + 1, v)
<1>C. PICK C : C = view.content
  OBVIOUS
<1>D. PICK D : D = view'.content
  OBVIOUS
<1>k. PICK k \in Nat : k = Len(S[c])
  BY HoldsFacts
<1>v. PICK vs : vs = ValuesIn(mem, c)
  OBVIOUS
<1>x. PICK x : x = ValuesIn(r, c)
  OBVIOUS
<1>1. Holds(r, T)
  BY DEF Inserts
<1>2. ContentIs(C, mem, S)
  BY <1>C, ViewIs
<1>3. ContentIs(D, r, T)
  <2>i. PICK i : i = it'
    OBVIOUS
  <2>w. PICK w : w = View(r, i)
    OBVIOUS
  <2>1. view' = w
    BY <2>i, <2>w
  <2>2. ContentIs(w.content, r, T)
    BY <1>1, <2>w, ViewIs
  <2>. QED  BY <1>D, <2>1, <2>2
<1>4. p \in 0..k /\ x = InsertAt(vs, p + 1, v)
  <2>1. WithValue(x, vs, p, v, k)
    BY <1>k, <1>v, <1>x, InsertedValues
  <2>. QED  BY <1>k, <2>1, InsertAtIs
<1>5. vs = C[c] /\ x = ValuesOf(r, T[c])
  <2>1. vs = ValuesOf(mem, S[c])
    BY <1>k, <1>v, ValuesOfList
  <2>l. PICK l : l = Len(T[c])
    OBVIOUS
  <2>2. x = ValuesOf(r, T[c])
    BY <1>1, <1>x, <2>l, ValuesOfList
  <2>. QED  BY <1>2, <2>1, <2>2 DEF ContentIs
<1>6. Others(mem, S, r, T, {c})
  <2>1. \A y \in Lists \ {c} : T[y] = S[y]
    BY DEF Replaced
  <2>2. ASSUME NEW y \in Lists \ {c}
        PROVE  ValuesOf(r, S[y]) = ValuesOf(mem, S[y])
    <3>1. \A e \in In(S[y]) : e \in Nodes
      BY HoldsFacts
    <3>2. n \notin In(S[y])
      BY FreeNode
    <3>3. \A e \in In(S[y]) : r.val[e] = mem.val[e]
      BY <3>1, <3>2 DEF Inserts
    <3>. QED  BY <3>3, SameValues
  <2>. QED  BY <2>1, <2>2 DEF Others
<1>7. D = [C EXCEPT ![c] = x]
  BY <1>2, <1>3, <1>5, <1>6, ContentUpdated
<1>8. D = [C EXCEPT ![c] = InsertAt(C[c], p + 1, v)]
  BY <1>4, <1>5, <1>7
<1>9. \A s, i, e : Promise!InsertAt(s, i, e) = InsertAt(s, i, e)
  BY DEF Promise!InsertAt, InsertAt
<1>. QED  BY <1>8, <1>9, <1>C, <1>D DEF Promise!PutIn

(* The place of the iterator after a call. *)
LEMMA NextPlace ==
    ASSUME NEW T, NEW r, r = mem', Holds(r, T), view' = View(mem', it')
    PROVE  /\ it' = NoIterator => view'.at = NoIterator
           /\ \A c, k : Place(it', T, c, k)
                  => view'.at = [list |-> c, index |-> k, dir |-> Facing(it')]
           /\ ContentIs(view'.content, r, T)
<1>i. PICK i : i = it'
  OBVIOUS
<1>w. PICK w : w = View(r, i)
  OBVIOUS
<1>1. view' = w
  BY <1>i, <1>w
<1>2. AtIs(w.at, i, T) /\ ContentIs(w.content, r, T)
  BY <1>w, ViewIs
<1>. QED  BY <1>i, <1>1, <1>2 DEF AtIs

LEMMA ThisPlace ==
    ASSUME NEW S, Holds(mem, S), view = View(mem, it), IterOk(it, S)
    PROVE  /\ it = NoIterator => view.at = NoIterator
           /\ it # NoIterator =>
                 \E c, k : /\ Place(it, S, c, k)
                           /\ view.at = [list |-> c, index |-> k, dir |-> Facing(it)]
                           /\ view.at # NoIterator /\ c \in Lists /\ k \in Nat
                           /\ HomeOf(it) = c
<1>w. PICK w : w = View(mem, it)
  OBVIOUS
<1>1. AtIs(w.at, it, S)
  BY <1>w, ViewIs
<1>2. it = NoIterator => view.at = NoIterator
  BY <1>w, <1>1 DEF AtIs
<1>3. ASSUME it # NoIterator
      PROVE  \E c, k : /\ Place(it, S, c, k)
                       /\ view.at = [list |-> c, index |-> k, dir |-> Facing(it)]
                       /\ view.at # NoIterator /\ c \in Lists /\ k \in Nat
                       /\ HomeOf(it) = c
  <2>1. PICK c, k : Place(it, S, c, k)
    BY <1>3, PlaceExists
  <2>2. view.at = [list |-> c, index |-> k, dir |-> Facing(it)]
    BY <1>w, <1>1, <2>1 DEF AtIs
  <2>3. c \in Lists /\ k \in Nat /\ HomeOf(it) = c
    BY <2>1, PlaceIsOk DEF HomeOf
  <2>4. view.at \in Places
    BY <2>2, <2>3 DEF Places, Facing
  <2>5. view.at # NoIterator
    BY <2>4, IteratorAssumption
  <2>. QED  BY <2>1, <2>2, <2>3, <2>5
<1>. QED  BY <1>2, <1>3

LEMMA InsertedStep ==
    ASSUME NEW S, Holds(mem, S), IterOk(it, S), view = View(mem, it), view' = View(mem', it'),
           NEW c \in Lists, NEW n \in FreeFor(mem, c), NEW v \in Values,
           NEW p \in 0..Len(S[c]), NEW r, r = mem', it' = it,
           NEW T, Replaced(S, T, c, Inserted(S[c], p, n)), Inserts(mem, S, r, T, n, v)
    PROVE  Promise!Insert(c, p + 1, v)
<1>1. Promise!PutIn(c, p + 1, v)
  BY PutInStep
<1>2. /\ S[c] \in Seq(Nodes) /\ Len(S[c]) \in Nat /\ n \in Nodes
      /\ \A e \in Lists \ {c} : T[e] = S[e]
  BY HoldsFacts, FreeNode DEF Replaced
<1>3. IsInserted(S[c], p, n, T[c])
  BY <1>2, InsertedFacts DEF Replaced
<1>h. Holds(r, T)
  BY DEF Inserts
<1>p. p \in Nat
  OBVIOUS
<1>4. view'.at = IF Promise!InList(c) /\ view.at.index >= p + 1
                 THEN [view.at EXCEPT !.index = @ + 1] ELSE view.at
  <2>1. CASE it = NoIterator
    BY <2>1, <1>h, ThisPlace, NextPlace DEF Promise!InList
  <2>2. CASE it # NoIterator
    <3>1. PICK a, k : /\ Place(it, S, a, k)
                      /\ view.at = [list |-> a, index |-> k, dir |-> Facing(it)]
                      /\ view.at # NoIterator /\ k \in Nat
      BY <2>2, ThisPlace
    <3>2. /\ a # c => Place(it, T, a, k)
          /\ a = c /\ k <= p => Place(it, T, a, k)
          /\ a = c /\ k > p => Place(it, T, a, k + 1)
      BY <1>2, <1>3, <3>1, PlaceShifts
    <3>3. \A b, l : Place(it, T, b, l)
               => view'.at = [list |-> b, index |-> l, dir |-> Facing(it)]
      BY <1>h, NextPlace
    <3>4. k > p <=> k >= p + 1
      BY <1>p, <3>1
    <3>5. Promise!InList(c) <=> a = c
      BY <3>1 DEF Promise!InList
    <3>6. CASE a = c /\ k > p
      BY <3>1, <3>2, <3>3, <3>4, <3>5, <3>6
    <3>7. CASE ~(a = c /\ k > p)
      <4>1. Place(it, T, a, k)
        BY <1>p, <3>1, <3>2, <3>7
      <4>2. view'.at = view.at
        BY <3>1, <3>3, <4>1
      <4>. QED  BY <3>1, <3>4, <3>5, <3>7, <4>2
    <3>. QED  BY <3>6, <3>7
  <2>. QED  BY <2>1, <2>2
<1>. QED  BY <1>1, <1>4 DEF Promise!Insert

LEMMA PushFrontStep ==
    ASSUME NEW S, Holds(mem, S), IterOk(it, S), view = View(mem, it), view' = View(mem', it'),
           NEW c \in Lists, NEW v \in Values, NEW n \in FreeFor(mem, c), PushFrontOf(c, v, n)
    PROVE  Promise!PushFront(c, v)
<1>r. PICK r : r = mem'
  OBVIOUS
<1>t. PICK t : t = WithNode(mem, n, v)
  OBVIOUS
<1>1. r = AfterStores(t, PushFront(t, c, n)) /\ it' = it
  BY <1>r, <1>t DEF PushFrontOf
<1>2. 0 \in 0..Len(S[c])
  BY HoldsFacts
<1>3. PICK T : Replaced(S, T, c, Inserted(S[c], 0, n))
  BY <1>2, InsertedExists
<1>4. Inserts(mem, S, r, T, n, v)
  BY <1>1, <1>3, <1>t, PushFrontHolds
<1>5. Promise!Insert(c, 0 + 1, v)
  BY <1>1, <1>2, <1>3, <1>4, <1>r, InsertedStep
<1>6. Promise!Insert(c, 1, v)
  <2>1. 0 + 1 = 1
    OBVIOUS
  <2>. QED  BY <1>5, <2>1
<1>. QED  BY <1>6 DEF Promise!PushFront

LEMMA LongerByOne ==
    ASSUME NEW s \in Seq(Nodes), NEW n, NEW ns, ns[1] = n
    PROVE  Longer(s, ns, 1) = Inserted(s, Len(s), n)
<1>m. PICK m \in Nat : m = Len(s)
  OBVIOUS
<1>1. \A i \in 1..(m + 1) :
          (IF i <= m THEN s[i] ELSE ns[i - m])
            = IF i <= m THEN s[i] ELSE IF i = m + 1 THEN n ELSE s[i - 1]
  <2>. SUFFICES ASSUME NEW i \in 1..(m + 1), ~(i <= m) PROVE i = m + 1 /\ i - m = 1
    OBVIOUS
  <2>. QED  OBVIOUS
<1>2. Longer(s, ns, 1) = [i \in 1..(m + 1) |-> IF i <= m THEN s[i] ELSE ns[i - m]]
  BY <1>m DEF Longer
<1>3. Inserted(s, Len(s), n)
        = [i \in 1..(m + 1) |-> IF i <= m THEN s[i] ELSE IF i = m + 1 THEN n ELSE s[i - 1]]
  BY <1>m DEF Inserted
<1>. QED  BY <1>1, <1>2, <1>3

LEMMA PushBackStep ==
    ASSUME NEW S, Holds(mem, S), IterOk(it, S), view = View(mem, it), view' = View(mem', it'),
           NEW c \in Lists, NEW v \in Values, NEW n \in FreeFor(mem, c), PushBackOf(c, v, n)
    PROVE  Promise!PushBack(c, v)
<1>r. PICK r : r = mem'
  OBVIOUS
<1>n. PICK ns : ns = <<n>>
  OBVIOUS
<1>v. PICK vs : vs = <<v>>
  OBVIOUS
<1>1. r = Appended(mem, c, ns, vs) /\ it' = it
  BY <1>r, <1>n, <1>v DEF PushBackOf
<1>2. ns \in Allocations(mem, c, 1)
  <2>1. ns \in [1..1 -> FreeFor(mem, c)]
    BY <1>n
  <2>2. IsInjective(ns)
    BY <1>n DEF IsInjective
  <2>. QED  BY <2>1, <2>2 DEF Allocations
<1>3. 1 \in Nat /\ Len(vs) = 1 /\ vs[1] = v /\ ns[1] = n /\ \A i \in 1..1 : vs[i] \in Values
  BY <1>n, <1>v
<1>4. PICK T : /\ Replaced(S, T, c, Longer(S[c], ns, 1))
               /\ Appends(mem, S, r, T, Firsts(ns, 1))
               /\ \A i \in 1..1 : r.val[ns[i]] = vs[i]
  <2>K. PICK K \in Nat : K = 1
    OBVIOUS
  <2>1. Len(vs) = K /\ ns \in Allocations(mem, c, K) /\ \A i \in 1..K : vs[i] \in Values
    BY <1>2, <1>3, <2>K
  <2>2. PICK T : /\ Replaced(S, T, c, Longer(S[c], ns, K))
                 /\ Appends(mem, S, r, T, Firsts(ns, K))
                 /\ \A i \in 1..K : r.val[ns[i]] = vs[i]
    BY <1>1, <2>1, AppendedHolds
  <2>. QED  BY <2>K, <2>2
<1>5. Firsts(ns, 1) = {n}
  BY <1>3 DEF Firsts
<1>6. Inserts(mem, S, r, T, n, v)
  BY <1>3, <1>4, <1>5 DEF Appends, Inserts
<1>7. Replaced(S, T, c, Inserted(S[c], Len(S[c]), n)) /\ Len(S[c]) \in 0..Len(S[c])
  <2>1. S[c] \in Seq(Nodes) /\ Len(S[c]) \in Nat
    BY HoldsFacts
  <2>2. Longer(S[c], ns, 1) = Inserted(S[c], Len(S[c]), n)
    BY <1>3, <2>1, LongerByOne
  <2>. QED  BY <1>4, <2>1, <2>2
<1>8. Promise!Insert(c, Len(S[c]) + 1, v)
  BY <1>1, <1>6, <1>7, <1>r, InsertedStep
<1>9. Len(view.content[c]) = Len(S[c])
  <2>1. ContentIs(view.content, mem, S)
    BY ViewIs
  <2>2. view.content[c] = ValuesOf(mem, S[c]) /\ Len(S[c]) \in Nat
    BY <2>1, HoldsFacts DEF ContentIs
  <2>. QED  BY <2>2 DEF ValuesOf
<1>. QED  BY <1>8, <1>9 DEF Promise!PushBack

LEMMA InsertStep ==
    ASSUME NEW S, Holds(mem, S), IterOk(it, S), view = View(mem, it), view' = View(mem', it'),
           Position, NEW v \in Values, NEW n \in FreeFor(mem, HomeOf(it)), Insert(v, n)
    PROVE  Promise!InsertHere(v)
<1>r. PICK r : r = mem'
  OBVIOUS
<1>t. PICK t : t = WithNode(mem, n, v)
  OBVIOUS
<1>1. it # NoIterator /\ it.dir = "nxt"
  BY DEF Position
<1>2. PICK c, k : /\ Place(it, S, c, k)
                  /\ view.at = [list |-> c, index |-> k, dir |-> Facing(it)]
                  /\ view.at # NoIterator /\ c \in Lists /\ k \in Nat
                  /\ HomeOf(it) = c
  BY <1>1, ThisPlace
<1>3. /\ r = AfterStores(t, InsertBefore(t, c, it.node, n))
      /\ it' \in {it, [it EXCEPT !.owner = c, !.node = n]}
      /\ n \in FreeFor(mem, c)
  BY <1>2, <1>r, <1>t DEF Insert
<1>m. PICK m \in Nat : m = Len(S[c])
  BY <1>2, HoldsFacts
<1>p. PICK p \in 0..Len(S[c]) : p + 1 = k /\ it.node = El(S[c], p + 1)
  <2>1. k \in 1..(m + 1) /\ it.node = El(S[c], k)
    BY <1>1, <1>2, <1>m DEF Place, EndOf, El
  <2>2. k - 1 \in 0..Len(S[c]) /\ (k - 1) + 1 = k
    BY <1>m, <2>1
  <2>. QED  BY <2>1, <2>2
<1>e. PICK e : e = it.node
  OBVIOUS
<1>T. PICK T : Replaced(S, T, c, Inserted(S[c], p, n))
  BY <1>2, <1>3, InsertedExists
<1>4. Inserts(mem, S, r, T, n, v)
  BY <1>2, <1>3, <1>t, <1>p, <1>e, <1>T, InsertedHere
<1>5. Promise!Usable
  BY <1>1, <1>2 DEF Promise!Usable, Facing
<1>6. CASE it' = it
  <2>1. Promise!Insert(c, p + 1, v)
    BY <1>2, <1>3, <1>4, <1>6, <1>T, <1>r, InsertedStep
  <2>. QED  BY <1>2, <1>5, <1>p, <2>1 DEF Promise!InsertHere
<1>7. CASE it' = [it EXCEPT !.owner = c, !.node = n]
  <2>1. Promise!PutIn(c, p + 1, v)
    BY <1>2, <1>3, <1>4, <1>T, <1>r, PutInStep
  <2>2. Place(it', T, c, k)
    <3>1. S[c] \in Seq(Nodes) /\ n \in Nodes /\ n # Null
      BY <1>2, <1>3, FreeNode, HoldsFacts, NullFacts
    <3>2. IsInserted(S[c], p, n, T[c])
      BY <1>T, <3>1, InsertedFacts DEF Replaced
    <3>3. k \in 1..Len(T[c]) /\ T[c][k] = n
      <4>1. Len(T[c]) = m + 1 /\ k \in 1..(m + 1)
        BY <1>m, <1>p, <3>2 DEF IsInserted
      <4>2. ~(k <= p)
        BY <1>p
      <4>. QED  BY <1>m, <1>p, <3>2, <4>1, <4>2 DEF IsInserted
    <3>4. it \in Iterators
      BY <1>2 DEF Place
    <3>5. it' \in Iterators /\ it'.node = n
      BY <1>2, <1>7, <3>1, <3>4 DEF Iterators
    <3>. QED  BY <1>2, <3>1, <3>3, <3>5 DEF Place
  <2>3. Facing(it') = Facing(it)
    <3>1. it \in Iterators
      BY <1>2 DEF Place
    <3>2. it'.dir = it.dir
      BY <1>7, <3>1 DEF Iterators
    <3>. QED  BY <3>2 DEF Facing
  <2>4. view'.at = [list |-> c, index |-> k, dir |-> Facing(it')]
    <3>1. Holds(r, T)
      BY <1>4 DEF Inserts
    <3>. QED  BY <1>r, <2>2, <3>1, NextPlace
  <2>5. view'.at = view.at
    BY <1>2, <2>3, <2>4
  <2>. QED  BY <1>2, <1>5, <1>p, <2>1, <2>5 DEF Promise!InsertHere
<1>. QED  BY <1>3, <1>6, <1>7

(* What stood behind the nodes that went moves down. *)
Drops(q, s, T, c, i, j, a, k) ==
    /\ a # c => Place(q, T, a, k) /\ q.node \notin Span(s, i, j)
    /\ a = c /\ k < i => Place(q, T, a, k) /\ q.node \notin Span(s, i, j)
    /\ a = c /\ k >= j => Place(q, T, a, k - (j - i)) /\ q.node \notin Span(s, i, j)
    /\ a = c /\ k \in i..(j - 1) => q.node \in Span(s, i, j)

LEMMA PlaceDrops ==
    ASSUME NEW S, NEW T, Apart(S), NEW c \in Lists, NEW s \in Seq(Nodes), s = S[c], Len(s) \in Nat,
           \A x, y \in 1..Len(s) : s[x] = s[y] => x = y,
           NEW j \in 1..(Len(s) + 1), NEW i \in 1..j,
           IsCut(s, i, j, T[c]), \A e \in Lists \ {c} : T[e] = S[e],
           NEW q, NEW a, NEW k, Place(q, S, a, k)
    PROVE  Drops(q, s, T, c, i, j, a, k)
<1>m. PICK m \in Nat : m = Len(s)
  OBVIOUS
<1>d. PICK d \in Nat : d = j - i /\ j = i + d /\ m - d \in Nat /\ i <= m + 1 /\ j <= m + 1
  BY <1>m
<1>0. i \in Nat /\ i >= 1 /\ j \in Nat
  OBVIOUS
<1>1. q \in Iterators /\ a \in Lists
  BY DEF Place
<1>2. ASSUME NEW e \in i..(j - 1)
      PROVE  e \in 1..Len(s) /\ s[e] \in Nodes
  <2>1. e \in 1..m
    BY ONLY <1>0, <1>2, <1>d
  <2>2. s \in Seq(Nodes) /\ e \in 1..Len(s)
    BY <1>m, <2>1
  <2>. QED  BY ONLY <2>2
<1>3. Null \notin Span(s, i, j)
  BY <1>2, NullFacts DEF Span
<1>4. CASE a # c
  <2>1. Place(q, T, a, k)
    BY <1>1, <1>4 DEF Place, EndOf
  <2>2. q.node \notin Span(s, i, j)
    <3>1. CASE q.node = Null
      BY <1>3, <3>1
    <3>2. CASE q.node # Null
      <4>1. q.node \in In(S[a])
        BY <3>2 DEF Place, In
      <4>2. Span(s, i, j) \subseteq In(S[c])
        BY <1>2 DEF Span, In
      <4>. QED  BY <1>1, <1>4, <4>1, <4>2 DEF Apart
    <3>. QED  BY <3>1, <3>2
  <2>. QED  BY <1>4, <2>1, <2>2 DEF Drops
<1>5. CASE a = c
  <2>u. PICK u : u = T[c]
    OBVIOUS
  <2>1. /\ Len(u) = m - d
        /\ \A e \in 1..(m - d) : u[e] = IF e < i THEN s[e] ELSE s[e + d]
    BY <1>d, <1>m, <2>u DEF IsCut
  <2>2. CASE q.node # Null
    <3>1. k \in 1..m /\ s[k] = q.node
      BY <1>5, <1>m, <2>2 DEF Place
    <3>2. k \in i..(j - 1) => q.node \in Span(s, i, j)
      BY <3>1 DEF Span
    <3>3. k \notin i..(j - 1) => q.node \notin Span(s, i, j)
      <4>. SUFFICES ASSUME NEW e \in i..(j - 1), s[e] = q.node PROVE e = k
        BY DEF Span
      <4>. QED  BY <1>2, <1>m, <3>1
    <3>4. CASE k < i
      <4>1. k \in 1..Len(u) /\ u[k] = q.node
        BY <1>0, <1>d, <2>1, <3>1, <3>4, SMTT(40)
      <4>2. Place(q, T, a, k)
        BY <1>1, <1>5, <2>2, <2>u, <4>1 DEF Place
      <4>. QED  BY <1>0, <1>5, <3>1, <3>3, <3>4, <4>2 DEF Drops
    <3>5. CASE k >= j
      <4>l. PICK l \in Nat : l = k - d /\ k = l + d /\ l >= i /\ l \in 1..(m - d)
        BY <1>0, <1>d, <3>1, <3>5
      <4>1. l \in 1..Len(u) /\ u[l] = q.node
        BY <1>0, <2>1, <3>1, <4>l
      <4>2. Place(q, T, a, l)
        BY <1>1, <1>5, <2>2, <2>u, <4>1 DEF Place
      <4>3. k - (j - i) = l
        BY <1>d, <4>l
      <4>. QED  BY <1>0, <1>5, <3>1, <3>3, <3>5, <4>2, <4>3, SMTT(40) DEF Drops
    <3>6. CASE k \in i..(j - 1)
      BY <1>0, <1>5, <3>1, <3>2, <3>6 DEF Drops
    <3>. QED  BY <1>0, <3>1, <3>4, <3>5, <3>6
  <2>3. CASE q.node = Null
    <3>1. c = q.owner /\ k = IF q.dir = "nxt" THEN m + 1 ELSE 0
      BY <1>5, <1>m, <2>3 DEF Place, EndOf
    <3>2. CASE q.dir = "nxt"
      <4>1. k = m + 1 /\ k - (j - i) = (m - d) + 1
        BY <1>d, <3>1, <3>2
      <4>2. Place(q, T, a, k - (j - i))
        BY <1>1, <1>5, <2>1, <2>3, <2>u, <3>1, <3>2, <4>1 DEF Place, EndOf
      <4>. QED  BY <1>0, <1>3, <1>5, <1>d, <2>3, <4>1, <4>2 DEF Drops
    <3>3. CASE q.dir # "nxt"
      <4>1. k = 0
        BY <3>1, <3>3
      <4>2. Place(q, T, a, k)
        BY <1>1, <1>5, <2>3, <2>u, <3>1, <3>3, <4>1 DEF Place, EndOf
      <4>. QED  BY <1>0, <1>3, <1>5, <2>3, <4>1, <4>2 DEF Drops
    <3>. QED  BY <3>2, <3>3
  <2>. QED  BY <2>2, <2>3
<1>. QED  BY <1>4, <1>5

LEMMA TakeOutStep ==
    ASSUME NEW S, Holds(mem, S), view = View(mem, it), view' = View(mem', it'),
           NEW c \in Lists, NEW j \in 1..(Len(S[c]) + 1), NEW i \in 1..j,
           NEW r, r = mem', NEW T, IsErased(mem, S, r, T, c, i, j)
    PROVE  Promise!TakeOut(c, i, j) /\ IsCut(S[c], i, j, T[c])
<1>s. PICK s : s = S[c]
  OBVIOUS
<1>u. PICK u : u = T[c]
  OBVIOUS
<1>C. PICK C : C = view.content
  OBVIOUS
<1>D. PICK D : D = view'.content
  OBVIOUS
<1>1. /\ s \in Seq(Nodes) /\ Len(s) \in Nat
      /\ \A a, b \in 1..Len(s) : s[a] = s[b] => a = b
  BY <1>s, HoldsFacts, ChainIsSeq
<1>k. PICK k \in Nat : k = Len(s)
  BY <1>1
<1>2. /\ T[c] = Cut(s, i, j) /\ \A e \in Lists \ {c} : T[e] = S[e]
      /\ Holds(r, T)
      /\ \A e \in Nodes : r.val[e] = IF e \in Span(s, i, j) THEN Undefined ELSE mem.val[e]
  BY <1>s DEF IsErased, Replaced, Removes
<1>3. IsCut(s, i, j, u)
  <2>1. j \in 1..(Len(s) + 1)
    BY <1>s
  <2>. QED  BY <1>1, <1>2, <1>u, <2>1, CutFacts
<1>4. ContentIs(C, mem, S) /\ ContentIs(D, r, T)
  BY <1>2, <1>C, <1>D, ViewIs, NextPlace
<1>5. Others(mem, S, r, T, {c})
  <2>1. ASSUME NEW y \in Lists \ {c}
        PROVE  ValuesOf(r, S[y]) = ValuesOf(mem, S[y])
    <3>1. \A e \in In(S[y]) : e \in Nodes
      BY HoldsFacts
    <3>2. Span(s, i, j) \subseteq In(s)
      BY <1>3 DEF IsCut
    <3>3. In(s) \cap In(S[y]) = {}
      BY <1>s, UsedSplit
    <3>4. \A e \in In(S[y]) : r.val[e] = mem.val[e]
      BY <1>2, <3>1, <3>2, <3>3
    <3>. QED  BY <3>4, SameValues
  <2>. QED  BY <1>2, <2>1 DEF Others
<1>x. PICK x : x = ValuesOf(r, u)
  OBVIOUS
<1>v. PICK vs : vs = ValuesOf(mem, s)
  OBVIOUS
<1>6. D = [C EXCEPT ![c] = x]
  BY <1>4, <1>5, <1>u, <1>x, ContentUpdated
<1>7. C[c] = vs
  BY <1>4, <1>s, <1>v DEF ContentIs
<1>8. /\ vs \in Seq(Values) /\ Len(vs) = k
      /\ \A e \in 1..k : vs[e] = mem.val[s[e]]
  <2>1. /\ ValuesIn(mem, c) = vs /\ Len(vs) = k
        /\ \A e \in 1..k : vs[e] = mem.val[s[e]] /\ vs[e] \in Values
    BY <1>k, <1>s, <1>v, ValuesOfList
  <2>2. vs = [e \in 1..k |-> mem.val[s[e]]]
    BY <1>k, <1>v DEF ValuesOf
  <2>. QED  BY <2>1, <2>2
<1>l. PICK l : l = Len(u)
  OBVIOUS
<1>9. /\ x \in Seq(Values) /\ Len(x) = l /\ l \in Nat
      /\ \A e \in 1..l : x[e] = r.val[u[e]]
  <2>1. /\ ValuesIn(r, c) = x /\ Len(x) = l /\ l \in Nat
        /\ \A e \in 1..l : x[e] = r.val[u[e]] /\ x[e] \in Values
    BY <1>2, <1>l, <1>u, <1>x, ValuesOfList
  <2>2. x = [e \in 1..l |-> r.val[u[e]]]
    BY <1>l, <1>x DEF ValuesOf
  <2>. QED  BY <2>1, <2>2
<1>10. WithoutValues(x, vs, i, j, k)
  <2>1. /\ l = k - (j - i) /\ u \in Seq(Nodes)
        /\ \A e \in 1..l : u[e] = IF e < i THEN s[e] ELSE s[e + (j - i)]
        /\ In(u) \cap Span(s, i, j) = {}
    BY <1>3, <1>k, <1>l DEF IsCut
  <2>2. \A e \in 1..l : u[e] \in Nodes /\ u[e] \in In(u)
    <3>1. u \in Seq(Nodes) /\ l = Len(u)
      BY <1>l, <2>1
    <3>2. \A e \in 1..l : u[e] \in Nodes
      BY ONLY <3>1
    <3>. QED  BY <3>1, <3>2 DEF In
  <2>3. \A e \in 1..l : x[e] = mem.val[u[e]]
    BY <1>2, <1>9, <2>1, <2>2
  <2>4. ASSUME NEW e \in 1..l
        PROVE  x[e] = IF e < i THEN vs[e] ELSE vs[e + (j - i)]
    <3>d. PICK d \in Nat : d = j - i /\ i + d <= k + 1 /\ i \in Nat
      BY <1>k, <1>s
    <3>1. CASE e < i
      <4>1. e \in 1..k
        BY <1>9, <2>1, <3>1, <3>d
      <4>2. u[e] = s[e]
        BY <2>1, <3>1
      <4>3. x[e] = mem.val[u[e]] /\ vs[e] = mem.val[s[e]]
        BY <1>8, <2>3, <4>1
      <4>. QED  BY <3>1, <4>2, <4>3
    <3>2. CASE ~(e < i)
      <4>1. e + d \in 1..k
        <5>1. l = k - d
          BY <2>1, <3>d
        <5>. QED  BY ONLY <1>k, <1>9, <2>4, <3>2, <3>d, <5>1
      <4>2. u[e] = s[e + d]
        BY <2>1, <3>2, <3>d
      <4>3. x[e] = mem.val[u[e]] /\ vs[e + d] = mem.val[s[e + d]]
        BY <1>8, <2>3, <4>1
      <4>. QED  BY <3>2, <3>d, <4>2, <4>3
    <3>. QED  BY <3>1, <3>2
  <2>. QED  BY <1>8, <1>9, <2>1, <2>4 DEF WithoutValues
<1>11. x = SubSeq(vs, 1, i - 1) \o SubSeq(vs, j, Len(vs))
  <2>1. j \in 1..(k + 1)
    BY <1>k, <1>s
  <2>. QED  BY <1>10, <2>1, TakenOut
<1>12. D = [C EXCEPT ![c] = SubSeq(C[c], 1, i - 1) \o SubSeq(C[c], j, Len(C[c]))]
  BY <1>6, <1>7, <1>11
<1>13. Promise!TakeOut(c, i, j)
  BY <1>12, <1>C, <1>D DEF Promise!TakeOut
<1>. QED  BY <1>3, <1>13, <1>s, <1>u

LEMMA DropStep ==
    ASSUME NEW S, Holds(mem, S), IterOk(it, S), view = View(mem, it), view' = View(mem', it'),
           NEW c \in Lists, NEW j \in 1..(Len(S[c]) + 1), NEW i \in 1..j,
           NEW r, r = mem', NEW T, IsErased(mem, S, r, T, c, i, j),
           DropIterator(Span(S[c], i, j))
    PROVE  Promise!Drop(c, i, j)
<1>s. PICK s : s = S[c]
  OBVIOUS
<1>1. Promise!TakeOut(c, i, j) /\ IsCut(s, i, j, T[c])
  BY <1>s, TakeOutStep
<1>2. /\ s \in Seq(Nodes) /\ Len(s) \in Nat /\ Apart(S)
      /\ \A a, b \in 1..Len(s) : s[a] = s[b] => a = b
  BY <1>s, HoldsFacts, ChainIsSeq DEF Holds
<1>3. Holds(r, T) /\ \A e \in Lists \ {c} : T[e] = S[e]
  BY DEF IsErased, Removes, Replaced
<1>0. i \in Nat /\ j \in Nat /\ i >= 1 /\ i <= j /\ j \in 1..(Len(s) + 1)
  BY <1>2, <1>s
<1>4. it' = IF it # NoIterator /\ it.node \in Span(s, i, j) THEN NoIterator ELSE it
  BY <1>s DEF DropIterator
<1>A. PICK A : A = view.at
  OBVIOUS
<1>B. PICK B : B = view'.at
  OBVIOUS
<1>5. B = CASE ~(A # NoIterator /\ A.list = c) \/ A.index < i -> A
            [] (A # NoIterator /\ A.list = c) /\ A.index \in i..(j - 1) -> NoIterator
            [] OTHER -> [A EXCEPT !.index = @ - (j - i)]
  <2>1. CASE it = NoIterator
    BY <1>3, <1>4, <1>A, <1>B, <2>1, ThisPlace, NextPlace
  <2>2. CASE it # NoIterator
    <3>1. PICK a, k : /\ Place(it, S, a, k)
                      /\ A = [list |-> a, index |-> k, dir |-> Facing(it)]
                      /\ A # NoIterator /\ k \in Nat
      BY <1>A, <2>2, ThisPlace
    <3>2. /\ a # c => Place(it, T, a, k) /\ it.node \notin Span(s, i, j)
          /\ a = c /\ k < i => Place(it, T, a, k) /\ it.node \notin Span(s, i, j)
          /\ a = c /\ k >= j => Place(it, T, a, k - (j - i)) /\ it.node \notin Span(s, i, j)
          /\ a = c /\ k \in i..(j - 1) => it.node \in Span(s, i, j)
      <4>q. PICK q : q = it
        OBVIOUS
      <4>1. Place(q, S, a, k) /\ IsCut(s, i, j, T[c]) /\ i \in 1..j
        BY <1>1, <3>1, <4>q
      <4>2. Drops(q, s, T, c, i, j, a, k)
        BY <1>0, <1>2, <1>3, <1>s, <4>1, PlaceDrops
      <4>. QED  BY <4>q, <4>2 DEF Drops
    <3>3. \A b, l : it' = it /\ Place(it, T, b, l)
               => B = [list |-> b, index |-> l, dir |-> Facing(it)]
      BY <1>3, <1>B, NextPlace
    <3>4. CASE a # c \/ k < i
      <4>1. Place(it, T, a, k) /\ it' = it
        BY <1>4, <3>2, <3>4
      <4>2. B = A
        BY <3>1, <3>3, <4>1
      <4>3. CASE a # c
        BY <3>1, <4>2, <4>3
      <4>4. CASE k < i
        BY <1>0, <3>1, <4>2, <4>4
      <4>. QED  BY <3>4, <4>3, <4>4
    <3>5. CASE a = c /\ ~(k < i) /\ k \in i..(j - 1)
      <4>1. it' = NoIterator
        BY <1>4, <2>2, <3>2, <3>5
      <4>2. B = NoIterator
        BY <1>3, <1>B, <4>1, NextPlace
      <4>. QED  BY <3>1, <3>5, <4>2
    <3>6. CASE a = c /\ ~(k < i) /\ k \notin i..(j - 1)
      <4>1. k >= j
        BY <1>0, <3>1, <3>6
      <4>2. Place(it, T, a, k - (j - i)) /\ it' = it
        BY <1>4, <3>2, <3>6, <4>1
      <4>3. B = [list |-> a, index |-> k - (j - i), dir |-> Facing(it)]
        BY <3>3, <4>2
      <4>. QED  BY <3>1, <3>6, <4>3
    <3>. QED  BY <3>4, <3>5, <3>6
  <2>. QED  BY <2>1, <2>2
<1>. QED  BY <1>1, <1>5, <1>A, <1>B DEF Promise!Drop, Promise!InList

(* The length of a list, as its values. *)
LEMMA LengthOf ==
    ASSUME NEW S, Holds(mem, S), view = View(mem, it), NEW c \in Lists
    PROVE  Len(view.content[c]) = Len(S[c]) /\ Len(S[c]) \in Nat
           /\ (view.content[c] = <<>> <=> Len(S[c]) = 0)
<1>1. ContentIs(view.content, mem, S)
  BY ViewIs
<1>2. view.content[c] = ValuesOf(mem, S[c]) /\ Len(S[c]) \in Nat
  BY <1>1, HoldsFacts DEF ContentIs
<1>3. Len(view.content[c]) = Len(S[c])
  BY <1>2 DEF ValuesOf
<1>4. view.content[c] = <<>> => Len(S[c]) = 0
  BY <1>3
<1>5. Len(S[c]) = 0 => view.content[c] = <<>>
  BY <1>2 DEF ValuesOf
<1>. QED  BY <1>2, <1>3, <1>4, <1>5

LEMMA PopFrontStep ==
    ASSUME NEW S, Holds(mem, S), IterOk(it, S), view = View(mem, it), view' = View(mem', it'),
           NEW c \in Lists, PopFront(c)
    PROVE  Promise!PopFront(c)
<1>s. PICK s : s = S[c]
  OBVIOUS
<1>r. PICK r : r = mem'
  OBVIOUS
<1>1. /\ 1 \in 1..Len(s) /\ 2 \in 1..(Len(s) + 1) /\ 1 \in 1..2
      /\ r = Erased(mem, c, s[1], El(s, 2)) /\ DropIterator(Span(s, 1, 2))
  BY <1>s, <1>r, PopFrontErases
<1>2. PICK T : IsErased(mem, S, r, T, c, 1, 2)
  BY <1>1, <1>s, RangeErased
<1>3. Promise!Drop(c, 1, 2)
  BY <1>1, <1>2, <1>r, <1>s, DropStep
<1>4. view.content[c] # <<>>
  BY <1>1, <1>s, LengthOf
<1>. QED  BY <1>3, <1>4 DEF Promise!PopFront

LEMMA PopBackStep ==
    ASSUME NEW S, Holds(mem, S), IterOk(it, S), view = View(mem, it), view' = View(mem', it'),
           NEW c \in Lists, PopBack(c)
    PROVE  Promise!PopBack(c)
<1>s. PICK s : s = S[c]
  OBVIOUS
<1>n. PICK n : n = Len(s)
  OBVIOUS
<1>r. PICK r : r = mem'
  OBVIOUS
<1>1. /\ n \in 1..Len(s) /\ n + 1 \in 1..(Len(s) + 1) /\ n \in 1..(n + 1)
      /\ r = Erased(mem, c, s[n], El(s, n + 1)) /\ DropIterator(Span(s, n, n + 1))
  BY <1>s, <1>n, <1>r, PopBackErases
<1>2. PICK T : IsErased(mem, S, r, T, c, n, n + 1)
  BY <1>1, <1>s, RangeErased
<1>3. Promise!Drop(c, n, n + 1)
  BY <1>1, <1>2, <1>r, <1>s, DropStep
<1>4. view.content[c] # <<>> /\ Len(view.content[c]) = n
  BY <1>1, <1>n, <1>s, LengthOf
<1>. QED  BY <1>3, <1>4 DEF Promise!PopBack

LEMMA EraseStep ==
    ASSUME NEW S, Holds(mem, S), IterOk(it, S), view = View(mem, it), view' = View(mem', it'),
           Position, NEW last \in RangeEnds, Erase(last)
    PROVE  \E j \in 1..(IF Promise!Usable THEN Len(view.content[view.at.list]) + 1 ELSE 0) :
              j >= view.at.index /\ Promise!EraseHere(j)
<1>1. it # NoIterator /\ it.dir = "nxt" /\ it.node # Null
  BY DEF Position, Erase
<1>2. PICK c, k : /\ Place(it, S, c, k)
                  /\ view.at = [list |-> c, index |-> k, dir |-> Facing(it)]
                  /\ view.at # NoIterator /\ c \in Lists /\ k \in Nat
                  /\ HomeOf(it) = c
  BY <1>1, ThisPlace
<1>s. PICK s : s = S[c]
  OBVIOUS
<1>r. PICK r : r = mem'
  OBVIOUS
<1>3. it' = [it EXCEPT !.owner = c, !.node = last]
  BY <1>2 DEF Erase
<1>4. PICK i, j : ErasesFrom(r, c, s, last, i, j)
  BY <1>2, <1>s, <1>r, EraseErases
<1>5. /\ j \in 1..(Len(s) + 1) /\ i \in 1..Len(s) /\ i \in 1..j /\ it.node = s[i]
      /\ last = El(s, j) /\ r = Erased(mem, c, s[i], El(s, j))
  BY <1>4 DEF ErasesFrom
<1>6. /\ s \in Seq(Nodes) /\ Len(s) \in Nat /\ In(s) \subseteq Nodes
      /\ \A a, b \in 1..Len(s) : s[a] = s[b] => a = b
  BY <1>2, <1>s, HoldsFacts, ChainIsSeq
<1>7. k = i
  <2>1. k \in 1..Len(s) /\ s[k] = it.node
    BY <1>1, <1>2, <1>s DEF Place
  <2>. QED  BY <1>5, <1>6, <2>1
<1>8. PICK T : IsErased(mem, S, r, T, c, i, j)
  BY <1>2, <1>5, <1>s, RangeErased
<1>9. Promise!TakeOut(c, i, j) /\ IsCut(s, i, j, T[c])
  BY <1>2, <1>5, <1>8, <1>r, <1>s, TakeOutStep
<1>10. it' \in Iterators /\ it'.node = last /\ it'.owner = c /\ it'.dir = "nxt"
  <2>1. it \in Iterators
    BY <1>2 DEF Place
  <2>2. last \in Targets
    <3>1. j \in Nat
      BY <1>5
    <3>2. last = Null \/ last \in Nodes
      BY <1>5, <1>6, <3>1, Neighbours
    <3>. QED  BY <3>2, NullFacts
  <2>. QED  BY <1>1, <1>2, <1>3, <2>1, <2>2 DEF Iterators, Targets
<1>11. Place(it', T, c, k)
  <2>m. PICK m \in Nat : m = Len(s)
    BY <1>6
  <2>d. PICK d \in Nat : d = j - i /\ j = i + d /\ i \in Nat /\ j <= m + 1
    BY <1>5, <2>m
  <2>u. PICK u : u = T[c]
    OBVIOUS
  <2>1. /\ Len(u) = m - d
        /\ \A e \in 1..(m - d) : u[e] = IF e < i THEN s[e] ELSE s[e + d]
    BY <1>9, <2>d, <2>m, <2>u DEF IsCut
  <2>2. CASE j \in 1..Len(s)
    <3>1. last = s[j] /\ last # Null
      BY <1>5, <1>6, <2>2, NullFacts DEF El
    <3>2. i \in 1..(m - d) /\ ~(i < i) /\ i + d = j
      BY <1>5, <2>2, <2>d, <2>m
    <3>3. u[i] = s[j]
      BY <2>1, <3>2
    <3>. QED  BY <1>2, <1>7, <1>10, <2>1, <2>u, <3>1, <3>2, <3>3 DEF Place
  <2>3. CASE j \notin 1..Len(s)
    <3>1. last = Null /\ j = m + 1
      BY <1>5, <2>3, <2>m DEF El
    <3>2. i = (m - d) + 1
      BY <2>d, <3>1
    <3>. QED  BY <1>2, <1>7, <1>10, <2>1, <2>u, <3>1, <3>2 DEF Place, EndOf
  <2>. QED  BY <2>2, <2>3
<1>12. view'.at = view.at
  <2>1. Holds(r, T)
    BY <1>8 DEF IsErased, Removes
  <2>2. view'.at = [list |-> c, index |-> k, dir |-> Facing(it')]
    BY <1>11, <1>r, <2>1, NextPlace
  <2>. QED  BY <1>1, <1>2, <1>10, <2>2 DEF Facing
<1>13. Promise!Usable
  BY <1>1, <1>2 DEF Promise!Usable, Facing
<1>14. Promise!EraseHere(j)
  BY <1>2, <1>7, <1>9, <1>12, <1>13 DEF Promise!EraseHere
<1>15. Len(view.content[view.at.list]) = Len(s)
  BY <1>2, <1>s, LengthOf
<1>16. j >= view.at.index
  BY <1>2, <1>5, <1>6, <1>7
<1>. QED  BY <1>5, <1>13, <1>14, <1>15, <1>16

(* Whole lists change: an element of x goes to the list to[x], and is      *)
(* there where it was here, or it is gone.                                 *)
Goes(S, T, to, gone) ==
    /\ gone \subseteq Nodes
    /\ \A x \in Lists : to[x] # NoIterator
          => to[x] \in Lists /\ T[to[x]] = S[x] /\ In(S[x]) \cap gone = {}
    /\ \A x \in Lists : to[x] = NoIterator => In(S[x]) \subseteq gone

LEMMA BecomeStep ==
    ASSUME NEW S, Holds(mem, S), IterOk(it, S), view = View(mem, it), view' = View(mem', it'),
           NEW r, r = mem', NEW T, Holds(r, T), NEW to, NEW gone, Goes(S, T, to, gone),
           DropIterator(gone), NEW lists, lists = view'.content
    PROVE  Promise!Become(lists, to)
<1>1. it' = IF it # NoIterator /\ it.node \in gone THEN NoIterator ELSE it
  BY DEF DropIterator
<1>A. PICK A : A = view.at
  OBVIOUS
<1>B. PICK B : B = view'.at
  OBVIOUS
<1>O. PICK O : O = view.content
  OBVIOUS
<1>2. Null \notin gone
  BY NullFacts DEF Goes
<1>3. \A b, l : it' = it /\ Place(it, T, b, l)
           => B = [list |-> b, index |-> l, dir |-> Facing(it)]
  BY <1>B, NextPlace
<1>4. it' = NoIterator => B = NoIterator
  BY <1>B, NextPlace
<1>. DEFINE On == A # NoIterator /\ A.index \in 1..Len(O[A.list])
            Wanted == CASE A = NoIterator -> NoIterator
                        [] On /\ to[A.list] = NoIterator -> NoIterator
                        [] On /\ to[A.list] # NoIterator -> [A EXCEPT !.list = to[@]]
                        [] OTHER -> [A EXCEPT !.index = IF @ = 0 THEN 0
                                                        ELSE Len(lists[A.list]) + 1]
<1>5. B = Wanted
  <2>1. CASE it = NoIterator
    BY <1>1, <1>4, <1>A, <2>1, ThisPlace
  <2>2. CASE it # NoIterator
    <3>1. PICK a, k : /\ Place(it, S, a, k)
                      /\ A = [list |-> a, index |-> k, dir |-> Facing(it)]
                      /\ A # NoIterator /\ a \in Lists /\ k \in Nat
      BY <1>A, <2>2, ThisPlace
    <3>l. PICK l : l = Len(S[a])
      OBVIOUS
    <3>2. /\ it.node # Null <=> k \in 1..l
          /\ Len(O[a]) = l /\ it \in Iterators
      BY <1>O, <3>1, <3>l, PlaceIsOk, LengthOf
    <3>3. A.list = a /\ A.index = k /\ (On <=> it.node # Null)
      BY <3>1, <3>2
    <3>4. CASE it.node # Null /\ to[a] = NoIterator
      <4>1. it.node \in In(S[a])
        BY <3>1, <3>4 DEF Place, In
      <4>2. it' = NoIterator
        BY <1>1, <2>2, <3>1, <3>4, <4>1 DEF Goes
      <4>. QED  BY <1>4, <3>1, <3>3, <3>4, <4>2
    <3>5. CASE it.node # Null /\ to[a] # NoIterator
      <4>b. PICK b : b = to[a]
        OBVIOUS
      <4>1. it.node \in In(S[a]) /\ k \in 1..Len(S[a]) /\ S[a][k] = it.node
        BY <3>1, <3>5 DEF Place, In
      <4>2. b \in Lists /\ T[b] = S[a] /\ In(S[a]) \cap gone = {}
        BY <3>1, <3>5, <4>b DEF Goes
      <4>3. it' = it
        BY <1>1, <4>1, <4>2
      <4>4. Place(it, T, b, k)
        BY <3>2, <3>5, <4>1, <4>2 DEF Place
      <4>5. B = [list |-> b, index |-> k, dir |-> Facing(it)]
        BY <1>3, <4>3, <4>4
      <4>6. [A EXCEPT !.list = to[@]] = [list |-> b, index |-> k, dir |-> Facing(it)]
        BY <3>1, <4>b
      <4>. QED  BY <3>1, <3>3, <3>5, <4>5, <4>6
    <3>6. CASE it.node = Null
      <4>1. a = it.owner /\ k = EndOf(S[a], it)
        BY <3>1, <3>6 DEF Place
      <4>2. it' = it
        BY <1>1, <1>2, <3>6
      <4>e. PICK e : e = EndOf(T[a], it)
        OBVIOUS
      <4>3. Place(it, T, a, e)
        BY <3>1, <3>2, <3>6, <4>1, <4>e DEF Place
      <4>4. B = [list |-> a, index |-> e, dir |-> Facing(it)]
        BY <1>3, <4>2, <4>3
      <4>5. Len(lists[a]) = Len(T[a]) /\ l \in Nat
        <5>1. ContentIs(lists, r, T)
          BY NextPlace
        <5>2. lists[a] = ValuesOf(r, T[a]) /\ Len(T[a]) \in Nat /\ l \in Nat
          BY <3>1, <3>l, <5>1, HoldsFacts DEF ContentIs
        <5>. QED  BY <5>2 DEF ValuesOf
      <4>6. e = IF k = 0 THEN 0 ELSE Len(lists[a]) + 1
        BY <3>l, <4>1, <4>5, <4>e DEF EndOf
      <4>7. [A EXCEPT !.index = IF @ = 0 THEN 0 ELSE Len(lists[A.list]) + 1]
              = [list |-> a, index |-> e, dir |-> Facing(it)]
        BY <3>1, <4>6
      <4>. QED  BY <3>1, <3>3, <3>6, <4>4, <4>7
    <3>. QED  BY <3>4, <3>5, <3>6
  <2>. QED  BY <2>1, <2>2
<1>. QED  BY <1>5, <1>A, <1>B, <1>O DEF Promise!Become, Promise!OnElement

(* Two lists have new values, and the others keep theirs. *)
LEMMA TwoUpdated ==
    ASSUME NEW C, NEW D, NEW m, NEW S, NEW r, NEW T, ContentIs(C, m, S), ContentIs(D, r, T),
           NEW c \in Lists, NEW d \in Lists, c # d, Others(m, S, r, T, {c, d}),
           NEW x, ValuesOf(r, T[c]) = x, NEW y, ValuesOf(r, T[d]) = y
    PROVE  D = [C EXCEPT ![c] = x, ![d] = y]
<1>1. /\ C = [e \in Lists |-> C[e]] /\ D = [e \in Lists |-> D[e]]
      /\ D[c] = x /\ D[d] = y /\ \A e \in Lists \ {c, d} : D[e] = C[e]
  BY DEF ContentIs, Others
<1>2. [C EXCEPT ![c] = x, ![d] = y]
        = [e \in Lists |-> IF e = d THEN y ELSE IF e = c THEN x ELSE C[e]]
  BY <1>1
<1>3. \A e \in Lists : D[e] = IF e = d THEN y ELSE IF e = c THEN x ELSE C[e]
  BY <1>1
<1>. QED  BY <1>1, <1>2, <1>3

LEMMA EmptiedValues ==
    ASSUME NEW S, Holds(mem, S), NEW c \in Lists, NEW r, r = Cleared(mem, c)
    PROVE  \E T : Holds(r, T) /\ T[c] = <<>> /\ Others(mem, S, r, T, {c})
<1>1. S \in [Lists -> Seq(Nodes)] /\ <<>> \in Seq(Nodes)
  BY DEF Holds
<1>2. PICK T : Replaced(S, T, c, <<>>)
  BY <1>1, ReplacedExists
<1>3. Removes(mem, S, r, T, In(S[c]))
  BY <1>2, ClearedHolds
<1>4. /\ Holds(r, T) /\ T[c] = <<>> /\ \A x \in Lists \ {c} : T[x] = S[x]
      /\ \A e \in Nodes : r.val[e] = IF e \in In(S[c]) THEN Undefined ELSE mem.val[e]
  BY <1>2, <1>3 DEF Removes, Replaced
<1>5. ASSUME NEW x \in Lists \ {c}
      PROVE  ValuesOf(r, S[x]) = ValuesOf(mem, S[x])
  <2>1. In(S[c]) \cap In(S[x]) = {} /\ \A e \in In(S[x]) : e \in Nodes
    BY UsedSplit, HoldsFacts
  <2>2. \A e \in In(S[x]) : r.val[e] = mem.val[e]
    BY <1>4, <2>1
  <2>. QED  BY <2>2, SameValues
<1>6. Others(mem, S, r, T, {c})
  BY <1>4, <1>5 DEF Others
<1>. QED  BY <1>4, <1>6

LEMMA ClearStep ==
    ASSUME NEW S, Holds(mem, S), IterOk(it, S), view = View(mem, it), view' = View(mem', it'),
           NEW c \in Lists, Clear(c)
    PROVE  Promise!Clear(c)
<1>r. PICK r : r = mem'
  OBVIOUS
<1>1. r = Cleared(mem, c) /\ DropIterator(In(S[c]))
  BY <1>r, ElementsOf DEF Clear
<1>2. PICK T : Holds(r, T) /\ T[c] = <<>> /\ Others(mem, S, r, T, {c})
  BY <1>1, EmptiedValues
<1>3. PICK lists : lists = [view.content EXCEPT ![c] = <<>>]
  OBVIOUS
<1>4. PICK to : to = [Promise!Stay EXCEPT ![c] = NoIterator]
  OBVIOUS
<1>5. lists = view'.content
  <2>1. ContentIs(view.content, mem, S) /\ ContentIs(view'.content, r, T)
    BY <1>2, <1>r, ViewIs, NextPlace
  <2>2. ValuesOf(r, T[c]) = <<>>
    BY <1>2 DEF ValuesOf
  <2>C. PICK C : C = view.content
    OBVIOUS
  <2>D. PICK D : D = view'.content
    OBVIOUS
  <2>3. D = [C EXCEPT ![c] = <<>>]
    BY <1>2, <2>1, <2>2, <2>C, <2>D, ContentUpdated
  <2>. QED  BY <1>3, <2>3, <2>C, <2>D
<1>6. Goes(S, T, to, In(S[c]))
  <2>1. \A x \in Lists : to[x] = IF x = c THEN NoIterator ELSE x
    BY <1>4 DEF Promise!Stay
  <2>2. \A x \in Lists : x # NoIterator
    BY IteratorAssumption
  <2>3. \A x \in Lists \ {c} : T[x] = S[x] /\ In(S[x]) \cap In(S[c]) = {}
    BY <1>2, UsedSplit DEF Others
  <2>4. In(S[c]) \subseteq Nodes
    BY HoldsFacts
  <2>. QED  BY <2>1, <2>2, <2>3, <2>4 DEF Goes
<1>7. Promise!Become(lists, to)
  BY <1>1, <1>2, <1>5, <1>6, <1>r, BecomeStep
<1>. QED  BY <1>3, <1>4, <1>7 DEF Promise!Clear

(* The values of d are copied into c, which was emptied. *)
LEMMA CopiedValues ==
    ASSUME NEW S, Holds(mem, S), NEW c \in Lists, NEW d \in Lists, c # d,
           CopyAssign(c, d), NEW r, r = mem'
    PROVE  \E T : /\ Holds(r, T) /\ ValuesOf(r, T[c]) = ValuesOf(mem, S[d])
                  /\ Others(mem, S, r, T, {c})
<1>a. PICK a : a = Cleared(mem, c)
  OBVIOUS
<1>1. PICK T1 : Holds(a, T1) /\ T1[c] = <<>> /\ Others(mem, S, a, T1, {c})
  BY <1>a, EmptiedValues
<1>2. \A x \in Lists \ {c} : T1[x] = S[x] /\ ValuesOf(a, S[x]) = ValuesOf(mem, S[x])
  BY <1>1 DEF Others
<1>k. PICK K : K = Len(S[d])
  OBVIOUS
<1>v. PICK vs : vs = ValuesIn(a, d)
  OBVIOUS
<1>3. /\ K \in Nat /\ Len(vs) = K /\ vs = ValuesOf(a, S[d])
      /\ \A i \in 1..K : vs[i] \in Values
  <2>1. T1[d] = S[d] /\ K = Len(T1[d])
    BY <1>2, <1>k
  <2>. QED  BY <1>1, <1>v, <2>1, ValuesOfList
<1>4. \E ns \in Allocations(a, c, K) : r = Appended(a, c, ns, vs)
  BY <1>a, <1>k, <1>v, ElementsOf DEF CopyAssign
<1>5. PICK ns \in Allocations(a, c, K) : r = Appended(a, c, ns, vs)
  BY <1>4
<1>6. PICK T : /\ Replaced(T1, T, c, Longer(T1[c], ns, K))
               /\ Appends(a, T1, r, T, Firsts(ns, K))
               /\ \A i \in 1..K : r.val[ns[i]] = vs[i]
  BY <1>1, <1>3, <1>5, AppendedHolds
<1>7. /\ Holds(r, T) /\ \A e \in Nodes \ Firsts(ns, K) : r.val[e] = a.val[e]
      /\ T[c] = Longer(<<>>, ns, K) /\ \A x \in Lists \ {c} : T[x] = T1[x]
  BY <1>1, <1>6 DEF Appends, Replaced
<1>8. ValuesOf(r, T[c]) = ValuesOf(mem, S[d])
  <2>1. ValuesOf(r, T[c]) = [i \in 1..K |-> vs[i]]
    BY <1>3, <1>6, <1>7, AppendedValues
  <2>2. vs = [i \in 1..K |-> vs[i]]
    BY <1>3, <1>k DEF ValuesOf
  <2>3. ValuesOf(a, S[d]) = ValuesOf(mem, S[d])
    BY <1>2
  <2>. QED  BY <1>3, <2>1, <2>2, <2>3
<1>9. \A i \in 1..K : ns[i] \in FreeFor(a, c)
  BY <1>5 DEF Allocations
<1>10. \A i \in 1..K : \A x \in Lists : ns[i] \notin In(T1[x])
  BY <1>1, <1>9, FreeNode
<1>11. ASSUME NEW x \in Lists \ {c}
       PROVE  T[x] = S[x] /\ ValuesOf(r, T[x]) = ValuesOf(mem, S[x])
  <2>1. T[x] = S[x] /\ T1[x] = S[x]
    BY <1>2, <1>7
  <2>2. \A e \in In(S[x]) : e \in Nodes
    BY HoldsFacts
  <2>3. \A e \in In(S[x]) : e \notin Firsts(ns, K)
    BY <1>10, <2>1 DEF Firsts
  <2>4. \A e \in In(S[x]) : r.val[e] = a.val[e]
    BY <1>7, <2>2, <2>3
  <2>5. ValuesOf(r, S[x]) = ValuesOf(a, S[x])
    BY <2>4, SameValues
  <2>. QED  BY <1>2, <2>1, <2>5
<1>12. Others(mem, S, r, T, {c})
  BY <1>11 DEF Others
<1>. QED  BY <1>7, <1>8, <1>12

LEMMA CopyStep ==
    ASSUME NEW S, Holds(mem, S), IterOk(it, S), view = View(mem, it), view' = View(mem', it'),
           NEW c \in Lists, NEW d \in Lists, c # d, CopyAssign(c, d)
    PROVE  Promise!Copy(c, d)
<1>r. PICK r : r = mem'
  OBVIOUS
<1>1. DropIterator(In(S[c]))
  BY ElementsOf DEF CopyAssign
<1>2. PICK T : /\ Holds(r, T) /\ ValuesOf(r, T[c]) = ValuesOf(mem, S[d])
               /\ Others(mem, S, r, T, {c})
  BY <1>r, CopiedValues
<1>3. PICK lists : lists = [view.content EXCEPT ![c] = view.content[d]]
  OBVIOUS
<1>4. PICK to : to = [Promise!Stay EXCEPT ![c] = NoIterator]
  OBVIOUS
<1>5. lists = view'.content
  <2>1. ContentIs(view.content, mem, S) /\ ContentIs(view'.content, r, T)
    BY <1>2, <1>r, ViewIs, NextPlace
  <2>C. PICK C : C = view.content
    OBVIOUS
  <2>D. PICK D : D = view'.content
    OBVIOUS
  <2>x. PICK x : x = C[d]
    OBVIOUS
  <2>2. ValuesOf(r, T[c]) = x
    BY <1>2, <2>1, <2>C, <2>x DEF ContentIs
  <2>3. D = [C EXCEPT ![c] = x]
    BY <1>2, <2>1, <2>2, <2>C, <2>D, ContentUpdated
  <2>. QED  BY <1>3, <2>3, <2>C, <2>D, <2>x
<1>6. Goes(S, T, to, In(S[c]))
  <2>1. \A x \in Lists : to[x] = IF x = c THEN NoIterator ELSE x
    BY <1>4 DEF Promise!Stay
  <2>2. \A x \in Lists : x # NoIterator
    BY IteratorAssumption
  <2>3. \A x \in Lists \ {c} : T[x] = S[x] /\ In(S[x]) \cap In(S[c]) = {}
    BY <1>2, UsedSplit DEF Others
  <2>4. In(S[c]) \subseteq Nodes
    BY HoldsFacts
  <2>. QED  BY <2>1, <2>2, <2>3, <2>4 DEF Goes
<1>7. Promise!Become(lists, to)
  BY <1>1, <1>2, <1>5, <1>6, <1>r, BecomeStep
<1>. QED  BY <1>3, <1>4, <1>7 DEF Promise!Copy

LEMMA MoveStep ==
    ASSUME NEW S, Holds(mem, S), IterOk(it, S), view = View(mem, it), view' = View(mem', it'),
           NEW c \in Lists, NEW d \in Lists, c # d, MoveAssign(c, d)
    PROVE  Promise!Move(c, d)
<1>r. PICK r : r = mem'
  OBVIOUS
<1>a. PICK a : a = Cleared(mem, c)
  OBVIOUS
<1>1. PICK T1 : Holds(a, T1) /\ T1[c] = <<>> /\ Others(mem, S, a, T1, {c})
  BY <1>a, EmptiedValues
<1>2. \A x \in Lists \ {c} : T1[x] = S[x] /\ ValuesOf(a, T1[x]) = ValuesOf(mem, S[x])
  BY <1>1 DEF Others
<1>g. PICK G : G = LostBy(c, d)
  OBVIOUS
<1>3. /\ HeapOf[c] = HeapOf[d] => G = {}
      /\ HeapOf[c] # HeapOf[d] => G = In(S[d]) /\ Cardinality(G) = Len(S[d])
  BY <1>g, ElementsOf DEF LostBy
<1>4. /\ \E ns \in Allocations(a, c, Cardinality(G)) : r = Moved(a, c, d, ns)
      /\ DropIterator(In(S[c]) \cup G)
  BY <1>a, <1>g, <1>r, ElementsOf DEF MoveAssign
<1>5. PICK ns \in Allocations(a, c, Cardinality(G)) : r = Moved(a, c, d, ns)
  BY <1>4
<1>6. MoveNeeds(a, T1, c, d, ns, G)
  BY <1>2, <1>3, <1>5 DEF MoveNeeds
<1>7. PICK T : IsMoved(a, T1, r, T, c, d, G)
  BY <1>1, <1>5, <1>6, MovedHolds
<1>8. /\ Holds(r, T) /\ T[d] = <<>> /\ ValuesOf(r, T[c]) = ValuesOf(mem, S[d])
      /\ HeapOf[c] = HeapOf[d] => T[c] = S[d]
      /\ \A x \in Lists \ {c, d} : T[x] = S[x] /\ ValuesOf(r, T[x]) = ValuesOf(mem, S[x])
  BY <1>2, <1>7 DEF IsMoved, Others
<1>9. PICK lists : lists = [view.content EXCEPT ![c] = view.content[d], ![d] = <<>>]
  OBVIOUS
<1>10. PICK to : to = [Promise!Stay EXCEPT ![c] = NoIterator,
                          ![d] = IF HeapOf[c] = HeapOf[d] THEN c ELSE NoIterator]
  OBVIOUS
<1>11. lists = view'.content
  <2>1. ContentIs(view.content, mem, S) /\ ContentIs(view'.content, r, T)
    BY <1>8, <1>r, ViewIs, NextPlace
  <2>C. PICK C : C = view.content
    OBVIOUS
  <2>D. PICK D : D = view'.content
    OBVIOUS
  <2>x. PICK x : x = C[d]
    OBVIOUS
  <2>y. PICK y : y = <<>>
    OBVIOUS
  <2>2. ValuesOf(r, T[c]) = x /\ ValuesOf(r, T[d]) = y
    <3>1. ValuesOf(r, T[c]) = x
      BY <1>8, <2>1, <2>C, <2>x DEF ContentIs
    <3>2. ValuesOf(r, T[d]) = y
      BY <1>8, <2>y DEF ValuesOf
    <3>. QED  BY <3>1, <3>2
  <2>3. Others(mem, S, r, T, {c, d})
    BY <1>8 DEF Others
  <2>4. D = [C EXCEPT ![c] = x, ![d] = y]
    BY <2>1, <2>2, <2>3, <2>C, <2>D, TwoUpdated
  <2>. QED  BY <1>9, <2>4, <2>C, <2>D, <2>x, <2>y
<1>12. PICK gone : gone = In(S[c]) \cup G
  OBVIOUS
<1>13. Goes(S, T, to, gone)
  <2>1. \A x \in Lists : to[x] = IF x = d THEN (IF HeapOf[c] = HeapOf[d] THEN c ELSE NoIterator)
                                ELSE IF x = c THEN NoIterator ELSE x
    BY <1>10 DEF Promise!Stay
  <2>2. \A x \in Lists : x # NoIterator
    BY IteratorAssumption
  <2>3. /\ \A x \in Lists \ {c} : In(S[x]) \cap In(S[c]) = {}
        /\ \A x \in Lists \ {d} : In(S[x]) \cap In(S[d]) = {}
    BY UsedSplit
  <2>4. In(S[c]) \subseteq Nodes /\ In(S[d]) \subseteq Nodes
    BY HoldsFacts
  <2>5. CASE HeapOf[c] = HeapOf[d]
    <3>1. gone = In(S[c])
      BY <1>3, <1>12, <2>5
    <3>2. \A x \in Lists : to[x] = IF x = d THEN c ELSE IF x = c THEN NoIterator ELSE x
      BY <2>1, <2>5
    <3>. QED  BY <1>8, <2>2, <2>3, <2>4, <2>5, <3>1, <3>2 DEF Goes
  <2>6. CASE HeapOf[c] # HeapOf[d]
    <3>1. gone = In(S[c]) \cup In(S[d])
      BY <1>3, <1>12, <2>6
    <3>2. \A x \in Lists : to[x] = IF x \in {c, d} THEN NoIterator ELSE x
      BY <2>1, <2>6
    <3>. QED  BY <1>8, <2>2, <2>3, <2>4, <3>1, <3>2 DEF Goes
  <2>. QED  BY <2>5, <2>6
<1>14. Promise!Become(lists, to)
  BY <1>4, <1>8, <1>11, <1>12, <1>13, <1>r, BecomeStep
<1>. QED  BY <1>9, <1>10, <1>14 DEF Promise!Move

LEMMA SwappedValues ==
    ASSUME NEW S, Holds(mem, S), view = View(mem, it), view' = View(mem', it'),
           NEW r, r = mem', NEW T, Holds(r, T),
           NEW c \in Lists, NEW d \in Lists, c # d, Others(mem, S, r, T, {c, d}),
           ValuesOf(r, T[c]) = ValuesOf(mem, S[d])
    PROVE  view'.content = [view.content EXCEPT ![c] = view.content[d],
                                                ![d] = ValuesOf(r, T[d])]
<1>y. PICK y : y = ValuesOf(r, T[d])
  OBVIOUS
<1>1. ContentIs(view.content, mem, S) /\ ContentIs(view'.content, r, T)
  BY ViewIs, NextPlace
<1>C. PICK C : C = view.content
  OBVIOUS
<1>D. PICK D : D = view'.content
  OBVIOUS
<1>x. PICK x : x = C[d]
  OBVIOUS
<1>2. ValuesOf(r, T[c]) = x /\ ValuesOf(r, T[d]) = y
  BY <1>1, <1>C, <1>x, <1>y DEF ContentIs
<1>3. D = [C EXCEPT ![c] = x, ![d] = y]
  BY <1>1, <1>2, <1>C, <1>D, TwoUpdated
<1>. QED  BY <1>3, <1>C, <1>D, <1>x, <1>y

LEMMA SwapSameHeapStep ==
    ASSUME NEW S, Holds(mem, S), IterOk(it, S), view = View(mem, it), view' = View(mem', it'),
           NEW c \in Lists, NEW d \in Lists, c # d, SwapSameHeap(c, d)
    PROVE  Promise!Swap(c, d)
<1>r. PICK r : r = mem'
  OBVIOUS
<1>1. HeapOf[c] = HeapOf[d] /\ r = AfterStores(mem, Exchange(mem, c, d)) /\ it' = it
  BY <1>r DEF SwapSameHeap
<1>2. mem \in Mems /\ S \in [Lists -> Seq(Nodes)]
  BY DEF Holds
<1>3. Exchanged(mem, r, c, d)
  BY <1>1, <1>2, ExchangeMem
<1>4. PICK T : Crossed(S, T, c, d)
  BY <1>2, CrossedExists
<1>5. Holds(r, T) /\ r.val = mem.val
  BY <1>1, <1>3, <1>4, ExchangedHolds
<1>6. T[c] = S[d] /\ T[d] = S[c] /\ \A x \in Lists \ {c, d} : T[x] = S[x]
  BY <1>4 DEF Crossed
<1>7. \A s : ValuesOf(r, s) = ValuesOf(mem, s)
  BY <1>5 DEF ValuesOf
<1>8. Others(mem, S, r, T, {c, d})
  BY <1>6, <1>7 DEF Others
<1>9. PICK lists : lists = [view.content EXCEPT ![c] = view.content[d], ![d] = view.content[c]]
  OBVIOUS
<1>10. PICK to : to = [Promise!Stay EXCEPT ![c] = d, ![d] = c]
  OBVIOUS
<1>y. PICK y : y = view.content[c]
  OBVIOUS
<1>11. lists = view'.content
  <2>1. ContentIs(view.content, mem, S)
    BY ViewIs
  <2>2. ValuesOf(mem, S[c]) = y
    BY <1>y, <2>1 DEF ContentIs
  <2>3. ValuesOf(r, T[c]) = ValuesOf(mem, S[d]) /\ ValuesOf(r, T[d]) = y
    BY <1>6, <1>7, <2>2
  <2>4. view'.content = [view.content EXCEPT ![c] = view.content[d],
                                             ![d] = ValuesOf(r, T[d])]
    BY <1>5, <1>8, <1>r, <2>3, SwappedValues
  <2>. QED  BY ONLY <1>9, <1>y, <2>3, <2>4
<1>12. Goes(S, T, to, {})
  <2>1. \A x \in Lists : to[x] = IF x = d THEN c ELSE IF x = c THEN d ELSE x
    BY <1>10 DEF Promise!Stay
  <2>2. \A x \in Lists : x # NoIterator
    BY IteratorAssumption
  <2>. QED  BY <1>6, <2>1, <2>2 DEF Goes
<1>13. DropIterator({})
  BY <1>1 DEF DropIterator
<1>14. Promise!Become(lists, to)
  BY <1>5, <1>11, <1>12, <1>13, <1>r, BecomeStep
<1>. QED  BY <1>1, <1>9, <1>10, <1>14 DEF Promise!Swap

LEMMA SwapAcrossStep ==
    ASSUME NEW S, Holds(mem, S), IterOk(it, S), view = View(mem, it), view' = View(mem', it'),
           NEW c \in Lists, NEW d \in Lists, c # d, SwapAcross(c, d)
    PROVE  Promise!SwapAcross(c, d)
<1>z. PICK z : z = Cleared(mem, d)
  OBVIOUS
<1>k. PICK K : K = Len(S[d])
  OBVIOUS
<1>w. PICK w : w = ValuesIn(mem, c)
  OBVIOUS
<1>r. PICK r : r = mem'
  OBVIOUS
<1>1. /\ HeapOf[c] # HeapOf[d]
      /\ \E ns \in Allocations(mem, c, K), q \in Salvaged(w) :
            \E ms \in Allocations(z, d, Len(q)) : r = SwappedByElement(mem, c, d, ns, ms, q)
      /\ DropIterator(In(S[c]) \cup In(S[d]))
  BY <1>z, <1>k, <1>w, <1>r, ElementsOf DEF SwapAcross
<1>2. PICK ns \in Allocations(mem, c, K), q \in Salvaged(w) :
            \E ms \in Allocations(z, d, Len(q)) : r = SwappedByElement(mem, c, d, ns, ms, q)
  BY <1>1
<1>3. PICK ms \in Allocations(z, d, Len(q)) : r = SwappedByElement(mem, c, d, ns, ms, q)
  BY <1>2
<1>4. SwapNeeds(mem, S, c, d, ns, ms, q, r)
  BY <1>z, <1>k, <1>w, <1>1, <1>3 DEF SwapNeeds
<1>s. PICK T : IsSwapped(mem, S, c, d, q, r, T)
  BY <1>4, SwappedHolds
<1>5. /\ Holds(r, T) /\ ValuesOf(r, T[c]) = ValuesOf(mem, S[d])
      /\ ValuesOf(r, T[d]) = q /\ Others(mem, S, r, T, {c, d})
  BY <1>s DEF IsSwapped
<1>6. PICK lists : lists = [view.content EXCEPT ![c] = view.content[d], ![d] = q]
  OBVIOUS
<1>7. PICK to : to = [Promise!Stay EXCEPT ![c] = NoIterator, ![d] = NoIterator]
  OBVIOUS
<1>8. lists = view'.content
  <2>1. view'.content = [view.content EXCEPT ![c] = view.content[d],
                                             ![d] = ValuesOf(r, T[d])]
    BY <1>5, <1>r, SwappedValues
  <2>. QED  BY ONLY <1>5, <1>6, <2>1
<1>9. PICK gone : gone = In(S[c]) \cup In(S[d])
  OBVIOUS
<1>10. Goes(S, T, to, gone)
  <2>1. \A x \in Lists : to[x] = IF x \in {c, d} THEN NoIterator ELSE x
    BY <1>7 DEF Promise!Stay
  <2>2. \A x \in Lists : x # NoIterator
    BY IteratorAssumption
  <2>3. /\ \A x \in Lists \ {c} : In(S[x]) \cap In(S[c]) = {}
        /\ \A x \in Lists \ {d} : In(S[x]) \cap In(S[d]) = {}
    BY UsedSplit
  <2>4. In(S[c]) \subseteq Nodes /\ In(S[d]) \subseteq Nodes
    BY HoldsFacts
  <2>5. \A x \in Lists \ {c, d} : T[x] = S[x]
    BY <1>5 DEF Others
  <2>. QED  BY <1>9, <2>1, <2>2, <2>3, <2>4, <2>5 DEF Goes
<1>11. Promise!Become(lists, to)
  BY <1>1, <1>5, <1>8, <1>9, <1>10, <1>r, BecomeStep
<1>12. q \in Promise!Salvaged(view.content[c])
  <2>0. ContentIs(view.content, mem, S)
    BY ViewIs
  <2>k. PICK k : k = Len(S[c])
    OBVIOUS
  <2>1. ValuesIn(mem, c) = ValuesOf(mem, S[c])
    BY <2>k, ValuesOfList
  <2>2. view.content[c] = ValuesOf(mem, S[c])
    BY <2>0 DEF ContentIs
  <2>3. w = view.content[c]
    BY ONLY <1>w, <2>1, <2>2
  <2>. QED  BY <1>2, <2>3 DEF Salvaged, Promise!Salvaged
<1>. QED  BY <1>1, <1>6, <1>7, <1>11, <1>12 DEF Promise!SwapAcross

(* The iterator goes to another place, and the lists stay. *)
LEMMA StepTo ==
    ASSUME NEW S, Holds(mem, S), view = View(mem, it), view' = View(mem', it'),
           NEW i, PointAt(i), NEW c, NEW k, Place(i, S, c, k),
           NEW d, d = Facing(i)
    PROVE  Promise!PointAt(c, k, d)
<1>1. mem' = mem /\ it' = i
  BY DEF PointAt
<1>r. PICK r : r = mem'
  OBVIOUS
<1>2. Holds(r, S) /\ Place(it', S, c, k)
  BY <1>1, <1>r
<1>3. view'.at = [list |-> c, index |-> k, dir |-> Facing(it')]
  BY <1>2, <1>r, NextPlace
<1>C. PICK C : C = view.content
  OBVIOUS
<1>D. PICK D : D = view'.content
  OBVIOUS
<1>4. ContentIs(C, mem, S) /\ ContentIs(D, r, S)
  BY <1>2, <1>r, <1>C, <1>D, ViewIs, NextPlace
<1>5. /\ C = [x \in Lists |-> C[x]] /\ D = [x \in Lists |-> D[x]]
      /\ \A x \in Lists : D[x] = C[x]
  BY <1>1, <1>4, <1>r DEF ContentIs
<1>6. D = C
  BY <1>5
<1>. QED  BY <1>1, <1>3, <1>6, <1>C, <1>D DEF Promise!PointAt, Promise!Points

(* Where the links of a list lead, as indices. *)
LEMMA LinkAt ==
    ASSUME NEW S, Holds(mem, S), NEW c \in Lists, NEW s, s = S[c], NEW m, m = Len(s)
    PROVE  /\ m \in Nat /\ s \in Seq(Nodes) /\ \A i \in 1..m : s[i] \in Nodes /\ s[i] # Null
           /\ mem.nxt[c] = IF m = 0 THEN Null ELSE s[1]
           /\ mem.pre[c] = IF m = 0 THEN Null ELSE s[m]
           /\ \A i \in 1..m : mem.nxt[s[i]] = IF i = m THEN Null ELSE s[i + 1]
           /\ \A i \in 1..m : mem.pre[s[i]] = IF i = 1 THEN Null ELSE s[i - 1]
<1>1. Chain(mem, c, s) /\ s \in Seq(Nodes) /\ m \in Nat
  BY HoldsFacts
<1>2. \A i \in 1..m : s[i] \in Nodes /\ s[i] # Null
  BY <1>1, NullFacts
<1>3. /\ mem.nxt[c] = El(s, 1) /\ mem.pre[c] = El(s, m)
      /\ \A i \in 1..m : mem.nxt[s[i]] = El(s, i + 1)
      /\ \A i \in 1..m : mem.pre[s[i]] = El(s, i - 1)
  BY <1>1 DEF Chain
<1>4. El(s, 1) = IF m = 0 THEN Null ELSE s[1]
  BY <1>1 DEF El
<1>5. El(s, m) = IF m = 0 THEN Null ELSE s[m]
  BY <1>1 DEF El
<1>6. \A i \in 1..m : El(s, i + 1) = IF i = m THEN Null ELSE s[i + 1]
  BY <1>1 DEF El
<1>7. \A i \in 1..m : El(s, i - 1) = IF i = 1 THEN Null ELSE s[i - 1]
  BY <1>1 DEF El
<1>. QED  BY <1>1, <1>2, <1>3, <1>4, <1>5, <1>6, <1>7

LEMMA BeginStep ==
    ASSUME NEW S, Holds(mem, S), view = View(mem, it), view' = View(mem', it'),
           NEW c \in Lists, NEW d \in Directions, Begin(c, d)
    PROVE  \E D \in Promise!Directions : Promise!Begin(c, D)
<1>s. PICK s : s = S[c]
  OBVIOUS
<1>m. PICK m : m = Len(s)
  OBVIOUS
<1>i. PICK i : i = [owner |-> c, node |-> mem[d][c], dir |-> d]
  OBVIOUS
<1>k. PICK k : k = IF d = "nxt" THEN 1 ELSE m
  OBVIOUS
<1>D. PICK D : D = Facing(i)
  OBVIOUS
<1>1. /\ m \in Nat /\ \A x \in 1..m : s[x] \in Nodes /\ s[x] # Null
      /\ mem.nxt[c] = IF m = 0 THEN Null ELSE s[1]
      /\ mem.pre[c] = IF m = 0 THEN Null ELSE s[m]
  BY <1>s, <1>m, LinkAt
<1>2. i.owner = c /\ i.node = mem[d][c] /\ i.dir = d /\ PointAt(i)
  BY <1>i DEF Begin
<1>3. i \in Iterators
  BY <1>i, LinkLeads DEF Iterators, Targets
<1>4. Place(i, S, c, k)
  <2>1. CASE m = 0
    <3>1. i.node = Null
      BY <1>1, <1>2, <2>1 DEF Directions
    <3>2. k = EndOf(s, i)
      BY <1>2, <1>k, <1>m, <2>1 DEF EndOf
    <3>. QED  BY <1>2, <1>3, <1>s, <3>1, <3>2 DEF Place
  <2>2. CASE m # 0
    <3>1. k \in 1..m /\ i.node = s[k] /\ i.node # Null
      BY <1>1, <1>2, <1>k, <2>2 DEF Directions
    <3>. QED  BY <1>3, <1>s, <1>m, <3>1 DEF Place
  <2>. QED  BY <2>1, <2>2
<1>5. Promise!PointAt(c, k, D)
  BY <1>2, <1>4, <1>D, StepTo
<1>6. D \in Promise!Directions /\ (D = "forward" <=> d = "nxt")
  BY <1>2, <1>D DEF Facing, Promise!Directions
<1>7. k = Promise!FirstIndex(c, D)
  <2>1. Len(view.content[c]) = m
    BY <1>s, <1>m, LengthOf
  <2>. QED  BY <1>6, <1>k, <2>1 DEF Promise!FirstIndex
<1>. QED  BY <1>5, <1>6, <1>7 DEF Promise!Begin

LEMMA EndStep ==
    ASSUME NEW S, Holds(mem, S), view = View(mem, it), view' = View(mem', it'),
           NEW c \in Lists, NEW d \in Directions, End(c, d)
    PROVE  \E D \in Promise!Directions : Promise!End(c, D)
<1>i. PICK i : i = [owner |-> c, node |-> Null, dir |-> d]
  OBVIOUS
<1>k. PICK k : k = EndOf(S[c], i)
  OBVIOUS
<1>D. PICK D : D = Facing(i)
  OBVIOUS
<1>1. i.owner = c /\ i.node = Null /\ i.dir = d /\ PointAt(i) /\ i \in Iterators
  BY <1>i DEF End, Iterators
<1>2. Place(i, S, c, k)
  BY <1>1, <1>k DEF Place
<1>3. Promise!PointAt(c, k, D)
  BY <1>1, <1>2, <1>D, StepTo
<1>4. D \in Promise!Directions /\ (D = "forward" <=> d = "nxt")
  BY <1>1, <1>D DEF Facing, Promise!Directions
<1>5. k = Promise!PastIndex(c, D)
  <2>1. Len(view.content[c]) = Len(S[c])
    BY LengthOf
  <2>. QED  BY <1>1, <1>4, <1>k, <2>1 DEF Promise!PastIndex, EndOf
<1>. QED  BY <1>3, <1>4, <1>5 DEF Promise!End

LEMMA IncrementStep ==
    ASSUME NEW S, Holds(mem, S), IterOk(it, S), view = View(mem, it), view' = View(mem', it'),
           Increment
    PROVE  Promise!Increment
<1>n. PICK n : n = mem[it.dir][it.node]
  OBVIOUS
<1>i. PICK i : i = [it EXCEPT !.node = n]
  OBVIOUS
<1>1. /\ it # NoIterator /\ it.node # Null /\ PointAt(i)
      /\ n = Null => it.owner = HomeOf(it)
  BY <1>n, <1>i DEF Increment
<1>2. PICK c, k : /\ Place(it, S, c, k)
                  /\ view.at = [list |-> c, index |-> k, dir |-> Facing(it)]
                  /\ view.at # NoIterator /\ c \in Lists /\ k \in Nat
                  /\ HomeOf(it) = c
  BY <1>1, ThisPlace
<1>s. PICK s : s = S[c]
  OBVIOUS
<1>m. PICK m : m = Len(s)
  OBVIOUS
<1>3. /\ m \in Nat /\ \A x \in 1..m : s[x] \in Nodes /\ s[x] # Null
      /\ \A x \in 1..m : mem.nxt[s[x]] = IF x = m THEN Null ELSE s[x + 1]
      /\ \A x \in 1..m : mem.pre[s[x]] = IF x = 1 THEN Null ELSE s[x - 1]
  BY <1>2, <1>s, <1>m, LinkAt
<1>4. k \in 1..m /\ s[k] = it.node /\ it \in Iterators
  BY <1>1, <1>2, <1>s, <1>m DEF Place
<1>5. it.dir \in Directions
  BY <1>4 DEF Iterators
<1>l. PICK l : l = IF it.dir = "nxt" THEN k + 1 ELSE k - 1
  OBVIOUS
<1>6. n = IF l \in 1..m THEN s[l] ELSE Null
  <2>1. CASE it.dir = "nxt"
    <3>1. n = IF k = m THEN Null ELSE s[k + 1]
      BY <1>3, <1>4, <1>n, <2>1
    <3>2. k + 1 \in 1..m <=> k # m
      BY <1>3, <1>4
    <3>. QED  BY <1>l, <2>1, <3>1, <3>2
  <2>2. CASE it.dir # "nxt"
    <3>1. n = IF k = 1 THEN Null ELSE s[k - 1]
      BY <1>3, <1>4, <1>5, <1>n, <2>2 DEF Directions
    <3>2. k - 1 \in 1..m <=> k # 1
      BY <1>3, <1>4
    <3>. QED  BY <1>l, <2>2, <3>1, <3>2
  <2>. QED  BY <2>1, <2>2
<1>7. n \in Nodes \cup {Null}
  BY <1>3, <1>6
<1>8. i \in Iterators /\ i.owner = it.owner /\ i.node = n /\ i.dir = it.dir
  BY <1>4, <1>7, <1>i DEF Iterators
<1>9. Place(i, S, c, l)
  <2>1. CASE l \in 1..m
    BY <1>2, <1>3, <1>6, <1>8, <1>s, <1>m, <2>1 DEF Place
  <2>2. CASE l \notin 1..m
    <3>1. n = Null /\ i.owner = c
      BY <1>1, <1>2, <1>6, <1>8, <2>2
    <3>2. l = IF it.dir = "nxt" THEN m + 1 ELSE 0
      BY <1>3, <1>4, <1>l, <2>2
    <3>. QED  BY <1>2, <1>8, <1>s, <1>m, <3>1, <3>2 DEF Place, EndOf
  <2>. QED  BY <2>1, <2>2
<1>D. PICK D : D = Facing(i)
  OBVIOUS
<1>10. Promise!PointAt(c, l, D)
  BY <1>1, <1>9, <1>D, StepTo
<1>11. D = Facing(it)
  BY <1>8, <1>D DEF Facing
<1>12. l = IF D = "forward" THEN k + 1 ELSE k - 1
  BY <1>l, <1>11 DEF Facing
<1>13. Promise!OnElement
  <2>1. Len(view.content[c]) = m
    BY <1>2, <1>s, <1>m, LengthOf
  <2>. QED  BY <1>2, <1>4, <2>1 DEF Promise!OnElement
<1>. QED  BY <1>2, <1>10, <1>11, <1>12, <1>13 DEF Promise!Increment

LEMMA DecrementStep ==
    ASSUME NEW S, Holds(mem, S), IterOk(it, S), view = View(mem, it), view' = View(mem', it'),
           Decrement
    PROVE  Promise!Decrement
<1>e. PICK e : e = IF it.node = Null THEN it.owner ELSE it.node
  OBVIOUS
<1>n. PICK n : n = mem[Opposite(it.dir)][e]
  OBVIOUS
<1>i. PICK i : i = [it EXCEPT !.node = n]
  OBVIOUS
<1>1. it # NoIterator /\ n # Null /\ PointAt(i)
  BY <1>e, <1>n, <1>i DEF Decrement
<1>2. PICK c, k : /\ Place(it, S, c, k)
                  /\ view.at = [list |-> c, index |-> k, dir |-> Facing(it)]
                  /\ view.at # NoIterator /\ c \in Lists /\ k \in Nat
                  /\ HomeOf(it) = c
  BY <1>1, ThisPlace
<1>s. PICK s : s = S[c]
  OBVIOUS
<1>m. PICK m : m = Len(s)
  OBVIOUS
<1>3. /\ m \in Nat /\ \A x \in 1..m : s[x] \in Nodes /\ s[x] # Null
      /\ mem.nxt[c] = IF m = 0 THEN Null ELSE s[1]
      /\ mem.pre[c] = IF m = 0 THEN Null ELSE s[m]
      /\ \A x \in 1..m : mem.nxt[s[x]] = IF x = m THEN Null ELSE s[x + 1]
      /\ \A x \in 1..m : mem.pre[s[x]] = IF x = 1 THEN Null ELSE s[x - 1]
  BY <1>2, <1>s, <1>m, LinkAt, SMTT(40)
<1>4. /\ it \in Iterators
      /\ \/ it.node # Null /\ k \in 1..m /\ s[k] = e
         \/ it.node = Null /\ e = c /\ k = IF it.dir = "nxt" THEN m + 1 ELSE 0
  BY <1>2, <1>e, <1>s, <1>m DEF Place, EndOf
<1>5. it.dir \in Directions
  BY <1>4 DEF Iterators
<1>l. PICK l : l = IF it.dir = "nxt" THEN k - 1 ELSE k + 1
  OBVIOUS
<1>6. n = s[l] /\ l \in 1..m /\ k # IF it.dir = "nxt" THEN 1 ELSE m
  <2>1. CASE it.dir = "nxt"
    <3>1. n = mem.pre[e]
      BY <1>n, <2>1 DEF Opposite
    <3>2. CASE it.node # Null
      <4>1. n = IF k = 1 THEN Null ELSE s[k - 1]
        BY <1>3, <1>4, <3>1, <3>2
      <4>2. k # 1 /\ n = s[k - 1]
        BY <1>1, <4>1
      <4>3. k - 1 \in 1..m
        BY <1>3, <1>4, <3>2, <4>2
      <4>. QED  BY <1>l, <2>1, <4>2, <4>3
    <3>3. CASE it.node = Null
      <4>1. n = (IF m = 0 THEN Null ELSE s[m]) /\ k = m + 1
        BY <1>3, <1>4, <2>1, <3>1, <3>3
      <4>2. m # 0 /\ n = s[m]
        BY <1>1, <4>1
      <4>3. k - 1 = m /\ k # 1 /\ m \in 1..m
        BY <1>3, <4>1, <4>2
      <4>. QED  BY <1>l, <2>1, <4>2, <4>3
    <3>. QED  BY <3>2, <3>3
  <2>2. CASE it.dir # "nxt"
    <3>1. n = mem.nxt[e]
      BY <1>n, <2>2 DEF Opposite
    <3>2. CASE it.node # Null
      <4>1. n = IF k = m THEN Null ELSE s[k + 1]
        BY <1>3, <1>4, <3>1, <3>2
      <4>2. k # m /\ n = s[k + 1]
        BY <1>1, <4>1
      <4>3. k + 1 \in 1..m
        BY <1>3, <1>4, <3>2, <4>2
      <4>. QED  BY <1>l, <2>2, <4>2, <4>3
    <3>3. CASE it.node = Null
      <4>1. n = (IF m = 0 THEN Null ELSE s[1]) /\ k = 0
        BY <1>3, <1>4, <2>2, <3>1, <3>3
      <4>2. m # 0 /\ n = s[1]
        BY <1>1, <4>1
      <4>3. k + 1 = 1 /\ k # m /\ 1 \in 1..m
        BY <1>3, <4>1, <4>2
      <4>. QED  BY <1>l, <2>2, <4>2, <4>3
    <3>. QED  BY <3>2, <3>3
  <2>. QED  BY <2>1, <2>2
<1>7. n \in Nodes
  BY <1>3, <1>6
<1>8. i \in Iterators /\ i.node = n /\ i.dir = it.dir
  BY <1>4, <1>7, <1>i DEF Iterators
<1>9. Place(i, S, c, l)
  BY <1>1, <1>2, <1>6, <1>8, <1>s, <1>m DEF Place
<1>D. PICK D : D = Facing(i)
  OBVIOUS
<1>10. Promise!PointAt(c, l, D)
  BY <1>1, <1>9, <1>D, StepTo
<1>11. D = Facing(it)
  BY <1>8, <1>D DEF Facing
<1>12. l = IF D = "forward" THEN k - 1 ELSE k + 1
  BY <1>l, <1>11 DEF Facing
<1>13. k # Promise!FirstIndex(c, D)
  <2>1. Len(view.content[c]) = m
    BY <1>2, <1>s, <1>m, LengthOf
  <2>2. D = "forward" <=> it.dir = "nxt"
    BY <1>11 DEF Facing
  <2>. QED  BY <1>6, <2>1, <2>2 DEF Promise!FirstIndex
<1>. QED  BY <1>2, <1>10, <1>11, <1>12, <1>13 DEF Promise!Decrement

LEMMA PromiseInit == Init => Promise!Init
<1>. SUFFICES ASSUME Init PROVE Promise!Init
  OBVIOUS
<1>1. view = View(mem, it) /\ it = NoIterator
  BY DEF Init
<1>2. PICK S : Holds(mem, S) /\ IterOk(it, S)
  BY ListInvInit DEF ListInv
<1>3. view.at = NoIterator
  BY <1>1 DEF View
<1>4. ASSUME NEW c \in Lists
      PROVE  Len(S[c]) = 0
  <2>s. PICK s : s = S[c]
    OBVIOUS
  <2>m. PICK m : m = Len(s)
    OBVIOUS
  <2>1. m \in Nat /\ mem.nxt[c] = IF m = 0 THEN Null ELSE s[1]
    BY <1>2, <2>s, <2>m, LinkAt
  <2>2. \A i \in 1..m : s[i] # Null
    BY <1>2, <2>s, <2>m, LinkAt
  <2>3. c \in Entities
    BY NullFacts
  <2>4. mem.nxt[c] = Null
    BY <2>3, InitMem
  <2>. QED  BY <2>1, <2>2, <2>4, <2>s, <2>m
<1>C. PICK C : C = view.content
  OBVIOUS
<1>5. ContentIs(C, mem, S)
  BY <1>1, <1>2, <1>C, ViewIs
<1>6. C = [c \in Lists |-> C[c]] /\ \A c \in Lists : C[c] = <<>>
  <2>1. ASSUME NEW c \in Lists
        PROVE  C[c] = <<>>
    <3>1. C[c] = <<>> <=> Len(S[c]) = 0
      BY <1>1, <1>2, <1>C, LengthOf
    <3>. QED  BY <1>4, <3>1
  <2>. QED  BY <1>5, <2>1 DEF ContentIs
<1>7. C = [c \in Lists |-> <<>>]
  BY <1>6
<1>. QED  BY <1>3, <1>7, <1>C DEF Promise!Init

LEMMA CallOnePlace ==
    ASSUME NEW S, Holds(mem, S), IterOk(it, S), view = View(mem, it), view' = View(mem', it'),
           \/ /\ Position
              /\ \/ \E v \in Values : \E n \in FreeFor(mem, HomeOf(it)) : Insert(v, n)
                 \/ \E last \in RangeEnds : Erase(last)
           \/ \E c \in Lists, d \in Directions : Begin(c, d) \/ End(c, d)
           \/ Increment \/ Decrement
    PROVE  Promise!OnePosition
<1>1. CASE /\ Position
           /\ \E v \in Values : \E n \in FreeFor(mem, HomeOf(it)) : Insert(v, n)
  BY <1>1, InsertStep DEF Promise!OnePosition
<1>2. CASE Position /\ \E last \in RangeEnds : Erase(last)
  <2>1. \E j \in 1..(IF Promise!Usable THEN Len(view.content[view.at.list]) + 1 ELSE 0) :
              j >= view.at.index /\ Promise!EraseHere(j)
    BY <1>2, EraseStep
  <2>. QED  BY <2>1 DEF Promise!OnePosition
<1>3. CASE \E c \in Lists, d \in Directions : Begin(c, d) \/ End(c, d)
  <2>1. PICK c \in Lists, d \in Directions : Begin(c, d) \/ End(c, d)
    BY <1>3
  <2>2. CASE Begin(c, d)
    BY <2>2, BeginStep DEF Promise!OnePosition
  <2>3. CASE End(c, d)
    BY <2>3, EndStep DEF Promise!OnePosition
  <2>. QED  BY <2>1, <2>2, <2>3
<1>4. CASE Increment
  BY <1>4, IncrementStep DEF Promise!OnePosition
<1>5. CASE Decrement
  BY <1>5, DecrementStep DEF Promise!OnePosition
<1>. QED  BY <1>1, <1>2, <1>3, <1>4, <1>5

LEMMA CallStep ==
    ASSUME NEW S, Holds(mem, S), IterOk(it, S), view = View(mem, it), view' = View(mem', it'),
           Call
    PROVE  Promise!Next
<1>1. CASE \/ /\ Position
              /\ \/ \E v \in Values : \E n \in FreeFor(mem, HomeOf(it)) : Insert(v, n)
                 \/ \E last \in RangeEnds : Erase(last)
           \/ \E c \in Lists, d \in Directions : Begin(c, d) \/ End(c, d)
           \/ Increment \/ Decrement
  BY <1>1, CallOnePlace DEF Promise!Next
<1>2. CASE \E c \in Lists, v \in Values : \E n \in FreeFor(mem, c) :
              PushFrontOf(c, v, n) \/ PushBackOf(c, v, n)
  <2>1. PICK c \in Lists, v \in Values : \E n \in FreeFor(mem, c) :
                PushFrontOf(c, v, n) \/ PushBackOf(c, v, n)
    BY <1>2
  <2>2. PICK n \in FreeFor(mem, c) : PushFrontOf(c, v, n) \/ PushBackOf(c, v, n)
    BY <2>1
  <2>3. CASE PushFrontOf(c, v, n)
    BY <2>3, PushFrontStep DEF Promise!Next
  <2>4. CASE PushBackOf(c, v, n)
    BY <2>4, PushBackStep DEF Promise!Next
  <2>. QED  BY <2>2, <2>3, <2>4
<1>3. ASSUME NEW c \in Lists, PopFront(c) \/ PopBack(c) \/ Clear(c)
      PROVE  Promise!Next
  <2>1. CASE PopFront(c)
    BY <2>1, PopFrontStep DEF Promise!Next
  <2>2. CASE PopBack(c)
    BY <2>2, PopBackStep DEF Promise!Next
  <2>3. CASE Clear(c)
    BY <2>3, ClearStep DEF Promise!Next
  <2>. QED  BY <1>3, <2>1, <2>2, <2>3
<1>4. ASSUME NEW c \in Lists, NEW d \in Lists, c # d,
             \/ CopyAssign(c, d) \/ MoveAssign(c, d)
             \/ SwapSameHeap(c, d) \/ SwapAcross(c, d)
      PROVE  Promise!Next
  <2>0. d \in Lists \ {c}
    BY <1>4
  <2>1. CASE CopyAssign(c, d)
    <3>1. Promise!Copy(c, d)
      BY <1>4, <2>1, CopyStep
    <3>. QED  BY <2>0, <3>1 DEF Promise!Next
  <2>2. CASE MoveAssign(c, d)
    <3>1. Promise!Move(c, d)
      BY <1>4, <2>2, MoveStep
    <3>. QED  BY <2>0, <3>1 DEF Promise!Next
  <2>3. CASE SwapSameHeap(c, d)
    <3>1. Promise!Swap(c, d)
      BY <1>4, <2>3, SwapSameHeapStep
    <3>. QED  BY <2>0, <3>1 DEF Promise!Next
  <2>4. CASE SwapAcross(c, d)
    <3>1. Promise!SwapAcross(c, d)
      BY <1>4, <2>4, SwapAcrossStep
    <3>. QED  BY <2>0, <3>1 DEF Promise!Next
  <2>. QED  BY <1>4, <2>1, <2>2, <2>3, <2>4
<1>. QED  BY <1>1, <1>2, <1>3, <1>4 DEF Call

(* Every sequence of calls does to the lists and to the iterator what it   *)
(* would do to sequences of values and a place in them: pushes, pops,      *)
(* insert, erase, clear, copies and moves, and swaps within one heap, lose *)
(* no value, double none and leave the caller's iterator at its element    *)
(* (offset_list.hpp).  A swap between heaps gives one list all the values  *)
(* of the other, but that one only the first for sure (:1038-1042).        *)
THEOREM ListsAreSequences == Spec => SequencesSpec
<1>1. Init => Promise!Init
  BY PromiseInit
<1>2. ListInv /\ [Next]_vars => [Promise!Next]_(Promise!avars)
  <2>. SUFFICES ASSUME ListInv, [Next]_vars
                PROVE  Promise!Next \/ UNCHANGED Promise!avars
    OBVIOUS
  <2>1. PICK S : Holds(mem, S) /\ IterOk(it, S)
    BY DEF ListInv
  <2>2. CASE Next
    <3>1. Call /\ view' = View(mem', it') /\ view = View(mem, it)
      BY <2>2 DEF Next, ListInv
    <3>. QED  BY <2>1, <3>1, CallStep
  <2>3. CASE UNCHANGED vars
    BY <2>3 DEF vars, Promise!avars
  <2>. QED  BY <2>2, <2>3
<1>. QED  BY <1>1, <1>2, ListsAreWhole, PTL DEF Spec, SequencesSpec, Promise!Spec

=============================================================================
