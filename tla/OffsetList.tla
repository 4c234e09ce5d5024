----------------------------- MODULE OffsetList -----------------------------
(***************************************************************************)
(* offset_list (libipsm_mem/inc/offset_list.hpp): doubly linked lists in   *)
(* shared heaps, each with the allocator of one heap, used by one caller   *)
(* that keeps an iterator into one of them.  Each action is a whole call;  *)
(* the stores are those of ListLinks.  A call that needs more nodes than   *)
(* the heap has faults and is not taken here (see MsgChannel).             *)
(*                                                                         *)
(* Since no allocator propagates (offset_allocator.hpp:32-33), moves and   *)
(* swaps between heaps go element by element.                              *)
(***************************************************************************)
EXTENDS ListLinks, FiniteSets

CONSTANTS Values,      \* what an element may hold
          Undefined,   \* the data of a node that is not allocated
          HeapOf,      \* the heap of each node, and of each list's allocator
          NoIterator   \* the caller has no iterator it may use

ASSUME ListAssumption ==
    /\ IsFiniteSet(Nodes)
    /\ DOMAIN HeapOf = Nodes \cup Lists
    /\ Undefined \notin Values

VARIABLES mem,   \* nxt and pre of ListLinks, and the data of each node
          it,    \* the caller's iterator: op_owner_, op_cur_node_, direction
          view   \* auxiliary: what mem and it show the caller

vars == <<mem, it, view>>

Directions == {"nxt", "pre"}   \* where ++ goes: iterator, reverse_iterator
Opposite(d) == IF d = "nxt" THEN "pre" ELSE "nxt"
Iterators == [owner : Lists, node : Nodes \cup {Null}, dir : Directions]
(* What view tells of an iterator. *)
Places == [list : Lists, index : Nat, dir : {"forward", "reverse"}]

ASSUME IteratorAssumption == NoIterator \notin Lists \cup Iterators \cup Places

NodesIn(m, c) == Forward(m, c, Cardinality(Nodes))
ValuesIn(m, c) ==
    LET w == NodesIn(m, c) IN [i \in 1..Len(w) |-> m.val[w[i]]]
Allocated(m) == {n \in Nodes : m.val[n] # Undefined}
Elements(c) == ToSet(NodesIn(mem, c))

(* The nodes allocate may return to list c. *)
FreeFor(m, c) == {n \in Nodes \ Allocated(m) : HeapOf[n] = HeapOf[c]}
(* What k calls of allocate may return. *)
Allocations(m, c, k) == {ns \in [1..k -> FreeFor(m, c)] : IsInjective(ns)}

(* The list an iterator is in, by its node. *)
HomeIn(m, i) ==
    LET homes == {c \in Lists : Contains(NodesIn(m, c), i.node)}
    IN  IF homes = {} THEN i.owner ELSE CHOOSE c \in homes : TRUE

(* Values in their order, a place among them (see ListOfValues), and the   *)
(* nodes that are allocated and in no list.                                *)
View(m, i) ==
    LET nodes == [c \in Lists |-> NodesIn(m, c)]
        w == nodes[HomeIn(m, i)]
        index == CASE i.node # Null -> SelectInSeq(w, LAMBDA n : n = i.node)
                   [] i.node = Null /\ i.dir = "nxt" -> Len(w) + 1
                   [] OTHER -> 0
    IN  [content |-> [c \in Lists |-> ValuesIn(m, c)],
         leaked |-> Allocated(m) \ UNION {ToSet(nodes[c]) : c \in Lists},
         at |-> IF i = NoIterator THEN NoIterator
                ELSE [list |-> HomeIn(m, i), index |-> index,
                      dir |-> IF i.dir = "nxt" THEN "forward" ELSE "reverse"]]

Init ==
    /\ mem = [nxt |-> NoLinks.nxt, pre |-> NoLinks.pre,
              val |-> [n \in Nodes |-> Undefined]]
    /\ it = NoIterator
    /\ view = View(mem, it)

(***************************************************************************)
(* The calls, as what they make of the memory.                             *)
(***************************************************************************)

(* uses_allocator_contruct_node. *)
WithNode(m, n, v) == [Constructed(m, n) EXCEPT !.val[n] = v]

(* usee_allocator_destruct_node; what a freed node held is forgotten.      *)
WithoutNode(m, n) == [Constructed(m, n) EXCEPT !.val[n] = Undefined]

(* The loop of erase and clear. *)
Destroyed(m, first, last) ==
    LET turn[i \in 0..Cardinality(Nodes)] ==
            IF i = 0 THEN [mem |-> m, cur |-> first]
            ELSE LET s == turn[i - 1]
                 IN  IF s.cur = last THEN s
                     ELSE [mem |-> WithoutNode(s.mem, s.cur),
                           cur |-> s.mem.nxt[s.cur]]
    IN  turn[Cardinality(Nodes)].mem

(* Mutant: the first node erased becomes the neighbour again. *)
ErasedJoiningErased(m, c, pos, last) ==
    IF pos = Null THEN m
    ELSE AfterStores(Destroyed(m, pos, last), Unlink(c, m.pre[pos], pos))

(* erase( position, last ); nothing at end(). *)
Erased(m, c, pos, last) ==
    IF pos = Null THEN m
    ELSE AfterStores(Destroyed(m, pos, last), Unlink(c, m.pre[pos], last))

(* Mutant: the nodes are not given back. *)
ClearedUnfreed(m, c) == AfterStores(m, <<SetHead(c, Null), SetTail(c, Null)>>)

Cleared(m, c) ==
    AfterStores(Destroyed(m, FirstNode(m, c), Null),
                <<SetHead(c, Null), SetTail(c, Null)>>)

(* A push_back for each of the values vs, in nodes ns. *)
Appended(m, c, ns, vs) ==
    LET after[i \in 0..Len(vs)] ==
            IF i = 0 THEN m
            ELSE LET t == WithNode(after[i - 1], ns[i], vs[i])
                 IN  AfterStores(t, PushBack(t, c, ns[i]))
    IN  after[Len(vs)]

(* Mutant: the elements left behind are not cleared. *)
MovedKeepingSource(m, c, d, ns) ==
    IF HeapOf[c] = HeapOf[d] THEN AfterStores(m, Steal(m, c, d))
    ELSE Appended(m, c, ns, ValuesIn(m, d))

(* Mutant: nodes change their list whatever heap they are from. *)
MovedStealing(m, c, d, ns) == AfterStores(m, Steal(m, c, d))

(* The second half of the move assignment: x is d. *)
Moved(m, c, d, ns) ==
    IF HeapOf[c] = HeapOf[d] THEN AfterStores(m, Steal(m, c, d))
    ELSE Cleared(Appended(m, c, ns, ValuesIn(m, d)), d)

(* The last loop of swap goes to the next node before it destroys "this"   *)
(* one: the first node is never destroyed, each other one is destroyed and *)
(* given back before its data and its link are read.  Of the values w, the *)
(* first is read as it was.  The others are what the element's destructor, *)
(* or the next owner of the memory, made of them, until a link is found to *)
(* be null.  A link that leads anywhere else is a fault or worse, and not  *)
(* taken here.                                                             *)
Salvaged(w) ==
    {s \in UNION {[1..k -> Values] : k \in 0..Len(w)} :
        /\ w # <<>> => s # <<>> /\ s[1] = w[1]
        /\ Len(w) > 1 => Len(s) > 1}

(* vs are the values that the last loop reads: it destroys as many nodes,  *)
(* but for the first.  The links of all the old nodes are forgotten:       *)
(* nobody reaches them any more.                                           *)
SwappedByElement(m, c, d, ns, ms, vs) ==
    LET old == NodesIn(m, c)
        this == Appended(AfterStores(m, <<SetHead(c, Null), SetTail(c, Null)>>),
                         c, ns, ValuesIn(m, d))
        both == Appended(Cleared(this, d), d, ms, vs)
        freed == {old[i] : i \in 2..Len(vs)}
    IN  [both EXCEPT
           !.val = [n \in Nodes |-> IF n \in freed THEN Undefined ELSE @[n]],
           !.nxt = [e \in DOMAIN @ |-> IF e \in ToSet(old) THEN Null ELSE @[e]],
           !.pre = [e \in DOMAIN @ |-> IF e \in ToSet(old) THEN Null ELSE @[e]]]

(***************************************************************************)
(* The caller.                                                             *)
(***************************************************************************)

HomeOf(i) == HomeIn(mem, i)

(* An iterator to an element that goes must not be used again.             *)
DropIterator(gone) ==
    it' = IF it # NoIterator /\ it.node \in gone THEN NoIterator ELSE it

(* It may stand as a position (const_iterator). *)
Position == it # NoIterator /\ it.dir = "nxt"

PushFrontOf(c, v, n) ==
    /\ LET t == WithNode(mem, n, v) IN mem' = AfterStores(t, PushFront(t, c, n))
    /\ UNCHANGED it

PushBackOf(c, v, n) ==
    /\ mem' = Appended(mem, c, <<n>>, <<v>>)
    /\ UNCHANGED it

(* The caller takes the iterator returned or keeps its own. *)
Insert(v, n) ==
    LET c == HomeOf(it)
        t == WithNode(mem, n, v)
    IN  /\ mem' = AfterStores(t, InsertBefore(t, c, it.node, n))
        /\ it' \in {it, [it EXCEPT !.owner = c, !.node = n]}

PopFront(c) ==
    /\ ~IsEmpty(mem, c)
    /\ mem' = Erased(mem, c, FirstNode(mem, c), mem.nxt[FirstNode(mem, c)])
    /\ DropIterator({FirstNode(mem, c)})

PopBack(c) ==
    /\ ~IsEmpty(mem, c)
    /\ mem' = Erased(mem, c, LastNode(mem, c), Null)
    /\ DropIterator({LastNode(mem, c)})

(* The iterator returned stands at last. *)
Erase(last) ==
    LET c == HomeOf(it)
    IN  /\ it.node # Null
        /\ mem' = Erased(mem, c, it.node, last)
        /\ it' = [it EXCEPT !.owner = c, !.node = last]

(* Where a range that starts at the iterator may end. *)
RangeEnds ==
    LET w == NodesIn(mem, HomeOf(it))
        Behind == {i \in 1..Len(w) : \E j \in 1..i : w[j] = it.node}
    IN  {Null} \cup {w[i] : i \in Behind}

Clear(c) ==
    /\ mem' = Cleared(mem, c)
    /\ DropIterator(Elements(c))

CopyAssign(c, d) ==
    LET empty == Cleared(mem, c)
    IN  /\ \E ns \in Allocations(empty, c, Cardinality(Elements(d))) :
              mem' = Appended(empty, c, ns, ValuesIn(empty, d))
        /\ DropIterator(Elements(c))

(* Which of the nodes of d go. *)
LostBy(c, d) == IF HeapOf[c] = HeapOf[d] THEN {} ELSE Elements(d)

MoveAssign(c, d) ==
    LET empty == Cleared(mem, c)
        k == Cardinality(LostBy(c, d))
    IN  /\ \E ns \in Allocations(empty, c, k) : mem' = Moved(empty, c, d, ns)
        /\ DropIterator(Elements(c) \cup LostBy(c, d))

SwapSameHeap(c, d) ==
    /\ HeapOf[c] = HeapOf[d]
    /\ mem' = AfterStores(mem, Exchange(mem, c, d))
    /\ UNCHANGED it

SwapAcross(c, d) ==
    /\ HeapOf[c] # HeapOf[d]
    /\ \E ns \in Allocations(mem, c, Cardinality(Elements(d))),
          vs \in Salvaged(ValuesIn(mem, c)) :
          \E ms \in Allocations(Cleared(mem, d), d, Len(vs)) :
             mem' = SwappedByElement(mem, c, d, ns, ms, vs)
    /\ DropIterator(Elements(c) \cup Elements(d))

PointAt(i) == it' = i /\ UNCHANGED mem

(* begin() and rbegin(), end() and rend(). *)
Begin(c, d) == PointAt([owner |-> c, node |-> mem[d][c], dir |-> d])
End(c, d) == PointAt([owner |-> c, node |-> Null, dir |-> d])

(* A moved element's iterator has the old op_owner_: the caller must not   *)
(* let it reach the end.                                                   *)
Increment ==
    LET next == mem[it.dir][it.node]
    IN  /\ it # NoIterator
        /\ it.node # Null
        /\ next = Null => it.owner = HomeOf(it)
        /\ PointAt([it EXCEPT !.node = next])

(* From the end to the last node of op_owner_; not from the first node.    *)
Decrement ==
    LET cell == IF it.node = Null THEN it.owner ELSE it.node
    IN  /\ it # NoIterator
        /\ mem[Opposite(it.dir)][cell] # Null
        /\ PointAt([it EXCEPT !.node = mem[Opposite(it.dir)][cell]])

Call ==
    \/ \E c \in Lists, v \in Values : \E n \in FreeFor(mem, c) :
          PushFrontOf(c, v, n) \/ PushBackOf(c, v, n)
    \/ /\ Position
       /\ \/ \E v \in Values : \E n \in FreeFor(mem, HomeOf(it)) : Insert(v, n)
          \/ \E last \in RangeEnds : Erase(last)
    \/ \E c \in Lists : PopFront(c) \/ PopBack(c) \/ Clear(c)
    \/ \E c, d \in Lists :
          /\ c # d
          /\ \/ CopyAssign(c, d)
             \/ MoveAssign(c, d)
             \/ SwapSameHeap(c, d)
             \/ SwapAcross(c, d)
    \/ \E c \in Lists, d \in Directions : Begin(c, d) \/ End(c, d)
    \/ Increment \/ Decrement

Next == Call /\ view' = View(mem', it')

Spec == Init /\ [][Next]_vars

-----------------------------------------------------------------------------
(***************************************************************************)
(* Properties.                                                             *)
(***************************************************************************)

(* Links, data and iterator are of their types, and no call leaves a link  *)
(* in a node that it, or an earlier call, gave back.                       *)
TypeOK ==
    /\ [nxt |-> mem.nxt, pre |-> mem.pre] \in Links
    /\ mem.val \in [Nodes -> Values \cup {Undefined}]
    /\ it \in Iterators \cup {NoIterator}
    /\ \A n \in Nodes \ Allocated(mem) : mem.nxt[n] = Null /\ mem.pre[n] = Null

(* Going back from op_tail_ visits the nodes op_head_ leads to, in the     *)
(* opposite order, whatever was inserted, erased, moved or swapped.        *)
WalksAgree ==
    \A c \in Lists :
        LET w == NodesIn(mem, c)
        IN  /\ IsInjective(w)
            /\ LastNode(mem, c) = IF w = <<>> THEN Null ELSE Last(w)
            /\ \A i \in 1..Len(w) :
                  mem.pre[w[i]] = IF i = 1 THEN Null ELSE w[i - 1]

(* A list reaches allocated nodes of its own heap only, so that clear      *)
(* gives each back to the allocator it is from; no two lists share one.    *)
NodesAreOwned ==
    \A c \in Lists :
        /\ Elements(c) \subseteq Allocated(mem)
        /\ \A n \in Elements(c) : HeapOf[n] = HeapOf[c]
        /\ \A d \in Lists \ {c} : Elements(c) \cap Elements(d) = {}

(* No call but a swap between heaps loses a node: each frees what it       *)
(* unlinks.  That one never gives the first node of a list back, nor those *)
(* it does not get to (offset_list.hpp:1038-1042).                         *)
OthersLeakNothing ==
    [][view'.leaked # view.leaked => \E c, d \in Lists : SwapAcross(c, d)]_vars

(* front() and back() after a push, and what a pop takes, are those of a   *)
(* sequence, for every list that can be reached.                           *)
EndsAreInOrder ==
    \A c \in Lists :
        /\ \A n \in FreeFor(mem, c), v \in Values :
              LET t == WithNode(mem, n, v)
                  Of(stores) == ValuesIn(AfterStores(t, stores), c)
              IN  /\ Of(PushFront(t, c, n)) = <<v>> \o ValuesIn(mem, c)
                  /\ Of(PushBack(t, c, n)) = Append(ValuesIn(mem, c), v)
                  /\ Of(InsertBefore(t, c, Null, n)) = Append(ValuesIn(mem, c), v)
        /\ ~IsEmpty(mem, c) =>
              ValuesIn(Erased(mem, c, LastNode(mem, c), Null), c)
                = Front(ValuesIn(mem, c))

(***************************************************************************)
(* Refinement.                                                             *)
(***************************************************************************)
Promise == INSTANCE ListOfValues
             WITH content <- view.content, at <- view.at, Nowhere <- NoIterator

(* Every sequence of calls does to the lists and to the iterator what it   *)
(* would do to sequences of values and to a place in them.  A swap between *)
(* heaps gives one list the values of the other, but the other only the    *)
(* first for sure: offset_list.hpp:1038-1042 reads the rest in nodes that  *)
(* it has destroyed.                                                       *)
SequencesSpec == Promise!Spec
=============================================================================
