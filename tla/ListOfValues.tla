---------------------------- MODULE ListOfValues ----------------------------
(***************************************************************************)
(* What the lists promise their caller, with no nodes and no links: each   *)
(* list is a sequence of values; an iterator the caller keeps stays at its *)
(* element, whatever is inserted or removed around it and wherever the     *)
(* element goes, until that element is destroyed.  A swap of lists with    *)
(* different heaps is not one: it promises all values to one of the lists, *)
(* and only the first one to the other.                                    *)
(*                                                                         *)
(* OffsetList refines this module.                                         *)
(***************************************************************************)
EXTENDS Naturals, SequencesExt

CONSTANTS Lists,     \* the lists
          Values,    \* what an element may hold
          HeapOf,    \* the heap of each list
          Nowhere    \* an iterator that may not be used, a list of no elements

VARIABLES content,   \* per list, its values in order
          at         \* the iterator: the list, the index and the direction

avars == <<content, at>>

Directions == {"forward", "reverse"}
Stay == [c \in Lists |-> c]
Points(c, i, d) == [list |-> c, index |-> i, dir |-> d]

(* Index 0 is rend(), the index after the last element is end().           *)
FirstIndex(c, d) == IF d = "forward" THEN 1 ELSE Len(content[c])
PastIndex(c, d) == IF d = "forward" THEN Len(content[c]) + 1 ELSE 0

InList(c) == at # Nowhere /\ at.list = c
OnElement == at # Nowhere /\ at.index \in 1..Len(content[at.list])
Usable == at # Nowhere /\ at.dir = "forward"

Init ==
    /\ content = [c \in Lists |-> <<>>]
    /\ at = Nowhere

PutIn(c, i, v) == content' = [content EXCEPT ![c] = InsertAt(@, i, v)]
TakeOut(c, i, j) ==
    content' = [content EXCEPT
                  ![c] = SubSeq(@, 1, i - 1) \o SubSeq(@, j, Len(@))]

(* What is behind the new element moves up. *)
Insert(c, i, v) ==
    /\ PutIn(c, i, v)
    /\ at' = IF InList(c) /\ at.index >= i
             THEN [at EXCEPT !.index = @ + 1] ELSE at

PushFront(c, v) == Insert(c, 1, v)
PushBack(c, v) == Insert(c, Len(content[c]) + 1, v)

(* The caller keeps its iterator or takes the one to the new element.      *)
InsertHere(v) ==
    /\ Usable
    /\ \/ Insert(at.list, at.index, v)
       \/ PutIn(at.list, at.index, v) /\ UNCHANGED at

(* Elements i to j - 1 go. *)
Drop(c, i, j) ==
    /\ TakeOut(c, i, j)
    /\ at' = CASE ~InList(c) \/ at.index < i -> at
               [] InList(c) /\ at.index \in i..(j - 1) -> Nowhere
               [] OTHER -> [at EXCEPT !.index = @ - (j - i)]

PopFront(c) == content[c] # <<>> /\ Drop(c, 1, 2)
PopBack(c) ==
    /\ content[c] # <<>>
    /\ Drop(c, Len(content[c]), Len(content[c]) + 1)

(* The iterator returned stands where the first removed element was.       *)
EraseHere(j) ==
    /\ Usable
    /\ TakeOut(at.list, at.index, j)
    /\ UNCHANGED at

(* Whole lists change, and their elements go where "to" says.              *)
Become(lists, to) ==
    /\ content' = lists
    /\ at' = CASE at = Nowhere -> Nowhere
               [] OnElement /\ to[at.list] = Nowhere -> Nowhere
               [] OnElement /\ to[at.list] # Nowhere ->
                    [at EXCEPT !.list = to[@]]
               [] OTHER ->
                    [at EXCEPT !.index = IF @ = 0 THEN 0
                                         ELSE Len(lists[at.list]) + 1]

Clear(c) ==
    Become([content EXCEPT ![c] = <<>>], [Stay EXCEPT ![c] = Nowhere])

Copy(c, d) ==
    Become([content EXCEPT ![c] = content[d]], [Stay EXCEPT ![c] = Nowhere])

(* Elements change their list without being copied if the heap is the same. *)
Move(c, d) ==
    Become([content EXCEPT ![c] = content[d], ![d] = <<>>],
           [Stay EXCEPT ![c] = Nowhere,
                        ![d] = IF HeapOf[c] = HeapOf[d] THEN c ELSE Nowhere])

Swap(c, d) ==
    /\ HeapOf[c] = HeapOf[d]
    /\ Become([content EXCEPT ![c] = content[d], ![d] = content[c]],
              [Stay EXCEPT ![c] = d, ![d] = c])

(* The values that may be found in elements that were destroyed, except    *)
(* for the first of w.                                                     *)
Salvaged(w) ==
    {s \in UNION {[1..k -> Values] : k \in 0..Len(w)} :
        w # <<>> => s # <<>> /\ s[1] = w[1]}

SwapAcross(c, d) ==
    /\ HeapOf[c] # HeapOf[d]
    /\ \E s \in Salvaged(content[c]) :
          Become([content EXCEPT ![c] = content[d], ![d] = s],
                 [Stay EXCEPT ![c] = Nowhere, ![d] = Nowhere])

PointAt(c, i, d) == at' = Points(c, i, d) /\ UNCHANGED content
Begin(c, d) == PointAt(c, FirstIndex(c, d), d)
End(c, d) == PointAt(c, PastIndex(c, d), d)

Increment ==
    /\ OnElement
    /\ PointAt(at.list,
               IF at.dir = "forward" THEN at.index + 1 ELSE at.index - 1,
               at.dir)

Decrement ==
    /\ at # Nowhere
    /\ at.index # FirstIndex(at.list, at.dir)
    /\ PointAt(at.list,
               IF at.dir = "forward" THEN at.index - 1 ELSE at.index + 1,
               at.dir)

OnePosition ==
    \/ \E v \in Values : InsertHere(v)
    \/ \E j \in 1..(IF Usable THEN Len(content[at.list]) + 1 ELSE 0) :
          j >= at.index /\ EraseHere(j)
    \/ Increment \/ Decrement
    \/ \E c \in Lists, d \in Directions : Begin(c, d) \/ End(c, d)

Next ==
    \/ OnePosition
    \/ \E c \in Lists :
          \/ \E v \in Values : PushFront(c, v) \/ PushBack(c, v)
          \/ PopFront(c) \/ PopBack(c) \/ Clear(c)
          \/ \E d \in Lists \ {c} :
                \/ Copy(c, d) \/ Move(c, d)
                \/ Swap(c, d) \/ SwapAcross(c, d)

Spec == Init /\ [][Next]_avars
=============================================================================
