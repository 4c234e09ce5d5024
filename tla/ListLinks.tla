----------------------------- MODULE ListLinks -----------------------------
(***************************************************************************)
(* The links of the offset_lists in one piece of shared memory             *)
(* (libipsm_mem/inc/offset_list.hpp): the stores each operation makes, in  *)
(* program order, and what is read from them.  Constant operators only;    *)
(* the modules of the list's users hold the links in their variables and   *)
(* decide where a store may be the last.                                   *)
(*                                                                         *)
(* The links are a record of two functions.  For a node they are op_nxt_   *)
(* and op_pre_; for a list, nxt stands for op_head_ and pre for op_tail_.  *)
(* A node has one pair of links, whichever list it is reached from.        *)
(***************************************************************************)
EXTENDS Naturals, SequencesExt

CONSTANTS Nodes,    \* the nodes an allocator can hand out
          Lists,    \* the lists
          Null      \* nullptr, and the node of end()

ASSUME LinksAssumption ==
    /\ Null \notin Nodes \cup Lists
    /\ Nodes \cap Lists = {}

Links ==
    LET Table == [Nodes \cup Lists -> Nodes \cup {Null}]
    IN  [nxt : Table, pre : Table]

NoLinks ==
    LET null == [e \in Nodes \cup Lists |-> Null]
    IN  [nxt |-> null, pre |-> null]

FirstNode(l, c) == l.nxt[c]
LastNode(l, c) == l.pre[c]
IsEmpty(l, c) == FirstNode(l, c) = Null

SetNxt(n, v) == <<"nxt", n, v>>
SetPre(n, v) == <<"pre", n, v>>
SetHead(c, v) == SetNxt(c, v)
SetTail(c, v) == SetPre(c, v)

Store(l, w) == [l EXCEPT ![w[1]][w[2]] = w[3]]
AfterStores(l, ws) ==
    LET after[i \in 0..Len(ws)] ==
            IF i = 0 THEN l ELSE Store(after[i - 1], ws[i])
    IN  after[Len(ws)]

(* The node's constructor: both links null. *)
Constructed(l, n) == AfterStores(l, <<SetPre(n, Null), SetNxt(n, Null)>>)

(* Mutant: op_tail_ stays where it was. *)
PushBackTailKept(l, c, n) ==
    IF LastNode(l, c) = Null
    THEN <<SetHead(c, n), SetTail(c, n)>>
    ELSE <<SetNxt(LastNode(l, c), n), SetPre(n, LastNode(l, c))>>

(* insert_node_to_back. *)
PushBack(l, c, n) ==
    IF LastNode(l, c) = Null
    THEN <<SetHead(c, n), SetTail(c, n)>>
    ELSE <<SetNxt(LastNode(l, c), n), SetPre(n, LastNode(l, c)), SetTail(c, n)>>

(* Mutant: the first element of a list does not become its tail. *)
PushFrontTailUnset(l, c, n) ==
    IF FirstNode(l, c) = Null
    THEN <<SetHead(c, n)>>
    ELSE <<SetPre(FirstNode(l, c), n), SetNxt(n, FirstNode(l, c)), SetHead(c, n)>>

(* insert_node_to_front. *)
PushFront(l, c, n) ==
    IF FirstNode(l, c) = Null
    THEN <<SetHead(c, n), SetTail(c, n)>>
    ELSE <<SetPre(FirstNode(l, c), n), SetNxt(n, FirstNode(l, c)), SetHead(c, n)>>

(* Mutant: the node before does not learn of its new neighbour. *)
InsertBeforeOneWay(l, c, pos, n) ==
    IF pos = Null THEN PushBack(l, c, n)
    ELSE <<SetPre(pos, n), SetPre(n, l.pre[pos]), SetNxt(n, pos)>>
         \o IF l.pre[pos] = Null THEN <<SetHead(c, n)>> ELSE <<>>

(* insert_node_before_position; the node of end() is null. *)
InsertBefore(l, c, pos, n) ==
    CASE pos = Null -> PushBack(l, c, n)
      [] pos # Null /\ l.pre[pos] = Null ->
           <<SetPre(pos, n), SetNxt(n, pos), SetHead(c, n)>>
      [] OTHER ->
           <<SetNxt(l.pre[pos], n), SetPre(pos, n),
             SetPre(n, l.pre[pos]), SetNxt(n, pos)>>

(* Head and tail of d become those of c, and d is left empty. *)
Steal(l, c, d) ==
    <<SetHead(c, FirstNode(l, d)), SetHead(d, Null),
      SetTail(c, LastNode(l, d)), SetTail(d, Null)>>

(* The swaps of op_head_ and op_tail_. *)
Exchange(l, c, d) ==
    <<SetHead(d, FirstNode(l, c)), SetHead(c, FirstNode(l, d)),
      SetTail(d, LastNode(l, c)), SetTail(c, LastNode(l, d))>>

(* The four cases at the end of erase: pre and nxt become neighbours. *)
Unlink(c, pre, nxt) ==
    CASE pre = Null /\ nxt = Null -> <<SetHead(c, Null), SetTail(c, Null)>>
      [] pre = Null /\ nxt # Null -> <<SetHead(c, nxt), SetPre(nxt, Null)>>
      [] pre # Null /\ nxt = Null -> <<SetTail(c, pre), SetNxt(pre, Null)>>
      [] OTHER -> <<SetNxt(pre, nxt), SetPre(nxt, pre)>>

(* begin() to end(): the nodes from op_head_ on, at most Steps + 1.        *)
Forward(l, c, Steps) ==
    LET node[i \in 0..Steps] ==
            IF i = 0 THEN FirstNode(l, c)
            ELSE IF node[i - 1] = Null THEN Null ELSE l.nxt[node[i - 1]]
        visited == Cardinality({i \in 0..Steps : node[i] # Null})
    IN  [i \in 1..visited |-> node[i - 1]]
=============================================================================
