-------------------------- MODULE OffsetPtr_proofs --------------------------
(***************************************************************************)
(* For any memory, any address space, any number of processes and any      *)
(* places they map the memory at: pointers lead into the memory, to the    *)
(* same place for all, and each call does what Pointers says.              *)
(*                                                                         *)
(* TypeOK alone is not inductive: an offset may wrap to the address 0 in   *)
(* one process only.  IInv says of an offset, without any process's base,  *)
(* that it leads from its own cell to a cell.                              *)
(***************************************************************************)
EXTENDS OffsetPtr, TLAPS

Leads(x) ==
    IF x \in Procs THEN off[x] = 0 \/ UPlus(TempAt[x], off[x]) - base[x] \in Cells
    ELSE UPlus(x, off[x]) \in Cells

IInv ==
    /\ off \in [Shared \cup Procs -> 0..(M - 1)]
    /\ base \in [Procs -> UNION {BasesOf[p] : p \in Procs}]
    /\ \A p \in Procs : base[p] \in BasesOf[p]
    /\ \A x \in Shared \cup Procs : Leads(x)

-----------------------------------------------------------------------------
(* Arithmetic modulo M. *)

(* The distance from at to a leads from at to a, and is 0 only there. *)
LEMMA ThereAndBack ==
    ASSUME NEW at \in 0..(M - 1), NEW a \in 0..(M - 1)
    PROVE  /\ UMinus(a, at) \in 0..(M - 1)
           /\ UPlus(at, UMinus(a, at)) = a
           /\ UMinus(a, at) = 0 <=> a = at
BY AddressesAssumption DEF AddressesAssumption, UMinus, UPlus

(* An offset from cell to cell is the same wherever the memory lies. *)
LEMMA SameDistance ==
    ASSUME NEW b \in 1..(M - 1 - Size), NEW x \in Cells
    PROVE  /\ \A o \in 0..(M - 1) : UPlus(x, o) \in Cells => UPlus(b + x, o) = b + UPlus(x, o)
           /\ \A c \in Cells : UMinus(b + c, b + x) = UMinus(c, x)
BY AddressesAssumption DEF AddressesAssumption, UMinus, UPlus, Cells

(* Adding to an offset moves its target. *)
LEMMA StepsAdd ==
    ASSUME NEW x \in Cells, NEW o \in 0..(M - 1), NEW d \in -Size..Size,
           UPlus(x, o) \in Cells, UPlus(x, o) + d \in Cells
    PROVE  UPlus(o, Unsigned(d)) = UMinus(UPlus(x, o) + d, x)
BY AddressesAssumption DEF AddressesAssumption, UMinus, UPlus, Unsigned, Cells

(* The places that the assumption names, as facts about one process. *)
LEMMA Places ==
    ASSUME IInv, NEW p \in Procs
    PROVE  /\ base[p] \in 1..(M - 1 - Size)
           /\ TempAt[p] \in 1..(M - 1)
           /\ TempAt[p] \notin base[p]..(base[p] + Size)
           /\ p \notin Shared /\ p \notin Cells /\ p # Null
BY AddressesAssumption DEF IInv, AddressesAssumption, Targets

-----------------------------------------------------------------------------
(* What a process reads leads to the target, but an atomic pointer that is *)
(* nullptr leads to itself.                                                *)
Read(x) == IF x \in Atomics /\ off[x] = 0 THEN x ELSE Target(x)

LEMMA ReadIsTarget ==
    ASSUME NEW p, NEW x, x \in Mine(p) \/ off[x] # 0, p \in Procs
    PROVE  Read(x) = Target(x)
BY AddressesAssumption DEF Read, Mine, Shared, Targets, AddressesAssumption

LEMMA AddressIsRead ==
    ASSUME IInv, NEW p \in Procs, NEW x \in Shared \cup {p}
    PROVE  /\ Address(p, x) = Raw(p, Read(x))
           /\ Read(x) \in Targets
           /\ x \in Atomics => Read(x) \in Cells
<1>1. CASE x = p
  <2>1. x \notin Atomics /\ At(p, x) = TempAt[p] /\ Read(x) = Rel(p, Address(p, p))
    BY <1>1, Places DEF At, Read, Target, Shared
  <2>2. Address(p, x) = CalcAddress(TempAt[p], off[p])
    BY <1>1, <2>1 DEF Address
  <2>3. off[p] = 0 \/ UPlus(TempAt[p], off[p]) - base[p] \in Cells
    BY DEF IInv, Leads
  <2>4. CASE off[p] = 0
    BY <1>1, <2>1, <2>2, <2>4 DEF CalcAddress, Raw, Rel, Targets
  <2>5. CASE off[p] # 0
    <3>1. off[p] \in 0..(M - 1) BY DEF IInv
    <3>. DEFINE a == UPlus(TempAt[p], off[p])
    <3>2. a \in Int BY <3>1, Places, AddressesAssumption DEF UPlus, AddressesAssumption
    <3>3. a - base[p] \in Cells /\ base[p] \in 1..(M - 1 - Size) BY <2>3, <2>5, Places
    <3>4. a # 0 /\ a - base[p] # Null /\ base[p] + (a - base[p]) = a
      BY <3>2, <3>3, AddressesAssumption DEF Cells, Null, AddressesAssumption
    <3>5. Address(p, x) = a BY <2>2, <2>5 DEF CalcAddress
    <3>. HIDE DEF a
    <3>. QED BY <1>1, <2>1, <3>3, <3>4, <3>5 DEF Raw, Rel, Targets
  <2>. QED BY <2>4, <2>5
<1>2. CASE x \in Shared
  <2>1. x \notin Procs /\ x \in Cells BY <1>2, AddressesAssumption DEF AddressesAssumption, Targets
  <2>2. off[x] \in 0..(M - 1) /\ UPlus(x, off[x]) \in Cells BY <1>2, <2>1 DEF IInv, Leads
  <2>3. base[p] \in 1..(M - 1 - Size) BY Places
  <2>4. UPlus(base[p] + x, off[x]) = base[p] + UPlus(x, off[x])
    BY <2>1, <2>2, <2>3, SameDistance
  <2>5. UPlus(x, off[x]) # Null
    BY <2>2, AddressesAssumption DEF Cells, Null, AddressesAssumption
  <2>6. At(p, x) = base[p] + x BY <2>1 DEF At
  <2>7. UPlus(x, 0) = x
    BY <2>1, AddressesAssumption DEF UPlus, Cells, AddressesAssumption
  <2>8. CASE x \notin Atomics /\ off[x] = 0
    BY <2>1, <2>8 DEF Address, CalcAddress, Read, Target, Raw, Targets
  <2>9. CASE x \in Atomics \/ off[x] # 0
    <3>1. Read(x) = UPlus(x, off[x]) BY <2>1, <2>7, <2>9 DEF Read, Target
    <3>2. Address(p, x) = UPlus(base[p] + x, off[x])
      BY <2>6, <2>9 DEF Address, CalcAddress
    <3>. QED BY <2>2, <2>4, <2>5, <3>1, <3>2 DEF Raw, Targets
  <2>. QED BY <2>8, <2>9
<1>. QED BY <1>1, <1>2

LEMMA AddressIsTarget ==
    ASSUME IInv, NEW p \in Procs, NEW x \in Shared \cup {p},
           x \in Mine(p) \/ off[x] # 0
    PROVE  Address(p, x) = Raw(p, Target(x)) /\ Target(x) \in Targets
BY AddressIsRead, ReadIsTarget

(* What a process stores leads to the target, but not to itself. *)
LEMMA OffsetKeepsTarget ==
    ASSUME IInv, NEW p \in Procs, NEW x \in Shared \cup {p}, NEW c \in Targets,
           off'[x] = Offset(p, x, Raw(p, c)), base' = base
    PROVE  /\ off'[x] \in 0..(M - 1)
           /\ Leads(x)'
           /\ Target(x)' = P!Kept(x, c)
<1>. DEFINE o == off'[x]
<1>1. base[p] \in 1..(M - 1 - Size) /\ TempAt[p] \in 1..(M - 1) BY Places
<1>2. CASE c = Null
  <2>1. o = 0 BY <1>2 DEF Offset, Raw, CalcOffset
  <2>2. o \in 0..(M - 1) BY <2>1, AddressesAssumption DEF AddressesAssumption
  <2>3. CASE x = p
    <3>1. x \notin Atomics /\ x # Null BY <2>3, Places DEF Shared
    <3>2. Address(p, x)' = 0 BY <2>1, <2>3, <3>1 DEF Address, CalcAddress
    <3>. QED BY <1>2, <2>1, <2>2, <2>3, <3>1, <3>2
             DEF Leads, Target, Rel, P!Kept, P!Null, Null
  <2>4. CASE x \in Shared
    <3>1. x \notin Procs /\ x \in Cells
      BY <2>4, AddressesAssumption DEF AddressesAssumption, Targets
    <3>2. UPlus(x, o) = x
      BY <2>1, <3>1, AddressesAssumption DEF UPlus, Cells, AddressesAssumption
    <3>. QED BY <1>2, <2>1, <2>2, <3>1, <3>2
             DEF Leads, Target, P!Kept, P!Null, Null
  <2>. QED BY <2>3, <2>4
<1>3. CASE c \in Cells
  <2>1. c # Null /\ Raw(p, c) = base[p] + c /\ Raw(p, c) \in 1..(M - 1)
    BY <1>1, <1>3, AddressesAssumption DEF Cells, Null, Raw, AddressesAssumption
  <2>2. o = UMinus(base[p] + c, At(p, x))
    BY <2>1 DEF Offset, CalcOffset
  <2>3. CASE x = p
    <3>1. x \notin Atomics /\ At(p, x) = TempAt[p] BY <2>3, Places DEF Shared, At
    <3>2. base[p] + c # TempAt[p]
      BY <1>1, <1>3, Places, AddressesAssumption DEF Cells, AddressesAssumption
    <3>3. /\ o \in 0..(M - 1) /\ o # 0
          /\ UPlus(TempAt[p], o) = base[p] + c
      BY <1>1, <2>1, <2>2, <3>1, <3>2, ThereAndBack
    <3>4. Address(p, p)' = base[p] + c
      BY <2>3, <3>1, <3>3 DEF Address, At, CalcAddress
    <3>5. base[p] + c - base[p] = c /\ base[p] + c # 0 /\ c # x
      BY <1>1, <1>3, <2>3, Places, AddressesAssumption DEF Cells, AddressesAssumption
    <3>6. base'[p] = base[p] /\ off'[p] = o BY <2>3
    <3>7. Target(p)' = c
      BY <1>1, <1>3, <3>4, <3>5, <3>6 DEF Target, Rel, Cells
    <3>8. Leads(p)'
      <4>1. UPlus(TempAt[p], o) - base[p] \in Cells
        BY <1>1, <1>3, <3>3, AddressesAssumption DEF Cells, AddressesAssumption
      <4>. QED BY <3>6, <4>1 DEF Leads, UPlus
    <3>9. P!Kept(p, c) = c BY <2>3, <3>1, <3>5 DEF P!Kept
    <3>. QED BY <2>3, <3>3, <3>7, <3>8, <3>9
  <2>4. CASE x \in Shared
    <3>1. x \notin Procs /\ x \in Cells /\ x \in Nat
      BY <2>4, AddressesAssumption DEF AddressesAssumption, Targets, Cells
    <3>2. o = UMinus(c, x)
      BY <1>1, <1>3, <2>2, <3>1, SameDistance DEF At
    <3>3. x \in 0..(M - 1) /\ c \in 0..(M - 1)
      BY <1>3, <3>1, AddressesAssumption DEF Cells, AddressesAssumption
    <3>4. o \in 0..(M - 1) /\ UPlus(x, o) = c /\ (o = 0 <=> c = x)
      BY <3>2, <3>3, ThereAndBack
    <3>. QED BY <1>3, <2>1, <3>1, <3>4 DEF Leads, Target, P!Kept, P!Null, Null
  <2>. QED BY <2>3, <2>4
<1>. QED BY <1>2, <1>3 DEF Targets
(* A pointer that is not stored to, and whose process stays, is as before. *)
LEMMA Untouched ==
    ASSUME NEW z \in Shared \cup Procs, off'[z] = off[z],
           z \in Procs => base'[z] = base[z]
    PROVE  Leads(z)' = Leads(z) /\ Target(z)' = Target(z)
<1>1. CASE z \in Procs
  BY <1>1 DEF Leads, Target, Rel, Address, At, CalcAddress, UPlus
<1>2. CASE z \notin Procs
  BY <1>2 DEF Leads, Target, UPlus
<1>. QED BY <1>1, <1>2

(* One store. *)
LEMMA StoreOne ==
    ASSUME IInv, NEW p \in Procs, NEW x \in Shared \cup {p}, NEW c \in Targets,
           off' = [off EXCEPT ![x] = Offset(p, x, Raw(p, c))], base' = base
    PROVE  IInv' /\ P!Assign(x, c)
<1>1. off \in [Shared \cup Procs -> 0..(M - 1)] /\ x \in Shared \cup Procs
  BY DEF IInv
<1>2. off'[x] = Offset(p, x, Raw(p, c)) BY <1>1
<1>3. off'[x] \in 0..(M - 1) /\ Leads(x)' /\ Target(x)' = P!Kept(x, c)
  BY <1>2, OffsetKeepsTarget
<1>4. ASSUME NEW z \in Shared \cup Procs, z # x
      PROVE  Leads(z)' /\ Target(z)' = Target(z)
  <2>1. off'[z] = off[z] BY <1>1, <1>4
  <2>. QED BY <2>1, Untouched DEF IInv
<1>5. IInv'
  <2>1. off' \in [Shared \cup Procs -> 0..(M - 1)] BY <1>1, <1>2, <1>3
  <2>. QED BY <1>3, <1>4, <2>1 DEF IInv
<1>6. Pointed' = [Pointed EXCEPT ![x] = P!Kept(x, c)]
  BY <1>1, <1>3, <1>4 DEF Pointed
<1>7. c \in P!Targets BY DEF Targets, Cells, Null, P!Targets, P!Cells, P!Null
<1>. QED BY <1>5, <1>6, <1>7 DEF P!Assign

(* Two stores. *)
LEMMA StoreBoth ==
    ASSUME IInv, NEW p \in Procs, NEW x \in Shared \cup {p}, NEW c \in Targets,
           NEW y \in Shared \cup {p}, NEW d \in Targets, x = y => c = d,
           off' = [off EXCEPT ![x] = Offset(p, x, Raw(p, c)),
                              ![y] = Offset(p, y, Raw(p, d))],
           base' = base
    PROVE  IInv' /\ P!AssignBoth(x, c, y, d)
<1>1. /\ off \in [Shared \cup Procs -> 0..(M - 1)]
      /\ x \in Shared \cup Procs /\ y \in Shared \cup Procs
  BY DEF IInv
<1>2. off'[x] = Offset(p, x, Raw(p, c)) /\ off'[y] = Offset(p, y, Raw(p, d))
  BY <1>1
<1>3. /\ off'[x] \in 0..(M - 1) /\ Leads(x)' /\ Target(x)' = P!Kept(x, c)
      /\ off'[y] \in 0..(M - 1) /\ Leads(y)' /\ Target(y)' = P!Kept(y, d)
  BY <1>2, OffsetKeepsTarget
<1>4. ASSUME NEW z \in Shared \cup Procs, z # x, z # y
      PROVE  Leads(z)' /\ Target(z)' = Target(z)
  <2>1. off'[z] = off[z] BY <1>1, <1>4
  <2>. QED BY <2>1, Untouched DEF IInv
<1>5. IInv'
  <2>1. off' \in [Shared \cup Procs -> 0..(M - 1)] BY <1>1, <1>2, <1>3
  <2>. QED BY <1>3, <1>4, <2>1 DEF IInv
<1>6. Pointed' = [Pointed EXCEPT ![x] = P!Kept(x, c), ![y] = P!Kept(y, d)]
  BY <1>1, <1>3, <1>4 DEF Pointed
<1>7. c \in P!Targets /\ d \in P!Targets
  BY DEF Targets, Cells, Null, P!Targets, P!Cells, P!Null
<1>. QED BY <1>5, <1>6, <1>7 DEF P!AssignBoth

(* Raw pointers are those of the targets that stay in the memory. *)
LEMMA RawPointers ==
    ASSUME IInv, NEW p \in Procs
    PROVE  /\ \A c \in Targets : Legal(p, Raw(p, c)) /\ (Raw(p, c) = 0 <=> c = Null)
           /\ \A c \in Targets, d \in 0..Size :
                  Legal(p, Upcast(Raw(p, c), d)) =>
                      /\ P!Moved(c, d) \in Targets
                      /\ Upcast(Raw(p, c), d) = Raw(p, P!Moved(c, d))
           /\ \A c \in Cells, d \in -Size..Size :
                  Inside(p, Raw(p, c) + d) =>
                      c + d \in Cells /\ Raw(p, c) + d = Raw(p, c + d)
BY Places, AddressesAssumption
   DEF Legal, Inside, Raw, Upcast, Targets, Cells, Null, P!Moved, P!Null, AddressesAssumption

LEMMA TargetsAgree == P!Targets = Targets /\ P!Cells = Cells /\ P!Null = Null
BY DEF Targets, Cells, Null, P!Targets, P!Cells, P!Null

-----------------------------------------------------------------------------
(* The operations. *)

LEMMA SetKept ==
    ASSUME IInv, NEW p \in Procs, NEW x \in Mine(p), NEW c \in Targets, Set(p, x, c)
    PROVE  IInv' /\ P!Set(x, c)
BY StoreOne DEF Set, Assign, P!Set, Mine, Shared

LEMMA CopyKept ==
    ASSUME IInv, NEW p \in Procs, NEW x \in Mine(p), NEW y \in Mine(p),
           NEW d \in Upcasts, Copy(p, x, y, d)
    PROVE  IInv' /\ P!Copy(x, y, d)
<1>. DEFINE c == P!Moved(Target(y), d)
<1>1. x \in Shared \cup {p} /\ y \in Shared \cup {p} /\ d \in 0..Size
  BY AddressesAssumption DEF Mine, Shared, AddressesAssumption
<1>2. Address(p, y) = Raw(p, Target(y)) /\ Target(y) \in Targets
  BY <1>1, AddressIsTarget
<1>3. Legal(p, Upcast(Address(p, y), d)) BY DEF Copy, Assign
<1>4. c \in Targets /\ Upcast(Address(p, y), d) = Raw(p, c)
  BY <1>1, <1>2, <1>3, RawPointers
<1>5. IInv' /\ P!Assign(x, c)
  BY <1>1, <1>4, StoreOne DEF Copy, Assign
<1>6. Pointed[y] = Target(y) BY <1>1 DEF Pointed
<1>. QED BY <1>5, <1>6 DEF P!Copy

LEMMA MoveKept ==
    ASSUME IInv, NEW p \in Procs, NEW x \in Mine(p), NEW y \in Mine(p),
           NEW d \in Upcasts, Move(p, x, y, d)
    PROVE  IInv' /\ P!Move(x, y, d)
<1>. DEFINE c == P!Moved(Target(y), d)
<1>1. x \in Shared \cup {p} /\ y \in Shared \cup {p} /\ d \in 0..Size
  BY AddressesAssumption DEF Mine, Shared, AddressesAssumption
<1>2. Address(p, y) = Raw(p, Target(y)) /\ Target(y) \in Targets
  BY <1>1, AddressIsTarget
<1>3. Legal(p, Upcast(Address(p, y), d)) /\ x # y BY DEF Move
<1>4. c \in Targets /\ Upcast(Address(p, y), d) = Raw(p, c)
  BY <1>1, <1>2, <1>3, RawPointers
<1>5. Null \in Targets /\ Offset(p, y, Raw(p, Null)) = 0
  BY DEF Targets, Offset, Raw, CalcOffset
<1>6. /\ off' = [off EXCEPT ![x] = Offset(p, x, Raw(p, c)),
                            ![y] = Offset(p, y, Raw(p, Null))]
      /\ base' = base
  BY <1>4, <1>5 DEF Move
<1>. HIDE DEF c
<1>7. IInv' /\ P!AssignBoth(x, c, y, Null)
  BY <1>1, <1>3, <1>4, <1>5, <1>6, StoreBoth
<1>8. Pointed[y] = Target(y) BY <1>1 DEF Pointed
<1>. QED BY <1>7, <1>8, TargetsAgree DEF P!Move, c

LEMMA SwapKept ==
    ASSUME IInv, NEW p \in Procs, NEW x \in Mine(p), NEW y \in Mine(p), Swap(p, x, y)
    PROVE  IInv' /\ P!Swap(x, y)
<1>1. x \in Shared \cup {p} /\ y \in Shared \cup {p} BY DEF Mine, Shared
<1>2. /\ Address(p, x) = Raw(p, Target(x)) /\ Target(x) \in Targets
      /\ Address(p, y) = Raw(p, Target(y)) /\ Target(y) \in Targets
  BY <1>1, AddressIsTarget
<1>3. IInv' /\ P!AssignBoth(y, Target(x), x, Target(y))
  BY <1>1, <1>2, StoreBoth DEF Swap
<1>4. Pointed[y] = Target(y) /\ Pointed[x] = Target(x) BY <1>1 DEF Pointed
<1>. QED BY <1>3, <1>4 DEF P!Swap

(* What the operations with pointer arithmetic have in common. *)
LEMMA StepsInside ==
    ASSUME IInv, NEW p \in Procs, NEW x \in Shared \cup {p}, NEW d \in Steps,
           x \in Mine(p) \/ off[x] # 0,
           Address(p, x) # 0, Inside(p, Address(p, x) + d)
    PROVE  /\ Address(p, x) = Raw(p, Target(x)) /\ Target(x) \in Cells
           /\ Target(x) + d \in Targets
           /\ Address(p, x) + d = Raw(p, Target(x) + d)
           /\ Pointed[x] = Target(x) /\ P!MayStep(x, d)
<1>1. Address(p, x) = Raw(p, Target(x)) /\ Target(x) \in Targets BY AddressIsTarget
<1>2. Target(x) # Null BY <1>1 DEF Raw
<1>3. Target(x) \in Cells BY <1>1, <1>2 DEF Targets
<1>4. d \in -Size..Size BY AddressesAssumption DEF AddressesAssumption
<1>5. Target(x) + d \in Cells /\ Address(p, x) + d = Raw(p, Target(x) + d)
  BY <1>1, <1>3, <1>4, RawPointers
<1>6. Pointed[x] = Target(x) BY DEF Pointed
<1>. QED BY <1>1, <1>2, <1>3, <1>5, <1>6, TargetsAgree DEF P!MayStep, Targets

LEMMA AdvanceKept ==
    ASSUME IInv, NEW p \in Procs, NEW x \in Mine(p), NEW d \in Steps,
           Advance(p, x, d)
    PROVE  IInv' /\ P!Advance(x, d)
<1>1. x \in Shared \cup {p} /\ Address(p, x) # 0 /\ Inside(p, Address(p, x) + d)
  BY DEF Mine, Shared, Advance
<1>2. IInv' /\ P!Assign(x, Target(x) + d)
  BY <1>1, StepsInside, StoreOne DEF Advance, Assign
<1>. QED BY <1>1, <1>2, StepsInside DEF P!Advance

LEMMA PostAdvanceKept ==
    ASSUME IInv, NEW p \in Procs, NEW x \in Mine(p), NEW d \in Steps,
           PostAdvance(p, x, d)
    PROVE  IInv' /\ P!PostAdvance(p, x, d) /\ x # p
<1>1. x \in Shared \cup {p} /\ p \in Shared \cup {p} BY DEF Mine, Shared
<1>2. x # p /\ Address(p, x) # 0 /\ Inside(p, Address(p, x) + d)
  BY DEF PostAdvance
<1>3. /\ Address(p, x) = Raw(p, Target(x)) /\ Target(x) \in Targets
      /\ Target(x) + d \in Targets
      /\ Address(p, x) + d = Raw(p, Target(x) + d)
      /\ Pointed[x] = Target(x) /\ P!MayStep(x, d)
  BY <1>1, <1>2, StepsInside DEF Targets
<1>4. /\ off' = [off EXCEPT ![p] = Offset(p, p, Raw(p, Target(x))),
                            ![x] = Offset(p, x, Raw(p, Target(x) + d))]
      /\ base' = base
  BY <1>3 DEF PostAdvance
<1>5. IInv' /\ P!AssignBoth(p, Target(x), x, Target(x) + d)
  BY <1>1, <1>2, <1>3, <1>4, StoreBoth
<1>. QED BY <1>2, <1>3, <1>5 DEF P!PostAdvance

LEMMA PlusKept ==
    ASSUME IInv, NEW p \in Procs, NEW x \in Mine(p), NEW d \in Steps, Plus(p, x, d)
    PROVE  IInv' /\ P!Plus(p, x, d)
<1>1. x \in Shared \cup {p} /\ Address(p, x) # 0 /\ Inside(p, Address(p, x) + d)
  BY DEF Mine, Shared, Plus
<1>2. IInv' /\ P!Assign(p, Target(x) + d)
  BY <1>1, StepsInside, StoreOne DEF Plus, Assign
<1>. QED BY <1>1, <1>2, StepsInside DEF P!Plus

LEMMA StoreKept ==
    ASSUME IInv, NEW p \in Procs, NEW x \in Atomics, NEW y \in Mine(p), Store(p, x, y)
    PROVE  IInv' /\ P!Copy(x, y, 0)
<1>1. x \in Shared \cup {p} /\ y \in Shared \cup {p} BY DEF Mine, Shared
<1>2. Address(p, y) = Raw(p, Target(y)) /\ Target(y) \in Targets
  BY <1>1, AddressIsTarget
<1>3. IInv' /\ P!Assign(x, Target(y)) BY <1>1, <1>2, StoreOne DEF Store, Assign
<1>4. Pointed[y] = Target(y) BY <1>1 DEF Pointed
<1>5. P!Moved(Target(y), 0) = Target(y)
  BY <1>2, AddressesAssumption
     DEF P!Moved, P!Null, Targets, Cells, Null, AddressesAssumption
<1>. QED BY <1>3, <1>4, <1>5 DEF P!Copy

LEMMA LoadKept ==
    ASSUME IInv, NEW p \in Procs, NEW x \in Atomics, Load(p, x)
    PROVE  IInv' /\ (off[x] # 0 => P!Copy(p, x, 0))
<1>1. x \in Shared \cup {p} BY DEF Shared
<1>2. Address(p, x) = Raw(p, Read(x)) /\ Read(x) \in Targets
  BY <1>1, AddressIsRead
<1>3. IInv' /\ P!Assign(p, Read(x)) BY <1>2, StoreOne DEF Load, Assign
<1>4. off[x] # 0 => Pointed[x] = Read(x) BY <1>1, ReadIsTarget DEF Pointed
<1>5. P!Moved(Read(x), 0) = Read(x)
  BY <1>2, AddressesAssumption
     DEF P!Moved, P!Null, Targets, Cells, Null, AddressesAssumption
<1>. QED BY <1>3, <1>4, <1>5 DEF P!Copy

LEMMA ExchangeKept ==
    ASSUME IInv, NEW p \in Procs, NEW x \in Atomics, NEW y \in Mine(p), Exchange(p, x, y)
    PROVE  IInv' /\ (off[x] # 0 => P!Exchange(p, x, y))
<1>1. x \in Shared \cup {p} /\ y \in Shared \cup {p} /\ x # p
  BY Places DEF Mine, Shared
<1>2. /\ Address(p, x) = Raw(p, Read(x)) /\ Read(x) \in Targets
      /\ Address(p, y) = Raw(p, Target(y)) /\ Target(y) \in Targets
  BY <1>1, AddressIsRead, AddressIsTarget
<1>3. IInv' /\ P!AssignBoth(x, Target(y), p, Read(x))
  BY <1>1, <1>2, StoreBoth DEF Exchange
<1>4. Pointed[y] = Target(y) /\ (off[x] # 0 => Pointed[x] = Read(x))
  BY <1>1, ReadIsTarget DEF Pointed
<1>. QED BY <1>3, <1>4 DEF P!Exchange

(* The atomic addition to the offset is the store of the new address. *)
LEMMA AddIsStore ==
    ASSUME IInv, NEW p \in Procs, NEW x \in Atomics, NEW d \in Steps,
           Inside(p, Address(p, x) + d)
    PROVE  /\ UPlus(off[x], Unsigned(d)) = Offset(p, x, Raw(p, Read(x) + d))
           /\ Address(p, x) + d = Raw(p, Read(x) + d)
           /\ Read(x) \in Cells /\ Read(x) + d \in Cells
<1>1. x \in Shared /\ x \in Cells /\ x \notin Procs /\ d \in -Size..Size
  BY AddressesAssumption DEF AddressesAssumption, Shared, Targets
<1>2. /\ off[x] \in 0..(M - 1) /\ UPlus(x, off[x]) \in Cells
      /\ base[p] \in 1..(M - 1 - Size)
  BY <1>1, Places DEF IInv, Leads
<1>3. Read(x) = UPlus(x, off[x])
  <2>1. UPlus(x, 0) = x
    BY <1>1, AddressesAssumption DEF UPlus, Cells, AddressesAssumption
  <2>. QED BY <1>1, <2>1 DEF Read, Target
<1>4. Address(p, x) = Raw(p, Read(x)) /\ Read(x) \in Cells BY <1>1, AddressIsRead
<1>5. Read(x) + d \in Cells /\ Address(p, x) + d = Raw(p, Read(x) + d)
  BY <1>1, <1>4, RawPointers
<1>6. UPlus(off[x], Unsigned(d)) = UMinus(Read(x) + d, x)
  BY <1>1, <1>2, <1>3, <1>5, StepsAdd
<1>7. UMinus(base[p] + (Read(x) + d), base[p] + x) = UMinus(Read(x) + d, x)
  BY <1>1, <1>2, <1>5, SameDistance
<1>8. base[p] + (Read(x) + d) # 0 /\ Read(x) + d # Null
  BY <1>2, <1>5, AddressesAssumption DEF Cells, Null, AddressesAssumption
<1>9. Raw(p, Read(x) + d) = base[p] + (Read(x) + d) /\ At(p, x) = base[p] + x
  BY <1>1, <1>8 DEF Raw, At
<1>. QED BY <1>4, <1>5, <1>6, <1>7, <1>8, <1>9 DEF Offset, CalcOffset

LEMMA FetchAddKept ==
    ASSUME IInv, NEW p \in Procs, NEW x \in Atomics, NEW d \in Steps
    PROVE  /\ FetchAdd(p, x, d) => IInv' /\ (off[x] # 0 => P!FetchAdd(p, x, d))
           /\ AddFetch(p, x, d) => IInv' /\ (off[x] # 0 => P!AddFetch(p, x, d))
<1>1. x \in Shared \cup {p} /\ p \in Shared \cup {p} /\ x # p
  BY Places DEF Shared
<1>2. Address(p, x) = Raw(p, Read(x)) BY <1>1, AddressIsRead
<1>3. ASSUME Inside(p, Address(p, x) + d)
      PROVE  /\ UPlus(off[x], Unsigned(d)) = Offset(p, x, Raw(p, Read(x) + d))
             /\ Address(p, x) + d = Raw(p, Read(x) + d)
             /\ Read(x) \in Cells /\ Read(x) \in Targets
             /\ Read(x) + d \in Cells /\ Read(x) + d \in Targets
  BY <1>3, AddIsStore DEF Targets
<1>4. ASSUME off[x] # 0, Read(x) \in Cells, Read(x) + d \in Cells
      PROVE  Pointed[x] = Read(x) /\ P!MayStep(x, d)
  <2>1. Pointed[x] = Read(x) BY <1>1, <1>4, ReadIsTarget DEF Pointed
  <2>2. Read(x) # Null
    BY <1>4, AddressesAssumption DEF Cells, Null, AddressesAssumption
  <2>. QED BY <1>4, <2>1, <2>2, TargetsAgree DEF P!MayStep
<1>5. ASSUME FetchAdd(p, x, d) PROVE IInv' /\ (off[x] # 0 => P!FetchAdd(p, x, d))
  <2>1. Inside(p, Address(p, x) + d) BY <1>5 DEF FetchAdd
  <2>2. /\ off' = [off EXCEPT ![x] = Offset(p, x, Raw(p, Read(x) + d)),
                              ![p] = Offset(p, p, Raw(p, Read(x)))]
        /\ base' = base
    BY <1>2, <1>3, <1>5, <2>1 DEF FetchAdd
  <2>3. IInv' /\ P!AssignBoth(x, Read(x) + d, p, Read(x))
    BY <1>1, <1>3, <2>1, <2>2, StoreBoth
  <2>. QED BY <1>3, <1>4, <2>1, <2>3 DEF P!FetchAdd
<1>6. ASSUME AddFetch(p, x, d) PROVE IInv' /\ (off[x] # 0 => P!AddFetch(p, x, d))
  <2>1. Inside(p, Address(p, x) + d) BY <1>6 DEF AddFetch
  <2>2. /\ off' = [off EXCEPT ![x] = Offset(p, x, Raw(p, Read(x) + d)),
                              ![p] = Offset(p, p, Raw(p, Read(x) + d))]
        /\ base' = base
    BY <1>3, <1>6, <2>1 DEF AddFetch
  <2>3. IInv' /\ P!AssignBoth(x, Read(x) + d, p, Read(x) + d)
    BY <1>1, <1>3, <2>1, <2>2, StoreBoth
  <2>. QED BY <1>3, <1>4, <2>1, <2>3 DEF P!AddFetch
<1>. QED BY <1>5, <1>6

LEMMA RemapKept ==
    ASSUME IInv, NEW p \in Procs, NEW b \in BasesOf[p], Remap(p, b)
    PROVE  IInv' /\ P!Set(p, Null)
<1>1. off'[p] = 0 /\ p \in Shared \cup Procs /\ p \notin Atomics /\ p # Null
  BY Places DEF IInv, Remap, Shared
<1>2. Leads(p)' /\ Target(p)' = Null
  BY <1>1 DEF Leads, Target, Rel, Address, CalcAddress
<1>3. ASSUME NEW z \in Shared \cup Procs, z # p
      PROVE  Leads(z)' /\ Target(z)' = Target(z)
  <2>1. off'[z] = off[z] /\ (z \in Procs => base'[z] = base[z])
    BY <1>3 DEF IInv, Remap
  <2>. QED BY <2>1, Untouched DEF IInv
<1>4. IInv'
  <2>1. off' \in [Shared \cup Procs -> 0..(M - 1)]
    BY AddressesAssumption DEF IInv, Remap, AddressesAssumption
  <2>2. /\ base' \in [Procs -> UNION {BasesOf[q] : q \in Procs}]
        /\ \A q \in Procs : base'[q] \in BasesOf[q]
    BY DEF IInv, Remap
  <2>. QED BY <1>2, <1>3, <2>1, <2>2 DEF IInv
<1>5. Pointed' = [Pointed EXCEPT ![p] = P!Kept(p, Null)]
  BY <1>1, <1>2, <1>3, TargetsAgree DEF Pointed, P!Kept
<1>. QED BY <1>4, <1>5, TargetsAgree DEF P!Set, P!Assign, Targets

-----------------------------------------------------------------------------
(* The theorems. *)

LEMMA InitIInv == Init => IInv
<1>. SUFFICES ASSUME Init PROVE IInv
  OBVIOUS
<1>1. off \in [Shared \cup Procs -> 0..(M - 1)]
  BY AddressesAssumption DEF Init, AddressesAssumption
<1>2. ASSUME NEW x \in Shared \cup Procs PROVE Leads(x)
  <2>1. off[x] = 0 BY DEF Init
  <2>2. x \notin Procs => UPlus(x, 0) \in Cells
    BY AddressesAssumption DEF UPlus, Cells, AddressesAssumption
  <2>. QED BY <2>1, <2>2 DEF Leads
<1>. QED BY <1>1, <1>2 DEF Init, IInv

(* A step of Next is one of the calls. *)
LEMMA CallOf ==
    ASSUME IInv, NEW p \in Procs,
           \/ \E x \in Mine(p), c \in Targets : Set(p, x, c)
           \/ \E x, y \in Mine(p), d \in Upcasts : Copy(p, x, y, d) \/ Move(p, x, y, d)
           \/ \E x, y \in Mine(p) : Swap(p, x, y)
           \/ \E x \in Mine(p), d \in Steps :
                  Advance(p, x, d) \/ PostAdvance(p, x, d) \/ Plus(p, x, d)
           \/ \E x \in Atomics, y \in Mine(p) : Store(p, x, y) \/ Exchange(p, x, y)
           \/ \E x \in Atomics, d \in Steps : FetchAdd(p, x, d) \/ AddFetch(p, x, d)
           \/ \E x \in Atomics : Load(p, x)
           \/ \E b \in BasesOf[p] : Remap(p, b)
    PROVE  IInv' /\ (P!Next \/ ReadsNull)
<1>1. P!Mine(p) = Mine(p) BY DEF P!Mine, Mine
<1>2. CASE \E x \in Mine(p), c \in Targets : Set(p, x, c)
  BY <1>1, <1>2, SetKept, TargetsAgree DEF P!Next
<1>3. CASE \E x, y \in Mine(p), d \in Upcasts : Copy(p, x, y, d) \/ Move(p, x, y, d)
  <2>1. PICK x \in Mine(p), y \in Mine(p), d \in Upcasts :
            Copy(p, x, y, d) \/ Move(p, x, y, d)
    BY <1>3
  <2>2. IInv' /\ x # y /\ (P!Copy(x, y, d) \/ P!Move(x, y, d))
    BY <2>1, CopyKept, MoveKept DEF Copy, Move
  <2>. QED BY <1>1, <2>2 DEF P!Next
<1>4. CASE \E x, y \in Mine(p) : Swap(p, x, y)
  BY <1>1, <1>4, SwapKept DEF P!Next
<1>5. CASE \E x \in Mine(p), d \in Steps :
               Advance(p, x, d) \/ PostAdvance(p, x, d) \/ Plus(p, x, d)
  <2>1. PICK x \in Mine(p), d \in Steps :
            Advance(p, x, d) \/ PostAdvance(p, x, d) \/ Plus(p, x, d)
    BY <1>5
  <2>2. /\ IInv'
        /\ P!Advance(x, d) \/ (x # p /\ P!PostAdvance(p, x, d)) \/ P!Plus(p, x, d)
    BY <2>1, AdvanceKept, PostAdvanceKept, PlusKept
  <2>. QED BY <1>1, <2>2 DEF P!Next
<1>6. CASE \E x \in Atomics, y \in Mine(p) : Store(p, x, y) \/ Exchange(p, x, y)
  <2>1. PICK x \in Atomics, y \in Mine(p) : Store(p, x, y) \/ Exchange(p, x, y)
    BY <1>6
  <2>2. IInv' /\ (P!Copy(x, y, 0) \/ P!Exchange(p, x, y) \/ ReadsNull)
    BY <2>1, StoreKept, ExchangeKept DEF ReadsNull
  <2>. QED BY <1>1, <2>2 DEF P!Next
<1>7. CASE \E x \in Atomics, d \in Steps : FetchAdd(p, x, d) \/ AddFetch(p, x, d)
  <2>1. PICK x \in Atomics, d \in Steps : FetchAdd(p, x, d) \/ AddFetch(p, x, d)
    BY <1>7
  <2>2. IInv' /\ (P!FetchAdd(p, x, d) \/ P!AddFetch(p, x, d) \/ ReadsNull)
    BY <2>1, FetchAddKept DEF ReadsNull
  <2>. QED BY <2>2 DEF P!Next
<1>8. CASE \E x \in Atomics : Load(p, x)
  <2>1. PICK x \in Atomics : Load(p, x) BY <1>8
  <2>2. IInv' /\ (P!Copy(p, x, 0) \/ ReadsNull)
    BY <2>1, LoadKept DEF ReadsNull
  <2>. QED BY <2>2 DEF P!Next
<1>9. CASE \E b \in BasesOf[p] : Remap(p, b)
  <2>1. IInv' /\ P!Set(p, Null) BY <1>9, RemapKept
  <2>2. p \in P!Mine(p) /\ Null \in P!Targets
    BY <1>1, TargetsAgree DEF Mine, Targets
  <2>. QED BY <2>1, <2>2 DEF P!Next
<1>. QED BY <1>2, <1>3, <1>4, <1>5, <1>6, <1>7, <1>8, <1>9

LEMMA StepKeepsIInv ==
    ASSUME IInv, [Next]_vars
    PROVE  IInv' /\ [P!Next \/ ReadsNull]_Pointed
<1>1. CASE Next BY <1>1, CallOf DEF Next
<1>2. CASE UNCHANGED vars
  <2>1. ASSUME NEW z \in Shared \cup Procs PROVE Leads(z)' /\ Target(z)' = Target(z)
    BY <1>2, <2>1, Untouched DEF vars, IInv
  <2>. QED BY <1>2, <2>1 DEF vars, IInv, Pointed
<1>. QED BY <1>1, <1>2

LEMMA AlwaysIInv == Spec => []IInv
<1>1. Init => IInv BY InitIInv
<1>2. IInv /\ [Next]_vars => IInv' BY StepKeepsIInv
<1>. QED BY <1>1, <1>2, PTL DEF Spec

(* Every offset leads into the memory, for every process that reads it.    *)
THEOREM PointersTyped == Spec => []TypeOK
<1>1. IInv => TypeOK
  <2>. SUFFICES ASSUME IInv, NEW p \in Procs, NEW x \in Shared \cup {p}
                PROVE  Legal(p, Address(p, x))
    BY DEF IInv, TypeOK
  <2>. QED BY AddressIsRead, RawPointers
<1>. QED BY <1>1, AlwaysIInv, PTL

(* A pointer in the memory means the same to all processes, and so do the  *)
(* comparison and the difference of two.                                   *)
THEOREM SamePlace == Spec => []SameForEveryProcess
<1>1. IInv => SameForEveryProcess
  <2>. SUFFICES ASSUME IInv, NEW p \in Procs, NEW q \in Procs,
                       NEW x \in Shared, NEW y \in Shared
                PROVE  /\ Rel(p, Address(p, x)) = Rel(q, Address(q, x))
                       /\ Compare(p, x, y) = Compare(q, x, y)
                       /\ Address(p, x) # 0 /\ Address(p, y) # 0 =>
                              Difference(p, x, y) = Difference(q, x, y)
    BY DEF SameForEveryProcess
  <2>1. /\ Address(p, x) = Raw(p, Read(x)) /\ Address(q, x) = Raw(q, Read(x))
        /\ Address(p, y) = Raw(p, Read(y)) /\ Address(q, y) = Raw(q, Read(y))
        /\ Read(x) \in Targets /\ Read(y) \in Targets
    BY AddressIsRead
  <2>2. base[p] \in 1..(M - 1 - Size) /\ base[q] \in 1..(M - 1 - Size) BY Places
  <2>. DEFINE c == Read(x)  d == Read(y)
  <2>. HIDE DEF c, d
  <2>3. ASSUME c \in Targets, d \in Targets
        PROVE  /\ Rel(p, Raw(p, c)) = Rel(q, Raw(q, c))
               /\ Raw(p, c) < Raw(p, d) <=> Raw(q, c) < Raw(q, d)
               /\ Raw(p, c) = Raw(p, d) <=> Raw(q, c) = Raw(q, d)
               /\ Raw(p, c) # 0 /\ Raw(p, d) # 0 =>
                      Raw(p, c) - Raw(p, d) = Raw(q, c) - Raw(q, d)
    BY <2>2, <2>3, AddressesAssumption
       DEF Raw, Rel, Targets, Cells, Null, AddressesAssumption
  <2>. QED BY <2>1, <2>3 DEF Compare, Difference, c, d
<1>. QED BY <1>1, AlwaysIInv, PTL

(* Each call does to the targets what the abstract operation does; a call  *)
(* that reads an atomic nullptr is excepted.                               *)
THEOREM CallsKept == Spec => CallsAreKept
<1>1. IInv => CallKept
  BY SetKept, CopyKept, MoveKept, SwapKept, AdvanceKept, PostAdvanceKept, PlusKept,
     StoreKept, ExchangeKept, FetchAddKept, LoadKept, RemapKept
     DEF CallKept
<1>2. IInv /\ [Next]_vars => [CallKept]_vars BY <1>1
<1>. QED BY <1>2, AlwaysIInv, PTL DEF Spec, CallsAreKept

(* Offsets in a shared memory implement pointers, but for those reads. *)
THEOREM Refinement == Spec => PointersSpec
<1>1. Init => P!Init
  <2>. SUFFICES ASSUME Init PROVE P!Init
    OBVIOUS
  <2>1. ASSUME NEW x \in Shared \cup Procs PROVE Target(x) = Null
    <3>1. off[x] = 0 BY DEF Init
    <3>2. x \in Procs => x \notin Atomics
      BY AddressesAssumption DEF Shared, Targets, AddressesAssumption
    <3>. QED BY <3>1, <3>2 DEF Target, Address, Rel, CalcAddress
  <2>. QED BY <2>1, TargetsAgree DEF P!Init, Pointed, Shared
<1>2. IInv /\ [Next]_vars => [P!Next \/ ReadsNull]_Pointed BY StepKeepsIInv
<1>. QED BY <1>1, <1>2, AlwaysIInv, PTL DEF Spec, PointersSpec

=============================================================================
