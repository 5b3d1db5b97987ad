--------------------------- MODULE ContainerProofs ---------------------------
(***************************************************************************)
(* Proofs about two containers of utility: the array of weakly referenced  *)
(* objects (WeakObjArray), and the red-black tree of scope_set and         *)
(* scope_map (ScopeTree).  The second starts at "The red-black tree".      *)
(***************************************************************************)
EXTENDS WeakObjArray, ScopeTree, FiniteSetTheorems, NaturalsInduction, WellFoundedInduction, TLAPS

FreeOf(all) == {i \in DOMAIN all : all[i].obj = NoObject}

\* A slot in use is that of a living object that knows it, with a serial number
\* given out before.  A free one has serial number 0, which no pointer has.
SlotInv ==
  \A i \in DOMAIN slots :
    IF slots[i].obj = NoObject THEN slots[i].serial = 0
    ELSE /\ slots[i].obj \in alive
         /\ index[slots[i].obj] = i
         /\ slots[i].serial \in 1 .. gener

OwnerInv ==
  \A a \in alive : /\ life[a] > 0
                   /\ index[a] # kInvalidIndex => slots[index[a]].obj = a

\* The free list without walking it: it leads from free slots to free slots, no
\* two of them lead to the same one and none to the first.  So the first can be
\* taken off, and a slot that was in use can be put in front of it.
Chained(all, head) ==
  /\ head # kInvalidIndex => head \in FreeOf(all)
  /\ \A i \in FreeOf(all) :
       all[i].next # kInvalidIndex =>
         /\ all[i].next \in FreeOf(all)
         /\ all[i].next # head
         /\ \A j \in FreeOf(all) : all[j].next = all[i].next => j = i

FreeInv == Chained(slots, free)

\* What pointer p and the slot it names say of each other.  Its object may be
\* gone, but is never one that is still to come.
PtrAgrees(p) ==
  /\ ptr[p].index # kInvalidIndex => ptr[p].serial \in 1 .. gener
  /\ IsValid(p) => Lives(p)
  /\ Lives(p) => /\ IsValid(p)
                 /\ slots[ptr[p].index].obj = target[p][1]
  /\ target[p] # NoObject => target[p][2] <= life[target[p][1]]

PtrInv == \A p \in Pointers : PtrAgrees(p)

IInv == /\ TypeOK
        /\ Size \in Nat
        /\ SlotInv
        /\ OwnerInv
        /\ FreeInv
        /\ PtrInv

-----------------------------------------------------------------------------
\* A function on 0 .. n - 1 has n arguments.
LEMMA SizeOfInterval == \A n \in Nat : Cardinality(0 .. n - 1) = n
  BY FS_Interval

LEMMA InitInv == Init => IInv
<1> SUFFICES ASSUME Init PROVE IInv
  OBVIOUS
<1>1. DOMAIN slots = {} /\ Size = 0
  BY FS_EmptySet DEF Init, Size
<1>2. slots \in [0 .. Size - 1 -> [serial : 0 .. MaxSerial, next : Indexes,
                                   obj : Addresses \cup {NoObject}]]
  BY <1>1, 0 .. -1 = {} DEF Init
<1>3. TypeOK
  BY <1>2, <1>1, WeakAssumption DEF Init, TypeOK, Null, Indexes, kInvalidIndex
<1> QED
  BY <1>1, <1>3 DEF Init, IInv, SlotInv, OwnerInv, FreeInv, Chained, FreeOf, PtrInv,
                    PtrAgrees, Null, IsValid, Lives, kInvalidIndex

LEMMA KeepConstruct ==
  ASSUME IInv, NEW a \in Addresses, Construct(a) PROVE IInv'
<1> USE DEF IInv, Construct, array
<1>1. TypeOK'
  BY WeakAssumption DEF TypeOK, Indexes, Size, kInvalidIndex
<1>2. (Size \in Nat)'
  BY DEF Size
<1>3. SlotInv'
  BY DEF SlotInv, TypeOK
<1>4. OwnerInv'
  BY DEF OwnerInv, TypeOK, kInvalidIndex
<1>5. FreeInv'
  BY DEF FreeInv
<1>6. PtrInv'
  <2> SUFFICES ASSUME NEW p \in Pointers PROVE PtrAgrees(p)'
    BY DEF PtrInv
  <2>1. PtrAgrees(p)
    BY DEF PtrInv
  <2>2. IsValid(p)' <=> IsValid(p)
    BY DEF IsValid
  <2>3. target[p] # NoObject =>
          target[p] \in Addresses \X (1 .. MaxLife) /\ life[target[p][1]] \in Nat
    BY DEF TypeOK
  <2>4. Lives(p)' <=> Lives(p)
    BY <2>1, <2>3 DEF Lives, PtrAgrees, TypeOK
  <2> QED
    BY <2>1, <2>2, <2>3, <2>4 DEF PtrAgrees, TypeOK
<1> QED
  BY <1>1, <1>2, <1>3, <1>4, <1>5, <1>6

LEMMA KeepDestroy ==
  ASSUME IInv, NEW a \in Addresses, Destroy(a) PROVE IInv'
<1> USE DEF IInv
<1>1. CASE index[a] = kInvalidIndex
  <2> USE <1>1 DEF Destroy
  <2>0. UNCHANGED <<slots, free, index, gener, life, ptr, target>>
        /\ alive' = alive \ {a}
    BY <1>1
  <2>1. TypeOK' /\ (Size \in Nat)'
    BY <2>0 DEF TypeOK, Indexes, Size
  <2>2. \A i \in DOMAIN slots : slots[i].obj # a
    <3>1. a # NoObject
      BY WeakAssumption
    <3>2. DOMAIN slots = 0 .. Size - 1
      BY DEF TypeOK
    <3> QED
      BY <1>1, <3>1, <3>2 DEF SlotInv, kInvalidIndex
  <2>3. SlotInv' /\ OwnerInv' /\ FreeInv'
    BY <2>0, <2>2 DEF SlotInv, OwnerInv, FreeInv
  <2>4. ASSUME NEW p \in Pointers PROVE PtrAgrees(p)'
    <3>1. PtrAgrees(p)
      BY DEF PtrInv
    <3>2. IsValid(p)' <=> IsValid(p)
      BY <2>0 DEF IsValid
    <3>3. Lives(p) => ptr[p].index \in DOMAIN slots
      BY <3>1 DEF PtrAgrees, IsValid, TypeOK, Indexes
    <3>4. Lives(p)' <=> Lives(p)
      BY <2>0, <2>2, <3>1, <3>3 DEF Lives, PtrAgrees
    <3> QED
      BY <2>0, <3>1, <3>2, <3>4 DEF PtrAgrees
  <2> QED
    BY <2>1, <2>3, <2>4 DEF PtrInv
<1>2. CASE index[a] # kInvalidIndex
  <2> DEFINE i == index[a]
  <2>0. /\ a \in alive
        /\ alive' = alive \ {a}
        /\ slots' = [slots EXCEPT ![i] = Slot(0, free, NoObject)]
        /\ free' = i
        /\ index' = [index EXCEPT ![a] = kInvalidIndex]
        /\ UNCHANGED <<gener, life, ptr, target>>
    BY <1>2 DEF Destroy
  <2>1. /\ i \in DOMAIN slots
        /\ DOMAIN slots' = DOMAIN slots
        /\ slots[i].obj = a
        /\ slots'[i] = [serial |-> 0, next |-> free, obj |-> NoObject]
        /\ \A j \in DOMAIN slots : j # i => slots'[j] = slots[j] /\ slots[j].obj # a
        /\ a # NoObject
    BY <1>2, <2>0, WeakAssumption DEF TypeOK, Indexes, SlotInv, OwnerInv, Slot
  <2> HIDE DEF i
  <2>2. TypeOK'
    <3>1. [serial |-> 0, next |-> free, obj |-> NoObject]
            \in [serial : 0 .. MaxSerial, next : Indexes, obj : Addresses \cup {NoObject}]
      BY WeakAssumption DEF TypeOK
    <3>2. Size' = Size /\ Indexes' = Indexes
      BY <2>1 DEF Size, Indexes
    <3>3. slots' \in [0 .. Size - 1 -> [serial : 0 .. MaxSerial, next : Indexes,
                                       obj : Addresses \cup {NoObject}]]
      BY <2>0, <3>1 DEF TypeOK, Slot
    <3>4. index' \in [Addresses -> Indexes] /\ free' \in Indexes
      BY <2>0, <2>1 DEF TypeOK, Indexes, kInvalidIndex
    <3> QED
      BY <2>0, <3>2, <3>3, <3>4 DEF TypeOK
  <2>3. (Size \in Nat)'
    BY <2>1 DEF Size
  <2>4. SlotInv'
    BY <2>0, <2>1 DEF SlotInv, TypeOK
  <2>5. OwnerInv'
    BY <2>0, <2>1 DEF OwnerInv, TypeOK, Indexes
  <2>6. FreeInv'
    <3>1. FreeOf(slots') = FreeOf(slots) \cup {i} /\ i \notin FreeOf(slots)
      BY <2>1 DEF FreeOf
    <3>2. \A j \in FreeOf(slots) : slots'[j] = slots[j]
      BY <2>1, <3>1 DEF FreeOf
    <3>3. slots'[i].next = free
      BY <2>1
    <3>4. Chained(slots', i)
      BY <3>1, <3>2, <3>3 DEF FreeInv, Chained
    <3> QED
      BY <2>0, <3>4 DEF FreeInv
  <2>7. ASSUME NEW p \in Pointers PROVE PtrAgrees(p)'
    <3>1. PtrAgrees(p)
      BY DEF PtrInv
    <3>2. ptr[p].index # kInvalidIndex => ptr[p].index \in DOMAIN slots
      BY DEF TypeOK, Indexes
    <3>3. target[p] # NoObject => target[p][1] \in Addresses
      BY DEF TypeOK
    <3>4. CASE ptr[p].index = i
      <4>1. ~IsValid(p)'
        BY <2>0, <2>1, <3>1, <3>4 DEF IsValid, PtrAgrees
      <4>2. ~Lives(p)'
        BY <2>0, <2>1, <3>1, <3>4 DEF Lives, PtrAgrees, IsValid
      <4> QED
        BY <2>0, <3>1, <4>1, <4>2 DEF PtrAgrees
    <3>5. CASE ptr[p].index # i
      <4>1. IsValid(p)' <=> IsValid(p)
        BY <2>0, <2>1, <3>2, <3>5 DEF IsValid
      <4>2. Lives(p)' <=> Lives(p)
        BY <2>0, <2>1, <3>1, <3>2, <3>5 DEF Lives, PtrAgrees, IsValid
      <4>3. IsValid(p) => slots'[ptr[p].index] = slots[ptr[p].index]
        BY <2>1, <3>2, <3>5 DEF IsValid
      <4> QED
        BY <2>0, <3>1, <4>1, <4>2, <4>3 DEF PtrAgrees
    <3> QED
      BY <3>4, <3>5
  <2> QED
    BY <2>2, <2>3, <2>4, <2>5, <2>6, <2>7 DEF PtrInv
<1> QED
  BY <1>1, <1>2

LEMMA KeepCopyPtr ==
  ASSUME IInv, NEW p \in Pointers, NEW q \in Pointers, CopyPtr(p, q) PROVE IInv'
<1> USE DEF IInv, CopyPtr, array, objects
<1>1. TypeOK' /\ (Size \in Nat)'
  BY DEF TypeOK, Indexes, Size
<1>2. SlotInv' /\ OwnerInv' /\ FreeInv'
  BY DEF SlotInv, OwnerInv, FreeInv
<1>3. ASSUME NEW r \in Pointers PROVE PtrAgrees(r)'
  <2> DEFINE s == IF r = p THEN q ELSE r
  <2>1. ptr'[r] = ptr[s] /\ target'[r] = target[s] /\ PtrAgrees(s)
    BY DEF TypeOK, PtrInv
  <2> HIDE DEF s
  <2> QED
    BY <2>1 DEF PtrAgrees, IsValid, Lives
<1> QED
  BY <1>1, <1>2, <1>3 DEF PtrInv

LEMMA KeepReset ==
  ASSUME IInv, NEW p \in Pointers, Reset(p) PROVE IInv'
<1> USE DEF IInv, Reset, array, objects
<1>1. TypeOK' /\ (Size \in Nat)'
  BY WeakAssumption DEF TypeOK, Indexes, Size, Null
<1>2. SlotInv' /\ OwnerInv' /\ FreeInv'
  BY DEF SlotInv, OwnerInv, FreeInv
<1>3. ASSUME NEW r \in Pointers PROVE PtrAgrees(r)'
  <2>1. CASE r = p
    BY <2>1 DEF TypeOK, PtrAgrees, IsValid, Lives, Null
  <2>2. CASE r # p
    <3>1. ptr'[r] = ptr[r] /\ target'[r] = target[r] /\ PtrAgrees(r)
      BY <2>2 DEF TypeOK, PtrInv
    <3> QED
      BY <3>1 DEF PtrAgrees, IsValid, Lives
  <2> QED
    BY <2>1, <2>2
<1> QED
  BY <1>1, <1>2, <1>3 DEF PtrInv

\* Set on an object that has a slot: the pointer gets its serial number.
LEMMA KeepSetAgain ==
  ASSUME IInv, NEW p \in Pointers, NEW a \in Addresses, Set(p, a),
         index[a] # kInvalidIndex
  PROVE  IInv'
<1> DEFINE i == index[a]
<1> USE DEF IInv
<1>0. /\ a \in alive
      /\ target' = [target EXCEPT ![p] = <<a, life[a]>>]
      /\ ptr' = [ptr EXCEPT ![p] = [index |-> i, serial |-> slots[i].serial]]
      /\ UNCHANGED <<slots, free, gener, life, alive, index>>
  BY DEF Set, array
<1>1. /\ i \in DOMAIN slots
      /\ slots[i].obj = a
      /\ slots[i].serial \in 1 .. gener
      /\ a # NoObject
      /\ gener \in Nat
  BY <1>0, WeakAssumption DEF TypeOK, Indexes, SlotInv, OwnerInv
<1> HIDE DEF i
<1>2. TypeOK'
  <2>1. <<a, life[a]>> \in Addresses \X (1 .. MaxLife)
    BY <1>0, WeakAssumption DEF TypeOK, OwnerInv
  <2>2. slots[i].serial \in 0 .. MaxSerial /\ i \in Indexes
    BY <1>1 DEF TypeOK, Indexes
  <2> QED
    BY <1>0, <2>1, <2>2 DEF TypeOK, Indexes, Size
<1>3. (Size \in Nat)' /\ SlotInv' /\ OwnerInv' /\ FreeInv'
  BY <1>0 DEF Size, SlotInv, OwnerInv, FreeInv
<1>4. ASSUME NEW r \in Pointers PROVE PtrAgrees(r)'
  <2>1. CASE r = p
    <3>1. ptr'[r] = [index |-> i, serial |-> slots[i].serial] /\ target'[r] = <<a, life[a]>>
      BY <1>0, <2>1 DEF TypeOK
    <3>2. life[a] \in Nat /\ <<a, life[a]>> # NoObject
      BY DEF TypeOK, NoObject
    <3>3. i # kInvalidIndex
      BY <1>1 DEF TypeOK, kInvalidIndex
    <3> QED
      BY <1>0, <1>1, <3>1, <3>2, <3>3 DEF PtrAgrees, IsValid, Lives
  <2>2. CASE r # p
    <3>1. ptr'[r] = ptr[r] /\ target'[r] = target[r] /\ PtrAgrees(r)
      BY <1>0, <2>2 DEF TypeOK, PtrInv
    <3> QED
      BY <1>0, <3>1 DEF PtrAgrees, IsValid, Lives
  <2> QED
    BY <2>1, <2>2
<1> QED
  BY <1>2, <1>3, <1>4 DEF PtrInv

\* The slots AllocIndex takes from, and what it knows of them: the first free
\* one, and the list without it.
Offered == IF free = kInvalidIndex THEN Grown ELSE slots
First   == IF free = kInvalidIndex THEN Size ELSE free

LEMMA OfferedIsChained ==
  ASSUME IInv
  PROVE  /\ DOMAIN slots \subseteq DOMAIN Offered
         /\ DOMAIN Offered = 0 .. Cardinality(DOMAIN Offered) - 1
         /\ Cardinality(DOMAIN Offered) \in Nat
         /\ Offered \in [DOMAIN Offered ->
                          [serial : 0 .. MaxSerial, next : {kInvalidIndex} \cup DOMAIN Offered,
                           obj : Addresses \cup {NoObject}]]
         /\ \A j \in DOMAIN slots : Offered[j] = slots[j]
         /\ \A j \in DOMAIN Offered \ DOMAIN slots :
              Offered[j].serial = 0 /\ Offered[j].obj = NoObject
         /\ First # kInvalidIndex
         /\ Chained(Offered, First)
<1> USE DEF IInv
<1>1. CASE free # kInvalidIndex
  BY <1>1 DEF Offered, First, TypeOK, FreeInv, Size, Indexes
<1>2. CASE free = kInvalidIndex
  <2> DEFINE n == Size + inc
  <2>1. /\ Size \in Nat /\ n \in Nat /\ inc \in Nat \ {0}
        /\ Offered = Grown /\ First = Size
        /\ DOMAIN slots = 0 .. Size - 1
        /\ DOMAIN Grown = 0 .. n - 1
    BY <1>2, WeakAssumption DEF Offered, First, TypeOK, Grown
  <2>2. Cardinality(DOMAIN Grown) = n
    BY <2>1, SizeOfInterval
  <2>3. \A j \in DOMAIN slots : j \in DOMAIN Grown /\ Grown[j] = slots[j]
    BY <2>1 DEF Grown
  <2>a. \A j \in Size .. n - 1 :
          /\ j \in DOMAIN Grown /\ j \notin DOMAIN slots
          /\ Grown[j] = Slot(0, IF j = n - 1 THEN kInvalidIndex ELSE j + 1, NoObject)
    BY <2>1 DEF Grown
  <2>4. \A j \in Size .. n - 1 :
          /\ j \in DOMAIN Grown /\ j \notin DOMAIN slots
          /\ Grown[j].serial = 0
          /\ Grown[j].obj = NoObject
          /\ Grown[j].next = IF j = n - 1 THEN kInvalidIndex ELSE j + 1
    <3> SUFFICES ASSUME NEW j \in Size .. n - 1
                 PROVE  /\ j \in DOMAIN Grown /\ j \notin DOMAIN slots
                        /\ Grown[j].serial = 0
                        /\ Grown[j].obj = NoObject
                        /\ Grown[j].next = IF j = n - 1 THEN kInvalidIndex ELSE j + 1
      OBVIOUS
    <3> DEFINE next == IF j = n - 1 THEN kInvalidIndex ELSE j + 1
    <3>1. j \in DOMAIN Grown /\ j \notin DOMAIN slots /\ Grown[j] = Slot(0, next, NoObject)
      BY <2>a
    <3> HIDE DEF next
    <3>2. Grown[j] = [serial |-> 0, next |-> next, obj |-> NoObject]
      BY <3>1 DEF Slot
    <3>3. Grown[j].serial = 0 /\ Grown[j].obj = NoObject /\ Grown[j].next = next
      BY <3>2
    <3> QED
      BY <3>1, <3>3 DEF next
  <2>5. \A j \in DOMAIN Grown : j \in DOMAIN slots \/ j \in Size .. n - 1
    BY <2>1
  <2> HIDE DEF n
  <2>6. Grown \in [DOMAIN Grown ->
                    [serial : 0 .. MaxSerial, next : {kInvalidIndex} \cup DOMAIN Grown,
                     obj : Addresses \cup {NoObject}]]
    <3>1. ASSUME NEW j \in DOMAIN Grown
          PROVE  Grown[j] \in [serial : 0 .. MaxSerial,
                               next : {kInvalidIndex} \cup DOMAIN Grown,
                               obj : Addresses \cup {NoObject}]
      <4>1. CASE j \in DOMAIN slots
        BY <2>1, <2>3, <4>1 DEF TypeOK, Indexes
      <4>2. CASE j \in Size .. n - 1
        <5> DEFINE next == IF j = n - 1 THEN kInvalidIndex ELSE j + 1
        <5>1. next \in {kInvalidIndex} \cup DOMAIN Grown
          BY <2>1, <4>2
        <5>2. Grown[j] = Slot(0, next, NoObject)
          BY <2>a, <4>2
        <5> HIDE DEF next
        <5>3. 0 \in 0 .. MaxSerial
          BY WeakAssumption
        <5> QED
          BY <5>1, <5>2, <5>3 DEF Slot
      <4> QED
        BY <2>5, <4>1, <4>2
    <3> QED
      BY <3>1 DEF Grown
  <2>7. FreeOf(Grown) = FreeOf(slots) \cup (Size .. n - 1)
    <3>1. \A j \in DOMAIN Grown :
            Grown[j].obj = NoObject <=> j \in FreeOf(slots) \cup (Size .. n - 1)
      BY <2>3, <2>4, <2>5 DEF FreeOf
    <3>2. FreeOf(slots) \cup (Size .. n - 1) \subseteq DOMAIN Grown
      BY <2>3, <2>4 DEF FreeOf
    <3> QED
      BY <3>1, <3>2 DEF FreeOf
  <2>8. Chained(Grown, Size)
    <3>1. Size \in FreeOf(Grown)
      BY <2>1, <2>7 DEF n
    <3>2. ASSUME NEW j \in FreeOf(Grown), Grown[j].next # kInvalidIndex
          PROVE  /\ Grown[j].next \in FreeOf(Grown)
                 /\ Grown[j].next # Size
                 /\ \A k \in FreeOf(Grown) : Grown[k].next = Grown[j].next => k = j
      <4>1. \A k \in FreeOf(slots) :
              /\ k \in DOMAIN slots /\ Grown[k] = slots[k]
              /\ slots[k].next # kInvalidIndex => slots[k].next \in 0 .. Size - 1
        BY <2>1, <2>3 DEF FreeOf, FreeInv, Chained
      <4>2. \A k \in Size .. n - 1 :
              Grown[k].next # kInvalidIndex =>
                Grown[k].next = k + 1 /\ k + 1 \in Size .. n - 1 /\ k + 1 > Size
        <5>1. ASSUME NEW k \in Size .. n - 1, Grown[k].next # kInvalidIndex
              PROVE  Grown[k].next = k + 1 /\ k + 1 \in Size .. n - 1 /\ k + 1 > Size
          <6>1. k # n - 1 /\ Grown[k].next = k + 1
            BY <2>4, <5>1
          <6> QED
            BY <2>1, <6>1
        <5> QED
          BY <5>1
      <4>3. CASE j \in FreeOf(slots)
        BY <2>1, <2>7, <3>2, <4>1, <4>2, <4>3 DEF FreeInv, Chained
      <4>4. CASE j \in Size .. n - 1
        <5>1. Grown[j].next = j + 1 /\ j + 1 \in FreeOf(Grown) /\ j + 1 # Size
          BY <2>1, <2>7, <3>2, <4>2, <4>4
        <5>2. ASSUME NEW k \in FreeOf(Grown), Grown[k].next = j + 1 PROVE k = j
          <6>1. k \notin FreeOf(slots)
            <7> SUFFICES ASSUME k \in FreeOf(slots) PROVE FALSE
              OBVIOUS
            <7>1. slots[k].next = j + 1
              BY <4>1, <5>2
            <7>2. j + 1 # kInvalidIndex /\ j + 1 \notin 0 .. Size - 1
              BY <2>1, <4>4 DEF kInvalidIndex
            <7> QED
              BY <4>1, <7>1, <7>2
          <6>2. k \in Size .. n - 1 /\ Grown[k].next # kInvalidIndex
            BY <2>1, <2>7, <4>4, <5>2, <6>1 DEF kInvalidIndex
          <6> QED
            BY <2>1, <4>2, <4>4, <5>2, <6>2
        <5> QED
          BY <5>1, <5>2
      <4> QED
        BY <2>7, <4>3, <4>4
    <3> QED
      BY <3>1, <3>2 DEF Chained
  <2>9. n \in Nat /\ DOMAIN Grown = 0 .. n - 1
    BY <2>1
  <2> QED
    BY <2>1, <2>2, <2>3, <2>4, <2>5, <2>6, <2>8, <2>9 DEF kInvalidIndex
<1> QED
  BY <1>1, <1>2

\* Set on an object that has none: the first free slot becomes its own, and
\* the new serial number is no pointer's but p's.
LEMMA KeepSetFirst ==
  ASSUME IInv, NEW p \in Pointers, NEW a \in Addresses, Set(p, a),
         index[a] = kInvalidIndex
  PROVE  IInv'
<1> DEFINE n == Cardinality(DOMAIN Offered)
           i == First
<1> USE DEF IInv
<1>0. /\ a \in alive
      /\ gener < MaxSerial
      /\ target' = [target EXCEPT ![p] = <<a, life[a]>>]
      /\ slots' = [Offered EXCEPT ![i].obj = a, ![i].serial = gener + 1]
      /\ free' = Offered[i].next
      /\ gener' = gener + 1
      /\ index' = [index EXCEPT ![a] = i]
      /\ ptr' = [ptr EXCEPT ![p] = [index |-> i, serial |-> gener + 1]]
      /\ UNCHANGED <<life, alive>>
  BY DEF Set, Offered, First
<1>1. /\ DOMAIN slots \subseteq DOMAIN Offered
      /\ DOMAIN Offered = 0 .. n - 1
      /\ n \in Nat
      /\ Offered \in [DOMAIN Offered ->
                       [serial : 0 .. MaxSerial, next : {kInvalidIndex} \cup DOMAIN Offered,
                        obj : Addresses \cup {NoObject}]]
      /\ \A j \in DOMAIN slots : Offered[j] = slots[j]
      /\ \A j \in DOMAIN Offered \ DOMAIN slots :
           Offered[j].serial = 0 /\ Offered[j].obj = NoObject
      /\ i # kInvalidIndex
      /\ Chained(Offered, i)
  BY OfferedIsChained
<1> HIDE DEF n, i
<1>2. i \in FreeOf(Offered) /\ i \in DOMAIN Offered /\ Offered[i].obj = NoObject
  BY <1>1 DEF Chained, FreeOf
<1>3. gener \in Nat /\ gener + 1 \in 1 .. MaxSerial /\ MaxSerial \in Nat /\ a # NoObject
  BY <1>0, WeakAssumption DEF TypeOK
<1>4. /\ DOMAIN slots' = DOMAIN Offered
      /\ slots'[i].obj = a /\ slots'[i].serial = gener + 1
      /\ \A j \in DOMAIN Offered : j # i => slots'[j] = Offered[j]
  BY <1>0, <1>1, <1>2
<1>5. Size' = n /\ Indexes \subseteq Indexes' /\ i \in Indexes'
      /\ Indexes' = {kInvalidIndex} \cup DOMAIN Offered
  BY <1>1, <1>2, <1>4 DEF Size, Indexes, n
<1>6. TypeOK'
  <2>1. slots' \in [0 .. n - 1 -> [serial : 0 .. MaxSerial, next : Indexes',
                                   obj : Addresses \cup {NoObject}]]
    <3> DEFINE R == [serial : 0 .. MaxSerial, next : Indexes',
                     obj : Addresses \cup {NoObject}]
               r == [Offered[i] EXCEPT !.obj = a, !.serial = gener + 1]
    <3>1. Offered \in [0 .. n - 1 -> R]
      BY <1>1, <1>5
    <3>2. gener + 1 \in 0 .. MaxSerial
      BY <1>3
    <3>3. r \in R
      BY <1>1, <1>2, <3>1, <3>2, ZenonT(30)
    <3>4. slots' = [Offered EXCEPT ![i] = r]
      BY <1>0
    <3> HIDE DEF R, r
    <3>5. slots' \in [0 .. n - 1 -> R]
      BY <3>1, <3>3, <3>4
    <3> QED
      BY <3>5 DEF R
  <2>2. free' \in Indexes'
    BY <1>0, <1>1, <1>2, <1>5
  <2>3. index' \in [Addresses -> Indexes']
    BY <1>0, <1>5 DEF TypeOK
  <2>4. ptr' \in [Pointers -> [index : Indexes', serial : 0 .. MaxSerial]]
    <3>1. \A r \in Pointers : ptr[r] \in [index : Indexes', serial : 0 .. MaxSerial]
      BY <1>5 DEF TypeOK
    <3>2. [index |-> i, serial |-> gener + 1] \in [index : Indexes', serial : 0 .. MaxSerial]
      BY <1>3, <1>5
    <3>3. ptr \in [Pointers -> [index : Indexes', serial : 0 .. MaxSerial]]
      BY <3>1 DEF TypeOK
    <3> QED
      BY <1>0, <3>2, <3>3
  <2>5. target' \in [Pointers -> {NoObject} \cup (Addresses \X (1 .. MaxLife))]
    <3>1. <<a, life[a]>> \in Addresses \X (1 .. MaxLife)
      BY <1>0, WeakAssumption DEF TypeOK, OwnerInv
    <3> QED
      BY <1>0, <3>1 DEF TypeOK
  <2>6. gener' \in 0 .. MaxSerial /\ life' \in [Addresses -> 0 .. MaxLife]
        /\ alive' \subseteq Addresses
    BY <1>0, <1>3 DEF TypeOK
  <2>7. slots' \in [0 .. Size' - 1 -> [serial : 0 .. MaxSerial, next : Indexes',
                                       obj : Addresses \cup {NoObject}]]
    BY <1>5, <2>1
  <2> QED
    BY <2>2, <2>3, <2>4, <2>5, <2>6, <2>7 DEF TypeOK
<1>7. (Size \in Nat)'
  BY <1>1, <1>5
<1>8. \A j \in DOMAIN Offered :
        Offered[j].obj # NoObject => j \in DOMAIN slots /\ Offered[j] = slots[j]
  BY <1>1
<1>9. SlotInv'
  <2> SUFFICES ASSUME NEW j \in DOMAIN Offered
               PROVE  IF slots'[j].obj = NoObject THEN slots'[j].serial = 0
                      ELSE /\ slots'[j].obj \in alive
                           /\ index'[slots'[j].obj] = j
                           /\ slots'[j].serial \in 1 .. gener + 1
    BY <1>0, <1>4 DEF SlotInv
  <2>1. CASE j = i
    BY <1>0, <1>3, <1>4, <2>1 DEF TypeOK
  <2>2. CASE j # i /\ Offered[j].obj = NoObject
    BY <1>1, <1>4, <2>2 DEF SlotInv
  <2>3. CASE j # i /\ Offered[j].obj # NoObject
    <3>1. j \in DOMAIN slots /\ slots'[j] = slots[j] /\ slots[j].obj # NoObject
      BY <1>4, <1>8, <2>3
    <3>2. slots[j].obj \in alive /\ index[slots[j].obj] = j /\ slots[j].serial \in 1 .. gener
      BY <3>1 DEF SlotInv
    <3>3. slots[j].obj # a /\ j # kInvalidIndex
      BY <1>1, <3>1, <3>2 DEF kInvalidIndex
    <3> QED
      BY <1>0, <1>3, <3>1, <3>2, <3>3 DEF TypeOK
  <2> QED
    BY <2>1, <2>2, <2>3
<1>10. OwnerInv'
  <2> SUFFICES ASSUME NEW b \in alive
               PROVE  /\ life[b] > 0
                      /\ index'[b] # kInvalidIndex => slots'[index'[b]].obj = b
    BY <1>0 DEF OwnerInv
  <2>1. CASE b = a
    BY <1>0, <1>4, <2>1 DEF OwnerInv, TypeOK
  <2>2. CASE b # a
    <3>1. index'[b] = index[b]
      BY <1>0, <2>2 DEF TypeOK
    <3>2. index[b] # kInvalidIndex =>
            index[b] \in DOMAIN slots /\ slots[index[b]].obj = b /\ b # NoObject
      BY WeakAssumption DEF OwnerInv, TypeOK, Indexes
    <3>3. index[b] # kInvalidIndex => index[b] # i /\ slots'[index[b]] = slots[index[b]]
      BY <1>1, <1>2, <1>4, <3>2
    <3> QED
      BY <3>1, <3>2, <3>3 DEF OwnerInv
  <2> QED
    BY <2>1, <2>2
<1>11. FreeInv'
  <2>1. FreeOf(slots') = FreeOf(Offered) \ {i}
    BY <1>2, <1>3, <1>4 DEF FreeOf
  <2>2. \A j \in FreeOf(slots') : slots'[j] = Offered[j] /\ j \in FreeOf(Offered)
    BY <1>4, <2>1 DEF FreeOf
  <2>3. Chained(slots', Offered[i].next)
    BY <1>1, <1>2, <2>1, <2>2, SMTT(30) DEF Chained
  <2> QED
    BY <1>0, <2>3 DEF FreeInv
<1>12. ASSUME NEW r \in Pointers PROVE PtrAgrees(r)'
  <2>1. CASE r = p
    <3>1. ptr'[r] = [index |-> i, serial |-> gener + 1] /\ target'[r] = <<a, life[a]>>
      BY <1>0, <2>1 DEF TypeOK
    <3>2. life[a] \in Nat /\ <<a, life[a]>> # NoObject
      BY DEF TypeOK, NoObject
    <3> QED
      <4>1. Lives(r)'
        BY <1>0, <3>1, <3>2 DEF Lives
      <4>2. IsValid(r)' /\ slots'[ptr'[r].index].obj = target'[r][1]
        BY <1>1, <1>4, <3>1 DEF IsValid
      <4>3. gener + 1 \in 1 .. gener' /\ target'[r][2] <= life'[target'[r][1]]
        BY <1>0, <1>3, <3>1, <3>2
      <4> QED
        BY <3>1, <4>1, <4>2, <4>3 DEF PtrAgrees
  <2>2. CASE r # p
    <3>1. ptr'[r] = ptr[r] /\ target'[r] = target[r] /\ PtrAgrees(r)
      BY <1>0, <2>2 DEF TypeOK, PtrInv
    <3>2. ptr[r].index # kInvalidIndex =>
            ptr[r].index \in DOMAIN slots /\ ptr[r].serial \in 1 .. gener
      BY <3>1 DEF PtrAgrees, TypeOK, Indexes
    <3>3. Lives(r)' <=> Lives(r)
      BY <1>0, <3>1 DEF Lives
    <3>4. CASE ptr[r].index = i
      <4>1. i \in DOMAIN slots => slots[i].obj = NoObject /\ slots[i].serial = 0
        BY <1>1, <1>2 DEF SlotInv
      <4>2. ~IsValid(r)
        BY <1>1, <3>2, <3>4, <4>1 DEF IsValid
      <4>3. ~IsValid(r)'
        BY <1>1, <1>3, <1>4, <3>1, <3>2, <3>4 DEF IsValid
      <4> QED
        BY <1>0, <1>3, <3>1, <3>2, <3>3, <4>2, <4>3 DEF PtrAgrees
    <3>5. CASE ptr[r].index # i
      <4>1. ptr[r].index # kInvalidIndex => slots'[ptr[r].index] = slots[ptr[r].index]
        BY <1>1, <1>4, <3>2, <3>5
      <4>2. IsValid(r)' <=> IsValid(r)
        BY <3>1, <4>1 DEF IsValid
      <4>3. Lives(r) => slots'[ptr[r].index] = slots[ptr[r].index]
        BY <3>1, <4>1 DEF PtrAgrees, IsValid
      <4>4. ptr'[r].index # kInvalidIndex => ptr'[r].serial \in 1 .. gener'
        BY <1>0, <1>3, <3>1, <3>2
      <4>5. Lives(r)' => /\ IsValid(r)'
                         /\ slots'[ptr'[r].index].obj = target'[r][1]
        BY <3>1, <3>3, <4>2, <4>3 DEF PtrAgrees
      <4>6. IsValid(r)' => Lives(r)'
        BY <3>1, <3>3, <4>2 DEF PtrAgrees
      <4>7. target'[r] # NoObject => target'[r][2] <= life'[target'[r][1]]
        BY <1>0, <3>1 DEF PtrAgrees
      <4> QED
        BY <4>4, <4>5, <4>6, <4>7 DEF PtrAgrees
    <3> QED
      BY <3>4, <3>5
  <2> QED
    BY <2>1, <2>2
<1> QED
  BY <1>6, <1>7, <1>9, <1>10, <1>11, <1>12 DEF PtrInv

-----------------------------------------------------------------------------
\* Every step of the array and its clients keeps the invariant.
LEMMA StepInv == IInv /\ [Next]_vars => IInv'
<1> SUFFICES ASSUME IInv, [Next]_vars PROVE IInv'
  OBVIOUS
<1>1. ASSUME NEW a \in Addresses, Construct(a) PROVE IInv'
  BY <1>1, KeepConstruct
<1>2. ASSUME NEW a \in Addresses, Destroy(a) PROVE IInv'
  BY <1>2, KeepDestroy
<1>3. ASSUME NEW a \in Addresses, NEW b \in Addresses, CopyConstruct(a, b) PROVE IInv'
  BY <1>3, KeepConstruct DEF CopyConstruct
<1>4. ASSUME NEW p \in Pointers, NEW a \in Addresses, Set(p, a) PROVE IInv'
  BY <1>4, KeepSetAgain, KeepSetFirst
<1>5. ASSUME NEW p \in Pointers, Reset(p) PROVE IInv'
  BY <1>5, KeepReset
<1>6. ASSUME NEW p \in Pointers, NEW q \in Pointers, CopyPtr(p, q) PROVE IInv'
  BY <1>6, KeepCopyPtr
<1>7. CASE UNCHANGED vars
  <2>1. TypeOK' /\ (Size \in Nat)' /\ SlotInv' /\ OwnerInv' /\ FreeInv'
    BY <1>7 DEF IInv, vars, TypeOK, Indexes, Size, SlotInv, OwnerInv, FreeInv
  <2>2. PtrInv'
    BY <1>7 DEF IInv, vars, PtrInv, PtrAgrees, IsValid, Lives
  <2> QED
    BY <2>1, <2>2 DEF IInv
<1> QED
  BY <1>1, <1>2, <1>3, <1>4, <1>5, <1>6, <1>7 DEF Next

\* The inductive invariant of the array.
THEOREM Invariance == Spec => []IInv
  BY InitInv, StepInv, PTL DEF Spec

\* Every variable keeps its type, however often the array grows.
THEOREM TypeCorrect == Spec => []TypeOK
<1>1. IInv => TypeOK
  BY DEF IInv
<1> QED
  BY <1>1, Invariance, PTL

\* In a state of the invariant a pointer yields its object while that lives.
LEMMA InvIsExact == IInv => PointersAreExact
<1> SUFFICES ASSUME IInv, NEW p \in Pointers
             PROVE  /\ IsValid(p) <=> Lives(p)
                    /\ Get(p) = IF Lives(p) THEN target[p][1] ELSE NoObject
  BY DEF PointersAreExact
<1>1. PtrAgrees(p)
  BY DEF IInv, PtrInv
<1> QED
  BY <1>1 DEF PtrAgrees, Get

\* A weak pointer yields the object it was made for exactly as long as that
\* object lives (IsValid and Get of weak_obj_ptr.h).
THEOREM Exact == Spec => []PointersAreExact
  BY InvIsExact, Invariance, PTL

-----------------------------------------------------------------------------
(* The refinement: the object a pointer yields is WeakRefs' ref.           *)

LEMMA InitRefines == Init => Refs!Init
  BY DEF Init, Refs!Init, Get, IsValid, Null

LEMMA StepRefines == IInv /\ IInv' /\ [Next]_vars => [Refs!Next]_(Refs!refVars)
<1> SUFFICES ASSUME IInv, IInv', [Next]_vars PROVE [Refs!Next]_(Refs!refVars)
  OBVIOUS
<1> DEFINE ref == [p \in Pointers |-> Get(p)]
<1>0. ASSUME NEW p \in Pointers
      PROVE  /\ Get(p) = IF Lives(p) THEN target[p][1] ELSE NoObject
             /\ Get(p)' = IF Lives(p)' THEN target'[p][1] ELSE NoObject
  <2>1. PtrAgrees(p) /\ PtrAgrees(p)'
    BY DEF IInv, PtrInv
  <2> QED
    BY <2>1 DEF PtrAgrees, Get
<1>1. ASSUME NEW a \in Addresses, Construct(a) PROVE Refs!Construct(a)
  <2>1. ASSUME NEW p \in Pointers PROVE Get(p)' = Get(p)
    BY <1>1 DEF Construct, array, Get, IsValid
  <2> QED
    BY <1>1, <2>1 DEF Construct, Refs!Construct
<1>2. ASSUME NEW a \in Addresses, Destroy(a) PROVE Refs!Destroy(a)
  <2>1. ASSUME NEW p \in Pointers
        PROVE  Get(p)' = IF Get(p) = a THEN NoObject ELSE Get(p)
    <3>1. /\ alive' = alive \ {a} /\ target'[p] = target[p] /\ life' = life
          /\ a # NoObject
      BY <1>2, WeakAssumption DEF Destroy
    <3> QED
      BY <1>0, <3>1 DEF Lives
  <2> QED
    BY <1>2, <2>1 DEF Destroy, Refs!Destroy
<1>3. ASSUME NEW p \in Pointers, NEW a \in Addresses, Set(p, a) PROVE Refs!Point(p, a)
  <2>1. a \in alive /\ alive' = alive /\ life' = life
        /\ target' = [target EXCEPT ![p] = <<a, life[a]>>]
    BY <1>3 DEF Set
  <2>2. Get(p)' = a
    <3>1. target'[p] = <<a, life[a]>> /\ <<a, life[a]>> # NoObject
      BY <2>1 DEF IInv, TypeOK, NoObject
    <3> QED
      BY <1>0, <2>1, <3>1 DEF Lives
  <2>3. ASSUME NEW q \in Pointers, q # p PROVE Get(q)' = Get(q)
    <3>1. target'[q] = target[q]
      BY <2>1, <2>3 DEF IInv, TypeOK
    <3> QED
      BY <1>0, <2>1, <3>1 DEF Lives
  <2> QED
    BY <2>1, <2>2, <2>3 DEF Refs!Point
<1>4. ASSUME NEW p \in Pointers, Reset(p) PROVE Refs!Reset(p)
  <2>1. Get(p)' = NoObject
    BY <1>4 DEF Reset, Get, IsValid, Null, IInv, TypeOK
  <2>2. ASSUME NEW q \in Pointers, q # p PROVE Get(q)' = Get(q)
    BY <1>4, <2>2 DEF Reset, array, Get, IsValid, IInv, TypeOK
  <2> QED
    BY <1>4, <2>1, <2>2 DEF Reset, objects, Refs!Reset
<1>5. ASSUME NEW p \in Pointers, NEW q \in Pointers, CopyPtr(p, q) PROVE Refs!Copy(p, q)
  <2>1. ASSUME NEW r \in Pointers PROVE Get(r)' = IF r = p THEN Get(q) ELSE Get(r)
    BY <1>5 DEF CopyPtr, array, Get, IsValid, IInv, TypeOK
  <2> QED
    BY <1>5, <2>1 DEF CopyPtr, objects, Refs!Copy
<1>6. CASE UNCHANGED vars
  <2>1. ASSUME NEW p \in Pointers PROVE Get(p)' = Get(p)
    BY <1>6 DEF vars, Get, IsValid
  <2> QED
    BY <1>6, <2>1 DEF vars, Refs!refVars
<1>7. CASE Next
  BY <1>1, <1>2, <1>3, <1>4, <1>5, <1>7 DEF Next, CopyConstruct, Refs!Next
<1> QED
  BY <1>6, <1>7

\* The array of slots and serial numbers does what WeakRefs says: a pointer
\* refers to a living object or to none.
THEOREM ImplementsWeakRefs == Spec => WeakRefSpec
  BY InitRefines, StepRefines, Invariance, PTL DEF Spec, WeakRefSpec, Refs!Spec
-----------------------------------------------------------------------------
(* The free list holds every free slot.                                    *)

\* A set of numbers with 0 that has the successor of each of its members has all.
LEMMA Induct ==
  ASSUME NEW S \in SUBSET Nat, 0 \in S, \A k \in S : k + 1 \in S
  PROVE  S = Nat
<1> SUFFICES ASSUME Nat \ S # {} PROVE FALSE
  OBVIOUS
<1>1. PICK m \in Nat \ S : \A y \in Nat \ S : ~(<<y, m>> \in OpToRel(<, Nat))
  BY NatLessThanWellFounded, WFMin
<1>a. m \in Nat /\ m \notin S
  BY <1>1
<1>2. m # 0 /\ m - 1 \in Nat /\ m - 1 < m
  <2>1. m # 0
    BY <1>a
  <2> QED
    BY <1>a, <2>1
<1>3. m - 1 \in S
  <2> SUFFICES ASSUME m - 1 \notin S PROVE FALSE
    OBVIOUS
  <2>1. <<m - 1, m>> \in OpToRel(<, Nat)
    BY <1>1, <1>2 DEF OpToRel
  <2> QED
    BY <1>1, <1>2, <2>1
<1>4. m - 1 + 1 = m
  BY <1>a
<1>5. m \in S
  BY <1>3, <1>4
<1> QED
  BY <1>a, <1>5

\* P is closed under next: it has whatever a slot of P leads to.
Leads(all, P) == \A i \in P : all[i].next # kInvalidIndex => all[i].next \in P

\* The free list reaches every free slot: a set of free slots that has the first
\* and is closed under next has them all.  And it has one end.
Covered(all, head) ==
  /\ \A i, j \in FreeOf(all) :
       all[i].next = kInvalidIndex /\ all[j].next = kInvalidIndex => i = j
  /\ \A P \in SUBSET FreeOf(all) :
       Leads(all, P) /\ (head # kInvalidIndex => head \in P) => P = FreeOf(all)

ListInv == Covered(slots, free)

\* An empty list covers no free slot: there is none.
LEMMA EmptyCovers ==
  ASSUME NEW all, Covered(all, kInvalidIndex) PROVE FreeOf(all) = {}
<1>1. {} \in SUBSET FreeOf(all) /\ Leads(all, {})
  BY DEF Leads
<1> QED
  BY <1>1 DEF Covered

\* The first slot is taken off the list.
LEMMA PopCovers ==
  ASSUME NEW all, NEW all2, NEW i \in FreeOf(all),
         Covered(all, i),
         FreeOf(all2) = FreeOf(all) \ {i},
         \A j \in FreeOf(all2) : all2[j].next = all[j].next
  PROVE  Covered(all2, all[i].next)
<1>1. ASSUME NEW P \in SUBSET FreeOf(all2), Leads(all2, P),
             all[i].next # kInvalidIndex => all[i].next \in P
      PROVE  P = FreeOf(all2)
  <2>1. P \cup {i} \in SUBSET FreeOf(all)
    OBVIOUS
  <2>2. Leads(all, P \cup {i})
    BY <1>1 DEF Leads
  <2>3. P \cup {i} = FreeOf(all)
    BY <2>1, <2>2 DEF Covered
  <2> QED
    BY <2>3
<1>2. \A j, k \in FreeOf(all2) :
        all2[j].next = kInvalidIndex /\ all2[k].next = kInvalidIndex => j = k
  BY DEF Covered
<1> QED
  BY <1>1, <1>2 DEF Covered

\* A slot is put in front of the list.
LEMMA PushCovers ==
  ASSUME NEW all, NEW all2, NEW i, NEW head,
         i \notin FreeOf(all),
         Chained(all, head), Covered(all, head),
         FreeOf(all2) = FreeOf(all) \cup {i},
         all2[i].next = head,
         \A j \in FreeOf(all) : all2[j].next = all[j].next,
         i # kInvalidIndex
  PROVE  Covered(all2, i)
<1>1. ASSUME NEW P \in SUBSET FreeOf(all2), Leads(all2, P), i \in P
      PROVE  P = FreeOf(all2)
  <2>1. P \ {i} \in SUBSET FreeOf(all)
    OBVIOUS
  <2>2. Leads(all, P \ {i})
    BY <1>1 DEF Leads, Chained
  <2>3. head # kInvalidIndex => head \in P \ {i}
    BY <1>1 DEF Leads, Chained
  <2>4. P \ {i} = FreeOf(all)
    BY <2>1, <2>2, <2>3 DEF Covered
  <2> QED
    BY <1>1, <2>4
<1>2. ASSUME NEW j \in FreeOf(all2), NEW k \in FreeOf(all2),
             all2[j].next = kInvalidIndex, all2[k].next = kInvalidIndex
      PROVE  j = k
  <2>1. CASE head = kInvalidIndex
    <3>1. FreeOf(all) = {}
      BY <2>1, EmptyCovers
    <3> QED
      BY <3>1
  <2>2. CASE head # kInvalidIndex
    <3>1. j \in FreeOf(all) /\ k \in FreeOf(all)
      BY <1>2, <2>2
    <3> QED
      BY <1>2, <3>1 DEF Covered
  <2> QED
    BY <2>1, <2>2
<1> QED
  BY <1>1, <1>2 DEF Covered

\* Also the slots the array grew by are in one list.
LEMMA OfferedIsCovered ==
  ASSUME IInv, ListInv PROVE Covered(Offered, First)
<1>1. CASE free # kInvalidIndex
  BY <1>1 DEF Offered, First, ListInv
<1>2. CASE free = kInvalidIndex
  <2> DEFINE n == Size + inc
  <2>1. /\ Size \in Nat /\ n \in Nat /\ n > Size /\ inc \in Nat \ {0}
        /\ Offered = Grown /\ First = Size
        /\ DOMAIN slots = 0 .. Size - 1
        /\ DOMAIN Grown = 0 .. n - 1
    BY <1>2, WeakAssumption DEF Offered, First, IInv, TypeOK, Grown
  <2>2. FreeOf(slots) = {}
    <3>1. Covered(slots, kInvalidIndex)
      BY <1>2 DEF ListInv
    <3> QED
      BY <3>1, EmptyCovers
  <2>3. \A j \in Size .. n - 1 :
          Grown[j] = Slot(0, IF j = n - 1 THEN kInvalidIndex ELSE j + 1, NoObject)
    BY <2>1 DEF Grown
  <2>4. \A j \in 0 .. Size - 1 : Grown[j] = slots[j] /\ slots[j].obj # NoObject
    BY <2>1, <2>2 DEF Grown, FreeOf
  <2> HIDE DEF n
  <2>5. \A j \in Size .. n - 1 :
          Grown[j].obj = NoObject
          /\ Grown[j].next = IF j = n - 1 THEN kInvalidIndex ELSE j + 1
    <3> SUFFICES ASSUME NEW j \in Size .. n - 1
                 PROVE  /\ Grown[j].obj = NoObject
                        /\ Grown[j].next = IF j = n - 1 THEN kInvalidIndex ELSE j + 1
      OBVIOUS
    <3> DEFINE next == IF j = n - 1 THEN kInvalidIndex ELSE j + 1
    <3>1. Grown[j] = Slot(0, next, NoObject)
      BY <2>3
    <3> HIDE DEF next
    <3>2. Grown[j].obj = NoObject /\ Grown[j].next = next
      BY <3>1 DEF Slot
    <3> QED
      BY <3>2 DEF next
  <2>6. FreeOf(Grown) = Size .. n - 1
    <3>1. \A j \in 0 .. n - 1 : j \in 0 .. Size - 1 \/ j \in Size .. n - 1
      BY <2>1
    <3>2. \A j \in Size .. n - 1 : j \in 0 .. n - 1
      BY <2>1
    <3> QED
      BY <2>1, <2>4, <2>5, <3>1, <3>2 DEF FreeOf
  <2>7. ASSUME NEW P \in SUBSET FreeOf(Grown), Leads(Grown, P), Size \in P
        PROVE  P = FreeOf(Grown)
    <3> DEFINE S == {k \in Nat : Size + k <= n - 1 => Size + k \in P}
    <3>1. 0 \in S
      BY <2>1, <2>7
    <3>2. ASSUME NEW k \in S, Size + k + 1 <= n - 1 PROVE Size + k + 1 \in P
      <4>1. Size + k \in P /\ Size + k \in Size .. n - 1 /\ Size + k # n - 1
        BY <2>1, <3>2
      <4>2. Grown[Size + k].next = Size + k + 1 /\ Size + k + 1 # kInvalidIndex
        BY <2>1, <2>5, <4>1 DEF kInvalidIndex
      <4> QED
        BY <2>7, <4>1, <4>2 DEF Leads
    <3>3. \A k \in S : k + 1 \in S
      <4> SUFFICES ASSUME NEW k \in S, Size + (k + 1) <= n - 1
                   PROVE  Size + (k + 1) \in P
        OBVIOUS
      <4>1. Size + (k + 1) = Size + k + 1
        BY <2>1
      <4> QED
        BY <3>2, <4>1
    <3>4. S = Nat
      <4>1. S \in SUBSET Nat
        OBVIOUS
      <4> HIDE DEF S
      <4> QED
        BY <3>1, <3>3, <4>1, Induct
    <3>5. ASSUME NEW j \in Size .. n - 1 PROVE j \in P
      <4>1. j - Size \in Nat /\ Size + (j - Size) = j /\ j <= n - 1
        BY <2>1
      <4>2. j - Size \in S
        BY <3>4, <4>1
      <4> QED
        BY <4>1, <4>2
    <3> QED
      BY <2>6, <3>5
  <2>8. ASSUME NEW j \in FreeOf(Grown), NEW k \in FreeOf(Grown),
               Grown[j].next = kInvalidIndex, Grown[k].next = kInvalidIndex
        PROVE  j = k
    BY <2>1, <2>5, <2>6, <2>8 DEF kInvalidIndex
  <2>9. Size # kInvalidIndex
    BY <2>1 DEF kInvalidIndex
  <2> QED
    BY <2>1, <2>7, <2>8, <2>9 DEF Covered
<1> QED
  BY <1>1, <1>2

LEMMA InitList == Init => ListInv
  BY DEF Init, ListInv, Covered, FreeOf

\* A slot is taken off the list by the first pointer to an object and put back by
\* the object's destructor; every other step leaves the list alone.
LEMMA StepList == IInv /\ ListInv /\ [Next]_vars => ListInv'
<1> SUFFICES ASSUME IInv, ListInv, [Next]_vars PROVE ListInv'
  OBVIOUS
<1>1. CASE slots' = slots /\ free' = free
  BY <1>1 DEF ListInv
<1>2. ASSUME NEW a \in Addresses, Destroy(a) PROVE ListInv'
  <2>1. CASE index[a] # kInvalidIndex
    <3> DEFINE i == index[a]
    <3>1. /\ slots' = [slots EXCEPT ![i] = Slot(0, free, NoObject)]
          /\ free' = i /\ a \in alive
      BY <1>2, <2>1 DEF Destroy
    <3>2. i \in DOMAIN slots /\ slots[i].obj # NoObject /\ i # kInvalidIndex
      BY <2>1, <3>1, WeakAssumption DEF IInv, TypeOK, OwnerInv, Indexes
    <3> HIDE DEF i
    <3>3. /\ DOMAIN slots' = DOMAIN slots
          /\ slots'[i].obj = NoObject /\ slots'[i].next = free
          /\ \A j \in DOMAIN slots : j # i => slots'[j] = slots[j]
      BY <3>1, <3>2 DEF Slot
    <3>4. FreeOf(slots') = FreeOf(slots) \cup {i} /\ i \notin FreeOf(slots)
      BY <3>2, <3>3 DEF FreeOf
    <3>5. \A j \in FreeOf(slots) : slots'[j].next = slots[j].next
      BY <3>3, <3>4 DEF FreeOf
    <3>6. Covered(slots', i)
      BY <3>2, <3>3, <3>4, <3>5, PushCovers DEF IInv, FreeInv, ListInv
    <3> QED
      BY <3>1, <3>6 DEF ListInv
  <2> QED
    BY <1>1, <1>2, <2>1 DEF Destroy
<1>3. ASSUME NEW p \in Pointers, NEW a \in Addresses, Set(p, a) PROVE ListInv'
  <2>1. CASE index[a] = kInvalidIndex
    <3> DEFINE i == First
    <3>1. /\ slots' = [Offered EXCEPT ![i].obj = a, ![i].serial = gener + 1]
          /\ free' = Offered[i].next /\ a # NoObject
      BY <1>3, <2>1, WeakAssumption DEF Set, Offered, First
    <3>2. i \in FreeOf(Offered) /\ Covered(Offered, i)
          /\ \E D, R : Offered \in [D -> R]
      BY OfferedIsChained, OfferedIsCovered DEF Chained
    <3>3. i \in DOMAIN Offered /\ Offered[i] \in [serial : 0 .. MaxSerial,
             next : {kInvalidIndex} \cup DOMAIN Offered, obj : Addresses \cup {NoObject}]
      BY <3>2, OfferedIsChained DEF FreeOf
    <3> HIDE DEF i
    <3>4. /\ DOMAIN slots' = DOMAIN Offered
          /\ slots'[i].obj = a
          /\ \A j \in DOMAIN Offered : j # i => slots'[j] = Offered[j]
      BY <3>1, <3>2, <3>3
    <3>5. FreeOf(slots') = FreeOf(Offered) \ {i}
      BY <3>1, <3>4 DEF FreeOf
    <3>6. \A j \in FreeOf(slots') : slots'[j].next = Offered[j].next
      BY <3>4, <3>5 DEF FreeOf
    <3>7. Covered(slots', Offered[i].next)
      BY <3>2, <3>5, <3>6, PopCovers
    <3> QED
      BY <3>1, <3>7 DEF ListInv
  <2> QED
    BY <1>1, <1>3, <2>1 DEF Set, array
<1>4. ASSUME NEW a \in Addresses, Construct(a) PROVE ListInv'
  BY <1>1, <1>4 DEF Construct, array
<1>5. ASSUME NEW p \in Pointers, Reset(p) PROVE ListInv'
  BY <1>1, <1>5 DEF Reset, array
<1>6. ASSUME NEW p \in Pointers, NEW q \in Pointers, CopyPtr(p, q) PROVE ListInv'
  BY <1>1, <1>6 DEF CopyPtr, array
<1>7. CASE UNCHANGED vars
  BY <1>1, <1>7 DEF vars
<1> QED
  BY <1>2, <1>3, <1>4, <1>5, <1>6, <1>7 DEF Next, CopyConstruct

\* The free list has every free slot in every reachable state.
THEOREM ListInvariance == Spec => []ListInv
  BY InitList, StepList, Invariance, PTL DEF Spec
\* One more round of the walk along the list, and the rounds 0 .. m.
Hop(all, W) == W \cup {all[i].next : i \in W \ {kInvalidIndex}}

IsWalk(w, all, head, m) ==
  w = [n \in 0 .. m |-> IF n = 0 THEN {head} ELSE Hop(all, w[n - 1])]

\* There is a walk of any length: a shorter one can be continued.
LEMMA WalkExists ==
  ASSUME NEW all, NEW head, NEW m \in Nat
  PROVE  \E w : IsWalk(w, all, head, m)
<1> DEFINE S == {k \in Nat : \E w : IsWalk(w, all, head, k)}
<1>1. 0 \in S
  <2>1. IsWalk([n \in 0 .. 0 |-> {head}], all, head, 0)
    <3> DEFINE w == [n \in 0 .. 0 |-> {head}]
    <3>1. w = [n \in 0 .. 0 |-> IF n = 0 THEN {head} ELSE Hop(all, w[n - 1])]
      OBVIOUS
    <3> QED
      BY <3>1 DEF IsWalk
  <2> QED
    BY <2>1
<1>2. ASSUME NEW k \in S PROVE k + 1 \in S
  <2>1. PICK v : IsWalk(v, all, head, k)
    OBVIOUS
  <2> DEFINE w == [n \in 0 .. k + 1 |-> IF n = k + 1 THEN Hop(all, v[k]) ELSE v[n]]
             u == [n \in 0 .. k + 1 |-> IF n = 0 THEN {head} ELSE Hop(all, w[n - 1])]
  <2>2. \A n \in 0 .. k : v[n] = IF n = 0 THEN {head} ELSE Hop(all, v[n - 1])
    BY <2>1 DEF IsWalk
  <2>3. ASSUME NEW n \in 0 .. k + 1 PROVE w[n] = u[n]
    <3>1. CASE n = k + 1
      <4>1. w[n] = Hop(all, v[k]) /\ n # 0 /\ n - 1 = k /\ w[n - 1] = v[k]
        BY <3>1
      <4>2. u[n] = Hop(all, w[n - 1])
        BY <4>1
      <4> QED
        BY <4>1, <4>2
    <3>2. CASE n = 0
      BY <2>2, <3>2
    <3>3. CASE n # 0 /\ n # k + 1
      <4>1. n \in 0 .. k /\ n - 1 \in 0 .. k /\ n - 1 # k + 1
        BY <3>3
      <4>2. w[n] = v[n] /\ w[n - 1] = v[n - 1]
        BY <3>3, <4>1
      <4>3. u[n] = Hop(all, w[n - 1])
        BY <3>3
      <4> HIDE DEF w, u
      <4> QED
        BY <2>2, <3>3, <4>1, <4>2, <4>3
    <3> QED
      BY <3>1, <3>2, <3>3
  <2>4. w = u
    <3>1. w = [n \in 0 .. k + 1 |-> w[n]] /\ u = [n \in 0 .. k + 1 |-> u[n]]
      OBVIOUS
    <3> HIDE DEF w, u
    <3> QED
      BY <2>3, <3>1
  <2>5. IsWalk(w, all, head, k + 1)
    <3> HIDE DEF w
    <3> QED
      BY <2>4 DEF IsWalk
  <2> QED
    BY <2>5
<1>3. S = Nat
  <2>1. S \in SUBSET Nat
    OBVIOUS
  <2> HIDE DEF S
  <2> QED
    BY <1>1, <1>2, <2>1, Induct
<1> QED
  BY <1>3

\* The walk of as many rounds as there are slots has all that can be reached: every
\* round but the last adds a slot or nothing is left to add.
LEMMA WalkIsClosed ==
  ASSUME NEW all, NEW head, NEW F, NEW m \in Nat, NEW w,
         IsFiniteSet(F), Cardinality(F) <= m + 1,
         head \in F, \A i \in F \ {kInvalidIndex} : all[i].next \in F,
         IsWalk(w, all, head, m)
  PROVE  /\ w[m] \subseteq F
         /\ head \in w[m]
         /\ Hop(all, w[m]) = w[m]
<1> DEFINE Good(k) == /\ w[k] \subseteq F
                      /\ head \in w[k]
                      /\ Hop(all, w[k]) = w[k] \/ Cardinality(w[k]) >= k + 1
           S == {k \in Nat : k <= m => Good(k)}
<1>0. \A k \in 0 .. m : w[k] = IF k = 0 THEN {head} ELSE Hop(all, w[k - 1])
  BY DEF IsWalk
<1>1. 0 \in S
  <2>1. w[0] = {head}
    BY <1>0
  <2>2. Cardinality(w[0]) >= 0 + 1
    <3>1. Cardinality({head}) = 1
      BY FS_Singleton
    <3> QED
      BY <2>1, <3>1
  <2> QED
    BY <2>1, <2>2
<1>2. ASSUME NEW k \in S PROVE k + 1 \in S
  <2> SUFFICES ASSUME k + 1 <= m PROVE Good(k + 1)
    OBVIOUS
  <2>1. Good(k) /\ k \in Nat
    OBVIOUS
  <2>2. w[k + 1] = Hop(all, w[k])
    <3>1. k + 1 \in 0 .. m /\ k + 1 # 0 /\ k + 1 - 1 = k
      BY <2>1
    <3> QED
      BY <1>0, <3>1
  <2>3. w[k + 1] \subseteq F /\ head \in w[k + 1] /\ w[k] \subseteq w[k + 1]
    BY <2>1, <2>2 DEF Hop
  <2>4. CASE w[k + 1] = w[k]
    BY <2>1, <2>2, <2>4
  <2>5. CASE w[k + 1] # w[k]
    <3>1. PICK x \in w[k + 1] : x \notin w[k]
      BY <2>3, <2>5
    <3>2. IsFiniteSet(w[k + 1]) /\ IsFiniteSet(w[k])
      BY <2>1, <2>3, FS_Subset
    <3>3. Cardinality(w[k] \cup {x}) = Cardinality(w[k]) + 1
      BY <3>1, <3>2, FS_AddElement
    <3>4. Cardinality(w[k] \cup {x}) <= Cardinality(w[k + 1])
      <4>1. w[k] \cup {x} \in SUBSET w[k + 1]
        BY <2>3, <3>1
      <4> QED
        BY <3>2, <4>1, FS_Subset
    <3>5. Cardinality(w[k]) >= k + 1
      BY <2>1, <2>2, <2>5
    <3>6. Cardinality(w[k]) \in Nat /\ Cardinality(w[k + 1]) \in Nat
      BY <3>2, FS_CardinalityType
    <3>7. Cardinality(w[k + 1]) >= k + 1 + 1
      BY <2>1, <3>3, <3>4, <3>5, <3>6
    <3> QED
      BY <2>3, <3>7
  <2> QED
    BY <2>4, <2>5
<1>3. S = Nat
  <2>1. S \in SUBSET Nat
    OBVIOUS
  <2> HIDE DEF S
  <2> QED
    BY <1>1, <1>2, <2>1, Induct
<1>4. Good(m)
  BY <1>3
<1>5. CASE Cardinality(w[m]) >= m + 1
  <2>1. IsFiniteSet(w[m]) /\ Cardinality(w[m]) <= Cardinality(F)
    BY <1>4, FS_Subset
  <2>2. Cardinality(w[m]) \in Nat /\ Cardinality(F) \in Nat
    BY <2>1, FS_CardinalityType
  <2>3. Cardinality(F) = Cardinality(w[m])
    BY <1>5, <2>1, <2>2
  <2>4. w[m] = F
    BY <1>4, <2>3, FS_Subset
  <2> QED
    BY <2>4 DEF Hop
<1> QED
  BY <1>4, <1>5

\* Taken from free_index as far as it leads, the list is the free slots and its end.
LEMMA WalkIsFree ==
  ASSUME IInv, ListInv PROVE Walk = FreeOf(slots) \cup {kInvalidIndex}
<1> DEFINE F == FreeOf(slots) \cup {kInvalidIndex}
           v == CHOOSE w : IsWalk(w, slots, free, Size)
<1>1. Size \in Nat /\ DOMAIN slots = 0 .. Size - 1 /\ Chained(slots, free)
  BY DEF IInv, TypeOK, FreeInv
<1>2. Walk = v[Size]
  BY Zenon DEF Walk, IsWalk, Hop
<1>3. IsWalk(v, slots, free, Size)
  BY <1>1, WalkExists
<1>4. IsFiniteSet(F) /\ Cardinality(F) <= Size + 1
  <2>1. IsFiniteSet(DOMAIN slots) /\ Cardinality(DOMAIN slots) = Size
    BY <1>1, FS_Interval DEF Size
  <2>2. /\ IsFiniteSet(DOMAIN slots \cup {kInvalidIndex})
        /\ Cardinality(DOMAIN slots \cup {kInvalidIndex}) <= Size + 1
    <3> DEFINE D == DOMAIN slots
    <3>1. /\ IsFiniteSet(D \cup {kInvalidIndex})
          /\ Cardinality(D \cup {kInvalidIndex})
               = IF kInvalidIndex \in D THEN Cardinality(D) ELSE Cardinality(D) + 1
      <4> HIDE DEF D
      <4> QED
        BY <2>1, FS_AddElement DEF D
    <3> QED
      BY <1>1, <2>1, <3>1
  <2>3. F \in SUBSET (DOMAIN slots \cup {kInvalidIndex})
    BY DEF FreeOf
  <2>4. /\ IsFiniteSet(F)
        /\ Cardinality(F) <= Cardinality(DOMAIN slots \cup {kInvalidIndex})
    BY <2>2, <2>3, FS_Subset
  <2>5. Cardinality(F) \in Nat /\ Cardinality(DOMAIN slots \cup {kInvalidIndex}) \in Nat
    BY <2>2, <2>4, FS_CardinalityType
  <2> QED
    BY <1>1, <2>2, <2>4, <2>5
<1>5. free \in F /\ \A i \in F \ {kInvalidIndex} : slots[i].next \in F
  BY <1>1 DEF Chained
<1> HIDE DEF v
<1>6. v[Size] \subseteq F /\ free \in v[Size] /\ Hop(slots, v[Size]) = v[Size]
  <2> HIDE DEF F
  <2> QED
    BY <1>1, <1>3, <1>4, <1>5, WalkIsClosed, SMTT(30)
<1> DEFINE P == v[Size] \ {kInvalidIndex}
<1>7. P \in SUBSET FreeOf(slots) /\ \A i \in P : slots[i].next \in v[Size]
  BY <1>6 DEF Hop
<1>8. P = FreeOf(slots)
  <2>1. Leads(slots, P)
    BY <1>7 DEF Leads
  <2>2. free # kInvalidIndex => free \in P
    BY <1>6
  <2> QED
    BY <1>7, <2>1, <2>2 DEF ListInv, Covered
<1>9. kInvalidIndex \in v[Size]
  <2> SUFFICES ASSUME kInvalidIndex \notin v[Size] PROVE FALSE
    OBVIOUS
  <2> DEFINE X == FreeOf(slots)
             f == [i \in X |-> slots[i].next]
  <2>1. free \in X /\ free # kInvalidIndex
    BY <1>6, <1>8
  <2>2. \A i \in X : slots[i].next \in X /\ slots[i].next # kInvalidIndex
    BY <1>7, <1>8
  <2>3. f \in [X -> X \ {free}] /\ \A i, j \in X : f[i] = f[j] => i = j
    BY <1>1, <2>2 DEF Chained
  <2>4. IsFiniteSet(X)
    <3>1. X \in SUBSET F
      OBVIOUS
    <3> QED
      BY <1>4, <3>1, FS_Subset
  <2>5. IsFiniteSet(X \ {free}) /\ Cardinality(X \ {free}) = Cardinality(X) - 1
        /\ Cardinality(X) \in Nat
    BY <2>1, <2>4, FS_RemoveElement, FS_CardinalityType
  <2>6. Cardinality(X \ {free}) < Cardinality(X)
    BY <2>5
  <2>7. \E i, j \in X : i # j /\ f[i] = f[j]
    <3> HIDE DEF f, X
    <3> QED
      BY <2>3, <2>4, <2>5, <2>6, FS_PigeonHole
  <2> QED
    BY <2>3, <2>7
<1> QED
  BY <1>2, <1>6, <1>8, <1>9

LEMMA InvIsOneUse == IInv /\ ListInv => SlotsHaveOneUse
<1> SUFFICES ASSUME IInv, ListInv PROVE SlotsHaveOneUse
  OBVIOUS
<1>1. Walk = FreeOf(slots) \cup {kInvalidIndex} /\ kInvalidIndex \notin DOMAIN slots
  BY WalkIsFree DEF IInv, TypeOK, kInvalidIndex
<1>2. \A i \in DOMAIN slots : slots[i].obj = NoObject <=> i \in Walk
  BY <1>1 DEF FreeOf
<1>3. \A i, j \in Walk \ {kInvalidIndex} : slots[i].next = slots[j].next => i = j
  BY <1>1 DEF IInv, FreeInv, Chained, ListInv, Covered
<1>4. ASSUME NEW a \in Addresses, NEW i \in DOMAIN slots
      PROVE  slots[i].obj = a <=> a \in alive /\ index[a] = i
  BY <1>1, WeakAssumption DEF IInv, SlotInv, OwnerInv
<1> QED
  BY <1>1, <1>2, <1>3, <1>4 DEF SlotsHaveOneUse

\* Every slot is that of one living object or in the free list, and the list ends
\* (AllocIndex and FreeIndex of weak_obj_array.h).
THEOREM OneUse == Spec => []SlotsHaveOneUse
  BY InvIsOneUse, ListInvariance, Invariance, PTL

-----------------------------------------------------------------------------
(***************************************************************************)
(* The red-black tree.  A tree of the nodes U of a pool n is described by  *)
(* the function D of what is under each node (Tree); its keys are ordered  *)
(* and every other fact about positions follows from that.  The loops of   *)
(* the code get their turns from a measure that each turn shrinks.         *)
(***************************************************************************)
-----------------------------------------------------------------------------
(* Fields and links *)

\* The order of keys towards a side.
Before(s, a, b) == IF s = "left" THEN a < b ELSE b < a

LEMMA SlotFacts ==
  /\ Head0 \in Slots /\ Head0 \notin Nodes
  /\ \A x \in Nodes : x \in Slots /\ x # Head0
  /\ \A x \in Slots : x # Head0 => x \in Nodes
  /\ IsFiniteSet(Nodes) /\ Cardinality(Nodes) = Capacity
  /\ Capacity \in Nat \ {0}
<1>1. Capacity \in Nat \ {0}
  BY TreeAssumption
<1>2. IsFiniteSet(1 .. Capacity) /\ Cardinality(1 .. Capacity) = Capacity
  BY <1>1, FS_Interval
<1> QED
  BY <1>1, <1>2 DEF Slots, Nodes, Head0

LEMMA SideFacts ==
  /\ "left" \in Sides /\ "right" \in Sides
  /\ Other("left") = "right" /\ Other("right") = "left"
  /\ \A s \in Sides : Other(s) \in Sides /\ Other(s) # s /\ Other(Other(s)) = s
  /\ \A s, t \in Sides : t = s \/ t = Other(s)
  /\ \A s \in Sides : s = "left" \/ s = "right"
BY DEF Sides, Other

\* The types of the fields of a node.
LEMMA PoolFacts ==
  ASSUME NEW n \in Pool
  PROVE  \A x \in Slots : /\ n[x].parent \in Slots /\ n[x].red \in BOOLEAN /\ n[x].key \in Nat
                          /\ n[x].left \in Slots /\ n[x].right \in Slots
                          /\ \A s \in Sides : n[x][s] \in Slots
BY DEF Pool, Node, Sides

Fields == {"left", "right", "parent", "red", "key"}

\* m is n but for one field of x.
Written(n, m, x, f, v) ==
  /\ m \in Pool
  /\ \A z \in Slots, g \in Fields : m[z][g] = IF z = x /\ g = f THEN v ELSE n[z][g]

LEMMA PutIs ==
  ASSUME NEW n \in Pool, NEW x \in Slots, NEW f \in Fields, NEW v,
         f \in {"left", "right", "parent"} => v \in Slots,
         f = "red" => v \in BOOLEAN,
         f # "key"
  PROVE  Written(n, Put(n, x, f, v), x, f, v)
BY DEF Written, Put, Fields, Pool, Node

\* The fields one by one.
SideSet(n, m, x, s, v) ==
  /\ m \in Pool
  /\ \A z \in Slots : /\ m[z].parent = n[z].parent /\ m[z].red = n[z].red /\ m[z].key = n[z].key
                      /\ \A t \in Sides : m[z][t] = IF z = x /\ t = s THEN v ELSE n[z][t]

\* m is n with another parent of x.
ParentSet(n, m, x, v) ==
  /\ m \in Pool
  /\ \A z \in Slots : /\ m[z].parent = IF z = x THEN v ELSE n[z].parent
                      /\ m[z].red = n[z].red /\ m[z].key = n[z].key
                      /\ \A t \in Sides : m[z][t] = n[z][t]

\* m is n with another color of x.
RedSet(n, m, x, v) ==
  /\ m \in Pool
  /\ \A z \in Slots : /\ m[z].red = IF z = x THEN v ELSE n[z].red
                      /\ m[z].parent = n[z].parent /\ m[z].key = n[z].key
                      /\ \A t \in Sides : m[z][t] = n[z][t]

LEMMA WroteSide ==
  ASSUME NEW n \in Pool, NEW x \in Slots, NEW s \in Sides, NEW v \in Slots
  PROVE  SideSet(n, Put(n, x, s, v), x, s, v)
<1>1. Written(n, Put(n, x, s, v), x, s, v)
  BY PutIs DEF Sides, Fields
<1> QED
  BY <1>1 DEF Written, Fields, Sides, SideSet

LEMMA WroteParent ==
  ASSUME NEW n \in Pool, NEW x \in Slots, NEW v \in Slots
  PROVE  ParentSet(n, Put(n, x, "parent", v), x, v)
<1>1. Written(n, Put(n, x, "parent", v), x, "parent", v)
  BY PutIs DEF Fields
<1> QED
  BY <1>1 DEF Written, Fields, Sides, ParentSet

LEMMA Painted ==
  ASSUME NEW n \in Pool, NEW x \in Slots, NEW v \in BOOLEAN
  PROVE  RedSet(n, Paint(n, x, v), x, v)
<1>1. Written(n, Paint(n, x, v), x, "red", v)
  BY PutIs DEF Fields, Paint
<1> QED
  BY <1>1 DEF Written, Fields, Sides, RedSet

\* m is n with another parent of x, or n if x is nil.
ParentKept(n, m, x, v) ==
  /\ m \in Pool
  /\ \A z \in Slots : /\ m[z].parent = IF z = x /\ x # Head0 THEN v ELSE n[z].parent
                      /\ m[z].red = n[z].red /\ m[z].key = n[z].key
                      /\ \A t \in Sides : m[z][t] = n[z][t]

LEMMA SetParentIs ==
  ASSUME NEW n \in Pool, NEW x \in Slots, NEW v \in Slots
  PROVE  ParentKept(n, SetParent(n, x, v), x, v)
<1>1. CASE x = Head0
  BY <1>1 DEF SetParent, ParentKept
<1>2. CASE x # Head0
  <2>1. SetParent(n, x, v) = Put(n, x, "parent", v)
    BY <1>2 DEF SetParent
  <2>2. ParentSet(n, SetParent(n, x, v), x, v)
    BY <2>1, WroteParent
  <2> QED
    BY <1>2, <2>2 DEF ParentSet, ParentKept
<1> QED
  BY <1>1, <1>2

\* x is the root, or a child of its parent on one side only.
Hangs(n, x) ==
  \/ x = Root(n)
  \/ x # Root(n) /\ n[x].parent \in Nodes /\ (n[n[x].parent].left = x) # (n[n[x].parent].right = x)

\* m is n with y where x hung.
Replaced(n, m, x, y) ==
  /\ m \in Pool
  /\ Root(m) = IF x = Root(n) THEN y ELSE Root(n)
  /\ \A z \in Nodes : m[z].parent = n[z].parent
  /\ \A z \in Slots : m[z].red = n[z].red /\ m[z].key = n[z].key
  /\ \A z \in Slots, t \in Sides :
       m[z][t] = IF x # Root(n) /\ z = n[x].parent /\ n[z][t] = x THEN y ELSE n[z][t]

LEMMA ReplaceIs ==
  ASSUME NEW n \in Pool, NEW x \in Nodes, NEW y \in Slots, Hangs(n, x)
  PROVE  Replaced(n, Replace(n, x, y), x, y)
<1>m. PICK m : m = Replace(n, x, y)
  OBVIOUS
<1>1. CASE x = Root(n)
  <2>1. m = Put(n, Head0, "parent", y)
    BY <1>1, <1>m DEF Replace
  <2>2. ParentSet(n, m, Head0, y)
    BY <2>1, WroteParent, SlotFacts
  <2> QED
    BY <1>1, <1>m, <2>2, SlotFacts DEF Root, ParentSet, Replaced
<1>2. CASE x # Root(n)
  <2>a. n[x].parent \in Nodes /\ (n[n[x].parent].left = x) # (n[n[x].parent].right = x)
    BY <1>2 DEF Hangs
  <2>1. PICK s \in Sides : s = IF n[n[x].parent].left = x THEN "left" ELSE "right"
    BY DEF Sides
  <2>2. m = Put(n, n[x].parent, s, y)
    BY <1>2, <1>m, <2>1 DEF Replace
  <2>3. \A t \in Sides : (n[n[x].parent][t] = x) <=> (t = s)
    BY <2>a, <2>1 DEF Sides
  <2>4. n[x].parent \in Slots /\ n[x].parent # Head0
    BY <2>a, SlotFacts
  <2>5. SideSet(n, m, n[x].parent, s, y)
    BY <2>2, <2>4, WroteSide
  <2> QED
    BY <1>2, <1>m, <2>3, <2>4, <2>5, SlotFacts DEF Root, SideSet, Replaced
<1> QED
  BY <1>1, <1>2

\* What a rotation around x does: y comes up in its place, and c changes over.
Rotated(n, m, x, s, y, c, p) ==
  /\ m \in Pool
  /\ \A z \in Slots : m[z].key = n[z].key /\ m[z].red = n[z].red
  /\ \A t \in Sides : m[Head0][t] = n[Head0][t]
  /\ Root(m) = IF x = Root(n) THEN y ELSE Root(n)
  /\ \A z \in Nodes : m[z].parent = IF z = y THEN p ELSE IF z = x THEN y
                                    ELSE IF z = c THEN x ELSE n[z].parent
  /\ m[x][Other(s)] = c /\ m[x][s] = n[x][s]
  /\ m[y][s] = x /\ m[y][Other(s)] = n[y][Other(s)]
  /\ \A z \in Nodes \ {x, y}, t \in Sides :
       m[z][t] = IF x # Root(n) /\ z = p /\ n[p][t] = x THEN y ELSE n[z][t]

\* What the assignments of Lrotate and Rrotate come to.
LEMMA RotateIs ==
  ASSUME NEW n \in Pool, NEW x \in Nodes, NEW s \in Sides,
         NEW y \in Nodes, y = n[x][Other(s)], NEW c \in Slots, c = n[y][s],
         NEW p \in Slots, p = n[x].parent,
         x # y, c # x, c # y, p # x, p # y, Hangs(n, x),
         x = Root(n) => p = Head0,
         x # Root(n) => p # c
  PROVE  Rotated(n, Rotate(n, x, s), x, s, y, c, p)
<1>m. PICK m : m = Rotate(n, x, s)
  OBVIOUS
<1>o. PICK o : o = Other(s)
  OBVIOUS
<1>p. PICK n1 : n1 = Put(n, x, o, c)
  OBVIOUS
<1>q. PICK n2 : n2 = SetParent(n1, c, x)
  OBVIOUS
<1>r. PICK n3 : n3 = Put(n2, y, "parent", p)
  OBVIOUS
<1>s. PICK n4 : n4 = Replace(n3, x, y)
  OBVIOUS
<1>t. PICK n5 : n5 = Put(n4, y, s, x)
  BY SMTT(30)
<1>0. m = Put(n5, x, "parent", y)
  BY <1>m, <1>o, <1>p, <1>q, <1>r, <1>s, <1>t DEF Rotate
<1>a. x \in Slots /\ y \in Slots /\ Head0 \in Slots /\ x # Head0 /\ y # Head0 /\ o \in Sides /\ o # s
      /\ \A z \in Nodes : z \in Slots /\ z # Head0
  BY <1>o, SlotFacts, SideFacts
<1>1. SideSet(n, n1, x, o, c)
  BY <1>a, <1>p, WroteSide
<1>2. ParentKept(n1, n2, c, x)
  BY <1>a, <1>1, <1>q, SetParentIs DEF SideSet
<1>3. ParentSet(n2, n3, y, p)
  BY <1>a, <1>2, <1>r, WroteParent DEF ParentKept
<1>b. /\ Root(n3) = Root(n) /\ n3[x].parent = p
      /\ \A t \in Sides : x # Root(n) => n3[p][t] = n[p][t]
  BY <1>a, <1>1, <1>2, <1>3 DEF Root, SideSet, ParentSet, ParentKept
<1>c. Hangs(n3, x)
  BY <1>b, SideFacts DEF Hangs
<1>4. Replaced(n3, n4, x, y)
  BY <1>a, <1>3, <1>c, <1>s, ReplaceIs DEF ParentSet
<1>5. SideSet(n4, n5, y, s, x)
  BY <1>a, <1>4, <1>t, WroteSide DEF Replaced
<1>6. ParentSet(n5, m, x, y)
  BY <1>0, <1>a, <1>5, WroteParent DEF SideSet
<1>7. \A z \in Slots : m[z].key = n[z].key /\ m[z].red = n[z].red
  BY <1>1, <1>2, <1>3, <1>4, <1>5, <1>6 DEF SideSet, ParentSet, ParentKept, Replaced
<1>8. \A z \in Slots, t \in Sides : m[z][t] =
        IF z = y /\ t = s THEN x
        ELSE IF x # Root(n) /\ z = p /\ n3[z][t] = x THEN y
        ELSE IF z = x /\ t = o THEN c ELSE n[z][t]
  BY <1>1, <1>2, <1>3, <1>4, <1>5, <1>6, <1>b DEF SideSet, ParentSet, ParentKept, Replaced
<1>9. \A z \in Nodes : m[z].parent = IF z = x THEN y ELSE IF z = y THEN p
                                      ELSE IF z = c THEN x ELSE n[z].parent
  BY <1>a, <1>1, <1>2, <1>3, <1>4, <1>5, <1>6 DEF SideSet, ParentSet, ParentKept, Replaced
<1>d. Root(m) = IF x = Root(n) THEN y ELSE Root(n)
  BY <1>a, <1>4, <1>5, <1>6, <1>b DEF Root, SideSet, ParentSet, Replaced
<1>e. \A t \in Sides : m[Head0][t] = n[Head0][t]
  BY <1>8, <1>a, <1>b DEF Hangs
<1>f. m[x][o] = c /\ m[x][s] = n[x][s] /\ m[y][s] = x /\ m[y][o] = n[y][o]
  BY <1>8, <1>a
<1>g. \A z \in Nodes \ {x, y}, t \in Sides :
        m[z][t] = IF x # Root(n) /\ z = p /\ n[p][t] = x THEN y ELSE n[z][t]
  BY <1>8, <1>a, <1>b
<1>h. \A z \in Nodes : m[z].parent = IF z = y THEN p ELSE IF z = x THEN y
                                      ELSE IF z = c THEN x ELSE n[z].parent
  BY <1>9
<1> QED
  BY <1>6, <1>7, <1>h, <1>d, <1>e, <1>f, <1>g, <1>o, <1>m DEF Rotated, ParentSet

-----------------------------------------------------------------------------
(* What a loop keeps *)

\* The states a loop goes through in m turns.
Turns(u, turn, start, m) ==
  u = [i \in 0 .. m |-> IF i = 0 THEN start ELSE turn[u[i - 1]]]

LEMMA TurnsExist ==
  ASSUME NEW turn, NEW start, NEW n \in Nat
  PROVE  \E u : Turns(u, turn, start, n)
<1> DEFINE S == {m \in Nat : \E u : Turns(u, turn, start, m)}
<1>1. 0 \in S
  <2>1. PICK u : u = [i \in 0 .. 0 |-> start]
    OBVIOUS
  <2>2. Turns(u, turn, start, 0)
    BY <2>1 DEF Turns
  <2> QED
    BY <2>2
<1>2. ASSUME NEW m \in S PROVE m + 1 \in S
  <2>1. m \in Nat
    OBVIOUS
  <2>2. PICK u : Turns(u, turn, start, m)
    OBVIOUS
  <2>3. PICK g : g = [i \in 0 .. m + 1 |-> IF i = m + 1 THEN turn[u[m]] ELSE u[i]]
    OBVIOUS
  <2>4. ASSUME NEW i \in 0 .. m + 1
        PROVE  g[i] = IF i = 0 THEN start ELSE turn[g[i - 1]]
    <3>1. CASE i = m + 1
      <4>1. i # 0 /\ i - 1 = m /\ m \in 0 .. m + 1 /\ m # m + 1 /\ m + 1 \in 0 .. m + 1
        BY <2>1, <3>1
      <4>2. g[m + 1] = turn[u[m]] /\ g[m] = u[m]
        BY <2>3, <4>1
      <4> QED
        BY <3>1, <4>1, <4>2
    <3>2. CASE i \in 0 .. m
      <4>1. i # m + 1 /\ (i # 0 => i - 1 \in 0 .. m /\ i - 1 # m + 1 /\ i - 1 \in 0 .. m + 1)
        BY <2>1, <3>2
      <4>2. u[i] = IF i = 0 THEN start ELSE turn[u[i - 1]]
        BY <2>2, <3>2 DEF Turns
      <4>3. g[i] = u[i] /\ (i # 0 => g[i - 1] = u[i - 1])
        BY <2>3, <4>1
      <4> QED
        BY <4>2, <4>3
    <3> QED
      BY <2>1, <3>1, <3>2
  <2>5. Turns(g, turn, start, m + 1)
    <3>1. PICK w : w = [i \in 0 .. m + 1 |-> IF i = 0 THEN start ELSE turn[g[i - 1]]]
      OBVIOUS
    <3>2. DOMAIN g = 0 .. m + 1 /\ g = [i \in DOMAIN g |-> g[i]]
      BY <2>3
    <3>3. w = [i \in 0 .. m + 1 |-> w[i]] /\ \A i \in 0 .. m + 1 : w[i] = g[i]
      BY <2>4, <3>1
    <3>4. g = w
      BY <3>2, <3>3
    <3> QED
      BY <3>1, <3>4 DEF Turns
  <2> HIDE DEF S
  <2>6. m + 1 \in Nat
    BY <2>1
  <2> QED
    BY <2>5, <2>6 DEF S
<1> HIDE DEF S
<1>3. S \in SUBSET Nat
  BY DEF S
<1>4. n \in S
  BY <1>1, <1>2, <1>3, Induct
<1> QED
  BY <1>4 DEF S

\* What holds at the start of a loop and is handed on by every turn holds where
\* it ends; J[i] is what is known of the state after i turns.
LEMMA LoopInvariant ==
  ASSUME NEW turn, NEW start, NEW J, start \in J[0],
         \A i \in Nat : \A s \in J[i] : turn[s] \in J[i + 1]
  PROVE  Loop(turn, start) \in J[Capacity + 1]
<1>0. Capacity + 1 \in Nat
  BY SlotFacts
<1>1. \E u : Turns(u, turn, start, Capacity + 1)
  BY <1>0, TurnsExist
<1>2. Loop(turn, start) = (CHOOSE u : Turns(u, turn, start, Capacity + 1))[Capacity + 1]
  BY Zenon DEF Loop, Turns
<1>3. PICK u : u = CHOOSE w : Turns(w, turn, start, Capacity + 1)
  OBVIOUS
<1>4. Turns(u, turn, start, Capacity + 1)
  BY <1>1, <1>3
<1>5. \A i \in 0 .. Capacity + 1 : u[i] = IF i = 0 THEN start ELSE turn[u[i - 1]]
  BY <1>4 DEF Turns
<1> DEFINE S == {i \in Nat : i <= Capacity + 1 => u[i] \in J[i]}
<1>6. 0 \in S
  BY <1>0, <1>5
<1>7. ASSUME NEW i \in S PROVE i + 1 \in S
  <2>1. i \in Nat /\ (i <= Capacity + 1 => u[i] \in J[i])
    OBVIOUS
  <2>2. SUFFICES ASSUME i + 1 <= Capacity + 1 PROVE u[i + 1] \in J[i + 1]
    BY <2>1
  <2>3. i + 1 \in 0 .. Capacity + 1 /\ i + 1 # 0 /\ i + 1 - 1 = i /\ i <= Capacity + 1
    BY <1>0, <2>1, <2>2
  <2>4. u[i + 1] = turn[u[i]]
    BY <1>5, <2>3
  <2> QED
    BY <2>1, <2>3, <2>4
<1> HIDE DEF S
<1>8. S = Nat
  <2>1. S \in SUBSET Nat
    BY DEF S
  <2> QED
    BY <1>6, <1>7, <2>1, Induct
<1>9. u[Capacity + 1] \in J[Capacity + 1]
  BY <1>0, <1>8 DEF S
<1> QED
  BY <1>2, <1>3, <1>9

-----------------------------------------------------------------------------
(* The shape of the tree: what is under each node *)

\* The nodes of U are linked with their parents both ways.
Links(n, U) ==
  /\ n \in Pool /\ U \in SUBSET Nodes
  /\ \A x \in U, s \in Sides : n[x][s] # Head0 => n[x][s] \in U /\ n[n[x][s]].parent = x
  /\ \A x \in U : IF x = Root(n) THEN n[x].parent = Head0
                  ELSE n[x].parent \in U /\ \E s \in Sides : n[n[x].parent][s] = x
  /\ Root(n) \in U \cup {Head0}

\* D[x] are the nodes from x down, in the order of their keys; from the root they
\* are all of U.
Under(n, U, D) ==
  /\ D \in [Slots -> SUBSET U]
  /\ D[Head0] = {}
  /\ \A x \in U : D[x] = {x} \cup D[n[x].left] \cup D[n[x].right]
  /\ \A x \in U, s \in Sides : \A y \in D[n[x][s]] : Before(s, n[y].key, n[x].key)
  /\ D[Root(n)] = U

\* A search tree; D is what makes it one.
Tree(n, U, D) == Links(n, U) /\ Under(n, U, D)

LEMMA BeforeFacts ==
  ASSUME NEW a \in Nat, NEW b \in Nat, NEW c \in Nat, NEW s \in Sides
  PROVE  /\ ~Before(s, a, a)
         /\ Before(s, a, b) /\ Before(s, b, c) => Before(s, a, c)
         /\ Before(Other(s), a, b) <=> Before(s, b, a)
         /\ a # b => Before(s, a, b) \/ Before(s, b, a)
         /\ ~(Before(s, a, b) /\ Before(s, b, a))
         /\ Before(s, a, b) => a # b
BY DEF Before, Sides, Other

LEMMA StrictSubset ==
  ASSUME NEW A, IsFiniteSet(A), NEW B \in SUBSET A, B # A
  PROVE  /\ Cardinality(A) \in Nat /\ Cardinality(B) \in Nat
         /\ Cardinality(B) < Cardinality(A)
<1>1. IsFiniteSet(B) /\ Cardinality(B) <= Cardinality(A) /\ (Cardinality(A) = Cardinality(B) => A = B)
  BY FS_Subset
<1>2. Cardinality(A) \in Nat /\ Cardinality(B) \in Nat
  BY <1>1, FS_CardinalityType
<1> QED
  BY <1>1, <1>2

\* What is near a node of a tree.
NearBy(n, U, D, x) ==
  /\ x \in Nodes /\ x \in Slots /\ x # Head0 /\ n[x].key \in Nat
  /\ x \in D[x] /\ D[x] \in SUBSET U
  /\ \A s \in Sides : /\ n[x][s] \in Slots
                      /\ n[x][s] # Head0 => n[x][s] \in U
                      /\ D[n[x][s]] \in SUBSET D[x]
                      /\ x \notin D[n[x][s]]
                      /\ n[x][s] # Head0 => n[x][s] \in D[n[x][s]]
                      /\ n[x][s] # x
                      /\ n[x][s] = n[x][Other(s)] => n[x][s] = Head0
  /\ \A y \in D[x], s \in Sides : y = x \/ y \in D[n[x][s]] \/ y \in D[n[x][Other(s)]]
  /\ \A s \in Sides : D[n[x][s]] \cap D[n[x][Other(s)]] = {}

\* The facts about a node that most proofs start from.
LEMMA Near ==
  ASSUME NEW n, NEW U, NEW D, Tree(n, U, D), NEW x \in U
  PROVE  NearBy(n, U, D, x)
<1>1. x \in Nodes /\ x \in Slots /\ x # Head0 /\ n[x].key \in Nat /\ n \in Pool
  BY SlotFacts, PoolFacts DEF Tree, Links
<1>2. \A y \in U : y \in Slots /\ n[y].key \in Nat
  BY SlotFacts, PoolFacts DEF Tree, Links
<1>3. x \in D[x] /\ D[x] \in SUBSET U
  BY <1>1 DEF Tree, Under
<1>4. \A s \in Sides : n[x][s] \in Slots /\ (n[x][s] # Head0 => n[x][s] \in U)
  BY <1>1, PoolFacts DEF Tree, Links
<1>5. D[x] = {x} \cup D[n[x].left] \cup D[n[x].right]
  BY DEF Tree, Under
<1>6. \A s \in Sides : D[n[x][s]] \in SUBSET D[x]
  BY <1>5 DEF Sides
<1>7. \A y \in U : y \in D[y]
  BY DEF Tree, Under
<1>8. \A s \in Sides : \A y \in D[n[x][s]] : y \in U /\ Before(s, n[y].key, n[x].key)
  BY <1>3, <1>6 DEF Tree, Under
<1>9. \A s \in Sides : x \notin D[n[x][s]]
  BY <1>1, <1>8, BeforeFacts
<1>10. \A y \in D[x], s \in Sides : y = x \/ y \in D[n[x][s]] \/ y \in D[n[x][Other(s)]]
  BY <1>5, SideFacts
<1>11. \A s \in Sides : D[n[x][s]] \cap D[n[x][Other(s)]] = {}
  BY <1>1, <1>2, <1>8, BeforeFacts, SideFacts
<1>12. \A s \in Sides : n[x][s] # x
  BY <1>1, <1>4, <1>7, <1>9
<1>13. \A s \in Sides : n[x][s] = n[x][Other(s)] => n[x][s] = Head0
  BY <1>4, <1>7, <1>11
<1>14. \A s \in Sides : n[x][s] # Head0 => n[x][s] \in D[n[x][s]]
  BY <1>4, <1>7
<1> QED
  BY <1>1, <1>3, <1>4, <1>6, <1>9, <1>10, <1>11, <1>12, <1>13, <1>14 DEF NearBy

\* Measures of the loops are numbers.
LEMMA FiniteUnder ==
  ASSUME NEW n, NEW U, NEW D, Tree(n, U, D)
  PROVE  /\ IsFiniteSet(U) /\ Cardinality(U) \in Nat /\ Cardinality(U) <= Capacity
         /\ \A x \in Slots : IsFiniteSet(D[x]) /\ Cardinality(D[x]) \in Nat /\ Cardinality(D[x]) <= Capacity
<1>1. \A A \in SUBSET Nodes : IsFiniteSet(A) /\ Cardinality(A) \in Nat /\ Cardinality(A) <= Capacity
  BY SlotFacts, FS_Subset, FS_CardinalityType
<1>2. U \in SUBSET Nodes /\ \A x \in Slots : D[x] \in SUBSET Nodes
  BY DEF Tree, Links, Under
<1> QED
  BY <1>1, <1>2

\* What holds of a node when it holds of its children holds of all nodes.
LEMMA DownInduct ==
  ASSUME NEW n, NEW U, NEW D, Tree(n, U, D), NEW S \in SUBSET U,
         \A x \in U : (\A s \in Sides : n[x][s] \in U => n[x][s] \in S) => x \in S
  PROVE  S = U
<1>n. \A v \in U : NearBy(n, U, D, v)
  BY Near
<1> DEFINE T == {i \in Nat : \A x \in U : Cardinality(D[x]) <= i => x \in S}
<1>1. 0 \in T
  <2>1. ASSUME NEW x \in U PROVE ~(Cardinality(D[x]) <= 0)
    <3>1. x \in D[x] /\ IsFiniteSet(D[x]) /\ Cardinality(D[x]) \in Nat
      BY <1>n, FiniteUnder DEF NearBy
    <3>2. Cardinality(D[x]) # 0
      BY <3>1, FS_EmptySet
    <3> QED
      BY <3>1, <3>2
  <2> QED
    BY <2>1
<1>2. ASSUME NEW i \in T PROVE i + 1 \in T
  <2>1. i \in Nat /\ \A x \in U : Cardinality(D[x]) <= i => x \in S
    OBVIOUS
  <2>2. SUFFICES ASSUME NEW x \in U, Cardinality(D[x]) <= i + 1 PROVE x \in S
    BY <2>1
  <2>3. ASSUME NEW s \in Sides, n[x][s] \in U PROVE n[x][s] \in S
    <3>1. D[n[x][s]] \in SUBSET D[x] /\ D[n[x][s]] # D[x] /\ x \in Slots
      BY <1>n DEF NearBy
    <3>2. IsFiniteSet(D[x])
      BY <3>1, FiniteUnder
    <3>3. Cardinality(D[n[x][s]]) < Cardinality(D[x]) /\ Cardinality(D[n[x][s]]) \in Nat /\ Cardinality(D[x]) \in Nat
      BY <3>1, <3>2, StrictSubset
    <3> QED
      BY <2>1, <2>2, <2>3, <3>3
  <2> QED
    BY <2>3
<1> HIDE DEF T
<1>3. T = Nat
  <2>1. T \in SUBSET Nat
    BY DEF T
  <2> QED
    BY <1>1, <1>2, <2>1, Induct
<1>4. ASSUME NEW x \in U PROVE x \in S
  <2>1. Cardinality(D[x]) \in T
    BY <1>3, <1>n, FiniteUnder DEF NearBy
  <2>2. Cardinality(D[x]) \in Nat
    BY <1>n, FiniteUnder DEF NearBy
  <2> QED
    BY <2>1, <2>2 DEF T
<1> QED
  BY <1>4

\* The nodes from a node down that is from x down are from x down.
LEMMA Nested ==
  ASSUME NEW n, NEW U, NEW D, Tree(n, U, D), NEW x \in U, NEW y \in D[x]
  PROVE  y \in U /\ D[y] \in SUBSET D[x]
<1>n. \A v \in U : NearBy(n, U, D, v)
  BY Near
<1> DEFINE S == {z \in U : \A w \in D[z] : D[w] \in SUBSET D[z]}
<1>1. ASSUME NEW z \in U, \A s \in Sides : n[z][s] \in U => n[z][s] \in S
      PROVE  z \in S
  <2>1. ASSUME NEW w \in D[z] PROVE D[w] \in SUBSET D[z]
    <3>1. CASE w = z
      BY <3>1
    <3>2. ASSUME NEW s \in Sides, w \in D[n[z][s]] PROVE D[w] \in SUBSET D[z]
      <4>1. n[z][s] \in U
        <5>1. n[z][s] # Head0
          BY <3>2 DEF Tree, Under
        <5> QED
          BY <5>1, <1>n DEF NearBy
      <4>2. D[w] \in SUBSET D[n[z][s]]
        BY <1>1, <3>2, <4>1
      <4>3. D[n[z][s]] \in SUBSET D[z]
        BY <1>n DEF NearBy
      <4> QED
        BY <4>2, <4>3
    <3> QED
      BY <3>1, <3>2, <1>n, SideFacts DEF NearBy
  <2> QED
    BY <2>1
<1> HIDE DEF S
<1>2. S = U
  <2>1. S \in SUBSET U
    BY DEF S
  <2> QED
    BY <1>1, <2>1, DownInduct
<1>3. y \in U
  BY <1>n DEF NearBy
<1> QED
  BY <1>2, <1>3 DEF S

\* A child on whose side w is.
LEMMA Through ==
  ASSUME NEW n, NEW U, NEW D, Tree(n, U, D), NEW x \in U, NEW s \in Sides, NEW w \in D[n[x][s]]
  PROVE  n[x][s] \in U /\ w \in U /\ w \in D[x] /\ w # x /\ Before(s, n[w].key, n[x].key)
<1>n. \A v \in U : NearBy(n, U, D, v)
  BY Near
<1>1. n[x][s] # Head0
  BY DEF Tree, Under
<1> QED
  BY <1>1, <1>n DEF Tree, Under, NearBy

\* With a node but the topmost one its parent is from z down.
LEMMA ParentUnder ==
  ASSUME NEW n, NEW U, NEW D, Tree(n, U, D), NEW z \in U, NEW x \in D[z], x # z
  PROVE  n[x].parent \in D[z] /\ n[x].parent \in U
<1>n. \A v \in U : NearBy(n, U, D, v)
  BY Near
<1> DEFINE S == {y \in U : \A w \in D[y] : w # y => n[w].parent \in D[y]}
<1>1. ASSUME NEW y \in U, \A s \in Sides : n[y][s] \in U => n[y][s] \in S
      PROVE  y \in S
  <2>1. ASSUME NEW w \in D[y], w # y PROVE n[w].parent \in D[y]
    <3>1. PICK s \in Sides : w \in D[n[y][s]]
      BY <2>1, <1>n, SideFacts DEF NearBy
    <3>2. n[y][s] \in U
      BY <3>1, Through
    <3>3. CASE w = n[y][s]
      <4>1. n[w].parent = y
        BY <3>2, <3>3, SlotFacts DEF Tree, Links
      <4> QED
        BY <4>1, <1>n DEF NearBy
    <3>4. CASE w # n[y][s]
      <4>1. n[w].parent \in D[n[y][s]]
        BY <1>1, <3>1, <3>2, <3>4
      <4>2. D[n[y][s]] \in SUBSET D[y]
        BY <1>n DEF NearBy
      <4> QED
        BY <4>1, <4>2
    <3> QED
      BY <3>3, <3>4
  <2> QED
    BY <2>1
<1> HIDE DEF S
<1>2. S = U
  <2>1. S \in SUBSET U
    BY DEF S
  <2> QED
    BY <1>1, <2>1, DownInduct
<1>3. n[x].parent \in D[z]
  BY <1>2 DEF S
<1> QED
  BY <1>3, <1>n, ZenonT(40) DEF NearBy

\* A node that is not from x down is on one side of all that are.
LEMMA Aside ==
  ASSUME NEW n, NEW U, NEW D, Tree(n, U, D), NEW x \in U, NEW z \in U, z \notin D[x]
  PROVE  \E t \in Sides : \A u \in D[x] : Before(t, n[u].key, n[z].key)
<1>n. \A v \in U : NearBy(n, U, D, v)
  BY Near
<1>m. \A v \in U : \A w \in D[v] : w \in U /\ D[w] \in SUBSET D[v]
  BY Nested
<1> DEFINE P(y) == x \in D[y] => \A w \in D[y] \ D[x] : \E t \in Sides : \A u \in D[x] : Before(t, n[u].key, n[w].key)
           S == {y \in U : P(y)}
<1>1. ASSUME NEW y \in U, \A s \in Sides : n[y][s] \in U => n[y][s] \in S
      PROVE  y \in S
  <2>1. SUFFICES ASSUME x \in D[y], NEW w \in D[y] \ D[x]
                 PROVE \E t \in Sides : \A u \in D[x] : Before(t, n[u].key, n[w].key)
    OBVIOUS
  <2>2. x # y
    BY <2>1
  <2>3. PICK s \in Sides : x \in D[n[y][s]]
    BY <2>1, <2>2, <1>n, SideFacts DEF NearBy
  <2>4. n[y][s] \in U
    BY <2>3, Through
  <2>5. D[x] \in SUBSET D[n[y][s]]
    BY <2>3, <2>4, <1>m
  <2>6. CASE w = y
    BY <2>5, <2>6, Through
  <2>7. CASE w \in D[n[y][s]]
    BY <1>1, <2>1, <2>3, <2>4, <2>7
  <2>8. CASE w \in D[n[y][Other(s)]]
    <3>1. Other(s) \in Sides
      BY SideFacts
    <3>2. w \in U /\ Before(Other(s), n[w].key, n[y].key)
      BY <2>8, <3>1, Through
    <3>3. ASSUME NEW u \in D[x] PROVE Before(s, n[u].key, n[w].key)
      <4>1. u \in U /\ Before(s, n[u].key, n[y].key)
        BY <2>5, Through
      <4>2. n[u].key \in Nat /\ n[w].key \in Nat /\ n[y].key \in Nat
        BY <3>2, <4>1, <1>n DEF NearBy
      <4> QED
        BY <3>2, <4>1, <4>2, BeforeFacts
    <3> QED
      BY <3>3
  <2> QED
    BY <2>1, <2>6, <2>7, <2>8, <1>n DEF NearBy
<1> HIDE DEF S
<1>2. S = U
  <2>1. S \in SUBSET U
    BY DEF S
  <2> QED
    BY <1>1, <2>1, DownInduct
<1>3. Root(n) \in U
  <2>1. Root(n) # Head0
    BY DEF Tree, Under
  <2> QED
    BY <2>1 DEF Tree, Links
<1>4. D[Root(n)] = U
  BY DEF Tree, Under
<1> QED
  BY <1>2, <1>3, <1>4 DEF S

\* No element is there twice.
LEMMA KeysDiffer ==
  ASSUME NEW n, NEW U, NEW D, Tree(n, U, D), NEW x \in U, NEW y \in U, n[x].key = n[y].key
  PROVE  x = y
<1>n. \A v \in U : NearBy(n, U, D, v)
  BY Near
<1>1. n[x].key \in Nat /\ x \in D[x] /\ y \in D[y]
  BY <1>n DEF NearBy
<1>2. y \in D[x]
  BY <1>1, Aside, BeforeFacts
<1>3. ASSUME NEW s \in Sides, y \in D[n[x][s]] PROVE FALSE
  BY <1>1, <1>3, Through, BeforeFacts
<1> QED
  BY <1>2, <1>3, <1>n, SideFacts DEF NearBy

-----------------------------------------------------------------------------
(* Outermost nodes, ++ and -- *)

\* y is the outermost of A on a side.
Utmost(n, A, y, s) == y \in A /\ \A z \in A : z = y \/ Before(s, n[y].key, n[z].key)

\* Two nodes of which neither is from the other down are parted by a third.
LEMMA Split ==
  ASSUME NEW n, NEW U, NEW D, Tree(n, U, D), NEW x \in U, NEW z \in U, z \notin D[x]
  PROVE  \E w \in U, t \in Sides : x \in D[n[w][t]] /\ (z = w \/ z \in D[n[w][Other(t)]])
<1>n. \A v \in U : NearBy(n, U, D, v)
  BY Near
<1> DEFINE P(y) == \A v \in D[y] : x \in D[y] /\ v \notin D[x] =>
                     \E w \in U, t \in Sides : x \in D[n[w][t]] /\ (v = w \/ v \in D[n[w][Other(t)]])
           S == {y \in U : P(y)}
<1>1. ASSUME NEW y \in U, \A s \in Sides : n[y][s] \in U => n[y][s] \in S
      PROVE  y \in S
  <2>1. SUFFICES ASSUME NEW v \in D[y], x \in D[y], v \notin D[x]
                 PROVE \E w \in U, t \in Sides : x \in D[n[w][t]] /\ (v = w \/ v \in D[n[w][Other(t)]])
    OBVIOUS
  <2>2. x # y
    BY <2>1
  <2>3. PICK s \in Sides : x \in D[n[y][s]]
    BY <2>1, <2>2, <1>n, SideFacts DEF NearBy
  <2>4. n[y][s] \in U
    BY <2>3, Through
  <2>5. v = y \/ v \in D[n[y][s]] \/ v \in D[n[y][Other(s)]]
    BY <2>1, <1>n DEF NearBy
  <2>6. CASE v \in D[n[y][s]]
    BY <1>1, <2>1, <2>3, <2>4, <2>6
  <2> HIDE DEF S, P
  <2> QED
    BY <2>3, <2>5, <2>6
<1> HIDE DEF S
<1>2. S = U
  <2>1. S \in SUBSET U
    BY DEF S
  <2> QED
    BY <1>1, <2>1, DownInduct
<1>3. Root(n) \in U
  <2>1. Root(n) # Head0
    BY DEF Tree, Under
  <2> QED
    BY <2>1 DEF Tree, Links
<1>4. D[Root(n)] = U
  BY DEF Tree, Under
<1> QED
  BY <1>2, <1>3, <1>4 DEF S

\* Min and Max end at the outermost node below.
LEMMA OutermostIs ==
  ASSUME NEW n, NEW U, NEW D, Tree(n, U, D), NEW x \in U, NEW s \in Sides
  PROVE  /\ Outermost(n, x, s) \in U
         /\ Utmost(n, D[x], Outermost(n, x, s), s)
         /\ n[Outermost(n, x, s)][s] = Head0
<1>n. \A v \in U : NearBy(n, U, D, v)
  BY Near
<1>m. \A v \in U : \A w \in D[v] : w \in U /\ D[w] \in SUBSET D[v]
  BY Nested
<1>k. \A v \in U, t \in Sides : \A w \in D[n[v][t]] :
        n[v][t] \in U /\ w \in U /\ w \in D[v] /\ w # v /\ Before(t, n[w].key, n[v].key)
  BY Through
<1>f. \A v \in U : IsFiniteSet(D[v]) /\ Cardinality(D[v]) \in Nat /\ Cardinality(D[v]) <= Capacity
  <2>1. \A v \in Slots : IsFiniteSet(D[v]) /\ Cardinality(D[v]) \in Nat /\ Cardinality(D[v]) <= Capacity
    BY FiniteUnder
  <2> QED
    BY <2>1, <1>n DEF NearBy
<1>c. Capacity \in Nat
  BY SlotFacts
<1> DEFINE turn == [y \in Slots |-> IF n[y][s] = Head0 THEN y ELSE n[y][s]]
           Good(y) == /\ y \in D[x]
                      /\ \A z \in D[x] : z \in D[y] \/ Before(s, n[y].key, n[z].key)
           J == [i \in Nat |-> {y \in U : Good(y) /\ (n[y][s] = Head0 \/ Cardinality(D[y]) + i <= Capacity)}]
<1>1. x \in J[0]
  <2>1. x \in D[x]
    BY <1>n DEF NearBy
  <2>2. Cardinality(D[x]) + 0 <= Capacity
    BY <1>f
  <2> QED
    BY <2>1, <2>2
<1>2. ASSUME NEW i \in Nat, NEW y \in J[i] PROVE turn[y] \in J[i + 1]
  <2>1. y \in U /\ Good(y) /\ (n[y][s] = Head0 \/ Cardinality(D[y]) + i <= Capacity)
    BY <1>2
  <2>2. y \in Slots
    BY <2>1, <1>n DEF NearBy
  <2>3. CASE n[y][s] = Head0
    <3>1. turn[y] = y
      BY <2>2, <2>3
    <3> HIDE DEF turn
    <3> QED
      BY <2>1, <2>3, <3>1
  <2>4. CASE n[y][s] # Head0
    <3> DEFINE k == n[y][s]
    <3>1. turn[y] = k
      BY <2>2, <2>4
    <3>2. k \in U /\ k \in D[k] /\ D[k] \in SUBSET D[y] /\ y \in D[y] /\ y \notin D[k]
      BY <2>1, <2>4, <1>n DEF NearBy
    <3>3. k \in D[x] /\ Before(s, n[k].key, n[y].key)
      BY <2>1, <3>2, <1>m, <1>k
    <3>4. ASSUME NEW z \in D[x] PROVE z \in D[k] \/ Before(s, n[k].key, n[z].key)
      <4>0. n[z].key \in Nat /\ n[k].key \in Nat /\ n[y].key \in Nat /\ z \in U
        BY <2>1, <3>2, <3>4, <1>n DEF NearBy
      <4>1. CASE Before(s, n[y].key, n[z].key)
        BY <3>3, <4>0, <4>1, BeforeFacts
      <4>2. CASE z \in D[y]
        <5>1. z = y \/ z \in D[k] \/ z \in D[n[y][Other(s)]]
          BY <2>1, <4>2, <1>n DEF NearBy
        <5>2. CASE z \in D[n[y][Other(s)]]
          <6>1. Before(Other(s), n[z].key, n[y].key)
            BY <2>1, <5>2, <1>k, SideFacts
          <6>2. Before(s, n[y].key, n[z].key)
            BY <4>0, <6>1, BeforeFacts
          <6> QED
            BY <3>3, <4>0, <6>2, BeforeFacts
        <5> QED
          BY <3>3, <5>1, <5>2
      <4> QED
        BY <2>1, <4>1, <4>2
    <3>5. Cardinality(D[k]) < Cardinality(D[y])
      BY <2>1, <3>2, <1>f, StrictSubset
    <3>6. Cardinality(D[k]) + (i + 1) <= Capacity
      BY <2>1, <2>4, <3>2, <3>5, <1>f, <1>c
    <3> HIDE DEF turn, k
    <3> QED
      BY <3>1, <3>2, <3>3, <3>4, <3>6
  <2> QED
    BY <2>3, <2>4
<1>3. Loop(turn, x) \in J[Capacity + 1]
  <2> HIDE DEF turn, J
  <2> QED
    BY <1>1, <1>2, LoopInvariant
<1>4. PICK y : y = Outermost(n, x, s)
  OBVIOUS
<1>5. y = Loop(turn, x)
  BY <1>4 DEF Outermost
<1> HIDE DEF turn
<1>6. y \in U /\ Good(y) /\ (n[y][s] = Head0 \/ Cardinality(D[y]) + (Capacity + 1) <= Capacity)
  BY <1>3, <1>5, <1>c
<1>7. n[y][s] = Head0
  BY <1>6, <1>f, <1>c
<1>8. ASSUME NEW z \in D[x], z # y PROVE Before(s, n[y].key, n[z].key)
  <2>1. CASE z \in D[y]
    <3>1. z \in D[n[y][Other(s)]]
      <4>1. z \in D[n[y][s]] \/ z \in D[n[y][Other(s)]]
        BY <1>6, <1>8, <2>1, <1>n DEF NearBy
      <4>2. D[n[y][s]] = {}
        BY <1>7 DEF Tree, Under
      <4> QED
        BY <4>1, <4>2
    <3>2. Before(Other(s), n[z].key, n[y].key) /\ z \in U
      BY <1>6, <3>1, <1>k, SideFacts
    <3>3. n[y].key \in Nat /\ n[z].key \in Nat
      BY <1>6, <3>2, <1>n DEF NearBy
    <3> QED
      BY <3>2, <3>3, BeforeFacts
  <2> QED
    BY <1>6, <2>1
<1> QED
  BY <1>4, <1>6, <1>7, <1>8 DEF Utmost

\* The first ancestor that has x not on a side: x is the outermost from there on.
LEMMA ClimbIs ==
  ASSUME NEW n, NEW U, NEW D, Tree(n, U, D), NEW x \in U, NEW s \in Sides, n[x][s] = Head0
  PROVE  \/ Climb(n, x, s) = Head0 /\ Utmost(n, U, x, s)
         \/ /\ Climb(n, x, s) \in U
            /\ Utmost(n, D[n[Climb(n, x, s)][Other(s)]], x, s)
<1>n. \A v \in U : NearBy(n, U, D, v)
  BY Near
<1>k. \A v \in U, t \in Sides : \A w \in D[n[v][t]] :
        n[v][t] \in U /\ w \in U /\ w \in D[v] /\ w # v /\ Before(t, n[w].key, n[v].key)
  BY Through
<1>l. \A v \in U : IF v = Root(n) THEN n[v].parent = Head0
                   ELSE n[v].parent \in U /\ \E t \in Sides : n[n[v].parent][t] = v
  BY DEF Tree, Links
<1>c. Capacity \in Nat
  BY SlotFacts
<1>f. \A v \in U : /\ IsFiniteSet(U \ D[v]) /\ Cardinality(U \ D[v]) \in Nat
                   /\ Cardinality(U \ D[v]) <= Capacity
  <2>1. IsFiniteSet(U) /\ Cardinality(U) <= Capacity /\ Cardinality(U) \in Nat
    BY FiniteUnder
  <2>2. \A A \in SUBSET U : IsFiniteSet(A) /\ Cardinality(A) <= Cardinality(U) /\ Cardinality(A) \in Nat
    BY <2>1, FS_Subset, FS_CardinalityType
  <2>3. ASSUME NEW v \in U
        PROVE  IsFiniteSet(U \ D[v]) /\ Cardinality(U \ D[v]) <= Cardinality(U) /\ Cardinality(U \ D[v]) \in Nat
    BY <2>2
  <2> QED
    BY <2>1, <2>3, <1>c
<1> DEFINE turn == [y \in Slots |-> LET p == n[y].parent
                                    IN IF p # Head0 /\ y = n[p][s] THEN p ELSE y]
           Done(y) == n[y].parent = Head0 \/ y # n[n[y].parent][s]
           J == [i \in Nat |-> {y \in U : Utmost(n, D[y], x, s)
                                          /\ (Done(y) \/ Cardinality(U \ D[y]) + i <= Capacity)}]
<1>1. x \in J[0]
  <2>1. Utmost(n, D[x], x, s)
    <3>1. D[n[x][s]] = {}
      BY DEF Tree, Under
    <3>2. ASSUME NEW z \in D[x], z # x PROVE Before(s, n[x].key, n[z].key)
      <4>1. z \in D[n[x][Other(s)]]
        BY <3>1, <3>2, <1>n DEF NearBy
      <4>2. Before(Other(s), n[z].key, n[x].key) /\ z \in U
        BY <4>1, <1>k, SideFacts
      <4>3. n[z].key \in Nat /\ n[x].key \in Nat
        BY <4>2, <1>n DEF NearBy
      <4> QED
        BY <4>2, <4>3, BeforeFacts
    <3>3. x \in D[x]
      BY <1>n DEF NearBy
    <3> QED
      BY <3>2, <3>3 DEF Utmost
  <2>2. Cardinality(U \ D[x]) + 0 <= Capacity
    BY <1>f
  <2> QED
    BY <2>1, <2>2
<1>2. ASSUME NEW i \in Nat, NEW y \in J[i] PROVE turn[y] \in J[i + 1]
  <2>1. y \in U /\ Utmost(n, D[y], x, s) /\ (Done(y) \/ Cardinality(U \ D[y]) + i <= Capacity)
    BY <1>2
  <2>2. y \in Slots
    BY <2>1, <1>n DEF NearBy
  <2>3. CASE Done(y)
    <3>1. turn[y] = y
      BY <2>2, <2>3
    <3> HIDE DEF turn
    <3> QED
      BY <2>1, <2>3, <3>1
  <2>4. CASE ~Done(y)
    <3> DEFINE p == n[y].parent
    <3>1. turn[y] = p /\ p # Head0 /\ y = n[p][s]
      BY <2>2, <2>4
    <3>2. p \in U
      BY <2>1, <3>1, <1>l
    <3> HIDE DEF p, turn
    <3>3. y \in U /\ y \in D[n[p][s]] /\ D[y] = D[n[p][s]] /\ D[y] \in SUBSET D[p] /\ p \in D[p] /\ p \notin D[y]
          /\ D[p] \in SUBSET U /\ D[y] \in SUBSET U
      BY <2>1, <3>1, <3>2, <1>n DEF NearBy
    <3>4. x \in D[y] /\ x \in U /\ Before(s, n[x].key, n[p].key)
      BY <2>1, <3>2, <3>3, <1>k DEF Utmost
    <3>5. ASSUME NEW z \in D[p], z # x PROVE Before(s, n[x].key, n[z].key)
      <4>0. n[z].key \in Nat /\ n[x].key \in Nat /\ n[p].key \in Nat
        BY <3>2, <3>3, <3>4, <1>n DEF NearBy
      <4>1. z = p \/ z \in D[n[p][s]] \/ z \in D[n[p][Other(s)]]
        BY <3>2, <1>n DEF NearBy
      <4>2. CASE z \in D[n[p][s]]
        BY <2>1, <3>3, <3>5, <4>2 DEF Utmost
      <4>3. CASE z \in D[n[p][Other(s)]]
        <5>1. Before(Other(s), n[z].key, n[p].key)
          BY <3>2, <4>3, <1>k, SideFacts
        <5> QED
          BY <3>4, <4>0, <5>1, BeforeFacts
      <4> QED
        BY <3>4, <4>1, <4>2, <4>3
    <3>6. Utmost(n, D[p], x, s)
      BY <3>3, <3>4, <3>5 DEF Utmost
    <3>7. Cardinality(U \ D[p]) < Cardinality(U \ D[y])
      <4>1. U \ D[p] \in SUBSET (U \ D[y]) /\ U \ D[p] # U \ D[y] /\ IsFiniteSet(U \ D[y])
        BY <3>2, <3>3, <1>f
      <4> QED
        BY <4>1, StrictSubset
    <3>8. Cardinality(U \ D[p]) + (i + 1) <= Capacity
      <4>1. Cardinality(U \ D[y]) + i <= Capacity
        BY <2>1, <2>4
      <4>2. Cardinality(U \ D[y]) \in Nat /\ Cardinality(U \ D[p]) \in Nat /\ i \in Nat
        BY <2>1, <3>2, <1>f
      <4> HIDE DEF Done, J
      <4> QED
        BY <3>7, <4>1, <4>2, <1>c
    <3> QED
      BY <3>1, <3>2, <3>6, <3>8
  <2> QED
    BY <2>3, <2>4
<1>3. Loop(turn, x) \in J[Capacity + 1]
  <2> HIDE DEF turn, J
  <2> QED
    BY <1>1, <1>2, LoopInvariant
<1>4. PICK y : y = Loop(turn, x)
  OBVIOUS
<1>5. Climb(n, x, s) = n[y].parent
  BY <1>4 DEF Climb
<1> HIDE DEF turn
<1>6. y \in U /\ Utmost(n, D[y], x, s) /\ (Done(y) \/ Cardinality(U \ D[y]) + (Capacity + 1) <= Capacity)
  BY <1>3, <1>4, <1>c
<1>7. Done(y)
  BY <1>6, <1>f, <1>c
<1>8. CASE y = Root(n)
  <2>1. D[y] = U /\ n[y].parent = Head0
    BY <1>6, <1>8, <1>l DEF Tree, Under
  <2> QED
    BY <1>5, <1>6, <2>1
<1>9. CASE y # Root(n)
  <2>1. n[y].parent \in U /\ \E t \in Sides : n[n[y].parent][t] = y
    BY <1>6, <1>9, <1>l
  <2>2. n[y].parent # Head0
    BY <2>1, <1>n DEF NearBy
  <2>3. n[n[y].parent][Other(s)] = y
    BY <1>7, <2>1, <2>2, SideFacts
  <2> QED
    BY <1>5, <1>6, <2>1, <2>3
<1> QED
  BY <1>8, <1>9

\* y is next to x on a side; x is the last there if y is the head.
Adjacent(n, U, x, y, s) ==
  \/ y = Head0 /\ Utmost(n, U, x, s)
  \/ /\ y \in U /\ Before(s, n[y].key, n[x].key)
     /\ \A z \in U : ~(Before(s, n[z].key, n[x].key) /\ Before(s, n[y].key, n[z].key))

\* ++ (side right) and -- (side left) of an iterator at an element.
Stepped(n, x, s) == IF n[x][s] # Head0 THEN Outermost(n, n[x][s], Other(s)) ELSE Climb(n, x, s)

\* ++ and -- lead to the neighbor in the order of keys.
LEMMA SteppedIs ==
  ASSUME NEW n, NEW U, NEW D, Tree(n, U, D), NEW x \in U, NEW s \in Sides
  PROVE  Adjacent(n, U, x, Stepped(n, x, s), s)
<1>n. \A v \in U : NearBy(n, U, D, v)
  BY Near
<1>m. \A v \in U : \A w \in D[v] : w \in U /\ D[w] \in SUBSET D[v]
  BY Nested
<1>k. \A v \in U, t \in Sides : \A w \in D[n[v][t]] :
        n[v][t] \in U /\ w \in U /\ w \in D[v] /\ w # v /\ Before(t, n[w].key, n[v].key)
  BY Through
<1>a. \A v \in U : n[v].key \in Nat
  BY <1>n DEF NearBy
<1>o. Other(s) \in Sides
  BY SideFacts
<1>1. CASE n[x][s] # Head0
  <2>1. PICK y : y = Stepped(n, x, s)
    OBVIOUS
  <2>2. y = Outermost(n, n[x][s], Other(s))
    BY <1>1, <2>1 DEF Stepped
  <2>3. n[x][s] \in U
    BY <1>1, <1>n DEF NearBy
  <2>4. Utmost(n, D[n[x][s]], y, Other(s))
    BY <2>2, <2>3, <1>o, OutermostIs
  <2>5. y \in D[n[x][s]] /\ y \in U /\ y \in D[x] /\ Before(s, n[y].key, n[x].key)
    BY <2>4, <1>k DEF Utmost
  <2>6. ASSUME NEW z \in U, Before(s, n[z].key, n[x].key), Before(s, n[y].key, n[z].key) PROVE FALSE
    <3>1. CASE z \in D[x]
      <4>1. z = x \/ z \in D[n[x][s]] \/ z \in D[n[x][Other(s)]]
        BY <3>1, <1>n DEF NearBy
      <4>2. CASE z \in D[n[x][s]]
        <5>1. z = y \/ Before(Other(s), n[y].key, n[z].key)
          BY <2>4, <4>2 DEF Utmost
        <5> QED
          BY <2>5, <2>6, <5>1, <1>a, BeforeFacts
      <4>3. CASE z \in D[n[x][Other(s)]]
        <5>1. Before(Other(s), n[z].key, n[x].key)
          BY <4>3, <1>k, <1>o
        <5> QED
          BY <2>6, <5>1, <1>a, BeforeFacts
      <4> QED
        BY <2>6, <4>1, <4>2, <4>3, <1>a, BeforeFacts
    <3>2. CASE z \notin D[x]
      <4>1. PICK t \in Sides : \A u \in D[x] : Before(t, n[u].key, n[z].key)
        BY <3>2, Aside
      <4>2. Before(t, n[x].key, n[z].key) /\ Before(t, n[y].key, n[z].key)
        BY <2>5, <4>1, <1>n DEF NearBy
      <4>3. CASE t = s
        BY <2>6, <4>2, <4>3, <1>a, BeforeFacts
      <4>4. CASE t = Other(s)
        BY <2>5, <2>6, <4>2, <4>4, <1>a, BeforeFacts
      <4> QED
        BY <4>3, <4>4, SideFacts
    <3> QED
      BY <3>1, <3>2
  <2> QED
    BY <2>1, <2>5, <2>6 DEF Adjacent
<1>2. CASE n[x][s] = Head0
  <2>1. PICK p : p = Stepped(n, x, s)
    OBVIOUS
  <2>2. p = Climb(n, x, s)
    BY <1>2, <2>1 DEF Stepped
  <2>3. \/ p = Head0 /\ Utmost(n, U, x, s)
        \/ p \in U /\ Utmost(n, D[n[p][Other(s)]], x, s)
    BY <1>2, <2>2, ClimbIs
  <2>4. CASE p = Head0 /\ Utmost(n, U, x, s)
    BY <2>1, <2>4 DEF Adjacent
  <2>5. CASE p \in U /\ Utmost(n, D[n[p][Other(s)]], x, s)
    <3>1. x \in D[n[p][Other(s)]] /\ x \in D[p] /\ Before(Other(s), n[x].key, n[p].key)
      BY <2>5, <1>k, <1>o DEF Utmost
    <3>2. Before(s, n[p].key, n[x].key)
      BY <2>5, <3>1, <1>a, BeforeFacts
    <3>3. ASSUME NEW z \in U, Before(s, n[z].key, n[x].key), Before(s, n[p].key, n[z].key) PROVE FALSE
      <4>1. CASE z \in D[p]
        <5>1. z = p \/ z \in D[n[p][s]] \/ z \in D[n[p][Other(s)]]
          BY <2>5, <4>1, <1>n DEF NearBy
        <5>2. CASE z \in D[n[p][Other(s)]]
          <6>1. z = x \/ Before(s, n[x].key, n[z].key)
            BY <2>5, <5>2 DEF Utmost
          <6> QED
            BY <3>3, <6>1, <1>a, BeforeFacts
        <5>3. CASE z \in D[n[p][s]]
          <6>1. Before(s, n[z].key, n[p].key)
            BY <2>5, <5>3, <1>k
          <6> QED
            BY <2>5, <3>3, <6>1, <1>a, BeforeFacts
        <5> QED
          BY <2>5, <3>3, <5>1, <5>2, <5>3, <1>a, BeforeFacts
      <4>2. CASE z \notin D[p]
        <5>1. PICK t \in Sides : \A u \in D[p] : Before(t, n[u].key, n[z].key)
          BY <2>5, <4>2, Aside
        <5>2. Before(t, n[x].key, n[z].key) /\ Before(t, n[p].key, n[z].key)
          BY <2>5, <3>1, <5>1, <1>n DEF NearBy
        <5>3. CASE t = s
          BY <3>3, <5>2, <5>3, <1>a, BeforeFacts
        <5>4. CASE t = Other(s)
          BY <2>5, <3>3, <5>2, <5>4, <1>a, BeforeFacts
        <5> QED
          BY <5>3, <5>4, SideFacts
      <4> QED
        BY <4>1, <4>2
    <3> QED
      BY <2>1, <2>5, <3>2, <3>3 DEF Adjacent
  <2> QED
    BY <2>3, <2>4, <2>5
<1> QED
  BY <1>1, <1>2

\* The same of Inc and Dec.
LEMMA IncIs ==
  ASSUME NEW n, NEW U, NEW D, Tree(n, U, D), NEW x \in U
  PROVE  /\ Adjacent(n, U, x, Inc(n, x), "right") /\ Adjacent(n, U, x, Dec(n, x), "left")
         /\ Inc(n, x) = Stepped(n, x, "right") /\ Dec(n, x) = Stepped(n, x, "left")
<1>1. x # Head0
  <2>1. NearBy(n, U, D, x)
    BY Near
  <2> QED
    BY <2>1 DEF NearBy
<1>2. Inc(n, x) = Stepped(n, x, "right") /\ Dec(n, x) = Stepped(n, x, "left")
  BY <1>1, SideFacts DEF Inc, Dec, Stepped
<1> QED
  BY <1>2, SteppedIs, SideFacts

-----------------------------------------------------------------------------
(* Lower bound and find *)

\* The head knows the outermost nodes.
Outers(n, U) ==
  \A s \in Sides : IF U = {} THEN n[Head0][s] = Head0 ELSE Utmost(n, U, n[Head0][s], s)

\* x is the first node whose key is not below k; the head if there is none.
FirstFrom(n, U, x, k) ==
  \/ x = Head0 /\ \A z \in U : n[z].key < k
  \/ x \in U /\ k <= n[x].key /\ \A z \in U : n[z].key < k \/ n[x].key <= n[z].key

LEMMA RootFacts ==
  ASSUME NEW n, NEW U, NEW D, Tree(n, U, D)
  PROVE  /\ Root(n) \in U \cup {Head0} /\ Root(n) \in Slots /\ D[Root(n)] = U
         /\ Root(n) = Head0 <=> U = {}
         /\ D[Head0] = {} /\ Head0 \notin U /\ Head0 \in Slots /\ U \in SUBSET Nodes /\ n \in Pool
<1>1. /\ Root(n) \in U \cup {Head0} /\ D[Root(n)] = U /\ D[Head0] = {} /\ U \in SUBSET Nodes
      /\ n \in Pool
  BY DEF Tree, Links, Under
<1>2. Head0 \notin U /\ Head0 \in Slots /\ Root(n) \in Slots
  BY <1>1, SlotFacts
<1> QED
  BY <1>1, <1>2

\* Lbound is the lower bound.
LEMMA LboundIs ==
  ASSUME NEW n, NEW U, NEW D, Tree(n, U, D), NEW k \in Nat
  PROVE  FirstFrom(n, U, Lbound(n, k), k)
<1>n. \A v \in U : NearBy(n, U, D, v)
  BY Near
<1>k. \A v \in U, t \in Sides : \A w \in D[n[v][t]] :
        n[v][t] \in U /\ w \in U /\ w \in D[v] /\ w # v /\ Before(t, n[w].key, n[v].key)
  BY Through
<1>r. /\ Root(n) \in U \cup {Head0} /\ Root(n) \in Slots /\ D[Root(n)] = U
      /\ D[Head0] = {} /\ Head0 \notin U /\ Head0 \in Slots
  BY RootFacts
<1>f. /\ Cardinality(U) \in Nat /\ Cardinality(U) <= Capacity
      /\ \A v \in Slots : IsFiniteSet(D[v]) /\ Cardinality(D[v]) \in Nat /\ Cardinality(D[v]) <= Capacity
  BY FiniteUnder
<1>c. Capacity \in Nat
  BY SlotFacts
<1>a. \A v \in U : n[v].key \in Nat /\ v \in Slots /\ v # Head0 /\ v \in D[v]
  BY <1>n DEF NearBy
<1> DEFINE turn == [s \in [at : Slots, found : Slots] |->
                     IF s.at = Head0 THEN s
                     ELSE IF n[s.at].key < k THEN [s EXCEPT !.at = n[s.at].right]
                     ELSE [at |-> n[s.at].left, found |-> s.at]]
           Good(a, b) ==
             /\ b # Head0 => k <= n[b].key /\ \A z \in D[a] : n[z].key < n[b].key
             /\ \A z \in U : z \in D[a] \/ n[z].key < k \/ (b # Head0 /\ n[b].key <= n[z].key)
           J == [i \in Nat |-> {s \in [at : U \cup {Head0}, found : U \cup {Head0}] :
                                  /\ Good(s.at, s.found)
                                  /\ s.at = Head0 \/ Cardinality(D[s.at]) + i <= Capacity}]
<1>1. [at |-> Root(n), found |-> Head0] \in J[0]
  BY <1>r, <1>f
<1>2. ASSUME NEW i \in Nat, NEW s \in J[i] PROVE turn[s] \in J[i + 1]
  <2>1. PICK a \in U \cup {Head0}, b \in U \cup {Head0} :
          /\ s = [at |-> a, found |-> b] /\ Good(a, b)
          /\ a = Head0 \/ Cardinality(D[a]) + i <= Capacity
    BY <1>2
  <2>2. s \in [at : Slots, found : Slots] /\ s.at = a /\ s.found = b
    BY <2>1, <1>r, <1>a
  <2>3. CASE a = Head0
    <3>1. turn[s] = s
      BY <2>2, <2>3
    <3> HIDE DEF turn
    <3> QED
      BY <2>1, <2>3, <3>1
  <2>4. CASE a # Head0
    <3>1. a \in U
      BY <2>1, <2>4
    <3>2. \A t \in Sides : n[a][t] \in U \cup {Head0} /\ n[a][t] \in Slots /\ D[n[a][t]] \in SUBSET D[a] /\ a \notin D[n[a][t]] /\ a \in D[a]
      BY <3>1, <1>n DEF NearBy
    <3>3. \A t \in Sides : Cardinality(D[n[a][t]]) + (i + 1) <= Capacity
      <4>1. ASSUME NEW t \in Sides PROVE Cardinality(D[n[a][t]]) + (i + 1) <= Capacity
        <5>1. Cardinality(D[n[a][t]]) < Cardinality(D[a])
          BY <3>1, <3>2, <1>f, <1>a, StrictSubset
        <5>2. Cardinality(D[a]) + i <= Capacity
          BY <2>1, <2>4
        <5>3. Cardinality(D[a]) \in Nat /\ Cardinality(D[n[a][t]]) \in Nat
          BY <3>1, <3>2, <1>f, <1>a
        <5> HIDE DEF J
        <5> QED
          BY <5>1, <5>2, <5>3, <1>c
      <4> QED
        BY <4>1
    <3>4. \A z \in D[a] : z \in U /\ n[z].key \in Nat
                          /\ (z = a \/ (z \in D[n[a].left] /\ n[z].key < n[a].key)
                                    \/ (z \in D[n[a].right] /\ n[a].key < n[z].key))
      <4>1. ASSUME NEW z \in D[a]
            PROVE z \in U /\ (z = a \/ z \in D[n[a].left] \/ z \in D[n[a].right])
        BY <3>1, <1>n, SideFacts, ZenonT(40) DEF NearBy
      <4>2. \A z \in D[n[a].left] : Before("left", n[z].key, n[a].key)
        BY <3>1, <1>k, SideFacts
      <4>3. \A z \in D[n[a].right] : Before("right", n[z].key, n[a].key)
        BY <3>1, <1>k, SideFacts
      <4> QED
        BY <4>1, <4>2, <4>3, <1>a DEF Before
    <3>5. \A t \in Sides : \A z \in D[n[a][t]] : z \in D[a]
      BY <3>2
    <3>6. n[a].key \in Nat /\ a \in D[a] /\ (b # Head0 => n[b].key \in Nat)
      BY <2>1, <3>1, <1>a
    <3>7. CASE n[a].key < k
      <4>1. turn[s] = [at |-> n[a].right, found |-> b]
        BY <2>1, <2>2, <2>4, <3>7
      <4>2. Good(n[a].right, b)
        <5>1. b # Head0 => k <= n[b].key /\ \A z \in D[n[a].right] : n[z].key < n[b].key
          BY <2>1, <3>5, SideFacts
        <5>2. ASSUME NEW z \in U
              PROVE z \in D[n[a].right] \/ n[z].key < k \/ (b # Head0 /\ n[b].key <= n[z].key)
          BY <2>1, <3>4, <3>6, <3>7, <1>a
        <5> QED
          BY <5>1, <5>2
      <4>3. n[a].right \in U \cup {Head0} /\ Cardinality(D[n[a].right]) + (i + 1) <= Capacity
        BY <3>2, <3>3, SideFacts
      <4> HIDE DEF turn, Good
      <4> QED
        BY <2>1, <4>1, <4>2, <4>3
    <3>8. CASE ~(n[a].key < k)
      <4>1. turn[s] = [at |-> n[a].left, found |-> a]
        BY <2>1, <2>2, <2>4, <3>8
      <4>2. Good(n[a].left, a)
        <5>1. k <= n[a].key
          BY <3>6, <3>8
        <5>2. \A z \in D[n[a].left] : n[z].key < n[a].key
          <6>1. \A z \in D[n[a].left] : Before("left", n[z].key, n[a].key)
            BY <3>1, <1>k, SideFacts
          <6> QED
            BY <6>1 DEF Before
        <5>3. ASSUME NEW z \in U
              PROVE z \in D[n[a].left] \/ n[z].key < k \/ n[a].key <= n[z].key
          <6>1. CASE z \in D[a]
            BY <3>4, <3>6, <6>1
          <6>2. CASE n[z].key < k
            BY <6>2
          <6>3. CASE b # Head0 /\ n[b].key <= n[z].key
            <7>1. n[a].key < n[b].key /\ n[z].key \in Nat
              BY <2>1, <3>6, <6>3, <1>a
            <7> QED
              BY <3>6, <6>3, <7>1
          <6> QED
            BY <2>1, <6>1, <6>2, <6>3
        <5> HIDE DEF turn, J
        <5>4. \A z \in U : z \in D[n[a].left] \/ n[z].key < k \/ (a # Head0 /\ n[a].key <= n[z].key)
          BY <2>4, <5>3
        <5> QED
          BY <5>1, <5>2, <5>4
      <4>3. n[a].left \in U \cup {Head0} /\ Cardinality(D[n[a].left]) + (i + 1) <= Capacity
        BY <3>2, <3>3, SideFacts
      <4> HIDE DEF turn, Good
      <4> QED
        BY <2>1, <3>1, <4>1, <4>2, <4>3
    <3> QED
      BY <3>7, <3>8
  <2> QED
    BY <2>3, <2>4
<1>3. Loop(turn, [at |-> Root(n), found |-> Head0]) \in J[Capacity + 1]
  <2> HIDE DEF turn, J
  <2> QED
    BY <1>1, <1>2, LoopInvariant
<1>4. PICK r : r = Loop(turn, [at |-> Root(n), found |-> Head0])
  OBVIOUS
<1>5. Lbound(n, k) = r.found
  BY <1>4 DEF Lbound
<1> HIDE DEF turn
<1>6. /\ r.at \in U \cup {Head0} /\ r.found \in U \cup {Head0} /\ Good(r.at, r.found)
      /\ r.at = Head0 \/ Cardinality(D[r.at]) + (Capacity + 1) <= Capacity
  BY <1>3, <1>4, <1>c
<1>7. r.at = Head0
  <2>1. Cardinality(D[r.at]) \in Nat
    BY <1>6, <1>f, <1>r, <1>a
  <2> HIDE DEF Good
  <2> QED
    BY <1>6, <1>c, <2>1
<1>8. PICK b \in U \cup {Head0} : b = r.found /\ Good(Head0, b)
  BY <1>6, <1>7
<1>9. FirstFrom(n, U, b, k)
  BY <1>8, <1>r DEF FirstFrom
<1> QED
  BY <1>5, <1>8, <1>9

\* find finds the element if it is there.
LEMMA FoundIs ==
  ASSUME NEW n, NEW U, NEW D, Tree(n, U, D), NEW k \in Nat
  PROVE  \/ Found(n, k) \in U /\ n[Found(n, k)].key = k
         \/ Found(n, k) = Head0 /\ \A z \in U : n[z].key # k
<1>n. \A v \in U : n[v].key \in Nat /\ v # Head0
  <2>1. \A v \in U : NearBy(n, U, D, v)
    BY Near
  <2> QED
    BY <2>1 DEF NearBy
<1>1. PICK x : x = Lbound(n, k)
  OBVIOUS
<1>2. FirstFrom(n, U, x, k)
  BY <1>1, LboundIs
<1>3. Found(n, k) = IF x = Head0 \/ k < n[x].key THEN Head0 ELSE x
  BY <1>1 DEF Found
<1>4. CASE x = Head0
  <2>1. \A z \in U : n[z].key < k
    BY <1>2, <1>4, <1>n DEF FirstFrom
  <2>2. \A z \in U : n[z].key # k
    BY <2>1, <1>n
  <2> QED
    BY <1>3, <1>4, <2>2
<1>5. CASE x # Head0
  <2>1. x \in U /\ k <= n[x].key /\ n[x].key \in Nat /\ \A z \in U : n[z].key < k \/ n[x].key <= n[z].key
    BY <1>2, <1>5, <1>n DEF FirstFrom
  <2>2. CASE k < n[x].key
    <3>1. \A z \in U : n[z].key # k
      BY <2>1, <2>2, <1>n
    <3> QED
      BY <1>3, <2>2, <3>1
  <2>3. CASE ~(k < n[x].key)
    <3>1. n[x].key = k
      BY <2>1, <2>3
    <3> QED
      BY <1>3, <1>5, <2>1, <2>3, <3>1
  <2> QED
    BY <2>2, <2>3
<1> QED
  BY <1>4, <1>5

-----------------------------------------------------------------------------
(* The way down of an insertion *)

SideOf(left) == IF left THEN "left" ELSE "right"

\* k is below and above the same nodes as p, but for p.
Beside(n, A, p, k) == \A z \in A \ {p} : (k < n[z].key) <=> (n[p].key < n[z].key)

\* The place where the way down for k ends.
Reached(n, U, d, k) ==
  \/ U = {} /\ d.parent = Head0 /\ d.addLeft = TRUE
  \/ /\ d.parent \in U /\ (d.addLeft <=> k < n[d.parent].key)
     /\ n[d.parent][SideOf(d.addLeft)] = Head0
     /\ Beside(n, U, d.parent, k)

\* The loop of Insert_Nohint ends at a free place, or below the element.
LEMMA DescendIs ==
  ASSUME NEW n, NEW U, NEW D, Tree(n, U, D), NEW k \in Nat
  PROVE  Reached(n, U, Descend(n, k), k)
<1>n. \A v \in U : NearBy(n, U, D, v)
  BY Near
<1>r. /\ Root(n) \in U \cup {Head0} /\ Root(n) \in Slots /\ D[Root(n)] = U
      /\ (Root(n) = Head0 <=> U = {})
      /\ D[Head0] = {} /\ Head0 \notin U /\ Head0 \in Slots
  BY RootFacts
<1>f. /\ Cardinality(U) \in Nat /\ Cardinality(U) <= Capacity
      /\ \A v \in Slots : IsFiniteSet(D[v]) /\ Cardinality(D[v]) \in Nat /\ Cardinality(D[v]) <= Capacity
  BY FiniteUnder
<1>c. Capacity \in Nat
  BY SlotFacts
<1>a. \A v \in U : n[v].key \in Nat /\ v \in Slots /\ v # Head0 /\ v \in D[v]
  BY <1>n DEF NearBy
<1>e. \A z \in U : \A v \in D[z] : v \in U /\ n[v].key \in Nat
                   /\ (v = z \/ (v \in D[n[z].left] /\ n[v].key < n[z].key)
                             \/ (v \in D[n[z].right] /\ n[z].key < n[v].key))
  <2>1. ASSUME NEW z \in U, NEW v \in D[z]
        PROVE  v \in U /\ (v = z \/ v \in D[n[z].left] \/ v \in D[n[z].right])
    BY <1>n, SideFacts DEF NearBy
  <2>2. ASSUME NEW z \in U, NEW v \in D[n[z].left] PROVE n[v].key < n[z].key
    <3>1. Before("left", n[v].key, n[z].key)
      BY Through, SideFacts
    <3> QED
      BY <3>1 DEF Before
  <2>3. ASSUME NEW z \in U, NEW v \in D[n[z].right] PROVE n[z].key < n[v].key
    <3>1. Before("right", n[v].key, n[z].key)
      BY Through, SideFacts
    <3> QED
      BY <3>1 DEF Before
  <2> QED
    BY <2>1, <2>2, <2>3, <1>a
<1> DEFINE turn == [s \in [at : Slots, parent : Slots, addLeft : BOOLEAN] |->
                     IF s.at = Head0 THEN s
                     ELSE LET less == k < n[s.at].key
                          IN [at |-> n[s.at][IF less THEN "left" ELSE "right"],
                              parent |-> s.at, addLeft |-> less]]
           Way(a) == \A z \in U \ D[a] : \A u \in D[a] : (k < n[z].key) <=> (n[u].key < n[z].key)
           From0(a, b, l) ==
             \/ b = Head0 /\ a = Root(n) /\ l = TRUE
             \/ b \in U /\ a = n[b][SideOf(l)] /\ (l <=> k < n[b].key) /\ Beside(n, U \ D[a], b, k)
           J == [i \in Nat |-> {s \in [at : U \cup {Head0}, parent : U \cup {Head0}, addLeft : BOOLEAN] :
                                  /\ Way(s.at) /\ From0(s.at, s.parent, s.addLeft)
                                  /\ s.at = Head0 \/ Cardinality(D[s.at]) + i <= Capacity}]
           first == [at |-> Root(n), parent |-> Head0, addLeft |-> TRUE]
<1>1. first \in J[0]
  BY <1>r, <1>f
<1>2. ASSUME NEW i \in Nat, NEW s \in J[i] PROVE turn[s] \in J[i + 1]
  <2>1. PICK a \in U \cup {Head0}, b \in U \cup {Head0}, l \in BOOLEAN :
          /\ s = [at |-> a, parent |-> b, addLeft |-> l] /\ Way(a) /\ From0(a, b, l)
          /\ a = Head0 \/ Cardinality(D[a]) + i <= Capacity
    BY <1>2
  <2>2. s \in [at : Slots, parent : Slots, addLeft : BOOLEAN] /\ s.at = a
    BY <2>1, <1>r, <1>a
  <2>3. CASE a = Head0
    <3>1. turn[s] = s
      BY <2>2, <2>3
    <3> HIDE DEF turn, Way, From0
    <3> QED
      BY <2>1, <2>3, <3>1
  <2>4. CASE a # Head0
    <3>1. a \in U /\ n[a].key \in Nat
      BY <2>1, <2>4, <1>a
    <3>2. PICK less \in BOOLEAN : less <=> k < n[a].key
      OBVIOUS
    <3>3. PICK c : c = n[a][SideOf(less)]
      OBVIOUS
    <3>4. turn[s] = [at |-> c, parent |-> a, addLeft |-> less]
      <4>1. turn[s] = [at |-> n[a][IF k < n[a].key THEN "left" ELSE "right"],
                       parent |-> a, addLeft |-> k < n[a].key]
        BY <2>2, <2>4
      <4> HIDE DEF turn
      <4>2. less = (k < n[a].key)
        BY <3>2
      <4>3. c = n[a][IF k < n[a].key THEN "left" ELSE "right"]
        BY <3>2, <3>3 DEF SideOf
      <4> QED
        BY <4>1, <4>2, <4>3, Zenon
    <3>5. SideOf(less) \in Sides
      BY SideFacts DEF SideOf
    <3>6. c \in U \cup {Head0} /\ c \in Slots /\ D[c] \in SUBSET D[a] /\ a \notin D[c] /\ a \in D[a] /\ D[a] \in SUBSET U
      BY <3>1, <3>3, <3>5, <1>n DEF NearBy
    <3> HIDE DEF turn
    <3>7. Cardinality(D[c]) + (i + 1) <= Capacity
      <4>1. Cardinality(D[c]) < Cardinality(D[a])
        BY <3>1, <3>6, <1>f, <1>a, StrictSubset
      <4>2. Cardinality(D[a]) + i <= Capacity
        BY <2>1, <2>4
      <4>3. Cardinality(D[a]) \in Nat /\ Cardinality(D[c]) \in Nat
        BY <3>1, <3>6, <1>f, <1>a
      <4> HIDE DEF J
      <4> QED
        BY <4>1, <4>2, <4>3, <1>c
    <3> HIDE DEF J, Way, From0
    <3>8. ASSUME NEW z \in D[a] \ D[c], z # a
          PROVE  \/ less /\ n[a].key < n[z].key /\ k < n[z].key
                 \/ ~less /\ n[z].key < n[a].key /\ ~(k < n[z].key)
      <4>1. n[z].key \in Nat
            /\ ((z \in D[n[a].left] /\ n[z].key < n[a].key) \/ (z \in D[n[a].right] /\ n[a].key < n[z].key))
        BY <3>1, <3>8, <1>e
      <4>2. CASE less
        <5>1. c = n[a].left /\ k < n[a].key /\ less
          BY <3>2, <3>3, <4>2 DEF SideOf
        <5> QED
          BY <3>1, <4>1, <5>1
      <4>3. CASE ~less
        <5>1. c = n[a].right /\ ~(k < n[a].key) /\ ~less
          BY <3>2, <3>3, <4>3 DEF SideOf
        <5> QED
          BY <3>1, <4>1, <5>1
      <4> QED
        BY <4>2, <4>3
    <3>9. Beside(n, U \ D[c], a, k)
      <4>1. ASSUME NEW z \in U \ D[c], z # a PROVE (k < n[z].key) <=> (n[a].key < n[z].key)
        <5>1. CASE z \in D[a]
          <6>1. n[z].key \in Nat
            BY <1>a
          <6> QED
            BY <3>1, <3>8, <4>1, <5>1, <6>1
        <5>2. CASE z \notin D[a]
          BY <2>1, <3>6, <5>2 DEF Way
        <5> QED
          BY <5>1, <5>2
      <4> QED
        BY <4>1 DEF Beside
    <3>10. Way(c)
      <4>1. ASSUME NEW z \in U \ D[c], NEW u \in D[c] PROVE (k < n[z].key) <=> (n[u].key < n[z].key)
        <5>0. n[z].key \in Nat /\ n[u].key \in Nat /\ u \in D[a] /\ u # a
          BY <3>6, <1>a
        <5>1. CASE z \notin D[a]
          BY <2>1, <3>6, <5>1 DEF Way
        <5>2. CASE less
          <6>1. n[u].key < n[a].key /\ k < n[a].key /\ less
            <7>1. c = n[a].left
              BY <3>3, <5>2 DEF SideOf
            <7>2. Before("left", n[u].key, n[a].key)
              BY <3>1, <7>1, Through, SideFacts
            <7> QED
              BY <3>2, <5>2, <7>2 DEF Before
          <6>2. CASE z = a
            BY <6>1, <6>2
          <6>3. CASE z # a /\ z \in D[a]
            BY <3>1, <3>8, <5>0, <6>1, <6>3
          <6> QED
            BY <5>1, <6>2, <6>3
        <5>3. CASE ~less
          <6>1. n[a].key < n[u].key /\ ~(k < n[a].key) /\ ~less
            <7>1. c = n[a].right
              BY <3>3, <5>3 DEF SideOf
            <7>2. Before("right", n[u].key, n[a].key)
              BY <3>1, <7>1, Through, SideFacts
            <7> QED
              BY <3>2, <5>3, <7>2 DEF Before
          <6>2. CASE z = a
            BY <3>1, <5>0, <6>1, <6>2
          <6>3. CASE z # a /\ z \in D[a]
            BY <3>1, <3>8, <5>0, <6>1, <6>3
          <6> QED
            BY <5>1, <6>2, <6>3
        <5> QED
          BY <5>2, <5>3
      <4> QED
        BY <4>1 DEF Way
    <3>11. From0(c, a, less)
      BY <3>1, <3>2, <3>3, <3>9 DEF From0
    <3>12. turn[s].at = c /\ turn[s].parent = a /\ turn[s].addLeft = less
           /\ turn[s] \in [at : U \cup {Head0}, parent : U \cup {Head0}, addLeft : BOOLEAN]
      BY <3>1, <3>4, <3>6
    <3> QED
      BY <3>7, <3>10, <3>11, <3>12 DEF J
  <2> QED
    BY <2>3, <2>4
<1>3. Loop(turn, first) \in J[Capacity + 1]
  <2> HIDE DEF turn, J, first
  <2> QED
    BY <1>1, <1>2, LoopInvariant
<1>4. PICK r : r = Loop(turn, first)
  OBVIOUS
<1>5. Descend(n, k) = r
  BY <1>4 DEF Descend
<1> HIDE DEF turn, first
<1>6. /\ r.at \in U \cup {Head0} /\ From0(r.at, r.parent, r.addLeft)
      /\ r.at = Head0 \/ Cardinality(D[r.at]) + (Capacity + 1) <= Capacity
  BY <1>3, <1>4, <1>c
<1>7. r.at = Head0
  <2>1. Cardinality(D[r.at]) \in Nat
    BY <1>6, <1>f, <1>r, <1>a
  <2> HIDE DEF From0
  <2> QED
    BY <1>6, <1>c, <2>1
<1>8. From0(Head0, r.parent, r.addLeft)
  BY <1>6, <1>7
<1>9. Reached(n, U, r, k)
  <2>1. U \ D[Head0] = U
    BY <1>r
  <2> HIDE DEF J
  <2> QED
    BY <1>8, <1>r, <2>1 DEF Reached
<1> QED
  BY <1>5, <1>9

\* A free place for k: a side of p where k belongs, with no node from there on.
Open(n, U, p, s, k) ==
  /\ \A z \in U : n[z].key # k
  /\ \/ p = Head0 /\ U = {}
     \/ /\ p \in U /\ n[p][s] = Head0 /\ Before(s, k, n[p].key)
        /\ \A z \in U \ {p}, t \in Sides : Before(t, n[p].key, n[z].key) => Before(t, k, n[z].key)

-----------------------------------------------------------------------------
(* The place of an insertion *)

\* The head knows the outermost nodes and no others.
LEMMA OutersUnique ==
  ASSUME NEW n, NEW U, NEW D, Tree(n, U, D), Outers(n, U), NEW x \in U, NEW s \in Sides
  PROVE  x = n[Head0][s] <=> Utmost(n, U, x, s)
<1>1. \A v \in U : n[v].key \in Nat
  <2>1. \A v \in U : NearBy(n, U, D, v)
    BY Near
  <2> QED
    BY <2>1 DEF NearBy
<1>2. n[Head0][s] \in U /\ Utmost(n, U, n[Head0][s], s)
  BY DEF Outers, Utmost
<1>3. ASSUME Utmost(n, U, x, s), x # n[Head0][s] PROVE FALSE
  <2>1. Before(s, n[x].key, n[n[Head0][s]].key) /\ Before(s, n[n[Head0][s]].key, n[x].key)
    BY <1>2, <1>3 DEF Utmost
  <2> QED
    BY <1>1, <1>2, <2>1, BeforeFacts
<1> QED
  BY <1>2, <1>3

\* Before as a comparison.
LEMMA Compare ==
  ASSUME NEW a, NEW b
  PROVE  /\ Before("left", a, b) <=> a < b
         /\ Before("right", a, b) <=> b < a
BY DEF Before

\* What insert does where the way down ends.
InsertSees(n, U, d, it, k) ==
  \/ /\ (d.addLeft /\ d.parent = Lmost(n)) \/ n[it].key < k
     /\ Open(n, U, d.parent, SideOf(d.addLeft), k)
  \/ /\ ~((d.addLeft /\ d.parent = Lmost(n)) \/ n[it].key < k)
     /\ it \in U /\ n[it].key = k

\* The comparison after the loop of Insert_Nohint tells the two apart.
LEMMA InsertPlace ==
  ASSUME NEW n, NEW U, NEW D, Tree(n, U, D), Outers(n, U), NEW k \in Nat, NEW d, NEW it,
         d = Descend(n, k), it = IF d.addLeft THEN Dec(n, d.parent) ELSE d.parent
  PROVE  InsertSees(n, U, d, it, k)
<1>a. \A v \in U : n[v].key \in Nat /\ v # Head0
  <2>1. \A v \in U : NearBy(n, U, D, v)
    BY Near
  <2> QED
    BY <2>1 DEF NearBy
<1>1. Reached(n, U, d, k)
  BY DescendIs
<1>2. CASE U = {} /\ d.parent = Head0 /\ d.addLeft = TRUE
  <2>1. Lmost(n) = Head0
    BY <1>2, SideFacts DEF Outers, Lmost
  <2>2. Open(n, U, d.parent, SideOf(d.addLeft), k)
    BY <1>2 DEF Open
  <2> QED
    BY <1>2, <2>1, <2>2 DEF InsertSees
<1>3. CASE /\ d.parent \in U /\ (d.addLeft <=> k < n[d.parent].key)
           /\ n[d.parent][SideOf(d.addLeft)] = Head0 /\ Beside(n, U, d.parent, k)
  <2>p. PICK p \in U : p = d.parent
    BY <1>3
  <2>1. /\ \A z \in U \ {p} : (k < n[z].key) <=> (n[p].key < n[z].key)
        /\ n[p].key \in Nat /\ (d.addLeft <=> k < n[p].key) /\ n[p][SideOf(d.addLeft)] = Head0
    BY <1>3, <2>p, <1>a DEF Beside
  <2>d. \A z \in U \ {p} : n[z].key # n[p].key
    BY KeysDiffer
  <2>2. ASSUME \A z \in U : n[z].key # k
        PROVE  Open(n, U, p, SideOf(d.addLeft), k)
    <3>1. Before(SideOf(d.addLeft), k, n[p].key)
      <4>1. n[p].key # k
        BY <2>2
      <4> QED
        BY <2>1, <4>1 DEF SideOf, Before
    <3>2. ASSUME NEW z \in U \ {p}, NEW t \in Sides, Before(t, n[p].key, n[z].key)
          PROVE Before(t, k, n[z].key)
      <4>1. n[z].key # k /\ n[z].key \in Nat
        BY <2>2, <1>a
      <4> QED
        BY <2>1, <3>2, <4>1 DEF Before
    <3> QED
      BY <2>1, <2>2, <3>1, <3>2 DEF Open
  <2>3. CASE d.addLeft
    <3>1. it = Dec(n, p) /\ k < n[p].key
      BY <2>1, <2>3, <2>p
    <3>2. Adjacent(n, U, p, it, "left")
      BY <3>1, IncIs
    <3>3. CASE it = Head0 /\ Utmost(n, U, p, "left")
      <4>1. p = Lmost(n)
        BY <3>3, OutersUnique, SideFacts DEF Lmost
      <4>2. \A z \in U : n[z].key # k
        <5>1. ASSUME NEW z \in U, z # p PROVE n[z].key # k
          <6>1. n[p].key < n[z].key
            BY <3>3, <5>1, Compare DEF Utmost
          <6> QED
            BY <2>1, <3>1, <5>1, <6>1, <1>a
        <5> QED
          BY <2>1, <3>1, <5>1
      <4> QED
        BY <2>2, <2>3, <2>p, <4>1, <4>2 DEF InsertSees
    <3>4. CASE /\ it \in U /\ Before("left", n[it].key, n[p].key)
               /\ \A z \in U : ~(Before("left", n[z].key, n[p].key) /\ Before("left", n[it].key, n[z].key))
      <4>1. /\ it \in U /\ n[it].key < n[p].key /\ n[it].key \in Nat
            /\ \A z \in U : ~(n[z].key < n[p].key /\ n[it].key < n[z].key)
        BY <3>4, <1>a, Compare
      <4>2. p # Lmost(n)
        <5>1. ~Utmost(n, U, p, "left")
          <6>1. it # p /\ ~(n[p].key < n[it].key)
            BY <2>1, <4>1
          <6> QED
            BY <4>1, <6>1, Compare DEF Utmost
        <5> QED
          BY <5>1, OutersUnique, SideFacts DEF Lmost
      <4>3. ~(k < n[it].key)
        BY <2>1, <4>1
      <4>4. CASE n[it].key < k
        <5>1. \A z \in U : n[z].key # k
          <6>1. ASSUME NEW z \in U, n[z].key = k PROVE FALSE
            BY <3>1, <4>1, <4>4, <6>1
          <6> QED
            BY <6>1
        <5> QED
          BY <2>2, <2>p, <4>4, <5>1 DEF InsertSees
      <4>5. CASE ~(n[it].key < k)
        <5>1. n[it].key = k
          BY <4>1, <4>3, <4>5
        <5> QED
          BY <2>p, <4>1, <4>2, <4>5, <5>1 DEF InsertSees
      <4> QED
        BY <4>4, <4>5
    <3> QED
      BY <3>2, <3>3, <3>4 DEF Adjacent
  <2>4. CASE ~d.addLeft
    <3>1. it = p /\ ~(k < n[p].key)
      BY <2>1, <2>4, <2>p
    <3>2. CASE n[p].key < k
      <4>1. \A z \in U : n[z].key # k
        <5>1. ASSUME NEW z \in U, n[z].key = k PROVE FALSE
          <6>1. z # p
            BY <2>1, <3>2, <5>1
          <6>2. (k < n[z].key) <=> (n[p].key < n[z].key)
            BY <2>1, <6>1
          <6> QED
            BY <3>2, <5>1, <6>2
        <5> QED
          BY <5>1
      <4> QED
        BY <2>2, <2>p, <3>1, <3>2, <4>1 DEF InsertSees
    <3>3. CASE ~(n[p].key < k)
      <4>1. n[p].key = k
        BY <2>1, <3>1, <3>3
      <4> QED
        BY <2>4, <3>1, <3>3, <4>1 DEF InsertSees
    <3> QED
      BY <3>2, <3>3
  <2> QED
    BY <2>3, <2>4
<1> QED
  BY <1>1, <1>2, <1>3 DEF Reached

\* The place next to the lower bound of a key that is not there.
LEMMA HintIs ==
  ASSUME NEW n, NEW U, NEW D, Tree(n, U, D), Outers(n, U), NEW k \in Nat, NEW x,
         x = Lbound(n, k), x = Head0 \/ k < n[x].key
  PROVE  Open(n, U, HintPlace(n, x).parent, SideOf(HintPlace(n, x).addLeft), k)
<1>n. \A v \in U : NearBy(n, U, D, v)
  BY Near
<1>a. \A v \in U : n[v].key \in Nat /\ v # Head0
  BY <1>n DEF NearBy
<1>r. Head0 \notin U
  BY RootFacts
<1>1. FirstFrom(n, U, x, k)
  BY LboundIs
<1>2. \A z \in U : n[z].key # k
  BY <1>1, <1>a, <1>r DEF FirstFrom
<1>h. PICK h : h = HintPlace(n, x)
  OBVIOUS
\* Next to k there is only p.
<1>3. ASSUME NEW p \in U, NEW s \in Sides, n[p][s] = Head0, Before(s, k, n[p].key),
             \A z \in U : ~(Before(s, k, n[z].key) /\ Before(s, n[z].key, n[p].key))
      PROVE  Open(n, U, p, s, k)
  <2>1. ASSUME NEW z \in U \ {p}, NEW t \in Sides, Before(t, n[p].key, n[z].key)
        PROVE  Before(t, k, n[z].key)
    <3>1. n[z].key \in Nat /\ n[p].key \in Nat /\ n[z].key # k
      BY <1>2, <1>a
    <3>2. CASE t = s
      BY <1>3, <2>1, <3>1, <3>2, BeforeFacts
    <3>3. CASE t = Other(s)
      <4>1. Before(s, n[z].key, n[p].key)
        BY <2>1, <3>1, <3>3, BeforeFacts
      <4>2. ~Before(s, k, n[z].key)
        BY <1>3, <4>1
      <4>3. Before(s, n[z].key, k)
        BY <3>1, <4>2, BeforeFacts
      <4> QED
        BY <3>1, <3>3, <4>3, BeforeFacts
    <3> QED
      BY <3>2, <3>3, SideFacts
  <2> QED
    BY <1>2, <1>3, <2>1 DEF Open
<1>4. CASE x = Lmost(n)
  <2>1. h = [parent |-> x, addLeft |-> TRUE]
    BY <1>h, <1>4 DEF HintPlace
  <2>2. CASE U = {}
    <3>1. x = Head0
      BY <1>4, <2>2, SideFacts DEF Outers, Lmost
    <3> QED
      BY <1>h, <2>1, <2>2, <3>1 DEF Open
  <2>3. CASE U # {}
    <3>1. Utmost(n, U, x, "left")
      BY <1>4, <2>3, SideFacts DEF Outers, Lmost
    <3>2. x \in U /\ k < n[x].key /\ n[x].key \in Nat
      BY <3>1, <1>a DEF Utmost
    <3>3. n[x].left = Head0
      <4>1. ASSUME n[x].left # Head0 PROVE FALSE
        <5>1. n[x].left \in D[n[x].left]
          BY <3>2, <4>1, <1>n, SideFacts DEF NearBy
        <5>2. n[x].left \in U /\ Before("left", n[n[x].left].key, n[x].key) /\ n[x].left # x
          BY <3>2, <5>1, Through, SideFacts
        <5> QED
          BY <3>1, <3>2, <5>2, <1>a, BeforeFacts, SideFacts DEF Utmost
      <4> QED
        BY <4>1
    <3>4. \A z \in U : ~(Before("left", k, n[z].key) /\ Before("left", n[z].key, n[x].key))
      <4>1. ASSUME NEW z \in U, n[z].key < n[x].key PROVE FALSE
        <5>1. z = x \/ n[x].key < n[z].key
          BY <3>1, Compare DEF Utmost
        <5> QED
          BY <3>2, <4>1, <5>1, <1>a
      <4> QED
        BY <4>1, Compare
    <3>5. Open(n, U, x, "left", k)
      BY <1>3, <3>2, <3>3, <3>4, Compare, SideFacts
    <3> QED
      BY <1>h, <2>1, <3>5 DEF SideOf
  <2> QED
    BY <2>2, <2>3
<1>5. CASE x # Lmost(n) /\ x = Head0
  <2>1. h = [parent |-> Rmost(n), addLeft |-> FALSE]
    BY <1>h, <1>5 DEF HintPlace
  <2>2. U # {}
    BY <1>5, SideFacts DEF Outers, Lmost
  <2>3. PICK p : p = Rmost(n)
    OBVIOUS
  <2>4. Utmost(n, U, p, "right")
    BY <2>2, <2>3, SideFacts DEF Outers, Rmost
  <2>5. p \in U /\ n[p].key \in Nat
    BY <2>4, <1>a DEF Utmost
  <2>6. \A z \in U : n[z].key < k
    BY <1>1, <1>5, <1>r DEF FirstFrom
  <2>7. n[p].right = Head0
    <3>1. ASSUME n[p].right # Head0 PROVE FALSE
      <4>1. n[p].right \in D[n[p].right]
        BY <2>5, <3>1, <1>n, SideFacts DEF NearBy
      <4>2. n[p].right \in U /\ Before("right", n[n[p].right].key, n[p].key) /\ n[p].right # p
        BY <2>5, <4>1, Through, SideFacts
      <4> QED
        BY <2>4, <2>5, <4>2, <1>a, BeforeFacts, SideFacts DEF Utmost
    <3> QED
      BY <3>1
  <2>8. \A z \in U : ~(Before("right", k, n[z].key) /\ Before("right", n[z].key, n[p].key))
    <3>1. ASSUME NEW z \in U, n[p].key < n[z].key PROVE FALSE
      <4>1. z = p \/ n[z].key < n[p].key
        BY <2>4, Compare DEF Utmost
      <4> QED
        BY <2>5, <3>1, <4>1, <1>a
    <3> QED
      BY <3>1, Compare
  <2>9. Open(n, U, p, "right", k)
    BY <1>3, <2>5, <2>6, <2>7, <2>8, Compare, SideFacts
  <2> QED
    BY <1>h, <2>1, <2>3, <2>9 DEF SideOf
<1>6. CASE x # Lmost(n) /\ x # Head0
  <2>1. x \in U /\ k < n[x].key /\ n[x].key \in Nat /\ \A z \in U : n[z].key < k \/ n[x].key <= n[z].key
    BY <1>1, <1>6, <1>a DEF FirstFrom
  <2>2. PICK y : y = Dec(n, x)
    OBVIOUS
  <2>3. Adjacent(n, U, x, y, "left") /\ y = Stepped(n, x, "left")
    BY <2>1, <2>2, IncIs
  <2>4. ~Utmost(n, U, x, "left")
    BY <1>6, <2>1, OutersUnique, SideFacts DEF Lmost
  <2>5. /\ y \in U /\ n[y].key < n[x].key /\ n[y].key \in Nat
        /\ \A z \in U : ~(n[z].key < n[x].key /\ n[y].key < n[z].key)
    BY <2>3, <2>4, <1>a, Compare DEF Adjacent
  <2>6. CASE n[y].right = Head0
    <3>1. h = [parent |-> y, addLeft |-> FALSE]
      BY <1>h, <1>6, <2>2, <2>6 DEF HintPlace
    <3>2. n[y].key < k
      BY <2>1, <2>5
    <3>3. \A z \in U : ~(n[z].key < k /\ n[y].key < n[z].key)
      <4>1. ASSUME NEW z \in U, n[z].key < k, n[y].key < n[z].key PROVE FALSE
        <5>1. n[z].key < n[x].key
          BY <2>1, <4>1, <1>a
        <5> QED
          BY <2>5, <4>1, <5>1
      <4> QED
        BY <4>1
    <3>4. Open(n, U, y, "right", k)
      BY <1>3, <2>5, <2>6, <3>2, <3>3, Compare, SideFacts
    <3> QED
      BY <1>h, <3>1, <3>4 DEF SideOf
  <2>7. CASE n[y].right # Head0
    <3>1. h = [parent |-> x, addLeft |-> TRUE]
      BY <1>h, <1>6, <2>2, <2>7 DEF HintPlace
    <3>2. n[x].left = Head0
      <4>1. ASSUME n[x].left # Head0 PROVE FALSE
        <5>1. y = Outermost(n, n[x].left, "right")
          BY <2>3, <4>1, SideFacts DEF Stepped
        <5>2. n[x].left \in U
          BY <2>1, <4>1, <1>n, SideFacts DEF NearBy
        <5> QED
          BY <2>7, <5>1, <5>2, OutermostIs, SideFacts
      <4> QED
        BY <4>1
    <3>3. \A z \in U : ~(k < n[z].key /\ n[z].key < n[x].key)
      <4>1. ASSUME NEW z \in U, k < n[z].key, n[z].key < n[x].key PROVE FALSE
        BY <2>1, <4>1, <1>a
      <4> QED
        BY <4>1
    <3>4. Open(n, U, x, "left", k)
      BY <1>3, <2>1, <3>2, <3>3, Compare, SideFacts
    <3> QED
      BY <1>h, <3>1, <3>4 DEF SideOf
  <2> QED
    BY <2>6, <2>7
<1> QED
  BY <1>4, <1>5, <1>6

-----------------------------------------------------------------------------
(* A rotation *)

\* m has the links and the keys of n at the nodes of U.
Alike(n, m, U) ==
  /\ m \in Pool /\ Root(m) = Root(n)
  /\ \A z \in U : m[z].parent = n[z].parent /\ m[z].key = n[z].key /\ \A s \in Sides : m[z][s] = n[z][s]

\* A tree is one in any pool that agrees on its nodes.
LEMMA AlikeTree ==
  ASSUME NEW n, NEW U, NEW D, Tree(n, U, D), NEW m, Alike(n, m, U)
  PROVE  Tree(m, U, D)
<1>1. Links(m, U)
  BY DEF Alike, Tree, Links
<1>2. \A z \in U : \A s \in Sides : \A v \in D[n[z][s]] : v \in U
  <2>1. D \in [Slots -> SUBSET U] /\ \A z \in U, s \in Sides : n[z][s] \in Slots
    BY PoolFacts, SlotFacts DEF Tree, Links, Under
  <2> QED
    BY <2>1
<1>3. Under(m, U, D)
  <2>1. \A x \in U : D[x] = {x} \cup D[m[x].left] \cup D[m[x].right]
    BY SideFacts DEF Alike, Tree, Under
  <2>2. \A x \in U, s \in Sides : \A y \in D[m[x][s]] : Before(s, m[y].key, m[x].key)
    BY <1>2 DEF Alike, Tree, Under
  <2> QED
    BY <2>1, <2>2 DEF Alike, Tree, Under
<1> QED
  BY <1>1, <1>3 DEF Tree

\* The parent of a node, or the root.
Hung(n, U, D, x) ==
  \/ x = Root(n) /\ n[x].parent = Head0
  \/ /\ x # Root(n) /\ n[x].parent \in U /\ n[x].parent # x /\ n[x].parent \notin D[x]
     /\ \E t \in Sides : n[n[x].parent][t] = x /\ n[n[x].parent][Other(t)] # x

\* Where a node hangs.
LEMMA HungIs ==
  ASSUME NEW n, NEW U, NEW D, Tree(n, U, D), NEW x \in U
  PROVE  Hung(n, U, D, x) /\ Hangs(n, x)
<1>n. \A v \in U : NearBy(n, U, D, v)
  BY Near
<1>1. CASE x = Root(n)
  BY <1>1 DEF Hung, Hangs, Tree, Links
<1>2. CASE x # Root(n)
  <2>1. n[x].parent \in U /\ \E t \in Sides : n[n[x].parent][t] = x
    BY <1>2 DEF Tree, Links
  <2>2. PICK p \in U, t \in Sides : p = n[x].parent /\ n[p][t] = x
    BY <2>1
  <2>3. n[p][Other(t)] # x
    <3>1. n[p][t] = n[p][Other(t)] => n[p][t] = Head0
      BY <1>n DEF NearBy
    <3>2. x # Head0
      BY <1>n DEF NearBy
    <3> QED
      BY <2>2, <3>1, <3>2
  <2>4. p \notin D[x] /\ p # x
    BY <2>2, <1>n, ZenonT(40) DEF NearBy
  <2>5. p \in Nodes
    BY <1>n DEF NearBy
  <2>6. (n[p].left = x) # (n[p].right = x)
    BY <2>2, <2>3, SideFacts
  <2> QED
    BY <1>2, <2>2, <2>3, <2>4, <2>5, <2>6 DEF Hung, Hangs
<1> QED
  BY <1>1, <1>2

\* After a rotation around x its child y is above it; E are the nodes from each
\* node down.
RotatedTree(n, m, U, D, E, x, s) ==
  /\ Rotated(n, m, x, s, n[x][Other(s)], n[n[x][Other(s)]][s], n[x].parent)
  /\ Tree(m, U, E)
  /\ \A z \in Slots \ {x, n[x][Other(s)]} : E[z] = D[z]

\* A rotation leaves a tree.
LEMMA RotateTree ==
  ASSUME NEW n, NEW U, NEW D, Tree(n, U, D), NEW x \in U, NEW s \in Sides, n[x][Other(s)] # Head0
  PROVE  \E E : RotatedTree(n, Rotate(n, x, s), U, D, E, x, s)
<1>n. \A v \in U : NearBy(n, U, D, v)
  BY Near
<1>k. \A v \in U, t \in Sides : \A w \in D[n[v][t]] :
        n[v][t] \in U /\ w \in U /\ w \in D[v] /\ w # v /\ Before(t, n[w].key, n[v].key)
  BY Through
<1>a. \A v \in U : n[v].key \in Nat /\ v \in Slots /\ v \in Nodes /\ v # Head0 /\ v \in D[v] /\ D[v] \in SUBSET U
  BY <1>n DEF NearBy
<1>r. /\ Root(n) \in U \cup {Head0} /\ D[Root(n)] = U /\ D[Head0] = {} /\ Head0 \notin U /\ Head0 \in Slots
      /\ U \in SUBSET Nodes /\ n \in Pool
  BY RootFacts
<1>o. PICK o \in Sides : o = Other(s) /\ o # s /\ Other(o) = s
  BY SideFacts
<1>y. PICK y \in U : y = n[x][o] /\ y \in D[n[x][o]]
  <2>1. n[x][o] # Head0
    BY <1>o
  <2>2. NearBy(n, U, D, x)
    BY <1>n
  <2>3. n[x][o] # Head0 => n[x][o] \in U /\ n[x][o] \in D[n[x][o]]
    BY <2>2, <1>o DEF NearBy
  <2> QED
    BY <2>1, <2>3
<1>c. PICK c \in U \cup {Head0} : c = n[y][s]
  BY <1>n DEF NearBy
<1>p. PICK p \in Slots : p = n[x].parent
  BY <1>a, <1>r, PoolFacts
<1>m. PICK m : m = Rotate(n, x, s)
  OBVIOUS
<1>1. x # y /\ c # y /\ x # c /\ y \in D[x] /\ (c # Head0 => c \in D[y] /\ c \in D[x])
  <2>1. y \in D[x] /\ y # x /\ n[x][o] # Head0
    BY <1>y, <1>k, <1>a
  <2>2. c # y
    BY <1>c, <1>n DEF NearBy
  <2>3. ASSUME c # Head0 PROVE c \in D[y] /\ c \in D[x] /\ c # x
    <3>1. c \in D[n[y][s]] /\ c \in D[y]
      <4>1. n[y][s] # Head0
        BY <1>c, <2>3
      <4>2. n[y][s] \in D[n[y][s]] /\ D[n[y][s]] \in SUBSET D[y]
        BY <4>1, <1>n DEF NearBy
      <4> QED
        BY <4>2, <1>c
    <3>2. c \in D[n[x][o]]
      BY <1>y, <3>1
    <3> QED
      BY <3>1, <3>2, <1>k
  <2> QED
    BY <2>1, <2>2, <2>3, <1>a
<1>2. Hung(n, U, D, x) /\ Hangs(n, x)
  BY HungIs
<1>3. p # x /\ p # y /\ (x = Root(n) => p = Head0) /\ (x # Root(n) => p # c /\ p \in U)
  <2>1. CASE x = Root(n)
    <3>1. p = Head0
      BY <1>2, <1>p, <2>1 DEF Hung
    <3> QED
      BY <2>1, <3>1, <1>a
  <2>2. CASE x # Root(n)
    <3>1. p \in U /\ p # x /\ p \notin D[x]
      BY <1>2, <1>p, <2>2 DEF Hung
    <3> QED
      BY <1>1, <2>2, <3>1, <1>a
  <2> QED
    BY <2>1, <2>2
<1>4. Rotated(n, m, x, s, y, c, p)
  <2>1. x \in Nodes /\ y \in Nodes /\ c \in Slots
    BY <1>a, <1>r
  <2> QED
    BY <1>1, <1>2, <1>3, <2>1, <1>r, <1>o, <1>y, <1>c, <1>p, <1>m, RotateIs
<1>5. PICK E : E = [z \in Slots |-> IF z = y THEN D[x] ELSE IF z = x THEN {x} \cup D[n[x][s]] \cup D[c] ELSE D[z]]
  OBVIOUS
<1>6. /\ m \in Pool
      /\ \A z \in Slots : m[z].key = n[z].key
      /\ Root(m) = IF x = Root(n) THEN y ELSE Root(n)
      /\ \A z \in Nodes : m[z].parent = IF z = y THEN p ELSE IF z = x THEN y
                                        ELSE IF z = c THEN x ELSE n[z].parent
      /\ m[x][o] = c /\ m[x][s] = n[x][s]
      /\ m[y][s] = x /\ m[y][o] = n[y][o]
      /\ \A z \in Nodes \ {x, y}, t \in Sides :
           m[z][t] = IF x # Root(n) /\ z = p /\ n[p][t] = x THEN y ELSE n[z][t]
  BY <1>4, <1>o DEF Rotated
<1>l. /\ \A z \in U, t \in Sides : n[z][t] # Head0 => n[z][t] \in U /\ n[n[z][t]].parent = z
      /\ \A z \in U : IF z = Root(n) THEN n[z].parent = Head0
                      ELSE n[z].parent \in U /\ \E t \in Sides : n[n[z].parent][t] = z
  BY DEF Tree, Links
<1>t. \A t \in Sides : t = s \/ t = o
  BY <1>o, SideFacts
\* Children of other nodes are neither x nor y, but for the place of x.
<1>7. \A z \in U \ {x, y}, t \in Sides :
        /\ n[z][t] # y /\ (n[z][t] = x => z = p /\ x # Root(n))
        /\ m[z][t] = IF n[z][t] = x THEN y ELSE n[z][t]
  <2>1. ASSUME NEW z \in U \ {x, y}, NEW t \in Sides
        PROVE  n[z][t] # y /\ (n[z][t] = x => z = p /\ x # Root(n))
    <3>1. n[y].parent = x
      BY <1>l, <1>y, <1>a
    <3>2. n[z][t] = x => n[x].parent = z
      BY <1>l, <1>a
    <3> QED
      BY <3>1, <3>2, <1>l, <1>a, <1>p
  <2>2. ASSUME NEW z \in U \ {x, y}, NEW t \in Sides
        PROVE  m[z][t] = IF n[z][t] = x THEN y ELSE n[z][t]
    BY <2>1, <1>6, <1>a
  <2> QED
    BY <2>1, <2>2
<1>8. Links(m, U)
  <2>1. ASSUME NEW z \in U, NEW t \in Sides, m[z][t] # Head0
        PROVE  m[z][t] \in U /\ m[m[z][t]].parent = z
    <3>1. CASE z = x /\ t = o
      <4>1. m[z][t] = c /\ c \in U
        BY <1>6, <2>1, <3>1
      <4> QED
        BY <1>1, <1>6, <3>1, <4>1, <1>a
    <3>2. CASE z = x /\ t = s
      <4>1. m[z][t] = n[x][s] /\ n[x][s] \in U /\ n[n[x][s]].parent = x
        BY <1>6, <1>l, <2>1, <3>2
      <4>2. n[x][s] # y /\ n[x][s] # x /\ n[x][s] # c
        <5>1. n[x][s] \in D[n[x][s]] /\ D[n[x][s]] \cap D[n[x][o]] = {} /\ n[x][s] # x
          BY <2>1, <4>1, <1>n, <1>o DEF NearBy
        <5>2. c # Head0 => c \in D[y]
          BY <1>1
        <5> QED
          BY <5>1, <5>2, <1>y, <4>1, <1>a
      <4> QED
        BY <1>6, <3>2, <4>1, <4>2, <1>a
    <3>3. CASE z = y /\ t = s
      BY <1>1, <1>6, <3>3, <1>a
    <3>4. CASE z = y /\ t = o
      <4>1. m[z][t] = n[y][o] /\ n[y][o] \in U /\ n[n[y][o]].parent = y
        BY <1>6, <1>l, <2>1, <3>4
      <4>2. n[y][o] # y /\ n[y][o] # c
        <5>1. n[y][o] # y /\ (n[y][s] = n[y][Other(s)] => n[y][s] = Head0)
          BY <1>n, ZenonT(40) DEF NearBy
        <5> QED
          BY <5>1, <4>1, <1>c, <1>o, <1>a
      <4>3. n[y][o] # x
        <5>1. n[y][o] \in D[n[y][o]] /\ D[n[y][o]] \in SUBSET D[y]
          BY <4>1, <1>n, <1>a DEF NearBy
        <5>2. x \notin D[y]
          BY <1>y, <1>n DEF NearBy
        <5> QED
          BY <5>1, <5>2
      <4> QED
        BY <1>6, <3>4, <4>1, <4>2, <4>3, <1>a
    <3>5. CASE z \notin {x, y}
      <4>1. CASE n[z][t] = x
        BY <1>6, <1>7, <3>5, <4>1, <1>a
      <4>2. CASE n[z][t] # x
        <5>1. m[z][t] = n[z][t] /\ n[z][t] \in U /\ n[n[z][t]].parent = z /\ n[z][t] # y
          BY <1>7, <1>l, <2>1, <3>5, <4>2
        <5>2. n[z][t] # c
          BY <1>c, <1>l, <3>5, <5>1, <1>a
        <5> QED
          BY <1>6, <4>2, <5>1, <5>2, <1>a
      <4> QED
        BY <4>1, <4>2
    <3> QED
      BY <3>1, <3>2, <3>3, <3>4, <3>5, <1>t
  <2>2. ASSUME NEW z \in U
        PROVE  IF z = Root(m) THEN m[z].parent = Head0
               ELSE m[z].parent \in U /\ \E t \in Sides : m[m[z].parent][t] = z
    <3>1. CASE z = y
      <4>1. m[y].parent = p
        BY <1>6, <1>a
      <4>2. CASE x = Root(n)
        BY <1>3, <1>6, <3>1, <4>1, <4>2
      <4>3. CASE x # Root(n)
        <5>1. PICK t \in Sides : n[p][t] = x
          BY <1>2, <1>p, <4>3 DEF Hung
        <5>2. y # Root(n)
          BY <1>l, <1>y, <1>a
        <5>3. m[p][t] = y
          BY <1>3, <1>7, <4>3, <5>1
        <5> QED
          BY <1>3, <1>6, <3>1, <4>1, <4>3, <5>2, <5>3
      <4> QED
        BY <4>2, <4>3
    <3>2. CASE z = x
      <4>1. m[x].parent = y /\ m[y][s] = x /\ x # Root(m)
        BY <1>1, <1>6, <1>a
      <4> QED
        BY <3>2, <4>1
    <3>3. CASE z = c /\ z \notin {x, y}
      <4>1. m[c].parent = x /\ m[x][o] = c /\ c # Head0
        BY <1>6, <3>3, <1>a
      <4>2. c # Root(m)
        <5>1. n[c].parent = y
          BY <1>l, <1>c, <4>1
        <5>2. c # Root(n)
          BY <1>l, <3>3, <5>1, <1>a
        <5> QED
          BY <1>6, <3>3, <5>2
      <4> QED
        BY <3>3, <4>1, <4>2
    <3>4. CASE z \notin {x, y, c}
      <4>1. m[z].parent = n[z].parent
        BY <1>6, <3>4, <1>a
      <4>2. CASE z = Root(n)
        BY <1>6, <1>l, <3>4, <4>1, <4>2
      <4>3. CASE z # Root(n)
        <5>1. PICK t \in Sides : n[n[z].parent][t] = z /\ n[z].parent \in U
          BY <1>l, <4>3
        <5>2. z # Root(m)
          BY <1>6, <3>4, <4>3
        <5>3. m[n[z].parent][t] = z
          <6>1. CASE n[z].parent = x
            <7>1. t # o
              BY <3>4, <5>1, <6>1, <1>y
            <7> QED
              BY <1>6, <5>1, <6>1, <7>1, <1>t
          <6>2. CASE n[z].parent = y
            <7>1. t # s
              BY <3>4, <5>1, <6>2, <1>c
            <7> QED
              BY <1>6, <5>1, <6>2, <7>1, <1>t
          <6>3. CASE n[z].parent \notin {x, y}
            BY <1>7, <3>4, <5>1, <6>3
          <6> QED
            BY <6>1, <6>2, <6>3
        <5> QED
          BY <4>1, <5>1, <5>2, <5>3
      <4> QED
        BY <4>2, <4>3
    <3> QED
      BY <3>1, <3>2, <3>3, <3>4
  <2>3. Root(m) \in U \cup {Head0}
    BY <1>6, <1>r
  <2> QED
    BY <2>1, <2>2, <2>3, <1>6, <1>r DEF Links
<1>9. \A z \in Slots : E[z] = IF z = y THEN D[x] ELSE IF z = x THEN {x} \cup D[n[x][s]] \cup D[c] ELSE D[z]
  BY <1>5
<1>d. D[x] = {x} \cup D[n[x][s]] \cup D[n[x][o]] /\ D[y] = {y} \cup D[n[y][s]] \cup D[n[y][o]]
  <2>1. \A z \in U : D[z] = {z} \cup D[n[z].left] \cup D[n[z].right]
    BY DEF Tree, Under
  <2> QED
    BY <2>1, <1>t, <1>o, SideFacts
<1>e. n[x][s] # x /\ n[x][s] # y /\ c # x /\ c # y /\ n[y][o] # x /\ n[y][o] # y /\ n[x][s] \in Slots /\ n[y][o] \in Slots /\ c \in Slots
  <2>1. n[x][s] # x /\ n[y][o] # y /\ n[x][s] \in Slots /\ n[y][o] \in Slots
    BY <1>n DEF NearBy
  <2>2. n[x][s] # y
    <3>1. n[x][s] = n[x][Other(s)] => n[x][s] = Head0
      BY <1>n DEF NearBy
    <3> QED
      BY <3>1, <1>o, <1>y, <1>a
  <2>3. n[y][o] # x
    <3>1. n[y][o] # Head0 => n[y][o] \in D[n[y][o]] /\ D[n[y][o]] \in SUBSET D[y]
      BY <1>n DEF NearBy
    <3>2. x \notin D[y]
      BY <1>y, <1>n DEF NearBy
    <3> QED
      BY <3>1, <3>2, <1>a
  <2> QED
    BY <1>1, <2>1, <2>2, <2>3, <1>r, <1>a
<1>f. Under(m, U, E)
  <2>1. E \in [Slots -> SUBSET U]
    <3>1. \A z \in Slots : D[z] \in SUBSET U
      BY DEF Tree, Under
    <3>2. \A z \in Slots : E[z] \in SUBSET U
      BY <3>1, <1>9, <1>e, <1>a
    <3> QED
      BY <3>2, <1>5
  <2>2. E[Head0] = {}
    BY <1>9, <1>r, <1>a
  <2>3. E[Root(m)] = U
    <3>1. x # Root(n) => Root(n) # y
      BY <1>l, <1>y, <1>p, <1>3, <1>a
    <3> QED
      BY <1>6, <1>9, <1>r, <3>1, <1>a
  <2>4. E[n[x][s]] = D[n[x][s]] /\ E[c] = D[c] /\ E[n[y][o]] = D[n[y][o]] /\ E[x] = {x} \cup D[n[x][s]] \cup D[c] /\ E[y] = D[x]
    BY <1>9, <1>e, <1>1, <1>a
  <2>5. \A z \in U, t \in Sides : z \notin {x, y} => E[m[z][t]] = D[n[z][t]] /\ E[z] = D[z]
    <3>1. ASSUME NEW z \in U, NEW t \in Sides, z \notin {x, y} PROVE E[m[z][t]] = D[n[z][t]]
      <4>1. CASE n[z][t] = x
        <5>1. m[z][t] = y
          BY <1>7, <3>1, <4>1
        <5> QED
          BY <2>4, <4>1, <5>1
      <4>2. CASE n[z][t] # x
        <5>1. m[z][t] = n[z][t] /\ n[z][t] # y /\ n[z][t] \in Slots
          <6>1. n[z][t] \in Slots
            BY <1>n DEF NearBy
          <6>2. n[z][t] # y /\ m[z][t] = IF n[z][t] = x THEN y ELSE n[z][t]
            BY <1>7, <3>1
          <6> QED
            BY <4>2, <6>1, <6>2
        <5> QED
          BY <1>9, <4>2, <5>1
      <4> QED
        BY <4>1, <4>2
    <3> QED
      BY <3>1, <1>9, <1>a
  <2>6. ASSUME NEW z \in U PROVE E[z] = {z} \cup E[m[z].left] \cup E[m[z].right]
    <3>1. CASE z \notin {x, y}
      <4>1. D[z] = {z} \cup D[n[z].left] \cup D[n[z].right]
        BY DEF Tree, Under
      <4> QED
        BY <2>5, <3>1, <4>1, SideFacts
    <3>2. CASE z = x
      <4>1. E[z] = {z} \cup E[m[z][s]] \cup E[m[z][o]]
        BY <1>6, <2>4, <3>2
      <4> QED
        BY <4>1, <1>o, SideFacts
    <3>3. CASE z = y
      <4>1. E[z] = {z} \cup E[m[z][s]] \cup E[m[z][o]]
        <5>1. E[m[y][s]] = {x} \cup D[n[x][s]] \cup D[c] /\ E[m[y][o]] = D[n[y][o]]
          BY <1>6, <2>4, SMTT(30)
        <5>2. E[y] = {x} \cup D[n[x][s]] \cup ({y} \cup D[c] \cup D[n[y][o]])
          BY <2>4, <1>d, <1>y, <1>c
        <5> QED
          BY <3>3, <5>1, <5>2
      <4> QED
        BY <4>1, <1>o, SideFacts
    <3> QED
      BY <3>1, <3>2, <3>3
  <2>7. ASSUME NEW z \in U, NEW t \in Sides, NEW v \in E[m[z][t]]
        PROVE  v \in U /\ Before(t, n[v].key, n[z].key)
    <3>1. CASE z \notin {x, y}
      BY <2>5, <2>7, <3>1, <1>k
    <3>2. CASE z = x /\ t = s
      BY <1>6, <2>4, <2>7, <3>2, <1>k
    <3>3. CASE z = x /\ t = o
      <4>1. v \in D[y]
        BY <1>6, <2>4, <2>7, <3>3, <1>d, <1>c
      <4> QED
        BY <3>3, <4>1, <1>k, <1>y
    <3>4. CASE z = y /\ t = o
      BY <1>6, <2>4, <2>7, <3>4, <1>k
    <3>5. CASE z = y /\ t = s
      <4>1. v = x \/ v \in D[n[x][s]] \/ v \in D[n[y][s]]
        BY <1>6, <2>4, <2>7, <3>5, <1>c
      <4>2. Before(s, n[x].key, n[y].key)
        <5>1. Before(o, n[y].key, n[x].key)
          BY <1>k, <1>y
        <5>2. n[x].key \in Nat /\ n[y].key \in Nat
          BY <1>a
        <5> QED
          BY <5>1, <5>2, <1>o, BeforeFacts
      <4>3. CASE v \in D[n[x][s]]
        <5>1. v \in U /\ Before(s, n[v].key, n[x].key)
          BY <4>3, <1>k
        <5>2. n[x].key \in Nat /\ n[y].key \in Nat /\ n[v].key \in Nat
          BY <5>1, <1>a
        <5> QED
          BY <3>5, <4>2, <5>1, <5>2, BeforeFacts
      <4>4. CASE v \in D[n[y][s]]
        BY <3>5, <4>4, <1>k
      <4> QED
        BY <3>5, <4>1, <4>2, <4>3, <4>4
    <3> QED
      BY <3>1, <3>2, <3>3, <3>4, <3>5, <1>t
  <2>8. \A z \in U : m[z].key = n[z].key
    BY <1>6, <1>a
  <2> QED
    BY <2>1, <2>2, <2>3, <2>6, <2>7, <2>8 DEF Under
<1>10. \A z \in Slots \ {x, y} : E[z] = D[z]
  BY <1>9
<1> QED
  BY <1>4, <1>8, <1>f, <1>10, <1>m, <1>o, <1>y, <1>c, <1>p DEF RotatedTree, Tree

-----------------------------------------------------------------------------
(* A new leaf *)

\* x hangs under p on side s, or is the root if p is the head.
Linked(n, m, U, p, x, s) ==
  /\ m \in Pool
  /\ \A z \in Slots : m[z].key = n[z].key /\ m[z].red = n[z].red
  /\ m[x].parent = p /\ \A t \in Sides : m[x][t] = Head0
  /\ \A z \in U : m[z].parent = n[z].parent
  /\ \A z \in U, t \in Sides : m[z][t] = IF z = p /\ t = s THEN x ELSE n[z][t]
  /\ Root(m) = IF p = Head0 THEN x ELSE Root(n)
  /\ \A t \in Sides : m[Head0][t] = IF p = Head0 \/ (t = s /\ p = n[Head0][s]) THEN x ELSE n[Head0][t]

\* What the assignments of Insert_at come to.
LEMMA LinkIs ==
  ASSUME NEW n \in Pool, NEW U \in SUBSET Nodes, NEW x \in Nodes \ U, NEW p \in U \cup {Head0},
         NEW left \in BOOLEAN, \A t \in Sides : n[x][t] = Head0
  PROVE  Linked(n, Link(n, left, p, x), U, p, x, SideOf(left))
<1>m. PICK m : m = Link(n, left, p, x)
  OBVIOUS
<1>s. PICK s \in Sides : s = SideOf(left)
  BY SideFacts DEF SideOf
<1>a. /\ x \in Slots /\ p \in Slots /\ Head0 \in Slots /\ x # Head0 /\ x # p /\ Head0 \notin U
      /\ \A z \in U : z \in Slots /\ z # Head0 /\ z # x
  BY SlotFacts
<1>p. PICK n1 : n1 = Put(n, x, "parent", p)
  OBVIOUS
<1>1. ParentSet(n, n1, x, p)
  BY <1>a, <1>p, WroteParent
<1>2. CASE p = Head0
  <2>p. PICK n2 : n2 = Put(n1, Head0, "parent", x)
    OBVIOUS
  <2>q. PICK n3 : n3 = Put(n2, Head0, "left", x)
    OBVIOUS
  <2>1. m = Put(n3, Head0, "right", x)
    <3>1. m = Put(Put(Put(n1, Head0, "parent", x), Head0, "left", x), Head0, "right", x)
      BY <1>2, <1>m, <1>p, Zenon DEF Link
    <3> QED
      BY <2>p, <2>q, <3>1
  <2>2. ParentSet(n1, n2, Head0, x)
    <3>1. n1 \in Pool
      BY <1>1 DEF ParentSet
    <3> QED
      BY <1>a, <2>p, <3>1, WroteParent
  <2>3. SideSet(n2, n3, Head0, "left", x)
    <3>1. n2 \in Pool /\ "left" \in Sides
      BY <2>2, SideFacts DEF ParentSet
    <3> QED
      BY <1>a, <2>q, <3>1, WroteSide
  <2>4. SideSet(n3, m, Head0, "right", x)
    <3>1. n3 \in Pool /\ "right" \in Sides
      BY <2>3, SideFacts DEF SideSet
    <3> QED
      BY <1>a, <2>1, <3>1, WroteSide
  <2>5. \A z \in Slots : m[z].key = n[z].key /\ m[z].red = n[z].red
    BY <1>1, <2>2, <2>3, <2>4 DEF SideSet, ParentSet
  <2>6. \A z \in Slots : m[z].parent = IF z = Head0 THEN x ELSE IF z = x THEN p ELSE n[z].parent
    BY <1>1, <1>a, <2>2, <2>3, <2>4 DEF SideSet, ParentSet
  <2>7. \A z \in Slots, t \in Sides : m[z][t] = IF z = Head0 THEN x ELSE n[z][t]
    BY <1>1, <2>2, <2>3, <2>4, SideFacts DEF SideSet, ParentSet
  <2> QED
    BY <1>2, <1>a, <1>m, <2>4, <2>5, <2>6, <2>7 DEF Linked, SideSet, Root
<1>3. CASE p # Head0
  <2>p. PICK n2 : n2 = Put(n1, p, s, x)
    OBVIOUS
  <2>1. SideSet(n1, n2, p, s, x)
    BY <1>1, <1>a, <2>p, WroteSide DEF ParentSet
  <2>2. CASE p = n[Head0][s]
    <3>1. m = Put(n2, Head0, s, x)
      <4>1. m = Put(Put(n1, p, s, x), Head0, s, x)
        BY <1>3, <2>2, <1>m, <1>s, <1>p, Zenon DEF Link, SideOf
      <4> QED
        BY <2>p, <4>1
    <3>2. SideSet(n2, m, Head0, s, x)
      <4>1. n2 \in Pool
        BY <2>1 DEF SideSet
      <4> QED
        BY <3>1, <4>1, <1>a, WroteSide
    <3>3. \A z \in Slots : m[z].key = n[z].key /\ m[z].red = n[z].red
      BY <1>1, <2>1, <3>2 DEF SideSet, ParentSet
    <3>4. \A z \in Slots : m[z].parent = IF z = x THEN p ELSE n[z].parent
      BY <1>1, <2>1, <3>2 DEF SideSet, ParentSet
    <3>5. \A z \in Slots, t \in Sides : m[z][t] = IF z \in {Head0, p} /\ t = s THEN x ELSE n[z][t]
      BY <1>1, <2>1, <3>2 DEF SideSet, ParentSet
    <3> QED
      BY <1>3, <2>2, <1>a, <1>m, <1>s, <3>2, <3>3, <3>4, <3>5 DEF Linked, SideSet, Root
  <2>3. CASE p # n[Head0][s]
    <3>1. m = n2
      BY <1>3, <2>3, <1>m, <1>s, <1>p, <2>p DEF Link, SideOf
    <3>3. \A z \in Slots : m[z].key = n[z].key /\ m[z].red = n[z].red
      BY <1>1, <2>1, <3>1 DEF SideSet, ParentSet
    <3>4. \A z \in Slots : m[z].parent = IF z = x THEN p ELSE n[z].parent
      BY <1>1, <2>1, <3>1 DEF SideSet, ParentSet
    <3>5. \A z \in Slots, t \in Sides : m[z][t] = IF z = p /\ t = s THEN x ELSE n[z][t]
      BY <1>1, <2>1, <3>1 DEF SideSet, ParentSet
    <3> QED
      BY <1>3, <2>3, <1>a, <1>m, <1>s, <2>1, <3>1, <3>3, <3>4, <3>5 DEF Linked, SideSet, Root
  <2> QED
    BY <2>2, <2>3
<1> QED
  BY <1>2, <1>3

\* A new leaf at an open place makes a tree of one node more.
LEMMA LinkTree ==
  ASSUME NEW n, NEW U, NEW D, Tree(n, U, D), Outers(n, U), NEW m, NEW p \in U \cup {Head0},
         NEW x \in Nodes \ U, NEW s \in Sides, Open(n, U, p, s, n[x].key), Linked(n, m, U, p, x, s)
  PROVE  Outers(m, U \cup {x}) /\ \E E : Tree(m, U \cup {x}, E)
<1>n. \A v \in U : NearBy(n, U, D, v)
  BY Near
<1>r. /\ Root(n) \in U \cup {Head0} /\ D[Root(n)] = U /\ D[Head0] = {} /\ Head0 \notin U /\ Head0 \in Slots
      /\ U \in SUBSET Nodes /\ n \in Pool /\ (Root(n) = Head0 <=> U = {})
  BY RootFacts
<1>a. /\ \A v \in U : n[v].key \in Nat /\ v \in Slots /\ v # Head0 /\ v # x /\ v \in D[v] /\ D[v] \in SUBSET U
      /\ x \in Slots /\ x # Head0 /\ n[x].key \in Nat
  <2>1. \A v \in U : n[v].key \in Nat /\ v \in Slots /\ v # Head0 /\ v # x /\ v \in D[v] /\ D[v] \in SUBSET U
    BY <1>n DEF NearBy
  <2>2. x \in Slots /\ x # Head0
    BY SlotFacts
  <2>3. n[x].key \in Nat
    BY <1>r, <2>2, PoolFacts
  <2> QED
    BY <2>1, <2>2, <2>3
<1>q. p = Head0 <=> U = {}
  BY <1>r DEF Open
<1>b. p # Head0 => /\ p \in U /\ n[p][s] = Head0 /\ Before(s, n[x].key, n[p].key)
                   /\ \A z \in U \ {p}, t \in Sides : Before(t, n[p].key, n[z].key) => Before(t, n[x].key, n[z].key)
  BY <1>q DEF Open
<1>m. /\ m \in Pool
      /\ \A z \in Slots : m[z].key = n[z].key
      /\ m[x].parent = p /\ \A t \in Sides : m[x][t] = Head0
      /\ \A z \in U : m[z].parent = n[z].parent
      /\ \A z \in U, t \in Sides : m[z][t] = IF z = p /\ t = s THEN x ELSE n[z][t]
      /\ Root(m) = IF p = Head0 THEN x ELSE Root(n)
      /\ \A t \in Sides : m[Head0][t] = IF p = Head0 \/ (t = s /\ p = n[Head0][s]) THEN x ELSE n[Head0][t]
  BY DEF Linked
<1>l. /\ \A z \in U, t \in Sides : n[z][t] \in U \cup {Head0} /\ (n[z][t] # Head0 => n[n[z][t]].parent = z)
      /\ \A z \in U : IF z = Root(n) THEN n[z].parent = Head0
                      ELSE n[z].parent \in U /\ \E t \in Sides : n[n[z].parent][t] = z
  BY DEF Tree, Links
<1>1. PICK E : E = [z \in Slots |-> IF z = x THEN {x} ELSE IF p \in D[z] THEN D[z] \cup {x} ELSE D[z]]
  OBVIOUS
<1>2. PICK V : V = U \cup {x}
  OBVIOUS
<1>3. Links(m, V)
  <2>1. ASSUME NEW z \in V, NEW t \in Sides, m[z][t] # Head0
        PROVE  m[z][t] \in V /\ m[m[z][t]].parent = z
    <3>1. z \in U
      BY <2>1, <1>2, <1>m
    <3>2. CASE z = p /\ t = s
      BY <1>2, <1>m, <3>1, <3>2
    <3>3. CASE ~(z = p /\ t = s)
      BY <1>2, <1>m, <1>l, <2>1, <3>1, <3>3
    <3> QED
      BY <3>2, <3>3
  <2>2. ASSUME NEW z \in V
        PROVE  IF z = Root(m) THEN m[z].parent = Head0
               ELSE m[z].parent \in V /\ \E t \in Sides : m[m[z].parent][t] = z
    <3>1. CASE z = x
      <4>1. CASE p = Head0
        BY <1>m, <3>1, <4>1
      <4>2. CASE p # Head0
        <5>1. x # Root(m) /\ m[p][s] = x /\ p \in V
          BY <1>m, <1>2, <1>r, <1>a, <1>b, <4>2
        <5> QED
          BY <1>m, <3>1, <5>1
      <4> QED
        BY <4>1, <4>2
    <3>2. CASE z # x
      <4>1. z \in U /\ p # Head0 /\ m[z].parent = n[z].parent /\ Root(m) = Root(n)
        BY <1>2, <1>m, <1>q, <3>2
      <4>2. CASE z = Root(n)
        BY <1>l, <4>1, <4>2
      <4>3. CASE z # Root(n)
        <5>1. PICK t \in Sides : n[z].parent \in U /\ n[n[z].parent][t] = z
          BY <1>l, <4>1, <4>3
        <5>2. ~(n[z].parent = p /\ t = s)
          BY <1>b, <4>1, <5>1, <1>a
        <5>3. m[n[z].parent][t] = z
          BY <1>m, <5>1, <5>2
        <5> QED
          BY <1>2, <4>1, <4>3, <5>1, <5>3
      <4> QED
        BY <4>2, <4>3
    <3> QED
      BY <3>1, <3>2
  <2>3. Root(m) \in V \cup {Head0} /\ V \in SUBSET Nodes
    BY <1>2, <1>m, <1>r
  <2> QED
    BY <2>1, <2>2, <2>3, <1>m DEF Links
<1>4. /\ E[x] = {x} /\ E[Head0] = {}
      /\ \A z \in U \cup {Head0} : E[z] = IF p \in D[z] THEN D[z] \cup {x} ELSE D[z]
  BY <1>1, <1>a, <1>r
<1>5. \A z \in U, t \in Sides : m[z][t] \in U \cup {Head0, x} /\ m[z][t] \in Slots
  BY <1>m, <1>l, <1>a, <1>r
<1>6. Under(m, V, E)
  <2>1. E \in [Slots -> SUBSET V]
    <3>1. \A z \in Slots : D[z] \in SUBSET U
      BY DEF Tree, Under
    <3> QED
      BY <1>1, <1>2, <3>1
  <2>2. E[Root(m)] = V
    <3>1. CASE p = Head0
      BY <1>m, <1>2, <1>4, <1>q, <3>1
    <3>2. CASE p # Head0
      <4>1. p \in D[Root(n)] /\ Root(m) = Root(n)
        BY <1>m, <1>r, <1>b, <3>2
      <4> QED
        BY <1>2, <1>4, <1>r, <4>1
    <3> QED
      BY <3>1, <3>2
  <2>3. ASSUME NEW z \in V PROVE E[z] = {z} \cup E[m[z].left] \cup E[m[z].right]
    <3>1. CASE z = x
      BY <1>m, <1>4, <3>1, SideFacts
    <3>2. CASE z \in U
      <4>o. PICK o \in Sides : o = Other(s) /\ o # s /\ \A t \in Sides : t = s \/ t = o
        BY SideFacts
      <4>d. D[z] = {z} \cup D[n[z][s]] \cup D[n[z][o]]
        <5>1. D[z] = {z} \cup D[n[z].left] \cup D[n[z].right]
          BY <3>2 DEF Tree, Under
        <5> QED
          BY <5>1, <4>o, SideFacts
      <4>1. E[z] = {z} \cup E[m[z][s]] \cup E[m[z][o]]
        <5>1. CASE z = p
          <6>1. m[z][s] = x /\ m[z][o] = n[z][o] /\ n[z][s] = Head0 /\ p \in D[z]
            BY <1>m, <1>b, <1>a, <3>2, <4>o, <5>1
          <6>2. p \notin D[n[z][o]]
            BY <3>2, <5>1, <1>n DEF NearBy
          <6>3. E[m[z][o]] = D[n[z][o]] /\ E[z] = D[z] \cup {x} /\ E[m[z][s]] = {x}
            BY <1>4, <1>l, <3>2, <6>1, <6>2
          <6> QED
            BY <1>r, <4>d, <6>1, <6>3
        <5>2. CASE z # p
          <6>1. \A t \in Sides : m[z][t] = n[z][t] /\ n[z][t] \in U \cup {Head0}
            BY <1>m, <1>l, <3>2, <5>2
          <6>2. p \in D[z] <=> (p \in D[n[z][s]] \/ p \in D[n[z][o]])
            BY <4>d, <5>2
          <6>3. E[z] = IF p \in D[z] THEN D[z] \cup {x} ELSE D[z]
            BY <1>4, <3>2
          <6>4. \A t \in Sides : E[m[z][t]] = IF p \in D[n[z][t]] THEN D[n[z][t]] \cup {x} ELSE D[n[z][t]]
            BY <1>4, <6>1
          <6>5. E[m[z][s]] \cup E[m[z][o]] = D[n[z][s]] \cup D[n[z][o]] \cup (IF p \in D[z] THEN {x} ELSE {})
            BY <6>2, <6>4
          <6> QED
            BY <4>d, <6>3, <6>5
        <5> QED
          BY <5>1, <5>2
      <4> QED
        BY <4>1, <4>o, SideFacts
    <3> QED
      BY <1>2, <3>1, <3>2
  <2>4. ASSUME NEW z \in V, NEW t \in Sides, NEW v \in E[m[z][t]]
        PROVE  Before(t, m[v].key, m[z].key)
    <3>1. z \in U
      BY <1>2, <1>m, <1>4, <2>4
    <3>2. CASE z = p /\ t = s
      <4>1. v = x
        BY <1>m, <1>4, <2>4, <3>1, <3>2
      <4> QED
        BY <1>m, <1>a, <1>b, <3>1, <3>2, <4>1
    <3>3. CASE ~(z = p /\ t = s)
      <4>1. m[z][t] = n[z][t] /\ n[z][t] \in U \cup {Head0}
        BY <1>m, <1>l, <3>1, <3>3
      <4>2. CASE v \in D[n[z][t]]
        <5>1. v \in U /\ Before(t, n[v].key, n[z].key)
          BY <3>1, <4>2, Through
        <5> QED
          BY <1>m, <1>a, <3>1, <5>1
      <4>3. CASE v \notin D[n[z][t]]
        <5>1. v = x /\ p \in D[n[z][t]]
          BY <1>4, <2>4, <4>1, <4>3
        <5>2. p # z /\ Before(t, n[p].key, n[z].key) /\ p \in U
          BY <3>1, <5>1, Through
        <5>3. Before(t, n[x].key, n[z].key)
          BY <1>b, <1>a, <3>1, <5>2
        <5> QED
          BY <1>m, <1>a, <3>1, <5>1, <5>3
      <4> QED
        BY <4>2, <4>3
    <3> QED
      BY <3>2, <3>3
  <2> QED
    BY <2>1, <2>2, <2>3, <2>4, <1>4 DEF Under
<1>7. Outers(m, V)
  <2>1. SUFFICES ASSUME NEW t \in Sides PROVE Utmost(m, V, m[Head0][t], t)
    BY <1>2 DEF Outers
  <2>2. PICK u : u = n[Head0][t]
    OBVIOUS
  <2>3. CASE p = Head0
    BY <1>2, <1>m, <1>q, <2>3 DEF Utmost
  <2>4. CASE p # Head0
    <3>1. Utmost(n, U, u, t) /\ u \in U
      BY <1>q, <2>2, <2>4 DEF Outers, Utmost
    <3>2. p \in U /\ n[p].key \in Nat /\ n[u].key \in Nat /\ m[u].key = n[u].key /\ m[x].key = n[x].key
          /\ \A z \in U : m[z].key = n[z].key
      BY <1>b, <1>a, <1>m, <2>4, <3>1
    <3>3. u = p \/ Before(t, n[u].key, n[p].key)
      BY <3>1, <3>2 DEF Utmost
    <3>4. CASE t = s /\ p = u
      <4>1. m[Head0][t] = x
        BY <1>m, <2>2, <3>4
      <4>2. ASSUME NEW z \in U PROVE Before(t, n[x].key, n[z].key)
        <5>1. z = p \/ Before(t, n[p].key, n[z].key)
          BY <3>1, <3>4 DEF Utmost
        <5> QED
          BY <1>b, <2>4, <3>4, <5>1
      <4> QED
        BY <1>2, <3>2, <4>1, <4>2 DEF Utmost
    <3>5. CASE ~(t = s /\ p = u)
      <4>1. m[Head0][t] = u
        BY <1>m, <2>2, <2>4, <3>5
      <4>2. Before(t, n[u].key, n[x].key)
        <5>1. CASE p = u
          <6>1. t = Other(s) /\ Before(s, n[x].key, n[p].key)
            BY <1>b, <2>4, <3>5, <5>1, SideFacts
          <6> QED
            BY <5>1, <6>1, <3>2, <1>a, BeforeFacts
        <5>2. CASE p # u
          <6>1. Before(t, n[u].key, n[p].key)
            BY <3>3, <5>2
          <6>2. Other(t) \in Sides /\ Other(Other(t)) = t
            BY SideFacts
          <6>3. Before(Other(t), n[p].key, n[u].key)
            BY <3>2, <6>1, BeforeFacts
          <6>4. Before(Other(t), n[x].key, n[u].key)
            BY <1>b, <2>4, <3>1, <5>2, <6>2, <6>3
          <6> QED
            BY <3>2, <6>4, <1>a, BeforeFacts
        <5> QED
          BY <5>1, <5>2
      <4> QED
        BY <1>2, <3>1, <3>2, <4>1, <4>2 DEF Utmost
    <3> QED
      BY <3>4, <3>5
  <2> QED
    BY <2>3, <2>4
<1> QED
  BY <1>2, <1>3, <1>6, <1>7 DEF Tree

-----------------------------------------------------------------------------
(* A node with one child leaves *)

\* e, with at most one child f, is gone from between its parent and f.
CutOut(n, m, e, f) ==
  /\ m \in Pool
  /\ \A z \in Slots : m[z].key = n[z].key /\ m[z].red = n[z].red
  /\ Root(m) = IF e = Root(n) THEN f ELSE Root(n)
  /\ \A z \in Nodes : m[z].parent = IF z = f THEN n[e].parent ELSE n[z].parent
  /\ \A z \in Nodes, t \in Sides :
       m[z][t] = IF e # Root(n) /\ z = n[e].parent /\ n[z][t] = e THEN f ELSE n[z][t]

\* e has the child f at most.
Lone(n, e, f) == \E t \in Sides : n[e][t] = f /\ n[e][Other(t)] = Head0

\* What the assignments of erase come to for such a node.
LEMMA CutOutIs ==
  ASSUME NEW n, NEW U, NEW D, Tree(n, U, D), NEW e \in U, NEW f \in U \cup {Head0}, f # e,
         NEW m, m = Replace(SetParent(n, f, n[e].parent), e, f)
  PROVE  CutOut(n, m, e, f) /\ \A t \in Sides : m[Head0][t] = n[Head0][t]
<1>a. n \in Pool /\ e \in Nodes /\ e \in Slots /\ f \in Slots /\ Head0 \in Slots /\ e # Head0
      /\ \A z \in Nodes : z \in Slots /\ z # Head0
  BY SlotFacts, RootFacts
<1>p. PICK p \in Slots : p = n[e].parent
  BY <1>a, PoolFacts
<1>q. PICK n1 : n1 = SetParent(n, f, p)
  OBVIOUS
<1>1. ParentKept(n, n1, f, p)
  BY <1>a, <1>q, SetParentIs
<1>2. Hung(n, U, D, e) /\ Hangs(n, e)
  BY HungIs
<1>3. Root(n1) = Root(n) /\ n1[e].parent = p /\ n1 \in Pool
  BY <1>1, <1>a, <1>p DEF ParentKept, Root
<1>4. Hangs(n1, e)
  <2>1. e = Root(n) \/ p \in Nodes
    BY <1>2, <1>p DEF Hangs
  <2>2. p \in Nodes => n1[p].left = n[p].left /\ n1[p].right = n[p].right
    BY <1>1, <1>a, SideFacts DEF ParentKept
  <2> QED
    BY <1>2, <1>3, <1>p, <2>1, <2>2 DEF Hangs
<1>5. Replaced(n1, m, e, f)
  <2>1. m = Replace(n1, e, f)
    BY <1>p, <1>q
  <2> QED
    BY <1>a, <1>3, <1>4, <2>1, ReplaceIs
<1>6. e # Root(n) => p # Head0
  BY <1>2, <1>p, <1>a DEF Hangs
<1>7. \A z \in Slots, t \in Sides : m[z][t] = IF e # Root(n) /\ z = p /\ n[z][t] = e THEN f ELSE n[z][t]
  BY <1>1, <1>3, <1>5 DEF ParentKept, Replaced
<1>8. \A z \in Nodes : m[z].parent = IF z = f THEN p ELSE n[z].parent
  BY <1>1, <1>5, <1>a DEF ParentKept, Replaced
<1>9. \A z \in Slots : m[z].key = n[z].key /\ m[z].red = n[z].red
  BY <1>1, <1>5 DEF ParentKept, Replaced
<1>10. m \in Pool /\ Root(m) = IF e = Root(n) THEN f ELSE Root(n)
  BY <1>3, <1>5 DEF Replaced
<1>11. \A t \in Sides : m[Head0][t] = n[Head0][t]
  BY <1>6, <1>7, <1>a
<1> QED
  BY <1>7, <1>8, <1>9, <1>10, <1>11, <1>a, <1>p DEF CutOut

\* The nodes from e down, when there is one child at most.
LEMMA LoneFacts ==
  ASSUME NEW n, NEW U, NEW D, Tree(n, U, D), NEW e \in U, NEW f, Lone(n, e, f)
  PROVE  /\ f \in U \cup {Head0} /\ f \in Slots /\ f # e /\ D[e] = {e} \cup D[f] /\ e \notin D[f]
         /\ \A t \in Sides : n[e][t] \in {f, Head0}
         /\ f # Head0 => n[f].parent = e
<1>1. PICK t \in Sides : n[e][t] = f /\ n[e][Other(t)] = Head0
  BY DEF Lone
<1>2. NearBy(n, U, D, e)
  BY Near
<1>3. f \in U \cup {Head0} /\ f \in Slots /\ f # e /\ e \notin D[f] /\ e \in D[e] /\ D[f] \in SUBSET D[e]
  BY <1>1, <1>2 DEF NearBy
<1>4. D[e] = {e} \cup D[f]
  <2>1. D[Head0] = {}
    BY RootFacts
  <2>2. \A y \in D[e] : y = e \/ y \in D[f] \/ y \in D[Head0]
    BY <1>1, <1>2 DEF NearBy
  <2> QED
    BY <1>3, <2>1, <2>2
<1>5. \A s \in Sides : n[e][s] \in {f, Head0}
  BY <1>1, SideFacts
<1>6. f # Head0 => n[f].parent = e
  BY <1>1 DEF Tree, Links
<1> QED
  BY <1>3, <1>4, <1>5, <1>6

\* Cutting out such a node leaves a tree.
LEMMA CutOutTree ==
  ASSUME NEW n, NEW U, NEW D, Tree(n, U, D), NEW e \in U, NEW f, Lone(n, e, f),
         NEW m, CutOut(n, m, e, f), NEW E, E = [z \in Slots |-> D[z] \ {e}]
  PROVE  Tree(m, U \ {e}, E)
<1>n. \A v \in U : NearBy(n, U, D, v)
  BY Near
<1>r. /\ Root(n) \in U \cup {Head0} /\ Root(n) \in Slots /\ D[Root(n)] = U /\ D[Head0] = {} /\ Head0 \notin U /\ Head0 \in Slots
      /\ U \in SUBSET Nodes /\ n \in Pool
  BY RootFacts
<1>a. \A v \in U : v \in Slots /\ v \in Nodes /\ v # Head0 /\ \A t \in Sides : n[v][t] \in Slots
  BY <1>n DEF NearBy
<1>f. /\ f \in U \cup {Head0} /\ f \in Slots /\ f # e /\ D[e] = {e} \cup D[f] /\ e \notin D[f]
      /\ \A t \in Sides : n[e][t] \in {f, Head0}
      /\ f # Head0 => n[f].parent = e
  BY LoneFacts
<1>l. /\ \A z \in U, t \in Sides : n[z][t] # Head0 => n[z][t] \in U /\ n[n[z][t]].parent = z
      /\ \A z \in U : IF z = Root(n) THEN n[z].parent = Head0
                      ELSE n[z].parent \in U /\ \E t \in Sides : n[n[z].parent][t] = z
  BY DEF Tree, Links
<1>h. Hung(n, U, D, e)
  BY HungIs
<1>m. /\ m \in Pool
      /\ \A z \in Slots : m[z].key = n[z].key
      /\ Root(m) = IF e = Root(n) THEN f ELSE Root(n)
      /\ \A z \in U : m[z].parent = IF z = f THEN n[e].parent ELSE n[z].parent
      /\ \A z \in U, t \in Sides :
           m[z][t] = IF e # Root(n) /\ z = n[e].parent /\ n[z][t] = e THEN f ELSE n[z][t]
  BY <1>a DEF CutOut
<1>s. \A z \in U, t \in Sides : m[z][t] = IF n[z][t] = e THEN f ELSE n[z][t]
  <2>1. ASSUME NEW z \in U, NEW t \in Sides, n[z][t] = e PROVE e # Root(n) /\ z = n[e].parent
    <3>1. n[e].parent = z
      BY <2>1, <1>l, <1>a
    <3> QED
      BY <3>1, <1>l, <1>a
  <2> QED
    BY <2>1, <1>m
<1>v. PICK V : V = U \ {e}
  OBVIOUS
<1>1. ASSUME NEW z \in V, NEW t \in Sides, m[z][t] # Head0
      PROVE  m[z][t] \in V /\ m[m[z][t]].parent = z
  <2>1. CASE n[z][t] = e
    <3>1. m[z][t] = f /\ f \in V /\ n[e].parent = z
      BY <1>1, <1>s, <1>v, <1>f, <1>l, <1>a, <2>1
    <3> QED
      BY <3>1, <1>m, <1>v
  <2>2. CASE n[z][t] # e
    <3>1. m[z][t] = n[z][t] /\ n[z][t] \in U /\ n[n[z][t]].parent = z
      BY <1>1, <1>s, <1>v, <1>l, <2>2
    <3>2. n[z][t] # f
      BY <1>f, <1>v, <1>1, <3>1
    <3> QED
      BY <2>2, <3>1, <3>2, <1>m, <1>v
  <2> QED
    BY <2>1, <2>2
<1>2. ASSUME NEW z \in V
      PROVE  IF z = Root(m) THEN m[z].parent = Head0
             ELSE m[z].parent \in V /\ \E t \in Sides : m[m[z].parent][t] = z
  <2>0. z \in U /\ z # e
    BY <1>v
  <2>1. CASE z = f
    <3>1. m[z].parent = n[e].parent
      BY <2>0, <2>1, <1>m
    <3>2. CASE e = Root(n)
      BY <1>m, <1>h, <2>1, <3>1, <3>2 DEF Hung
    <3>3. CASE e # Root(n)
      <4>1. PICK t \in Sides : n[n[e].parent][t] = e /\ n[e].parent \in U /\ n[e].parent # e
        BY <1>h, <3>3 DEF Hung
      <4>2. m[n[e].parent][t] = f
        BY <4>1, <1>s
      <4>3. f # Root(n)
        BY <1>f, <1>l, <2>0, <2>1, <1>a
      <4> QED
        BY <1>m, <1>v, <2>1, <3>1, <3>3, <4>1, <4>2, <4>3
    <3> QED
      BY <3>2, <3>3
  <2>2. CASE z # f
    <3>1. m[z].parent = n[z].parent
      BY <2>0, <2>2, <1>m
    <3>2. CASE z = Root(n)
      BY <1>m, <1>l, <2>0, <3>1, <3>2
    <3>3. CASE z # Root(n)
      <4>1. PICK t \in Sides : n[z].parent \in U /\ n[n[z].parent][t] = z
        BY <1>l, <2>0, <3>3
      <4>2. n[z].parent # e
        BY <1>f, <2>0, <2>2, <4>1, <1>a
      <4>3. m[n[z].parent][t] = z
        BY <2>0, <4>1, <1>s
      <4>4. z # Root(m)
        BY <1>m, <2>2, <3>3
      <4> QED
        BY <1>v, <3>1, <4>1, <4>2, <4>3, <4>4
    <3> QED
      BY <3>2, <3>3
  <2> QED
    BY <2>1, <2>2
<1>3. Root(m) \in V \cup {Head0}
  BY <1>m, <1>r, <1>f, <1>v
<1>4. Links(m, V)
  BY <1>1, <1>2, <1>3, <1>m, <1>r, <1>v DEF Links
<1>5. \A z \in Slots : E[z] = D[z] \ {e}
  OBVIOUS
<1>6. E[f] = D[f] /\ E[e] = D[f]
  BY <1>5, <1>f, <1>a
<1>7. \A z \in U, t \in Sides : E[m[z][t]] = D[n[z][t]] \ {e}
  <2>1. ASSUME NEW z \in U, NEW t \in Sides PROVE E[m[z][t]] = D[n[z][t]] \ {e}
    <3>1. CASE n[z][t] = e
      <4>1. m[z][t] = f
        BY <1>s, <3>1
      <4> QED
        BY <1>6, <1>5, <1>a, <3>1, <4>1
    <3>2. CASE n[z][t] # e
      <4>1. m[z][t] = n[z][t] /\ n[z][t] \in Slots
        BY <1>s, <1>a, <3>2
      <4> QED
        BY <1>5, <4>1
    <3> QED
      BY <3>1, <3>2
  <2> QED
    BY <2>1
<1>8. Under(m, V, E)
  <2>1. E \in [Slots -> SUBSET V]
    <3>1. \A z \in Slots : D[z] \in SUBSET U
      BY DEF Tree, Under
    <3> QED
      BY <1>v, <3>1
  <2>2. E[Head0] = {}
    BY <1>5, <1>r
  <2>3. E[Root(m)] = V
    <3>1. CASE e = Root(n)
      BY <1>m, <1>6, <1>5, <1>r, <1>v, <1>a, <3>1
    <3>2. CASE e # Root(n)
      BY <1>m, <1>5, <1>r, <1>v, <3>2
    <3> QED
      BY <3>1, <3>2
  <2>4. ASSUME NEW z \in V PROVE E[z] = {z} \cup E[m[z].left] \cup E[m[z].right]
    <3>1. z \in U /\ z # e /\ E[z] = D[z] \ {e}
      BY <1>v, <1>5, <1>a
    <3>2. D[z] = {z} \cup D[n[z].left] \cup D[n[z].right]
      BY <3>1 DEF Tree, Under
    <3>3. E[m[z].left] = D[n[z].left] \ {e} /\ E[m[z].right] = D[n[z].right] \ {e}
      BY <1>7, <3>1, SideFacts
    <3> QED
      BY <3>1, <3>2, <3>3
  <2>5. ASSUME NEW z \in V, NEW t \in Sides, NEW v \in E[m[z][t]]
        PROVE  Before(t, m[v].key, m[z].key)
    <3>1. z \in U /\ v \in D[n[z][t]]
      BY <1>v, <1>7
    <3>2. v \in U /\ Before(t, n[v].key, n[z].key)
      BY <3>1, Through
    <3> QED
      BY <1>m, <1>a, <3>1, <3>2
  <2> QED
    BY <2>1, <2>2, <2>3, <2>4, <2>5 DEF Under
<1> QED
  BY <1>4, <1>8, <1>v DEF Tree

\* m is n but for the outermost node on a side.
HeadSide(n, m, s) ==
  /\ m \in Pool /\ Root(m) = Root(n)
  /\ \A z \in Slots : m[z].key = n[z].key /\ m[z].red = n[z].red
  /\ \A z \in Nodes : m[z].parent = n[z].parent /\ \A t \in Sides : m[z][t] = n[z][t]
  /\ \A t \in Sides : t # s => m[Head0][t] = n[Head0][t]

\* Who is outermost after e is gone.
LEMMA OuterIs ==
  ASSUME NEW n, NEW U, NEW D, Tree(n, U, D), Outers(n, U), NEW e \in U, NEW f, Lone(n, e, f),
         NEW m, CutOut(n, m, e, f), NEW V, V = U \ {e}, NEW E, E = [z \in Slots |-> D[z] \ {e}], Tree(m, V, E),
         NEW s \in Sides, m[Head0][s] = n[Head0][s]
  PROVE  /\ HeadSide(m, Outer(m, e, f, s), s)
         /\ IF V = {} THEN Outer(m, e, f, s)[Head0][s] = Head0
            ELSE Utmost(n, V, Outer(m, e, f, s)[Head0][s], s)
<1>n. \A v \in U : NearBy(n, U, D, v)
  BY Near
<1>a. /\ \A v \in U : n[v].key \in Nat /\ v \in Slots /\ v \in Nodes /\ v # Head0 /\ v \in D[v]
      /\ Head0 \in Slots /\ \A v \in Nodes : v \in Slots /\ v # Head0
  BY <1>n, SlotFacts DEF NearBy
<1>f. /\ f \in U \cup {Head0} /\ f \in Slots /\ f # e /\ D[e] = {e} \cup D[f] /\ e \notin D[f]
      /\ \A t \in Sides : n[e][t] \in {f, Head0}
  BY LoneFacts
<1>b. D[Head0] = {} /\ m \in Pool /\ V \in SUBSET U
  BY RootFacts
<1>h. Hung(n, U, D, e)
  BY HungIs
<1>p. m[e].parent = n[e].parent /\ \A z \in Slots : m[z].key = n[z].key
  BY <1>a, <1>f DEF CutOut
<1>m. PICK w : w = Outer(m, e, f, s)
  OBVIOUS
<1>o. U # {} /\ n[Head0][s] \in U /\ Utmost(n, U, n[Head0][s], s)
  BY DEF Outers, Utmost
<1>1. CASE n[Head0][s] # e
  <2>1. w = m
    BY <1>1, <1>m DEF Outer
  <2>2. HeadSide(m, w, s)
    BY <2>1, <1>b DEF HeadSide
  <2>3. n[Head0][s] \in V /\ Utmost(n, V, n[Head0][s], s)
    BY <1>1, <1>o DEF Utmost
  <2> QED
    BY <1>m, <2>1, <2>2, <2>3
<1>2. CASE n[Head0][s] = e
  <2>0. Utmost(n, U, e, s)
    BY <1>o, <1>2
  <2>1. w = Put(m, Head0, s, IF f = Head0 THEN m[e].parent ELSE Outermost(m, f, s))
    BY <1>2, <1>m DEF Outer
  <2>2. PICK v : v = IF f = Head0 THEN n[e].parent ELSE Outermost(m, f, s)
    OBVIOUS
  <2>3. w = Put(m, Head0, s, v)
    BY <1>p, <2>1, <2>2
  <2>4. v \in Slots /\ IF V = {} THEN v = Head0 ELSE Utmost(n, V, v, s)
    <3>1. CASE f # Head0
      <4>1. f \in V /\ V # {}
        BY <1>f, <3>1
      <4>2. v = Outermost(m, f, s)
        BY <2>2, <3>1
      <4>3. v \in V /\ Utmost(m, E[f], v, s)
        <5>1. \A g \in V : Outermost(m, g, s) \in V /\ Utmost(m, E[g], Outermost(m, g, s), s)
          BY OutermostIs
        <5> QED
          BY <4>1, <4>2, <5>1
      <4>4. E[f] = D[f]
        BY <1>f
      <4>5. v \in D[f] /\ \A z \in D[f] : z = v \/ Before(s, n[v].key, n[z].key)
        <5>1. \A z \in D[f] : z \in Slots
          <6>1. D[f] \in SUBSET U
            BY <1>f DEF Tree, Under
          <6> QED
            BY <6>1, <1>a
        <5> QED
          BY <4>3, <4>4, <5>1, <1>p DEF Utmost
      <4>6. ASSUME NEW z \in V PROVE z = v \/ Before(s, n[v].key, n[z].key)
        <5>1. CASE z \in D[e]
          BY <1>f, <4>5, <4>6, <5>1
        <5>2. CASE z \notin D[e]
          <6>1. PICK t \in Sides : \A u \in D[e] : Before(t, n[u].key, n[z].key)
            BY <5>2, <1>b, Aside
          <6>2. Before(t, n[e].key, n[z].key) /\ Before(t, n[v].key, n[z].key)
            BY <1>f, <4>5, <6>1
          <6>3. Before(s, n[e].key, n[z].key)
            BY <2>0, <4>6 DEF Utmost
          <6>4. t = s
            <7>1. n[e].key \in Nat /\ n[z].key \in Nat
              BY <1>a
            <7> QED
              BY <6>2, <6>3, <7>1, SideFacts, BeforeFacts
          <6> QED
            BY <6>2, <6>4
        <5> QED
          BY <5>1, <5>2
      <4> QED
        BY <4>1, <4>3, <4>6, <1>a, <1>b DEF Utmost
    <3>2. CASE f = Head0
      <4>0. D[e] = {e} /\ v = n[e].parent
        BY <1>f, <1>b, <2>2, <3>2
      <4>1. CASE e = Root(n)
        <5>1. V = {} /\ v = Head0
          BY <1>h, <4>0, <4>1 DEF Hung, Tree, Under
        <5> QED
          BY <5>1, <1>a
      <4>2. CASE e # Root(n)
        <5>1. PICK t \in Sides : v \in U /\ v # e /\ n[v][t] = e
          BY <1>h, <4>0, <4>2 DEF Hung
        <5>2. e \in D[n[v][t]] /\ D[n[v][t]] = {e} /\ Before(t, n[e].key, n[v].key) /\ e \in D[v]
          BY <4>0, <5>1, Through
        <5>3. \A z \in U : z # e => Before(s, n[e].key, n[z].key)
          BY <2>0 DEF Utmost
        <5>4. \A z \in U : \A r \in Sides : z # e /\ Before(r, n[e].key, n[z].key) => r = s
          <6>1. ASSUME NEW z \in U, NEW r \in Sides, z # e, Before(r, n[e].key, n[z].key) PROVE r = s
            <7>1. n[e].key \in Nat /\ n[z].key \in Nat /\ Before(s, n[e].key, n[z].key)
              BY <1>a, <5>3, <6>1
            <7> QED
              BY <6>1, <7>1, SideFacts, BeforeFacts
          <6> QED
            BY <6>1
        <5>5. t = s
          BY <5>1, <5>2, <5>4
        <5>6. ASSUME NEW z \in V, z # v PROVE Before(s, n[v].key, n[z].key)
          <6>1. CASE z \in D[v]
            <7>1. z \in D[n[v][Other(t)]]
              BY <5>1, <5>2, <5>6, <6>1, <1>n DEF NearBy
            <7>2. Before(Other(t), n[z].key, n[v].key)
              BY <5>1, <7>1, Through, SideFacts
            <7>3. n[v].key \in Nat /\ n[z].key \in Nat
              BY <1>a, <5>1
            <7> QED
              BY <5>5, <7>2, <7>3, BeforeFacts
          <6>2. CASE z \notin D[v]
            <7>1. PICK r \in Sides : \A u \in D[v] : Before(r, n[u].key, n[z].key)
              BY <5>1, <6>2, Aside
            <7>2. Before(r, n[e].key, n[z].key) /\ Before(r, n[v].key, n[z].key)
              BY <5>1, <5>2, <7>1, <1>a
            <7> QED
              BY <5>4, <7>2
          <6> QED
            BY <6>1, <6>2
        <5> QED
          BY <5>1, <5>6, <1>a DEF Utmost
      <4> QED
        BY <4>1, <4>2
    <3> QED
      BY <3>1, <3>2
  <2>5. SideSet(m, w, Head0, s, v)
    BY <2>3, <2>4, <1>a, <1>b, WroteSide
  <2>6. HeadSide(m, w, s) /\ w[Head0][s] = v
    BY <2>5, <1>a DEF SideSet, HeadSide, Root
  <2> QED
    BY <1>m, <2>4, <2>6
<1> QED
  BY <1>1, <1>2

\* What erasing a node with one child at most leaves.
LeafCut(n, U, e, f, E, c) ==
  /\ CutOut(n, c.n, e, f)
  /\ Tree(c.n, U \ {e}, E) /\ Outers(c.n, U \ {e})
  /\ c.fix = f /\ c.above = n[e].parent /\ c.black = ~n[e].red

\* The same with the outermost nodes.
LEMMA CutLeafIs ==
  ASSUME NEW n, NEW U, NEW D, Tree(n, U, D), Outers(n, U), NEW e \in U, NEW f, Lone(n, e, f),
         NEW E, E = [z \in Slots |-> D[z] \ {e}]
  PROVE  LeafCut(n, U, e, f, E, CutLeaf(n, e, f))
<1>v. PICK V : V = U \ {e}
  OBVIOUS
<1>a. V \in SUBSET Nodes /\ \A z \in V : z \in Slots /\ z \in Nodes
  BY <1>v, SlotFacts, RootFacts
<1>f. f \in U \cup {Head0} /\ f # e
  BY LoneFacts
<1>1. PICK m : m = Replace(SetParent(n, f, n[e].parent), e, f)
  OBVIOUS
<1>2. PICK w : w = Outer(m, e, f, "left")
  OBVIOUS
<1>3. PICK w2 : w2 = Outer(w, e, f, "right")
  OBVIOUS
<1>4. CutLeaf(n, e, f) = [n |-> w2, fix |-> f, above |-> n[e].parent, black |-> ~n[e].red]
  BY <1>1, <1>2, <1>3 DEF CutLeaf
<1>5. CutOut(n, m, e, f) /\ \A t \in Sides : m[Head0][t] = n[Head0][t]
  BY <1>1, <1>f, CutOutIs
<1>6. Tree(m, V, E)
  BY <1>5, <1>v, CutOutTree
<1>7. /\ HeadSide(m, w, "left")
      /\ IF V = {} THEN w[Head0]["left"] = Head0 ELSE Utmost(n, V, w[Head0]["left"], "left")
  <2>1. "left" \in Sides
    BY SideFacts
  <2> QED
    BY <1>2, <1>5, <1>6, <1>v, <2>1, OuterIs
<1>8. CutOut(n, w, e, f)
  BY <1>5, <1>7 DEF CutOut, HeadSide
<1>9. Tree(w, V, E)
  <2>1. Alike(m, w, V)
    BY <1>7, <1>a DEF HeadSide, Alike
  <2> QED
    BY <1>6, <2>1, AlikeTree
<1>10. w[Head0]["right"] = n[Head0]["right"]
  BY <1>5, <1>7, SideFacts DEF HeadSide
<1>11. /\ HeadSide(w, w2, "right")
       /\ IF V = {} THEN w2[Head0]["right"] = Head0 ELSE Utmost(n, V, w2[Head0]["right"], "right")
  <2>1. "right" \in Sides
    BY SideFacts
  <2> QED
    BY <1>3, <1>8, <1>9, <1>10, <1>v, <2>1, OuterIs
<1>12. CutOut(n, w2, e, f)
  BY <1>8, <1>11 DEF CutOut, HeadSide
<1>13. Tree(w2, V, E)
  <2>1. Alike(w, w2, V)
    BY <1>11, <1>a DEF HeadSide, Alike
  <2> QED
    BY <1>9, <2>1, AlikeTree
<1>14. w2[Head0]["left"] = w[Head0]["left"]
  BY <1>11, SideFacts DEF HeadSide
<1>15. Outers(w2, V)
  <2>1. \A z \in V : w2[z].key = n[z].key
    BY <1>12, <1>a DEF CutOut
  <2>2. \A y, s : Utmost(n, V, y, s) => Utmost(w2, V, y, s)
    BY <2>1 DEF Utmost
  <2> QED
    BY <1>7, <1>11, <1>14, <2>2, SideFacts DEF Outers
<1> QED
  BY <1>4, <1>12, <1>13, <1>15, <1>v DEF LeafCut

-----------------------------------------------------------------------------
(* A node takes the place of another *)

\* m is n with x in the place and with the links of e.
Renamed(n, m, U, e, x) ==
  /\ m \in Pool
  /\ \A z \in Slots : m[z].key = n[z].key
  /\ Root(m) = IF Root(n) = e THEN x ELSE Root(n)
  /\ m[x].parent = n[e].parent /\ \A t \in Sides : m[x][t] = n[e][t]
  /\ \A z \in U \ {e} : m[z].parent = IF n[z].parent = e THEN x ELSE n[z].parent
  /\ \A z \in U \ {e}, t \in Sides : m[z][t] = IF n[z][t] = e THEN x ELSE n[z][t]

\* A node that takes the place and the links of another leaves a tree, if it fits in the order.
LEMMA RenameTree ==
  ASSUME NEW n, NEW U, NEW D, Tree(n, U, D), NEW e \in U, NEW x \in Nodes \ U, NEW m,
         Renamed(n, m, U, e, x),
         \A z \in U \ {e}, t \in Sides : Before(t, n[e].key, n[z].key) => Before(t, n[x].key, n[z].key)
  PROVE  \E E : Tree(m, (U \ {e}) \cup {x}, E)
<1>n. \A v \in U : NearBy(n, U, D, v)
  BY Near
<1>r. /\ Root(n) \in U \cup {Head0} /\ Root(n) \in Slots /\ D[Root(n)] = U /\ D[Head0] = {} /\ Head0 \notin U /\ Head0 \in Slots
      /\ U \in SUBSET Nodes /\ n \in Pool
  BY RootFacts
<1>a. /\ \A v \in U : v \in Slots /\ v \in Nodes /\ v # Head0 /\ v # x /\ n[v].key \in Nat /\ v \in D[v] /\ D[v] \in SUBSET U
                      /\ \A t \in Sides : n[v][t] \in Slots /\ n[v][t] # x /\ n[v][t] # v
  <2>1. \A v \in U : v \in Slots /\ v \in Nodes /\ v # Head0 /\ v # x /\ n[v].key \in Nat /\ v \in D[v] /\ D[v] \in SUBSET U
    BY <1>n DEF NearBy
  <2>2. \A v \in U, t \in Sides : n[v][t] \in Slots /\ (n[v][t] # Head0 => n[v][t] \in U) /\ n[v][t] # v
    BY <1>n DEF NearBy
  <2>3. x # Head0
    BY SlotFacts
  <2> QED
    BY <2>1, <2>2, <2>3
<1>x. x \in Slots /\ x # Head0 /\ x \notin U /\ n[x].key \in Nat
  <2>1. x \in Slots /\ x # Head0
    BY SlotFacts
  <2> QED
    BY <1>r, <2>1, PoolFacts
<1>m. /\ m \in Pool
      /\ \A z \in Slots : m[z].key = n[z].key
      /\ Root(m) = IF Root(n) = e THEN x ELSE Root(n)
      /\ m[x].parent = n[e].parent /\ \A t \in Sides : m[x][t] = n[e][t]
      /\ \A z \in U \ {e} : m[z].parent = IF n[z].parent = e THEN x ELSE n[z].parent
      /\ \A z \in U \ {e}, t \in Sides : m[z][t] = IF n[z][t] = e THEN x ELSE n[z][t]
  BY DEF Renamed
<1>l. /\ \A z \in U, t \in Sides : n[z][t] # Head0 => n[z][t] \in U /\ n[n[z][t]].parent = z
      /\ \A z \in U : IF z = Root(n) THEN n[z].parent = Head0
                      ELSE n[z].parent \in U /\ \E t \in Sides : n[n[z].parent][t] = z
  BY DEF Tree, Links
<1>h. Hung(n, U, D, e)
  BY HungIs
<1>v. PICK V : V = (U \ {e}) \cup {x}
  OBVIOUS
<1>1. ASSUME NEW z \in V, NEW t \in Sides, m[z][t] # Head0
      PROVE  m[z][t] \in V /\ m[m[z][t]].parent = z
  <2>1. CASE z = x
    <3>1. m[z][t] = n[e][t] /\ n[e][t] \in U /\ n[n[e][t]].parent = e /\ n[e][t] # e
      BY <1>1, <1>m, <1>l, <1>a, <2>1
    <3> QED
      BY <2>1, <3>1, <1>m, <1>v
  <2>2. CASE z # x
    <3>0. z \in U \ {e}
      BY <1>v, <2>2
    <3>1. CASE n[z][t] = e
      <4>1. m[z][t] = x /\ n[e].parent = z
        BY <3>0, <3>1, <1>m, <1>l, <1>a
      <4> QED
        BY <4>1, <1>m, <1>v
    <3>2. CASE n[z][t] # e
      <4>1. m[z][t] = n[z][t] /\ n[z][t] \in U \ {e} /\ n[n[z][t]].parent = z
        BY <1>1, <3>0, <3>2, <1>m, <1>l
      <4> QED
        BY <3>0, <4>1, <1>m, <1>v
    <3> QED
      BY <3>1, <3>2
  <2> QED
    BY <2>1, <2>2
<1>2. ASSUME NEW z \in V
      PROVE  IF z = Root(m) THEN m[z].parent = Head0
             ELSE m[z].parent \in V /\ \E t \in Sides : m[m[z].parent][t] = z
  <2>1. CASE z = x
    <3>1. CASE e = Root(n)
      BY <1>m, <1>h, <2>1, <3>1 DEF Hung
    <3>2. CASE e # Root(n)
      <4>1. PICK t \in Sides : n[n[e].parent][t] = e /\ n[e].parent \in U \ {e}
        BY <1>h, <3>2 DEF Hung
      <4>2. m[n[e].parent][t] = x /\ m[x].parent = n[e].parent
        BY <4>1, <1>m
      <4>3. x # Root(m)
        BY <1>m, <1>x, <1>r, <3>2
      <4> QED
        BY <1>v, <2>1, <4>1, <4>2, <4>3
    <3> QED
      BY <3>1, <3>2
  <2>2. CASE z # x
    <3>0. z \in U \ {e} /\ z \in U /\ z # e
      BY <1>v, <2>2
    <3>2. CASE z = Root(n)
      <4>1. z = Root(m) /\ n[z].parent = Head0
        BY <1>m, <1>l, <3>0, <3>2
      <4> QED
        BY <1>m, <3>0, <4>1, <1>a
    <3>3. CASE z # Root(n)
      <4>0. z # Root(m)
        BY <1>m, <2>2, <3>3
      <4>1. PICK t \in Sides : n[z].parent \in U /\ n[n[z].parent][t] = z
        BY <1>l, <3>0, <3>3
      <4>2. CASE n[z].parent = e
        <5>1. m[z].parent = x /\ m[x][t] = z
          BY <1>m, <3>0, <4>1, <4>2
        <5> QED
          BY <1>v, <4>0, <5>1
      <4>3. CASE n[z].parent # e
        <5>1. m[z].parent = n[z].parent /\ n[z].parent \in U \ {e}
          BY <1>m, <3>0, <4>1, <4>3
        <5>2. m[n[z].parent][t] = z
          BY <1>m, <3>0, <4>1, <5>1
        <5> QED
          BY <1>v, <4>0, <5>1, <5>2
      <4> QED
        BY <4>2, <4>3
    <3> QED
      BY <3>2, <3>3
  <2> QED
    BY <2>1, <2>2
<1>3. Root(m) \in V \cup {Head0} /\ V \in SUBSET Nodes
  BY <1>m, <1>r, <1>v
<1>4. Links(m, V)
  BY <1>1, <1>2, <1>3, <1>m DEF Links
<1>e. PICK E : E = [z \in Slots |-> IF z = x THEN (D[e] \ {e}) \cup {x}
                                     ELSE IF e \in D[z] THEN (D[z] \ {e}) \cup {x} ELSE D[z]]
  OBVIOUS
<1>5. /\ E[x] = (D[e] \ {e}) \cup {x}
      /\ \A z \in Slots : z # x => E[z] = IF e \in D[z] THEN (D[z] \ {e}) \cup {x} ELSE D[z]
  BY <1>e, <1>x
<1>d. /\ \A z \in U : D[z] = {z} \cup D[n[z].left] \cup D[n[z].right]
      /\ \A t \in Sides : e \notin D[n[e][t]]
      /\ \A z \in U : e \in D[z] /\ z # e => e \in D[n[z].left] \/ e \in D[n[z].right]
      /\ \A z \in U, t \in Sides : D[n[z][t]] \in SUBSET D[z]
      /\ \A z \in U : D[z] \in SUBSET U
  <2>1. \A z \in U : D[z] = {z} \cup D[n[z].left] \cup D[n[z].right]
    BY DEF Tree, Under
  <2>2. \A t \in Sides : e \notin D[n[e][t]]
    BY <1>n DEF NearBy
  <2>3. \A z \in U, t \in Sides : D[n[z][t]] \in SUBSET D[z]
    BY <1>n DEF NearBy
  <2>4. ASSUME NEW z \in U, e \in D[z], z # e PROVE e \in D[n[z].left] \/ e \in D[n[z].right]
    BY <2>1, <2>4
  <2>5. \A z \in U : D[z] \in SUBSET U
    BY <1>a
  <2> QED
    BY <2>1, <2>2, <2>3, <2>4, <2>5
\* The nodes from a child down, with x for e.
<1>6. \A z \in U \ {e}, t \in Sides : E[m[z][t]] = IF e \in D[n[z][t]] THEN (D[n[z][t]] \ {e}) \cup {x} ELSE D[n[z][t]]
  <2>1. ASSUME NEW z \in U \ {e}, NEW t \in Sides
        PROVE  E[m[z][t]] = IF e \in D[n[z][t]] THEN (D[n[z][t]] \ {e}) \cup {x} ELSE D[n[z][t]]
    <3>1. CASE n[z][t] = e
      <4>1. m[z][t] = x /\ e \in D[e]
        BY <1>m, <1>a, <3>1
      <4> QED
        BY <1>5, <3>1, <4>1
    <3>2. CASE n[z][t] # e
      <4>1. m[z][t] = n[z][t] /\ n[z][t] \in Slots /\ n[z][t] # x
        BY <1>m, <1>a, <3>2
      <4> QED
        BY <1>5, <4>1
    <3> QED
      BY <3>1, <3>2
  <2> QED
    BY <2>1
<1>7. \A t \in Sides : E[m[x][t]] = D[n[e][t]]
  <2>1. ASSUME NEW t \in Sides PROVE E[m[x][t]] = D[n[e][t]]
    <3>1. m[x][t] = n[e][t] /\ n[e][t] \in Slots /\ n[e][t] # x /\ e \notin D[n[e][t]]
      BY <1>m, <1>a, <1>d
    <3> QED
      BY <1>5, <3>1
  <2> QED
    BY <2>1
<1>8. Under(m, V, E)
  <2>1. E \in [Slots -> SUBSET V]
    <3>1. \A z \in Slots : D[z] \in SUBSET U
      BY DEF Tree, Under
    <3>2. \A z \in Slots : E[z] \in SUBSET V
      <4>1. ASSUME NEW z \in Slots PROVE E[z] \in SUBSET V
        <5>1. CASE z = x
          <6>1. D[e] \in SUBSET U
            BY <1>a
          <6> QED
            BY <1>5, <1>v, <5>1, <6>1
        <5>2. CASE z # x
          BY <1>5, <1>v, <3>1, <5>2
        <5> QED
          BY <5>1, <5>2
      <4> QED
        BY <4>1
    <3> QED
      BY <1>e, <3>2
  <2>2. E[Head0] = {}
    BY <1>5, <1>r, <1>x
  <2>3. E[Root(m)] = V
    <3>1. CASE e = Root(n)
      BY <1>m, <1>5, <1>r, <1>v, <3>1
    <3>2. CASE e # Root(n)
      BY <1>m, <1>5, <1>r, <1>v, <1>x, <3>2
    <3> QED
      BY <3>1, <3>2
  <2>4. ASSUME NEW z \in V PROVE E[z] = {z} \cup E[m[z].left] \cup E[m[z].right]
    <3>1. CASE z = x
      <4>1. E[m[x].left] = D[n[e].left] /\ E[m[x].right] = D[n[e].right]
        BY <1>7, SideFacts
      <4>2. D[e] \ {e} = D[n[e].left] \cup D[n[e].right]
        BY <1>d, SideFacts
      <4> QED
        BY <1>5, <3>1, <4>1, <4>2
    <3>2. CASE z # x
      <4>0. z \in U \ {e} /\ z \in U /\ z # e /\ z \in Slots
        BY <1>v, <1>a, <3>2
      <4>1. /\ E[m[z].left] = IF e \in D[n[z].left] THEN (D[n[z].left] \ {e}) \cup {x} ELSE D[n[z].left]
            /\ E[m[z].right] = IF e \in D[n[z].right] THEN (D[n[z].right] \ {e}) \cup {x} ELSE D[n[z].right]
        BY <1>6, <4>0, SideFacts
      <4>2. PICK A, B : A = D[n[z].left] /\ B = D[n[z].right]
        OBVIOUS
      <4>3. D[z] = {z} \cup A \cup B
        BY <1>d, <4>0, <4>2
      <4>4. E[z] = IF e \in A \/ e \in B THEN (D[z] \ {e}) \cup {x} ELSE D[z]
        BY <1>5, <3>2, <4>0, <4>3
      <4>5. E[m[z].left] = (IF e \in A THEN (A \ {e}) \cup {x} ELSE A) /\ E[m[z].right] = IF e \in B THEN (B \ {e}) \cup {x} ELSE B
        BY <4>1, <4>2
      <4> QED
        BY <4>0, <4>3, <4>4, <4>5
    <3> QED
      BY <3>1, <3>2
  <2>5. ASSUME NEW z \in V, NEW t \in Sides, NEW v \in E[m[z][t]]
        PROVE  Before(t, m[v].key, m[z].key)
    <3>1. CASE z = x
      <4>1. v \in D[n[e][t]]
        BY <1>7, <2>5, <3>1
      <4>2. v \in U /\ v # e /\ Before(t, n[v].key, n[e].key)
        BY <4>1, Through
      <4>3. v \in U \ {e} /\ n[v].key \in Nat /\ n[e].key \in Nat /\ Other(t) \in Sides
        BY <4>2, <1>a, SideFacts
      <4>4. Before(Other(t), n[e].key, n[v].key)
        BY <4>2, <4>3, SideFacts, BeforeFacts
      <4>5. Before(Other(t), n[x].key, n[v].key)
        BY <4>3, <4>4
      <4>6. Before(t, n[v].key, n[x].key)
        BY <4>3, <4>5, <1>x, BeforeFacts
      <4> QED
        BY <1>m, <1>x, <1>a, <3>1, <4>2, <4>6
    <3>2. CASE z # x
      <4>0. z \in U \ {e} /\ z \in U /\ z \in Slots
        BY <1>v, <1>a, <3>2
      <4>1. CASE v = x
        <5>1. e \in D[n[z][t]]
          <6>1. x \notin D[n[z][t]]
            BY <1>x, <1>d, <4>0
          <6> QED
            BY <1>6, <2>5, <4>0, <4>1, <6>1
        <5>2. Before(t, n[e].key, n[z].key)
          BY <4>0, <5>1, Through
        <5> QED
          BY <1>m, <1>x, <4>0, <4>1, <5>2
      <4>2. CASE v # x
        <5>1. v \in D[n[z][t]]
          <6>1. E[m[z][t]] = IF e \in D[n[z][t]] THEN (D[n[z][t]] \ {e}) \cup {x} ELSE D[n[z][t]]
            BY <1>6, <4>0
          <6>2. v \in IF e \in D[n[z][t]] THEN (D[n[z][t]] \ {e}) \cup {x} ELSE D[n[z][t]]
            BY <2>5, <6>1
          <6> QED
            BY <4>2, <6>2
        <5>2. v \in U /\ Before(t, n[v].key, n[z].key)
          BY <4>0, <5>1, Through
        <5> QED
          BY <1>m, <1>a, <4>0, <5>2
      <4> QED
        BY <4>1, <4>2
    <3> QED
      BY <3>1, <3>2
  <2> QED
    BY <2>1, <2>2, <2>3, <2>4, <2>5 DEF Under
<1> QED
  BY <1>4, <1>8, <1>v DEF Tree

-----------------------------------------------------------------------------
(* A node with two children leaves *)

\* The successor of an element with two children.
Successor(n, U, D, e, x) ==
  /\ x \in U /\ x # e /\ x \in D[n[e].right] /\ n[x].left = Head0 /\ x # Root(n)
  /\ Lone(n, x, n[x].right)
  /\ x = n[e].right => n[x].parent = e
  /\ x # n[e].right => /\ n[x].parent \in U /\ n[x].parent \in D[n[e].right]
                       /\ n[x].parent # e /\ n[x].parent # x /\ n[n[x].parent].left = x
  /\ \A z \in U \ {e, x}, t \in Sides : Before(t, n[e].key, n[z].key) => Before(t, n[x].key, n[z].key)

\* The node after one with two children is the leftmost on its right.
LEMMA SuccessorIs ==
  ASSUME NEW n, NEW U, NEW D, Tree(n, U, D), NEW e \in U, n[e].right # Head0, NEW x, x = Inc(n, e)
  PROVE  Successor(n, U, D, e, x)
<1>n. \A v \in U : NearBy(n, U, D, v)
  BY Near
<1>a. \A v \in U : n[v].key \in Nat /\ v # Head0 /\ v \in D[v]
  BY <1>n DEF NearBy
<1>r. PICK r \in U : r = n[e].right /\ r \in D[n[e].right] /\ r # e
  BY <1>n, SideFacts DEF NearBy
<1>1. x = Outermost(n, r, "left")
  <2>1. x = Stepped(n, e, "right")
    BY IncIs
  <2> QED
    BY <2>1, <1>r, <1>a, SideFacts DEF Stepped
<1>2. x \in U /\ Utmost(n, D[r], x, "left") /\ n[x]["left"] = Head0
  BY <1>1, OutermostIs, SideFacts
<1>3. x \in D[r] /\ x # e /\ n[e].key < n[x].key
  <2>1. x \in D[r]
    BY <1>2 DEF Utmost
  <2>2. Before("right", n[x].key, n[e].key) /\ x # e
    BY <2>1, <1>r, Through, SideFacts
  <2> QED
    BY <2>1, <2>2, Compare
<1>4. Lone(n, x, n[x].right)
  BY <1>2, SideFacts DEF Lone
<1>l. \A v \in U : IF v = Root(n) THEN n[v].parent = Head0
                   ELSE n[v].parent \in U /\ \E t \in Sides : n[n[v].parent][t] = v
  BY DEF Tree, Links
<1>5. ASSUME x = r PROVE n[x].parent = e
  <2>1. n[x].parent = e
    BY <1>r, <1>5, <1>a, SideFacts DEF Tree, Links
  <2> QED
    BY <2>1
<1>6. ASSUME x # r PROVE n[x].parent \in D[r] /\ n[x].parent \in U
  BY <1>3, <1>6, ParentUnder
<1>p. PICK q \in U : q = n[x].parent /\ (x = r => q = e) /\ (x # r => q \in D[r])
  <2>1. CASE x = r
    BY <1>5, <2>1
  <2>2. CASE x # r
    BY <1>6, <2>2
  <2> QED
    BY <2>1, <2>2
<1>7. x # Root(n)
  BY <1>p, <1>l, <1>2, <1>a
<1>8. ASSUME x # r PROVE q # e /\ q # x /\ n[q].left = x
  <2>1. e \notin D[r] /\ q \in D[r]
    BY <1>8, <1>p, <1>r, <1>n, SideFacts DEF NearBy
  <2>2. PICK t \in Sides : n[q][t] = x
    BY <1>2, <1>l, <1>p, <1>7
  <2>3. x \in D[n[q][t]]
    BY <1>2, <1>a, <2>2
  <2>4. x # q /\ Before(t, n[x].key, n[q].key)
    BY <1>p, <2>3, Through
  <2>5. Before("left", n[x].key, n[q].key)
    BY <1>2, <2>1, <2>4 DEF Utmost
  <2>6. t = "left"
    <3>1. n[x].key \in Nat /\ n[q].key \in Nat
      BY <1>a, <1>2
    <3> QED
      BY <2>4, <2>5, <3>1, BeforeFacts, SideFacts
  <2> QED
    BY <2>1, <2>2, <2>4, <2>6
<1>9. ASSUME NEW z \in U \ {e, x}, NEW t \in Sides, Before(t, n[e].key, n[z].key)
      PROVE  Before(t, n[x].key, n[z].key)
  <2>1. n[z].key \in Nat /\ n[e].key \in Nat /\ n[x].key \in Nat
    BY <1>a, <1>2
  <2>2. Adjacent(n, U, e, x, "right")
    BY IncIs
  <2>3. ~(n[e].key < n[z].key /\ n[z].key < n[x].key)
    BY <2>2, <1>2, <1>a, Compare DEF Adjacent
  <2>4. n[z].key # n[x].key
    BY <1>2, KeysDiffer
  <2> QED
    BY <1>3, <1>9, <2>1, <2>3, <2>4 DEF Before
<1> QED
  BY <1>r, <1>2, <1>3, <1>4, <1>5, <1>p, <1>7, <1>8, <1>9 DEF Successor

\* x comes into the place of e.
Inside(n, m, e, x) ==
  /\ m \in Pool
  /\ \A z \in Slots : m[z].key = n[z].key
  /\ \A z \in Slots : m[z].red = IF z = x THEN n[e].red ELSE n[z].red
  /\ Root(m) = IF e = Root(n) THEN x ELSE Root(n)
  /\ \A t \in Sides : m[Head0][t] = n[Head0][t]
  /\ \A z \in Nodes : m[z].parent =
       IF z = x THEN n[e].parent
       ELSE IF z \in {n[e].left, n[e].right} THEN x
       ELSE IF z = n[x].right /\ x # n[e].right THEN n[x].parent
       ELSE n[z].parent
  /\ \A z \in Nodes : m[z].left =
       IF z = x THEN n[e].left
       ELSE IF z = n[x].parent /\ x # n[e].right THEN n[x].right
       ELSE IF e # Root(n) /\ z = n[e].parent /\ n[z].left = e THEN x ELSE n[z].left
  /\ \A z \in Nodes : m[z].right =
       IF z = x /\ x # n[e].right THEN n[e].right
       ELSE IF e # Root(n) /\ z = n[e].parent /\ n[z].right = e THEN x ELSE n[z].right

\* What the assignments of erase come to for a node with two children.
LEMMA InsideIs ==
  ASSUME NEW n, NEW U, NEW D, Tree(n, U, D), NEW e \in U, NEW x, Successor(n, U, D, e, x),
         n[e].left # Head0, n[e].right # Head0
  PROVE  Inside(n, CutInner(n, e, x).n, e, x)
<1>n. \A v \in U : NearBy(n, U, D, v)
  BY Near
<1>s. "left" \in Sides /\ "right" \in Sides /\ "left" # "right" /\ Other("left") = "right"
      /\ \A t \in Sides : t = "left" \/ t = "right"
  BY SideFacts
<1>a. /\ \A v \in U : v \in Slots /\ v \in Nodes /\ v # Head0 /\ v \in D[v]
      /\ \A v \in Nodes : v \in Slots /\ v # Head0
      /\ Head0 \in Slots /\ n \in Pool
  BY <1>n, SlotFacts, RootFacts DEF NearBy
<1>k. \A t \in Sides : n[e][t] # Head0 => n[e][t] \in U /\ n[e][t] \in D[n[e][t]]
  BY <1>n DEF NearBy
<1>l. PICK l \in U : l = n[e].left /\ l \in D[n[e].left]
  BY <1>k, <1>s
<1>r. PICK r \in U : r = n[e].right /\ r \in D[n[e].right]
  BY <1>k, <1>s
<1>p. PICK p \in Slots : p = n[e].parent
  BY <1>a, PoolFacts
<1>q. PICK q \in U : q = n[x].parent /\ (x = r => q = e) /\ (x # r => q \in D[r] /\ q # e /\ q # x)
  BY <1>r DEF Successor
<1>f. PICK f \in U \cup {Head0} : f = n[x].right /\ f # x /\ (f # Head0 => f \in D[x])
  <2>1. x \in U
    BY DEF Successor
  <2>2. n[x].right \in U \cup {Head0} /\ n[x].right # x /\ (n[x].right # Head0 => n[x].right \in D[x])
    <3>1. n[x].right # Head0 => n[x].right \in U /\ n[x].right \in D[n[x].right] /\ D[n[x].right] \in SUBSET D[x]
      BY <2>1, <1>n, <1>s DEF NearBy
    <3>2. n[x].right # x
      BY <2>1, <1>n, <1>s DEF NearBy
    <3> QED
      BY <3>1, <3>2
  <2> QED
    BY <2>2
<1>x. /\ x \in U /\ x # e /\ x \in D[r] /\ x \in Slots /\ x \in Nodes /\ x # Head0 /\ x # l
      /\ l # e /\ r # e /\ l # r /\ f # e /\ f # l /\ (x # r => f # r /\ q # l)
  <2>1. x \in U /\ x # e /\ x \in D[r]
    BY <1>r DEF Successor
  <2>2. D[l] \cap D[r] = {} /\ e \notin D[r] /\ e \notin D[l]
    BY <1>l, <1>r, <1>n, <1>s DEF NearBy
  <2>3. D[x] \in SUBSET D[r]
    BY <2>1, Nested
  <2>4. x # r => r \notin D[x]
    <3>1. ASSUME x # r, r \in D[x] PROVE FALSE
      <4>1. D[r] \in SUBSET D[x]
        BY <2>1, <3>1, Nested
      <4>2. q \in D[x] /\ q \in U /\ q # x
        BY <1>q, <3>1, <4>1
      <4>3. Hung(n, U, D, x)
        BY <2>1, HungIs
      <4>4. x # Root(n)
        BY DEF Successor
      <4> QED
        BY <1>q, <4>2, <4>3, <4>4 DEF Hung
    <3> QED
      BY <3>1
  <2>5. l # e /\ r # e /\ l # r /\ x # l
    BY <2>1, <2>2, <1>a
  <2>6. f # e /\ f # l
    BY <1>f, <2>2, <2>3, <1>a
  <2>7. x # r => f # r /\ q # l
    BY <1>f, <1>q, <2>2, <2>4, <1>a
  <2> QED
    BY <1>a, <2>1, <2>5, <2>6, <2>7
<1>h. Hung(n, U, D, e) /\ Hangs(n, e)
  BY HungIs
<1>b. e # Root(n) => p \in U /\ p # x /\ p # q /\ p # e /\ p # r
  <2>1. ASSUME e # Root(n) PROVE p \in U /\ p \notin D[e]
    BY <1>h, <1>p, <2>1 DEF Hung
  <2>2. D[r] \in SUBSET D[e] /\ e \in D[e]
    BY <1>r, <1>n, <1>s DEF NearBy
  <2> QED
    BY <2>1, <2>2, <1>x, <1>q, <1>r
<1>m. PICK m : m = CutInner(n, e, x).n
  OBVIOUS
<1>1. PICK a1 : a1 = Put(n, l, "parent", x)
  OBVIOUS
<1>2. PICK a2 : a2 = Put(a1, x, "left", l)
  OBVIOUS
<1>3. ParentSet(n, a1, l, x)
  BY <1>1, <1>a, <1>x, WroteParent
<1>4. SideSet(a1, a2, x, "left", l)
  <2>1. a1 \in Pool
    BY <1>3 DEF ParentSet
  <2> QED
    BY <1>2, <1>a, <1>x, <1>s, <2>1, WroteSide
\* The right subtree of e, when x is not its root.
<1>5. PICK n2 : n2 = IF x = r THEN a2
                     ELSE Put(Put(Put(SetParent(a2, f, q), q, "left", f), x, "right", r), r, "parent", x)
  OBVIOUS
<1>6. PICK n3 : n3 = Replace(n2, e, x)
  OBVIOUS
<1>7. PICK n4 : n4 = Put(n3, x, "parent", p)
  OBVIOUS
<1>8. m = Paint(n4, x, n[e].red)
  BY <1>1, <1>2, <1>5, <1>6, <1>7, <1>m, <1>l, <1>r, <1>p, <1>q, <1>f, Zenon DEF CutInner
<1>9. /\ n2 \in Pool
      /\ \A z \in Slots : n2[z].key = n[z].key /\ n2[z].red = n[z].red
      /\ \A z \in Slots : n2[z].parent = IF z = l \/ (z = r /\ x # r) THEN x
                                         ELSE IF z = f /\ f # Head0 /\ x # r THEN q ELSE n[z].parent
      /\ \A z \in Slots : n2[z].left = IF z = x THEN l ELSE IF z = q /\ x # r THEN f ELSE n[z].left
      /\ \A z \in Slots : n2[z].right = IF z = x /\ x # r THEN r ELSE n[z].right
  <2>0. /\ a2 \in Pool
        /\ \A z \in Slots : a2[z].key = n[z].key /\ a2[z].red = n[z].red
        /\ \A z \in Slots : a2[z].parent = IF z = l THEN x ELSE n[z].parent
        /\ \A z \in Slots : a2[z].left = IF z = x THEN l ELSE n[z].left
        /\ \A z \in Slots : a2[z].right = n[z].right
    BY <1>3, <1>4, <1>s DEF ParentSet, SideSet
  <2>1. CASE x = r
    <3>1. n2 = a2
      BY <1>5, <2>1
    <3> QED
      BY <2>0, <2>1, <3>1
  <2>2. CASE x # r
    <3>1. PICK b1 : b1 = SetParent(a2, f, q)
      OBVIOUS
    <3>2. PICK b2 : b2 = Put(b1, q, "left", f)
      OBVIOUS
    <3>3. PICK b3 : b3 = Put(b2, x, "right", r)
      OBVIOUS
    <3>4. n2 = Put(b3, r, "parent", x)
      BY <1>5, <2>2, <3>1, <3>2, <3>3
    <3>5. f \in Slots /\ q \in Slots /\ r \in Slots
      BY <1>a
    <3>6. ParentKept(a2, b1, f, q)
      BY <2>0, <3>1, <3>5, SetParentIs
    <3>7. SideSet(b1, b2, q, "left", f)
      <4>1. b1 \in Pool
        BY <3>6 DEF ParentKept
      <4> QED
        BY <1>s, <3>2, <3>5, <4>1, WroteSide
    <3>8. SideSet(b2, b3, x, "right", r)
      <4>1. b2 \in Pool
        BY <3>7 DEF SideSet
      <4> QED
        BY <1>s, <1>x, <3>3, <3>5, <4>1, WroteSide
    <3>9. ParentSet(b3, n2, r, x)
      <4>1. b3 \in Pool
        BY <3>8 DEF SideSet
      <4> QED
        BY <1>x, <3>4, <3>5, <4>1, WroteParent
    <3>10. \A z \in Slots : n2[z].key = n[z].key /\ n2[z].red = n[z].red
      BY <2>0, <3>6, <3>7, <3>8, <3>9 DEF ParentKept, SideSet, ParentSet
    <3>11. \A z \in Slots : n2[z].parent = IF z = r THEN x ELSE IF z = f /\ f # Head0 THEN q ELSE a2[z].parent
      BY <3>6, <3>7, <3>8, <3>9 DEF ParentKept, SideSet, ParentSet
    <3>12. \A z \in Slots, t \in Sides : n2[z][t] = IF z = x /\ t = "right" THEN r
                                                   ELSE IF z = q /\ t = "left" THEN f ELSE a2[z][t]
      BY <3>6, <3>7, <3>8, <3>9 DEF ParentKept, SideSet, ParentSet
    <3>13. n2 \in Pool
      BY <3>9 DEF ParentSet
    <3>14. \A z \in Slots : n2[z].parent = IF z = l \/ z = r THEN x ELSE IF z = f /\ f # Head0 THEN q ELSE n[z].parent
      BY <2>0, <2>2, <3>11, <1>x
    <3>15. \A z \in Slots : n2[z].left = IF z = x THEN l ELSE IF z = q THEN f ELSE n[z].left
      BY <2>0, <2>2, <3>12, <1>s, <1>q
    <3>16. \A z \in Slots : n2[z].right = IF z = x THEN r ELSE n[z].right
      BY <2>0, <3>12, <1>s
    <3> QED
      BY <2>2, <3>10, <3>13, <3>14, <3>15, <3>16
  <2> QED
    BY <2>1, <2>2
<1>10. Root(n2) = Root(n) /\ n2[e].parent = p /\ \A t \in Sides : n2[Head0][t] = n[Head0][t]
  <2>1. n2[Head0].parent = n[Head0].parent /\ n2[e].parent = n[e].parent
    BY <1>9, <1>x, <1>a
  <2>2. n2[Head0].left = n[Head0].left /\ n2[Head0].right = n[Head0].right
    BY <1>9, <1>x, <1>a
  <2> QED
    BY <2>1, <2>2, <1>p, <1>s DEF Root
<1>11. e # Root(n) => p \in Nodes /\ n2[p].left = n[p].left /\ n2[p].right = n[p].right
  BY <1>9, <1>b, <1>a
<1>12. Hangs(n2, e)
  BY <1>h, <1>10, <1>11, <1>p DEF Hangs
<1>13. Replaced(n2, n3, e, x)
  BY <1>6, <1>9, <1>12, <1>a, <1>x, ReplaceIs
<1>14. ParentSet(n3, n4, x, p)
  <2>1. n3 \in Pool
    BY <1>13 DEF Replaced
  <2> QED
    BY <1>7, <1>x, <2>1, WroteParent
<1>15. RedSet(n4, m, x, n[e].red)
  <2>1. n4 \in Pool
    BY <1>14 DEF ParentSet
  <2>2. n[e].red \in BOOLEAN
    BY <1>a, PoolFacts
  <2> QED
    BY <1>8, <1>x, <2>1, <2>2, Painted
<1>16. \A z \in Slots : m[z].key = n[z].key
  BY <1>9, <1>13, <1>14, <1>15 DEF Replaced, ParentSet, RedSet
<1>17. \A z \in Slots : m[z].red = IF z = x THEN n[e].red ELSE n[z].red
  BY <1>9, <1>13, <1>14, <1>15 DEF Replaced, ParentSet, RedSet
<1>18. \A z \in Nodes : m[z].parent = IF z = x THEN p ELSE n2[z].parent
  BY <1>13, <1>14, <1>15, <1>a DEF Replaced, ParentSet, RedSet
<1>19. \A z \in Slots, t \in Sides : m[z][t] = IF e # Root(n) /\ z = p /\ n2[z][t] = e THEN x ELSE n2[z][t]
  BY <1>10, <1>13, <1>14, <1>15 DEF Replaced, ParentSet, RedSet
<1>20. Root(m) = IF e = Root(n) THEN x ELSE Root(n)
  BY <1>10, <1>13, <1>14, <1>15, <1>x, <1>a DEF Replaced, ParentSet, RedSet, Root
<1>21. \A t \in Sides : m[Head0][t] = n[Head0][t]
  BY <1>10, <1>19, <1>b, <1>a
<1>22. \A z \in Nodes : m[z].parent = IF z = x THEN p ELSE IF z \in {l, r} THEN x
                                       ELSE IF z = f /\ x # r THEN q ELSE n[z].parent
  BY <1>9, <1>18, <1>a, <1>x
<1>23. \A z \in Nodes : m[z].left = IF z = x THEN l ELSE IF z = q /\ x # r THEN f
                                     ELSE IF e # Root(n) /\ z = p /\ n[z].left = e THEN x ELSE n[z].left
  <2>1. \A z \in Nodes : m[z].left = IF e # Root(n) /\ z = p /\ n2[z].left = e THEN x ELSE n2[z].left
    BY <1>19, <1>s, <1>a
  <2>2. ASSUME NEW z \in Nodes, e # Root(n), z = p PROVE m[z].left = IF n[z].left = e THEN x ELSE n[z].left
    BY <2>1, <2>2, <1>11
  <2>3. ASSUME NEW z \in Nodes, ~(e # Root(n) /\ z = p)
        PROVE  m[z].left = IF z = x THEN l ELSE IF z = q /\ x # r THEN f ELSE n[z].left
    BY <2>1, <2>3, <1>9, <1>a
  <2> QED
    BY <2>2, <2>3, <1>b
<1>24. \A z \in Nodes : m[z].right = IF z = x /\ x # r THEN r
                                      ELSE IF e # Root(n) /\ z = p /\ n[z].right = e THEN x ELSE n[z].right
  <2>1. \A z \in Nodes : m[z].right = IF e # Root(n) /\ z = p /\ n2[z].right = e THEN x ELSE n2[z].right
    BY <1>19, <1>s, <1>a
  <2>2. ASSUME NEW z \in Nodes, e # Root(n), z = p PROVE m[z].right = IF n[z].right = e THEN x ELSE n[z].right
    BY <2>1, <2>2, <1>11
  <2>3. ASSUME NEW z \in Nodes, ~(e # Root(n) /\ z = p)
        PROVE  m[z].right = IF z = x /\ x # r THEN r ELSE n[z].right
    BY <2>1, <2>3, <1>9, <1>a
  <2> QED
    BY <2>2, <2>3, <1>b
<1>25. m \in Pool
  BY <1>15 DEF RedSet
<1> QED
  BY <1>m, <1>16, <1>17, <1>20, <1>21, <1>22, <1>23, <1>24, <1>25, <1>l, <1>r, <1>p, <1>q, <1>f DEF Inside

\* Erasing a node with two children is cutting its successor out, and giving it
\* the place of the node.
InnerCut(n, U, D, e, x, c, k) ==
  /\ Successor(n, U, D, e, x)
  /\ CutOut(n, k, x, n[x].right)
  /\ Tree(k, U \ {x}, [z \in Slots |-> D[z] \ {x}])
  /\ Renamed(k, c.n, U \ {x}, e, x)
  /\ \A z \in Slots : c.n[z].red = IF z = x THEN n[e].red ELSE n[z].red
  /\ \A z \in Slots : c.n[z].key = n[z].key
  /\ Outers(c.n, U \ {e}) /\ \E E : Tree(c.n, U \ {e}, E)
  /\ c.fix = n[x].right /\ c.black = ~n[x].red
  /\ c.above = IF n[x].parent = e THEN x ELSE n[x].parent

\* A node with children on both sides is not outermost.
LEMMA NotOutermost ==
  ASSUME NEW n, NEW U, NEW D, Tree(n, U, D), Outers(n, U), NEW e \in U, NEW s \in Sides, n[e][s] # Head0
  PROVE  n[Head0][s] # e
<1>n. \A v \in U : NearBy(n, U, D, v)
  BY Near
<1>1. n[e][s] \in D[n[e][s]]
  BY <1>n DEF NearBy
<1>2. n[e][s] \in U /\ n[e][s] # e /\ Before(s, n[n[e][s]].key, n[e].key)
  BY <1>1, Through
<1>3. n[e].key \in Nat /\ n[n[e][s]].key \in Nat
  BY <1>2, <1>n DEF NearBy
<1>4. ~Utmost(n, U, e, s)
  BY <1>2, <1>3, BeforeFacts DEF Utmost
<1> QED
  BY <1>4 DEF Outers

\* Erasing it is cutting out the successor, which then takes its place.
LEMMA CutInnerIs ==
  ASSUME NEW n, NEW U, NEW D, Tree(n, U, D), Outers(n, U), NEW e \in U,
         n[e].left # Head0, n[e].right # Head0, NEW x, x = Inc(n, e)
  PROVE  \E k : InnerCut(n, U, D, e, x, CutInner(n, e, x), k)
<1>n. \A v \in U : NearBy(n, U, D, v)
  BY Near
<1>s. "left" \in Sides /\ "right" \in Sides /\ \A t \in Sides : t = "left" \/ t = "right"
  BY SideFacts
<1>a. /\ \A v \in U : v \in Slots /\ v \in Nodes /\ v # Head0
      /\ Head0 \in Slots /\ n \in Pool
  BY <1>n, RootFacts DEF NearBy
<1>1. Successor(n, U, D, e, x)
  BY SuccessorIs
<1>2. Inside(n, CutInner(n, e, x).n, e, x)
  BY <1>1, InsideIs
<1>x. x \in U /\ x # e /\ x # Root(n) /\ Lone(n, x, n[x].right) /\ n[x].left = Head0
  BY <1>1 DEF Successor
<1>f. PICK f : f = n[x].right
  OBVIOUS
<1>3. /\ f \in U \cup {Head0} /\ f \in Slots /\ f # x
      /\ f # Head0 => n[f].parent = x
  BY <1>x, <1>f, LoneFacts
<1>4. PICK k : k = Replace(SetParent(n, f, n[x].parent), x, f)
  OBVIOUS
<1>5. CutOut(n, k, x, f)
  BY <1>3, <1>4, <1>x, CutOutIs
<1>6. Tree(k, U \ {x}, [z \in Slots |-> D[z] \ {x}])
  BY <1>5, <1>f, <1>x, CutOutTree
<1>m. PICK m : m = CutInner(n, e, x).n
  OBVIOUS
<1>l. PICK l \in U : l = n[e].left
  <2>1. \A t \in Sides : n[e][t] # Head0 => n[e][t] \in U
    BY <1>n DEF NearBy
  <2> QED
    BY <2>1, <1>s
<1>r. PICK r \in U : r = n[e].right
  <2>1. \A t \in Sides : n[e][t] # Head0 => n[e][t] \in U
    BY <1>n DEF NearBy
  <2> QED
    BY <2>1, <1>s
<1>q. PICK q \in U : /\ q = n[x].parent /\ (x = r => q = e)
                     /\ (x # r => q # e /\ q # x /\ n[q].left = x)
  BY <1>1, <1>r DEF Successor
<1>w. /\ \A z \in U, t \in Sides : n[z][t] # Head0 => n[z][t] \in U /\ n[n[z][t]].parent = z
      /\ \A z \in U : IF z = Root(n) THEN n[z].parent = Head0
                      ELSE n[z].parent \in U /\ \E t \in Sides : n[n[z].parent][t] = z
  BY DEF Tree, Links
<1>k. /\ k \in Pool /\ Root(k) = Root(n)
      /\ \A z \in Slots : k[z].key = n[z].key
      /\ \A z \in U : k[z].parent = IF z = f THEN q ELSE n[z].parent
      /\ \A z \in U, t \in Sides : k[z][t] = IF n[z][t] = x THEN f ELSE n[z][t]
  <2>1. /\ k \in Pool /\ Root(k) = Root(n)
        /\ \A z \in Slots : k[z].key = n[z].key
        /\ \A z \in U : k[z].parent = IF z = f THEN q ELSE n[z].parent
        /\ \A z \in U, t \in Sides : k[z][t] = IF z = q /\ n[z][t] = x THEN f ELSE n[z][t]
    BY <1>5, <1>x, <1>q, <1>a DEF CutOut
  <2>2. \A z \in U, t \in Sides : n[z][t] = x => z = q
    BY <1>w, <1>x, <1>q, <1>a
  <2> QED
    BY <2>1, <2>2
<1>i. /\ m \in Pool
      /\ \A z \in Slots : m[z].key = n[z].key
      /\ \A z \in Slots : m[z].red = IF z = x THEN n[e].red ELSE n[z].red
      /\ Root(m) = IF e = Root(n) THEN x ELSE Root(n)
      /\ \A t \in Sides : m[Head0][t] = n[Head0][t]
      /\ \A z \in U : m[z].parent = IF z = x THEN n[e].parent ELSE IF z \in {l, r} THEN x
                                    ELSE IF z = f /\ x # r THEN q ELSE n[z].parent
      /\ \A z \in U : m[z].left = IF z = x THEN l ELSE IF z = q /\ x # r THEN f
                                  ELSE IF e # Root(n) /\ z = n[e].parent /\ n[z].left = e THEN x ELSE n[z].left
      /\ \A z \in U : m[z].right = IF z = x /\ x # r THEN r
                                   ELSE IF e # Root(n) /\ z = n[e].parent /\ n[z].right = e THEN x ELSE n[z].right
  BY <1>2, <1>m, <1>l, <1>r, <1>q, <1>f, <1>a DEF Inside
<1>e. \A z \in U : /\ n[z].left = e => e # Root(n) /\ z = n[e].parent
                   /\ n[z].right = e => e # Root(n) /\ z = n[e].parent
  <2>1. ASSUME NEW z \in U, NEW t \in Sides, n[z][t] = e PROVE e # Root(n) /\ z = n[e].parent
    <3>1. n[e].parent = z /\ n[e].parent # Head0
      BY <2>1, <1>w, <1>a
    <3> QED
      BY <3>1, <1>w
  <2> QED
    BY <2>1, <1>s
\* The children and the parent of e.
<1>c. /\ n[l].parent = e /\ n[r].parent = e /\ l # e /\ r # e /\ x # l
      /\ \A z \in U : n[z].parent = e => z \in {l, r}
  <2>1. n[l].parent = e /\ n[r].parent = e
    BY <1>w, <1>l, <1>r, <1>s, <1>a
  <2>2. l # e /\ r # e
    <3>1. \A t \in Sides : n[e][t] # e
      BY <1>n DEF NearBy
    <3> QED
      BY <3>1, <1>l, <1>r, <1>s
  <2>3. x # l
    <3>1. l # r
      <4>1. \A t \in Sides : n[e][t] = n[e][Other(t)] => n[e][t] = Head0
        BY <1>n, Zenon DEF NearBy
      <4> QED
        BY <4>1, <1>l, <1>r, <1>a, SideFacts
    <3>2. x = l => n[x].parent = e
      BY <2>1
    <3> QED
      BY <3>1, <3>2, <1>q
  <2>4. ASSUME NEW z \in U, n[z].parent = e PROVE z \in {l, r}
    <3>1. z # Root(n)
      BY <2>4, <1>w, <1>a
    <3> QED
      BY <2>4, <3>1, <1>w, <1>l, <1>r, <1>s
  <2> QED
    BY <2>1, <2>2, <2>3, <2>4
<1>7. Renamed(k, m, U \ {x}, e, x)
  <2>0. f # e /\ (f # Head0 => f \in U /\ n[f].parent = x)
    <3>1. ASSUME f = e PROVE FALSE
      <4>1. n[e].parent = x /\ x # Head0
        BY <1>3, <1>a, <1>x, <3>1
      <4>2. Hung(n, U, D, e)
        BY HungIs
      <4>3. x \notin D[e]
        BY <4>1, <4>2 DEF Hung
      <4>4. x \in D[n[e].right]
        BY <1>1 DEF Successor
      <4>5. x \in D[e]
        BY <4>4, <1>s, Through
      <4> QED
        BY <4>3, <4>5
    <3> QED
      BY <3>1, <1>3
  <2>1. Root(m) = IF Root(k) = e THEN x ELSE Root(k)
    BY <1>i, <1>k
  <2>2. m[x].parent = k[e].parent
    BY <1>i, <1>k, <1>x, <2>0
  <2>3. m[x].left = k[e].left /\ m[x].right = k[e].right
    <3>1. m[x].left = l /\ k[e].left = l
      BY <1>i, <1>k, <1>x, <1>l, <1>c, <1>s
    <3>2. CASE x = r
      <4>1. k[e].right = f
        BY <1>k, <1>r, <1>s, <3>2
      <4>2. n[x].right # e
        BY <1>f, <2>0
      <4>3. m[x].right = n[x].right
        BY <1>i, <1>x, <3>2, <4>2
      <4> QED
        BY <3>1, <4>1, <4>3, <1>f
    <3>3. CASE x # r
      <4>1. k[e].right = r
        BY <1>k, <1>r, <1>s, <3>3
      <4>2. m[x].right = r
        BY <1>i, <1>x, <3>3
      <4> QED
        BY <3>1, <4>1, <4>2
    <3> QED
      BY <3>2, <3>3
  <2>4. ASSUME NEW z \in (U \ {x}) \ {e}
        PROVE  m[z].parent = IF k[z].parent = e THEN x ELSE k[z].parent
    <3>1. z \in U /\ z # x /\ z # e
      OBVIOUS
    <3>2. CASE z \in {l, r}
      <4>1. z # f
        BY <2>0, <3>2, <1>c, <1>x, <1>a
      <4> QED
        BY <1>i, <1>k, <1>c, <3>1, <3>2, <4>1
    <3>3. CASE z \notin {l, r} /\ z = f
      <4>1. n[z].parent = x /\ k[z].parent = q
        BY <1>k, <2>0, <3>1, <3>3, <1>a
      <4>2. CASE x = r
        <5>1. m[z].parent = n[z].parent /\ q = e
          BY <1>i, <1>q, <3>1, <3>3, <4>2
        <5> QED
          BY <4>1, <5>1
      <4>3. CASE x # r
        <5>1. m[z].parent = q /\ q # e
          BY <1>i, <1>q, <3>1, <3>3, <4>3
        <5> QED
          BY <4>1, <5>1
      <4> QED
        BY <4>2, <4>3
    <3>4. CASE z \notin {l, r} /\ z # f
      BY <1>i, <1>k, <1>c, <3>1, <3>4
    <3> QED
      BY <3>2, <3>3, <3>4
  <2>5. ASSUME NEW z \in (U \ {x}) \ {e}
        PROVE  /\ m[z].left = IF k[z].left = e THEN x ELSE k[z].left
               /\ m[z].right = IF k[z].right = e THEN x ELSE k[z].right
    <3>1. z \in U /\ z # x /\ z # e
      OBVIOUS
    <3>2. /\ k[z].left = (IF n[z].left = x THEN f ELSE n[z].left)
          /\ k[z].right = (IF n[z].right = x THEN f ELSE n[z].right)
      BY <1>k, <1>s, <3>1
    <3>3. n[z].left = x => z = q
      BY <1>w, <1>q, <1>s, <1>x, <1>a, <3>1
    <3>4. n[z].right # x
      <4>1. ASSUME n[z].right = x PROVE FALSE
        <5>1. z = q
          BY <1>w, <1>q, <1>s, <1>x, <1>a, <3>1, <4>1
        <5>2. x # r
          BY <1>q, <3>1, <5>1
        <5>3. n[q].left = n[q].right
          BY <1>q, <4>1, <5>1, <5>2
        <5>4. \A t \in Sides : n[q][t] = n[q][Other(t)] => n[q][t] = Head0
          BY <1>n, ZenonT(40) DEF NearBy
        <5> QED
          BY <1>x, <1>a, <4>1, <5>1, <5>3, <5>4, SideFacts
      <4> QED
        BY <4>1
    <3>5. m[z].right = IF k[z].right = e THEN x ELSE k[z].right
      BY <1>i, <1>e, <3>1, <3>2, <3>4
    <3>6. CASE n[z].left = x
      <4>1. z = q /\ x # r
        BY <1>q, <3>1, <3>3, <3>6
      <4>2. m[z].left = f /\ k[z].left = f
        BY <1>i, <3>1, <3>2, <3>6, <4>1
      <4> QED
        BY <2>0, <3>5, <4>2
    <3>7. CASE n[z].left # x
      <4>1. ~(z = q /\ x # r)
        BY <1>q, <3>7
      <4>2. m[z].left = IF n[z].left = e THEN x ELSE n[z].left
        BY <1>i, <1>e, <3>1, <4>1
      <4> QED
        BY <3>2, <3>5, <3>7, <4>2
    <3> QED
      BY <3>6, <3>7
  <2>6. \A z \in Slots : m[z].key = k[z].key
    BY <1>i, <1>k
  <2>7. \A t \in Sides : m[x][t] = k[e][t]
    BY <2>3, <1>s
  <2>8. \A z \in (U \ {x}) \ {e}, t \in Sides : m[z][t] = IF k[z][t] = e THEN x ELSE k[z][t]
    BY <2>5, <1>s
  <2> QED
    BY <2>1, <2>2, <2>4, <2>6, <2>7, <2>8, <1>i DEF Renamed
<1>8. \E E : Tree(m, U \ {e}, E)
  <2>1. PICK V : V = U \ {x}
    OBVIOUS
  <2>2. e \in V /\ x \in Nodes \ V /\ Renamed(k, m, V, e, x) /\ Tree(k, V, [z \in Slots |-> D[z] \ {x}])
    BY <2>1, <1>6, <1>7, <1>x, <1>a
  <2>3. \A z \in V \ {e}, t \in Sides : Before(t, k[e].key, k[z].key) => Before(t, k[x].key, k[z].key)
    BY <1>1, <1>k, <1>a, <1>x, <2>1 DEF Successor
  <2>4. \E E : Tree(m, (V \ {e}) \cup {x}, E)
    BY <2>2, <2>3, RenameTree
  <2>5. (V \ {e}) \cup {x} = U \ {e}
    BY <2>1, <1>x
  <2> QED
    BY <2>4, <2>5
<1>9. Outers(m, U \ {e})
  <2>1. \A t \in Sides : n[e][t] # Head0
    BY <1>s
  <2>2. \A t \in Sides : n[Head0][t] # e
    BY <2>1, NotOutermost
  <2>3. ASSUME NEW t \in Sides PROVE Utmost(m, U \ {e}, m[Head0][t], t)
    <3>1. Utmost(n, U, n[Head0][t], t) /\ n[Head0][t] # e
      BY <2>2 DEF Outers
    <3>2. \A z \in U : m[z].key = n[z].key
      BY <1>i, <1>a
    <3> QED
      BY <1>i, <3>1, <3>2 DEF Utmost
  <2>4. U \ {e} # {}
    BY <1>x
  <2> QED
    BY <2>3, <2>4 DEF Outers
<1>10. /\ CutInner(n, e, x).fix = f /\ CutInner(n, e, x).black = ~n[x].red
       /\ CutInner(n, e, x).above = IF x = r THEN x ELSE q
  BY <1>f, <1>q, <1>r DEF CutInner
<1>11. (IF x = r THEN x ELSE q) = IF n[x].parent = e THEN x ELSE n[x].parent
  BY <1>q
<1> QED
  BY <1>1, <1>5, <1>6, <1>7, <1>8, <1>9, <1>10, <1>11, <1>f, <1>i, <1>m DEF InnerCut

-----------------------------------------------------------------------------
(* Painting and turning *)

\* m is n but for colors.
Redone(n, m) ==
  /\ n \in Pool /\ m \in Pool
  /\ \A z \in Slots : /\ m[z].parent = n[z].parent /\ m[z].key = n[z].key
                      /\ \A t \in Sides : m[z][t] = n[z][t]

\* Two nodes, and three, are painted; the last one counts.
Red2(n, m, a, u, b, v) ==
  /\ Redone(n, m)
  /\ \A z \in Slots : m[z].red = IF z = b THEN v ELSE IF z = a THEN u ELSE n[z].red

Red3(n, m, a, u, b, v, c, w) ==
  /\ Redone(n, m)
  /\ \A z \in Slots : m[z].red = IF z = c THEN w ELSE IF z = b THEN v ELSE IF z = a THEN u ELSE n[z].red

LEMMA Red1Is ==
  ASSUME NEW n \in Pool, NEW a \in Slots, NEW u \in BOOLEAN
  PROVE  /\ Redone(n, Paint(n, a, u))
         /\ \A z \in Slots : Paint(n, a, u)[z].red = IF z = a THEN u ELSE n[z].red
BY Painted DEF RedSet, Redone

LEMMA Red2Is ==
  ASSUME NEW n \in Pool, NEW a \in Slots, NEW u \in BOOLEAN, NEW b \in Slots, NEW v \in BOOLEAN
  PROVE  Red2(n, Paint(Paint(n, a, u), b, v), a, u, b, v)
<1>1. PICK k : k = Paint(n, a, u)
  OBVIOUS
<1>2. RedSet(n, k, a, u)
  BY <1>1, Painted
<1>p. k \in Pool
  BY <1>2 DEF RedSet
<1>3. RedSet(k, Paint(k, b, v), b, v)
  BY <1>p, Painted
<1> QED
  BY <1>1, <1>2, <1>3 DEF RedSet, Redone, Red2

LEMMA Red3Is ==
  ASSUME NEW n \in Pool, NEW a \in Slots, NEW u \in BOOLEAN, NEW b \in Slots, NEW v \in BOOLEAN,
         NEW c \in Slots, NEW w \in BOOLEAN
  PROVE  Red3(n, Paint(Paint(Paint(n, a, u), b, v), c, w), a, u, b, v, c, w)
<1>1. PICK k : k = Paint(Paint(n, a, u), b, v)
  OBVIOUS
<1>2. Red2(n, k, a, u, b, v)
  BY <1>1, Red2Is
<1>p. k \in Pool
  BY <1>2 DEF Red2, Redone
<1>3. RedSet(k, Paint(k, c, w), c, w)
  BY <1>p, Painted
<1> QED
  BY <1>1, <1>2, <1>3 DEF RedSet, Redone, Red2, Red3

\* Painting leaves a tree.
LEMMA RedoneTree ==
  ASSUME NEW n, NEW U, NEW D, Tree(n, U, D), NEW m, Redone(n, m)
  PROVE  /\ Tree(m, U, D) /\ Root(m) = Root(n)
         /\ Outers(n, U) => Outers(m, U)
<1>1. Root(m) = Root(n) /\ U \in SUBSET Slots
  BY RootFacts, SlotFacts DEF Redone, Root
<1>2. Alike(n, m, U)
  BY <1>1 DEF Alike, Redone
<1>3. Tree(m, U, D)
  BY <1>2, AlikeTree
<1>4. \A t \in Sides : m[Head0][t] = n[Head0][t]
  BY SlotFacts DEF Redone
<1>5. \A z \in U : m[z].key = n[z].key
  BY <1>1 DEF Redone
<1>6. Outers(n, U) => Outers(m, U)
  BY <1>4, <1>5, SMTT(30) DEF Outers, Utmost
<1> QED
  BY <1>1, <1>3, <1>6

\* A rotation around x, seen from n, with y = n[x][Other(s)].
Spun(n, m, U, D, E, x, s, y) ==
  /\ Tree(m, U, E) /\ \A z \in Slots \ {x, y} : E[z] = D[z]
  /\ \A z \in Slots : m[z].key = n[z].key
  /\ \A t \in Sides : m[Head0][t] = n[Head0][t]
  /\ Root(m) = IF x = Root(n) THEN y ELSE Root(n)
  /\ m[y].parent = n[x].parent /\ m[x].parent = y
  /\ \A z \in Nodes \ {x, y, n[y][s]} : m[z].parent = n[z].parent
  /\ m[x][Other(s)] = n[y][s] /\ m[x][s] = n[x][s]
  /\ m[y][s] = x /\ m[y][Other(s)] = n[y][Other(s)]
  /\ \A z \in U \ {x, y}, t \in Sides : n[z][t] # y /\ m[z][t] = IF n[z][t] = x THEN y ELSE n[z][t]
  /\ Outers(n, U) => Outers(m, U)

\* So does painting with a rotation.
LEMMA SpunIs ==
  ASSUME NEW n, NEW U, NEW D, Tree(n, U, D), NEW k, Redone(n, k),
         NEW x \in U, NEW s \in Sides, NEW y, y = n[x][Other(s)], y # Head0
  PROVE  /\ \E E : Spun(n, Rotate(k, x, s), U, D, E, x, s, y)
         /\ \A z \in Slots : Rotate(k, x, s)[z].red = k[z].red
<1>m. PICK m : m = Rotate(k, x, s)
  OBVIOUS
<1>o. PICK o : o = Other(s) /\ o \in Sides /\ o # s /\ \A t \in Sides : t = s \/ t = o
  BY SideFacts
<1>a. /\ U \in SUBSET Nodes /\ n \in Pool /\ Head0 \notin Nodes /\ \A z \in U : z \in Slots /\ z # Head0
      /\ Head0 \in Slots /\ \A z \in Nodes : z \in Slots
  BY RootFacts, SlotFacts
<1>k. Tree(k, U, D) /\ Root(k) = Root(n)
  BY RedoneTree
<1>s. \A z \in Slots : k[z].parent = n[z].parent /\ k[z].key = n[z].key /\ \A t \in Sides : k[z][t] = n[z][t]
  BY DEF Redone
<1>y. y \in U /\ y # x
  <2>1. NearBy(n, U, D, x)
    BY Near
  <2> QED
    BY <2>1, <1>o DEF NearBy
<1>c. k[x][Other(s)] = y /\ k[y][s] = n[y][s] /\ k[x].parent = n[x].parent
  BY <1>s, <1>y, <1>a, <1>o
<1>1. PICK E : RotatedTree(k, m, U, D, E, x, s)
  BY <1>m, <1>k, <1>c, RotateTree
<1>2. Rotated(k, m, x, s, y, n[y][s], n[x].parent) /\ Tree(m, U, E) /\ \A z \in Slots \ {x, y} : E[z] = D[z]
  BY <1>1, <1>c DEF RotatedTree
<1>3. /\ \A z \in Slots : m[z].key = n[z].key /\ m[z].red = k[z].red
      /\ \A t \in Sides : m[Head0][t] = n[Head0][t]
      /\ Root(m) = IF x = Root(n) THEN y ELSE Root(n)
      /\ m[x][o] = n[y][s] /\ m[x][s] = n[x][s]
      /\ m[y][s] = x /\ m[y][o] = n[y][o]
  BY <1>2, <1>s, <1>k, <1>o, <1>a, <1>y DEF Rotated
<1>4. /\ m[y].parent = n[x].parent /\ m[x].parent = y
      /\ \A z \in Nodes \ {x, y, n[y][s]} : m[z].parent = n[z].parent
  BY <1>2, <1>s, <1>a, <1>y DEF Rotated
<1>5. ASSUME NEW z \in U \ {x, y}, NEW t \in Sides
      PROVE  n[z][t] # y /\ m[z][t] = IF n[z][t] = x THEN y ELSE n[z][t]
  <2>1. \A w \in U, g \in Sides : n[w][g] # Head0 => n[n[w][g]].parent = w
    BY DEF Tree, Links
  <2>2. n[y].parent = x
    BY <2>1, <1>o, <1>y
  <2>3. n[z][t] # y
    BY <2>1, <2>2, <1>y, <1>a
  <2>4. m[z][t] = IF x # Root(n) /\ z = n[x].parent /\ n[z][t] = x THEN y ELSE n[z][t]
    <3>1. m[z][t] = IF x # Root(k) /\ z = n[x].parent /\ k[n[x].parent][t] = x THEN y ELSE k[z][t]
      BY <1>2, <1>a DEF Rotated
    <3> QED
      BY <3>1, <1>k, <1>s, <1>a
  <2>5. n[z][t] = x => z = n[x].parent
    BY <2>1, <1>a
  <2>6. x = Root(n) => n[x].parent = Head0
    BY DEF Tree, Links
  <2> QED
    BY <2>3, <2>4, <2>5, <2>6, <1>a
<1>6. Outers(n, U) => Outers(m, U)
  BY <1>3, <1>a DEF Outers, Utmost
<1> QED
  BY <1>2, <1>3, <1>4, <1>5, <1>6, <1>m, <1>o DEF Spun

-----------------------------------------------------------------------------
(* Colors and black heights *)

\* h[z] are the black nodes on a way from z down to nil, nil included.  At side g
\* of q one is missing.
Even(n, h, q, g, z) ==
  \A t \in Sides : h[z] = h[n[z][t]] + (IF z = q /\ t = g THEN 1 ELSE 0) + (IF n[z].red THEN 0 ELSE 1)

\* The ways through side g of q lack a black node; none does if q is the head.
Colored(n, U, h, q, g) ==
  /\ h \in [Slots -> Nat \ {0}] /\ h[Head0] = 1 /\ ~n[Head0].red
  /\ \A z \in U : Even(n, h, q, g, z)

\* z is not red above a red node other than b.
Calm(n, z, b) == \A t \in Sides : n[z].red /\ n[n[z][t]].red => n[z][t] = b

\* y has the color of x, and x is red.
Swapped(n, m, x, y) ==
  \A z \in Slots : m[z].red = IF z = x THEN TRUE ELSE IF z = y THEN n[x].red ELSE n[z].red

\* The children that the lower node of a rotation will have.
BlackBelow(n, x, s, y) == ~n[x].red /\ ~n[n[x][s]].red /\ ~n[n[y][s]].red

\* The only red pairs are those with b below.
AllCalm(n, U, b) == \A z \in U : Calm(n, z, b)

\* A rotation that brings a red child up and exchanges the colors keeps the
\* number of black nodes on every way.
LEMMA SpunColors ==
  ASSUME NEW n, NEW U, NEW D, Tree(n, U, D), NEW m, NEW E, NEW x \in U, NEW s \in Sides,
         NEW y \in U, y = n[x][Other(s)], Spun(n, m, U, D, E, x, s, y), n[y].red,
         Swapped(n, m, x, y),
         NEW h, NEW q \in Slots, NEW g \in Sides, Colored(n, U, h, q, g),
         q # y, q = x => g = s
  PROVE  Colored(m, U, [h EXCEPT ![x] = h[y], ![y] = h[x]], q, g)
<1>k. PICK k : k = [h EXCEPT ![x] = h[y], ![y] = h[x]]
  OBVIOUS
<1>o. PICK o : o = Other(s) /\ o \in Sides /\ o # s /\ \A t \in Sides : t = s \/ t = o
  BY SideFacts
<1>a. /\ U \in SUBSET Nodes /\ Head0 \notin U /\ Head0 \in Slots /\ \A z \in U : z \in Slots /\ z # Head0
      /\ h \in [Slots -> Nat \ {0}]
  BY RootFacts, SlotFacts DEF Colored
<1>y. y # x
  <2>1. NearBy(n, U, D, x)
    BY Near
  <2> QED
    BY <2>1, <1>o DEF NearBy
<1>t. \A z \in U, t \in Sides : n[z][t] \in Slots
  BY <1>a, PoolFacts DEF Tree, Links
<1>h. /\ k \in [Slots -> Nat \ {0}] /\ k[x] = h[y] /\ k[y] = h[x]
      /\ \A z \in Slots : z # x /\ z # y => k[z] = h[z]
  BY <1>k, <1>a, <1>y
<1>s. /\ m[x][o] = n[y][s] /\ m[x][s] = n[x][s] /\ m[y][s] = x /\ m[y][o] = n[y][o]
      /\ \A z \in U \ {x, y}, t \in Sides : n[z][t] # y /\ m[z][t] = IF n[z][t] = x THEN y ELSE n[z][t]
  BY <1>o DEF Spun
<1>e. \A z \in U, t \in Sides :
        h[z] = h[n[z][t]] + (IF z = q /\ t = g THEN 1 ELSE 0) + (IF n[z].red THEN 0 ELSE 1)
  BY DEF Colored, Even
<1>c. n[y][s] # x /\ n[y][s] # y /\ n[y][o] # x /\ n[y][o] # y /\ n[x][s] # x /\ n[x][s] # y
  <2>1. NearBy(n, U, D, x) /\ NearBy(n, U, D, y)
    BY Near
  <2>2. n[x][s] # x /\ n[y][s] # y /\ n[y][o] # y
    BY <2>1, <1>o DEF NearBy
  <2>3. n[x][s] # y
    <3>1. n[x][s] = n[x][Other(s)] => n[x][s] = Head0
      BY <2>1 DEF NearBy
    <3> QED
      BY <3>1, <1>a
  <2>4. x \notin D[y]
    <3>1. x \notin D[n[x][o]]
      BY <2>1, <1>o DEF NearBy
    <3> QED
      BY <3>1, <1>o
  <2>5. \A t \in Sides : n[y][t] # x
    <3>1. \A t \in Sides : n[y][t] # Head0 => n[y][t] \in D[n[y][t]] /\ D[n[y][t]] \in SUBSET D[y]
      BY <2>1 DEF NearBy
    <3> QED
      BY <2>4, <3>1, <1>a
  <2> QED
    BY <2>2, <2>3, <2>5, <1>o
<1>1. m[x].red /\ (m[y].red <=> n[x].red) /\ \A z \in U \ {x, y} : m[z].red <=> n[z].red
  BY <1>y, <1>a DEF Swapped
<1>2. ASSUME NEW z \in U \ {x, y} PROVE Even(m, k, q, g, z)
  <2>1. ASSUME NEW t \in Sides PROVE k[m[z][t]] = h[n[z][t]]
    <3>1. CASE n[z][t] = x
      BY <1>s, <1>h, <3>1
    <3>2. CASE n[z][t] # x
      BY <1>s, <1>h, <1>t, <3>2
    <3> QED
      BY <3>1, <3>2
  <2>2. k[z] = h[z] /\ (m[z].red <=> n[z].red)
    BY <1>h, <1>1, <1>a
  <2> QED
    BY <2>1, <2>2, <1>e DEF Even
<1>3. h[x] = h[y] + (IF n[x].red THEN 0 ELSE 1)
  <2>1. h[x] = h[n[x][o]] + (IF x = q /\ o = g THEN 1 ELSE 0) + (IF n[x].red THEN 0 ELSE 1)
    BY <1>e, <1>o
  <2>2. ~(x = q /\ o = g) /\ n[x][o] = y
    BY <1>o
  <2> QED
    BY <2>1, <2>2, <1>a
<1>4. h[y] = h[n[y][s]] /\ h[y] = h[n[y][o]]
  <2>1. /\ h[y] = h[n[y][s]] + (IF y = q /\ s = g THEN 1 ELSE 0) + (IF n[y].red THEN 0 ELSE 1)
        /\ h[y] = h[n[y][o]] + (IF y = q /\ o = g THEN 1 ELSE 0) + (IF n[y].red THEN 0 ELSE 1)
    BY <1>e, <1>o
  <2>2. h[n[y][s]] \in Nat /\ h[n[y][o]] \in Nat /\ y # q
    BY <1>a, <1>t, <1>o
  <2> QED
    BY <2>1, <2>2
<1>5. h[y] = h[n[x][s]] + (IF x = q /\ s = g THEN 1 ELSE 0)
  <2>1. h[x] = h[n[x][s]] + (IF x = q /\ s = g THEN 1 ELSE 0) + (IF n[x].red THEN 0 ELSE 1)
    BY <1>e, <1>o
  <2>2. h[n[x][s]] \in Nat /\ h[y] \in Nat
    BY <1>a, <1>t, <1>o
  <2> QED
    BY <2>1, <2>2, <1>3
<1>6. Even(m, k, q, g, x)
  <2>1. k[m[x][s]] = h[n[x][s]] /\ k[m[x][o]] = h[n[y][s]]
    BY <1>s, <1>h, <1>t, <1>c
  <2>2. k[x] = k[m[x][s]] + (IF x = q /\ s = g THEN 1 ELSE 0) + (IF m[x].red THEN 0 ELSE 1)
    <3>1. h[n[x][s]] \in Nat
      BY <1>a, <1>t
    <3> QED
      BY <2>1, <3>1, <1>h, <1>5, <1>1
  <2>3. k[x] = k[m[x][o]] + (IF x = q /\ o = g THEN 1 ELSE 0) + (IF m[x].red THEN 0 ELSE 1)
    <3>1. h[n[y][s]] \in Nat /\ ~(x = q /\ o = g)
      BY <1>a, <1>t, <1>o
    <3> QED
      BY <2>1, <3>1, <1>h, <1>4, <1>1
  <2> QED
    BY <2>2, <2>3, <1>o DEF Even
<1>7. Even(m, k, q, g, y)
  <2>1. k[m[y][s]] = h[y] /\ k[m[y][o]] = h[n[y][o]]
    BY <1>s, <1>h, <1>t, <1>c, <1>o
  <2>2. k[y] = h[y] + (IF n[x].red THEN 0 ELSE 1)
    BY <1>h, <1>3
  <2>3. h[y] \in Nat /\ y # q
    BY <1>a
  <2>4. k[y] = k[m[y][s]] + 0 + (IF m[y].red THEN 0 ELSE 1)
    BY <2>1, <2>2, <2>3, <1>1
  <2>5. k[y] = k[m[y][o]] + 0 + (IF m[y].red THEN 0 ELSE 1)
    BY <2>1, <2>2, <2>3, <1>1, <1>4
  <2> QED
    BY <2>3, <2>4, <2>5, <1>o DEF Even
<1>8. k[Head0] = 1 /\ ~m[Head0].red
  BY <1>h, <1>a DEF Colored, Swapped
<1> QED
  BY <1>2, <1>6, <1>7, <1>8, <1>h, <1>k DEF Colored

\* A rotation that brings a red child y of a black node x up.
Lifted(n, m, U, D, E, x, s, y) ==
  /\ Tree(n, U, D) /\ x \in U /\ y \in U /\ s \in Sides /\ y = n[x][Other(s)]
  /\ Spun(n, m, U, D, E, x, s, y) /\ n[y].red /\ BlackBelow(n, x, s, y) /\ Swapped(n, m, x, y)

\* No red pair comes up where the rotation makes the lower node red.
LEMMA SpunCalm ==
  ASSUME NEW n, NEW m, NEW U, NEW D, NEW E, NEW x, NEW s, NEW y, Lifted(n, m, U, D, E, x, s, y),
         NEW b, AllCalm(n, U, b)
  PROVE  AllCalm(m, U, b)
<1>w. /\ Tree(n, U, D) /\ x \in U /\ y \in U /\ s \in Sides /\ y = n[x][Other(s)]
      /\ Spun(n, m, U, D, E, x, s, y) /\ n[y].red /\ BlackBelow(n, x, s, y) /\ Swapped(n, m, x, y)
  BY DEF Lifted
<1>g. ~n[x].red /\ ~n[n[x][s]].red /\ ~n[n[y][s]].red
  BY <1>w DEF BlackBelow
<1>o. PICK o : o = Other(s) /\ o \in Sides /\ o # s /\ \A t \in Sides : t = s \/ t = o
  BY <1>w, SideFacts
<1>a. U \in SUBSET Nodes /\ \A z \in U : z \in Slots /\ z # Head0
  BY <1>w, RootFacts, SlotFacts
<1>y. y # x
  <2>1. NearBy(n, U, D, x)
    BY <1>w, Near
  <2> QED
    BY <2>1, <1>o, <1>w DEF NearBy
<1>t. \A z \in U, t \in Sides : n[z][t] \in Slots
  BY <1>w, <1>a, PoolFacts DEF Tree, Links
<1>s. /\ m[x][o] = n[y][s] /\ m[x][s] = n[x][s]
      /\ \A z \in U \ {x, y}, t \in Sides : n[z][t] # y /\ m[z][t] = IF n[z][t] = x THEN y ELSE n[z][t]
  BY <1>o, <1>w DEF Spun
<1>1. ~m[y].red /\ \A z \in Slots : z # x => (m[z].red => n[z].red)
  BY <1>y, <1>a, <1>g, <1>w DEF Swapped
<1>2. Calm(m, y, b)
  BY <1>1 DEF Calm
<1>3. Calm(m, x, b)
  <2>1. n[y][s] # x /\ n[x][s] # x
    <3>1. NearBy(n, U, D, x) /\ NearBy(n, U, D, y)
      BY <1>w, Near
    <3>2. x \notin D[n[x][o]]
      BY <3>1, <1>o, <1>w DEF NearBy
    <3>3. n[y][s] # Head0 => n[y][s] \in D[n[y][s]] /\ D[n[y][s]] \in SUBSET D[y]
      BY <3>1, <1>w DEF NearBy
    <3>4. n[x][s] # x
      BY <3>1, <1>w DEF NearBy
    <3> QED
      BY <3>2, <3>3, <3>4, <1>o, <1>a, <1>w
  <2>2. ~m[m[x][s]].red /\ ~m[m[x][o]].red
    BY <2>1, <1>1, <1>s, <1>t, <1>o, <1>g, <1>w
  <2> QED
    BY <2>2, <1>o DEF Calm
<1>4. ASSUME NEW z \in U \ {x, y} PROVE Calm(m, z, b)
  <2>1. ASSUME NEW t \in Sides, m[z].red, m[m[z][t]].red PROVE m[z][t] = b
    <3>1. CASE n[z][t] = x
      BY <1>1, <1>s, <2>1, <3>1
    <3>2. CASE n[z][t] # x
      <4>1. m[z][t] = n[z][t] /\ n[z][t] \in Slots /\ n[z].red /\ n[n[z][t]].red
        BY <1>1, <1>s, <1>t, <2>1, <3>2, <1>a
      <4> QED
        BY <4>1 DEF Calm, AllCalm
    <3> QED
      BY <3>1, <3>2
  <2> QED
    BY <2>1 DEF Calm
<1> QED
  BY <1>2, <1>3, <1>4, <1>w DEF AllCalm

-----------------------------------------------------------------------------
(* The balance of Insert_at *)

\* The state of the loop of Insert_at: the tree is right but for a red pair with
\* x below, and the root may be red if it is x.
Unrest(n, k, U, D, h, x) ==
  /\ Tree(n, U, D) /\ Outers(n, U) /\ \A z \in Slots : n[z].key = k[z].key
  /\ Colored(n, U, h, Head0, "left") /\ \A z \in U : Calm(n, z, x)
  /\ x \in U /\ n[x].red
  /\ n[Root(n)].red => Root(n) = x

\* x, its red parent p and its grandparent g, with p on side s and u on the other.
Kin(n, U, x, p, g, s) ==
  /\ p \in U /\ g \in U /\ p # x /\ g # x /\ g # p /\ n[x].parent = p /\ n[p].parent = g
  /\ n[p].red /\ ~n[g].red /\ n[g][s] = p
  /\ \E t \in Sides : n[p][t] = x

\* The relatives a turn of Insert_at looks at are there.
LEMMA KinIs ==
  ASSUME NEW n, NEW k, NEW U, NEW D, NEW h, NEW x, Unrest(n, k, U, D, h, x), n[n[x].parent].red,
         NEW p, p = n[x].parent, NEW g, g = n[p].parent,
         NEW s, s = IF p = n[g].left THEN "left" ELSE "right"
  PROVE  s \in Sides /\ Kin(n, U, x, p, g, s) /\ x # Root(n) /\ p # Root(n)
<1>u. Tree(n, U, D) /\ x \in U /\ ~n[Head0].red /\ \A z \in U : Calm(n, z, x)
  BY DEF Unrest, Colored
<1>a. U \in SUBSET Nodes /\ \A z \in U : z \in Slots /\ z # Head0
  BY <1>u, RootFacts, SlotFacts
<1>l. /\ \A z \in U : IF z = Root(n) THEN n[z].parent = Head0
                      ELSE n[z].parent \in U /\ \E t \in Sides : n[n[z].parent][t] = z
  BY <1>u DEF Tree, Links
<1>1. x # Root(n) /\ p \in U /\ \E t \in Sides : n[p][t] = x
  BY <1>l, <1>u
<1>2. \A z \in U, t \in Sides : n[z][t] # z
  <2>1. \A z \in U : NearBy(n, U, D, z)
    BY <1>u, Near
  <2> QED
    BY <2>1 DEF NearBy
<1>3. p # x
  BY <1>1, <1>2
<1>4. p # Root(n)
  BY <1>1, <1>3 DEF Unrest
<1>5. g \in U /\ \E t \in Sides : n[g][t] = p
  BY <1>l, <1>1, <1>4
<1>6. g # p
  BY <1>5, <1>2
<1>7. s \in Sides /\ n[g][s] = p
  BY <1>5 DEF Sides
<1>8. ~n[g].red
  BY <1>5, <1>7, <1>u, <1>3 DEF Calm
<1>9. g # x
  BY <1>8 DEF Unrest
<1> QED
  BY <1>1, <1>3, <1>4, <1>5, <1>6, <1>7, <1>8, <1>9 DEF Kin

\* The outer grandchild stays; its parent comes up.
LEMMA Outward ==
  ASSUME NEW n, NEW k, NEW U, NEW D, NEW h, NEW x, Unrest(n, k, U, D, h, x),
         NEW p, NEW g, NEW s \in Sides, Kin(n, U, x, p, g, s), n[p][s] = x,
         x # Root(n), p # Root(n), ~n[n[g][Other(s)]].red,
         NEW m, m = Rotate(Paint(Paint(n, p, FALSE), g, TRUE), g, Other(s))
  PROVE  /\ ~m[m[x].parent].red
         /\ \E E, e : Unrest(m, k, U, E, e, x)
<1>o. PICK o : o = Other(s) /\ o \in Sides /\ o # s /\ Other(o) = s /\ \A t \in Sides : t = s \/ t = o
  BY SideFacts
<1>u. Tree(n, U, D) /\ x \in U /\ ~n[Head0].red /\ (\A z \in U : Calm(n, z, x)) /\ n \in Pool /\ n[x].red
      /\ Outers(n, U) /\ \A z \in Slots : n[z].key = k[z].key
  BY DEF Unrest, Colored, Tree, Links
<1>a. U \in SUBSET Nodes /\ Head0 \in Slots /\ \A z \in U : z \in Slots /\ z # Head0
  BY <1>u, RootFacts, SlotFacts
<1>k. p \in U /\ g \in U /\ p # x /\ g # x /\ g # p /\ n[x].parent = p /\ n[p].red /\ ~n[g].red /\ n[g][s] = p
  BY DEF Kin
<1>b. n[p].red = TRUE /\ n[g].red = FALSE /\ \A z \in Slots : n[z].red \in BOOLEAN
  BY <1>k, <1>u, <1>a, PoolFacts
<1>q. o \in Sides
  BY <1>o
<1>n. PICK j : j = Paint(Paint(n, p, FALSE), g, TRUE)
  OBVIOUS
<1>1. Red2(n, j, p, FALSE, g, TRUE)
  BY <1>n, <1>u, <1>k, <1>a, Red2Is
<1>2. Redone(n, j) /\ \A z \in Slots : j[z].red = IF z = g THEN TRUE ELSE IF z = p THEN n[g].red ELSE n[z].red
  BY <1>1, <1>b DEF Red2
<1>3. (\E E : Spun(n, Rotate(j, g, o), U, D, E, g, o, p)) /\ \A z \in Slots : Rotate(j, g, o)[z].red = j[z].red
  <2>1. p = n[g][Other(o)] /\ p # Head0
    BY <1>o, <1>k, <1>a
  <2> QED
    BY <1>u, <1>2, <1>k, <1>o, <2>1, SpunIs
<1>4. m = Rotate(j, g, o)
  BY <1>n, <1>o
<1>5. PICK E : Spun(n, m, U, D, E, g, o, p)
  BY <1>3, <1>4
<1>r. \A z \in Slots : m[z].red = IF z = g THEN TRUE ELSE IF z = p THEN n[g].red ELSE n[z].red
  BY <1>3, <1>4, <1>2
<1>w. Swapped(n, m, g, p)
  BY <1>r DEF Swapped
<1>6. PICK e : Colored(m, U, e, Head0, "left")
  <2>1. Colored(n, U, h, Head0, "left") /\ "left" \in Sides /\ Head0 # p /\ Head0 # g /\ p = n[g][Other(o)]
    BY <1>a, <1>k, <1>o, SideFacts DEF Unrest
  <2>2. Colored(m, U, [h EXCEPT ![g] = h[p], ![p] = h[g]], Head0, "left")
    <3>1. n[p].red /\ g \in U /\ p \in U /\ Tree(n, U, D) /\ Head0 \in Slots
      BY <1>u, <1>k, <1>a
    <3> QED
      BY <2>1, <3>1, <1>q, <1>5, <1>w, SpunColors
  <2> QED
    BY <2>2
<1>7. ~n[n[g][o]].red /\ ~n[n[p][o]].red
  <2>1. n[p][o] # x
    <3>1. NearBy(n, U, D, p)
      BY <1>u, <1>k, Near
    <3>2. n[p][s] = n[p][Other(s)] => n[p][s] = Head0
      BY <3>1 DEF NearBy
    <3> QED
      BY <3>2, <1>o, <1>u, <1>a
  <2> QED
    BY <2>1, <1>u, <1>k, <1>o DEF Calm
<1>8. \A z \in U : Calm(m, z, x)
  <2>1. p = n[g][Other(o)]
    BY <1>o, <1>k
  <2> QED
    <3>1. n[p].red /\ g \in U /\ p \in U /\ Tree(n, U, D) /\ AllCalm(n, U, x)
      BY <1>u, <1>k, <1>a DEF AllCalm
    <3>3. BlackBelow(n, g, o, p)
      BY <1>k, <1>7 DEF BlackBelow
    <3>4. Lifted(n, m, U, D, E, g, o, p)
      BY <2>1, <3>1, <1>q, <1>5, <1>w, <3>3 DEF Lifted
    <3>2. AllCalm(m, U, x)
      BY <3>1, <3>4, SpunCalm
    <3> QED
      BY <3>2 DEF AllCalm
<1>9. Tree(m, U, E) /\ Outers(m, U) /\ \A z \in Slots : m[z].key = k[z].key
  BY <1>5, <1>u DEF Spun
<1>10. m[x].red
  BY <1>r, <1>u, <1>k, <1>a
<1>11. ~m[Root(m)].red
  <2>1. Root(m) = IF g = Root(n) THEN p ELSE Root(n)
    BY <1>5 DEF Spun
  <2>2. Root(n) \in Slots /\ (g # Root(n) => ~n[Root(n)].red)
    BY <1>u, <1>k, RootFacts DEF Unrest
  <2> QED
    BY <2>1, <2>2, <1>r, <1>k, <1>a
<1>12. m[x].parent = p
  <2>1. x # n[p][o]
    BY <1>7, <1>u
  <2>2. \A z \in Nodes \ {g, p, n[p][o]} : m[z].parent = n[z].parent
    BY <1>5 DEF Spun
  <2> QED
    BY <2>1, <2>2, <1>u, <1>k, <1>a
<1>13. ~m[p].red
  BY <1>r, <1>k, <1>a
<1>14. Unrest(m, k, U, E, e, x)
  BY <1>6, <1>8, <1>9, <1>10, <1>11, <1>u DEF Unrest
<1> QED
  BY <1>12, <1>13, <1>14

\* The inner grandchild comes up, and its parent is the outer one then.
LEMMA Inward ==
  ASSUME NEW n, NEW k, NEW U, NEW D, NEW h, NEW x, Unrest(n, k, U, D, h, x),
         NEW p, NEW g, NEW s \in Sides, Kin(n, U, x, p, g, s), n[p][Other(s)] = x,
         x # Root(n), p # Root(n), ~n[n[g][Other(s)]].red,
         NEW m, m = Rotate(n, p, s)
  PROVE  /\ Kin(m, U, p, x, g, s) /\ m[x][s] = p /\ p # Root(m) /\ x # Root(m)
         /\ ~m[m[g][Other(s)]].red
         /\ \E E, e : Unrest(m, k, U, E, e, p)
<1>o. PICK o : o = Other(s) /\ o \in Sides /\ o # s /\ Other(o) = s /\ \A t \in Sides : t = s \/ t = o
  BY SideFacts
<1>u. Tree(n, U, D) /\ x \in U /\ ~n[Head0].red /\ (\A z \in U : Calm(n, z, x)) /\ n \in Pool /\ n[x].red
      /\ Outers(n, U) /\ \A z \in Slots : n[z].key = k[z].key
  BY DEF Unrest, Colored, Tree, Links
<1>a. U \in SUBSET Nodes /\ Head0 \in Slots /\ \A z \in U : z \in Slots /\ z # Head0
  BY <1>u, RootFacts, SlotFacts
<1>k. p \in U /\ g \in U /\ p # x /\ g # x /\ g # p /\ n[x].parent = p /\ n[p].parent = g
      /\ n[p].red /\ ~n[g].red /\ n[g][s] = p
  BY DEF Kin
<1>t. \A z \in U, t \in Sides : n[z][t] \in Slots
  BY <1>a, <1>u, PoolFacts
<1>b. n[p].red = TRUE /\ n[x].red = TRUE
  BY <1>k, <1>u, <1>a, PoolFacts
<1>2. Redone(n, n)
  BY <1>u DEF Redone
<1>3. (\E E : Spun(n, m, U, D, E, p, s, x)) /\ \A z \in Slots : m[z].red = n[z].red
  BY <1>u, <1>2, <1>k, <1>a, SpunIs
<1>5. PICK E : Spun(n, m, U, D, E, p, s, x)
  BY <1>3
<1>r. Swapped(n, m, p, x)
  BY <1>3, <1>b DEF Swapped
<1>6. PICK e : Colored(m, U, e, Head0, "left")
  <2>1. Colored(n, U, h, Head0, "left") /\ "left" \in Sides /\ Head0 # p /\ Head0 # x
    BY <1>a, <1>k, <1>u, SideFacts DEF Unrest
  <2>2. Colored(m, U, [h EXCEPT ![p] = h[x], ![x] = h[p]], Head0, "left")
    BY <2>1, <1>u, <1>k, <1>5, <1>r, <1>a, SpunColors
  <2> QED
    BY <2>2
<1>s. /\ m[p][o] = n[x][s] /\ m[p][s] = n[p][s] /\ m[x][s] = p /\ m[x][o] = n[x][o]
      /\ \A z \in U \ {p, x}, t \in Sides : n[z][t] # x /\ m[z][t] = IF n[z][t] = p THEN x ELSE n[z][t]
      /\ Root(m) = IF p = Root(n) THEN x ELSE Root(n)
      /\ m[x].parent = g /\ m[p].parent = x
  BY <1>5, <1>o, <1>k DEF Spun
\* The children of p and x but x are black.
<1>7. ~n[n[p][s]].red /\ ~n[n[x][s]].red /\ ~n[n[x][o]].red
  <2>1. \A z \in U : NearBy(n, U, D, z)
    BY <1>u, Near
  <2>2. n[p][s] # x
    <3>1. n[p][s] = n[p][Other(s)] => n[p][s] = Head0
      BY <2>1, <1>k DEF NearBy
    <3> QED
      BY <3>1, <1>u, <1>a
  <2>3. n[x][s] # x /\ n[x][o] # x
    BY <2>1, <1>u, <1>o DEF NearBy
  <2> QED
    BY <2>2, <2>3, <1>u, <1>k, <1>o DEF Calm
<1>8. ASSUME NEW z \in U PROVE Calm(m, z, p)
  <2>1. CASE z = x
    <3>1. ~m[m[x][o]].red
      BY <1>3, <1>s, <1>7, <1>u, <1>t, <1>o
    <3> QED
      BY <2>1, <3>1, <1>s, <1>o DEF Calm
  <2>2. CASE z = p
    <3>1. ~m[m[p][s]].red /\ ~m[m[p][o]].red
      BY <1>3, <1>s, <1>7, <1>u, <1>k, <1>t, <1>o
    <3> QED
      BY <2>2, <3>1, <1>o DEF Calm
  <2>3. CASE z \notin {p, x}
    <3>1. ASSUME NEW t \in Sides, m[z].red, m[m[z][t]].red PROVE FALSE
      <4>1. n[z][t] # p
        <5>1. n[z].red
          BY <1>3, <3>1, <1>a
        <5> QED
          BY <5>1, <1>u, <1>k DEF Calm
      <4>2. m[z][t] = n[z][t] /\ n[z][t] # x /\ n[z].red /\ n[n[z][t]].red
        BY <4>1, <2>3, <1>s, <1>3, <3>1, <1>a, <1>t
      <4> QED
        BY <4>2, <1>u DEF Calm
    <3> QED
      BY <3>1 DEF Calm
  <2> QED
    BY <2>1, <2>2, <2>3
<1>9. Tree(m, U, E) /\ Outers(m, U) /\ \A z \in Slots : m[z].key = k[z].key
  BY <1>5, <1>u DEF Spun
<1>10. m[p].red /\ m[x].red /\ ~m[g].red
  BY <1>3, <1>u, <1>k, <1>a
<1>11. Root(m) = Root(n) /\ ~m[Root(m)].red
  <2>1. Root(n) \in Slots /\ ~n[Root(n)].red
    BY <1>u, RootFacts DEF Unrest
  <2> QED
    BY <2>1, <1>s, <1>3
<1>12. m[g][s] = x /\ m[g][o] = n[g][o]
  <2>1. n[g][o] # p
    <3>1. NearBy(n, U, D, g)
      BY <1>u, <1>k, Near
    <3>2. n[g][s] = n[g][Other(s)] => n[g][s] = Head0
      BY <3>1 DEF NearBy
    <3> QED
      BY <3>2, <1>k, <1>o, <1>a
  <2> QED
    BY <2>1, <1>s, <1>k, <1>o
<1>13. Unrest(m, k, U, E, e, p)
  BY <1>6, <1>8, <1>9, <1>10, <1>11, <1>k DEF Unrest
<1>14. Kin(m, U, p, x, g, s)
  BY <1>10, <1>12, <1>s, <1>u, <1>k DEF Kin
<1>15. ~m[m[g][o]].red
  BY <1>12, <1>3, <1>t, <1>k, <1>o
<1> QED
  BY <1>11, <1>13, <1>14, <1>15, <1>s, <1>o

LEMMA PlusNothing == \A a \in Nat : a + 0 = a
OBVIOUS

\* The uncle of x is red: the pair moves up to the grandparent.
LEMMA Upward ==
  ASSUME NEW n, NEW k, NEW U, NEW D, NEW h, NEW x, Unrest(n, k, U, D, h, x),
         NEW p, NEW g, NEW s \in Sides, Kin(n, U, x, p, g, s), p # Root(n),
         NEW u, u = n[g][Other(s)], n[u].red,
         NEW m, m = Paint(Paint(Paint(n, u, FALSE), p, FALSE), g, TRUE)
  PROVE  \E e : Unrest(m, k, U, D, e, g)
<1>o. PICK o : o = Other(s) /\ o \in Sides /\ o # s /\ Other(o) = s /\ \A t \in Sides : t = s \/ t = o
  BY SideFacts
<1>u. Tree(n, U, D) /\ x \in U /\ ~n[Head0].red /\ (\A z \in U : Calm(n, z, x)) /\ n \in Pool /\ n[x].red
      /\ Outers(n, U) /\ \A z \in Slots : n[z].key = k[z].key
  BY DEF Unrest, Colored, Tree, Links
<1>a. U \in SUBSET Nodes /\ Head0 \in Slots /\ Head0 \notin U /\ \A z \in U : z \in Slots /\ z # Head0
  BY <1>u, RootFacts, SlotFacts
<1>k. p \in U /\ g \in U /\ p # x /\ g # x /\ g # p /\ n[x].parent = p /\ n[p].parent = g
      /\ n[p].red /\ ~n[g].red /\ n[g][s] = p
  BY DEF Kin
<1>t. \A z \in U, t \in Sides : n[z][t] \in Slots
  BY <1>a, <1>u, PoolFacts
<1>n. \A z \in U : NearBy(n, U, D, z)
  BY <1>u, Near
<1>l. \A z \in U, t \in Sides : n[z][t] # Head0 => n[z][t] \in U /\ n[n[z][t]].parent = z
  BY <1>u DEF Tree, Links
<1>c. n[g][o] = u /\ u \in U /\ n[u].parent = g /\ u # g /\ u # p
  <2>1. n[g][o] = u
    BY <1>o
  <2>2. u # Head0
    BY <1>u
  <2>3. u \in U /\ n[u].parent = g
    BY <1>l, <2>1, <2>2, <1>k, <1>o
  <2>4. n[g][s] = n[g][Other(s)] => n[g][s] = Head0
    BY <1>n, <1>k, Zenon DEF NearBy
  <2>5. u # g
    BY <1>n, <1>k, <2>1, <1>o DEF NearBy
  <2> QED
    BY <2>1, <2>2, <2>3, <2>4, <2>5, <1>k
<1>1. Red3(n, m, u, FALSE, p, FALSE, g, TRUE)
  <2>1. u \in Slots /\ p \in Slots /\ g \in Slots
    BY <1>a, <1>c, <1>k
  <2> QED
    BY <1>u, <2>1, Red3Is
<1>2. Redone(n, m) /\ \A z \in Slots : m[z].red = IF z = g THEN TRUE ELSE IF z = p THEN FALSE ELSE IF z = u THEN FALSE ELSE n[z].red
  BY <1>1 DEF Red3
<1>r. /\ m[g].red /\ ~m[p].red /\ ~m[u].red
      /\ \A z \in Slots : z \notin {g, p, u} => (m[z].red <=> n[z].red)
  BY <1>2, <1>c, <1>k, <1>a
<1>s. \A z \in Slots, t \in Sides : m[z][t] = n[z][t]
  BY <1>2 DEF Redone
<1>3. Tree(m, U, D) /\ Root(m) = Root(n) /\ Outers(m, U)
  <2>1. Redone(n, m)
    BY <1>2
  <2>2. Tree(n, U, D) /\ Outers(n, U)
    BY <1>u
  <2> QED
    BY <2>1, <2>2, RedoneTree
<1>4. \A z \in Slots : m[z].key = k[z].key
  BY <1>2, <1>u DEF Redone
<1>5. \A z \in U, t \in Sides : z # g => n[z][t] # p /\ n[z][t] # u
  BY <1>l, <1>k, <1>c, <1>a
<1>h. /\ h \in [Slots -> Nat \ {0}] /\ h[Head0] = 1
      /\ \A z \in U, t \in Sides : h[z] = h[n[z][t]] + (IF n[z].red THEN 0 ELSE 1)
  <2>1. Colored(n, U, h, Head0, "left")
    BY DEF Unrest
  <2>2. h \in [Slots -> Nat \ {0}] /\ h[Head0] = 1
    BY <2>1 DEF Colored
  <2>3. ASSUME NEW z \in U, NEW t \in Sides PROVE h[z] = h[n[z][t]] + (IF n[z].red THEN 0 ELSE 1)
    <3>1. h[z] = h[n[z][t]] + (IF z = Head0 /\ t = "left" THEN 1 ELSE 0) + (IF n[z].red THEN 0 ELSE 1)
      BY <2>1 DEF Colored, Even
    <3>2. z # Head0 /\ h[n[z][t]] \in Nat
      BY <1>a, <1>t, <2>2
    <3> QED
      BY <3>1, <3>2
  <2> QED
    BY <2>2, <2>3
<1>e. PICK e : e = [h EXCEPT ![p] = h[p] + 1, ![u] = h[u] + 1]
  OBVIOUS
<1>6. /\ e \in [Slots -> Nat \ {0}] /\ e[p] = h[p] + 1 /\ e[u] = h[u] + 1
      /\ \A z \in Slots : z # p /\ z # u => e[z] = h[z]
  <2>1. p \in Slots /\ u \in Slots /\ h[p] \in Nat \ {0} /\ h[u] \in Nat \ {0}
    BY <1>a, <1>c, <1>k, <1>h
  <2>2. h[p] + 1 \in Nat \ {0} /\ h[u] + 1 \in Nat \ {0}
    BY <2>1
  <2> QED
    BY <2>1, <2>2, <1>e, <1>h, <1>c
<1>7. ASSUME NEW z \in U, NEW t \in Sides
      PROVE  e[z] = e[m[z][t]] + (IF m[z].red THEN 0 ELSE 1)
  <2>a. h[z] \in Nat /\ h[n[z][t]] \in Nat /\ m[z][t] = n[z][t]
        /\ h[z] = h[n[z][t]] + (IF n[z].red THEN 0 ELSE 1) /\ n[z][t] \in Slots
    BY <1>h, <1>a, <1>t, <1>s, ZenonT(40)
  <2>1. CASE z = g
    <3>1. n[z][t] = p \/ n[z][t] = u
      BY <2>1, <1>k, <1>c, <1>o
    <3>2. e[n[z][t]] = h[n[z][t]] + 1 /\ e[z] = h[z]
      BY <3>1, <1>6, <2>1, <1>k, <1>c, <1>a
    <3>3. (IF m[z].red THEN 0 ELSE 1) = 0 /\ (IF n[z].red THEN 0 ELSE 1) = 1
      BY <2>1, <1>r, <1>k
    <3>4. h[z] = h[n[z][t]] + 1
      BY <2>a, <3>3
    <3>6. e[z] = e[m[z][t]] /\ m[z][t] \in Slots
      BY <2>a, <3>2, <3>4
    <3>7. e[m[z][t]] \in Nat
      BY <3>6, <1>6
    <3>5. e[z] = e[m[z][t]] + 0
      BY <3>6, <3>7, PlusNothing
    <3> QED
      BY <3>3, <3>5
  <2>2. CASE z # g /\ (z = p \/ z = u)
    <3>1. e[n[z][t]] = h[n[z][t]] /\ e[z] = h[z] + 1
      BY <2>2, <2>a, <1>5, <1>6
    <3>2. (IF m[z].red THEN 0 ELSE 1) = 1 /\ (IF n[z].red THEN 0 ELSE 1) = 0
      BY <2>2, <1>r, <1>k, <1>c, <1>u
    <3>3. h[z] = h[n[z][t]]
      <4>1. h[z] = h[n[z][t]] + 0
        BY <2>a, <3>2
      <4> QED
        BY <4>1, <2>a, PlusNothing
    <3>4. e[z] = e[m[z][t]] + 1
      BY <2>a, <3>1, <3>3
    <3> QED
      BY <3>2, <3>4
  <2>3. CASE z \notin {g, p, u}
    <3>1. e[n[z][t]] = h[n[z][t]] /\ e[z] = h[z]
      BY <2>3, <2>a, <1>5, <1>6, <1>a
    <3>2. m[z].red <=> n[z].red
      BY <2>3, <1>r, <1>a
    <3> QED
      BY <2>a, <3>1, <3>2
  <2> QED
    BY <2>1, <2>2, <2>3
<1>8. Colored(m, U, e, Head0, "left")
  <2>1. ASSUME NEW z \in U PROVE Even(m, e, Head0, "left", z)
    <3>1. ASSUME NEW t \in Sides
          PROVE  e[z] = e[m[z][t]] + (IF z = Head0 /\ t = "left" THEN 1 ELSE 0) + (IF m[z].red THEN 0 ELSE 1)
      <4>1. z # Head0 /\ e[m[z][t]] \in Nat
        BY <1>a, <1>t, <1>s, <1>6, ZenonT(40)
      <4>2. (IF z = Head0 /\ t = "left" THEN 1 ELSE 0) = 0
        BY <4>1
      <4>3. e[m[z][t]] + 0 = e[m[z][t]]
        BY <4>1, PlusNothing
      <4>4. e[z] = e[m[z][t]] + (IF m[z].red THEN 0 ELSE 1)
        BY <1>7
      <4> QED
        BY <4>2, <4>3, <4>4
    <3> QED
      BY <3>1 DEF Even
  <2>2. e[Head0] = 1 /\ ~m[Head0].red
    BY <1>6, <1>h, <1>r, <1>u, <1>a, <1>k, <1>c
  <2> QED
    BY <2>1, <2>2, <1>6 DEF Colored
<1>9. ASSUME NEW z \in U PROVE Calm(m, z, g)
  <2>1. ASSUME NEW t \in Sides, m[z].red, m[m[z][t]].red, m[z][t] # g PROVE FALSE
    <3>1. m[z][t] = n[z][t] /\ n[z][t] \in Slots
      BY <1>s, <1>t, <1>a
    <3>2. z # p /\ z # u /\ n[z][t] # p /\ n[z][t] # u
      BY <1>r, <2>1, <3>1
    <3>3. CASE z = g
      BY <3>2, <3>3, <1>k, <1>c, <1>o
    <3>4. CASE z # g
      <4>1. n[z].red /\ n[n[z][t]].red
        BY <3>1, <3>2, <3>4, <2>1, <1>r, <1>a
      <4>2. n[z][t] = x
        BY <4>1, <1>u DEF Calm
      <4>3. z = p
        BY <4>2, <1>l, <1>u, <1>k, <1>a
      <4> QED
        BY <3>2, <4>3
    <3> QED
      BY <3>3, <3>4
  <2> QED
    BY <2>1 DEF Calm
<1>10. m[Root(m)].red => Root(m) = g
  <2>1. ASSUME Root(n) # g, m[Root(n)].red PROVE FALSE
    <3>1. Root(n) \in Slots
      BY <1>u, RootFacts
    <3>2. Root(n) # u /\ n[Root(n)].red
      BY <2>1, <3>1, <1>r
    <3>3. Root(n) = x
      BY <3>2 DEF Unrest
    <3>4. n[x].parent = Head0
      BY <3>3, <1>u DEF Tree, Links
    <3> QED
      BY <3>4, <1>k, <1>a
  <2> QED
    BY <2>1, <1>3
<1>11. Unrest(m, k, U, D, e, g)
  BY <1>3, <1>4, <1>8, <1>9, <1>10, <1>r, <1>k DEF Unrest
<1> QED
  BY <1>11

\* What the loop of Insert_at keeps: its turns climb until the parent is black.
InsertHas(n, k, U, x, i) ==
  \E D, h : /\ Unrest(n, k, U, D, h, x)
            /\ ~n[n[x].parent].red \/ Cardinality(U \ D[x]) + i <= Capacity

\* A turn of the loop of Insert_at gets closer to the root or ends it.
LEMMA InsertTurnIs ==
  ASSUME NEW n, NEW k, NEW U, NEW x, NEW i \in Nat, InsertHas(n, k, U, x, i)
  PROVE  InsertHas(InsertTurn(n, x).n, k, U, InsertTurn(n, x).x, i + 1)
<1>1. PICK D, h : /\ Unrest(n, k, U, D, h, x)
                  /\ ~n[n[x].parent].red \/ Cardinality(U \ D[x]) + i <= Capacity
  BY DEF InsertHas
<1>p. PICK p : p = n[x].parent
  OBVIOUS
<1>g. PICK g : g = n[p].parent
  OBVIOUS
<1>s. PICK s : s = IF p = n[g].left THEN "left" ELSE "right"
  OBVIOUS
<1>u. PICK u : u = n[g][Other(s)]
  OBVIOUS
<1>t. InsertTurn(n, x) = IF ~n[p].red THEN [n |-> n, x |-> x]
                         ELSE IF n[u].red
                         THEN [n |-> Paint(Paint(Paint(n, u, FALSE), p, FALSE), g, TRUE), x |-> g]
                         ELSE Turned(n, x, s)
  BY <1>p, <1>g, <1>s, <1>u DEF InsertTurn
<1>2. CASE ~n[p].red
  <2>1. InsertTurn(n, x).n = n /\ InsertTurn(n, x).x = x
    BY <1>2, <1>t
  <2> QED
    BY <2>1, <1>1, <1>2, <1>p DEF InsertHas
<1>3. CASE n[p].red
  <2>0. s \in Sides /\ Kin(n, U, x, p, g, s) /\ x # Root(n) /\ p # Root(n)
    BY <1>1, <1>3, <1>p, <1>g, <1>s, KinIs
  <2>1. CASE n[u].red
    <3>m. PICK m : m = Paint(Paint(Paint(n, u, FALSE), p, FALSE), g, TRUE)
      OBVIOUS
    <3>1. PICK e : Unrest(m, k, U, D, e, g)
      BY <1>1, <2>0, <2>1, <1>u, <3>m, Upward
    <3>2. Cardinality(U \ D[g]) + (i + 1) <= Capacity
      <4>1. Tree(n, U, D) /\ x \in U /\ p \in U /\ g \in U /\ p # x /\ g # p
            /\ n[x].parent = p /\ n[p].parent = g /\ p \in {n[g][t] : t \in Sides}
            /\ x \in {n[p][t] : t \in Sides}
        BY <1>1, <2>0 DEF Unrest, Kin
      <4>2. NearBy(n, U, D, g) /\ NearBy(n, U, D, p) /\ NearBy(n, U, D, x)
        BY <4>1, Near
      <4>3. \E t \in Sides : x \in D[n[g][t]]
        <5>1. PICK t \in Sides : n[g][t] = p
          BY <4>1
        <5>2. x \in D[p]
          <6>1. PICK v \in Sides : n[p][v] = x
            BY <4>1
          <6>2. x \in D[x]
            BY <4>2 DEF NearBy
          <6>3. D[n[p][v]] \in SUBSET D[p]
            BY <4>2 DEF NearBy
          <6> QED
            BY <6>1, <6>2, <6>3
        <5> QED
          BY <5>1, <5>2
      <4>4. PICK t \in Sides : x \in D[n[g][t]]
        BY <4>3
      <4>5. D[x] \in SUBSET D[n[g][t]]
        <5>1. n[g][t] \in U
          BY <4>1, <4>4, Through
        <5> QED
          BY <4>1, <4>4, <5>1, Nested
      <4>6. g \notin D[n[g][t]] /\ D[n[g][t]] \in SUBSET D[g] /\ g \in D[g]
        BY <4>2 DEF NearBy
      <4>7. U \ D[g] \in SUBSET (U \ D[x]) /\ U \ D[g] # U \ D[x]
        BY <4>1, <4>5, <4>6
      <4>8. IsFiniteSet(U \ D[x])
        BY <4>1, FiniteUnder, FS_Difference
      <4>9. Cardinality(U \ D[g]) \in Nat /\ Cardinality(U \ D[x]) \in Nat
            /\ Cardinality(U \ D[g]) < Cardinality(U \ D[x])
        BY <4>7, <4>8, StrictSubset
      <4>10. Cardinality(U \ D[x]) + i <= Capacity
        BY <1>1, <1>3, <1>p
      <4> QED
        BY <4>9, <4>10, SlotFacts
    <3>3. InsertTurn(n, x).n = m /\ InsertTurn(n, x).x = g
      BY <1>3, <2>1, <1>t, <3>m
    <3> QED
      BY <3>1, <3>2, <3>3 DEF InsertHas
  <2>2. CASE ~n[u].red
    <3>o. PICK o : o = Other(s) /\ o \in Sides
      BY <2>0, SideFacts
    <3>i. PICK t \in Sides : n[p][t] = x
      BY <2>0 DEF Kin
    <3>1. CASE x = n[p][o]
      <4>j. PICK j : j = Rotate(n, p, s)
        OBVIOUS
      <4>1. /\ Kin(j, U, p, x, g, s) /\ j[x][s] = p /\ p # Root(j) /\ x # Root(j)
            /\ ~j[j[g][Other(s)]].red
            /\ \E E, e : Unrest(j, k, U, E, e, p)
        <5>1. n[p][Other(s)] = x /\ ~n[n[g][Other(s)]].red
          BY <3>1, <3>o, <2>2, <1>u
        <5> QED
          BY <1>1, <2>0, <5>1, <4>j, Inward
      <4>2. PICK E, e : Unrest(j, k, U, E, e, p)
        BY <4>1
      <4>m. PICK m : m = Rotate(Paint(Paint(j, x, FALSE), g, TRUE), g, Other(s))
        OBVIOUS
      <4>3. ~m[m[p].parent].red /\ \E F, f : Unrest(m, k, U, F, f, p)
        BY <4>1, <4>2, <4>m, <2>0, Outward
      <4>4. j[p].parent = x
        BY <4>1 DEF Kin
      <4>5. Turned(n, x, s) = [n |-> m, x |-> p]
        <5>1. Turned(n, x, s) = [n |-> Rotate(Paint(Paint(j, j[p].parent, FALSE), g, TRUE), g, Other(s)), x |-> p]
          BY <3>1, <3>o, <4>j, <1>p, <1>g, Zenon DEF Turned
        <5> QED
          BY <5>1, <4>4, <4>m, SMTT(30)
      <4>6. InsertTurn(n, x).n = m /\ InsertTurn(n, x).x = p
        BY <1>3, <2>2, <1>t, <4>5
      <4> QED
        BY <4>3, <4>6 DEF InsertHas
    <3>2. CASE x # n[p][o]
      <4>1. n[p][s] = x
        BY <3>i, <3>2, <3>o, <2>0, SideFacts
      <4>m. PICK m : m = Rotate(Paint(Paint(n, p, FALSE), g, TRUE), g, Other(s))
        OBVIOUS
      <4>3. ~m[m[x].parent].red /\ \E F, f : Unrest(m, k, U, F, f, x)
        BY <1>1, <2>0, <2>2, <1>u, <4>1, <4>m, Outward
      <4>5. Turned(n, x, s) = [n |-> m, x |-> x]
        BY <3>2, <3>o, <4>m, <1>p, <1>g DEF Turned
      <4>6. InsertTurn(n, x).n = m /\ InsertTurn(n, x).x = x
        BY <1>3, <2>2, <1>t, <4>5
      <4> QED
        BY <4>3, <4>6 DEF InsertHas
    <3> QED
      BY <3>1, <3>2
  <2> QED
    BY <2>1, <2>2
<1> QED
  BY <1>2, <1>3

\* The colors of a red-black tree.
Balanced(n, U) == (\E h : Colored(n, U, h, Head0, "left")) /\ AllCalm(n, U, Head0)

\* A red-black search tree of the nodes of U with the keys of k.
Sound(n, k, U) ==
  /\ \E D : Tree(n, U, D)
  /\ Outers(n, U) /\ \A z \in Slots : n[z].key = k[z].key
  /\ Balanced(n, U) /\ ~n[Root(n)].red

\* f is a child at side g of q and nowhere else.
HangsAt(n, U, f, q, g) == \A z \in U, t \in Sides : n[z][t] = f <=> z = q /\ t = g

\* The red pairs are at f.
Tame(n, U, f) == \A z \in U, t \in Sides : n[z].red /\ n[n[z][t]].red => z = f \/ n[z][t] = f

\* A red node f whose ways lack a black node: painting it helps.
Topped(n, U, D, h, f, q, g) ==
  /\ Tree(n, U, D) /\ f \in U /\ n[f].red /\ q # f /\ g \in Sides
  /\ Colored(n, U, h, q, g) /\ HangsAt(n, U, f, q, g) /\ Tame(n, U, f)

LEMMA BlackIs ==
  ASSUME NEW n \in Pool, NEW f \in Slots
  PROVE  /\ Redone(n, Paint(n, f, FALSE)) /\ ~Paint(n, f, FALSE)[f].red
         /\ \A z \in Slots : z # f => (Paint(n, f, FALSE)[z].red <=> n[z].red)
<1>1. RedSet(n, Paint(n, f, FALSE), f, FALSE)
  BY Painted
<1> QED
  BY <1>1 DEF RedSet, Redone

\* Painting f black gives the way above it the black node it lacks, and parts
\* the red pairs.
LEMMA Blackened ==
  ASSUME NEW n, NEW U, NEW D, NEW h, NEW f, NEW q, NEW g, Topped(n, U, D, h, f, q, g)
  PROVE  Balanced(Paint(n, f, FALSE), U)
<1>m. PICK m : m = Paint(n, f, FALSE)
  OBVIOUS
<1>u. /\ Tree(n, U, D) /\ f \in U /\ n[f].red /\ q # f /\ g \in Sides /\ n \in Pool
      /\ HangsAt(n, U, f, q, g) /\ Tame(n, U, f)
  BY DEF Topped, Tree, Links
<1>h. /\ h \in [Slots -> Nat \ {0}] /\ h[Head0] = 1 /\ ~n[Head0].red
      /\ \A z \in U, t \in Sides : h[z] = h[n[z][t]] + (IF z = q /\ t = g THEN 1 ELSE 0) + (IF n[z].red THEN 0 ELSE 1)
  BY DEF Topped, Colored, Even
<1>a. U \in SUBSET Nodes /\ Head0 \in Slots /\ Head0 \notin U /\ \A z \in U : z \in Slots /\ z # Head0
  BY <1>u, RootFacts, SlotFacts
<1>t. \A z \in U, t \in Sides : n[z][t] \in Slots
  BY <1>a, <1>u, PoolFacts
<1>1. /\ Redone(n, m) /\ ~m[f].red
      /\ \A z \in Slots : z # f => (m[z].red <=> n[z].red)
  <2>1. f \in Slots
    BY <1>u, <1>a
  <2> QED
    BY <2>1, <1>u, <1>m, BlackIs
<1>s. \A z \in Slots, t \in Sides : m[z][t] = n[z][t]
  BY <1>1 DEF Redone
<1>e. PICK e : e = [h EXCEPT ![f] = h[f] + 1]
  OBVIOUS
<1>2. e \in [Slots -> Nat \ {0}] /\ e[f] = h[f] + 1 /\ \A z \in Slots : z # f => e[z] = h[z]
  <2>1. f \in Slots /\ h[f] \in Nat \ {0}
    BY <1>u, <1>a, <1>h
  <2>2. h[f] + 1 \in Nat \ {0}
    BY <2>1
  <2> QED
    BY <2>1, <2>2, <1>e, <1>h
<1>3. ASSUME NEW z \in U, NEW t \in Sides
      PROVE  e[z] = e[m[z][t]] + (IF z = Head0 /\ t = "left" THEN 1 ELSE 0) + (IF m[z].red THEN 0 ELSE 1)
  <2>a. /\ z \in Slots /\ z # Head0 /\ m[z][t] = n[z][t] /\ n[z][t] \in Slots
        /\ h[n[z][t]] \in Nat /\ e[n[z][t]] \in Nat
        /\ (IF z = Head0 /\ t = "left" THEN 1 ELSE 0) = 0
    BY <1>a, <1>s, <1>t, <1>h, <1>2
  <2>b. h[z] = h[n[z][t]] + (IF z = q /\ t = g THEN 1 ELSE 0) + (IF n[z].red THEN 0 ELSE 1)
    BY <1>h
  <2>c. e[n[z][t]] = h[n[z][t]] + (IF z = q /\ t = g THEN 1 ELSE 0)
    <3>1. CASE z = q /\ t = g
      <4>1. n[z][t] = f
        BY <3>1, <1>u DEF HangsAt
      <4> QED
        BY <4>1, <3>1, <1>2
    <3>2. CASE ~(z = q /\ t = g)
      <4>1. n[z][t] # f
        BY <3>2, <1>u DEF HangsAt
      <4>2. e[n[z][t]] = h[n[z][t]] /\ (IF z = q /\ t = g THEN 1 ELSE 0) = 0
        BY <4>1, <3>2, <1>2, <2>a
      <4> QED
        BY <4>2, <2>a, PlusNothing
    <3> QED
      BY <3>1, <3>2
  <2>d. h[z] = e[n[z][t]] + (IF n[z].red THEN 0 ELSE 1)
    BY <2>b, <2>c
  <2>e. e[m[z][t]] + (IF z = Head0 /\ t = "left" THEN 1 ELSE 0) = e[n[z][t]]
    BY <2>a, PlusNothing
  <2>1. CASE z = f
    <3>1. (IF n[z].red THEN 0 ELSE 1) = 0 /\ (IF m[z].red THEN 0 ELSE 1) = 1
      BY <2>1, <1>1, <1>u
    <3>2. h[z] = e[n[z][t]] + 0
      BY <2>d, <3>1
    <3>3. h[z] = e[n[z][t]]
      BY <3>2, <2>a, PlusNothing
    <3>4. e[z] = h[z] + 1
      BY <2>1, <1>2
    <3>5. e[z] = e[n[z][t]] + 1
      BY <3>3, <3>4
    <3> QED
      BY <3>1, <3>5, <2>e
  <2>2. CASE z # f
    <3>1. e[z] = h[z] /\ (IF n[z].red THEN 0 ELSE 1) = (IF m[z].red THEN 0 ELSE 1)
      BY <2>2, <1>1, <1>2, <2>a
    <3> QED
      BY <3>1, <2>d, <2>e
  <2> QED
    BY <2>1, <2>2
<1>4. Colored(m, U, e, Head0, "left")
  <2>1. e[Head0] = 1 /\ ~m[Head0].red
    BY <1>1, <1>2, <1>h, <1>a, <1>u
  <2> QED
    BY <2>1, <1>2, <1>3 DEF Colored, Even
<1>5. AllCalm(m, U, Head0)
  <2>1. ASSUME NEW z \in U, NEW t \in Sides, m[z].red, m[m[z][t]].red PROVE FALSE
    <3>1. z # f /\ n[z][t] # f /\ n[z].red /\ n[n[z][t]].red
      BY <2>1, <1>1, <1>s, <1>t, <1>a
    <3> QED
      BY <3>1, <1>u DEF Tame
  <2> QED
    BY <2>1 DEF AllCalm, Calm
<1> QED
  BY <1>4, <1>5, <1>m DEF Balanced

\* Painting a black node black leaves the colors alone.
LEMMA BlackAlready ==
  ASSUME NEW n \in Pool, NEW U \in SUBSET Nodes, NEW f \in Slots, ~n[f].red, Balanced(n, U)
  PROVE  Balanced(Paint(n, f, FALSE), U)
<1>m. PICK m : m = Paint(n, f, FALSE)
  OBVIOUS
<1>a. Head0 \in Slots /\ (\A z \in U : z \in Slots) /\ \A z \in U, t \in Sides : n[z][t] \in Slots
  BY SlotFacts, PoolFacts
<1>1. Redone(n, m) /\ \A z \in Slots : m[z].red <=> n[z].red
  BY <1>m, BlackIs
<1>2. \A z \in Slots, t \in Sides : m[z][t] = n[z][t]
  BY <1>1 DEF Redone
<1>3. PICK h : Colored(n, U, h, Head0, "left")
  BY DEF Balanced
<1>4. ASSUME NEW z \in U PROVE Even(m, h, Head0, "left", z)
  <2>1. Even(n, h, Head0, "left", z)
    BY <1>3 DEF Colored
  <2> QED
    BY <2>1, <1>1, <1>2, <1>a DEF Even
<1>5. Colored(m, U, h, Head0, "left")
  BY <1>1, <1>3, <1>4, <1>a DEF Colored
<1>6. AllCalm(m, U, Head0)
  <2>1. AllCalm(n, U, Head0)
    BY DEF Balanced
  <2> QED
    BY <2>1, <1>1, <1>2, <1>a DEF AllCalm, Calm
<1> QED
  BY <1>5, <1>6, <1>m DEF Balanced

\* The loop of Insert_at restores the colors.
LEMMA InsertFixIs ==
  ASSUME NEW n, NEW k, NEW U, NEW x \in Slots, InsertHas(n, k, U, x, 0)
  PROVE  Sound(InsertFix(n, x), k, U)
<1>1. PICK turn : turn = [t \in [n : Pool, x : Slots] |-> InsertTurn(t.n, t.x)]
  OBVIOUS
<1>2. PICK J : J = [i \in Nat |-> {t \in [n : Pool, x : Slots] : InsertHas(t.n, k, U, t.x, i)}]
  OBVIOUS
<1>3. \A m, y, i : InsertHas(m, k, U, y, i) => m \in Pool /\ y \in Slots
  <2>1. ASSUME NEW m, NEW y, NEW i, InsertHas(m, k, U, y, i) PROVE m \in Pool /\ y \in Slots
    <3>1. PICK D, h : Unrest(m, k, U, D, h, y)
      BY <2>1 DEF InsertHas
    <3>2. Tree(m, U, D) /\ y \in U
      BY <3>1 DEF Unrest
    <3> QED
      BY <3>2, RootFacts, SlotFacts
  <2> QED
    BY <2>1
<1>4. PICK start : start = [n |-> n, x |-> x]
  OBVIOUS
<1>5. start \in J[0]
  BY <1>2, <1>3, <1>4
<1>6. ASSUME NEW i \in Nat, NEW t \in J[i] PROVE turn[t] \in J[i + 1]
  <2>1. t \in [n : Pool, x : Slots] /\ InsertHas(t.n, k, U, t.x, i)
    BY <1>2
  <2>2. PICK r : r = InsertTurn(t.n, t.x)
    OBVIOUS
  <2>3. InsertHas(r.n, k, U, r.x, i + 1)
    BY <2>1, <2>2, InsertTurnIs, SMTT(30)
  <2>4. r = [n |-> r.n, x |-> r.x]
    BY <2>2, Zenon DEF InsertTurn, Turned
  <2>5. r \in [n : Pool, x : Slots]
    BY <2>3, <2>4, <1>3
  <2>6. turn[t] = r
    BY <2>1, <2>2, <1>1
  <2>7. i + 1 \in Nat
    OBVIOUS
  <2> QED
    BY <2>3, <2>5, <2>6, <2>7, <1>2
<1>7. Loop(turn, start) \in J[Capacity + 1]
  BY <1>5, <1>6, LoopInvariant
<1>e. PICK end : end = Loop(turn, start)
  OBVIOUS
<1>m. PICK m : m = end.n
  OBVIOUS
<1>y. PICK y : y = end.x
  OBVIOUS
<1>8. InsertHas(m, k, U, y, Capacity + 1)
  <2>1. Capacity + 1 \in Nat
    BY SlotFacts
  <2> QED
    BY <2>1, <1>7, <1>2, <1>e, <1>m, <1>y
<1>9. PICK D, h : /\ Unrest(m, k, U, D, h, y)
                  /\ ~m[m[y].parent].red \/ Cardinality(U \ D[y]) + (Capacity + 1) <= Capacity
  BY <1>8 DEF InsertHas
<1>10. Tree(m, U, D) /\ Outers(m, U) /\ (\A z \in Slots : m[z].key = k[z].key) /\ y \in U /\ m[y].red
       /\ Colored(m, U, h, Head0, "left") /\ (\A z \in U : Calm(m, z, y)) /\ (m[Root(m)].red => Root(m) = y)
  BY <1>9 DEF Unrest
<1>11. ~m[m[y].parent].red
  <2>1. IsFiniteSet(U \ D[y])
    BY <1>10, FiniteUnder, FS_Difference
  <2>2. Cardinality(U \ D[y]) \in Nat /\ Capacity \in Nat
    BY <2>1, FS_CardinalityType, SlotFacts
  <2> QED
    BY <2>2, <1>9
<1>12. PICK r : r = Root(m)
  OBVIOUS
<1>13. PICK q : q = Paint(m, r, FALSE)
  OBVIOUS
<1>14. InsertFix(n, x) = q
  BY <1>1, <1>4, <1>e, <1>m, <1>12, <1>13 DEF InsertFix
<1>a. m \in Pool /\ r \in Slots /\ U \in SUBSET Nodes /\ Head0 \notin U /\ (\A z \in U : z \in Slots)
  BY <1>10, <1>12, RootFacts, SlotFacts
<1>15. Redone(m, q) /\ ~q[r].red
  BY <1>13, <1>a, BlackIs
<1>l. \A z \in U, t \in Sides : m[z][t] # Head0 => m[z][t] \in U /\ m[m[z][t]].parent = z
  BY <1>10 DEF Tree, Links
<1>16. Balanced(q, U)
  <2>1. CASE m[r].red
    <3>1. r = y
      BY <1>10, <1>12, <2>1
    <3>2. HangsAt(m, U, r, Head0, "left")
      <4>1. m[r].parent = Head0
        BY <1>10, <1>12, <3>1 DEF Tree, Links
      <4>2. \A z \in U, t \in Sides : m[z][t] # r
        BY <4>1, <1>l, <1>10, <1>a, <3>1
      <4> QED
        BY <4>2, <1>a DEF HangsAt
    <3>3. Tame(m, U, r)
      BY <1>10, <3>1 DEF Tame, Calm
    <3>4. Topped(m, U, D, h, r, Head0, "left")
      BY <3>1, <3>2, <3>3, <1>10, <1>a, SideFacts DEF Topped
    <3> QED
      BY <3>4, <1>13, Blackened
  <2>2. CASE ~m[r].red
    <3>1. AllCalm(m, U, Head0)
      <4>1. ASSUME NEW z \in U, NEW t \in Sides, m[z].red, m[m[z][t]].red PROVE FALSE
        <5>1. m[z][t] = y
          BY <4>1, <1>10 DEF Calm
        <5>2. m[y].parent = z
          BY <5>1, <1>l, <1>10, <1>a
        <5> QED
          BY <5>2, <4>1, <1>11
      <4> QED
        BY <4>1 DEF AllCalm, Calm
    <3>2. Balanced(m, U)
      BY <3>1, <1>10 DEF Balanced
    <3> QED
      BY <3>2, <2>2, <1>a, <1>13, BlackAlready
  <2> QED
    BY <2>1, <2>2
<1>17. Tree(q, U, D) /\ Root(q) = r /\ Outers(q, U)
  BY <1>10, <1>12, <1>15, RedoneTree
<1>18. \A z \in Slots : q[z].key = k[z].key
  BY <1>10, <1>15 DEF Redone
<1> QED
  BY <1>14, <1>15, <1>16, <1>17, <1>18 DEF Sound

\* The node that Buynode makes.
Fresh(n, x, k) == [n EXCEPT ![x] = [Blank EXCEPT !.red = TRUE, !.key = k]]

\* b is n but for the red node x that is not in the tree.
FreshNode(n, b, x, k) ==
  /\ b \in Pool /\ b[x].red /\ b[x].key = k /\ \A t \in Sides : b[x][t] = Head0
  /\ \A z \in Slots \ {x} : b[z] = n[z]

LEMMA FreshIs ==
  ASSUME NEW n \in Pool, NEW x \in Slots, NEW k \in Nat
  PROVE  FreshNode(n, Fresh(n, x, k), x, k)
<1>1. PICK v : v = [Blank EXCEPT !.red = TRUE, !.key = k]
  OBVIOUS
<1>2. v = [left |-> Head0, right |-> Head0, parent |-> Head0, red |-> TRUE, key |-> k]
  BY <1>1 DEF Blank
<1>3. v \in Node
  BY <1>2, SlotFacts DEF Node
<1>4. v.red /\ v.key = k /\ \A t \in Sides : v[t] = Head0
  BY <1>2 DEF Sides
<1>5. Fresh(n, x, k) = [n EXCEPT ![x] = v]
  BY <1>1 DEF Fresh
<1>6. Fresh(n, x, k) \in Pool /\ Fresh(n, x, k)[x] = v /\ \A z \in Slots \ {x} : Fresh(n, x, k)[z] = n[z]
  BY <1>3, <1>5 DEF Pool
<1> QED
  BY <1>4, <1>6 DEF FreshNode

\* Insert_at at a place that is open leaves a red-black tree.
LEMMA InsertedIs ==
  ASSUME NEW n, NEW U, Sound(n, n, U), NEW x \in Nodes \ U, NEW k \in Nat, NEW b, b = Fresh(n, x, k),
         NEW left \in BOOLEAN, NEW p \in U \cup {Head0}, Open(n, U, p, SideOf(left), k)
  PROVE  Sound(InsertFix(Link(b, left, p, x), x), b, U \cup {x})
<1>1. PICK D : Tree(n, U, D)
  BY DEF Sound
<1>2. Outers(n, U) /\ Balanced(n, U) /\ ~n[Root(n)].red
  BY DEF Sound
<1>3. PICK h : Colored(n, U, h, Head0, "left")
  BY <1>2 DEF Balanced
<1>s. PICK s \in Sides : s = SideOf(left)
  BY SideFacts DEF SideOf
<1>a. /\ n \in Pool /\ U \in SUBSET Nodes /\ Head0 \notin U /\ Head0 \in Slots /\ x \in Slots /\ x # Head0
      /\ \A z \in U : z \in Slots /\ z # x /\ z # Head0
  BY <1>1, RootFacts, SlotFacts
<1>l. \A z \in U, t \in Sides : n[z][t] \in Slots /\ n[z][t] # x
  <2>1. \A z \in U : NearBy(n, U, D, z)
    BY <1>1, Near
  <2> QED
    BY <2>1, <1>a DEF NearBy
<1>4. FreshNode(n, b, x, k)
  BY <1>a, FreshIs
<1>5. /\ b \in Pool /\ b[x].red /\ b[x].key = k /\ (\A t \in Sides : b[x][t] = Head0)
      /\ \A z \in Slots \ {x} : b[z] = n[z]
  BY <1>4 DEF FreshNode
<1>6. Alike(n, b, U)
  BY <1>5, <1>a DEF Alike, Root
<1>7. Tree(b, U, D)
  BY <1>1, <1>6, AlikeTree
<1>8. Outers(b, U)
  BY <1>2, <1>5, <1>a DEF Outers, Utmost
<1>9. Open(b, U, p, s, b[x].key)
  BY <1>5, <1>a, <1>s DEF Open
<1>m. PICK m : m = Link(b, left, p, x)
  OBVIOUS
<1>10. Linked(b, m, U, p, x, s)
  BY <1>5, <1>a, <1>m, <1>s, LinkIs
<1>w. PICK W : W = U \cup {x}
  OBVIOUS
<1>11. Outers(m, W) /\ \E E : Tree(m, W, E)
  BY <1>7, <1>8, <1>9, <1>10, <1>w, LinkTree
<1>12. PICK E : Tree(m, W, E)
  BY <1>11
<1>13. /\ m \in Pool /\ (\A z \in Slots : m[z].key = b[z].key) /\ m[x].red
       /\ \A z \in Slots \ {x} : m[z].red <=> n[z].red
  BY <1>5, <1>10, <1>a DEF Linked
<1>14. /\ \A t \in Sides : m[x][t] = Head0
       /\ \A z \in U, t \in Sides : m[z][t] = IF z = p /\ t = s THEN x ELSE n[z][t]
  BY <1>10, <1>5, <1>a DEF Linked
<1>15. \A z \in U : z = p => n[z][s] = Head0
  BY <1>9, <1>5, <1>a DEF Open
<1>h. h \in [Slots -> Nat \ {0}] /\ h[Head0] = 1 /\ ~n[Head0].red
  BY <1>3 DEF Colored
<1>e. PICK e : e = [h EXCEPT ![x] = 1]
  OBVIOUS
<1>16. e \in [Slots -> Nat \ {0}] /\ e[x] = 1 /\ e[Head0] = 1 /\ \A z \in Slots : z # x => e[z] = h[z]
  BY <1>h, <1>e, <1>a
<1>17. Colored(m, W, e, Head0, "left")
  <2>1. Even(m, e, Head0, "left", x)
    <3>1. \A t \in Sides : e[m[x][t]] = 1 /\ ~(x = Head0)
      BY <1>14, <1>16, <1>a
    <3> QED
      BY <3>1, <1>13, <1>16 DEF Even
  <2>2. ASSUME NEW z \in U PROVE Even(m, e, Head0, "left", z)
    <3>1. Even(n, h, Head0, "left", z)
      BY <1>3 DEF Colored
    <3>2. \A t \in Sides : e[m[z][t]] = h[n[z][t]]
      <4>1. ASSUME NEW t \in Sides PROVE e[m[z][t]] = h[n[z][t]]
        <5>1. CASE z = p /\ t = s
          BY <5>1, <1>14, <1>15, <1>16, <1>h
        <5>2. CASE ~(z = p /\ t = s)
          BY <5>2, <1>14, <1>16, <1>l
        <5> QED
          BY <5>1, <5>2
      <4> QED
        BY <4>1
    <3>3. e[z] = h[z] /\ (m[z].red <=> n[z].red)
      BY <1>13, <1>16, <1>a
    <3> QED
      BY <3>1, <3>2, <3>3 DEF Even
  <2>3. ~m[Head0].red
    BY <1>13, <1>h, <1>a
  <2> QED
    BY <2>1, <2>2, <2>3, <1>16, <1>w DEF Colored
<1>18. ASSUME NEW z \in W PROVE Calm(m, z, x)
  <2>1. ASSUME NEW t \in Sides, m[z].red, m[m[z][t]].red, m[z][t] # x PROVE FALSE
    <3>1. z # x
      BY <2>1, <1>13, <1>14, <1>h, <1>a
    <3>2. z \in U /\ m[z][t] = n[z][t] /\ n[z][t] \in Slots
      BY <3>1, <2>1, <1>14, <1>l, <1>w
    <3>3. n[z].red /\ n[n[z][t]].red
      BY <3>1, <3>2, <2>1, <1>13, <1>l, <1>a
    <3>4. Calm(n, z, Head0)
      BY <3>2, <1>2 DEF Balanced, AllCalm
    <3>5. n[z][t] = Head0
      BY <3>3, <3>4 DEF Calm
    <3> QED
      BY <3>3, <3>5, <1>h
  <2> QED
    BY <2>1 DEF Calm
<1>19. m[Root(m)].red => Root(m) = x
  <2>1. CASE p = Head0
    BY <2>1, <1>10 DEF Linked
  <2>2. CASE p # Head0
    <3>1. Root(m) = Root(n) /\ Root(n) \in Slots
      BY <2>2, <1>10, <1>6, <1>1, RootFacts DEF Linked, Alike
    <3> QED
      BY <3>1, <1>2, <1>13
  <2> QED
    BY <2>1, <2>2
<1>20. Unrest(m, b, W, E, e, x)
  BY <1>11, <1>12, <1>13, <1>17, <1>18, <1>19, <1>w DEF Unrest
<1>21. Cardinality(W \ E[x]) + 0 <= Capacity
  <2>1. IsFiniteSet(W) /\ Cardinality(W) \in Nat /\ Cardinality(W) <= Capacity
    BY <1>12, FiniteUnder
  <2>2. W \ E[x] \in SUBSET W
    OBVIOUS
  <2>3. IsFiniteSet(W \ E[x]) /\ Cardinality(W \ E[x]) <= Cardinality(W)
    BY <2>1, <2>2, FS_Subset
  <2>4. Cardinality(W \ E[x]) \in Nat /\ Capacity \in Nat
    BY <2>3, FS_CardinalityType, SlotFacts
  <2> QED
    BY <2>1, <2>3, <2>4
<1>22. InsertHas(m, b, W, x, 0)
  BY <1>20, <1>21 DEF InsertHas
<1> QED
  BY <1>22, <1>a, <1>m, <1>w, InsertFixIs

-----------------------------------------------------------------------------
(* The turns of the balance of erase *)

\* The state within a turn of the loop of erase: the ways through the black child
\* at side g of p lack a black node.
Short(n, k, U, D, h, p, g) ==
  /\ Tree(n, U, D) /\ Outers(n, U) /\ \A z \in Slots : n[z].key = k[z].key
  /\ p \in U /\ g \in Sides /\ Colored(n, U, h, p, g) /\ AllCalm(n, U, Head0)
  /\ ~n[Root(n)].red /\ ~n[n[p][g]].red

\* What is known of p and of its children.
Around(n, U, D, h, p, f, w, g, o) ==
  /\ p \in U /\ p \in Slots /\ p # Head0 /\ g \in Sides /\ o \in Sides /\ o = Other(g) /\ g = Other(o) /\ o # g
  /\ \A t \in Sides : t = g \/ t = o
  /\ n \in Pool /\ f = n[p][g] /\ f \in Slots /\ f # p /\ f # w
  /\ w = n[p][o] /\ w \in U /\ w \in Slots /\ w # Head0 /\ w # p /\ n[w].parent = p
  /\ h \in [Slots -> Nat \ {0}] /\ h[w] \in Nat /\ h[w] > 1 /\ h[f] \in Nat /\ h[w] = h[f] + 1
  /\ \A t \in Sides : n[w][t] \in Slots /\ n[w][t] # w /\ n[w][t] # p
  /\ \A z \in U, t \in Sides :
       /\ n[z][t] \in Slots /\ (n[z][t] # Head0 => n[z][t] \in U /\ n[n[z][t]].parent = z)
       /\ h[z] = h[n[z][t]] + (IF z = p /\ t = g THEN 1 ELSE 0) + (IF n[z].red THEN 0 ELSE 1)
  /\ U \in SUBSET Nodes /\ Head0 \in Slots /\ Head0 \notin U
  /\ \A z \in U : z \in Slots /\ z # Head0 /\ n[z].red \in BOOLEAN
  /\ ~n[Head0].red

\* The sibling is there: its ways have a black node that those below f lack.
LEMMA SiblingIs ==
  ASSUME NEW n, NEW U, NEW D, Tree(n, U, D), NEW h, NEW p \in U, NEW g \in Sides, Colored(n, U, h, p, g),
         NEW f, f = n[p][g], NEW o, o = Other(g), NEW w, w = n[p][o]
  PROVE  Around(n, U, D, h, p, f, w, g, o)
<1>a. /\ n \in Pool /\ U \in SUBSET Nodes /\ Head0 \in Slots /\ Head0 \notin U
      /\ \A z \in U : z \in Slots /\ z # Head0
  BY RootFacts, SlotFacts
<1>o. o \in Sides /\ o # g /\ g = Other(o) /\ \A t \in Sides : t = g \/ t = o
  BY SideFacts
<1>t. \A z \in U, t \in Sides : n[z][t] \in Slots /\ (n[z][t] # Head0 => n[z][t] \in U /\ n[n[z][t]].parent = z)
  BY <1>a, PoolFacts DEF Tree, Links
<1>r. \A z \in U : n[z].red \in BOOLEAN
  BY <1>a, PoolFacts
<1>h. /\ h \in [Slots -> Nat \ {0}] /\ h[Head0] = 1 /\ ~n[Head0].red
      /\ \A z \in U, t \in Sides : h[z] = h[n[z][t]] + (IF z = p /\ t = g THEN 1 ELSE 0) + (IF n[z].red THEN 0 ELSE 1)
  BY DEF Colored, Even
<1>n. \A z \in U : NearBy(n, U, D, z)
  BY Near
<1>1. f \in Slots /\ w \in Slots /\ h[f] \in Nat /\ h[f] > 0 /\ h[w] \in Nat
  <2>1. f \in Slots /\ w \in Slots
    BY <1>t, <1>o
  <2>2. h[f] \in Nat \ {0} /\ h[w] \in Nat \ {0}
    BY <2>1, <1>h
  <2> QED
    BY <2>1, <2>2
<1>2. h[w] = h[f] + 1
  <2>1. h[p] = h[f] + (IF p = p /\ g = g THEN 1 ELSE 0) + (IF n[p].red THEN 0 ELSE 1)
    BY <1>h
  <2>2. h[p] = h[w] + (IF p = p /\ o = g THEN 1 ELSE 0) + (IF n[p].red THEN 0 ELSE 1)
    BY <1>h, <1>o
  <2>3. (IF p = p /\ g = g THEN 1 ELSE 0) = 1 /\ (IF p = p /\ o = g THEN 1 ELSE 0) = 0
    BY <1>o
  <2>4. h[p] = h[f] + 1 + (IF n[p].red THEN 0 ELSE 1) /\ h[p] = h[w] + 0 + (IF n[p].red THEN 0 ELSE 1)
    BY <2>1, <2>2, <2>3
  <2> QED
    BY <2>4, <1>1
<1>3. h[w] > 1
  BY <1>1, <1>2
<1>4. w # Head0
  BY <1>3, <1>h
<1>5. w \in U /\ n[w].parent = p
  BY <1>4, <1>t, <1>o
<1>6. w # p /\ f # p /\ f # w
  <2>1. n[p][g] # p /\ n[p][o] # p /\ (n[p][g] = n[p][Other(g)] => n[p][g] = Head0)
    BY <1>n, <1>o DEF NearBy
  <2> QED
    BY <2>1, <1>4
<1>7. ASSUME NEW t \in Sides PROVE n[w][t] \in Slots /\ n[w][t] # w /\ n[w][t] # p
  <2>1. n[w][t] # w
    BY <1>5, <1>n, ZenonT(40) DEF NearBy
  <2>2. n[w][t] # p
    <3>1. ASSUME n[w][t] = p PROVE FALSE
      <4>1. n[p].parent = w /\ p # Head0
        BY <3>1, <1>5, <1>t, <1>a
      <4>2. Hung(n, U, D, p)
        BY HungIs
      <4>3. w \notin D[p]
        BY <4>1, <4>2, <1>5, <1>a DEF Hung
      <4>4. w \in D[n[p][o]] /\ D[n[p][o]] \in SUBSET D[p]
        BY <1>4, <1>n, <1>o DEF NearBy
      <4> QED
        BY <4>3, <4>4
    <3> QED
      BY <3>1
  <2> QED
    BY <2>1, <2>2, <1>5, <1>t
<1>8. p \in Slots /\ p # Head0
  BY <1>a
<1> QED
  BY <1>a, <1>o, <1>t, <1>r, <1>h, <1>1, <1>2, <1>3, <1>4, <1>5, <1>6, <1>7, <1>8 DEF Around

\* A red sibling comes up: the next one is black.
SiblingBlack(n, m, k, U, D, p, g) ==
  /\ \E E, e : Short(m, k, U, E, e, p, g) /\ E[n[p][g]] = D[n[p][g]]
  /\ m[p][g] = n[p][g]
  /\ ~m[m[p][Other(g)]].red

\* After BlackSibling the sibling is black.
LEMMA BlackSiblingIs ==
  ASSUME NEW n, NEW k, NEW U, NEW D, NEW h, NEW p, NEW g, Short(n, k, U, D, h, p, g)
  PROVE  SiblingBlack(n, BlackSibling(n, p, g), k, U, D, p, g)
<1>u. /\ Tree(n, U, D) /\ Outers(n, U) /\ (\A z \in Slots : n[z].key = k[z].key)
      /\ p \in U /\ g \in Sides /\ Colored(n, U, h, p, g) /\ AllCalm(n, U, Head0)
      /\ ~n[Root(n)].red /\ ~n[n[p][g]].red
  BY DEF Short
<1>f. PICK f : f = n[p][g]
  OBVIOUS
<1>o. PICK o : o = Other(g)
  OBVIOUS
<1>w. PICK w : w = n[p][o]
  OBVIOUS
<1>1. Around(n, U, D, h, p, f, w, g, o)
  BY <1>u, <1>f, <1>o, <1>w, SiblingIs
<1>2. CASE ~n[w].red
  <2>1. BlackSibling(n, p, g) = n
    BY <1>2, <1>o, <1>w DEF BlackSibling
  <2> QED
    BY <2>1, <1>2, <1>o, <1>w DEF SiblingBlack
<1>3. CASE n[w].red
  <2>a. /\ p \in Slots /\ w \in Slots /\ w \in U /\ w # Head0 /\ w # p /\ n \in Pool /\ o \in Sides /\ g = Other(o)
        /\ f # p /\ f # w /\ f \in Slots /\ p # Head0 /\ Head0 \in Slots /\ ~n[Head0].red
        /\ (\A t \in Sides : n[w][t] \in Slots /\ n[w][t] # w /\ n[w][t] # p)
    BY <1>1 DEF Around
  <2>b. ~n[p].red /\ \A t \in Sides : ~n[n[w][t]].red
    <3>1. \A z \in U, t \in Sides : ~(n[z].red /\ n[n[z][t]].red)
      <4>1. \A z \in U, t \in Sides : n[z].red /\ n[n[z][t]].red => n[z][t] = Head0
        BY <1>u DEF AllCalm, Calm
      <4> QED
        BY <4>1, <2>a
    <3> QED
      BY <3>1, <2>a, <1>u, <1>w, <1>3
  <2>j. PICK j : j = Paint(Paint(n, w, FALSE), p, TRUE)
    OBVIOUS
  <2>m. PICK m : m = Rotate(j, p, g)
    OBVIOUS
  <2>1. BlackSibling(n, p, g) = m
    BY <1>3, <1>o, <1>w, <2>j, <2>m DEF BlackSibling
  <2>2. Red2(n, j, w, FALSE, p, TRUE)
    BY <2>a, <2>j, Red2Is
  <2>3. Redone(n, j) /\ \A z \in Slots : j[z].red = IF z = p THEN TRUE ELSE IF z = w THEN FALSE ELSE n[z].red
    BY <2>2 DEF Red2
  <2>r. Redone(n, j)
    BY <2>3
  <2>4. (\E E : Spun(n, m, U, D, E, p, g, w)) /\ \A z \in Slots : m[z].red = j[z].red
    <3>1. w = n[p][Other(g)]
      BY <1>o, <1>w
    <3> QED
      BY <1>u, <2>a, <2>m, <2>r, <3>1, SpunIs
  <2>5. PICK E : Spun(n, m, U, D, E, p, g, w)
    BY <2>4
  <2>c. n[p].red = FALSE
    BY <2>a, <2>b, PoolFacts
  <2>6. Swapped(n, m, p, w)
    BY <2>3, <2>4, <2>c DEF Swapped
  <2>7. Colored(m, U, [h EXCEPT ![p] = h[w], ![w] = h[p]], p, g)
    <3>1. w = n[p][Other(g)] /\ p # w
      BY <1>o, <1>w, <2>a
    <3> QED
      BY <3>1, <1>u, <1>3, <2>a, <2>5, <2>6, SpunColors
  <2>8. AllCalm(m, U, Head0)
    <3>1. BlackBelow(n, p, g, w)
      BY <2>b, <1>u DEF BlackBelow
    <3>2. Lifted(n, m, U, D, E, p, g, w)
      BY <3>1, <1>u, <1>o, <1>w, <1>3, <2>a, <2>5, <2>6 DEF Lifted
    <3> QED
      BY <3>2, <1>u, SpunCalm
  <2>9. Tree(m, U, E) /\ Outers(m, U) /\ \A z \in Slots : m[z].key = k[z].key
    BY <2>5, <1>u DEF Spun
  <2>d. \A z \in Slots : z # p /\ ~n[z].red => ~m[z].red
    BY <2>3, <2>4
  <2>e. ~m[w].red
    BY <2>3, <2>4, <2>a
  <2>10. ~m[Root(m)].red
    <3>1. Root(m) = IF p = Root(n) THEN w ELSE Root(n)
      BY <2>5 DEF Spun
    <3>2. Root(n) \in Slots
      BY <1>u, RootFacts
    <3> QED
      BY <3>1, <3>2, <2>d, <2>e, <1>u
  <2>11. m[p][g] = f /\ m[p][o] = n[w][g]
    BY <2>5, <1>o, <1>f DEF Spun
  <2>12. ~m[f].red /\ ~m[n[w][g]].red
    BY <2>a, <2>b, <2>d, <1>f, <1>u
  <2>13. Short(m, k, U, E, [h EXCEPT ![p] = h[w], ![w] = h[p]], p, g)
    BY <2>7, <2>8, <2>9, <2>10, <2>11, <2>12, <1>u DEF Short
  <2>14. E[f] = D[f]
    BY <2>5, <2>a DEF Spun
  <2> QED
    BY <2>1, <2>11, <2>12, <2>13, <2>14, <1>f, <1>o DEF SiblingBlack
<1> QED
  BY <1>2, <1>3

\* The far child of the sibling is red.
NephewRed(n, m, k, U, p, g) ==
  /\ \E E, e : Short(m, k, U, E, e, p, g)
  /\ m[p][g] = n[p][g]
  /\ ~m[m[p][Other(g)]].red /\ m[m[m[p][Other(g)]][Other(g)]].red

\* After RedNephew its child on the far side is red.
LEMMA RedNephewIs ==
  ASSUME NEW n, NEW k, NEW U, NEW D, NEW h, NEW p, NEW g, Short(n, k, U, D, h, p, g),
         ~n[n[p][Other(g)]].red,
         NEW t0 \in Sides, n[n[n[p][Other(g)]][t0]].red
  PROVE  NephewRed(n, RedNephew(n, p, g), k, U, p, g)
<1>u. /\ Tree(n, U, D) /\ Outers(n, U) /\ (\A z \in Slots : n[z].key = k[z].key)
      /\ p \in U /\ g \in Sides /\ Colored(n, U, h, p, g) /\ AllCalm(n, U, Head0)
      /\ ~n[Root(n)].red /\ ~n[n[p][g]].red
  BY DEF Short
<1>f. PICK f : f = n[p][g]
  OBVIOUS
<1>o. PICK o : o = Other(g)
  OBVIOUS
<1>w. PICK w : w = n[p][o]
  OBVIOUS
<1>1. Around(n, U, D, h, p, f, w, g, o)
  BY <1>u, <1>f, <1>o, <1>w, SiblingIs
<1>b. ~n[w].red /\ n[n[w][t0]].red
  BY <1>o, <1>w
<1>2. CASE n[n[w][o]].red
  <2>1. RedNephew(n, p, g) = n
    BY <1>2, <1>o, <1>w DEF RedNephew
  <2> QED
    BY <2>1, <1>2, <1>b, <1>o, <1>w DEF NephewRed
<1>3. CASE ~n[n[w][o]].red
  <2>a. /\ p \in Slots /\ w \in Slots /\ w \in U /\ w # Head0 /\ w # p /\ n \in Pool /\ o \in Sides /\ g = Other(o)
        /\ f # p /\ f # w /\ f \in Slots /\ p # Head0 /\ Head0 \in Slots /\ ~n[Head0].red /\ n[w].parent = p
        /\ (\A t \in Sides : n[w][t] \in Slots /\ n[w][t] # w /\ n[w][t] # p)
        /\ (\A t \in Sides : t = g \/ t = o)
        /\ (\A z \in U, t \in Sides : n[z][t] # Head0 => n[z][t] \in U /\ n[n[z][t]].parent = z)
        /\ (\A z \in U : z \in Slots)
    BY <1>1 DEF Around
  <2>v. PICK v : v = n[w][g]
    OBVIOUS
  <2>b. n[v].red
    BY <1>3, <1>b, <2>a, <2>v
  <2>c. v # Head0 /\ v \in U /\ n[v].parent = w /\ v \in Slots /\ v # w /\ v # p
    BY <2>a, <2>b, <2>v, <1>u
  <2>d. ~n[n[v][o]].red
    <3>1. n[v].red /\ n[n[v][o]].red => n[v][o] = Head0
      BY <1>u, <2>c, <2>a DEF AllCalm, Calm
    <3> QED
      BY <3>1, <2>a, <2>b
  <2>j. PICK j : j = Paint(Paint(n, v, FALSE), w, TRUE)
    OBVIOUS
  <2>m. PICK m : m = Rotate(j, w, o)
    OBVIOUS
  <2>1. RedNephew(n, p, g) = m
    BY <1>3, <1>o, <1>w, <2>j, <2>m, <2>v DEF RedNephew
  <2>2. Red2(n, j, v, FALSE, w, TRUE)
    BY <2>a, <2>c, <2>j, Red2Is
  <2>3. Redone(n, j) /\ \A z \in Slots : j[z].red = IF z = w THEN TRUE ELSE IF z = v THEN FALSE ELSE n[z].red
    BY <2>2 DEF Red2
  <2>r. Redone(n, j)
    BY <2>3
  <2>4. (\E E : Spun(n, m, U, D, E, w, o, v)) /\ \A z \in Slots : m[z].red = j[z].red
    <3>1. v = n[w][Other(o)]
      BY <2>a, <2>v
    <3> QED
      BY <1>u, <2>a, <2>c, <2>m, <2>r, <3>1, SpunIs
  <2>5. PICK E : Spun(n, m, U, D, E, w, o, v)
    BY <2>4
  <2>e. n[w].red = FALSE
    BY <2>a, <1>b, PoolFacts
  <2>6. Swapped(n, m, w, v)
    BY <2>3, <2>4, <2>e DEF Swapped
  <2>7. Colored(m, U, [h EXCEPT ![w] = h[v], ![v] = h[w]], p, g)
    <3>1. v = n[w][Other(o)] /\ p # v /\ p # w /\ w \in U /\ v \in U /\ o \in Sides /\ p \in Slots /\ n[v].red
          /\ Tree(n, U, D) /\ g \in Sides
      BY <2>a, <2>b, <2>c, <2>v, <1>u
    <3> QED
      BY <3>1, <1>u, <2>5, <2>6, SpunColors
  <2>8. AllCalm(m, U, Head0)
    <3>1. BlackBelow(n, w, o, v)
      BY <2>d, <1>3, <1>b DEF BlackBelow
    <3>2. Lifted(n, m, U, D, E, w, o, v)
      BY <3>1, <1>u, <2>v, <2>b, <2>c, <2>a, <2>5, <2>6 DEF Lifted
    <3> QED
      BY <3>2, <1>u, SpunCalm
  <2>9. Tree(m, U, E) /\ Outers(m, U) /\ \A z \in Slots : m[z].key = k[z].key
    BY <2>5, <1>u DEF Spun
  <2>f. \A z \in Slots : z # w /\ ~n[z].red => ~m[z].red
    BY <2>3, <2>4
  <2>g. m[w].red /\ ~m[v].red
    BY <2>3, <2>4, <2>a, <2>c, ZenonT(40)
  <2>10. ~m[Root(m)].red
    <3>1. Root(m) = IF w = Root(n) THEN v ELSE Root(n)
      BY <2>5 DEF Spun
    <3>2. Root(n) \in Slots
      BY <1>u, RootFacts
    <3> QED
      BY <3>1, <3>2, <2>f, <2>g, <1>u
  <2>11. m[p][g] = f /\ m[p][o] = v /\ m[v][o] = w
    <3>1. \A z \in U \ {w, v}, t \in Sides : m[z][t] = IF n[z][t] = w THEN v ELSE n[z][t]
      BY <2>5 DEF Spun
    <3>2. p \in U \ {w, v}
      BY <2>a, <2>c, <1>u
    <3>3. m[v][o] = w
      BY <2>5 DEF Spun
    <3> QED
      BY <3>1, <3>2, <3>3, <2>a, <1>f, <1>w, <1>u
  <2>12. ~m[f].red
    BY <2>a, <2>f, <1>f, <1>u
  <2>13. Short(m, k, U, E, [h EXCEPT ![w] = h[v], ![v] = h[w]], p, g)
    BY <2>7, <2>8, <2>9, <2>10, <2>11, <2>12, <1>u DEF Short
  <2> QED
    BY <2>1, <2>11, <2>13, <2>g, <1>f, <1>o DEF NephewRed
<1> QED
  BY <1>2, <1>3

\* A node has its parent where it hangs, and not below.
LEMMA NotAbove ==
  ASSUME NEW n, NEW U, NEW D, Tree(n, U, D), NEW x \in U, NEW y \in D[x], NEW t \in Sides
  PROVE  n[y][t] # x
<1>1. ASSUME n[y][t] = x PROVE FALSE
  <2>1. y \in U /\ x # Head0
    BY Nested, RootFacts
  <2>2. n[x].parent = y
    BY <1>1, <2>1 DEF Tree, Links
  <2>3. Hung(n, U, D, x)
    BY HungIs
  <2>4. y # Head0
    BY <2>1, RootFacts
  <2> QED
    BY <2>2, <2>3, <2>4 DEF Hung
<1> QED
  BY <1>1

\* The sibling v comes up, and p is black below it: nothing is missing any more.
LEMMA BorrowedIs ==
  ASSUME NEW n, NEW k, NEW U, NEW D, NEW h, NEW p, NEW g, Short(n, k, U, D, h, p, g),
         ~n[n[p][Other(g)]].red, n[n[n[p][Other(g)]][Other(g)]].red
  PROVE  Borrowed(n, p, g) \in Pool /\ Sound(Paint(Borrowed(n, p, g), n[p][g], FALSE), k, U)
<1>u. /\ Tree(n, U, D) /\ Outers(n, U) /\ (\A z \in Slots : n[z].key = k[z].key)
      /\ p \in U /\ g \in Sides /\ Colored(n, U, h, p, g) /\ AllCalm(n, U, Head0)
      /\ ~n[Root(n)].red /\ ~n[n[p][g]].red
  BY DEF Short
<1>f. PICK f : f = n[p][g]
  OBVIOUS
<1>o. PICK o : o = Other(g)
  OBVIOUS
<1>v. PICK v : v = n[p][o]
  OBVIOUS
<1>r. PICK r : r = n[v][o]
  OBVIOUS
<1>c. PICK c : c = n[v][g]
  OBVIOUS
<1>1. Around(n, U, D, h, p, f, v, g, o)
  BY <1>u, <1>f, <1>o, <1>v, SiblingIs
<1>b. ~n[v].red /\ n[r].red
  BY <1>o, <1>v, <1>r
<1>a. /\ p \in Slots /\ v \in Slots /\ v \in U /\ v # Head0 /\ v # p /\ n \in Pool /\ o \in Sides /\ g = Other(o)
      /\ f # p /\ f # v /\ f \in Slots /\ p # Head0 /\ Head0 \in Slots /\ ~n[Head0].red /\ n[v].parent = p
      /\ (\A t \in Sides : n[v][t] \in Slots /\ n[v][t] # v /\ n[v][t] # p)
      /\ (\A t \in Sides : t = g \/ t = o) /\ o # g
      /\ (\A z \in U : z \in Slots /\ z # Head0 /\ n[z].red \in BOOLEAN) /\ U \in SUBSET Nodes /\ Head0 \notin U
  BY <1>1 DEF Around
<1>l. \A z \in U, t \in Sides : n[z][t] \in Slots /\ (n[z][t] # Head0 => n[z][t] \in U /\ n[n[z][t]].parent = z)
  BY <1>1 DEF Around
<1>2. r # Head0 /\ r \in U /\ n[r].parent = v /\ r \in Slots /\ r # v /\ r # p /\ r # f
  BY <1>a, <1>b, <1>l, <1>r, <1>f, <1>u
<1>3. c \in Slots /\ c # v /\ c # p /\ c # r
  <2>1. c \in Slots /\ c # v /\ c # p
    BY <1>a, <1>c, <1>u
  <2>2. c # r
    <3>1. NearBy(n, U, D, v)
      BY <1>u, <1>a, Near
    <3>2. n[v][g] = n[v][Other(g)] => n[v][g] = Head0
      BY <3>1, <1>u DEF NearBy
    <3> QED
      BY <3>2, <1>2, <1>c, <1>r, <1>o
  <2> QED
    BY <2>1, <2>2
\* The children of r.
<1>4. ASSUME NEW t \in Sides PROVE n[r][t] \notin {p, v, r} /\ n[r][t] \in Slots
  <2>1. NearBy(n, U, D, p) /\ NearBy(n, U, D, v) /\ NearBy(n, U, D, r)
    BY <1>u, <1>a, <1>2, Near
  <2>2. v \in D[p] /\ r \in D[v]
    <3>1. v \in D[n[p][o]] /\ D[n[p][o]] \in SUBSET D[p]
      BY <2>1, <1>a, <1>v DEF NearBy
    <3>2. r \in D[n[v][o]] /\ D[n[v][o]] \in SUBSET D[v]
      BY <2>1, <1>2, <1>r, <1>a DEF NearBy
    <3> QED
      BY <3>1, <3>2
  <2>3. r \in D[p]
    BY <2>2, <1>u, Nested
  <2>4. n[r][t] # p /\ n[r][t] # v /\ n[r][t] # r
    <3>1. n[r][t] # p
      BY <2>3, <1>u, NotAbove
    <3>2. n[r][t] # v
      BY <2>2, <1>u, <1>a, NotAbove
    <3> QED
      BY <3>1, <3>2, <2>1 DEF NearBy
  <2> QED
    BY <2>4, <1>l, <1>2
<1>h. /\ h \in [Slots -> Nat \ {0}] /\ h[Head0] = 1 /\ h[v] = h[f] + 1
      /\ \A z \in U, t \in Sides : h[z] = h[n[z][t]] + (IF z = p /\ t = g THEN 1 ELSE 0) + (IF n[z].red THEN 0 ELSE 1)
  BY <1>1, <1>u DEF Around, Colored
\* The heights.
<1>5. /\ h[f] \in Nat \ {0} /\ h[c] = h[f] /\ h[r] = h[f] /\ h[p] = h[f] + 1 + (IF n[p].red THEN 0 ELSE 1)
      /\ \A t \in Sides : h[n[r][t]] = h[f]
  <2>1. h[f] \in Nat \ {0} /\ h[c] \in Nat /\ h[r] \in Nat /\ h[p] \in Nat
    BY <1>h, <1>a, <1>2, <1>3
  <2>2. h[v] = h[c] + 0 + 1 /\ h[v] = h[r] + 0 + 1
    <3>1. /\ h[v] = h[c] + (IF v = p /\ g = g THEN 1 ELSE 0) + (IF n[v].red THEN 0 ELSE 1)
          /\ h[v] = h[r] + (IF v = p /\ o = g THEN 1 ELSE 0) + (IF n[v].red THEN 0 ELSE 1)
      BY <1>h, <1>a, <1>c, <1>r, <1>u
    <3> QED
      BY <3>1, <1>a, <1>b
  <2>3. h[c] = h[f] /\ h[r] = h[f]
    BY <2>1, <2>2, <1>h
  <2>4. h[p] = h[f] + 1 + (IF n[p].red THEN 0 ELSE 1)
    <3>1. h[p] = h[f] + (IF p = p /\ g = g THEN 1 ELSE 0) + (IF n[p].red THEN 0 ELSE 1)
      BY <1>h, <1>f, <1>u
    <3> QED
      BY <3>1
  <2>5. ASSUME NEW t \in Sides PROVE h[n[r][t]] = h[f]
    <3>1. h[r] = h[n[r][t]] + (IF r = p /\ t = g THEN 1 ELSE 0) + (IF n[r].red THEN 0 ELSE 1)
      BY <1>h, <1>2
    <3>2. (IF r = p /\ t = g THEN 1 ELSE 0) = 0 /\ (IF n[r].red THEN 0 ELSE 1) = 0
      BY <1>2, <1>b
    <3>3. h[n[r][t]] \in Nat
      BY <1>4, <1>h
    <3>4. h[r] = h[n[r][t]] + 0 + 0
      BY <3>1, <3>2
    <3>5. h[r] = h[n[r][t]]
      BY <3>3, <3>4, PlusNothing
    <3> QED
      BY <3>5, <2>3
  <2> QED
    BY <2>1, <2>3, <2>4, <2>5
<1>j. PICK j : j = Paint(Paint(Paint(n, v, n[p].red), p, FALSE), r, FALSE)
  OBVIOUS
<1>m. PICK m : m = Rotate(j, p, g)
  OBVIOUS
<1>6. Borrowed(n, p, g) = m
  BY <1>j, <1>m, <1>o, <1>v, <1>r DEF Borrowed
<1>7. Red3(n, j, v, n[p].red, p, FALSE, r, FALSE)
  <2>1. n[p].red \in BOOLEAN /\ FALSE \in BOOLEAN
    BY <1>a, <1>u
  <2>2. n \in Pool /\ p \in Slots /\ v \in Slots /\ r \in Slots
    BY <1>a, <1>2
  <2>3. Red3(n, Paint(Paint(Paint(n, v, n[p].red), p, FALSE), r, FALSE), v, n[p].red, p, FALSE, r, FALSE)
    BY <2>1, <2>2, Red3Is
  <2> QED
    BY <2>3, <1>j
<1>8. Redone(n, j)
  BY <1>7 DEF Red3
<1>9. (\E E : Spun(n, m, U, D, E, p, g, v)) /\ \A z \in Slots : m[z].red = j[z].red
  <2>1. v = n[p][Other(g)]
    BY <1>o, <1>v
  <2> QED
    BY <1>u, <1>a, <1>m, <1>8, <2>1, SpunIs
<1>10. PICK E : Spun(n, m, U, D, E, p, g, v)
  BY <1>9
<1>11. /\ ~m[p].red /\ ~m[r].red /\ (m[v].red <=> n[p].red)
       /\ \A z \in Slots : z \notin {p, r, v} => (m[z].red <=> n[z].red)
  BY <1>7, <1>9, <1>a, <1>2, ZenonT(40) DEF Red3
<1>12. Tree(m, U, E) /\ Outers(m, U) /\ (\A z \in Slots : m[z].key = k[z].key) /\ m \in Pool
  <2>1. Tree(m, U, E) /\ Outers(m, U) /\ \A z \in Slots : m[z].key = k[z].key
    BY <1>10, <1>u DEF Spun
  <2> QED
    BY <2>1 DEF Tree, Links
<1>13. /\ m[p][g] = f /\ m[p][o] = c /\ m[v][g] = p /\ m[v][o] = r
       /\ \A z \in U \ {p, v}, t \in Sides : n[z][t] # v /\ m[z][t] = IF n[z][t] = p THEN v ELSE n[z][t]
  BY <1>10, <1>o, <1>f, <1>c, <1>r DEF Spun
<1>e. PICK e : e = [[[h EXCEPT ![p] = h[f] + 1] EXCEPT ![r] = h[f] + 1] EXCEPT ![v] = h[p]]
  OBVIOUS
<1>14. /\ e \in [Slots -> Nat \ {0}] /\ e[p] = h[f] + 1 /\ e[r] = h[f] + 1 /\ e[v] = h[p]
       /\ \A z \in Slots : z \notin {p, r, v} => e[z] = h[z]
  <2>1. h[f] + 1 \in Nat \ {0} /\ h[p] \in Nat \ {0}
    BY <1>5, <1>h, <1>a
  <2> QED
    BY <2>1, <1>e, <1>h, <1>a, <1>2
<1>15. ASSUME NEW z \in U, NEW t \in Sides PROVE e[z] = e[m[z][t]] + (IF m[z].red THEN 0 ELSE 1)
  <2>1. CASE z = p
    <3>1. m[z][t] \in {f, c}
      BY <2>1, <1>13, <1>a
    <3>2. e[m[z][t]] = h[f]
      BY <3>1, <1>14, <1>2, <1>3, <1>5, <1>a
    <3>3. (IF m[z].red THEN 0 ELSE 1) = 1
      BY <2>1, <1>11
    <3> QED
      BY <3>2, <3>3, <2>1, <1>14
  <2>2. CASE z = v
    <3>1. m[z][t] \in {p, r}
      BY <2>2, <1>13, <1>a
    <3>2. e[m[z][t]] = h[f] + 1
      BY <3>1, <1>14
    <3>3. (IF m[z].red THEN 0 ELSE 1) = (IF n[p].red THEN 0 ELSE 1)
      BY <2>2, <1>11
    <3>4. e[z] = h[f] + 1 + (IF n[p].red THEN 0 ELSE 1)
      BY <2>2, <1>14, <1>5
    <3> QED
      BY <3>2, <3>3, <3>4
  <2>3. CASE z = r
    <3>1. m[z][t] = n[r][t]
      BY <2>3, <1>13, <1>4, <1>2
    <3>2. e[m[z][t]] = h[f]
      BY <3>1, <1>4, <1>5, <1>14
    <3>3. (IF m[z].red THEN 0 ELSE 1) = 1
      BY <2>3, <1>11
    <3> QED
      BY <3>2, <3>3, <2>3, <1>14
  <2>4. CASE z \notin {p, v, r}
    <3>1. h[z] = h[n[z][t]] + (IF n[z].red THEN 0 ELSE 1)
      <4>1. h[z] = h[n[z][t]] + (IF z = p /\ t = g THEN 1 ELSE 0) + (IF n[z].red THEN 0 ELSE 1)
        BY <1>h
      <4>2. (IF z = p /\ t = g THEN 1 ELSE 0) = 0 /\ h[n[z][t]] \in Nat
        BY <2>4, <1>h, <1>l
      <4>3. h[n[z][t]] + 0 = h[n[z][t]]
        BY <4>2, PlusNothing
      <4> QED
        BY <4>1, <4>2, <4>3
    <3>2. e[m[z][t]] = h[n[z][t]]
      <4>1. CASE n[z][t] = p
        BY <4>1, <2>4, <1>13, <1>14
      <4>2. CASE n[z][t] # p
        <5>1. m[z][t] = n[z][t] /\ n[z][t] # v
          BY <4>2, <2>4, <1>13
        <5>2. n[z][t] # r
          BY <2>4, <1>l, <1>2
        <5> QED
          BY <5>1, <5>2, <4>2, <1>14, <1>l
      <4> QED
        BY <4>1, <4>2
    <3>3. e[z] = h[z] /\ (IF m[z].red THEN 0 ELSE 1) = (IF n[z].red THEN 0 ELSE 1)
      BY <2>4, <1>11, <1>14, <1>a
    <3> QED
      BY <3>1, <3>2, <3>3
  <2> QED
    BY <2>1, <2>2, <2>3, <2>4
<1>16. Colored(m, U, e, Head0, "left")
  <2>1. ASSUME NEW z \in U, NEW t \in Sides
        PROVE  e[z] = e[m[z][t]] + (IF z = Head0 /\ t = "left" THEN 1 ELSE 0) + (IF m[z].red THEN 0 ELSE 1)
    <3>1. (IF z = Head0 /\ t = "left" THEN 1 ELSE 0) = 0
      BY <1>a
    <3>2. m[z][t] \in Slots
      BY <1>12, <1>a, PoolFacts
    <3>3. e[m[z][t]] \in Nat
      BY <3>2, <1>14
    <3>4. e[m[z][t]] + 0 = e[m[z][t]]
      BY <3>3, PlusNothing
    <3> QED
      BY <3>1, <3>4, <1>15
  <2>2. e[Head0] = 1 /\ ~m[Head0].red
    BY <1>14, <1>11, <1>h, <1>a, <1>2
  <2> QED
    BY <2>1, <2>2, <1>14 DEF Colored, Even
<1>17. AllCalm(m, U, Head0)
  <2>1. ASSUME NEW z \in U, NEW t \in Sides, m[z].red, m[m[z][t]].red PROVE FALSE
    <3>1. z # p /\ z # r
      BY <2>1, <1>11
    <3>2. z # v
      <4>1. m[v][t] \in {p, r}
        BY <1>13, <1>a
      <4> QED
        BY <4>1, <2>1, <1>11
    <3>3. n[z].red
      BY <2>1, <3>1, <3>2, <1>11, <1>a
    <3>4. n[n[z][t]].red
      <4>1. CASE n[z][t] = p
        <5>1. m[z][t] = v
          BY <4>1, <3>1, <3>2, <1>13
        <5> QED
          BY <5>1, <4>1, <2>1, <1>11
      <4>2. CASE n[z][t] # p
        <5>1. m[z][t] = n[z][t] /\ n[z][t] # v
          BY <4>2, <3>1, <3>2, <1>13
        <5> QED
          BY <5>1, <4>2, <2>1, <1>11, <1>l
      <4> QED
        BY <4>1, <4>2
    <3>5. n[z][t] = Head0
      BY <3>3, <3>4, <1>u DEF AllCalm, Calm
    <3> QED
      BY <3>4, <3>5, <1>a
  <2> QED
    BY <2>1 DEF AllCalm, Calm
<1>18. ~m[Root(m)].red
  <2>1. Root(m) = IF p = Root(n) THEN v ELSE Root(n)
    BY <1>10 DEF Spun
  <2>2. Root(n) \in Slots /\ Root(n) # v
    <3>1. v = Root(n) => n[v].parent = Head0
      BY <1>u, <1>a DEF Tree, Links
    <3> QED
      BY <3>1, <1>u, <1>a, RootFacts
  <2> QED
    BY <2>1, <2>2, <1>11, <1>u
<1>19. Balanced(m, U)
  BY <1>16, <1>17 DEF Balanced
<1>20. ~m[f].red
  BY <1>11, <1>a, <1>2, <1>u, <1>f
<1>q. PICK q : q = Paint(m, f, FALSE)
  OBVIOUS
<1>21. Balanced(q, U)
  BY <1>12, <1>19, <1>20, <1>a, <1>q, BlackAlready
<1>22. Redone(m, q) /\ ~q[f].red /\ \A z \in Slots : z # f => (q[z].red <=> m[z].red)
  BY <1>12, <1>a, <1>q, BlackIs
<1>23. Tree(q, U, E) /\ Outers(q, U) /\ Root(q) = Root(m)
  BY <1>22, <1>12, RedoneTree
<1>24. ~q[Root(q)].red
  <2>1. Root(m) \in Slots
    BY <1>12, RootFacts
  <2> QED
    BY <2>1, <1>18, <1>22, <1>23
<1>25. \A z \in Slots : q[z].key = k[z].key
  BY <1>22, <1>12 DEF Redone
<1>26. Sound(q, k, U)
  BY <1>21, <1>23, <1>24, <1>25 DEF Sound
<1> QED
  BY <1>26, <1>12, <1>6, <1>q, <1>f

-----------------------------------------------------------------------------
(* The loop of the balance of erase *)

\* The state between the turns of the loop of erase: the ways through f lack a
\* black node, and the red pairs are at f.
Lacks(n, k, U, D, h, f, p, g) ==
  /\ Tree(n, U, D) /\ Outers(n, U) /\ \A z \in Slots : n[z].key = k[z].key
  /\ g \in Sides /\ Colored(n, U, h, p, g) /\ Tame(n, U, f)
  /\ n[Root(n)].red => Root(n) = f
  /\ (f = Root(n) /\ p = Head0) \/ (p \in U /\ n[p][g] = f)

\* The sibling is painted red: the ways from p down lack a black node now.
LEMMA StepUp ==
  ASSUME NEW n, NEW k, NEW U, NEW D, NEW h, NEW p, NEW g, Short(n, k, U, D, h, p, g),
         NEW o, o = Other(g), NEW w, w = n[p][o], ~n[w].red, \A t \in Sides : ~n[n[w][t]].red,
         NEW m, m = Paint(n, w, TRUE)
  PROVE  \E e, d : Lacks(m, k, U, D, e, p, m[p].parent, d)
<1>u. /\ Tree(n, U, D) /\ Outers(n, U) /\ (\A z \in Slots : n[z].key = k[z].key)
      /\ p \in U /\ g \in Sides /\ Colored(n, U, h, p, g) /\ AllCalm(n, U, Head0)
      /\ ~n[Root(n)].red /\ ~n[n[p][g]].red
  BY DEF Short
<1>f. PICK f : f = n[p][g]
  OBVIOUS
<1>1. Around(n, U, D, h, p, f, w, g, o)
  BY <1>u, <1>f, SiblingIs
<1>a. /\ p \in Slots /\ w \in Slots /\ w \in U /\ w # Head0 /\ w # p /\ n \in Pool /\ o \in Sides /\ g = Other(o)
      /\ f # p /\ f # w /\ f \in Slots /\ p # Head0 /\ Head0 \in Slots /\ ~n[Head0].red /\ n[w].parent = p
      /\ (\A t \in Sides : n[w][t] \in Slots /\ n[w][t] # w /\ n[w][t] # p)
      /\ (\A t \in Sides : t = g \/ t = o) /\ o # g
      /\ (\A z \in U : z \in Slots /\ z # Head0 /\ n[z].red \in BOOLEAN) /\ U \in SUBSET Nodes /\ Head0 \notin U
      /\ h[f] \in Nat /\ h[w] = h[f] + 1 /\ h[w] \in Nat /\ h[w] > 1
  BY <1>1 DEF Around
<1>l. \A z \in U, t \in Sides : n[z][t] \in Slots /\ (n[z][t] # Head0 => n[z][t] \in U /\ n[n[z][t]].parent = z)
  BY <1>1 DEF Around
<1>h. /\ h \in [Slots -> Nat \ {0}] /\ h[Head0] = 1
      /\ \A z \in U, t \in Sides : h[z] = h[n[z][t]] + (IF z = p /\ t = g THEN 1 ELSE 0) + (IF n[z].red THEN 0 ELSE 1)
  BY <1>1, <1>u DEF Around, Colored
<1>b. PICK b : b = n[p].parent
  OBVIOUS
<1>2. Redone(n, m) /\ m[w].red /\ \A z \in Slots : z # w => (m[z].red <=> n[z].red)
  <2>1. RedSet(n, m, w, TRUE)
    BY <1>a, Painted
  <2> QED
    BY <2>1, <1>a, Zenon DEF RedSet, Redone
<1>3. Tree(m, U, D) /\ Outers(m, U) /\ Root(m) = Root(n)
  <2>1. Redone(n, m)
    BY <1>2
  <2>2. Tree(n, U, D) /\ Outers(n, U)
    BY <1>u
  <2> QED
    BY <2>1, <2>2, RedoneTree
<1>4. (\A z \in Slots : m[z].key = k[z].key) /\ m[p].parent = b /\ \A z \in Slots, t \in Sides : m[z][t] = n[z][t]
  <2>1. Redone(n, m)
    BY <1>2
  <2>2. m[p].parent = n[p].parent /\ (\A z \in Slots : m[z].key = n[z].key) /\ \A z \in Slots, t \in Sides : m[z][t] = n[z][t]
    BY <2>1, <1>a DEF Redone
  <2> QED
    BY <2>2, <1>u, <1>b
\* Where p hangs.
<1>5. PICK d \in Sides : /\ \A z \in U, t \in Sides : n[z][t] = p <=> z = b /\ t = d
                         /\ (p = Root(n) /\ b = Head0) \/ (b \in U /\ n[b][d] = p)
  <2>1. \A z \in U, t \in Sides : n[z][t] = p => z = b
    BY <1>l, <1>a, <1>b
  <2>2. CASE p = Root(n)
    <3>1. b = Head0
      BY <2>2, <1>u, <1>b DEF Tree, Links
    <3> QED
      BY <2>1, <2>2, <3>1, <1>a, <1>u
  <2>3. CASE p # Root(n)
    <3>1. Hung(n, U, D, p)
      BY <1>u, HungIs
    <3>2. b \in U /\ \E t \in Sides : n[b][t] = p /\ n[b][Other(t)] # p
      BY <2>3, <3>1, <1>b DEF Hung
    <3>3. PICK t \in Sides : n[b][t] = p /\ n[b][Other(t)] # p
      BY <3>2
    <3> QED
      BY <2>1, <3>2, <3>3, SideFacts
  <2> QED
    BY <2>2, <2>3
<1>6. b # w /\ b # p
  <2>1. NearBy(n, U, D, p)
    BY <1>u, Near
  <2>2. b # w
    <3>1. b = w => b \in U
      BY <1>a
    <3> QED
      BY <1>5, <3>1, <1>a
  <2>3. b # p
    BY <2>1, <1>5 DEF NearBy
  <2> QED
    BY <2>2, <2>3
<1>7. /\ h[p] \in Nat /\ h[p] > 1 /\ h[p] = h[w] + (IF n[p].red THEN 0 ELSE 1)
      /\ \A t \in Sides : h[n[w][t]] \in Nat /\ h[w] = h[n[w][t]] + 1
  <2>1. h[p] = h[w] + (IF p = p /\ o = g THEN 1 ELSE 0) + (IF n[p].red THEN 0 ELSE 1)
    BY <1>h, <1>u, <1>a
  <2>2. (IF p = p /\ o = g THEN 1 ELSE 0) = 0 /\ h[p] \in Nat
    BY <1>a, <1>h
  <2>3. h[w] + 0 = h[w]
    BY <1>a, PlusNothing
  <2>4. h[p] = h[w] + (IF n[p].red THEN 0 ELSE 1)
    BY <2>1, <2>2, <2>3
  <2>5. h[p] > 1
    BY <2>2, <2>4, <1>a
  <2>6. ASSUME NEW t \in Sides PROVE h[n[w][t]] \in Nat /\ h[w] = h[n[w][t]] + 1
    <3>1. h[w] = h[n[w][t]] + (IF w = p /\ t = g THEN 1 ELSE 0) + (IF n[w].red THEN 0 ELSE 1)
      BY <1>h, <1>a
    <3>2. (IF w = p /\ t = g THEN 1 ELSE 0) = 0 /\ (IF n[w].red THEN 0 ELSE 1) = 1 /\ h[n[w][t]] \in Nat
      BY <1>a, <1>h
    <3>3. h[w] = h[n[w][t]] + 0 + 1
      BY <3>1, <3>2
    <3> QED
      BY <3>2, <3>3
  <2> QED
    BY <2>2, <2>4, <2>5, <2>6
<1>e. PICK e : e = [[h EXCEPT ![p] = h[p] - 1] EXCEPT ![w] = h[w] - 1]
  OBVIOUS
<1>8. /\ e \in [Slots -> Nat \ {0}] /\ e[p] = h[p] - 1 /\ e[w] = h[w] - 1
      /\ \A z \in Slots : z \notin {p, w} => e[z] = h[z]
  <2>1. h[p] - 1 \in Nat \ {0} /\ h[w] - 1 \in Nat \ {0}
    BY <1>7, <1>a, SMTT(30)
  <2> QED
    BY <2>1, <1>e, <1>h, <1>a
<1>9. ASSUME NEW z \in U, NEW t \in Sides
      PROVE  e[z] = e[m[z][t]] + (IF z = b /\ t = d THEN 1 ELSE 0) + (IF m[z].red THEN 0 ELSE 1)
  <2>a. m[z][t] = n[z][t] /\ n[z][t] \in Slots /\ z \in Slots
    BY <1>a, <1>l, <1>4, ZenonT(40)
  <2>1. CASE z = p
    <3>1. (IF z = b /\ t = d THEN 1 ELSE 0) = 0 /\ (IF m[z].red THEN 0 ELSE 1) = (IF n[p].red THEN 0 ELSE 1)
      BY <2>1, <1>6, <1>2, <1>a
    <3>2. e[n[z][t]] = h[f]
      <4>1. CASE t = g
        BY <4>1, <2>1, <1>f, <1>8, <1>a
      <4>2. CASE t = o
        <5>1. e[n[z][t]] = h[w] - 1
          BY <4>2, <2>1, <1>8
        <5> QED
          BY <5>1, <1>a
      <4> QED
        BY <4>1, <4>2, <1>a
    <3>3. h[p] - 1 = h[f] + (IF n[p].red THEN 0 ELSE 1)
      BY <1>7, <1>a
    <3>4. h[f] + 0 = h[f]
      BY <1>a, PlusNothing
    <3> QED
      BY <3>1, <3>2, <3>3, <3>4, <2>1, <2>a, <1>8
  <2>2. CASE z = w
    <3>1. (IF z = b /\ t = d THEN 1 ELSE 0) = 0 /\ (IF m[z].red THEN 0 ELSE 1) = 0
      BY <2>2, <1>6, <1>2
    <3>2. e[m[z][t]] = h[n[w][t]]
      BY <2>2, <2>a, <1>8, <1>a, Zenon
    <3>3. e[z] = h[w] - 1 /\ h[w] - 1 = h[n[w][t]]
      BY <2>2, <1>8, <1>7, <1>a, SMTT(30)
    <3>4. h[n[w][t]] + 0 + 0 = h[n[w][t]]
      BY <1>7
    <3> QED
      BY <3>1, <3>2, <3>3, <3>4
  <2>3. CASE z \notin {p, w}
    <3>1. h[z] = h[n[z][t]] + (IF n[z].red THEN 0 ELSE 1) /\ h[n[z][t]] \in Nat
      <4>1. h[z] = h[n[z][t]] + (IF z = p /\ t = g THEN 1 ELSE 0) + (IF n[z].red THEN 0 ELSE 1)
        BY <1>h
      <4>2. (IF z = p /\ t = g THEN 1 ELSE 0) = 0 /\ h[n[z][t]] \in Nat
        BY <2>3, <1>h, <1>l
      <4>3. h[n[z][t]] + 0 = h[n[z][t]]
        BY <4>2, PlusNothing
      <4> QED
        BY <4>1, <4>2, <4>3
    <3>2. e[z] = h[z] /\ (IF m[z].red THEN 0 ELSE 1) = (IF n[z].red THEN 0 ELSE 1)
      BY <2>3, <1>2, <1>8, <2>a
    <3>3. CASE z = b /\ t = d
      <4>1. n[z][t] = p
        BY <3>3, <1>5
      <4>2. e[n[z][t]] + (IF z = b /\ t = d THEN 1 ELSE 0) = h[n[z][t]]
        <5>1. e[n[z][t]] = h[p] - 1 /\ h[n[z][t]] = h[p] /\ (IF z = b /\ t = d THEN 1 ELSE 0) = 1
          BY <4>1, <3>3, <1>8
        <5>2. (h[p] - 1) + 1 = h[p]
          BY <1>7
        <5> QED
          BY <5>1, <5>2
      <4> QED
        BY <4>2, <3>1, <3>2, <2>a
    <3>4. CASE ~(z = b /\ t = d)
      <4>1. n[z][t] # p
        BY <3>4, <1>5
      <4>2. n[z][t] # w
        BY <2>3, <1>l, <1>a
      <4>3. e[n[z][t]] = h[n[z][t]] /\ (IF z = b /\ t = d THEN 1 ELSE 0) = 0
        BY <4>1, <4>2, <3>4, <1>8, <2>a
      <4>4. h[n[z][t]] + 0 = h[n[z][t]]
        BY <3>1, PlusNothing
      <4> QED
        BY <4>3, <4>4, <3>1, <3>2, <2>a
    <3> QED
      BY <3>3, <3>4
  <2> QED
    BY <2>1, <2>2, <2>3
<1>10. Colored(m, U, e, b, d)
  <2>1. e[Head0] = 1 /\ ~m[Head0].red
    BY <1>8, <1>2, <1>h, <1>a
  <2> QED
    BY <2>1, <1>8, <1>9 DEF Colored, Even
<1>11. Tame(m, U, p)
  <2>1. ASSUME NEW z \in U, NEW t \in Sides, m[z].red, m[m[z][t]].red, z # p, m[z][t] # p PROVE FALSE
    <3>0. m[z][t] = n[z][t] /\ n[z][t] \in Slots
      <4>1. z \in Slots
        BY <1>a
      <4>2. m[z][t] = n[z][t]
        BY <4>1, <1>4
      <4> QED
        BY <4>2, <1>l
    <3>9. n[z][t] # w
      <4>1. n[z][t] = w => n[w].parent = z
        BY <1>l, <1>a
      <4> QED
        BY <4>1, <2>1, <1>a
    <3>1. m[z][t] = n[z][t] /\ n[z][t] \in Slots /\ n[z][t] # w
      BY <3>0, <3>9
    <3>2. n[n[z][t]].red
      BY <3>1, <2>1, <1>2
    <3>3. z # w
      BY <3>2
    <3>4. n[z].red
      BY <3>3, <2>1, <1>2, <1>a
    <3>5. n[z][t] = Head0
      BY <3>2, <3>4, <1>u DEF AllCalm, Calm
    <3> QED
      BY <3>2, <3>5, <1>a
  <2> QED
    BY <2>1 DEF Tame
<1>12. ~m[Root(m)].red
  <2>1. Root(n) # w
    <3>1. w = Root(n) => n[w].parent = Head0
      BY <1>u, <1>a DEF Tree, Links
    <3> QED
      BY <3>1, <1>a
  <2>2. Root(n) \in Slots
    BY <1>u, RootFacts
  <2> QED
    BY <2>1, <2>2, <1>2, <1>3, <1>u
<1>13. (p = Root(m) /\ b = Head0) \/ (b \in U /\ m[b][d] = p)
  <2>1. b \in U => m[b][d] = n[b][d]
    <3>1. b \in U => b \in Slots
      BY <1>a
    <3> QED
      BY <3>1, <1>4
  <2>2. Root(m) = Root(n)
    BY <1>3
  <2> QED
    BY <2>1, <2>2, <1>5
<1>14. Lacks(m, k, U, D, e, p, b, d)
  BY <1>3, <1>4, <1>10, <1>11, <1>12, <1>13 DEF Lacks
<1> QED
  BY <1>14, <1>4

\* Where the loop stops at the root or at a red node, painting it black is all.
LEMMA StopIs ==
  ASSUME NEW n, NEW k, NEW U, NEW D, NEW h, NEW f, NEW p, NEW g, Lacks(n, k, U, D, h, f, p, g),
         f = Root(n) \/ n[f].red
  PROVE  Sound(Paint(n, f, FALSE), k, U)
<1>u. /\ Tree(n, U, D) /\ Outers(n, U) /\ (\A z \in Slots : n[z].key = k[z].key)
      /\ g \in Sides /\ Colored(n, U, h, p, g) /\ Tame(n, U, f)
      /\ (n[Root(n)].red => Root(n) = f)
      /\ ((f = Root(n) /\ p = Head0) \/ (p \in U /\ n[p][g] = f))
  BY DEF Lacks
<1>a. /\ n \in Pool /\ U \in SUBSET Nodes /\ Head0 \in Slots /\ Head0 \notin U /\ Root(n) \in U \cup {Head0}
      /\ (Root(n) = Head0 <=> U = {}) /\ ~n[Head0].red
      /\ \A z \in U : z \in Slots /\ z # Head0
  BY <1>u, RootFacts, SlotFacts DEF Colored
<1>l. \A z \in U, t \in Sides : n[z][t] \in Slots /\ (n[z][t] # Head0 => n[z][t] \in U /\ n[n[z][t]].parent = z)
  BY <1>a, <1>u, PoolFacts DEF Tree, Links
<1>1. f \in U \cup {Head0} /\ f \in Slots
  BY <1>u, <1>a, <1>l
<1>q. PICK q : q = Paint(n, f, FALSE)
  OBVIOUS
<1>2. Redone(n, q) /\ ~q[f].red /\ \A z \in Slots : z # f => (q[z].red <=> n[z].red)
  BY <1>1, <1>a, <1>q, BlackIs
<1>3. CASE n[f].red
  <2>1. f \in U
    BY <1>1, <1>3, <1>a
  <2>2. HangsAt(n, U, f, p, g)
    <3>1. CASE f = Root(n) /\ p = Head0
      <4>1. n[f].parent = Head0
        BY <3>1, <2>1, <1>u DEF Tree, Links
      <4>2. \A z \in U, t \in Sides : n[z][t] # f
        BY <4>1, <2>1, <1>l, <1>a
      <4> QED
        BY <4>2, <3>1, <1>a DEF HangsAt
    <3>2. CASE p \in U /\ n[p][g] = f
      <4>1. n[f].parent = p
        BY <3>2, <2>1, <1>l, <1>a, <1>u
      <4>2. NearBy(n, U, D, p)
        BY <3>2, <1>u, Near
      <4>3. n[p][Other(g)] # f
        <5>1. n[p][g] = n[p][Other(g)] => n[p][g] = Head0
          BY <4>2, <1>u DEF NearBy
        <5> QED
          BY <5>1, <3>2, <2>1, <1>a
      <4>4. \A z \in U, t \in Sides : n[z][t] = f => z = p
        BY <4>1, <2>1, <1>l, <1>a
      <4> QED
        BY <4>3, <4>4, <3>2, <1>u, SideFacts DEF HangsAt
    <3> QED
      BY <3>1, <3>2, <1>u
  <2>3. p # f
    <3>1. CASE p = Head0
      BY <3>1, <2>1, <1>a
    <3>2. CASE p \in U /\ n[p][g] = f
      <4>1. NearBy(n, U, D, p)
        BY <3>2, <1>u, Near
      <4> QED
        BY <4>1, <3>2, <1>u DEF NearBy
    <3> QED
      BY <3>1, <3>2, <1>u
  <2>4. Topped(n, U, D, h, f, p, g)
    BY <2>1, <2>2, <2>3, <1>3, <1>u DEF Topped
  <2> QED
    <3>1. Balanced(q, U)
      BY <2>4, <1>q, Blackened
    <3>2. Tree(q, U, D) /\ Outers(q, U) /\ Root(q) = Root(n)
      BY <1>2, <1>u, RedoneTree
    <3>3. ~q[Root(q)].red
      BY <3>2, <1>2, <1>u, <1>a
    <3>4. \A z \in Slots : q[z].key = k[z].key
      BY <1>2, <1>u DEF Redone
    <3> QED
      BY <3>1, <3>2, <3>3, <3>4, <1>q DEF Sound
<1>4. CASE ~n[f].red
  <2>1. f = Root(n)
    BY <1>4
  <2>2. p = Head0
    <3>1. ASSUME p \in U, n[p][g] = f PROVE FALSE
      <4>1. f # Head0
        BY <3>1, <2>1, <1>a
      <4>2. n[f].parent = p /\ f \in U
        BY <3>1, <4>1, <1>l, <1>u
      <4>3. n[f].parent = Head0
        BY <4>2, <2>1, <1>u DEF Tree, Links
      <4> QED
        BY <4>2, <4>3, <3>1, <1>a
    <3> QED
      BY <3>1, <1>u
  <2>3. Colored(n, U, h, Head0, "left")
    <3>1. ASSUME NEW z \in U PROVE Even(n, h, Head0, "left", z)
      <4>1. Even(n, h, Head0, g, z) /\ z # Head0
        BY <2>2, <1>u, <1>a DEF Colored
      <4> QED
        BY <4>1 DEF Even
    <3> QED
      BY <3>1, <1>u DEF Colored
  <2>4. AllCalm(n, U, Head0)
    <3>1. ASSUME NEW z \in U, NEW t \in Sides, n[z].red, n[n[z][t]].red PROVE FALSE
      BY <3>1, <1>4, <1>u DEF Tame
    <3> QED
      BY <3>1 DEF AllCalm, Calm
  <2>5. Balanced(n, U)
    BY <2>3, <2>4 DEF Balanced
  <2>6. Balanced(q, U)
    BY <2>5, <1>1, <1>4, <1>a, <1>q, BlackAlready
  <2>7. Tree(q, U, D) /\ Outers(q, U) /\ Root(q) = Root(n)
    BY <1>2, <1>u, RedoneTree
  <2>8. ~q[Root(q)].red
    BY <2>7, <2>1, <1>2
  <2>9. \A z \in Slots : q[z].key = k[z].key
    BY <1>2, <1>u DEF Redone
  <2> QED
    BY <2>6, <2>7, <2>8, <2>9, <1>q DEF Sound
<1> QED
  BY <1>3, <1>4

\* What holds before the turn i of the loop of erase.
EraseHas(n, f, p, stop, k, U, i) ==
  IF stop THEN Sound(Paint(n, f, FALSE), k, U)
  ELSE \E D, h, g : Lacks(n, k, U, D, h, f, p, g) /\ Cardinality(U \ D[f]) + i <= Capacity

EraseState == [n : Pool, f : Slots, p : Slots, stop : BOOLEAN]

\* A black f below p is a case of Short, and the turn knows its side.
LEMMA LacksShort ==
  ASSUME NEW n, NEW k, NEW U, NEW D, NEW h, NEW f, NEW p, NEW g, Lacks(n, k, U, D, h, f, p, g),
         f # Root(n), ~n[f].red
  PROVE  /\ Short(n, k, U, D, h, p, g) /\ n[p][g] = f /\ p \in U
         /\ (IF f = n[p].left THEN "left" ELSE "right") = g
<1>u. /\ Tree(n, U, D) /\ Outers(n, U) /\ (\A z \in Slots : n[z].key = k[z].key)
      /\ g \in Sides /\ Colored(n, U, h, p, g) /\ Tame(n, U, f) /\ ~n[Root(n)].red
      /\ p \in U /\ n[p][g] = f
  BY DEF Lacks
<1>1. AllCalm(n, U, Head0)
  <2>1. ASSUME NEW z \in U, NEW t \in Sides, n[z].red, n[n[z][t]].red PROVE FALSE
    BY <2>1, <1>u DEF Tame
  <2> QED
    BY <2>1 DEF AllCalm, Calm
<1>2. Short(n, k, U, D, h, p, g)
  BY <1>u, <1>1 DEF Short
<1>w. PICK o, w : o = Other(g) /\ w = n[p][o]
  OBVIOUS
<1>3. Around(n, U, D, h, p, f, w, g, o)
  BY <1>u, <1>w, SiblingIs
<1>4. f # w
  BY <1>3 DEF Around
<1>5. (IF f = n[p].left THEN "left" ELSE "right") = g
  <2>1. CASE g = "left"
    BY <2>1, <1>u
  <2>2. CASE g = "right"
    <3>1. w = n[p].left
      BY <2>2, <1>w, SideFacts
    <3> QED
      BY <3>1, <2>2, <1>4
  <2> QED
    BY <2>1, <2>2, <1>u, SideFacts
<1> QED
  BY <1>u, <1>2, <1>5

\* A turn of the loop of erase.
LEMMA EraseTurnIs ==
  ASSUME NEW n, NEW k, NEW U, NEW D, NEW h, NEW f, NEW p, NEW g, Lacks(n, k, U, D, h, f, p, g),
         NEW i \in Nat, Cardinality(U \ D[f]) + i <= Capacity,
         NEW r, r = EraseTurn(n, f, p)
  PROVE  r \in EraseState /\ EraseHas(r.n, r.f, r.p, r.stop, k, U, i + 1)
<1>u. /\ Tree(n, U, D) /\ g \in Sides
      /\ (f = Root(n) /\ p = Head0) \/ (p \in U /\ n[p][g] = f)
  BY DEF Lacks
<1>a. /\ n \in Pool /\ U \in SUBSET Nodes /\ Head0 \in Slots /\ Root(n) \in Slots
      /\ (\A z \in U : z \in Slots /\ z # Head0)
  BY <1>u, RootFacts, SlotFacts
<1>b. f \in Slots /\ p \in Slots
  BY <1>u, <1>a, PoolFacts
<1>1. CASE f = Root(n) \/ n[f].red
  <2>1. r = [n |-> n, f |-> f, p |-> p, stop |-> TRUE]
    BY <1>1, Zenon DEF EraseTurn
  <2>2. Sound(Paint(n, f, FALSE), k, U)
    BY <1>1, StopIs
  <2>3. r.n = n /\ r.f = f /\ r.p = p /\ r.stop = TRUE
    BY <2>1
  <2>4. r \in EraseState
    BY <2>1, <1>a, <1>b DEF EraseState
  <2> QED
    BY <2>2, <2>3, <2>4, Zenon DEF EraseHas
<1>2. CASE f # Root(n) /\ ~n[f].red
  <2>1. /\ Short(n, k, U, D, h, p, g) /\ n[p][g] = f /\ p \in U
        /\ (IF f = n[p].left THEN "left" ELSE "right") = g
    BY <1>2, LacksShort
  <2>n. PICK n1 : n1 = BlackSibling(n, p, g)
    OBVIOUS
  <2>w. PICK o, w : o = Other(g) /\ w = n1[p][o]
    OBVIOUS
  <2>2. SiblingBlack(n, n1, k, U, D, p, g)
    BY <2>1, <2>n, BlackSiblingIs
  <2>3. n1[p][g] = f /\ ~n1[w].red
    BY <2>1, <2>2, <2>w DEF SiblingBlack
  <2>4. PICK E, e : Short(n1, k, U, E, e, p, g) /\ E[f] = D[f]
    BY <2>1, <2>2 DEF SiblingBlack
  <2>5. Tree(n1, U, E) /\ g \in Sides /\ Colored(n1, U, e, p, g)
    BY <2>4 DEF Short
  <2>6. Around(n1, U, E, e, p, f, w, g, o)
    BY <2>5, <2>w, <2>1, <2>3, SiblingIs
  <2>7. w # Head0 /\ w \in Slots /\ n1 \in Pool /\ o \in Sides
    BY <2>6 DEF Around
  <2>8. CASE ~n1[n1[w].left].red /\ ~n1[n1[w].right].red
    <3>m. PICK m : m = Paint(n1, w, TRUE)
      BY Zenon
    <3>1. r = [n |-> m, f |-> p, p |-> m[p].parent, stop |-> FALSE]
      BY <2>8, <2>7, <2>n, <2>w, <2>1, <1>2, <3>m, Zenon DEF EraseTurn
    <3>2. \A t \in Sides : ~n1[n1[w][t]].red
      BY <2>8, SideFacts
    <3>3. PICK c, d : Lacks(m, k, U, E, c, p, m[p].parent, d)
      BY <2>4, <2>w, <2>3, <3>2, <3>m, StepUp
    <3>4. r.n = m /\ r.f = p /\ r.p = m[p].parent /\ r.stop = FALSE
      BY <3>1
    <3>5. m \in Pool
      BY <3>3 DEF Lacks, Tree, Links
    <3>6. r \in EraseState
      <4>1. m[p].parent \in Slots /\ p \in Slots
        BY <3>5, <1>b, PoolFacts
      <4> QED
        BY <4>1, <3>1, <3>5 DEF EraseState
    <3>7. Cardinality(U \ E[p]) + (i + 1) <= Capacity
      <4>1. NearBy(n1, U, E, p)
        BY <2>5, <2>1, Near
      <4>2. p \in E[p] /\ E[p] \in SUBSET U /\ E[f] \in SUBSET E[p] /\ p \notin E[f]
        BY <4>1, <2>3, <2>5 DEF NearBy
      <4>3. IsFiniteSet(U)
        BY <2>5, FiniteUnder
      <4>4. IsFiniteSet(U \ E[f])
        BY <4>3, FS_Subset
      <4>5. U \ E[p] \in SUBSET (U \ E[f]) /\ U \ E[p] # U \ E[f]
        BY <4>2, <2>1
      <4>6. /\ Cardinality(U \ E[f]) \in Nat /\ Cardinality(U \ E[p]) \in Nat
            /\ Cardinality(U \ E[p]) < Cardinality(U \ E[f])
        BY <4>4, <4>5, StrictSubset
      <4>7. Cardinality(U \ E[f]) + i <= Capacity
        BY <2>4
      <4>8. Capacity \in Nat
        BY SlotFacts
      <4> QED
        BY <4>6, <4>7, <4>8
    <3> QED
      BY <3>3, <3>4, <3>6, <3>7 DEF EraseHas
  <2>9. CASE ~(~n1[n1[w].left].red /\ ~n1[n1[w].right].red)
    <3>n. PICK n2 : n2 = RedNephew(n1, p, g)
      OBVIOUS
    <3>1. r = [n |-> Borrowed(n2, p, g), f |-> f, p |-> p, stop |-> TRUE]
      BY <2>9, <2>7, <2>n, <2>w, <2>1, <1>2, <3>n, Zenon DEF EraseTurn
    <3>2. PICK t \in Sides : n1[n1[w][t]].red
      BY <2>9, SideFacts
    <3>3. NephewRed(n1, n2, k, U, p, g)
      BY <2>4, <2>w, <2>3, <3>2, <3>n, RedNephewIs
    <3>4. PICK F, c : Short(n2, k, U, F, c, p, g)
      BY <3>3 DEF NephewRed
    <3>5. n2[p][g] = f /\ ~n2[n2[p][Other(g)]].red /\ n2[n2[n2[p][Other(g)]][Other(g)]].red
      BY <3>3, <2>3 DEF NephewRed
    <3>6. Borrowed(n2, p, g) \in Pool /\ Sound(Paint(Borrowed(n2, p, g), n2[p][g], FALSE), k, U)
      BY <3>4, <3>5, BorrowedIs
    <3>7. r.n = Borrowed(n2, p, g) /\ r.f = f /\ r.p = p /\ r.stop = TRUE
      BY <3>1
    <3>8. r \in EraseState
      BY <3>1, <3>6, <1>b DEF EraseState
    <3> QED
      BY <3>5, <3>6, <3>7, <3>8, Zenon DEF EraseHas
  <2> QED
    BY <2>8, <2>9
<1> QED
  BY <1>1, <1>2

\* The loop of erase restores the colors.
LEMMA EraseFixIs ==
  ASSUME NEW n, NEW k, NEW U, NEW D, NEW h, NEW f, NEW p, NEW g, Lacks(n, k, U, D, h, f, p, g)
  PROVE  Sound(EraseFix(n, f, p), k, U)
<1>t. PICK turn : turn = [t \in EraseState |-> IF t.stop THEN t ELSE EraseTurn(t.n, t.f, t.p)]
  OBVIOUS
<1>s. PICK start : start = [n |-> n, f |-> f, p |-> p, stop |-> FALSE]
  OBVIOUS
<1>J. PICK J : J = [i \in Nat |-> {t \in EraseState : EraseHas(t.n, t.f, t.p, t.stop, k, U, i)}]
  OBVIOUS
<1>u. /\ Tree(n, U, D) /\ g \in Sides
      /\ (f = Root(n) /\ p = Head0) \/ (p \in U /\ n[p][g] = f)
  BY DEF Lacks
<1>a. /\ n \in Pool /\ U \in SUBSET Nodes /\ Head0 \in Slots /\ Root(n) \in Slots
      /\ (\A z \in U : z \in Slots /\ z # Head0)
  BY <1>u, RootFacts, SlotFacts
<1>b. f \in Slots /\ p \in Slots
  BY <1>u, <1>a, PoolFacts
<1>1. start \in J[0]
  <2>1. start \in EraseState
    BY <1>s, <1>a, <1>b DEF EraseState
  <2>2. Cardinality(U \ D[f]) + 0 <= Capacity
    <3>1. IsFiniteSet(U) /\ Cardinality(U) \in Nat /\ Cardinality(U) <= Capacity
      BY <1>u, FiniteUnder
    <3>2. U \ D[f] \in SUBSET U
      OBVIOUS
    <3>3. Cardinality(U \ D[f]) \in Nat /\ Cardinality(U \ D[f]) <= Cardinality(U)
      BY <3>1, <3>2, FS_Subset, FS_CardinalityType
    <3>4. Capacity \in Nat
      BY SlotFacts
    <3> QED
      BY <3>1, <3>3, <3>4
  <2>3. EraseHas(n, f, p, FALSE, k, U, 0)
    BY <2>2 DEF EraseHas
  <2> QED
    BY <2>1, <2>3, <1>s, <1>J
<1>2. ASSUME NEW i \in Nat, NEW t \in J[i] PROVE turn[t] \in J[i + 1]
  <2>1. t \in EraseState /\ EraseHas(t.n, t.f, t.p, t.stop, k, U, i)
    BY <1>2, <1>J
  <2>2. i + 1 \in Nat
    OBVIOUS
  <2>3. CASE t.stop
    <3>1. turn[t] = t
      BY <2>1, <2>3, <1>t
    <3>2. EraseHas(t.n, t.f, t.p, t.stop, k, U, i + 1)
      BY <2>1, <2>3 DEF EraseHas
    <3> QED
      BY <3>1, <3>2, <2>1, <2>2, <1>J
  <2>4. CASE ~t.stop
    <3>r. PICK r : r = EraseTurn(t.n, t.f, t.p)
      OBVIOUS
    <3>1. turn[t] = r
      BY <2>1, <2>4, <1>t, <3>r
    <3>2. PICK E, e, d : Lacks(t.n, k, U, E, e, t.f, t.p, d) /\ Cardinality(U \ E[t.f]) + i <= Capacity
      BY <2>1, <2>4 DEF EraseHas
    <3>3. r \in EraseState /\ EraseHas(r.n, r.f, r.p, r.stop, k, U, i + 1)
      BY <3>2, <3>r, EraseTurnIs
    <3> QED
      BY <3>1, <3>3, <2>2, <1>J
  <2> QED
    BY <2>3, <2>4
<1>3. Loop(turn, start) \in J[Capacity + 1]
  BY <1>1, <1>2, LoopInvariant
<1>e. PICK end : end = Loop(turn, start)
  OBVIOUS
<1>4. Capacity \in Nat /\ Capacity + 1 \in Nat
  BY SlotFacts
<1>5. EraseHas(end.n, end.f, end.p, end.stop, k, U, Capacity + 1)
  BY <1>3, <1>4, <1>J, <1>e
<1>6. EraseFix(n, f, p) = Paint(end.n, end.f, FALSE)
  BY <1>t, <1>s, <1>e DEF EraseFix, EraseState
<1>7. CASE end.stop
  BY <1>5, <1>6, <1>7 DEF EraseHas
<1>8. CASE ~end.stop
  <2>1. PICK E, e, d : Lacks(end.n, k, U, E, e, end.f, end.p, d) /\ Cardinality(U \ E[end.f]) + (Capacity + 1) <= Capacity
    BY <1>5, <1>8 DEF EraseHas
  <2>2. IsFiniteSet(U)
    BY <1>u, FiniteUnder
  <2>3. IsFiniteSet(U \ E[end.f])
    BY <2>2, FS_Subset
  <2>4. Cardinality(U \ E[end.f]) \in Nat
    BY <2>3, FS_CardinalityType
  <2> QED
    BY <2>1, <2>4, <1>4
<1> QED
  BY <1>7, <1>8

-----------------------------------------------------------------------------
(* What a cut does to the colors *)

\* The colors where the ways through f at side g of p lack a black node.
Deficit(n, U, h, f, p, g) ==
  /\ g \in Sides /\ Colored(n, U, h, p, g) /\ Tame(n, U, f)
  /\ n[Root(n)].red => Root(n) = f
  /\ (f = Root(n) /\ p = Head0) \/ (p \in U /\ n[p][g] = f)

\* The colors where nothing is missing.
Smooth(n, U, h) == Colored(n, U, h, Head0, "left") /\ AllCalm(n, U, Head0) /\ ~n[Root(n)].red

\* Colors that lack nothing make a red-black tree.
LEMMA SmoothSound ==
  ASSUME NEW n, NEW k, NEW U, NEW D, Tree(n, U, D), Outers(n, U), \A z \in Slots : n[z].key = k[z].key,
         NEW h, Smooth(n, U, h)
  PROVE  Sound(n, k, U)
BY DEF Smooth, Sound, Balanced

\* Colors that lack a black node start the loop of erase.
LEMMA DeficitLacks ==
  ASSUME NEW n, NEW k, NEW U, NEW D, Tree(n, U, D), Outers(n, U), \A z \in Slots : n[z].key = k[z].key,
         NEW h, NEW f, NEW p, NEW g, Deficit(n, U, h, f, p, g)
  PROVE  Lacks(n, k, U, D, h, f, p, g)
BY DEF Deficit, Lacks

\* e with one child f at most is cut out: if it was black, the ways through f
\* lack a black node.
LEMMA CutColors ==
  ASSUME NEW n, NEW U, NEW D, Tree(n, U, D), NEW h, Smooth(n, U, h),
         NEW e \in U, NEW f, Lone(n, e, f), NEW m, CutOut(n, m, e, f)
  PROVE  /\ n[e].red => Smooth(m, U \ {e}, h)
         /\ ~n[e].red => \E g : Deficit(m, U \ {e}, h, f, n[e].parent, g)
<1>p. PICK p, V : p = n[e].parent /\ V = U \ {e}
  OBVIOUS
<1>u. Colored(n, U, h, Head0, "left") /\ AllCalm(n, U, Head0) /\ ~n[Root(n)].red
  BY DEF Smooth
<1>a. /\ n \in Pool /\ U \in SUBSET Nodes /\ Head0 \in Slots /\ Root(n) \in Slots /\ Head0 \notin U
      /\ (\A z \in U : z \in Slots /\ z # Head0 /\ z \in Nodes) /\ ~n[Head0].red
  BY <1>u, RootFacts, SlotFacts DEF Colored
<1>l. \A z \in U, t \in Sides : n[z][t] \in Slots /\ (n[z][t] # Head0 => n[z][t] \in U /\ n[n[z][t]].parent = z)
  BY <1>a, PoolFacts DEF Tree, Links
<1>f. f \in Slots /\ f # e /\ f \in U \cup {Head0} /\ \A t \in Sides : n[e][t] \in {f, Head0}
  BY LoneFacts
<1>h. /\ h \in [Slots -> Nat \ {0}] /\ h[Head0] = 1
      /\ \A z \in U, t \in Sides : h[z] = h[n[z][t]] + (IF n[z].red THEN 0 ELSE 1)
  <2>1. h \in [Slots -> Nat \ {0}] /\ h[Head0] = 1
    BY <1>u DEF Colored
  <2>2. ASSUME NEW z \in U, NEW t \in Sides PROVE h[z] = h[n[z][t]] + (IF n[z].red THEN 0 ELSE 1)
    <3>1. h[z] = h[n[z][t]] + (IF z = Head0 /\ t = "left" THEN 1 ELSE 0) + (IF n[z].red THEN 0 ELSE 1)
      BY <1>u DEF Colored, Even
    <3>2. (IF z = Head0 /\ t = "left" THEN 1 ELSE 0) = 0 /\ h[n[z][t]] \in Nat
      BY <2>1, <1>a, <1>l
    <3>3. h[n[z][t]] + 0 = h[n[z][t]]
      BY <3>2, PlusNothing
    <3> QED
      BY <3>1, <3>2, <3>3
  <2> QED
    BY <2>1, <2>2
<1>c. \A z \in U, t \in Sides : n[z].red /\ n[n[z][t]].red => FALSE
  BY <1>u, <1>a DEF AllCalm, Calm
\* m has the nodes of n, and f for e.
<1>1. /\ \A z \in Slots : m[z].red = n[z].red
      /\ Root(m) = IF e = Root(n) THEN f ELSE Root(n)
      /\ \A z \in V, t \in Sides : m[z][t] = IF n[z][t] = e THEN f ELSE n[z][t]
  <2>1. \A z \in Slots : m[z].red = n[z].red
    BY DEF CutOut
  <2>2. Root(m) = IF e = Root(n) THEN f ELSE Root(n)
    BY DEF CutOut
  <2>3. ASSUME NEW z \in V, NEW t \in Sides PROVE m[z][t] = IF n[z][t] = e THEN f ELSE n[z][t]
    <3>1. m[z][t] = IF e # Root(n) /\ z = n[e].parent /\ n[z][t] = e THEN f ELSE n[z][t]
      BY <1>p, <1>a DEF CutOut
    <3>2. n[z][t] = e => n[e].parent = z /\ e # Root(n)
      <4>1. n[z][t] = e => n[e].parent = z /\ z # Head0
        BY <1>l, <1>a, <1>p
      <4>2. e = Root(n) => n[e].parent = Head0
        BY DEF Tree, Links
      <4> QED
        BY <4>1, <4>2
    <3> QED
      BY <3>1, <3>2
  <2> QED
    BY <2>1, <2>2, <2>3
<1>2. CASE n[e].red
  <2>1. e # Root(n)
    BY <1>2, <1>u
  <2>2. \A t \in Sides : h[n[e][t]] = h[e]
    <3>1. ASSUME NEW t \in Sides PROVE h[n[e][t]] = h[e]
      <4>1. h[e] = h[n[e][t]] + 0
        BY <1>h, <1>2
      <4>2. h[n[e][t]] \in Nat
        BY <1>h, <1>l
      <4> QED
        BY <4>1, <4>2, PlusNothing
    <3> QED
      BY <3>1
  <2>3. h[f] = h[e]
    <3>1. PICK t \in Sides : n[e][t] = f
      BY DEF Lone
    <3> QED
      BY <3>1, <2>2
  <2>4. ASSUME NEW z \in V PROVE Even(m, h, Head0, "left", z)
    <3>1. ASSUME NEW t \in Sides
          PROVE  h[z] = h[m[z][t]] + (IF z = Head0 /\ t = "left" THEN 1 ELSE 0) + (IF m[z].red THEN 0 ELSE 1)
      <4>1. h[m[z][t]] = h[n[z][t]]
        BY <1>1, <2>3
      <4>2. (IF z = Head0 /\ t = "left" THEN 1 ELSE 0) = 0 /\ h[n[z][t]] \in Nat
        BY <1>p, <1>a, <1>h, <1>l
      <4>3. h[n[z][t]] + 0 = h[n[z][t]]
        BY <4>2, PlusNothing
      <4>4. (IF m[z].red THEN 0 ELSE 1) = (IF n[z].red THEN 0 ELSE 1)
        BY <1>1, <1>p, <1>a
      <4>5. h[z] = h[n[z][t]] + (IF n[z].red THEN 0 ELSE 1)
        BY <1>h, <1>p
      <4> QED
        BY <4>1, <4>2, <4>3, <4>4, <4>5
    <3> QED
      BY <3>1 DEF Even
  <2>5. Colored(m, V, h, Head0, "left")
    BY <2>4, <1>h, <1>1, <1>a DEF Colored
  <2>6. AllCalm(m, V, Head0)
    <3>1. ASSUME NEW z \in V, NEW t \in Sides, m[z].red, m[m[z][t]].red PROVE FALSE
      <4>1. z \in U /\ n[z].red
        BY <3>1, <1>1, <1>p, <1>a
      <4>2. n[z][t] # e
        BY <4>1, <1>2, <1>c
      <4>3. m[z][t] = n[z][t] /\ n[z][t] \in Slots
        BY <4>1, <4>2, <1>1, <1>l
      <4>4. n[n[z][t]].red
        BY <4>3, <3>1, <1>1
      <4> QED
        BY <4>1, <4>4, <1>c
    <3> QED
      BY <3>1 DEF AllCalm, Calm
  <2>7. ~m[Root(m)].red
    BY <2>1, <1>1, <1>u, <1>a
  <2> QED
    BY <2>5, <2>6, <2>7, <1>2, <1>p DEF Smooth
<1>3. CASE ~n[e].red
  <2>1. PICK g \in Sides : IF e = Root(n) THEN p = Head0 ELSE p \in V /\ \A z \in V, t \in Sides : n[z][t] = e <=> z = p /\ t = g
    <3>1. CASE e = Root(n)
      <4>1. p = Head0
        BY <3>1, <1>p DEF Tree, Links
      <4> QED
        BY <3>1, <4>1, SideFacts
    <3>2. CASE e # Root(n)
      <4>1. Hung(n, U, D, e)
        BY HungIs
      <4>2. p \in U /\ \E t \in Sides : n[p][t] = e /\ n[p][Other(t)] # e
        BY <3>2, <4>1, <1>p DEF Hung
      <4>3. PICK t \in Sides : n[p][t] = e /\ n[p][Other(t)] # e
        BY <4>2
      <4>4. p # e
        <5>1. NearBy(n, U, D, p)
          BY <4>2, Near
        <5> QED
          BY <5>1, <4>3 DEF NearBy
      <4>5. \A z \in V, s \in Sides : n[z][s] = e => z = p
        BY <1>l, <1>a, <1>p
      <4> QED
        BY <3>2, <4>2, <4>3, <4>4, <4>5, <1>p, SideFacts
    <3> QED
      BY <3>1, <3>2
  <2>2. \A t \in Sides : h[n[e][t]] + 1 = h[e]
    BY <1>h, <1>3
  <2>3. h[f] + 1 = h[e]
    <3>1. PICK t \in Sides : n[e][t] = f
      BY DEF Lone
    <3> QED
      BY <3>1, <2>2
  <2>4. ASSUME NEW z \in V PROVE Even(m, h, p, g, z)
    <3>1. ASSUME NEW t \in Sides
          PROVE  h[z] = h[m[z][t]] + (IF z = p /\ t = g THEN 1 ELSE 0) + (IF m[z].red THEN 0 ELSE 1)
      <4>1. (IF m[z].red THEN 0 ELSE 1) = (IF n[z].red THEN 0 ELSE 1)
        BY <1>1, <1>p, <1>a
      <4>2. h[z] = h[n[z][t]] + (IF n[z].red THEN 0 ELSE 1) /\ h[n[z][t]] \in Nat
        BY <1>h, <1>p, <1>l
      <4>3. h[m[z][t]] + (IF z = p /\ t = g THEN 1 ELSE 0) = h[n[z][t]]
        <5>1. CASE n[z][t] = e
          <6>1. e # Root(n)
            <7>1. e = Root(n) => n[e].parent = Head0
              BY DEF Tree, Links
            <7> QED
              BY <7>1, <5>1, <1>l, <1>a, <1>p
          <6>2. (IF z = p /\ t = g THEN 1 ELSE 0) = 1
            BY <5>1, <6>1, <2>1
          <6>3. m[z][t] = f
            BY <5>1, <1>1
          <6> QED
            BY <6>2, <6>3, <5>1, <2>3
        <5>2. CASE n[z][t] # e
          <6>1. (IF z = p /\ t = g THEN 1 ELSE 0) = 0
            BY <5>2, <2>1, <1>p, <1>a
          <6>2. m[z][t] = n[z][t]
            BY <5>2, <1>1
          <6> QED
            BY <6>1, <6>2, <4>2, PlusNothing
        <5> QED
          BY <5>1, <5>2
      <4> QED
        BY <4>1, <4>2, <4>3
    <3> QED
      BY <3>1 DEF Even
  <2>5. Colored(m, V, h, p, g)
    BY <2>4, <1>h, <1>1, <1>a DEF Colored
  <2>6. Tame(m, V, f)
    <3>1. ASSUME NEW z \in V, NEW t \in Sides, m[z].red, m[m[z][t]].red, m[z][t] # f PROVE FALSE
      <4>1. z \in U /\ n[z].red
        BY <3>1, <1>1, <1>p, <1>a
      <4>2. m[z][t] = n[z][t] /\ n[z][t] \in Slots
        BY <4>1, <3>1, <1>1, <1>l
      <4>3. n[n[z][t]].red
        BY <4>2, <3>1, <1>1
      <4> QED
        BY <4>1, <4>3, <1>c
    <3> QED
      BY <3>1 DEF Tame
  <2>7. m[Root(m)].red => Root(m) = f
    BY <1>1, <1>u, <1>a
  <2>8. (f = Root(m) /\ p = Head0) \/ (p \in V /\ m[p][g] = f)
    BY <2>1, <1>1
  <2>9. Deficit(m, V, h, f, p, g)
    BY <2>5, <2>6, <2>7, <2>8 DEF Deficit
  <2> QED
    BY <2>9, <1>3, <1>p
<1> QED
  BY <1>2, <1>3

\* m is n with x for e, r taking each node to the one in its place; the colors and
\* the heights j go along.
Moved(n, m, W, V, e, x, r, h, j) ==
  /\ W \in SUBSET Nodes /\ V \in SUBSET Nodes /\ e \in W /\ x \notin W /\ V = (W \ {e}) \cup {x} /\ Head0 \notin W /\ Head0 \notin V
  /\ r \in [W \cup {Head0} -> V \cup {Head0}] /\ r[Head0] = Head0 /\ r[e] = x
  /\ \A z \in W \cup {Head0} : z # e => r[z] = z
  /\ \A v \in V : \E z \in W : v = r[z]
  /\ \A y, z \in W \cup {Head0} : r[y] = r[z] => y = z
  /\ \A z \in W, t \in Sides : n[z][t] \in W \cup {Head0} /\ m[r[z]][t] = r[n[z][t]]
  /\ \A z \in W \cup {Head0} : (m[r[z]].red <=> n[z].red) /\ j[r[z]] = h[z]
  /\ Root(n) \in W \cup {Head0} /\ Root(m) = r[Root(n)]
  /\ j \in [Slots -> Nat \ {0}] /\ m[Head0].red = n[Head0].red

\* x has the color that e had.
Inherits(n, m, e, x) ==
  /\ \A z \in Slots : m[z].red <=> (IF z = x THEN n[e].red ELSE n[z].red)
  /\ m[Head0].red = n[Head0].red

\* The colors when the successor takes place and color of a node.
LEMMA MovedIs ==
  ASSUME NEW n, NEW m, NEW W, NEW D, Tree(n, W, D), NEW e \in W, NEW x \in Nodes \ W, Renamed(n, m, W, e, x),
         Inherits(n, m, e, x),
         NEW h \in [Slots -> Nat \ {0}], NEW V, V = (W \ {e}) \cup {x}
  PROVE  \E r, j : Moved(n, m, W, V, e, x, r, h, j)
<1>r. PICK r : r = [z \in W \cup {Head0} |-> IF z = e THEN x ELSE z]
  OBVIOUS
<1>j. PICK j : j = [h EXCEPT ![x] = h[e]]
  OBVIOUS
<1>a. /\ n \in Pool /\ W \in SUBSET Nodes /\ Head0 \in Slots /\ Root(n) \in W \cup {Head0} /\ Head0 \notin W
      /\ (\A z \in W : z \in Slots /\ z # Head0) /\ x \in Slots /\ x # Head0 /\ x # e /\ e # Head0 /\ e \in Slots
  BY RootFacts, SlotFacts
<1>l. \A z \in W, t \in Sides : n[z][t] \in W \cup {Head0}
  <2>1. ASSUME NEW z \in W, NEW t \in Sides PROVE n[z][t] \in W \cup {Head0}
    BY DEF Tree, Links
  <2> QED
    BY <2>1
<1>i. /\ \A z \in Slots : m[z].red <=> (IF z = x THEN n[e].red ELSE n[z].red)
      /\ m[Head0].red = n[Head0].red
  BY DEF Inherits
<1>1. \A z \in W \cup {Head0} : r[z] = IF z = e THEN x ELSE z
  BY <1>r
<1>2. r \in [W \cup {Head0} -> V \cup {Head0}] /\ r[Head0] = Head0 /\ r[e] = x
  BY <1>r, <1>a
<1>3. \A v \in V : \E z \in W : v = r[z]
  BY <1>1, <1>a
<1>4. \A y, z \in W \cup {Head0} : r[y] = r[z] => y = z
  BY <1>1, <1>a
<1>5. ASSUME NEW z \in W, NEW t \in Sides PROVE m[r[z]][t] = r[n[z][t]]
  <2>1. n[z][t] \in W \cup {Head0} /\ r[n[z][t]] = IF n[z][t] = e THEN x ELSE n[z][t]
    BY <1>1, <1>l
  <2>2. CASE z = e
    <3>1. m[x][t] = n[e][t]
      BY DEF Renamed
    <3>2. n[e][t] # e
      <4>1. NearBy(n, W, D, e)
        BY Near
      <4> QED
        BY <4>1 DEF NearBy
    <3> QED
      BY <3>1, <3>2, <2>1, <2>2, <1>2
  <2>3. CASE z # e
    <3>1. m[z][t] = IF n[z][t] = e THEN x ELSE n[z][t]
      BY <2>3 DEF Renamed
    <3> QED
      BY <3>1, <2>1, <2>3, <1>1
  <2> QED
    BY <2>2, <2>3
<1>6. \A z \in W \cup {Head0} : m[r[z]].red <=> n[z].red
  <2>1. ASSUME NEW z \in W \cup {Head0} PROVE m[r[z]].red <=> n[z].red
    <3>1. CASE z = e
      BY <3>1, <1>2, <1>a, <1>i
    <3>2. CASE z # e
      <4>1. r[z] = z /\ z # x /\ z \in Slots
        BY <3>2, <1>1, <1>a
      <4> QED
        BY <4>1, <1>i
    <3> QED
      BY <3>1, <3>2
  <2> QED
    BY <2>1
<1>7. \A z \in W \cup {Head0} : j[r[z]] = h[z]
  BY <1>1, <1>j, <1>a
<1>8. j \in [Slots -> Nat \ {0}]
  BY <1>j, <1>a
<1>9. Root(m) = r[Root(n)]
  <2>1. Root(m) = IF Root(n) = e THEN x ELSE Root(n)
    BY DEF Renamed
  <2> QED
    BY <2>1, <1>1, <1>a
<1>10. \A z \in W \cup {Head0} : z # e => r[z] = z
  BY <1>1
<1>11. V \in SUBSET Nodes /\ Head0 \notin V /\ x \notin W
  BY <1>a
<1>12. Moved(n, m, W, V, e, x, r, h, j)
  BY <1>a, <1>l, <1>2, <1>3, <1>4, <1>5, <1>6, <1>7, <1>8, <1>9, <1>10, <1>11, <1>i DEF Moved
<1> QED
  BY <1>12

\* The heights of the renamed tree.
LEMMA MovedColors ==
  ASSUME NEW n, NEW m, NEW W, NEW V, NEW e, NEW x, NEW r, NEW h, NEW j, Moved(n, m, W, V, e, x, r, h, j),
         NEW q \in W \cup {Head0}, NEW g, Colored(n, W, h, q, g)
  PROVE  Colored(m, V, j, r[q], g)
<1>1. ASSUME NEW v \in V, NEW t \in Sides
      PROVE  j[v] = j[m[v][t]] + (IF v = r[q] /\ t = g THEN 1 ELSE 0) + (IF m[v].red THEN 0 ELSE 1)
  <2>1. PICK z \in W : v = r[z]
    BY DEF Moved
  <2>2. h[z] = h[n[z][t]] + (IF z = q /\ t = g THEN 1 ELSE 0) + (IF n[z].red THEN 0 ELSE 1)
    BY DEF Colored, Even
  <2>3. m[v][t] = r[n[z][t]] /\ n[z][t] \in W \cup {Head0}
    BY <2>1 DEF Moved
  <2>4. j[v] = h[z] /\ j[m[v][t]] = h[n[z][t]]
    BY <2>1, <2>3 DEF Moved
  <2>5. (IF m[v].red THEN 0 ELSE 1) = (IF n[z].red THEN 0 ELSE 1)
    BY <2>1 DEF Moved
  <2>6. v = r[q] <=> z = q
    BY <2>1 DEF Moved
  <2>7. (IF v = r[q] /\ t = g THEN 1 ELSE 0) = (IF z = q /\ t = g THEN 1 ELSE 0)
    BY <2>6
  <2> QED
    BY <2>2, <2>4, <2>5, <2>7
<1>2. j[Head0] = 1 /\ ~m[Head0].red /\ j \in [Slots -> Nat \ {0}]
  BY DEF Moved, Colored
<1> QED
  BY <1>1, <1>2 DEF Colored, Even

\* What holds of the colors of the tree holds of those of the renamed one.
LEMMA MovedSmooth ==
  ASSUME NEW n, NEW m, NEW W, NEW V, NEW e, NEW x, NEW r, NEW h, NEW j, Moved(n, m, W, V, e, x, r, h, j),
         Smooth(n, W, h)
  PROVE  Smooth(m, V, j)
<1>1. Colored(m, V, j, Head0, "left")
  <2>1. Colored(m, V, j, r[Head0], "left")
    BY MovedColors DEF Smooth
  <2> QED
    BY <2>1 DEF Moved
<1>2. AllCalm(m, V, Head0)
  <2>1. ASSUME NEW v \in V, NEW t \in Sides, m[v].red, m[m[v][t]].red PROVE m[v][t] = Head0
    <3>1. PICK z \in W : v = r[z]
      BY DEF Moved
    <3>2. m[v][t] = r[n[z][t]] /\ n[z][t] \in W \cup {Head0}
      BY <3>1 DEF Moved
    <3>3. n[z].red /\ n[n[z][t]].red
      BY <2>1, <3>1, <3>2 DEF Moved
    <3>4. n[z][t] = Head0
      BY <3>3 DEF Smooth, AllCalm, Calm
    <3> QED
      BY <3>2, <3>4 DEF Moved
  <2> QED
    BY <2>1 DEF AllCalm, Calm
<1>3. ~m[Root(m)].red
  BY DEF Smooth, Moved
<1> QED
  BY <1>1, <1>2, <1>3 DEF Smooth

\* What was lacking before is lacking after.
LEMMA MovedDeficit ==
  ASSUME NEW n, NEW m, NEW W, NEW V, NEW e, NEW x, NEW r, NEW h, NEW j, Moved(n, m, W, V, e, x, r, h, j),
         NEW f \in W \cup {Head0}, f # e, NEW p, NEW g, Deficit(n, W, h, f, p, g)
  PROVE  Deficit(m, V, j, f, r[p], g)
<1>u. /\ g \in Sides /\ Colored(n, W, h, p, g) /\ Tame(n, W, f)
      /\ (n[Root(n)].red => Root(n) = f)
      /\ ((f = Root(n) /\ p = Head0) \/ (p \in W /\ n[p][g] = f))
  BY DEF Deficit
<1>f. r[f] = f
  BY DEF Moved
<1>1. Colored(m, V, j, r[p], g)
  BY <1>u, MovedColors
<1>2. Tame(m, V, f)
  <2>1. ASSUME NEW v \in V, NEW t \in Sides, m[v].red, m[m[v][t]].red PROVE v = f \/ m[v][t] = f
    <3>1. PICK z \in W : v = r[z]
      BY DEF Moved
    <3>2. m[v][t] = r[n[z][t]] /\ n[z][t] \in W \cup {Head0}
      BY <3>1 DEF Moved
    <3>3. n[z].red /\ n[n[z][t]].red
      BY <2>1, <3>1, <3>2 DEF Moved
    <3>4. z = f \/ n[z][t] = f
      BY <3>3, <1>u DEF Tame
    <3> QED
      BY <3>1, <3>2, <3>4, <1>f
  <2> QED
    BY <2>1 DEF Tame
<1>3. m[Root(m)].red => Root(m) = f
  BY <1>u, <1>f DEF Moved
<1>4. (f = Root(m) /\ r[p] = Head0) \/ (r[p] \in V /\ m[r[p]][g] = f)
  <2>1. CASE f = Root(n) /\ p = Head0
    BY <2>1, <1>f DEF Moved
  <2>2. CASE p \in W /\ n[p][g] = f
    <3>1. r[p] \in V
      BY <2>2 DEF Moved
    <3>2. m[r[p]][g] = r[n[p][g]]
      BY <2>2, <1>u DEF Moved
    <3> QED
      BY <3>1, <3>2, <2>2, <1>f
  <2> QED
    BY <2>1, <2>2, <1>u
<1> QED
  BY <1>1, <1>2, <1>3, <1>4, <1>u DEF Deficit

\* What is known of the keys does not depend on where they are read.
LEMMA SoundSelf ==
  ASSUME NEW n, NEW k, NEW U, Sound(n, k, U)
  PROVE  Sound(n, n, U)
BY DEF Sound

\* erase of one element, with the colors.
LEMMA ErasedIs ==
  ASSUME NEW n, NEW U, Sound(n, n, U), NEW e \in U
  PROVE  Sound(Erased(n, e), n, U \ {e})
<1>D. PICK D : Tree(n, U, D)
  BY DEF Sound
<1>h. PICK h : Smooth(n, U, h) /\ h \in [Slots -> Nat \ {0}]
  BY DEF Sound, Balanced, Smooth, Colored
<1>o. Outers(n, U)
  BY DEF Sound
<1>c. PICK c : c = Cut(n, e)
  OBVIOUS
<1>a. U \in SUBSET Nodes /\ n \in Pool /\ Head0 \notin U /\ Head0 \in Slots
  BY <1>D, RootFacts
<1>1. CASE Head0 \in {n[e].left, n[e].right}
  <2>f. PICK f : f = IF n[e].left = Head0 THEN n[e].right ELSE n[e].left
    OBVIOUS
  <2>1. c = CutLeaf(n, e, f)
    BY <1>1, <1>c, <2>f DEF Cut
  <2>2. Lone(n, e, f)
    <3>1. CASE n[e].left = Head0
      <4>1. n[e]["right"] = f /\ n[e][Other("right")] = Head0
        BY <3>1, <2>f, SideFacts
      <4> QED
        BY <4>1, SideFacts DEF Lone
    <3>2. CASE n[e].left # Head0
      <4>1. n[e]["left"] = f /\ n[e][Other("left")] = Head0
        BY <3>2, <1>1, <2>f, SideFacts
      <4> QED
        BY <4>1, SideFacts DEF Lone
    <3> QED
      BY <3>1, <3>2
  <2>E. PICK E : E = [z \in Slots |-> D[z] \ {e}]
    OBVIOUS
  <2>3. /\ CutOut(n, c.n, e, f) /\ Tree(c.n, U \ {e}, E) /\ Outers(c.n, U \ {e})
        /\ c.fix = f /\ c.above = n[e].parent /\ c.black = ~n[e].red
    <3>1. /\ CutOut(n, CutLeaf(n, e, f).n, e, f)
          /\ Tree(CutLeaf(n, e, f).n, U \ {e}, E) /\ Outers(CutLeaf(n, e, f).n, U \ {e})
          /\ CutLeaf(n, e, f).fix = f /\ CutLeaf(n, e, f).above = n[e].parent
          /\ CutLeaf(n, e, f).black = ~n[e].red
      <4>1. LeafCut(n, U, e, f, E, CutLeaf(n, e, f))
        BY <1>D, <1>o, <2>2, <2>E, CutLeafIs
      <4> QED
        BY <4>1 DEF LeafCut
    <3> QED
      BY <3>1, <2>1
  <2>4. \A z \in Slots : c.n[z].key = n[z].key
    BY <2>3 DEF CutOut
  <2>5. /\ n[e].red => Smooth(c.n, U \ {e}, h)
        /\ ~n[e].red => \E g : Deficit(c.n, U \ {e}, h, f, n[e].parent, g)
    BY <1>D, <1>h, <2>2, <2>3, CutColors
  <2>6. CASE n[e].red
    <3>1. Erased(n, e) = c.n
      BY <2>6, <2>3, <1>c DEF Erased
    <3>2. Sound(c.n, n, U \ {e})
      BY <2>3, <2>4, <2>5, <2>6, SmoothSound
    <3> QED
      BY <3>1, <3>2
  <2>7. CASE ~n[e].red
    <3>1. Erased(n, e) = EraseFix(c.n, f, n[e].parent)
      BY <2>7, <2>3, <1>c DEF Erased
    <3>2. PICK g : Deficit(c.n, U \ {e}, h, f, n[e].parent, g)
      BY <2>5, <2>7
    <3>3. Lacks(c.n, n, U \ {e}, E, h, f, n[e].parent, g)
      BY <2>3, <2>4, <3>2, DeficitLacks
    <3>4. Sound(EraseFix(c.n, f, n[e].parent), n, U \ {e})
      BY <3>3, EraseFixIs
    <3> QED
      BY <3>1, <3>4
  <2> QED
    BY <2>6, <2>7
<1>2. CASE ~(Head0 \in {n[e].left, n[e].right})
  <2>x. PICK x : x = Inc(n, e)
    OBVIOUS
  <2>1. c = CutInner(n, e, x)
    BY <1>2, <1>c, <2>x DEF Cut
  <2>2. PICK k : InnerCut(n, U, D, e, x, c, k)
    <3>1. n[e].left # Head0 /\ n[e].right # Head0
      BY <1>2
    <3> QED
      BY <3>1, <1>D, <1>o, <2>x, <2>1, CutInnerIs
  <2>W. PICK W, V, f, q : W = U \ {x} /\ V = U \ {e} /\ f = n[x].right /\ q = n[x].parent
    OBVIOUS
  <2>E. PICK F : F = [z \in Slots |-> D[z] \ {x}]
    OBVIOUS
  <2>3. /\ Successor(n, U, D, e, x) /\ CutOut(n, k, x, f) /\ Tree(k, W, F) /\ Renamed(k, c.n, W, e, x)
        /\ (\A z \in Slots : c.n[z].red = IF z = x THEN n[e].red ELSE n[z].red)
        /\ (\A z \in Slots : c.n[z].key = n[z].key)
        /\ Outers(c.n, V) /\ (\E E : Tree(c.n, V, E))
        /\ c.fix = f /\ c.black = ~n[x].red /\ c.above = IF q = e THEN x ELSE q
    BY <2>2, <2>W, <2>E DEF InnerCut
  <2>4. /\ x \in U /\ x # e /\ x # Root(n) /\ Lone(n, x, f)
    BY <2>3, <2>W DEF Successor
  <2>5. /\ n[x].red => Smooth(k, W, h)
        /\ ~n[x].red => \E g : Deficit(k, W, h, f, q, g)
    <3>1. /\ n[x].red => Smooth(k, U \ {x}, h)
          /\ ~n[x].red => \E g : Deficit(k, U \ {x}, h, f, n[x].parent, g)
      BY <1>D, <1>h, <2>3, <2>4, CutColors
    <3> QED
      BY <3>1, <2>W
  <2>6. e \in W /\ x \in Nodes \ W /\ V = (W \ {e}) \cup {x}
    BY <2>4, <2>W, <1>a
  <2>7. \A z \in Slots : k[z].red = n[z].red
    BY <2>3 DEF CutOut
  <2>8. Inherits(k, c.n, e, x)
    <3>1. e \in Slots /\ x # Head0
      BY <1>a, <2>6, SlotFacts
    <3> QED
      BY <2>3, <2>7, <3>1, <1>a DEF Inherits
  <2>9. PICK r, j : Moved(k, c.n, W, V, e, x, r, h, j)
    <3>1. h \in [Slots -> Nat \ {0}]
      BY <1>h
    <3> QED
      <4>1. Tree(k, W, F) /\ Renamed(k, c.n, W, e, x)
        BY <2>3
      <4> QED
        BY <4>1, <2>6, <2>8, <3>1, MovedIs
  <2>10. f \in W \cup {Head0} /\ f # e
    <3>1. f \in U \cup {Head0} /\ f # x /\ D[x] = {x} \cup D[f]
      BY <1>D, <2>4, LoneFacts
    <3>2. x \in D[n[e].right] /\ NearBy(n, U, D, e) /\ NearBy(n, U, D, x)
      BY <1>D, <2>3, <2>4, Near DEF Successor
    <3>3. f # e
      <4>1. f = e => e \in D[x]
        BY <3>1, <3>2 DEF NearBy
      <4>2. n[e].right \in U
        BY <3>2, <1>D, SideFacts, Through
      <4>3. D[x] \in SUBSET D[n[e].right]
        BY <4>2, <3>2, <1>D, Nested
      <4>4. e \notin D[n[e].right]
        BY <3>2, SideFacts DEF NearBy
      <4> QED
        BY <4>1, <4>3, <4>4
    <3> QED
      BY <3>1, <3>3, <2>W
  <2>11. PICK E : Tree(c.n, V, E)
    BY <2>3
  <2>12. CASE n[x].red
    <3>1. Erased(n, e) = c.n
      BY <2>12, <2>3, <1>c DEF Erased
    <3>2. Smooth(c.n, V, j)
      BY <2>5, <2>9, <2>12, MovedSmooth
    <3>3. Sound(c.n, n, V)
      BY <2>3, <2>11, <3>2, SmoothSound
    <3> QED
      BY <3>1, <3>3, <2>W
  <2>13. CASE ~n[x].red
    <3>1. PICK g : Deficit(k, W, h, f, q, g)
      BY <2>5, <2>13
    <3>2. Deficit(c.n, V, j, f, r[q], g)
      BY <3>1, <2>9, <2>10, MovedDeficit
    <3>3. q \in W \cup {Head0}
      BY <3>1 DEF Deficit
    <3>4. c.above = r[q]
      BY <3>3, <2>3, <2>9 DEF Moved
    <3>5. Erased(n, e) = EraseFix(c.n, f, r[q])
      BY <2>13, <2>3, <3>4, <1>c DEF Erased
    <3>6. Lacks(c.n, n, V, E, j, f, r[q], g)
      BY <2>3, <2>11, <3>2, DeficitLacks
    <3>7. Sound(EraseFix(c.n, f, r[q]), n, V)
      BY <3>6, EraseFixIs
    <3> QED
      BY <3>5, <3>7, <2>W
  <2> QED
    BY <2>12, <2>13
<1> QED
  BY <1>1, <1>2

-----------------------------------------------------------------------------
(* Lists of nodes, and erasing a range *)

\* s lists the nodes of A, each once.
Lists(s, A) ==
  /\ s \in Seq(Nodes) /\ A = {s[i] : i \in 1 .. Len(s)}
  /\ \A i, j \in 1 .. Len(s) : s[i] = s[j] => i = j

\* Sequences without repetition.
LEMMA ListsNone == Lists(<<>>, {})
BY DEF Lists

LEMMA ListsOne ==
  ASSUME NEW x \in Nodes
  PROVE  Lists(<<x>>, {x})
<1>1. <<x>> \in Seq(Nodes) /\ Len(<<x>>) = 1 /\ <<x>>[1] = x
  OBVIOUS
<1>2. 1 .. 1 = {1}
  OBVIOUS
<1> QED
  BY <1>1, <1>2 DEF Lists

LEMMA ListsBoth ==
  ASSUME NEW s, NEW A, NEW t, NEW B, Lists(s, A), Lists(t, B), A \cap B = {}
  PROVE  Lists(s \o t, A \cup B)
<1>u. PICK u : u = s \o t
  OBVIOUS
<1>1. /\ s \in Seq(Nodes) /\ t \in Seq(Nodes) /\ Len(s) \in Nat /\ Len(t) \in Nat
  BY DEF Lists
<1>2. /\ u \in Seq(Nodes) /\ Len(u) = Len(s) + Len(t)
      /\ \A i \in 1 .. Len(u) : u[i] = IF i <= Len(s) THEN s[i] ELSE t[i - Len(s)]
  BY <1>1, <1>u
<1>3. ASSUME NEW i \in 1 .. Len(u)
      PROVE  \/ i \in 1 .. Len(s) /\ u[i] = s[i] /\ u[i] \in A
             \/ i - Len(s) \in 1 .. Len(t) /\ i > Len(s) /\ u[i] = t[i - Len(s)] /\ u[i] \in B
  <2>1. CASE i <= Len(s)
    <3>1. i \in 1 .. Len(s)
      BY <1>1, <2>1
    <3>2. u[i] = s[i]
      BY <1>2, <2>1
    <3> QED
      BY <3>1, <3>2 DEF Lists
  <2>2. CASE ~(i <= Len(s))
    <3>1. i - Len(s) \in 1 .. Len(t) /\ i > Len(s)
      BY <1>1, <1>2, <2>2
    <3>2. u[i] = t[i - Len(s)]
      BY <1>2, <2>2
    <3> QED
      BY <3>1, <3>2 DEF Lists
  <2> QED
    BY <2>1, <2>2
<1>4. ASSUME NEW i \in 1 .. Len(s) PROVE i \in 1 .. Len(u) /\ u[i] = s[i]
  <2>1. i \in 1 .. Len(u) /\ i <= Len(s)
    BY <1>1, <1>2
  <2> QED
    BY <2>1, <1>2
<1>5. ASSUME NEW i \in 1 .. Len(t) PROVE i + Len(s) \in 1 .. Len(u) /\ u[i + Len(s)] = t[i]
  <2>1. i + Len(s) \in 1 .. Len(u) /\ ~(i + Len(s) <= Len(s)) /\ (i + Len(s)) - Len(s) = i
    BY <1>1, <1>2
  <2> QED
    BY <2>1, <1>2
<1>6. A \cup B = {u[i] : i \in 1 .. Len(u)}
  <2>1. ASSUME NEW x \in A PROVE x \in {u[i] : i \in 1 .. Len(u)}
    <3>1. PICK i \in 1 .. Len(s) : x = s[i]
      BY DEF Lists
    <3> QED
      BY <3>1, <1>4
  <2>2. ASSUME NEW x \in B PROVE x \in {u[i] : i \in 1 .. Len(u)}
    <3>1. PICK i \in 1 .. Len(t) : x = t[i]
      BY DEF Lists
    <3> QED
      BY <3>1, <1>5
  <2> QED
    BY <2>1, <2>2, <1>3
<1>7. ASSUME NEW i \in 1 .. Len(u), NEW j \in 1 .. Len(u), u[i] = u[j] PROVE i = j
  <2>1. CASE i \in 1 .. Len(s) /\ u[i] = s[i] /\ u[i] \in A
    <3>1. j \in 1 .. Len(s) /\ u[j] = s[j]
      BY <1>3, <1>7, <2>1
    <3> QED
      BY <2>1, <3>1, <1>7 DEF Lists
  <2>2. CASE i - Len(s) \in 1 .. Len(t) /\ i > Len(s) /\ u[i] = t[i - Len(s)] /\ u[i] \in B
    <3>1. j - Len(s) \in 1 .. Len(t) /\ u[j] = t[j - Len(s)]
      BY <1>3, <1>7, <2>2
    <3>2. i - Len(s) = j - Len(s)
      BY <2>2, <3>1, <1>7 DEF Lists
    <3> QED
      BY <3>2, <1>1
  <2> QED
    BY <2>1, <2>2, <1>3
<1>8. Lists(u, A \cup B)
  <2>1. u \in Seq(Nodes)
    BY <1>2
  <2>2. \A i, j \in 1 .. Len(u) : u[i] = u[j] => i = j
    BY <1>7
  <2> QED
    BY <2>1, <2>2, <1>6, Zenon DEF Lists
<1> QED
  BY <1>8, <1>u

\* The length of the list is the number of its nodes.
LEMMA ListsLong ==
  ASSUME NEW s, NEW A, Lists(s, A)
  PROVE  IsFiniteSet(A) /\ Cardinality(A) = Len(s) /\ Len(s) \in Nat /\ A \in SUBSET Nodes
<1>1. s \in Seq(Nodes) /\ Len(s) \in Nat /\ DOMAIN s = 1 .. Len(s)
  BY DEF Lists
<1>2. s \in [1 .. Len(s) -> A]
  BY <1>1 DEF Lists
<1>3. s \in Bijection(1 .. Len(s), A)
  BY <1>2 DEF Lists, Bijection, Injection, Surjection, IsInjective
<1>4. ExistsBijection(1 .. Len(s), A)
  BY <1>3 DEF ExistsBijection
<1>5. Cardinality(A) = Len(s)
  BY <1>1, <1>4, FS_CountingElements
<1>6. A \in SUBSET Nodes
  BY <1>1 DEF Lists
<1>7. IsFiniteSet(A)
  BY <1>6, SlotFacts, FS_Subset
<1> QED
  BY <1>1, <1>5, <1>6, <1>7

\* What is left when the first of the list is taken.
LEMMA ListsTail ==
  ASSUME NEW s, NEW A, Lists(s, A), s # <<>>
  PROVE  Head(s) \in A /\ Lists(Tail(s), A \ {Head(s)})
<1>1. s \in Seq(Nodes) /\ Len(s) \in Nat /\ Len(s) > 0
  BY DEF Lists
<1>2. /\ Tail(s) \in Seq(Nodes) /\ Len(Tail(s)) = Len(s) - 1 /\ Head(s) = s[1]
      /\ \A i \in 1 .. Len(s) - 1 : Tail(s)[i] = s[i + 1]
  BY <1>1
<1>t. PICK t : t = Tail(s)
  OBVIOUS
<1>3. 1 \in 1 .. Len(s) /\ s[1] \in A
  BY <1>1 DEF Lists
<1>4. ASSUME NEW i \in 1 .. Len(t) PROVE i + 1 \in 1 .. Len(s) /\ t[i] = s[i + 1] /\ t[i] \in A \ {s[1]}
  <2>1. i \in 1 .. Len(s) - 1 /\ i + 1 \in 1 .. Len(s) /\ i + 1 # 1
    BY <1>1, <1>2, <1>t
  <2>2. t[i] = s[i + 1]
    BY <2>1, <1>2, <1>t
  <2>3. s[i + 1] \in A /\ s[i + 1] # s[1]
    BY <2>1, <1>3 DEF Lists
  <2> QED
    BY <2>1, <2>2, <2>3
<1>5. ASSUME NEW x \in A \ {s[1]} PROVE x \in {t[i] : i \in 1 .. Len(t)}
  <2>1. PICK j \in 1 .. Len(s) : x = s[j]
    BY DEF Lists
  <2>2. j # 1
    BY <2>1
  <2>3. j - 1 \in 1 .. Len(t) /\ (j - 1) + 1 = j /\ j - 1 \in 1 .. Len(s) - 1
    BY <1>1, <1>2, <1>t, <2>2
  <2>4. t[j - 1] = s[j]
    BY <2>3, <1>2, <1>t
  <2> QED
    BY <2>1, <2>3, <2>4
<1>6. ASSUME NEW i \in 1 .. Len(t), NEW j \in 1 .. Len(t), t[i] = t[j] PROVE i = j
  <2>1. s[i + 1] = s[j + 1] /\ i + 1 \in 1 .. Len(s) /\ j + 1 \in 1 .. Len(s)
    BY <1>4, <1>6
  <2>2. i + 1 = j + 1
    BY <2>1 DEF Lists
  <2> QED
    BY <2>2
<1>7. A \ {s[1]} = {t[i] : i \in 1 .. Len(t)}
  BY <1>4, <1>5
<1>8. Lists(t, A \ {s[1]})
  <2>1. t \in Seq(Nodes)
    BY <1>2, <1>t
  <2>2. \A i, j \in 1 .. Len(t) : t[i] = t[j] => i = j
    BY <1>6
  <2> QED
    BY <2>1, <2>2, <1>7, Zenon DEF Lists
<1> QED
  BY <1>2, <1>3, <1>8, <1>t

\* The elements from a on and before b; b the head for all of them.
Part(n, U, a, b) == {z \in U : n[a].key <= n[z].key /\ (b = Head0 \/ n[z].key < n[b].key)}

\* What holds before the turn i of the loop of erase(first, last).
NotBeforeIn(n, x, y) == y = Head0 \/ n[x].key <= n[y].key

\* What holds before the turn i of erase(first, last), at x.
RangeHas(n, U, first, last, m, x, gone, i) ==
  /\ Lists(gone, Part(n, U, first, x)) /\ Sound(m, n, U \ Part(n, U, first, x))
  /\ x \in U \cup {Head0} /\ (x = Head0 => last = Head0)
  /\ x # Head0 => n[first].key <= n[x].key /\ NotBeforeIn(n, x, last)
  /\ x = last \/ Cardinality(Part(n, U, x, last)) + i <= Capacity

\* y is the next node after x for erase(first, last).
NextHas(n, U, first, last, x, y) ==
  /\ y \in U \cup {Head0} /\ (y = Head0 => last = Head0)
  /\ y # Head0 => n[x].key < n[y].key /\ NotBeforeIn(n, y, last)
  /\ x \notin Part(n, U, first, x)
  /\ Part(n, U, first, y) = Part(n, U, first, x) \cup {x}

SameKeys(n, m) == \A z \in Slots : m[z].key = n[z].key

\* What a turn of erase(first, last) takes is the next element.
LEMMA NextPart ==
  ASSUME NEW n, NEW U, NEW D, Tree(n, U, D), NEW first \in U, NEW last \in U \cup {Head0},
         NEW x \in U, n[first].key <= n[x].key, NotBeforeIn(n, x, last), x # last,
         NEW m, NEW E, Tree(m, U \ Part(n, U, first, x), E), SameKeys(n, m),
         NEW y, y = Inc(m, x)
  PROVE  NextHas(n, U, first, last, x, y)
<1>G. PICK G, V : G = Part(n, U, first, x) /\ V = U \ G
  OBVIOUS
<1>a. /\ n \in Pool /\ U \in SUBSET Nodes /\ Head0 \notin U /\ (\A z \in U : z \in Slots /\ n[z].key \in Nat /\ m[z].key = n[z].key)
  <2>1. n \in Pool /\ U \in SUBSET Nodes /\ Head0 \notin U
    BY RootFacts
  <2>2. \A z \in U : z \in Slots
    BY <2>1, SlotFacts
  <2> QED
    BY <2>1, <2>2, PoolFacts DEF SameKeys
<1>g. \A z \in U : z \in G <=> n[first].key <= n[z].key /\ n[z].key < n[x].key
  BY <1>G, <1>a DEF Part
<1>1. x \in V /\ x \notin G
  BY <1>g, <1>G, <1>a
<1>2. Adjacent(m, V, x, y, "right")
  BY <1>1, <1>G, IncIs
<1>r. \A a, b : Before("right", a, b) <=> b < a
  BY DEF Before
<1>3. CASE y = Head0
  <2>1. \A z \in V : z = x \/ n[z].key < n[x].key
    <3>1. Utmost(m, V, x, "right")
      BY <1>2, <1>3, <1>G, <1>a DEF Adjacent
    <3>2. ASSUME NEW z \in V PROVE z = x \/ n[z].key < n[x].key
      <4>1. z = x \/ m[z].key < m[x].key
        BY <3>1, <1>r DEF Utmost
      <4> QED
        BY <4>1, <1>a, <1>G
    <3> QED
      BY <3>2
  <2>2. last = Head0
    <3>1. ASSUME last \in U PROVE FALSE
      <4>1. n[x].key <= n[last].key
        BY <3>1, <1>a DEF NotBeforeIn
      <4>2. last \in V
        BY <3>1, <4>1, <1>g, <1>G, <1>a
      <4>3. n[last].key < n[x].key
        BY <4>2, <2>1
      <4> QED
        BY <3>1, <4>1, <4>3, <1>a
    <3> QED
      BY <3>1
  <2>3. ASSUME NEW z PROVE z \in Part(n, U, first, y) <=> z \in G \cup {x}
    <3>1. z \in Part(n, U, first, y) <=> z \in U /\ n[first].key <= n[z].key
      BY <1>3 DEF Part
    <3>2. z \in G => z \in U
      BY <1>G DEF Part
    <3>3. z \in U /\ z \notin G => z \in V
      BY <1>G
    <3> QED
      BY <3>1, <3>2, <3>3, <2>1, <1>g
  <2>4. Part(n, U, first, y) = G \cup {x}
    BY <2>3
  <2> QED
    BY <1>3, <2>2, <2>4, <1>1, <1>G DEF NextHas
<1>4. CASE y # Head0
  <2>1. /\ y \in V /\ n[x].key < n[y].key
        /\ \A z \in V : ~(n[x].key < n[z].key /\ n[z].key < n[y].key)
    <3>1. /\ y \in V /\ Before("right", m[y].key, m[x].key)
          /\ \A z \in V : ~(Before("right", m[z].key, m[x].key) /\ Before("right", m[y].key, m[z].key))
      BY <1>2, <1>4 DEF Adjacent
    <3>2. \A z \in V : m[z].key = n[z].key
      BY <1>a, <1>G
    <3> QED
      BY <3>1, <3>2, <1>1, <1>r
  <2>2. y \in U
    BY <2>1, <1>G
  <2>3. NotBeforeIn(n, y, last)
    <3>1. ASSUME last \in U PROVE n[y].key <= n[last].key
      <4>1. n[x].key <= n[last].key
        BY <3>1, <1>a DEF NotBeforeIn
      <4>2. n[x].key # n[last].key
        BY <3>1, KeysDiffer
      <4>3. last \in V
        BY <3>1, <4>1, <1>g, <1>G, <1>a
      <4> QED
        BY <4>1, <4>2, <4>3, <2>1, <2>2, <3>1, <1>a
    <3> QED
      BY <3>1 DEF NotBeforeIn
  <2>4. ASSUME NEW z \in U PROVE z \in Part(n, U, first, y) <=> z \in G \cup {x}
    <3>1. z \in Part(n, U, first, y) <=> n[first].key <= n[z].key /\ n[z].key < n[y].key
      BY <1>4 DEF Part
    <3>2. n[z].key = n[x].key => z = x
      BY KeysDiffer
    <3>3. z \notin G => ~(n[x].key < n[z].key /\ n[z].key < n[y].key)
      BY <2>1, <1>G
    <3>4. n[z].key \in Nat /\ n[x].key \in Nat /\ n[y].key \in Nat /\ n[first].key \in Nat
      BY <1>a, <2>2
    <3> QED
      BY <3>1, <3>2, <3>3, <3>4, <2>1, <1>g
  <2>5. Part(n, U, first, y) \in SUBSET U /\ G \in SUBSET U
    BY <1>G DEF Part
  <2>6. Part(n, U, first, y) = G \cup {x}
    BY <2>4, <2>5
  <2> QED
    BY <1>4, <2>1, <2>2, <2>3, <2>6, <1>1, <1>G DEF NextHas
<1> QED
  BY <1>3, <1>4

\* A turn of the loop of erase(first, last).
LEMMA RangeTurnIs ==
  ASSUME NEW n, NEW U, Sound(n, n, U), NEW first \in U, NEW last \in U \cup {Head0},
         NEW m, NEW x, NEW gone, NEW i \in Nat, RangeHas(n, U, first, last, m, x, gone, i), x # last
  PROVE  x \in U /\ RangeHas(n, U, first, last, Erased(m, x), Inc(m, x), <<x>> \o gone, i + 1)
<1>D. PICK D : Tree(n, U, D)
  BY DEF Sound
<1>G. PICK G, V, y : G = Part(n, U, first, x) /\ V = U \ G /\ y = Inc(m, x)
  OBVIOUS
<1>u. /\ Lists(gone, G) /\ Sound(m, n, V)
      /\ x \in U \cup {Head0} /\ (x = Head0 => last = Head0)
      /\ (x # Head0 => n[first].key <= n[x].key /\ NotBeforeIn(n, x, last))
      /\ Cardinality(Part(n, U, x, last)) + i <= Capacity
  BY <1>G DEF RangeHas
<1>a. n \in Pool /\ U \in SUBSET Nodes /\ Head0 \notin U /\ Capacity \in Nat /\ \A z \in U : z \in Nodes /\ z \in Slots /\ n[z].key \in Nat
  <2>1. n \in Pool /\ U \in SUBSET Nodes /\ Head0 \notin U
    BY <1>D, RootFacts
  <2>2. \A z \in U : z \in Slots
    BY <2>1, SlotFacts
  <2> QED
    BY <2>1, <2>2, PoolFacts, SlotFacts
<1>1. x \in U /\ x # Head0 /\ n[first].key <= n[x].key /\ NotBeforeIn(n, x, last)
  BY <1>u, <1>a
<1>2. PICK E : Tree(m, V, E)
  BY <1>u DEF Sound
<1>3. \A z \in Slots : m[z].key = n[z].key
  BY <1>u DEF Sound
<1>4. /\ y \in U \cup {Head0} /\ (y = Head0 => last = Head0)
      /\ (y # Head0 => n[x].key < n[y].key /\ NotBeforeIn(n, y, last))
      /\ x \notin G
      /\ Part(n, U, first, y) = G \cup {x}
  <2>1. Tree(m, U \ Part(n, U, first, x), E)
    BY <1>2, <1>G
  <2>2. SameKeys(n, m)
    BY <1>3 DEF SameKeys
  <2>3. NextHas(n, U, first, last, x, y)
    BY <1>D, <1>1, <2>1, <2>2, <1>G, NextPart
  <2> QED
    BY <2>3, <1>G DEF NextHas
<1>5. Lists(<<x>> \o gone, Part(n, U, first, y))
  <2>1. Lists(<<x>>, {x})
    BY <1>1, <1>a, ListsOne
  <2>2. Lists(<<x>> \o gone, {x} \cup G)
    BY <2>1, <1>u, <1>4, ListsBoth
  <2>3. {x} \cup G = Part(n, U, first, y)
    BY <1>4
  <2> QED
    BY <2>2, <2>3
<1>6. Sound(Erased(m, x), n, U \ Part(n, U, first, y))
  <2>1. Sound(m, m, V) /\ x \in V
    BY <1>u, <1>1, <1>4, <1>G, SoundSelf
  <2>2. Sound(Erased(m, x), m, V \ {x})
    BY <2>1, ErasedIs
  <2>3. V \ {x} = U \ Part(n, U, first, y)
    BY <1>4, <1>G
  <2>4. Sound(Erased(m, x), m, U \ Part(n, U, first, y))
    BY <2>2, <2>3
  <2> QED
    BY <2>4, <1>3 DEF Sound
<1>7. y # Head0 => n[first].key <= n[y].key
  <2>1. ASSUME y # Head0 PROVE n[first].key <= n[y].key
    <3>1. y \in U
      BY <2>1, <1>4
    <3> QED
      BY <3>1, <2>1, <1>4, <1>1, <1>a
  <2> QED
    BY <2>1
<1>8. y = last \/ Cardinality(Part(n, U, y, last)) + (i + 1) <= Capacity
  <2>1. ASSUME y # last PROVE Cardinality(Part(n, U, y, last)) + (i + 1) <= Capacity
    <3>1. y \in U /\ y # Head0 /\ n[x].key < n[y].key
      BY <2>1, <1>4
    <3>2. Part(n, U, y, last) \in SUBSET Part(n, U, x, last)
      BY <3>1, <1>1, <1>a DEF Part
    <3>3. x \in Part(n, U, x, last)
      <4>1. last \in U => n[x].key < n[last].key
        <5>1. last \in U => n[x].key # n[last].key
          BY <1>D, <1>1, KeysDiffer
        <5>2. last \in U => n[x].key <= n[last].key
          BY <1>1, <1>a DEF NotBeforeIn
        <5> QED
          BY <5>1, <5>2, <1>1, <1>a
      <4>2. n[x].key <= n[x].key
        BY <1>1, <1>a
      <4> QED
        BY <4>1, <4>2, <1>1 DEF Part
    <3>4. x \notin Part(n, U, y, last)
      <4>1. ~(n[y].key <= n[x].key)
        BY <3>1, <1>1, <1>a
      <4> QED
        BY <4>1 DEF Part
    <3>5. IsFiniteSet(Part(n, U, x, last))
      <4>1. IsFiniteSet(U)
        BY <1>D, FiniteUnder
      <4>2. Part(n, U, x, last) \in SUBSET U
        BY DEF Part
      <4> QED
        BY <4>1, <4>2, FS_Subset
    <3>6. /\ Cardinality(Part(n, U, x, last)) \in Nat /\ Cardinality(Part(n, U, y, last)) \in Nat
          /\ Cardinality(Part(n, U, y, last)) < Cardinality(Part(n, U, x, last))
      <4>1. Part(n, U, y, last) # Part(n, U, x, last)
        BY <3>3, <3>4
      <4> QED
        BY <3>2, <3>5, <4>1, StrictSubset
    <3> QED
      BY <3>6, <1>u, <1>a
  <2> QED
    BY <2>1
<1> QED
  BY <1>1, <1>4, <1>5, <1>6, <1>7, <1>8, <1>G DEF RangeHas

\* erase(first, last) takes the elements between and gives each back once.
LEMMA ErasedRangeIs ==
  ASSUME NEW n, NEW U, Sound(n, n, U), NEW first \in U, NEW last \in U \cup {Head0}, NotBeforeIn(n, first, last)
  PROVE  /\ Lists(ErasedRange(n, first, last).gone, Part(n, U, first, last))
         /\ Sound(ErasedRange(n, first, last).n, n, U \ Part(n, U, first, last))
<1>S. PICK S : S = [n : Pool, x : Slots, gone : Seq(Nodes)]
  OBVIOUS
<1>t. PICK turn : turn = [t \in S |-> IF t.x = last THEN t
                     ELSE [n |-> Erased(t.n, t.x), x |-> Inc(t.n, t.x), gone |-> <<t.x>> \o t.gone]]
  OBVIOUS
<1>s. PICK start : start = [n |-> n, x |-> first, gone |-> <<>>]
  OBVIOUS
<1>J. PICK J : J = [i \in Nat |-> {t \in S : RangeHas(n, U, first, last, t.n, t.x, t.gone, i)}]
  OBVIOUS
<1>D. PICK D : Tree(n, U, D)
  BY DEF Sound
<1>a. n \in Pool /\ U \in SUBSET Nodes /\ Head0 \notin U /\ Head0 \in Slots /\ Capacity \in Nat /\ \A z \in U : z \in Slots /\ n[z].key \in Nat
  <2>1. n \in Pool /\ U \in SUBSET Nodes /\ Head0 \notin U
    BY <1>D, RootFacts
  <2>2. \A z \in U : z \in Slots
    BY <2>1, SlotFacts
  <2> QED
    BY <2>1, <2>2, PoolFacts, SlotFacts
<1>T. ASSUME NEW m, NEW x, NEW gone, NEW i, RangeHas(n, U, first, last, m, x, gone, i)
      PROVE  m \in Pool /\ x \in Slots /\ gone \in Seq(Nodes)
  <2>1. m \in Pool
    BY <1>T DEF RangeHas, Sound, Tree, Links
  <2>2. x \in Slots
    BY <1>T, <1>a DEF RangeHas
  <2>3. gone \in Seq(Nodes)
    BY <1>T DEF RangeHas, Lists
  <2> QED
    BY <2>1, <2>2, <2>3
<1>F. IsFiniteSet(U) /\ Cardinality(U) \in Nat /\ Cardinality(U) <= Capacity
  BY <1>D, FiniteUnder
<1>C. ASSUME NEW x PROVE Cardinality(Part(n, U, x, last)) \in Nat /\ Cardinality(Part(n, U, x, last)) <= Capacity
  <2>1. Part(n, U, x, last) \in SUBSET U
    BY DEF Part
  <2>2. IsFiniteSet(Part(n, U, x, last)) /\ Cardinality(Part(n, U, x, last)) <= Cardinality(U)
    BY <2>1, <1>F, FS_Subset
  <2>3. Cardinality(Part(n, U, x, last)) \in Nat
    BY <2>2, FS_CardinalityType
  <2> QED
    BY <2>2, <2>3, <1>F, <1>a
<1>1. start \in J[0]
  <2>1. Part(n, U, first, first) = {}
    BY <1>a DEF Part
  <2>2. Lists(<<>>, Part(n, U, first, first)) /\ Sound(n, n, U \ Part(n, U, first, first))
    <3>1. U \ {} = U
      OBVIOUS
    <3> QED
      BY <2>1, <3>1, ListsNone
  <2>3. Cardinality(Part(n, U, first, last)) + 0 <= Capacity
    BY <1>C, <1>a
  <2>4. n[first].key <= n[first].key /\ first # Head0
    BY <1>a
  <2>5. RangeHas(n, U, first, last, n, first, <<>>, 0)
    BY <2>2, <2>3, <2>4 DEF RangeHas
  <2>6. start \in S
    BY <2>5, <1>T, <1>s, <1>S
  <2> QED
    BY <2>5, <2>6, <1>s, <1>J
<1>2. ASSUME NEW i \in Nat, NEW t \in J[i] PROVE turn[t] \in J[i + 1]
  <2>1. t \in S /\ RangeHas(n, U, first, last, t.n, t.x, t.gone, i)
    BY <1>2, <1>J
  <2>2. i + 1 \in Nat
    OBVIOUS
  <2>3. CASE t.x = last
    <3>1. turn[t] = t
      BY <2>1, <2>3, <1>t
    <3>2. RangeHas(n, U, first, last, t.n, t.x, t.gone, i + 1)
      BY <2>1, <2>3 DEF RangeHas
    <3> QED
      BY <3>1, <3>2, <2>1, <2>2, <1>J
  <2>4. CASE t.x # last
    <3>r. PICK r : r = [n |-> Erased(t.n, t.x), x |-> Inc(t.n, t.x), gone |-> <<t.x>> \o t.gone]
      OBVIOUS
    <3>1. turn[t] = r
      BY <2>1, <2>4, <1>t, <3>r
    <3>2. RangeHas(n, U, first, last, Erased(t.n, t.x), Inc(t.n, t.x), <<t.x>> \o t.gone, i + 1)
      BY <2>1, <2>4, RangeTurnIs
    <3>3. RangeHas(n, U, first, last, r.n, r.x, r.gone, i + 1)
      BY <3>2, <3>r
    <3>4. r \in S
      BY <3>2, <1>T, <3>r, <1>S
    <3> QED
      BY <3>1, <3>3, <3>4, <2>2, <1>J
  <2> QED
    BY <2>3, <2>4
<1>3. Loop(turn, start) \in J[Capacity + 1]
  BY <1>1, <1>2, LoopInvariant
<1>e. PICK r : r = Loop(turn, start)
  OBVIOUS
<1>4. RangeHas(n, U, first, last, r.n, r.x, r.gone, Capacity + 1)
  <2>1. Capacity + 1 \in Nat
    BY <1>a
  <2> QED
    BY <1>3, <2>1, <1>J, <1>e
<1>5. r.x = last
  <2>1. r.x = last \/ Cardinality(Part(n, U, r.x, last)) + (Capacity + 1) <= Capacity
    BY <1>4 DEF RangeHas
  <2>2. Cardinality(Part(n, U, r.x, last)) \in Nat
    BY <1>C
  <2> QED
    BY <2>1, <2>2, <1>a
<1>6. ErasedRange(n, first, last) = r
  BY <1>t, <1>s, <1>e, <1>S DEF ErasedRange
<1> QED
  BY <1>4, <1>5, <1>6 DEF RangeHas

-----------------------------------------------------------------------------
(* clear, and the heights the run looks at *)

\* Erase of clear gives back every node once.
LEMMA WalkedIs ==
  ASSUME NEW n, NEW U, NEW D, Tree(n, U, D)
  PROVE  Lists(Walked(n), U)
<1>t. PICK turn : turn = [w \in [Slots -> Seq(Nodes)] |->
                 [x \in Slots |-> IF x = Head0 THEN <<>>
                                  ELSE w[n[x].left] \o <<x>> \o w[n[x].right]]]
  OBVIOUS
<1>s. PICK start : start = [x \in Slots |-> <<>>]
  OBVIOUS
<1>J. PICK J : J = [i \in Nat |-> {w \in [Slots -> Seq(Nodes)] :
                      w[Head0] = <<>> /\ \A x \in U : Cardinality(D[x]) <= i => Lists(w[x], D[x])}]
  OBVIOUS
<1>a. /\ n \in Pool /\ U \in SUBSET Nodes /\ Head0 \notin U /\ Head0 \in Slots /\ Capacity \in Nat /\ D[Head0] = {}
      /\ (\A z \in U : z \in Slots /\ z # Head0) /\ \A z \in Slots : z # Head0 => z \in Nodes
  BY RootFacts, SlotFacts
<1>f. \A x \in Slots : IsFiniteSet(D[x]) /\ Cardinality(D[x]) \in Nat /\ Cardinality(D[x]) <= Capacity
  BY FiniteUnder
<1>1. start \in J[0]
  <2>1. start \in [Slots -> Seq(Nodes)] /\ start[Head0] = <<>>
    BY <1>s, <1>a
  <2>2. ASSUME NEW x \in U, Cardinality(D[x]) <= 0 PROVE FALSE
    <3>1. x \in D[x]
      <4>1. NearBy(n, U, D, x)
        BY Near
      <4> QED
        BY <4>1 DEF NearBy
    <3>2. Cardinality(D[x]) = 0 /\ IsFiniteSet(D[x])
      BY <2>2, <1>f, <1>a
    <3>3. D[x] = {}
      BY <3>2, FS_EmptySet
    <3> QED
      BY <3>1, <3>3
  <2> QED
    BY <2>1, <2>2, <1>J
<1>2. ASSUME NEW i \in Nat, NEW w \in J[i] PROVE turn[w] \in J[i + 1]
  <2>1. /\ w \in [Slots -> Seq(Nodes)] /\ w[Head0] = <<>>
        /\ \A x \in U : Cardinality(D[x]) <= i => Lists(w[x], D[x])
    BY <1>2, <1>J
  <2>v. PICK v : v = [x \in Slots |-> IF x = Head0 THEN <<>> ELSE w[n[x].left] \o <<x>> \o w[n[x].right]]
    OBVIOUS
  <2>2. turn[w] = v
    BY <2>1, <2>v, <1>t
  <2>3. ASSUME NEW x \in Slots, x # Head0
        PROVE  /\ w[n[x].left] \in Seq(Nodes) /\ w[n[x].right] \in Seq(Nodes) /\ <<x>> \in Seq(Nodes)
               /\ v[x] = w[n[x].left] \o <<x>> \o w[n[x].right] /\ v[x] \in Seq(Nodes)
    <3>1. n[x].left \in Slots /\ n[x].right \in Slots /\ x \in Nodes
      BY <2>3, <1>a, PoolFacts
    <3>2. w[n[x].left] \in Seq(Nodes) /\ w[n[x].right] \in Seq(Nodes) /\ <<x>> \in Seq(Nodes)
      BY <3>1, <2>1
    <3>3. v[x] = w[n[x].left] \o <<x>> \o w[n[x].right]
      BY <2>v, <2>3
    <3>4. w[n[x].left] \o <<x>> \o w[n[x].right] \in Seq(Nodes)
      BY <3>2
    <3> QED
      BY <3>2, <3>3, <3>4
  <2>4. v \in [Slots -> Seq(Nodes)] /\ v[Head0] = <<>>
    <3>1. v[Head0] = <<>>
      BY <2>v, <1>a
    <3>2. \A x \in Slots : v[x] \in Seq(Nodes)
      <4>1. \A x \in Slots : x # Head0 => v[x] \in Seq(Nodes)
        BY <2>3
      <4>2. <<>> \in Seq(Nodes)
        OBVIOUS
      <4>3. v[Head0] \in Seq(Nodes)
        BY <3>1, <4>2
      <4> QED
        BY <4>1, <4>3
    <3>3. DOMAIN v = Slots /\ v = [x \in Slots |-> v[x]]
      BY <2>v
    <3> QED
      BY <3>1, <3>2, <3>3
  <2>5. ASSUME NEW x \in U, Cardinality(D[x]) <= i + 1 PROVE Lists(v[x], D[x])
    <3>l. PICK l, r : l = n[x].left /\ r = n[x].right
      OBVIOUS
    <3>1. NearBy(n, U, D, x)
      BY Near
    <3>2. /\ x \in D[x] /\ x \in Nodes /\ \A s \in Sides : D[n[x][s]] \in SUBSET D[x] /\ x \notin D[n[x][s]]
                                         /\ n[x][s] \in Slots /\ (n[x][s] # Head0 => n[x][s] \in U)
                                         /\ D[n[x][s]] \cap D[n[x][Other(s)]] = {}
      BY <3>1 DEF NearBy
    <3>3. D[l] \cap D[r] = {}
      BY <3>2, <3>l, SideFacts
    <3>4. D[x] = (D[l] \cup {x}) \cup D[r]
      <4>1. D[x] = {x} \cup D[l] \cup D[r]
        BY <3>l DEF Tree, Under
      <4> QED
        BY <4>1
    <3>5. ASSUME NEW s \in Sides PROVE Lists(w[n[x][s]], D[n[x][s]])
      <4>1. CASE n[x][s] = Head0
        BY <4>1, <2>1, <1>a, ListsNone
      <4>2. CASE n[x][s] # Head0
        <5>1. n[x][s] \in U /\ IsFiniteSet(D[x]) /\ D[n[x][s]] \in SUBSET D[x] /\ D[n[x][s]] # D[x]
          BY <4>2, <3>2, <1>f, <1>a
        <5>2. Cardinality(D[x]) \in Nat /\ Cardinality(D[n[x][s]]) \in Nat /\ Cardinality(D[n[x][s]]) < Cardinality(D[x])
          BY <5>1, StrictSubset
        <5>3. Cardinality(D[n[x][s]]) <= i
          BY <5>2, <2>5
        <5> QED
          BY <5>1, <5>3, <2>1
      <4> QED
        BY <4>1, <4>2
    <3>6. Lists(w[l], D[l]) /\ Lists(w[r], D[r])
      BY <3>5, <3>l, SideFacts
    <3>7. Lists(<<x>>, {x})
      BY <3>2, ListsOne
    <3>8. Lists(w[l] \o <<x>>, D[l] \cup {x})
      <4>1. D[l] \cap {x} = {}
        BY <3>2, <3>l, SideFacts
      <4> QED
        BY <4>1, <3>6, <3>7, ListsBoth
    <3>9. Lists(w[l] \o <<x>> \o w[r], (D[l] \cup {x}) \cup D[r])
      <4>1. (D[l] \cup {x}) \cap D[r] = {}
        BY <3>2, <3>3, <3>l, SideFacts
      <4> QED
        BY <4>1, <3>6, <3>8, ListsBoth
    <3>10. v[x] = w[l] \o <<x>> \o w[r]
      BY <2>3, <3>l, <1>a
    <3> QED
      BY <3>4, <3>9, <3>10
  <2> QED
    BY <2>2, <2>4, <2>5, <1>J
<1>3. Loop(turn, start) \in J[Capacity + 1]
  BY <1>1, <1>2, LoopInvariant
<1>e. PICK w : w = Loop(turn, start)
  OBVIOUS
<1>4. w[Head0] = <<>> /\ \A x \in U : Cardinality(D[x]) <= Capacity + 1 => Lists(w[x], D[x])
  <2>1. Capacity + 1 \in Nat
    BY <1>a
  <2> QED
    BY <1>3, <2>1, <1>J, <1>e
<1>5. Walked(n) = w[Root(n)]
  BY <1>t, <1>s, <1>e DEF Walked
<1>6. Root(n) \in U \cup {Head0} /\ D[Root(n)] = U /\ (Root(n) = Head0 <=> U = {})
  BY RootFacts
<1>7. CASE Root(n) = Head0
  BY <1>4, <1>5, <1>6, <1>7, ListsNone
<1>8. CASE Root(n) # Head0
  <2>1. Root(n) \in U /\ Cardinality(D[Root(n)]) <= Capacity + 1
    <3>1. Root(n) \in U
      BY <1>6, <1>8
    <3>2. Cardinality(D[Root(n)]) <= Capacity /\ Cardinality(D[Root(n)]) \in Nat
      BY <3>1, <1>a, <1>f
    <3> QED
      BY <3>1, <3>2, <1>a
  <2> QED
    BY <2>1, <1>4, <1>5, <1>6
<1> QED
  BY <1>7, <1>8

\* The black heights of a balanced tree are those that Balanced speaks of.
LEMMA HeightsAre ==
  ASSUME NEW U, NEW D, Tree(node, U, D), Balanced(node, U)
  PROVE  BlackHeights[Root(node)] > 0
<1>t. PICK turn : turn = [h \in [Slots -> Nat] |->
                 [x \in Slots |->
                    LET l == h[node[x].left]
                        r == h[node[x].right]
                        redPair == node[x].red /\ (node[node[x].left].red \/ node[node[x].right].red)
                    IN IF x = Head0 THEN 1
                       ELSE IF l = 0 \/ l # r \/ redPair THEN 0
                       ELSE IF node[x].red THEN l ELSE l + 1]]
  OBVIOUS
<1>s. PICK start : start = [x \in Slots |-> IF x = Head0 THEN 1 ELSE 0]
  OBVIOUS
<1>h. PICK h : Colored(node, U, h, Head0, "left")
  BY DEF Balanced
<1>J. PICK J : J = [i \in Nat |-> {w \in [Slots -> Nat] :
                      w[Head0] = 1 /\ \A x \in U : Cardinality(D[x]) <= i => w[x] = h[x]}]
  OBVIOUS
<1>a. /\ node \in Pool /\ U \in SUBSET Nodes /\ Head0 \notin U /\ Head0 \in Slots /\ Capacity \in Nat /\ D[Head0] = {}
      /\ (\A z \in U : z \in Slots /\ z # Head0) /\ \A z \in Slots : z # Head0 => z \in Nodes
  BY RootFacts, SlotFacts
<1>b. h \in [Slots -> Nat \ {0}] /\ h[Head0] = 1 /\ ~node[Head0].red
  BY <1>h DEF Colored
<1>f. \A x \in Slots : IsFiniteSet(D[x]) /\ Cardinality(D[x]) \in Nat /\ Cardinality(D[x]) <= Capacity
  BY FiniteUnder
<1>c. \A z \in U, t \in Sides : node[z].red /\ node[node[z][t]].red => FALSE
  BY <1>b DEF Balanced, AllCalm, Calm
<1>1. start \in J[0]
  <2>1. start \in [Slots -> Nat] /\ start[Head0] = 1
    BY <1>s, <1>a
  <2>2. ASSUME NEW x \in U, Cardinality(D[x]) <= 0 PROVE FALSE
    <3>1. x \in D[x]
      <4>1. NearBy(node, U, D, x)
        BY Near
      <4> QED
        BY <4>1 DEF NearBy
    <3>2. Cardinality(D[x]) = 0 /\ IsFiniteSet(D[x])
      BY <2>2, <1>f, <1>a
    <3>3. D[x] = {}
      BY <3>2, FS_EmptySet
    <3> QED
      BY <3>1, <3>3
  <2> QED
    BY <2>1, <2>2, <1>J
<1>2. ASSUME NEW i \in Nat, NEW w \in J[i] PROVE turn[w] \in J[i + 1]
  <2>1. /\ w \in [Slots -> Nat] /\ w[Head0] = 1
        /\ \A x \in U : Cardinality(D[x]) <= i => w[x] = h[x]
    BY <1>2, <1>J
  <2>v. PICK v : v = [x \in Slots |->
                    IF x = Head0 THEN 1
                    ELSE IF w[node[x].left] = 0 \/ w[node[x].left] # w[node[x].right]
                            \/ (node[x].red /\ (node[node[x].left].red \/ node[node[x].right].red)) THEN 0
                    ELSE IF node[x].red THEN w[node[x].left] ELSE w[node[x].left] + 1]
    OBVIOUS
  <2>2. turn[w] = v
    BY <2>1, <2>v, <1>t
  <2>4. v \in [Slots -> Nat] /\ v[Head0] = 1
    <3>1. v[Head0] = 1
      BY <2>v, <1>a
    <3>2. \A x \in Slots : v[x] \in Nat
      <4>1. ASSUME NEW x \in Slots PROVE v[x] \in Nat
        <5>1. w[node[x].left] \in Nat
          <6>1. node[x].left \in Slots
            BY <1>a, PoolFacts
          <6> QED
            BY <6>1, <2>1
        <5>2. v[x] \in {1, 0, w[node[x].left], w[node[x].left] + 1}
          BY <2>v
        <5> QED
          BY <5>1, <5>2
      <4> QED
        BY <4>1
    <3>3. v = [x \in Slots |-> v[x]]
      BY <2>v
    <3> QED
      BY <3>1, <3>2, <3>3
  <2>5. ASSUME NEW x \in U, Cardinality(D[x]) <= i + 1 PROVE v[x] = h[x]
    <3>1. NearBy(node, U, D, x)
      BY Near
    <3>2. /\ x \in D[x] /\ x \in Nodes /\ \A s \in Sides : D[node[x][s]] \in SUBSET D[x] /\ x \notin D[node[x][s]]
                                         /\ node[x][s] \in Slots /\ (node[x][s] # Head0 => node[x][s] \in U)
      BY <3>1 DEF NearBy
    <3>5. ASSUME NEW s \in Sides PROVE w[node[x][s]] = h[node[x][s]]
      <4>1. CASE node[x][s] = Head0
        BY <4>1, <2>1, <1>b
      <4>2. CASE node[x][s] # Head0
        <5>1. node[x][s] \in U /\ IsFiniteSet(D[x]) /\ D[node[x][s]] \in SUBSET D[x] /\ D[node[x][s]] # D[x]
          BY <4>2, <3>2, <1>f, <1>a
        <5>2. Cardinality(D[x]) \in Nat /\ Cardinality(D[node[x][s]]) \in Nat /\ Cardinality(D[node[x][s]]) < Cardinality(D[x])
          BY <5>1, StrictSubset
        <5>3. Cardinality(D[node[x][s]]) <= i
          BY <5>2, <2>5
        <5> QED
          BY <5>1, <5>3, <2>1
      <4> QED
        BY <4>1, <4>2
    <3>6. ASSUME NEW s \in Sides
          PROVE  /\ h[node[x][s]] \in Nat /\ h[node[x][s]] # 0
                 /\ h[x] = h[node[x][s]] + (IF node[x].red THEN 0 ELSE 1)
      <4>1. h[x] = h[node[x][s]] + (IF x = Head0 /\ s = "left" THEN 1 ELSE 0) + (IF node[x].red THEN 0 ELSE 1)
        BY <1>h DEF Colored, Even
      <4>2. (IF x = Head0 /\ s = "left" THEN 1 ELSE 0) = 0 /\ h[node[x][s]] \in Nat /\ h[node[x][s]] # 0
        BY <1>a, <1>b, <3>2
      <4>3. h[node[x][s]] + 0 = h[node[x][s]]
        BY <4>2, PlusNothing
      <4> QED
        BY <4>1, <4>2, <4>3
    <3>l. PICK l, r : l = node[x].left /\ r = node[x].right
      OBVIOUS
    <3>7. /\ w[l] = h[l] /\ w[r] = h[r] /\ h[l] \in Nat /\ h[r] \in Nat /\ h[l] # 0
          /\ h[x] = h[l] + (IF node[x].red THEN 0 ELSE 1) /\ h[x] = h[r] + (IF node[x].red THEN 0 ELSE 1)
      BY <3>5, <3>6, <3>l, SideFacts
    <3>8. h[l] = h[r]
      BY <3>7
    <3>9. ~(node[x].red /\ (node[l].red \/ node[r].red))
      BY <1>c, <3>l, SideFacts
    <3>10. v[x] = IF w[l] = 0 \/ w[l] # w[r] \/ (node[x].red /\ (node[l].red \/ node[r].red)) THEN 0
                  ELSE IF node[x].red THEN w[l] ELSE w[l] + 1
      BY <2>v, <3>l, <1>a
    <3>11. v[x] = IF node[x].red THEN h[l] ELSE h[l] + 1
      BY <3>7, <3>8, <3>9, <3>10
    <3>12. CASE node[x].red
      <4>1. h[x] = h[l] + 0 /\ v[x] = h[l]
        BY <3>7, <3>11, <3>12
      <4> QED
        BY <4>1, <3>7, PlusNothing
    <3>13. CASE ~node[x].red
      BY <3>7, <3>11, <3>13
    <3> QED
      BY <3>12, <3>13
  <2> QED
    BY <2>2, <2>4, <2>5, <1>J
<1>3. Loop(turn, start) \in J[Capacity + 1]
  BY <1>1, <1>2, LoopInvariant
<1>e. PICK w : w = Loop(turn, start)
  OBVIOUS
<1>4. w[Head0] = 1 /\ \A x \in U : Cardinality(D[x]) <= Capacity + 1 => w[x] = h[x]
  <2>1. Capacity + 1 \in Nat
    BY <1>a
  <2> QED
    BY <1>3, <2>1, <1>J, <1>e
<1>5. BlackHeights = w
  BY <1>t, <1>s, <1>e DEF BlackHeights
<1>6. Root(node) \in U \cup {Head0}
  BY RootFacts
<1>7. CASE Root(node) = Head0
  BY <1>4, <1>5, <1>7
<1>8. CASE Root(node) # Head0
  <2>1. Root(node) \in U /\ Cardinality(D[Root(node)]) <= Capacity + 1
    <3>1. Root(node) \in U
      BY <1>6, <1>8
    <3>2. Cardinality(D[Root(node)]) <= Capacity /\ Cardinality(D[Root(node)]) \in Nat
      BY <3>1, <1>a, <1>f
    <3> QED
      BY <3>1, <3>2, <1>a
  <2>2. w[Root(node)] = h[Root(node)]
    BY <2>1, <1>4
  <2>3. h[Root(node)] \in Nat \ {0}
    BY <2>1, <1>a, <1>b
  <2> QED
    BY <2>2, <2>3, <1>5
<1> QED
  BY <1>7, <1>8

-----------------------------------------------------------------------------
(* The inductive invariant of the tree *)

\* The inductive invariant: the tree of the nodes that are not free is sound, and
\* the free list has the others, each once.
TreeInv ==
  /\ Sound(node, node, Used)
  /\ Lists(freeList, Nodes \ Used)
  /\ count = Cardinality(Used)
  /\ \A x \in Used : node[x].key \in Keys

\* A call adds the node x with the element k.
Adds(x, k) ==
  /\ x \in Nodes \ Used /\ Used' = Used \cup {x} /\ node'[x].key = k
  /\ \A z \in Used : node'[z].key = node[z].key

\* A call takes the nodes of A out.
Removes(A) ==
  /\ Used' = Used \ A
  /\ \A z \in Used : node'[z].key = node[z].key

\* What the invariant says of the nodes in use.
LEMMA UsedFacts ==
  ASSUME TreeInv
  PROVE  /\ Used \in SUBSET Nodes /\ IsFiniteSet(Used) /\ Cardinality(Used) \in Nat /\ Len(freeList) \in Nat
         /\ Len(freeList) + Cardinality(Used) = Capacity /\ node \in Pool
         /\ \A z \in Used : z \in Slots /\ node[z].key \in Nat /\ z # Head0
<1>1. Used \in SUBSET Nodes
  BY DEF Used
<1>2. IsFiniteSet(Nodes) /\ Cardinality(Nodes) = Capacity /\ Capacity \in Nat
  BY SlotFacts
<1>3. IsFiniteSet(Used) /\ Cardinality(Used) \in Nat
  BY <1>1, <1>2, FS_Subset, FS_CardinalityType
<1>4. Cardinality(Nodes \ Used) = Len(freeList) /\ Len(freeList) \in Nat
  BY ListsLong DEF TreeInv
<1>5. Cardinality(Nodes \ Used) = Capacity - Cardinality(Used)
  <2>1. Cardinality(Nodes \ Used) = Cardinality(Nodes) - Cardinality(Nodes \cap Used)
    BY <1>2, FS_Difference
  <2>2. Nodes \cap Used = Used
    BY <1>1
  <2> QED
    BY <2>1, <2>2, <1>2
<1>6. node \in Pool
  BY DEF TreeInv, Sound, Tree, Links
<1>7. \A z \in Used : z \in Slots /\ z # Head0
  BY <1>1, SlotFacts
<1> QED
  BY <1>1, <1>2, <1>3, <1>4, <1>5, <1>6, <1>7, PoolFacts

\* What makes the invariant hold after a call.
LEMMA KeptIs ==
  ASSUME NEW V \in SUBSET Nodes, Sound(node', node', V), Lists(freeList', Nodes \ V),
         count' = Cardinality(V), \A x \in V : node'[x].key \in Keys
  PROVE  TreeInv' /\ Used' = V
<1>1. ToSet(freeList') = Nodes \ V
  <2>1. DOMAIN (freeList') = 1 .. Len(freeList')
    BY DEF Lists
  <2>2. Nodes \ V = {freeList'[i] : i \in 1 .. Len(freeList')}
    BY DEF Lists
  <2> QED
    BY <2>1, <2>2 DEF ToSet
<1>2. Used' = V
  BY <1>1 DEF Used
<1> QED
  BY <1>2 DEF TreeInv

\* A head alone is the empty tree.
LEMMA EmptySound ==
  ASSUME NEW m \in Pool, m[Head0] = Blank
  PROVE  Sound(m, m, {})
<1>D. PICK D : D = [z \in Slots |-> {}]
  OBVIOUS
<1>h. PICK h : h = [z \in Slots |-> 1]
  OBVIOUS
<1>1. Root(m) = Head0 /\ ~m[Head0].red /\ \A s \in Sides : m[Head0][s] = Head0
  BY SideFacts DEF Blank, Root
<1>2. Head0 \in Slots
  BY SlotFacts
<1>3. Tree(m, {}, D)
  BY <1>D, <1>1, <1>2 DEF Tree, Links, Under
<1>4. Colored(m, {}, h, Head0, "left")
  BY <1>h, <1>1, <1>2 DEF Colored
<1>5. AllCalm(m, {}, Head0) /\ Outers(m, {})
  BY <1>1 DEF AllCalm, Outers
<1> QED
  BY <1>1, <1>3, <1>4, <1>5 DEF Sound, Balanced

\* The empty tree.
LEMMA InitTree == TreeInit => TreeInv
<1> SUFFICES ASSUME TreeInit PROVE TreeInv
  OBVIOUS
<1>1. Blank \in Node /\ Head0 \in Slots
  BY SlotFacts DEF Blank, Node
<1>2. node \in Pool /\ node[Head0] = Blank
  BY <1>1 DEF TreeInit, Pool
<1>3. Lists(freeList, Nodes)
  <2>1. freeList = [i \in 1 .. Capacity |-> i] /\ Capacity \in Nat
    BY SlotFacts DEF TreeInit, Nodes
  <2>2. freeList \in Seq(Nodes) /\ Len(freeList) = Capacity
    BY <2>1 DEF Nodes
  <2>3. \A i, j \in 1 .. Len(freeList) : freeList[i] = freeList[j] => i = j
    BY <2>1, <2>2
  <2>4. Nodes = {freeList[i] : i \in 1 .. Len(freeList)}
    BY <2>1, <2>2 DEF Nodes
  <2> QED
    BY <2>2, <2>3, <2>4, Zenon DEF Lists
<1>4. Used = {}
  <2>1. DOMAIN freeList = 1 .. Len(freeList) /\ Nodes = {freeList[i] : i \in 1 .. Len(freeList)}
    BY <1>3 DEF Lists
  <2>2. ToSet(freeList) = Nodes
    BY <2>1 DEF ToSet
  <2> QED
    BY <2>2 DEF Used
<1>5. Nodes \ {} = Nodes /\ count = Cardinality({})
  BY FS_EmptySet DEF TreeInit
<1> QED
  BY <1>2, <1>3, <1>4, <1>5, EmptySound DEF TreeInv

\* Insert_at, at an open place.
LEMMA InsertAtKeeps ==
  ASSUME TreeInv, NEW place, NEW k \in Keys, Insert_at(place, k),
         Open(node, Used, place.parent, SideOf(place.addLeft), k)
  PROVE  TreeInv' /\ Adds(Head(freeList), k)
<1>u. PICK U, p : U = Used /\ p = place.parent
  OBVIOUS
<1>x. PICK x : x = Head(freeList)
  OBVIOUS
<1>0. /\ count < Capacity
      /\ node' = InsertFix(Link(Bought(k), place.addLeft, p, x), x)
      /\ freeList' = Tail(freeList) /\ count' = count + 1
  BY <1>u, <1>x DEF Insert_at
<1>a. /\ U \in SUBSET Nodes /\ IsFiniteSet(U) /\ Cardinality(U) \in Nat /\ Len(freeList) \in Nat
      /\ Len(freeList) + Cardinality(U) = Capacity /\ node \in Pool /\ count = Cardinality(U)
      /\ Sound(node, node, U) /\ Lists(freeList, Nodes \ U) /\ (\A z \in U : node[z].key \in Keys) /\ k \in Nat
  BY <1>u, UsedFacts, TreeAssumption DEF TreeInv
<1>1. freeList # <<>>
  BY <1>0, <1>a
<1>2. x \in Nodes \ U /\ Lists(Tail(freeList), (Nodes \ U) \ {x})
  BY <1>1, <1>a, <1>x, ListsTail
<1>l. PICK left \in BOOLEAN : left <=> place.addLeft
  <2>1. CASE place.addLeft
    BY <2>1
  <2>2. CASE ~place.addLeft
    BY <2>2
  <2> QED
    BY <2>1, <2>2
<1>3. /\ SideOf(left) = SideOf(place.addLeft)
      /\ Link(Bought(k), place.addLeft, p, x) = Link(Bought(k), left, p, x)
  <2>1. CASE left
    BY <2>1, <1>l DEF SideOf, Link
  <2>2. CASE ~left
    BY <2>2, <1>l DEF SideOf, Link
  <2> QED
    BY <2>1, <2>2
<1>b. PICK b : b = Fresh(node, x, k)
  OBVIOUS
<1>4. Bought(k) = b
  BY <1>b, <1>x DEF Bought, Fresh
<1>5. p \in U \cup {Head0} /\ Open(node, U, p, SideOf(left), k)
  <2>1. Open(node, U, p, SideOf(left), k)
    BY <1>u, <1>3
  <2> QED
    BY <2>1 DEF Open
<1>6. Sound(node', b, U \cup {x})
  <2>1. Sound(InsertFix(Link(b, left, p, x), x), b, U \cup {x})
    BY <1>a, <1>2, <1>b, <1>5, InsertedIs
  <2> QED
    BY <2>1, <1>0, <1>3, <1>4
<1>7. FreshNode(node, b, x, k)
  <2>1. x \in Slots
    BY <1>2, SlotFacts
  <2> QED
    BY <2>1, <1>a, <1>b, FreshIs
<1>8. /\ node'[x].key = k
      /\ \A z \in U : node'[z].key = node[z].key
  <2>1. \A z \in Slots : node'[z].key = b[z].key
    BY <1>6 DEF Sound
  <2>2. x \in Slots /\ \A z \in U : z \in Slots \ {x}
    BY <1>2, <1>a, SlotFacts
  <2>3. b[x].key = k /\ \A z \in U : b[z] = node[z]
    BY <1>7, <2>2 DEF FreshNode
  <2> QED
    BY <2>1, <2>2, <2>3
<1>9. U \cup {x} \in SUBSET Nodes /\ (Nodes \ U) \ {x} = Nodes \ (U \cup {x})
  BY <1>2, <1>a
<1>10. Cardinality(U \cup {x}) = count + 1
  BY <1>2, <1>a, FS_AddElement
<1>11. Sound(node', node', U \cup {x})
  BY <1>6, SoundSelf
<1>12. TreeInv' /\ Used' = U \cup {x}
  <2>1. \A z \in U \cup {x} : node'[z].key \in Keys
    BY <1>8, <1>a
  <2>2. Lists(freeList', Nodes \ (U \cup {x}))
    BY <1>0, <1>2, <1>9
  <2>3. count' = Cardinality(U \cup {x})
    BY <1>0, <1>10
  <2> QED
    BY <2>1, <2>2, <2>3, <1>9, <1>11, KeptIs
<1> QED
  BY <1>2, <1>8, <1>12, <1>u, <1>x DEF Adds

\* erase of one node.
LEMMA WithoutKeeps ==
  ASSUME TreeInv, NEW x \in Used, Without(x)
  PROVE  TreeInv' /\ Removes({x})
<1>u. PICK U : U = Used
  OBVIOUS
<1>0. node' = Erased(node, x) /\ freeList' = <<x>> \o freeList /\ count' = IF count > 0 THEN count - 1 ELSE count
  BY DEF Without
<1>a. /\ U \in SUBSET Nodes /\ IsFiniteSet(U) /\ Cardinality(U) \in Nat
      /\ count = Cardinality(U) /\ x \in U /\ x \in Nodes
      /\ Sound(node, node, U) /\ Lists(freeList, Nodes \ U) /\ (\A z \in U : node[z].key \in Keys /\ z \in Slots)
  BY <1>u, UsedFacts DEF TreeInv
<1>1. Sound(node', node, U \ {x})
  BY <1>0, <1>a, ErasedIs
<1>2. Lists(freeList', Nodes \ (U \ {x}))
  <2>1. Lists(<<x>>, {x})
    BY <1>a, ListsOne
  <2>2. {x} \cap (Nodes \ U) = {}
    BY <1>a
  <2>3. Lists(freeList', {x} \cup (Nodes \ U))
    BY <2>1, <2>2, <1>0, <1>a, ListsBoth
  <2>4. {x} \cup (Nodes \ U) = Nodes \ (U \ {x})
    BY <1>a
  <2> QED
    BY <2>3, <2>4
<1>3. count' = Cardinality(U \ {x})
  <2>1. Cardinality(U \ {x}) = Cardinality(U) - 1
    BY <1>a, FS_RemoveElement
  <2>2. Cardinality(U) # 0
    BY <1>a, FS_EmptySet
  <2>3. count > 0
    BY <2>2, <1>a
  <2> QED
    BY <2>1, <2>3, <1>0, <1>a
<1>4. \A z \in U : node'[z].key = node[z].key
  BY <1>1, <1>a DEF Sound
<1>5. TreeInv' /\ Used' = U \ {x}
  <2>1. Sound(node', node', U \ {x}) /\ U \ {x} \in SUBSET Nodes
    BY <1>1, <1>a, SoundSelf
  <2>2. \A z \in U \ {x} : node'[z].key \in Keys
    BY <1>4, <1>a
  <2> QED
    BY <2>1, <2>2, <1>2, <1>3, KeptIs
<1> QED
  BY <1>4, <1>5, <1>u DEF Removes

\* clear.
LEMMA ClearKeeps ==
  ASSUME TreeInv, Clear
  PROVE  TreeInv' /\ Removes(Used)
<1>u. PICK U : U = Used
  OBVIOUS
<1>0. freeList' = Walked(node) \o freeList /\ node' = [node EXCEPT ![Head0] = Blank] /\ count' = 0
  BY DEF Clear
<1>a. /\ U \in SUBSET Nodes /\ node \in Pool
      /\ Sound(node, node, U) /\ Lists(freeList, Nodes \ U) /\ (\A z \in U : z \in Slots /\ z # Head0)
  BY <1>u, UsedFacts DEF TreeInv
<1>1. Lists(Walked(node), U)
  BY <1>a, WalkedIs DEF Sound
<1>2. Lists(freeList', Nodes \ {})
  <2>1. U \cap (Nodes \ U) = {} /\ U \cup (Nodes \ U) = Nodes \ {}
    BY <1>a
  <2>2. Lists(freeList', U \cup (Nodes \ U))
    BY <1>0, <1>1, <1>a, <2>1, ListsBoth
  <2> QED
    BY <2>1, <2>2
<1>3. node' \in Pool /\ node'[Head0] = Blank
  <2>1. Blank \in Node /\ Head0 \in Slots
    BY SlotFacts DEF Blank, Node
  <2> QED
    BY <2>1, <1>0, <1>a DEF Pool
<1>4. \A z \in U : node'[z].key = node[z].key
  BY <1>0, <1>a DEF Pool
<1>5. TreeInv' /\ Used' = {}
  <2>1. Sound(node', node', {})
    BY <1>3, EmptySound
  <2>2. count' = Cardinality({}) /\ {} \in SUBSET Nodes /\ \A x \in {} : node'[x].key \in Keys
    BY <1>0, FS_EmptySet
  <2> QED
    BY <2>1, <2>2, <1>2, KeptIs
<1> QED
  BY <1>4, <1>5, <1>u DEF Removes

\* The part of the elements that erase(first, last) takes.
LEMMA RangeKeeps ==
  ASSUME TreeInv, NEW x \in Used, NEW y \in Used \cup {Head0}, NotBefore(x, y), EraseRange(x, y)
  PROVE  TreeInv' /\ Removes(Part(node, Used, x, y))
<1>u. PICK U, P : U = Used /\ P = Part(node, U, x, y)
  OBVIOUS
<1>a. /\ U \in SUBSET Nodes /\ IsFiniteSet(U) /\ Cardinality(U) \in Nat /\ node \in Pool
      /\ count = Cardinality(U) /\ x \in U /\ y \in U \cup {Head0}
      /\ Sound(node, node, U) /\ Lists(freeList, Nodes \ U)
      /\ (\A z \in U : node[z].key \in Keys /\ node[z].key \in Nat /\ z \in Slots)
  BY <1>u, UsedFacts, SMTT(30) DEF TreeInv
<1>1. CASE x = Lmost(node) /\ y = Head0
  <2>1. Clear
    BY <1>1 DEF EraseRange
  <2>2. P = U
    <3>1. Utmost(node, U, x, "left")
      <4>1. Outers(node, U) /\ U # {} /\ node[Head0]["left"] = x
        BY <1>1, <1>a DEF Sound, Lmost
      <4> QED
        BY <4>1, SideFacts DEF Outers
    <3>2. ASSUME NEW z \in U PROVE node[x].key <= node[z].key
      <4>1. z = x \/ node[x].key < node[z].key
        BY <3>1 DEF Utmost, Before
      <4> QED
        BY <4>1, <1>a
    <3> QED
      BY <3>2, <1>1, <1>u DEF Part
  <2> QED
    BY <2>1, <2>2, <1>u, ClearKeeps, Zenon
<1>2. CASE ~(x = Lmost(node) /\ y = Head0)
  <2>r. PICK r : r = ErasedRange(node, x, y)
    OBVIOUS
  <2>0. node' = r.n /\ freeList' = r.gone \o freeList /\ count' = count - Len(r.gone)
    BY <1>2, <2>r DEF EraseRange
  <2>1. Lists(r.gone, P) /\ Sound(r.n, node, U \ P)
    <3>1. NotBeforeIn(node, x, y)
      BY DEF NotBefore, NotBeforeIn
    <3> QED
      BY <3>1, <1>a, <1>u, <2>r, ErasedRangeIs
  <2>2. P \in SUBSET U
    BY <1>u DEF Part
  <2>3. Lists(freeList', Nodes \ (U \ P))
    <3>1. P \cap (Nodes \ U) = {} /\ P \cup (Nodes \ U) = Nodes \ (U \ P)
      BY <2>2, <1>a
    <3>2. Lists(freeList', P \cup (Nodes \ U))
      BY <2>0, <2>1, <3>1, <1>a, ListsBoth
    <3> QED
      BY <3>1, <3>2
  <2>4. count' = Cardinality(U \ P)
    <3>1. Cardinality(U \ P) = Cardinality(U) - Cardinality(U \cap P)
      BY <1>a, FS_Difference
    <3>2. U \cap P = P /\ Cardinality(P) = Len(r.gone)
      BY <2>1, <2>2, ListsLong
    <3> QED
      BY <3>1, <3>2, <2>0, <1>a
  <2>5. \A z \in U : node'[z].key = node[z].key
    BY <2>0, <2>1, <1>a DEF Sound
  <2>6. TreeInv' /\ Used' = U \ P
    <3>1. Sound(node', node', U \ P) /\ U \ P \in SUBSET Nodes
      BY <2>0, <2>1, <1>a, SoundSelf
    <3>2. \A z \in U \ P : node'[z].key \in Keys
      BY <2>5, <1>a
    <3> QED
      BY <3>1, <3>2, <2>3, <2>4, KeptIs
  <2> QED
    BY <2>5, <2>6, <1>u DEF Removes
<1> QED
  BY <1>1, <1>2

-----------------------------------------------------------------------------
(* Every call keeps it *)

\* What a call that puts the element k in does.
Entered(k) ==
  IF k \in Contents THEN UNCHANGED <<node, freeList, count>>
  ELSE count < Capacity /\ \E x : Adds(x, k)

\* Calls that only look.
LEMMA SameTree ==
  ASSUME TreeInv, UNCHANGED <<node, freeList, count>>
  PROVE  TreeInv' /\ Removes({})
<1>1. Used' = Used
  BY DEF Used
<1>2. TreeInv'
  BY <1>1 DEF TreeInv
<1>3. Used \ {} = Used
  OBVIOUS
<1> QED
  BY <1>1, <1>2, <1>3 DEF Removes

\* insert tells whether the element is new.
LEMMA InsertKeeps ==
  ASSUME TreeInv, NEW k \in Keys, Insert(k)
  PROVE  /\ TreeInv' /\ Entered(k)
         /\ ans' = [at |-> k, changed |-> IF k \in Contents THEN FALSE ELSE TRUE]
<1>d. PICK d, it : d = Descend(node, k) /\ it = IF d.addLeft THEN Dec(node, d.parent) ELSE d.parent
  OBVIOUS
<1>D. PICK D : Tree(node, Used, D) /\ Outers(node, Used)
  BY DEF TreeInv, Sound
<1>k. k \in Nat
  BY TreeAssumption
<1>1. InsertSees(node, Used, d, it, k)
  BY <1>d, <1>D, <1>k, InsertPlace
<1>2. CASE (d.addLeft /\ d.parent = Lmost(node)) \/ node[it].key < k
  <2>1. Insert_at(d, k) /\ ans' = [at |-> k, changed |-> TRUE]
    BY <1>2, <1>d DEF Insert
  <2>2. Open(node, Used, d.parent, SideOf(d.addLeft), k)
    BY <1>1, <1>2 DEF InsertSees
  <2>3. k \notin Contents
    BY <2>2 DEF Open, Contents
  <2>4. TreeInv' /\ Adds(Head(freeList), k)
    BY <2>1, <2>2, InsertAtKeeps
  <2>5. count < Capacity
    BY <2>1 DEF Insert_at
  <2> QED
    BY <2>1, <2>3, <2>4, <2>5 DEF Entered
<1>3. CASE ~((d.addLeft /\ d.parent = Lmost(node)) \/ node[it].key < k)
  <2>1. ans' = [at |-> At(node, it), changed |-> FALSE] /\ UNCHANGED <<node, freeList, count>>
    BY <1>3, <1>d DEF Insert
  <2>2. it \in Used /\ node[it].key = k
    BY <1>1, <1>3 DEF InsertSees
  <2>3. k \in Contents
    BY <2>2 DEF Contents
  <2>4. At(node, it) = k
    BY <2>2, UsedFacts DEF At
  <2>5. TreeInv'
    BY <2>1, SameTree
  <2> QED
    BY <2>1, <2>3, <2>4, <2>5 DEF Entered
<1> QED
  BY <1>2, <1>3

\* operator [] puts the element in if it is new.
LEMMA IndexKeeps ==
  ASSUME TreeInv, NEW k \in Keys, Index(k)
  PROVE  TreeInv' /\ Entered(k) /\ ans' = [at |-> k, changed |-> FALSE]
<1>x. PICK x : x = Lbound(node, k)
  OBVIOUS
<1>D. PICK D : Tree(node, Used, D) /\ Outers(node, Used)
  BY DEF TreeInv, Sound
<1>k. k \in Nat
  BY TreeAssumption
<1>a. ans' = [at |-> k, changed |-> FALSE]
  BY DEF Index
<1>1. CASE x = Head0 \/ k < node[x].key
  <2>1. Insert_at(HintPlace(node, x), k)
    BY <1>1, <1>x DEF Index
  <2>2. Open(node, Used, HintPlace(node, x).parent, SideOf(HintPlace(node, x).addLeft), k)
    BY <1>D, <1>k, <1>x, <1>1, HintIs
  <2>3. k \notin Contents
    BY <2>2 DEF Open, Contents
  <2>4. TreeInv' /\ Adds(Head(freeList), k)
    BY <2>1, <2>2, InsertAtKeeps
  <2>5. count < Capacity
    BY <2>1 DEF Insert_at
  <2> QED
    BY <1>a, <2>3, <2>4, <2>5 DEF Entered
<1>2. CASE ~(x = Head0 \/ k < node[x].key)
  <2>1. UNCHANGED <<node, freeList, count>>
    BY <1>2, <1>x DEF Index
  <2>2. FirstFrom(node, Used, x, k)
    BY <1>D, <1>k, <1>x, LboundIs
  <2>3. x \in Used /\ k <= node[x].key
    BY <2>2, <1>2 DEF FirstFrom
  <2>4. node[x].key = k
    <3>1. node[x].key \in Nat
      BY <2>3, UsedFacts
    <3> QED
      BY <2>3, <3>1, <1>2, <1>k
  <2>5. k \in Contents
    BY <2>3, <2>4 DEF Contents
  <2>6. TreeInv'
    BY <2>1, SameTree
  <2> QED
    BY <1>a, <2>1, <2>5, <2>6 DEF Entered
<1> QED
  BY <1>1, <1>2

\* erase(it).
LEMMA EraseAtKeeps ==
  ASSUME TreeInv, NEW x \in Used, EraseAt(x)
  PROVE  TreeInv' /\ Removes({x}) /\ ans' = [at |-> At(node, Inc(node, x)), changed |-> FALSE]
BY WithoutKeeps DEF EraseAt

\* erase(key).
LEMMA EraseKeyKeeps ==
  ASSUME TreeInv, NEW k \in Keys, EraseKey(k)
  PROVE  /\ TreeInv'
         /\ \/ k \notin Contents /\ Removes({}) /\ ans' = [at |-> End, changed |-> FALSE]
            \/ \E x \in Used : node[x].key = k /\ Removes({x}) /\ ans' = [at |-> End, changed |-> TRUE]
<1>x. PICK x : x = Found(node, k)
  OBVIOUS
<1>1. \/ x \in Used /\ node[x].key = k
      \/ x = Head0 /\ \A z \in Used : node[z].key # k
  <2>1. k \in Nat
    BY TreeAssumption
  <2> QED
    BY <2>1, <1>x, FoundIs DEF TreeInv, Sound
<1>a. ans' = [at |-> End, changed |-> x # Head0]
  BY <1>x DEF EraseKey
<1>2. CASE x = Head0
  <2>1. UNCHANGED <<node, freeList, count>>
    BY <1>2, <1>x DEF EraseKey
  <2>2. x \notin Used
    BY <1>2, UsedFacts
  <2>3. k \notin Contents
    BY <2>2, <1>1 DEF Contents
  <2>4. ans' = [at |-> End, changed |-> FALSE]
    BY <1>a, <1>2
  <2> QED
    BY <2>1, <2>3, <2>4, SameTree
<1>3. CASE x # Head0
  <2>1. x \in Used /\ node[x].key = k
    BY <1>1, <1>3
  <2>2. Without(x)
    BY <1>3, <1>x DEF EraseKey
  <2>3. ans' = [at |-> End, changed |-> TRUE]
    BY <1>a, <1>3
  <2> QED
    BY <2>1, <2>2, <2>3, WithoutKeeps
<1> QED
  BY <1>2, <1>3

\* Every call keeps the invariant, and adds one element or takes some.
LEMMA CallKeeps ==
  ASSUME TreeInv, TreeNext
  PROVE  TreeInv' /\ ((\E x, k : Adds(x, k)) \/ \E A : Removes(A))
<1>1. ASSUME NEW k \in Keys, Entered(k), TreeInv' PROVE (\E x, j : Adds(x, j)) \/ \E A : Removes(A)
  <2>1. CASE k \in Contents
    BY <1>1, <2>1, SameTree DEF Entered
  <2>2. CASE k \notin Contents
    BY <1>1, <2>2 DEF Entered
  <2> QED
    BY <2>1, <2>2
<1>2. ASSUME NEW k \in Keys, Insert(k) \/ Index(k) PROVE TreeInv' /\ ((\E x, j : Adds(x, j)) \/ \E A : Removes(A))
  <2>1. TreeInv' /\ Entered(k)
    BY <1>2, InsertKeeps, IndexKeeps
  <2> QED
    BY <2>1, <1>1
<1>3. ASSUME NEW k \in Keys, EraseKey(k) PROVE TreeInv' /\ ((\E x, j : Adds(x, j)) \/ \E A : Removes(A))
  BY <1>3, EraseKeyKeeps
<1>4. ASSUME NEW k \in Keys, Find(k) PROVE TreeInv' /\ ((\E x, j : Adds(x, j)) \/ \E A : Removes(A))
  BY <1>4, SameTree DEF Find
<1>5. ASSUME NEW x \in Used, EraseAt(x) PROVE TreeInv' /\ ((\E y, j : Adds(y, j)) \/ \E A : Removes(A))
  BY <1>5, EraseAtKeeps
<1>6. ASSUME NEW x \in Used, NEW y \in Used \cup {Head0}, NotBefore(x, y), EraseRange(x, y)
      PROVE TreeInv' /\ ((\E z, j : Adds(z, j)) \/ \E A : Removes(A))
  BY <1>6, RangeKeeps
<1>7. CASE Clear
  BY <1>7, ClearKeeps
<1> QED
  BY <1>2, <1>3, <1>4, <1>5, <1>6, <1>7 DEF TreeNext

\* Every step keeps the invariant.
LEMMA TreeStep == TreeInv /\ [TreeNext]_treeVars => TreeInv'
<1> SUFFICES ASSUME TreeInv, [TreeNext]_treeVars PROVE TreeInv'
  OBVIOUS
<1>1. CASE TreeNext
  BY <1>1, CallKeeps
<1>2. CASE UNCHANGED treeVars
  BY <1>2, SameTree DEF treeVars
<1> QED
  BY <1>1, <1>2

LEMMA TreeAlways == TreeSpec => []TreeInv
<1>1. TreeInit => TreeInv
  BY InitTree
<1>2. TreeInv /\ [TreeNext]_treeVars => TreeInv'
  BY TreeStep
<1> QED
  BY <1>1, <1>2, PTL DEF TreeSpec

\* The invariant gives the properties of the run.
LEMMA InvLinks == TreeInv => LinksAgree
<1> SUFFICES ASSUME TreeInv PROVE LinksAgree
  OBVIOUS
<1>D. PICK D : Tree(node, Used, D) /\ Outers(node, Used)
  BY DEF TreeInv, Sound
<1>1. \A x \in Used, s \in Sides : node[x][s] # Head0 => node[x][s] \in Used /\ node[node[x][s]].parent = x
  BY <1>D DEF Tree, Links
<1>2. \A x \in Used : IF x = Root(node) THEN node[x].parent = Head0
                      ELSE x \in {node[node[x].parent][s] : s \in Sides}
  BY <1>D DEF Tree, Links
<1>3. Used = {} <=> Root(node) = Head0
  BY <1>D, RootFacts
<1>4. ASSUME NEW s \in Sides
      PROVE  node[Head0][s] = IF Used = {} THEN Head0 ELSE Outermost(node, Root(node), s)
  <2>1. CASE Used = {}
    BY <2>1, <1>D DEF Outers
  <2>2. CASE Used # {}
    <3>1. Root(node) \in Used /\ D[Root(node)] = Used
      BY <2>2, <1>D, RootFacts
    <3>2. Outermost(node, Root(node), s) \in Used /\ Utmost(node, Used, Outermost(node, Root(node), s), s)
      <4>1. Outermost(node, Root(node), s) \in Used /\ Utmost(node, D[Root(node)], Outermost(node, Root(node), s), s)
        BY <3>1, <1>D, OutermostIs
      <4> QED
        BY <4>1, <3>1
    <3>3. Outermost(node, Root(node), s) = node[Head0][s]
      BY <3>2, <1>D, OutersUnique
    <3> QED
      BY <2>2, <3>3
  <2> QED
    BY <2>1, <2>2
<1>5. Len(freeList) + Cardinality(Used) = Capacity /\ count = Cardinality(Used)
  BY UsedFacts DEF TreeInv
<1>6. (Used = {}) = (Root(node) = Head0)
  BY <1>3
<1> QED
  BY <1>1, <1>2, <1>4, <1>5, <1>6 DEF LinksAgree

LEMMA InvRedBlack == TreeInv => RedBlack
<1> SUFFICES ASSUME TreeInv PROVE RedBlack
  OBVIOUS
<1>D. PICK D : Tree(node, Used, D)
  BY DEF TreeInv, Sound
<1>1. Balanced(node, Used) /\ ~node[Root(node)].red
  BY DEF TreeInv, Sound
<1>2. ~node[Head0].red
  BY <1>1 DEF Balanced, Colored
<1>3. BlackHeights[Root(node)] > 0
  BY <1>D, <1>1, HeightsAre
<1> QED
  BY <1>1, <1>2, <1>3 DEF RedBlack

LEMMA BeyondIs ==
  ASSUME NEW x, NEW s \in Sides
  PROVE  Beyond(x, s) = {z \in Used : Before(s, node[z].key, node[x].key)}
BY SideFacts DEF Beyond, Before

\* Neighbors in the order of keys are what IsNext means.
LEMMA NextIs ==
  ASSUME TreeInv, NEW x \in Used, NEW y, NEW s \in Sides, Adjacent(node, Used, x, y, s)
  PROVE  IsNext(x, y, s)
<1>a. \A z \in Used : z # Head0 /\ node[z].key \in Nat
  BY UsedFacts
<1>1. CASE y = Head0
  <2>1. Utmost(node, Used, x, s)
    BY <1>1, <1>a DEF Adjacent
  <2>2. ASSUME NEW z \in Used, Before(s, node[z].key, node[x].key) PROVE FALSE
    <3>1. z = x \/ Before(s, node[x].key, node[z].key)
      BY <2>1 DEF Utmost
    <3> QED
      BY <3>1, <2>2, <1>a, BeforeFacts
  <2>3. Beyond(x, s) = {}
    BY <2>2, BeyondIs
  <2> QED
    BY <1>1, <2>3 DEF IsNext
<1>2. CASE y # Head0
  <2>1. /\ y \in Used /\ Before(s, node[y].key, node[x].key)
        /\ \A z \in Used : ~(Before(s, node[z].key, node[x].key) /\ Before(s, node[y].key, node[z].key))
    BY <1>2 DEF Adjacent
  <2>2. y \in Beyond(x, s)
    BY <2>1, BeyondIs
  <2>3. Beyond(x, s) \cap Beyond(y, Other(s)) = {}
    <3>1. ASSUME NEW z \in Used, z \in Beyond(x, s), z \in Beyond(y, Other(s)) PROVE FALSE
      <4>1. Before(s, node[z].key, node[x].key)
        BY <3>1, BeyondIs
      <4>2. Before(Other(s), node[z].key, node[y].key)
        BY <3>1, SideFacts, BeyondIs
      <4>3. Before(s, node[y].key, node[z].key)
        BY <4>2, <2>1, <1>a, BeforeFacts
      <4> QED
        BY <4>1, <4>3, <2>1
    <3> QED
      BY <3>1 DEF Beyond
  <2> QED
    BY <1>2, <2>2, <2>3 DEF IsNext
<1> QED
  BY <1>1, <1>2

LEMMA InvSorted == TreeInv => IterationIsSorted
<1> SUFFICES ASSUME TreeInv PROVE IterationIsSorted
  OBVIOUS
<1>D. PICK D : Tree(node, Used, D) /\ Outers(node, Used)
  BY DEF TreeInv, Sound
<1>a. \A z \in Used : z # Head0 /\ node[z].key \in Nat
  BY UsedFacts
<1>1. \A x, y \in Used : node[x].key = node[y].key => x = y
  BY <1>D, KeysDiffer
<1>2. ASSUME NEW x \in Used
      PROVE  IsNext(x, Inc(node, x), "right") /\ IsNext(x, Dec(node, x), "left")
  <2>1. Adjacent(node, Used, x, Inc(node, x), "right") /\ Adjacent(node, Used, x, Dec(node, x), "left")
    BY <1>D, IncIs
  <2> QED
    BY <2>1, SideFacts, NextIs
<1>3. ASSUME NEW s \in Sides
      PROVE  IF Used = {} THEN node[Head0][s] = Head0
             ELSE node[Head0][s] \in Used /\ Beyond(node[Head0][s], s) = {}
  <2>1. CASE Used = {}
    BY <2>1, <1>D DEF Outers
  <2>2. CASE Used # {}
    <3>y. PICK y : y = node[Head0][s]
      OBVIOUS
    <3>1. y \in Used /\ \A z \in Used : z = y \/ Before(s, node[y].key, node[z].key)
      BY <2>2, <3>y, <1>D DEF Outers, Utmost
    <3>2. ASSUME NEW z \in Used, Before(s, node[z].key, node[y].key) PROVE FALSE
      BY <3>1, <3>2, <1>a, BeforeFacts
    <3>3. Beyond(y, s) = {}
      BY <3>2, BeyondIs
    <3> QED
      BY <2>2, <3>1, <3>3, <3>y
  <2> QED
    BY <2>1, <2>2
<1> QED
  BY <1>1, <1>2, <1>3 DEF IterationIsSorted

\* Every node linked with its parent both ways, the head with root and outermost
\* nodes, and no node lost or used twice, for every pool and every set of elements.
THEOREM TreeLinksAgree == TreeSpec => []LinksAgree
  BY TreeAlways, InvLinks, PTL

\* The balance of the red-black tree is kept by every call.
THEOREM TreeIsRedBlack == TreeSpec => []RedBlack
  BY TreeAlways, InvRedBlack, PTL

\* A walk passes every element once in rising order, and back.
THEOREM TreeIterationIsSorted == TreeSpec => []IterationIsSorted
  BY TreeAlways, InvSorted, PTL

\* Two nodes have no key in common, so an element that stays, stays in its node.
LEMMA StaysStep ==
  ASSUME TreeInv, [TreeNext]_treeVars
  PROVE  [\A x \in Used : node[x].key \in Contents' => x \in Used' /\ node'[x].key = node[x].key]_treeVars
<1> SUFFICES ASSUME TreeNext, NEW x \in Used, node[x].key \in Contents'
             PROVE  x \in Used' /\ node'[x].key = node[x].key
  OBVIOUS
<1>1. ASSUME NEW y, NEW k, Adds(y, k) PROVE x \in Used' /\ node'[x].key = node[x].key
  BY <1>1 DEF Adds
<1>2. ASSUME NEW A, Removes(A) PROVE x \in Used' /\ node'[x].key = node[x].key
  <2>1. PICK y \in Used' : node'[y].key = node[x].key
    BY DEF Contents
  <2>2. y \in Used /\ node'[y].key = node[y].key
    BY <1>2 DEF Removes
  <2>3. node[y].key = node[x].key
    BY <2>1, <2>2
  <2>4. x = y
    BY <2>2, <2>3, KeysDiffer DEF TreeInv, Sound
  <2> QED
    BY <2>1, <2>4
<1> QED
  BY <1>1, <1>2, CallKeeps

\* Iterators and references to an element survive every call that does not erase it.
THEOREM TreeElementsStay == TreeSpec => ElementsStay
<1>1. TreeInv /\ [TreeNext]_treeVars
        => [\A x \in Used : node[x].key \in Contents' => x \in Used' /\ node'[x].key = node[x].key]_treeVars
  BY StaysStep
<1> QED
  BY <1>1, TreeAlways, PTL DEF TreeSpec, ElementsStay

-----------------------------------------------------------------------------
(* The tree is an ordered set *)

\* The abstract set.
ContentsFacts(S) ==
  /\ S = {node[x].key : x \in Used} /\ S \in SUBSET Nat /\ S \in SUBSET Keys /\ End \notin S

LEMMA ContentsAre ==
  ASSUME TreeInv
  PROVE  /\ ContentsFacts(Contents) /\ IsFiniteSet(Contents)
         /\ Cardinality(Contents) <= count
<1>1. ContentsFacts(Contents)
  <2>1. \A x \in Used : node[x].key \in Nat /\ node[x].key \in Keys
    BY UsedFacts DEF TreeInv
  <2> QED
    BY <2>1, TreeAssumption DEF ContentsFacts, Contents
<1> DEFINE f == [x \in Used |-> node[x].key]
<1>2. f \in Surjection(Used, Contents)
  BY DEF Surjection, Contents
<1>3. IsFiniteSet(Used) /\ count = Cardinality(Used)
  BY UsedFacts DEF TreeInv
<1> HIDE DEF f
<1>4. IsFiniteSet(Contents) /\ Cardinality(Contents) <= Cardinality(Used)
  BY <1>2, <1>3, FS_Surjection
<1> QED
  BY <1>1, <1>3, <1>4

\* The least element from k on.
LEMMA FromIs ==
  ASSUME NEW S \in SUBSET Nat, NEW k \in Nat, NEW a \in S, k <= a, \A b \in S : k <= b => a <= b
  PROVE  Ordered!From(S, k) = a
<1> DEFINE A == {x \in S : x >= k}
<1>1. a \in A /\ \A b \in A : a <= b
  OBVIOUS
<1>2. \A c \in A : (\A b \in A : c <= b) => c = a
  BY <1>1
<1>3. Ordered!Min(A) = a
  BY <1>1, <1>2 DEF Ordered!Min
<1>4. A # {}
  BY <1>1
<1> QED
  BY <1>3, <1>4 DEF Ordered!From

LEMMA FromNone ==
  ASSUME NEW S \in SUBSET Nat, NEW k \in Nat, \A b \in S : b < k
  PROVE  Ordered!From(S, k) = End
<1>1. ASSUME NEW x \in S, x >= k PROVE FALSE
  BY <1>1
<1>2. {x \in S : x >= k} = {}
  BY <1>1
<1> QED
  BY <1>2 DEF Ordered!From

\* The element that ++ leads to.
LEMMA AfterIs ==
  ASSUME TreeInv, NEW x \in Used
  PROVE  At(node, Inc(node, x)) = Ordered!After(Contents, node[x].key)
<1>y. PICK y : y = Inc(node, x)
  OBVIOUS
<1>1. Adjacent(node, Used, x, y, "right")
  BY <1>y, IncIs DEF TreeInv, Sound
<1>2. \A z \in Used : node[z].key \in Nat /\ z # Head0
  BY UsedFacts
<1>k. PICK k \in Nat : k = node[x].key
  BY <1>2
<1> DEFINE S == Contents \ {k}
<1>3. S \in SUBSET Nat
  BY ContentsAre DEF ContentsFacts
<1>4. CASE y = Head0
  <2>1. \A z \in Used : z = x \/ node[z].key < k
    <3>1. Utmost(node, Used, x, "right")
      BY <1>1, <1>4, <1>2 DEF Adjacent
    <3> QED
      BY <3>1, <1>k DEF Utmost, Before
  <2>2. \A b \in S : b < k
    BY <2>1, <1>k DEF Contents
  <2>3. Ordered!From(S, k) = End
    <3> HIDE DEF S
    <3> QED
      BY <2>2, <1>3, FromNone
  <2> QED
    BY <2>3, <1>4, <1>y, <1>k DEF Ordered!After, At
<1>5. CASE y # Head0
  <2>1. /\ y \in Used /\ k < node[y].key
        /\ \A z \in Used : ~(k < node[z].key /\ node[z].key < node[y].key)
    BY <1>1, <1>5, <1>k DEF Adjacent, Before
  <2>2. node[y].key \in S /\ k <= node[y].key
    BY <2>1, <1>2 DEF Contents
  <2>3. \A b \in S : k <= b => node[y].key <= b
    <3>1. ASSUME NEW z \in Used, node[z].key # k, k <= node[z].key PROVE node[y].key <= node[z].key
      BY <3>1, <2>1, <1>2
    <3> QED
      BY <3>1 DEF Contents
  <2>4. Ordered!From(S, k) = node[y].key
    <3> HIDE DEF S
    <3> QED
      BY <2>2, <2>3, <1>3, FromIs, ZenonT(40)
  <2> QED
    BY <2>4, <1>5, <1>y, <1>k DEF Ordered!After, At
<1> QED
  BY <1>4, <1>5

\* A node more or less is an element more or less.
LEMMA AddsSet ==
  ASSUME TreeInv, NEW x, NEW k, Adds(x, k)
  PROVE  Contents' = Contents \cup {k}
<1>1. /\ Used' = Used \cup {x} /\ node'[x].key = k
      /\ \A z \in Used : node'[z].key = node[z].key
  BY DEF Adds
<1>2. {node'[z].key : z \in Used \cup {x}} = {node[z].key : z \in Used} \cup {k}
  BY <1>1
<1> QED
  BY <1>1, <1>2 DEF Contents

LEMMA RemovesSet ==
  ASSUME TreeInv, NEW A \in SUBSET Used, Removes(A)
  PROVE  Contents' = Contents \ {node[z].key : z \in A}
<1>1. Used' = Used \ A /\ \A z \in Used : node'[z].key = node[z].key
  BY DEF Removes
<1>2. \A y, z \in Used : node[y].key = node[z].key => y = z
  BY KeysDiffer DEF TreeInv, Sound
<1>3. {node'[z].key : z \in Used \ A} = {node[z].key : z \in Used} \ {node[z].key : z \in A}
  BY <1>1, <1>2
<1> QED
  BY <1>1, <1>3 DEF Contents

LEMMA SameSet ==
  ASSUME TreeInv, UNCHANGED <<node, freeList, count>>
  PROVE  Contents' = Contents
BY DEF Contents, Used

\* The abstract set has room when the pool has.
LEMMA EnteredSet ==
  ASSUME TreeInv, NEW k, Entered(k)
  PROVE  /\ Contents' = Contents \cup {k}
         /\ k \in Contents \/ Cardinality(Contents) < Capacity
<1>1. CASE k \in Contents
  <2>1. Contents' = Contents
    BY <1>1, SameSet DEF Entered
  <2> QED
    BY <1>1, <2>1
<1>2. CASE k \notin Contents
  <2>1. count < Capacity /\ \E x : Adds(x, k)
    BY <1>2 DEF Entered
  <2>2. /\ Cardinality(Contents) <= count /\ IsFiniteSet(Contents)
        /\ count \in Nat /\ Capacity \in Nat
    BY ContentsAre, UsedFacts, TreeAssumption DEF TreeInv
  <2>3. Cardinality(Contents) \in Nat
    BY <2>2, FS_CardinalityType
  <2> QED
    BY <2>1, <2>2, <2>3, AddsSet
<1> QED
  BY <1>1, <1>2

LEMMA OneKey ==
  ASSUME TreeInv, NEW x \in Used, Removes({x})
  PROVE  Contents' = Contents \ {node[x].key}
<1>1. {node[z].key : z \in {x}} = {node[x].key}
  OBVIOUS
<1> QED
  BY <1>1, RemovesSet

\* The two modules mean the same number of elements.
LEMMA OneCardinality == \A S : Ordered!Cardinality(S) = Cardinality(S)
BY Zenon DEF Cardinality, Ordered!Cardinality

\* The simulation, a call at a time.
LEMMA InsertSim ==
  ASSUME TreeInv, NEW k \in Keys, Insert(k)
  PROVE  Ordered!Insert(k)
<1>1. Entered(k) /\ ans' = [at |-> k, changed |-> IF k \in Contents THEN FALSE ELSE TRUE]
  BY InsertKeeps
<1>2. ans' = [at |-> k, changed |-> k \notin Contents]
  BY <1>1
<1>3. /\ Contents' = Contents \cup {k}
      /\ k \in Contents \/ Cardinality(Contents) < Capacity
  BY <1>1, EnteredSet
<1> QED
  BY <1>2, <1>3, OneCardinality, Zenon DEF Ordered!Insert, Ordered!Answer

LEMMA IndexSim ==
  ASSUME TreeInv, NEW k \in Keys, Index(k)
  PROVE  Ordered!Index(k)
<1>1. Entered(k) /\ ans' = [at |-> k, changed |-> FALSE]
  BY IndexKeeps
<1>2. /\ Contents' = Contents \cup {k}
      /\ k \in Contents \/ Cardinality(Contents) < Capacity
  BY <1>1, EnteredSet
<1> QED
  BY <1>1, <1>2, OneCardinality, Zenon DEF Ordered!Index, Ordered!Answer

LEMMA EraseAtSim ==
  ASSUME TreeInv, NEW x \in Used, EraseAt(x)
  PROVE  Ordered!EraseAt(node[x].key)
<1>1. Removes({x}) /\ ans' = [at |-> At(node, Inc(node, x)), changed |-> FALSE]
  BY EraseAtKeeps
<1>2. node[x].key \in Contents
  BY DEF Contents
<1> QED
  BY <1>1, <1>2, OneKey, AfterIs DEF Ordered!EraseAt, Ordered!Answer

LEMMA EraseKeySim ==
  ASSUME TreeInv, NEW k \in Keys, EraseKey(k)
  PROVE  Ordered!EraseKey(k)
<1>1. CASE k \notin Contents /\ Removes({}) /\ ans' = [at |-> End, changed |-> FALSE]
  <2>1. Contents' = Contents \ {node[z].key : z \in {}}
    BY <1>1, RemovesSet
  <2>2. Contents' = Contents \ {k}
    BY <2>1, <1>1
  <2>3. ans' = [at |-> End, changed |-> k \in Contents]
    <3>1. (k \in Contents) = FALSE
      BY <1>1
    <3> QED
      BY <1>1, <3>1, Zenon
  <2> QED
    BY <2>2, <2>3 DEF Ordered!EraseKey, Ordered!Answer
<1>2. CASE \E x \in Used : node[x].key = k /\ Removes({x}) /\ ans' = [at |-> End, changed |-> TRUE]
  <2>x. PICK x \in Used : node[x].key = k /\ Removes({x}) /\ ans' = [at |-> End, changed |-> TRUE]
    BY <1>2
  <2>1. Contents' = Contents \ {k}
    BY <2>x, OneKey
  <2>2. k \in Contents
    BY <2>x DEF Contents
  <2>3. ans' = [at |-> End, changed |-> k \in Contents]
    BY <2>x, <2>2
  <2> QED
    BY <2>1, <2>3 DEF Ordered!EraseKey, Ordered!Answer
<1> QED
  BY <1>1, <1>2, EraseKeyKeeps

LEMMA FindSim ==
  ASSUME TreeInv, NEW k \in Keys, Find(k)
  PROVE  Ordered!Find(k)
<1>x. PICK x : x = Found(node, k)
  OBVIOUS
<1>1. ans' = [at |-> At(node, x), changed |-> FALSE] /\ Contents' = Contents
  BY <1>x, SameSet DEF Find
<1>2. \/ x \in Used /\ node[x].key = k
      \/ x = Head0 /\ \A z \in Used : node[z].key # k
  <2>1. k \in Nat
    BY TreeAssumption
  <2> QED
    BY <2>1, <1>x, FoundIs DEF TreeInv, Sound
<1>3. At(node, x) = IF k \in Contents THEN k ELSE End
  <2>1. CASE x \in Used /\ node[x].key = k
    <3>1. k \in Contents /\ x # Head0
      BY <2>1, UsedFacts DEF Contents
    <3> QED
      BY <2>1, <3>1 DEF At
  <2>2. CASE x = Head0 /\ \A z \in Used : node[z].key # k
    <3>1. k \notin Contents
      BY <2>2 DEF Contents
    <3> QED
      BY <2>2, <3>1 DEF At
  <2> QED
    BY <2>1, <2>2, <1>2
<1> QED
  BY <1>1, <1>3 DEF Ordered!Find, Ordered!Answer

LEMMA ClearSim ==
  ASSUME TreeInv, Clear
  PROVE  Ordered!Clear
<1>1. Contents' = Contents \ {node[z].key : z \in Used}
  BY ClearKeeps, RemovesSet
<1>2. Contents' = {}
  BY <1>1 DEF Contents
<1> QED
  BY <1>2 DEF Clear, Ordered!Clear, Ordered!Answer

LEMMA RangeSim ==
  ASSUME TreeInv, NEW x \in Used, NEW y \in Used \cup {Head0}, NotBefore(x, y), EraseRange(x, y)
  PROVE  Ordered!EraseRange(node[x].key, At(node, y))
<1>a. \A z \in Used : node[z].key \in Nat /\ z # Head0 /\ node[z].key # End
  BY UsedFacts, TreeAssumption
<1>1. ans' = [at |-> At(node, y), changed |-> FALSE]
  <2>1. CASE x = Lmost(node) /\ y = Head0
    BY <2>1 DEF EraseRange, Clear, At
  <2>2. CASE ~(x = Lmost(node) /\ y = Head0)
    BY <2>2 DEF EraseRange
  <2> QED
    BY <2>1, <2>2
<1>k. PICK first, last : first = node[x].key /\ last = At(node, y)
  OBVIOUS
<1>2. last = End <=> y = Head0
  BY <1>a, <1>k DEF At
<1>3. y # Head0 => last = node[y].key /\ y \in Used
  BY <1>k DEF At
<1>4. first \in Contents /\ last \in Contents \cup {End} /\ (last = End \/ first <= last)
  <2>1. first \in Contents
    BY <1>k DEF Contents
  <2>2. CASE y = Head0
    BY <2>1, <2>2, <1>2
  <2>3. CASE y # Head0
    <3>1. last \in Contents
      BY <1>3, <2>3 DEF Contents
    <3>2. first <= last
      BY <1>3, <2>3, <1>k DEF NotBefore
    <3> QED
      BY <2>1, <3>1, <3>2
  <2> QED
    BY <2>2, <2>3
<1> DEFINE gone == {b \in Contents : b >= first /\ (last = End \/ b < last)}
           P == Part(node, Used, x, y)
<1>5. \A z \in Used : z \in P <=> node[z].key >= first /\ (last = End \/ node[z].key < last)
  <2>1. CASE y = Head0
    BY <2>1, <1>2, <1>a, <1>k DEF Part
  <2>2. CASE y # Head0
    BY <2>2, <1>2, <1>3, <1>a, <1>k DEF Part
  <2> QED
    BY <2>1, <2>2
<1>6. P \in SUBSET Used
  BY DEF Part
<1>7. {node[z].key : z \in P} = gone
  <2> HIDE DEF P
  <2> QED
    BY <1>5, <1>6 DEF Contents
<1>8. Contents' = Contents \ {node[z].key : z \in P}
  <2>1. Removes(P)
    BY RangeKeeps
  <2> HIDE DEF P
  <2> QED
    BY <2>1, <1>6, RemovesSet
<1>9. Contents' = Contents \ gone
  BY <1>7, <1>8
<1> QED
  BY <1>1, <1>4, <1>9, <1>k DEF Ordered!EraseRange, Ordered!Answer

\* Every step of the tree is one of the ordered set, or none.
LEMMA CallSim ==
  ASSUME TreeInv, [TreeNext]_treeVars
  PROVE  [Ordered!Next]_<<Contents, ans>>
<1>1. ASSUME NEW k \in Keys, Insert(k) \/ Index(k) \/ EraseKey(k) \/ Find(k) PROVE Ordered!Next
  BY <1>1, InsertSim, IndexSim, EraseKeySim, FindSim DEF Ordered!Next
<1>2. ASSUME NEW x \in Used, EraseAt(x) PROVE Ordered!Next
  <2>1. node[x].key \in Keys
    BY DEF TreeInv
  <2> QED
    BY <1>2, <2>1, EraseAtSim DEF Ordered!Next
<1>3. ASSUME NEW x \in Used, NEW y \in Used \cup {Head0}, NotBefore(x, y), EraseRange(x, y)
      PROVE Ordered!Next
  <2>1. node[x].key \in Keys /\ At(node, y) \in Keys \cup {End}
    BY DEF TreeInv, At
  <2> QED
    BY <1>3, <2>1, RangeSim DEF Ordered!Next
<1>4. CASE Clear
  BY <1>4, ClearSim DEF Ordered!Next
<1>5. CASE UNCHANGED treeVars
  BY <1>5, SameSet DEF treeVars
<1> QED
  BY <1>1, <1>2, <1>3, <1>4, <1>5 DEF TreeNext

LEMMA InitSim == TreeInit => Ordered!Init
<1> SUFFICES ASSUME TreeInit PROVE Ordered!Init
  OBVIOUS
<1>1. ToSet(freeList) = Nodes
  BY TreeAssumption DEF TreeInit, ToSet, Nodes
<1>2. Contents = {}
  BY <1>1 DEF Contents, Used
<1> QED
  BY <1>2 DEF TreeInit, Ordered!Init, Ordered!Answer

\* The calls do what an ordered set of their elements does, with the same answers.
THEOREM TreeIsSortedSet == TreeSpec => SortedSetSpec
<1>1. TreeInit => Ordered!Init
  BY InitSim
<1>2. TreeInv /\ [TreeNext]_treeVars => [Ordered!Next]_<<Contents, ans>>
  BY CallSim
<1> QED
  BY <1>1, <1>2, TreeAlways, PTL DEF TreeSpec, SortedSetSpec, Ordered!Spec
=============================================================================
