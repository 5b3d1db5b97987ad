---------------------------- MODULE WeakObjArray ----------------------------
(***************************************************************************)
(* Weak pointers to objects of utility/src/weak_obj_array.h and            *)
(* weak_obj_ptr.h.  The array (WeakObjArray) has a slot for each object to *)
(* which a weak pointer was ever made; the free slots form a list through  *)
(* next_index.  A weak pointer is a slot index and the serial number the   *)
(* slot had.  An address may be used again by a later object: an object is *)
(* its address and the `life' it is in there.                              *)
(***************************************************************************)
EXTENDS Integers, FiniteSets

CONSTANTS Addresses,  \* where objects are constructed
          Pointers,   \* the weak pointers (WeakObjPtrBase)
          inc,        \* inc_, by how much the array grows
          MaxSerial,  \* bound on the serial numbers given out, below 2^31
          MaxLife     \* bound on the objects constructed at one address

kInvalidIndex == -1
NoObject      == <<>>  \* the null pointer

ASSUME WeakAssumption == /\ inc \in Nat \ {0}
                         /\ MaxSerial \in Nat
                         /\ MaxLife \in Nat
                         /\ NoObject \notin Addresses

VARIABLES
  slots,     \* obj_: [serial, next, obj] for each index
  free,      \* free_index
  gener,     \* serial_num_gener_
  life,      \* how many objects were constructed at each address
  alive,     \* the addresses at which an object lives
  index,     \* ObjectIndex::index_ of the object at each address
  ptr,       \* [index, serial] of each weak pointer
  target     \* the object each weak pointer was made for

vars == <<slots, free, gener, life, alive, index, ptr, target>>
array   == <<slots, free, gener>>
objects == <<life, alive, index>>

Null == [index |-> kInvalidIndex, serial |-> 0]
Slot(serial, next, obj) == [serial |-> serial, next |-> next, obj |-> obj]

Init == /\ slots = [i \in {} |-> Slot(0, 0, NoObject)]
        /\ free = kInvalidIndex
        /\ gener = 0
        /\ life = [a \in Addresses |-> 0]
        /\ alive = {}
        /\ index = [a \in Addresses |-> kInvalidIndex]
        /\ ptr = [p \in Pointers |-> Null]
        /\ target = [p \in Pointers |-> NoObject]

Size == Cardinality(DOMAIN slots)
-----------------------------------------------------------------------------
\* Mutant: the last new slot is not made the end of the free list.
GrownOpen == [i \in 0 .. Size + inc - 1 |->
                IF i < Size THEN slots[i] ELSE Slot(0, i + 1, NoObject)]

\* The slots after AllocIndex found none free and added inc of them.
Grown == [i \in 0 .. Size + inc - 1 |->
            IF i < Size THEN slots[i]
            ELSE Slot(0, IF i = Size + inc - 1 THEN kInvalidIndex ELSE i + 1, NoObject)]

\* Mutant: the serial number is not counted on.
SetSameSerial(p, a) ==
  /\ a \in alive
  /\ target' = [target EXCEPT ![p] = <<a, life[a]>>]
  /\ UNCHANGED <<life, alive, gener>>
  /\ IF index[a] # kInvalidIndex
     THEN /\ ptr' = [ptr EXCEPT ![p] = [index |-> index[a], serial |-> slots[index[a]].serial]]
          /\ UNCHANGED <<slots, free, index>>
     ELSE LET all == IF free = kInvalidIndex THEN Grown ELSE slots
              i   == IF free = kInvalidIndex THEN Size ELSE free
          IN  /\ slots' = [all EXCEPT ![i].obj = a, ![i].serial = 1]
              /\ free' = all[i].next
              /\ index' = [index EXCEPT ![a] = i]
              /\ ptr' = [ptr EXCEPT ![p] = [index |-> i, serial |-> 1]]

\* WeakObjPtr = &object: AllocIndex, unless the object has a slot, then its serial.
Set(p, a) ==
  /\ a \in alive
  /\ target' = [target EXCEPT ![p] = <<a, life[a]>>]
  /\ UNCHANGED <<life, alive>>
  /\ IF index[a] # kInvalidIndex
     THEN /\ ptr' = [ptr EXCEPT ![p] = [index |-> index[a], serial |-> slots[index[a]].serial]]
          /\ UNCHANGED <<array, index>>
     ELSE /\ gener < MaxSerial
          /\ LET all == IF free = kInvalidIndex THEN Grown ELSE slots
                 i   == IF free = kInvalidIndex THEN Size ELSE free
             IN  /\ slots' = [all EXCEPT ![i].obj = a, ![i].serial = gener + 1]
                 /\ free' = all[i].next
                 /\ gener' = gener + 1
                 /\ index' = [index EXCEPT ![a] = i]
                 /\ ptr' = [ptr EXCEPT ![p] = [index |-> i, serial |-> gener + 1]]

Construct(a) == /\ a \notin alive /\ life[a] < MaxLife
                /\ life' = [life EXCEPT ![a] = @ + 1]
                /\ alive' = alive \cup {a}
                /\ index' = [index EXCEPT ![a] = kInvalidIndex]
                /\ UNCHANGED <<array, ptr, target>>

\* Mutant: the copy constructor copies the index.
CopyConstructShares(a, b) ==
  /\ a \notin alive /\ b \in alive /\ life[a] < MaxLife
  /\ life' = [life EXCEPT ![a] = @ + 1]
  /\ alive' = alive \cup {a}
  /\ index' = [index EXCEPT ![a] = index[b]]
  /\ UNCHANGED <<array, ptr, target>>

\* An object is made as a copy of another; an index is not copied.
CopyConstruct(a, b) == b \in alive /\ Construct(a)

\* Mutant: the serial number survives in the free slot.
DestroyKeepsSerial(a) ==
  /\ a \in alive
  /\ alive' = alive \ {a}
  /\ IF index[a] = kInvalidIndex
     THEN UNCHANGED <<slots, free, index>>
     ELSE /\ slots' = [slots EXCEPT ![index[a]].obj = NoObject, ![index[a]].next = free]
          /\ free' = index[a]
          /\ index' = [index EXCEPT ![a] = kInvalidIndex]
  /\ UNCHANGED <<gener, life, ptr, target>>

\* ~ObjectIndex: FreeIndex, when the object has a slot.
Destroy(a) ==
  /\ a \in alive
  /\ alive' = alive \ {a}
  /\ IF index[a] = kInvalidIndex
     THEN UNCHANGED <<slots, free, index>>
     ELSE /\ slots' = [slots EXCEPT ![index[a]] = Slot(0, free, NoObject)]
          /\ free' = index[a]
          /\ index' = [index EXCEPT ![a] = kInvalidIndex]
  /\ UNCHANGED <<gener, life, ptr, target>>

CopyPtr(p, q) == /\ ptr' = [ptr EXCEPT ![p] = ptr[q]]
                 /\ target' = [target EXCEPT ![p] = target[q]]
                 /\ UNCHANGED <<array, objects>>

Reset(p) == /\ ptr' = [ptr EXCEPT ![p] = Null]
            /\ target' = [target EXCEPT ![p] = NoObject]
            /\ UNCHANGED <<array, objects>>

Next == \/ \E a \in Addresses : \/ Construct(a) \/ Destroy(a)
                                \/ \E b \in Addresses : CopyConstruct(a, b)
                                \/ \E p \in Pointers : Set(p, a)
        \/ \E p \in Pointers : Reset(p) \/ \E q \in Pointers : CopyPtr(p, q)

Spec == Init /\ [][Next]_vars
-----------------------------------------------------------------------------
\* WeakObjPtrBase::IsValid and Get.
IsValid(p) == /\ ptr[p].index # kInvalidIndex
              /\ ptr[p].serial = slots[ptr[p].index].serial

Get(p) == IF IsValid(p) THEN slots[ptr[p].index].obj ELSE NoObject

Indexes == {kInvalidIndex} \cup DOMAIN slots

TypeOK == /\ slots \in [0 .. Size - 1 -> [serial : 0 .. MaxSerial, next : Indexes,
                                           obj : Addresses \cup {NoObject}]]
          /\ free \in Indexes
          /\ gener \in 0 .. MaxSerial
          /\ life \in [Addresses -> 0 .. MaxLife]
          /\ alive \subseteq Addresses
          /\ index \in [Addresses -> Indexes]
          /\ ptr \in [Pointers -> [index : Indexes, serial : 0 .. MaxSerial]]
          /\ target \in [Pointers -> {NoObject} \cup (Addresses \X (1 .. MaxLife))]

\* The object a weak pointer was made for still lives.
Lives(p) == /\ target[p] # NoObject
            /\ target[p][1] \in alive
            /\ life[target[p][1]] = target[p][2]

\* A weak pointer yields the object it was made for as long as that object lives
\* and nothing afterwards, though its slot and its address are given to others.
PointersAreExact ==
  \A p \in Pointers : /\ IsValid(p) <=> Lives(p)
                      /\ Get(p) = IF Lives(p) THEN target[p][1] ELSE NoObject

\* Serial numbers and lists of slots come to this: what a pointer refers to is
\* gone from it, and from all its copies, in the step that destroys the object.
Refs == INSTANCE WeakRefs WITH None <- NoObject, living <- alive,
                               ref <- [p \in Pointers |-> Get(p)]
WeakRefSpec == Refs!Spec

\* The free list: the slots met from free_index on, until an end or a repetition.
Walk == LET walk[n \in 0 .. Size] ==
              IF n = 0 THEN {free}
              ELSE walk[n - 1] \cup {slots[i].next : i \in walk[n - 1] \ {kInvalidIndex}}
        IN  walk[Size]

\* Every slot is either that of exactly one living object, which knows it, or in
\* the free list, which ends: no slot is lost and none has two owners.
SlotsHaveOneUse ==
  /\ \A i \in DOMAIN slots : slots[i].obj = NoObject <=> i \in Walk
  /\ kInvalidIndex \in Walk
  /\ \A i, j \in Walk \ {kInvalidIndex} : slots[i].next = slots[j].next => i = j
  /\ \A a \in Addresses : \A i \in DOMAIN slots :
       slots[i].obj = a <=> a \in alive /\ index[a] = i
=============================================================================
