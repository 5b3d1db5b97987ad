------------------------- MODULE ObjectBridgeProofs -------------------------
(***************************************************************************)
(* For any number of objects, light and full user data.  Whatever index    *)
(* copies are made with, the collector finds the cache entries it erases   *)
(* and what Lua finds by an entry is the object's own user data or nil.    *)
(* If copies are made without an index, light user data leads to its own   *)
(* object or to none, and the types on record are true and only refined.   *)
(***************************************************************************)
EXTENDS ObjectBridge, TLAPS

\* The copy constructor of xLuaIndex would write -1, as the other one does.
CopiesAreFresh == Garbage \subseteq {NoSlot}

Info == [serial : Nat, obj : Objs \cup {NoObj}, info : Types]
Light == [index : Nat, serial : Nat, obj : Objs, id : Nat]
Ud == [obj : Objs, info : Types, phase : {"live", "cleared", "gone"}]

IndexType ==
  /\ objs \in [Objs -> [id : Nat, type : Types, held : BOOLEAN, index : Int]]
  /\ count \in Nat
  /\ array \in Seq(Info)
  /\ free \in Seq(Nat)
  /\ gener \in Nat
  /\ lights \subseteq Light

\* Ids count up; an object that was destroyed leaves nothing behind.
ObjInv(o) ==
  /\ objs[o].id <= count
  /\ ~Live(o) => objs[o] = Dead
  /\ objs[o].index # NoSlot => /\ objs[o].index + 1 \in DOMAIN array
                               /\ array[objs[o].index + 1].obj = o

\* A slot belongs to a living object that knows it, or is as EmptySlot left it.
SlotInv(i) ==
  IF array[i].obj = NoObj THEN array[i] = EmptySlot
  ELSE /\ Live(array[i].obj)
       /\ objs[array[i].obj].index + 1 = i
       /\ array[i].serial \in 1 .. gener
       /\ IsBaseOf(array[i].info, objs[array[i].obj].type)

\* The free list holds slots that are free, each once.
FreeInv ==
  \A k \in DOMAIN free :
    /\ free[k] + 1 \in DOMAIN array
    /\ array[free[k] + 1].obj = NoObj
    /\ \A m \in DOMAIN free : free[m] = free[k] => m = k

\* A slot has the serial number of light user data only as long as it has the
\* object, and an object that is alive has kept both.
LightInv(l) ==
  /\ l.serial \in 1 .. gener
  /\ l.id \in 1 .. count
  /\ objs[l.obj].id = l.id => /\ l.index = objs[l.obj].index
                              /\ array[l.index + 1].serial = l.serial
  /\ (l.index + 1 \in DOMAIN array /\ array[l.index + 1].serial = l.serial)
       => objs[l.obj].id = l.id /\ array[l.index + 1].obj = l.obj

IndexInv ==
  /\ IndexType
  /\ \A o \in Objs : ObjInv(o)
  /\ \A i \in DOMAIN array : SlotInv(i)
  /\ FreeInv
  /\ \A l \in lights : LightInv(l)

\* User data that is not finalised owns an object, and is the object's entry.
UdInv(u) ==
  uds[u].phase # "gone" =>
    /\ Live(uds[u].obj)
    /\ cache[uds[u].obj].ud = u
    /\ IsBaseOf(uds[u].info, objs[uds[u].obj].type)

EntryInv(o) ==
  cache[o] # NoEntry => /\ cache[o].ud \in DOMAIN uds
                        /\ uds[cache[o].ud].obj = o
                        /\ uds[cache[o].ud].phase # "gone"

UdsInv ==
  /\ uds \in Seq(Ud)
  /\ DOMAIN cache = Objs /\ cache = [o \in Objs |-> cache[o]]
  /\ \A u \in DOMAIN uds : UdInv(u)
  /\ \A o \in Objs : EntryInv(o)

\* What is said of user data does not ask where an object has its slot.
AliveInv ==
  /\ \E I : objs \in [Objs -> [id : Nat, type : Types, held : BOOLEAN, index : I]]
  /\ count \in Nat
  /\ \A o \in Objs : ~Live(o) => objs[o] = Dead

OwnersInv == AliveInv /\ UdsInv

\* With copies that have no slot.
IInv == IndexInv /\ UdsInv

-----------------------------------------------------------------------------
LEMMA InitInv == Init => IInv
<1> SUFFICES ASSUME Init PROVE IInv
  OBVIOUS
<1>1. IndexInv
  BY BridgeAssumption DEF Init, IndexInv, IndexType, ObjInv, FreeInv, Live, Dead, NoSlot, Types
<1>2. UdsInv
  BY DEF Init, UdsInv, EntryInv
<1> QED
  BY <1>1, <1>2 DEF IInv

LEMMA IInvOwners == IInv => OwnersInv
<1> SUFFICES ASSUME IInv PROVE AliveInv
  BY DEF OwnersInv, IInv
<1>1. objs \in [Objs -> [id : Nat, type : Types, held : BOOLEAN, index : Int]]
  BY DEF IInv, IndexInv, IndexType
<1> QED
  BY <1>1 DEF AliveInv, IInv, IndexInv, IndexType, ObjInv

\* User data is about an object.
LEMMA UdHasObject == UdsInv => \A u \in DOMAIN uds : uds[u] \in Ud /\ uds[u].obj \in Objs
<1> SUFFICES ASSUME UdsInv, NEW u \in DOMAIN uds PROVE uds[u] \in Ud /\ uds[u].obj \in Objs
  OBVIOUS
<1>1. uds[u] \in Ud
  BY DEF UdsInv
<1> QED
  BY <1>1 DEF Ud

\* A slot holds an object or none.
LEMMA SlotHasObject ==
  IndexType => \A i \in DOMAIN array : /\ array[i] \in Info
                                       /\ array[i].obj # NoObj => array[i].obj \in Objs
<1> SUFFICES ASSUME IndexType, NEW i \in DOMAIN array
             PROVE  /\ array[i] \in Info
                    /\ array[i].obj # NoObj => array[i].obj \in Objs
  OBVIOUS
<1>1. array[i] \in Info
  BY DEF IndexType
<1> QED
  BY <1>1 DEF Info

(* The object array.                                                       *)

\* An object that dies gives its slot back.
LEMMA DestroyKeeps ==
  ASSUME IndexInv, NEW o \in Objs, Live(o), Destroy(o), UNCHANGED <<count, gener, lights>>
  PROVE  IndexInv'
<1> USE DEF IndexInv
<1>0. /\ objs' = [objs EXCEPT ![o] = Dead]
      /\ objs'[o] = Dead
      /\ \A x \in Objs : x # o => objs'[x] = objs[x]
      /\ Dead.id = 0 /\ Dead.index = NoSlot
      /\ o # NoObj
      /\ Dead \in [id : Nat, type : Types, held : BOOLEAN, index : Int]
  BY BridgeAssumption DEF Destroy, IndexType, Dead, NoSlot, Types
<1>1. CASE objs[o].index = NoSlot
  <2>0. UNCHANGED <<array, free, count, gener, lights>>
    BY <1>1 DEF Destroy
  <2>1. \A i \in DOMAIN array : array[i].obj # o
    BY <1>0, <1>1 DEF SlotInv, IndexType, NoSlot
  <2>2. IndexType'
    BY <1>0, <2>0 DEF IndexType
  <2>3. ASSUME NEW x \in Objs PROVE ObjInv(x)'
    BY <1>0, <2>0 DEF ObjInv, IndexType, Live
  <2>4. ASSUME NEW i \in DOMAIN array PROVE SlotInv(i)'
    BY <1>0, <2>0, <2>1 DEF SlotInv, IndexType, Live, Info
  <2>5. FreeInv'
    BY <2>0 DEF FreeInv
  <2>6. ASSUME NEW l \in lights PROVE LightInv(l)'
    <3>1. l.obj \in Objs /\ l.index \in Nat /\ LightInv(l)
      BY DEF IndexType, Light
    <3>2. CASE l.obj = o
      <4>1. objs[o].id # l.id
        BY <1>1, <3>1, <3>2 DEF LightInv, NoSlot
      <4> QED
        BY <1>0, <2>0, <3>1, <3>2, <4>1 DEF LightInv
    <3>3. CASE l.obj # o
      BY <1>0, <2>0, <3>1, <3>3 DEF LightInv
    <3> QED
      BY <3>2, <3>3
  <2> QED
    BY <2>0, <2>2, <2>3, <2>4, <2>5, <2>6
<1>2. CASE objs[o].index # NoSlot
  <2> DEFINE s == objs[o].index + 1
  <2>0. /\ s \in DOMAIN array
        /\ array[s].obj = o
        /\ array' = [array EXCEPT ![s] = EmptySlot]
        /\ free' = Append(free, s - 1)
        /\ UNCHANGED <<count, gener, lights>>
    BY <1>2 DEF Destroy, ObjInv, IndexType
  <2> HIDE DEF s
  <2>1. /\ DOMAIN array' = DOMAIN array
        /\ array'[s] = EmptySlot
        /\ \A i \in DOMAIN array : i # s => array'[i] = array[i]
        /\ s \in Nat /\ s > 0
        /\ EmptySlot \in Info /\ EmptySlot.serial = 0 /\ EmptySlot.obj = NoObj
    BY <2>0 DEF IndexType, EmptySlot, Info, Types
  <2>2. \A i \in DOMAIN array : array[i].obj = o => i = s
    BY <1>0, <2>0 DEF SlotInv, s
  <2>3. IndexType'
    BY <1>0, <2>0, <2>1 DEF IndexType
  <2>4. ASSUME NEW x \in Objs PROVE ObjInv(x)'
    <3>1. CASE x = o
      BY <1>0, <2>0, <3>1 DEF ObjInv, IndexType, Live
    <3>2. CASE x # o
      <4>1. objs[x].index # NoSlot => objs[x].index + 1 # s
        BY <2>0, <3>2 DEF ObjInv
      <4> QED
        BY <1>0, <2>0, <2>1, <3>2, <4>1 DEF ObjInv, Live
    <3> QED
      BY <3>1, <3>2
  <2>5. ASSUME NEW i \in DOMAIN array PROVE SlotInv(i)'
    <3>1. CASE i = s
      BY <2>1, <3>1 DEF SlotInv, EmptySlot
    <3>2. CASE i # s
      <4>1. array'[i] = array[i] /\ array[i].obj # o /\ SlotInv(i)
        BY <2>1, <2>2, <3>2
      <4>2. array[i].obj # NoObj => objs'[array[i].obj] = objs[array[i].obj]
        BY <1>0, <4>1 DEF IndexType, Info
      <4> QED
        BY <2>0, <4>1, <4>2 DEF SlotInv, Live
    <3> QED
      BY <3>1, <3>2
  <2>6. FreeInv'
    <3>1. \A k \in DOMAIN free : free[k] + 1 # s
      BY <1>0, <2>0 DEF FreeInv
    <3>2. /\ DOMAIN free' = 1 .. Len(free) + 1
          /\ DOMAIN free = 1 .. Len(free) /\ Len(free) \in Nat
          /\ \A k \in DOMAIN free : free'[k] = free[k] /\ free[k] \in Nat
          /\ free'[Len(free) + 1] = s - 1
      BY <2>0, <2>1, SMTT(30) DEF IndexType
    <3>3. ASSUME NEW k \in DOMAIN free'
          PROVE  /\ free'[k] + 1 \in DOMAIN array'
                 /\ array'[free'[k] + 1].obj = NoObj
                 /\ \A m \in DOMAIN free' : free'[m] = free'[k] => m = k
      <4>1. CASE k = Len(free) + 1
        BY <2>0, <2>1, <3>1, <3>2, <4>1
      <4>2. CASE k \in DOMAIN free
        BY <2>0, <2>1, <3>1, <3>2, <4>2 DEF FreeInv
      <4> QED
        BY <3>2, <4>1, <4>2
    <3> QED
      BY <3>3 DEF FreeInv
  <2>7. ASSUME NEW l \in lights PROVE LightInv(l)'
    <3>1. l.obj \in Objs /\ l.index \in Nat /\ l.serial \in Nat /\ LightInv(l)
      BY DEF IndexType, Light
    <3>2. l.serial # 0 /\ l.id # 0
      BY <3>1 DEF LightInv
    <3>3. CASE l.obj = o
      <4>1. objs'[l.obj].id # l.id
        BY <1>0, <3>2, <3>3
      <4>2. ~(l.index + 1 \in DOMAIN array /\ array'[l.index + 1].serial = l.serial)
        BY <2>1, <2>2, <3>1, <3>2, <3>3 DEF LightInv
      <4> QED
        BY <2>0, <2>1, <3>1, <4>1, <4>2 DEF LightInv
    <3>4. CASE l.obj # o
      <4>1. objs'[l.obj] = objs[l.obj]
        BY <1>0, <3>1, <3>4
      <4>2. objs[l.obj].id = l.id => l.index + 1 # s
        BY <2>0, <3>1, <3>2, <3>4 DEF LightInv, ObjInv, Live, Dead
      <4>3. ASSUME objs[l.obj].id = l.id PROVE array'[l.index + 1] = array[l.index + 1]
        <5>1. objs[l.obj].index # NoSlot
          BY <3>1, <4>3 DEF LightInv, NoSlot
        <5>2. l.index + 1 \in DOMAIN array
          BY <3>1, <4>3, <5>1 DEF LightInv, ObjInv
        <5> QED
          BY <2>1, <4>2, <4>3, <5>2
      <4>4. ASSUME l.index + 1 \in DOMAIN array, array'[l.index + 1].serial = l.serial
            PROVE  array'[l.index + 1] = array[l.index + 1]
        BY <2>1, <3>2, <4>4
      <4> QED
        BY <2>0, <2>1, <3>1, <4>1, <4>3, <4>4 DEF LightInv
    <3> QED
      BY <3>3, <3>4
  <2> QED
    BY <2>0, <2>1, <2>3, <2>4, <2>5, <2>6, <2>7
<1> QED
  BY <1>1, <1>2

\* Who holds an object in C++ does not matter to the array.
LEMMA HoldKeeps ==
  ASSUME IndexInv, NEW o \in Objs, Live(o), NEW b \in BOOLEAN,
         objs' = [objs EXCEPT ![o].held = b],
         UNCHANGED <<count, array, free, gener, lights>>
  PROVE  IndexInv'
<1> USE DEF IndexInv
<1>1. objs' \in [Objs -> [id : Nat, type : Types, held : BOOLEAN, index : Int]]
  BY DEF IndexType
<1>2. ASSUME NEW x \in Objs
      PROVE  /\ objs'[x].id = objs[x].id
             /\ objs'[x].type = objs[x].type
             /\ objs'[x].index = objs[x].index
             /\ x # o => objs'[x] = objs[x]
  BY DEF IndexType
<1>3. IndexType' /\ FreeInv'
  BY <1>1 DEF IndexType, FreeInv
<1>4. ASSUME NEW x \in Objs PROVE ObjInv(x)'
  <2>1. ObjInv(x)
    OBVIOUS
  <2>2. ~Live(x)' => x # o /\ ~Live(x)
    BY <1>2 DEF Live
  <2>3. ~Live(x)' => objs'[x] = Dead
    BY <1>2, <2>1, <2>2 DEF ObjInv
  <2>4. /\ objs'[x].id <= count'
        /\ objs'[x].index # NoSlot => /\ objs'[x].index + 1 \in DOMAIN array'
                                      /\ array'[objs'[x].index + 1].obj = x
    BY <1>2, <2>1 DEF ObjInv
  <2> QED
    BY <2>3, <2>4 DEF ObjInv
<1>5. ASSUME NEW i \in DOMAIN array PROVE SlotInv(i)'
  <2>1. array[i].obj # NoObj => array[i].obj \in Objs
    BY SlotHasObject
  <2> QED
    BY <1>2, <2>1 DEF SlotInv, Live
<1>6. ASSUME NEW l \in lights PROVE LightInv(l)'
  BY <1>2 DEF LightInv, IndexType, Light
<1> QED
  BY <1>3, <1>4, <1>5, <1>6

\* A new object has an id that no light user data has.
LEMMA MadeKeeps ==
  ASSUME IndexInv, NEW o \in Objs, NEW type \in Types, ~Live(o), count' = count + 1,
         objs' = [objs EXCEPT ![o] = [id |-> count + 1, type |-> type, held |-> TRUE,
                                      index |-> NoSlot]],
         UNCHANGED <<array, free, gener, lights>>
  PROVE  IndexInv'
<1> USE DEF IndexInv
<1> DEFINE new == [id |-> count + 1, type |-> type, held |-> TRUE, index |-> NoSlot]
<1>0. objs' = [objs EXCEPT ![o] = new]
  OBVIOUS
<1>1. /\ new \in [id : Nat, type : Types, held : BOOLEAN, index : Int]
      /\ new.id = count + 1 /\ new.index = NoSlot /\ count \in Nat
  BY DEF IndexType, NoSlot
<1> HIDE DEF new
<1>2. objs'[o] = new /\ \A x \in Objs : x # o => objs'[x] = objs[x]
  BY <1>0 DEF IndexType
<1>3. IndexType'
  BY <1>0, <1>1 DEF IndexType
<1>4. ASSUME NEW x \in Objs PROVE ObjInv(x)'
  <2>1. ObjInv(x) /\ objs[x].id \in Nat
    BY DEF IndexType
  <2>2. CASE x = o
    BY <1>0, <1>1, <1>2, <2>2 DEF ObjInv, Live
  <2>3. CASE x # o
    <3>1. objs'[x] = objs[x] /\ objs[x].id <= count'
      BY <1>0, <1>1, <1>2, <2>1, <2>3 DEF ObjInv
    <3> QED
      BY <1>0, <2>1, <3>1 DEF ObjInv, Live
  <2> QED
    BY <2>2, <2>3
<1>5. ASSUME NEW i \in DOMAIN array PROVE SlotInv(i)'
  <2>1. array[i].obj # NoObj => array[i].obj \in Objs /\ array[i].obj # o
    BY <1>0, SlotHasObject DEF SlotInv
  <2> QED
    BY <1>0, <1>2, <2>1 DEF SlotInv, Live
<1>6. FreeInv'
  BY <1>0 DEF FreeInv
<1>7. ASSUME NEW l \in lights PROVE LightInv(l)'
  <2>1. l.obj \in Objs /\ LightInv(l)
    BY DEF IndexType, Light
  <2>2. l.obj = o => objs[o].id # l.id /\ objs'[o].id # l.id
    BY <1>0, <1>1, <1>2, <2>1 DEF LightInv, Live
  <2> QED
    BY <1>0, <1>1, <1>2, <2>1, <2>2 DEF LightInv
<1> QED
  BY <1>0, <1>3, <1>4, <1>5, <1>6, <1>7

LEMMA CreateKeeps ==
  ASSUME IInv, NEW o \in Objs, NEW type \in Types, Create(o, type) PROVE IndexInv'
<1>1. /\ ~Live(o) /\ count' = count + 1
      /\ objs' = [objs EXCEPT ![o] = [id |-> count + 1, type |-> type, held |-> TRUE,
                                      index |-> NoSlot]]
      /\ UNCHANGED <<array, free, gener, lights>>
  BY DEF Create, indexVars
<1> QED
  BY <1>1, MadeKeeps DEF IInv

\* A copy without a slot is as good as a new object.
LEMMA CopyKeeps ==
  ASSUME CopiesAreFresh, IInv, NEW o \in Objs, NEW p \in Objs, NEW type \in Types,
         Copy(o, p, type)
  PROVE  IndexInv'
<1>1. PICK index \in Garbage :
        objs' = [objs EXCEPT ![o] = [id |-> count', type |-> type, held |-> TRUE,
                                     index |-> index]]
  BY DEF Copy
<1>2. index = NoSlot
  BY DEF CopiesAreFresh
<1>3. /\ ~Live(o) /\ count' = count + 1 /\ UNCHANGED <<array, free, gener, lights>>
  BY DEF Copy, indexVars
<1> QED
  BY <1>1, <1>2, <1>3, MadeKeeps DEF IInv

\* The program lets go of an object: it dies unless user data owns it.
LEMMA ReleaseKeeps ==
  ASSUME IInv, NEW o \in Objs, Release(o) PROVE IndexInv'
<1>0. Live(o) /\ UNCHANGED <<count, gener, lights>>
  BY DEF Release, IInv, IndexInv, ObjInv, Dead
<1>1. CASE Owned(o)
  <2>1. objs' = [objs EXCEPT ![o].held = FALSE] /\ UNCHANGED <<array, free>>
    BY <1>1 DEF Release
  <2> QED
    BY <1>0, <2>1, HoldKeeps DEF IInv
<1>2. CASE ~Owned(o)
  <2>1. Destroy(o)
    BY <1>2 DEF Release
  <2> QED
    BY <1>0, <2>1, DestroyKeeps DEF IInv
<1> QED
  BY <1>1, <1>2

LEMMA LoadKeeps ==
  ASSUME IInv, NEW u \in DOMAIN uds, LoadSharedPtr(u) PROVE IndexInv'
<1>1. /\ uds[u].obj \in Objs /\ Live(uds[u].obj)
      /\ objs' = [objs EXCEPT ![uds[u].obj].held = TRUE]
      /\ UNCHANGED <<count, array, free, gener, lights>>
  BY UdHasObject DEF LoadSharedPtr, indexVars, IInv, UdsInv, UdInv
<1> QED
  BY <1>1, HoldKeeps DEF IInv

\* The array and its free list as AllocObjIndex finds or makes them: at least
\* one slot is free, and the rest is as it was.
LEMMA GrownHasFree ==
  ASSUME IndexInv
  PROVE  /\ Grown.array \in Seq(Info)
         /\ Grown.free \in Seq(Nat)
         /\ Len(Grown.free) >= 1
         /\ DOMAIN array \subseteq DOMAIN Grown.array
         /\ \A i \in DOMAIN array : Grown.array[i] = array[i]
         /\ \A i \in DOMAIN Grown.array : i \notin DOMAIN array => Grown.array[i] = EmptySlot
         /\ \A k \in DOMAIN Grown.free :
              /\ Grown.free[k] + 1 \in DOMAIN Grown.array
              /\ Grown.array[Grown.free[k] + 1].obj = NoObj
              /\ \A m \in DOMAIN Grown.free : Grown.free[m] = Grown.free[k] => m = k
<1> USE DEF IndexInv
<1>0. array \in Seq(Info) /\ free \in Seq(Nat) /\ EmptySlot \in Info /\ EmptySlot.obj = NoObj
      /\ Increment \in Nat /\ Increment >= 1
  BY BridgeAssumption DEF IndexType, EmptySlot, Info, Types
<1>1. CASE free # <<>>
  <2>1. Grown.array = array /\ Grown.free = free
    BY <1>1 DEF Grown
  <2>2. Len(free) >= 1
    BY <1>0, <1>1
  <2> QED
    BY <1>0, <2>1, <2>2 DEF FreeInv
<1>2. CASE free = <<>>
  <2> DEFINE more == [i \in 1 .. Increment |-> EmptySlot]
             list == [i \in 1 .. Increment |-> Len(array) + Increment - i]
             L == Len(array)
  <2>1. Grown.array = array \o more /\ Grown.free = list
    BY <1>2 DEF Grown
  <2>2. more \in Seq(Info) /\ Len(more) = Increment /\ L \in Nat /\ DOMAIN array = 1 .. L
        /\ \A i \in 1 .. Increment : more[i] = EmptySlot
    BY <1>0
  <2>3. /\ DOMAIN list = 1 .. Increment
        /\ \A k \in 1 .. Increment : list[k] = L + Increment - k /\ list[k] \in Nat
    BY <1>0, <2>2
  <2>4. list \in Seq(Nat) /\ Len(list) = Increment
    BY <1>0, <2>3
  <2> HIDE DEF more, list
  <2>5. /\ array \o more \in Seq(Info)
        /\ DOMAIN (array \o more) = 1 .. L + Increment
        /\ \A i \in 1 .. L : (array \o more)[i] = array[i]
        /\ \A i \in L + 1 .. L + Increment : (array \o more)[i] = more[i - L]
    BY <1>0, <2>2
  <2>6. \A i \in L + 1 .. L + Increment : (array \o more)[i] = EmptySlot
    BY <1>0, <2>2, <2>5
  <2>7. \A k \in DOMAIN list : list[k] + 1 \in L + 1 .. L + Increment
    BY <1>0, <2>2, <2>3
  <2>8. \A k, m \in DOMAIN list : list[m] = list[k] => m = k
    BY <1>0, <2>2, <2>3
  <2>9. \A k \in DOMAIN list : /\ list[k] + 1 \in DOMAIN (array \o more)
                               /\ (array \o more)[list[k] + 1].obj = NoObj
    BY <1>0, <2>2, <2>5, <2>6, <2>7
  <2> QED
    BY <1>0, <2>1, <2>2, <2>4, <2>5, <2>6, <2>8, <2>9, SMTT(30)
<1> QED
  BY <1>1, <1>2

\* A slot that has its object is only told the type.
LEMMA RenewedRetypes ==
  ASSUME NEW slot \in Info, NEW o, slot.obj = o, o # NoObj, NEW info
  PROVE  Renewed(slot, o, info) = [slot EXCEPT !.info = NewInfo(slot.info, info)]
<1>1. CASE NewInfo(slot.info, info) = slot.info
  BY <1>1 DEF Renewed, Info
<1>2. CASE NewInfo(slot.info, info) # slot.info
  <2>1. NewInfo(slot.info, info) = info
    BY <1>2 DEF NewInfo
  <2> QED
    BY <1>2, <2>1 DEF Renewed, Info
<1> QED
  BY <1>1, <1>2

\* Of two types an object has, NewInfo keeps the one that says more.
LEMMA NewInfoRefines ==
  ASSUME NEW type \in Types, NEW old \in Types, NEW info \in Types,
         IsBaseOf(old, type), IsBaseOf(info, type)
  PROVE  /\ NewInfo(old, info) \in Types
         /\ IsBaseOf(NewInfo(old, info), type)
         /\ IsBaseOf(old, NewInfo(old, info))
  BY DEF NewInfo, IsBaseOf, Types

\* A slot in use may change the type it has on record for another true one.
LEMMA RetypeKeeps ==
  ASSUME IndexInv, NEW s \in DOMAIN array, array[s].obj # NoObj, NEW info \in Types,
         IsBaseOf(info, objs[array[s].obj].type),
         array' = [array EXCEPT ![s].info = info],
         UNCHANGED <<objs, count, free, gener>>,
         lights' = lights
  PROVE  IndexInv'
<1> USE DEF IndexInv
<1>1. /\ array' \in Seq(Info)
      /\ DOMAIN array' = DOMAIN array
      /\ array'[s].obj = array[s].obj
      /\ array'[s].serial = array[s].serial
      /\ array'[s].info = info
      /\ \A i \in DOMAIN array : i # s => array'[i] = array[i]
  <2>1. array \in Seq(Info) /\ array[s] \in Info
    BY SlotHasObject DEF IndexType
  <2>2. [array[s] EXCEPT !.info = info] \in Info
    BY <2>1 DEF Info
  <2> QED
    BY <2>1, <2>2 DEF Info
<1>2. \A i \in DOMAIN array : array'[i].obj = array[i].obj /\ array'[i].serial = array[i].serial
  BY <1>1
<1>3. IndexType'
  BY <1>1 DEF IndexType
<1>4. ASSUME NEW x \in Objs PROVE ObjInv(x)'
  BY <1>1, <1>2 DEF ObjInv, Live
<1>5. ASSUME NEW i \in DOMAIN array PROVE SlotInv(i)'
  <2>1. CASE i = s
    BY <1>1, <2>1 DEF SlotInv, Live
  <2>2. CASE i # s
    BY <1>1, <2>2 DEF SlotInv, Live
  <2> QED
    BY <2>1, <2>2
<1>6. FreeInv'
  BY <1>1, <1>2 DEF FreeInv
<1>7. ASSUME NEW l \in lights PROVE LightInv(l)'
  <2>1. LightInv(l) /\ l.obj \in Objs
    BY DEF IndexType, Light
  <2>2. objs[l.obj].id = l.id => l.index + 1 \in DOMAIN array
    <3>1. l.index # NoSlot
      BY DEF IndexType, Light, NoSlot
    <3> QED
      BY <2>1, <3>1 DEF LightInv, ObjInv
  <2> QED
    BY <1>1, <1>2, <2>1, <2>2 DEF LightInv
<1> QED
  BY <1>1, <1>3, <1>4, <1>5, <1>6, <1>7

LEMMA CastLightKeeps ==
  ASSUME IInv, NEW l \in lights, NEW dst \in Types, CastLight(l, dst) PROVE IndexInv'
<1> DEFINE s == l.index + 1
<1>1. /\ s \in DOMAIN array /\ array[s].obj # NoObj
      /\ IsBaseOf(dst, objs[array[s].obj].type)
      /\ array' = [array EXCEPT ![s].info = dst]
      /\ UNCHANGED <<objs, count, free, gener, lights>>
  BY DEF CastLight, Resolve, Castable, Slot
<1> HIDE DEF s
<1> QED
  BY <1>1, RetypeKeeps DEF IInv

\* An object that has a slot is pushed again.
LEMMA PushAgainKeeps ==
  ASSUME IInv, NEW o \in Objs, NEW info \in Types, PushPointer(o, info),
         objs[o].index # NoSlot
  PROVE  IndexInv'
<1> DEFINE s == objs[o].index + 1
           l == [index |-> objs[o].index, serial |-> array[s].serial,
                 obj |-> o, id |-> objs[o].id]
           type == NewInfo(array[s].info, info)
<1>a. /\ Live(o) /\ IsBaseOf(info, objs[o].type)
      /\ array' = [array EXCEPT ![s] = Renewed(array[s], o, info)]
      /\ lights' = lights \cup {l}
      /\ UNCHANGED <<objs, count, free, gener>>
  BY DEF PushPointer, AllocObjIndex, Slot, IInv, IndexInv, ObjInv, Dead
<1>1. /\ s \in DOMAIN array /\ array[s].obj = o /\ o # NoObj
      /\ objs[o].index \in Nat /\ array[s] \in Info
      /\ objs[o].type \in Types /\ objs[o].id \in Nat /\ objs[o].id <= count
  <2>1. s \in DOMAIN array /\ array[s].obj = o /\ objs[o].id <= count
    BY DEF IInv, IndexInv, ObjInv
  <2>2. objs[o].index \in Int /\ objs[o].type \in Types /\ objs[o].id \in Nat
    BY DEF IInv, IndexInv, IndexType
  <2>3. objs[o].index \in Nat
    BY <2>1, <2>2 DEF IInv, IndexInv, IndexType
  <2> QED
    BY <2>1, <2>2, <2>3, SlotHasObject, BridgeAssumption DEF IInv, IndexInv
<1>0. /\ Live(o) /\ IsBaseOf(info, objs[o].type)
      /\ array' = [array EXCEPT ![s] = [array[s] EXCEPT !.info = type]]
      /\ lights' = lights \cup {l}
      /\ UNCHANGED <<objs, count, free, gener>>
  BY <1>a, <1>1, RenewedRetypes
<1>2. array[s].info \in Types /\ array[s].serial \in 1 .. gener
      /\ IsBaseOf(array[s].info, objs[o].type)
  BY <1>1 DEF IInv, IndexInv, SlotInv, Info
<1>3. type \in Types /\ IsBaseOf(type, objs[o].type)
  BY <1>0, <1>1, <1>2, NewInfoRefines
<1>4. l \in Light /\ LightInv(l)
  <2>1. l \in Light
    BY <1>1, <1>2 DEF Light, IInv, IndexInv, IndexType
  <2>2. objs[o].id \in 1 .. count
    BY <1>0, <1>1 DEF Live, IInv, IndexInv, IndexType
  <2> QED
    BY <1>1, <1>2, <2>1, <2>2 DEF LightInv
<1> HIDE DEF l, s, type
\* The slot's type and the light user data change in one step.
<1>5. /\ DOMAIN array' = DOMAIN array
      /\ \A i \in DOMAIN array : /\ array'[i].obj = array[i].obj
                                 /\ array'[i].serial = array[i].serial
                                 /\ i # s => array'[i] = array[i]
      /\ array'[s].info = type
      /\ array' \in Seq(Info)
  <2>1. array \in Seq(Info) /\ [array[s] EXCEPT !.info = type] \in Info
    BY <1>1, <1>3 DEF IInv, IndexInv, IndexType, Info
  <2> QED
    BY <1>0, <1>1, <2>1 DEF Info
<1>6. IndexType'
  BY <1>0, <1>4, <1>5 DEF IInv, IndexInv, IndexType
<1>7. ASSUME NEW x \in Objs PROVE ObjInv(x)'
  BY <1>0, <1>5 DEF IInv, IndexInv, ObjInv, Live
<1>8. ASSUME NEW i \in DOMAIN array PROVE SlotInv(i)'
  <2>1. CASE i = s
    BY <1>0, <1>1, <1>3, <1>5, <2>1 DEF IInv, IndexInv, SlotInv, Live
  <2>2. CASE i # s
    BY <1>0, <1>5, <2>2 DEF IInv, IndexInv, SlotInv, Live
  <2> QED
    BY <2>1, <2>2
<1>9. FreeInv'
  BY <1>0, <1>5 DEF IInv, IndexInv, FreeInv
<1>10. ASSUME NEW k \in lights' PROVE LightInv(k)'
  <2>1. LightInv(k) /\ k \in Light
    BY <1>0, <1>4 DEF IInv, IndexInv, IndexType
  <2>2. objs[k.obj].id = k.id => k.index + 1 \in DOMAIN array
    <3>1. k.index # NoSlot /\ k.obj \in Objs
      BY <2>1 DEF Light, NoSlot
    <3> QED
      BY <2>1, <3>1 DEF IInv, IndexInv, LightInv, ObjInv
  <2> QED
    BY <1>0, <1>5, <2>1, <2>2 DEF LightInv
<1> QED
  BY <1>5, <1>6, <1>7, <1>8, <1>9, <1>10 DEF IndexInv

\* An object is pushed for the first time and gets the last slot of the list.
LEMMA PushFirstKeeps ==
  ASSUME IInv, NEW o \in Objs, NEW info \in Types, PushPointer(o, info),
         objs[o].index = NoSlot
  PROVE  IndexInv'
<1> DEFINE ary == Grown.array
           list == Grown.free
           i == Last(list)
           s == i + 1
           new == [serial |-> gener + 1, obj |-> o, info |-> info]
           l == [index |-> i, serial |-> gener + 1, obj |-> o, id |-> objs[o].id]
<1>a. /\ IndexType /\ FreeInv
      /\ \A x \in Objs : ObjInv(x)
      /\ \A j \in DOMAIN array : SlotInv(j)
      /\ \A k \in lights : LightInv(k)
  BY DEF IInv, IndexInv
<1>0. /\ Live(o) /\ IsBaseOf(info, objs[o].type)
      /\ gener' = gener + 1
      /\ array' = [ary EXCEPT ![s] = new]
      /\ free' = Front(list)
      /\ objs' = [objs EXCEPT ![o].index = i]
      /\ lights' = lights \cup {l}
      /\ UNCHANGED count
  BY <1>a DEF PushPointer, AllocObjIndex, ObjInv, Dead
<1>1. /\ ary \in Seq(Info) /\ list \in Seq(Nat) /\ Len(list) >= 1
      /\ DOMAIN array \subseteq DOMAIN ary
      /\ \A j \in DOMAIN array : ary[j] = array[j]
      /\ \A j \in DOMAIN ary : j \notin DOMAIN array => ary[j] = EmptySlot
      /\ \A k \in DOMAIN list :
           /\ list[k] + 1 \in DOMAIN ary
           /\ ary[list[k] + 1].obj = NoObj
           /\ \A m \in DOMAIN list : list[m] = list[k] => m = k
  BY GrownHasFree DEF IInv
<1> HIDE DEF ary, list
<1>2. /\ i = list[Len(list)] /\ Len(list) \in DOMAIN list
      /\ i \in Nat /\ s \in DOMAIN ary /\ ary[s].obj = NoObj
  BY <1>1 DEF Last
<1>3. /\ free' \in Seq(Nat) /\ DOMAIN free' = 1 .. Len(list) - 1
      /\ \A k \in DOMAIN free' : free'[k] = list[k] /\ k \in DOMAIN list /\ k # Len(list)
  BY <1>0, <1>1, SMTT(30) DEF Front
<1>4. /\ new \in Info /\ new.obj = o /\ new.serial = gener + 1 /\ new.info = info
      /\ o # NoObj /\ gener \in Nat /\ count \in Nat
  BY <1>a, BridgeAssumption DEF IndexType, Info
<1> HIDE DEF i, new
<1>5. /\ array' \in Seq(Info) /\ DOMAIN array' = DOMAIN ary /\ array'[s] = new
      /\ \A j \in DOMAIN ary : j # s => array'[j] = ary[j]
  BY <1>0, <1>1, <1>2, <1>4
<1>e. /\ objs \in [Objs -> [id : Nat, type : Types, held : BOOLEAN, index : Int]]
      /\ i \in Int
      /\ objs' = [objs EXCEPT ![o].index = i]
  BY <1>a, <1>0, <1>2 DEF IndexType
<1>6. /\ objs' \in [Objs -> [id : Nat, type : Types, held : BOOLEAN, index : Int]]
      /\ objs'[o].index = i
  BY <1>e
<1>c. ASSUME NEW x \in Objs, x # o PROVE objs'[x] = objs[x]
  BY <1>c, <1>e
<1>b. ASSUME NEW x \in Objs PROVE objs'[x].id = objs[x].id /\ objs'[x].type = objs[x].type
  <2>1. CASE x = o
    BY <1>e, <2>1
  <2>2. CASE x # o
    BY <1>c, <2>2
  <2> QED
    BY <2>1, <2>2
<1>d. ASSUME NEW x \in Objs PROVE ObjInv(x)
  BY <1>a
<1>7. s \in DOMAIN array => array[s] = EmptySlot
  BY <1>a, <1>1, <1>2 DEF SlotInv
<1>8. \A j \in DOMAIN array : array[j].obj # NoObj =>
        j # s /\ array'[j] = array[j] /\ array[j].obj # o /\ array[j].obj \in Objs
  <2> SUFFICES ASSUME NEW j \in DOMAIN array, array[j].obj # NoObj
               PROVE  j # s /\ array'[j] = array[j] /\ array[j].obj # o /\ array[j].obj \in Objs
    OBVIOUS
  <2>1. j # s
    BY <1>1, <1>2
  <2>2. array[j].obj # o
    BY <1>a, SlotHasObject DEF SlotInv, NoSlot, IndexType
  <2> QED
    BY <1>a, <1>1, <1>5, <2>1, <2>2, SlotHasObject
<1>9. \A j \in DOMAIN ary : ary[j].obj # NoObj => j \in DOMAIN array /\ ary[j] = array[j]
  BY <1>1 DEF EmptySlot
<1>10. l \in Light
  BY <1>a, <1>2, <1>4 DEF Light, IndexType
<1>11. IndexType'
  BY <1>a, <1>0, <1>3, <1>4, <1>5, <1>6, <1>10 DEF IndexType
<1>12. ASSUME NEW x \in Objs PROVE ObjInv(x)'
  <2>1. CASE x = o
    <3>1. objs'[o].id <= count' /\ objs'[o].id # 0
      BY <1>a, <1>0, <1>6 DEF ObjInv, Live
    <3>2. objs'[o].index + 1 = s /\ s \in DOMAIN array' /\ array'[s].obj = o
      BY <1>2, <1>4, <1>5, <1>6
    <3> QED
      BY <2>1, <3>1, <3>2 DEF ObjInv, Live
  <2>2. CASE x # o
    <3>1. objs'[x] = objs[x] /\ ObjInv(x) /\ x # NoObj
      BY <1>c, <1>d, <2>2, BridgeAssumption
    <3>2. objs[x].index # NoSlot =>
            /\ objs[x].index + 1 \in DOMAIN array'
            /\ array'[objs[x].index + 1].obj = x
      BY <1>1, <1>5, <1>8, <3>1 DEF ObjInv
    <3> QED
      BY <1>0, <3>1, <3>2 DEF ObjInv, Live
  <2> QED
    BY <2>1, <2>2
<1>13. ASSUME NEW j \in DOMAIN ary PROVE SlotInv(j)'
  <2>1. CASE j = s
    <3>1. objs'[o].index + 1 = j /\ Live(o)'
      BY <1>0, <1>6, <2>1 DEF Live
    <3> QED
      BY <1>0, <1>4, <1>5, <1>6, <2>1, <3>1 DEF SlotInv
  <2>2. CASE j # s /\ ary[j].obj = NoObj
    <3>1. ary[j] = EmptySlot
      BY <1>a, <1>1, <2>2 DEF SlotInv
    <3> QED
      BY <1>5, <2>2, <3>1 DEF SlotInv, EmptySlot
  <2>3. CASE j # s /\ ary[j].obj # NoObj
    <3>1. /\ j \in DOMAIN array /\ array'[j] = array[j] /\ array[j].obj # NoObj
          /\ array[j].obj \in Objs /\ objs'[array[j].obj] = objs[array[j].obj]
      <4>1. j \in DOMAIN array /\ array[j].obj # NoObj
        BY <1>9, <2>3
      <4>2. array'[j] = array[j] /\ array[j].obj \in Objs /\ array[j].obj # o
        BY <1>8, <4>1
      <4> QED
        BY <1>c, <4>1, <4>2
    <3>2. SlotInv(j)
      BY <1>a, <3>1
    <3>3. /\ Live(array[j].obj) /\ objs[array[j].obj].index + 1 = j
          /\ array[j].serial \in 1 .. gener
          /\ IsBaseOf(array[j].info, objs[array[j].obj].type)
      BY <3>1, <3>2 DEF SlotInv
    <3>4. array'[j].serial \in 1 .. gener'
      BY <1>0, <1>4, <3>1, <3>3
    <3> QED
      BY <3>1, <3>3, <3>4 DEF SlotInv, Live
  <2> QED
    BY <2>1, <2>2, <2>3
<1>14. FreeInv'
  <2>1. ASSUME NEW k \in DOMAIN free'
        PROVE  /\ free'[k] + 1 \in DOMAIN array'
               /\ array'[free'[k] + 1].obj = NoObj
               /\ \A m \in DOMAIN free' : free'[m] = free'[k] => m = k
    <3>1. list[k] # i /\ list[k] \in Nat
      BY <1>1, <1>2, <1>3, SMTT(30)
    <3>2. free'[k] = list[k] /\ k \in DOMAIN list /\ list[k] + 1 # s
      BY <1>2, <1>3, <3>1
    <3>3. list[k] + 1 \in DOMAIN ary /\ ary[list[k] + 1].obj = NoObj
      BY <1>1, <3>2
    <3>4. array'[list[k] + 1] = ary[list[k] + 1] /\ DOMAIN array' = DOMAIN ary
      BY <1>5, <3>2, <3>3
    <3>5. \A m \in DOMAIN free' : free'[m] = free'[k] => m = k
      BY <1>1, <1>3, <3>2
    <3> QED
      BY <3>2, <3>3, <3>4, <3>5
  <2> QED
    BY <2>1 DEF FreeInv
<1>15. ASSUME NEW k \in lights' PROVE LightInv(k)'
  <2>1. CASE k = l
    <3>1. objs[o].id \in 1 .. count
      BY <1>a, <1>0 DEF Live, ObjInv, IndexType
    <3>2. k.index = i /\ k.serial = gener + 1 /\ k.obj = o /\ k.id = objs[o].id
      BY <2>1
    <3> QED
      BY <1>0, <1>2, <1>4, <1>5, <1>6, <3>1, <3>2 DEF LightInv
  <2>2. CASE k \in lights
    <3>1. LightInv(k) /\ k.obj \in Objs /\ k.index \in Nat /\ k.serial \in 1 .. gener
      BY <1>a, <2>2 DEF IndexType, Light, LightInv
    <3>2. ASSUME objs'[k.obj].id = k.id
          PROVE  k.index = objs'[k.obj].index /\ array'[k.index + 1].serial = k.serial
      <4>1. objs[k.obj].id = k.id /\ k.index = objs[k.obj].index
        BY <1>b, <3>1, <3>2 DEF LightInv
      <4>2. k.obj # o
        BY <3>1, <4>1 DEF NoSlot
      <4>3. k.index + 1 \in DOMAIN array /\ array[k.index + 1].obj = k.obj /\ k.obj # NoObj
        BY <1>a, <3>1, <4>1, BridgeAssumption DEF ObjInv, NoSlot
      <4>4. array'[k.index + 1] = array[k.index + 1]
        BY <1>8, <4>3
      <4>5. objs'[k.obj] = objs[k.obj]
        BY <1>c, <3>1, <4>2
      <4> QED
        BY <3>1, <4>1, <4>4, <4>5 DEF LightInv
    <3>3. ASSUME k.index + 1 \in DOMAIN array', array'[k.index + 1].serial = k.serial
          PROVE  objs'[k.obj].id = k.id /\ array'[k.index + 1].obj = k.obj
      <4>1. k.index + 1 # s
        BY <1>4, <1>5, <3>1, <3>3
      <4>2. ary[k.index + 1].serial = k.serial /\ k.index + 1 \in DOMAIN ary
        BY <1>5, <3>3, <4>1
      <4>3. k.index + 1 \in DOMAIN array /\ ary[k.index + 1] = array[k.index + 1]
        BY <1>1, <3>1, <4>2 DEF EmptySlot
      <4>4. objs[k.obj].id = k.id /\ array[k.index + 1].obj = k.obj
        BY <3>1, <4>2, <4>3 DEF LightInv
      <4>5. array'[k.index + 1] = ary[k.index + 1]
        BY <1>5, <4>1, <4>2
      <4> QED
        BY <1>b, <3>1, <4>3, <4>4, <4>5
    <3> QED
      BY <1>0, <1>4, <3>1, <3>2, <3>3 DEF LightInv
  <2> QED
    BY <1>0, <2>1, <2>2
<1> QED
  BY <1>5, <1>11, <1>12, <1>13, <1>14, <1>15 DEF IndexInv

\* Nothing of the array changes.
LEMMA IndexKeeps ==
  ASSUME IndexInv, UNCHANGED <<objs, count, array, free, gener, lights>>
  PROVE  IndexInv'
<1>1. IndexType' /\ FreeInv'
  BY DEF IndexInv, IndexType, FreeInv
<1>2. \A o \in Objs : ObjInv(o)'
  BY DEF IndexInv, ObjInv, Live
<1>3. \A i \in DOMAIN array : SlotInv(i)'
  BY DEF IndexInv, SlotInv, Live
<1>4. \A l \in lights : LightInv(l)'
  BY DEF IndexInv, LightInv
<1> QED
  BY <1>1, <1>2, <1>3, <1>4 DEF IndexInv

\* __gc, and the end of the pointer it holds.
LEMMA GcIndexKeeps ==
  ASSUME IInv, NEW u \in DOMAIN uds, Gc(u) PROVE IndexInv'
<1>1. uds[u].obj \in Objs /\ Live(uds[u].obj) /\ UNCHANGED <<count, gener, lights>>
  BY UdHasObject DEF Gc, IInv, UdsInv, UdInv
<1>2. CASE objs[uds[u].obj].held
  BY <1>1, <1>2, IndexKeeps DEF Gc, IInv
<1>3. CASE ~objs[uds[u].obj].held
  <2>1. Destroy(uds[u].obj)
    BY <1>3 DEF Gc
  <2> QED
    BY <1>1, <2>1, DestroyKeeps DEF IInv
<1> QED
  BY <1>2, <1>3

(* User data, and what is alive.                                           *)

\* The user data only ask what type an object is and whether it lives.
LEMMA UdsKeep ==
  ASSUME UdsInv, UNCHANGED <<uds, cache>>,
         \A u \in DOMAIN uds :
           uds[u].phase # "gone" =>
             (Live(uds[u].obj) => /\ Live(uds[u].obj)'
                                  /\ objs'[uds[u].obj].type = objs[uds[u].obj].type)
  PROVE  UdsInv'
<1>1. ASSUME NEW u \in DOMAIN uds PROVE UdInv(u)'
  BY DEF UdsInv, UdInv
<1>2. ASSUME NEW o \in Objs PROVE EntryInv(o)'
  BY DEF UdsInv, EntryInv
<1> QED
  BY <1>1, <1>2 DEF UdsInv

\* What owns an object keeps it alive and does not change its type.
LEMMA OwnersKeep ==
  ASSUME OwnersInv, AliveInv', UNCHANGED <<uds, cache>>,
         \A o \in Objs : Owned(o) => objs'[o].id = objs[o].id /\ objs'[o].type = objs[o].type
  PROVE  OwnersInv'
  BY UdsKeep, UdHasObject DEF OwnersInv, Owned, Live

LEMMA AliveKept == AliveInv /\ UNCHANGED <<objs, count>> => AliveInv'
  BY DEF AliveInv, Live

\* A new object, with whatever index, is owned by nothing.
LEMMA MadeOwners ==
  ASSUME OwnersInv, NEW o \in Objs, NEW type \in Types, NEW index, ~Live(o),
         count' = count + 1,
         objs' = [objs EXCEPT ![o] = [id |-> count', type |-> type, held |-> TRUE,
                                      index |-> index]],
         UNCHANGED <<uds, cache>>
  PROVE  OwnersInv'
<1>1. PICK I : objs \in [Objs -> [id : Nat, type : Types, held : BOOLEAN, index : I]]
  BY DEF OwnersInv, AliveInv
<1> DEFINE J == I \cup {index}
           new == [id |-> count', type |-> type, held |-> TRUE, index |-> index]
<1>2. new \in [id : Nat, type : Types, held : BOOLEAN, index : J] /\ new.id # 0
  BY DEF OwnersInv, AliveInv
<1>3. objs \in [Objs -> [id : Nat, type : Types, held : BOOLEAN, index : J]]
  BY <1>1
<1> HIDE DEF J, new
<1>4. objs' = [objs EXCEPT ![o] = new]
  BY DEF new
<1>5. /\ objs' \in [Objs -> [id : Nat, type : Types, held : BOOLEAN, index : J]]
      /\ objs'[o] = new /\ \A x \in Objs : x # o => objs'[x] = objs[x]
  BY <1>2, <1>3, <1>4
<1>6. AliveInv'
  BY <1>2, <1>5 DEF OwnersInv, AliveInv, Live
<1>7. ~Owned(o)
  BY DEF Owned, OwnersInv, UdsInv, UdInv
<1> QED
  BY <1>5, <1>6, <1>7, OwnersKeep

\* An object dies that nothing owns any more.
LEMMA DestroyAlive ==
  ASSUME AliveInv, NEW o \in Objs, Destroy(o), UNCHANGED count
  PROVE  AliveInv' /\ \A x \in Objs : x # o => objs'[x] = objs[x]
<1>1. PICK I : objs \in [Objs -> [id : Nat, type : Types, held : BOOLEAN, index : I]]
  BY DEF AliveInv
<1> DEFINE J == I \cup {NoSlot}
<1>2. Dead \in [id : Nat, type : Types, held : BOOLEAN, index : J]
  BY DEF Dead, Types
<1>3. objs \in [Objs -> [id : Nat, type : Types, held : BOOLEAN, index : J]]
  BY <1>1
<1>4. objs' = [objs EXCEPT ![o] = Dead]
  BY DEF Destroy
<1> HIDE DEF J
<1>5. /\ objs' \in [Objs -> [id : Nat, type : Types, held : BOOLEAN, index : J]]
      /\ objs'[o] = Dead /\ \A x \in Objs : x # o => objs'[x] = objs[x]
  BY <1>2, <1>3, <1>4
<1> QED
  BY <1>5 DEF AliveInv, Live

LEMMA HoldOwners ==
  ASSUME OwnersInv, NEW o \in Objs, Live(o), NEW b \in BOOLEAN,
         objs' = [objs EXCEPT ![o].held = b], UNCHANGED <<count, uds, cache>>
  PROVE  OwnersInv'
<1>1. PICK I : objs \in [Objs -> [id : Nat, type : Types, held : BOOLEAN, index : I]]
  BY DEF OwnersInv, AliveInv
<1>2. objs' \in [Objs -> [id : Nat, type : Types, held : BOOLEAN, index : I]]
  BY <1>1
<1>3. ASSUME NEW x \in Objs
      PROVE  /\ objs'[x].id = objs[x].id /\ objs'[x].type = objs[x].type
             /\ x # o => objs'[x] = objs[x]
  BY <1>1
<1>4. AliveInv'
  BY <1>2, <1>3 DEF OwnersInv, AliveInv, Live
<1> QED
  BY <1>3, <1>4, OwnersKeep

LEMMA ReleaseOwners ==
  ASSUME OwnersInv, NEW o \in Objs, Release(o) PROVE OwnersInv'
<1>0. Live(o) /\ UNCHANGED <<count, uds, cache>>
  BY DEF Release, cacheVars, OwnersInv, AliveInv, Dead
<1>1. CASE Owned(o)
  <2>1. objs' = [objs EXCEPT ![o].held = FALSE]
    BY <1>1 DEF Release
  <2> QED
    BY <1>0, <2>1, HoldOwners
<1>2. CASE ~Owned(o)
  <2>1. Destroy(o)
    BY <1>2 DEF Release
  <2> QED
    BY <1>0, <1>2, <2>1, DestroyAlive, OwnersKeep DEF OwnersInv
<1> QED
  BY <1>1, <1>2

LEMMA LoadOwners ==
  ASSUME OwnersInv, NEW u \in DOMAIN uds, LoadSharedPtr(u) PROVE OwnersInv'
<1>1. /\ uds[u].obj \in Objs /\ Live(uds[u].obj)
      /\ objs' = [objs EXCEPT ![uds[u].obj].held = TRUE]
      /\ UNCHANGED <<count, uds, cache>>
  BY UdHasObject DEF LoadSharedPtr, cacheVars, OwnersInv, UdsInv, UdInv
<1> QED
  BY <1>1, HoldOwners

\* The index of an object is nothing to what owns it.
LEMMA PushPointerOwners ==
  ASSUME OwnersInv, NEW o \in Objs, NEW info \in Types, PushPointer(o, info)
  PROVE  OwnersInv'
<1>0. Live(o) /\ UNCHANGED <<count, uds, cache>>
  BY DEF PushPointer, cacheVars, OwnersInv, AliveInv, Dead
<1>1. CASE UNCHANGED objs
  BY <1>0, <1>1, AliveKept, OwnersKeep DEF OwnersInv
<1>2. CASE objs' # objs
  <2>1. PICK i : objs' = [objs EXCEPT ![o].index = i]
    BY <1>2 DEF PushPointer, AllocObjIndex
  <2>2. PICK I : objs \in [Objs -> [id : Nat, type : Types, held : BOOLEAN, index : I]]
    BY DEF OwnersInv, AliveInv
  <2> DEFINE J == I \cup {i}
  <2>3. objs \in [Objs -> [id : Nat, type : Types, held : BOOLEAN, index : J]] /\ i \in J
    BY <2>2
  <2> HIDE DEF J
  <2>4. objs' \in [Objs -> [id : Nat, type : Types, held : BOOLEAN, index : J]]
    BY <2>1, <2>3
  <2>5. ASSUME NEW x \in Objs
        PROVE  /\ objs'[x].id = objs[x].id /\ objs'[x].type = objs[x].type
               /\ x # o => objs'[x] = objs[x]
    BY <2>1, <2>3
  <2>6. AliveInv'
    BY <1>0, <2>4, <2>5 DEF OwnersInv, AliveInv, Live
  <2> QED
    BY <1>0, <2>5, <2>6, OwnersKeep
<1> QED
  BY <1>1, <1>2

\* User data that is in use may change its type for another true one.
LEMMA RetypeUdKeeps ==
  ASSUME UdsInv, NEW u \in DOMAIN uds, NEW info \in Types,
         IsBaseOf(info, objs[uds[u].obj].type),
         uds' = [uds EXCEPT ![u].info = info],
         UNCHANGED <<objs, cache>>
  PROVE  UdsInv'
<1>1. /\ uds' \in Seq(Ud) /\ DOMAIN uds' = DOMAIN uds
      /\ uds'[u] = [uds[u] EXCEPT !.info = info]
      /\ \A v \in DOMAIN uds : v # u => uds'[v] = uds[v]
  <2>1. uds \in Seq(Ud) /\ uds[u] \in Ud
    BY UdHasObject DEF UdsInv
  <2>2. [uds[u] EXCEPT !.info = info] \in Ud
    BY <2>1 DEF Ud
  <2> QED
    BY <2>1, <2>2
<1>2. uds'[u].obj = uds[u].obj /\ uds'[u].phase = uds[u].phase /\ uds'[u].info = info
  BY <1>1, UdHasObject DEF Ud
<1>3. ASSUME NEW v \in DOMAIN uds PROVE UdInv(v)'
  <2>1. UdInv(v)
    BY DEF UdsInv
  <2>2. CASE v = u
    BY <1>2, <2>1, <2>2 DEF UdInv, Live
  <2>3. CASE v # u
    BY <1>1, <2>1, <2>3 DEF UdInv, Live
  <2> QED
    BY <2>2, <2>3
<1>4. ASSUME NEW o \in Objs PROVE EntryInv(o)'
  <2>1. EntryInv(o)
    BY DEF UdsInv
  <2> QED
    BY <1>1, <1>2, <2>1 DEF EntryInv
<1> QED
  BY <1>1, <1>3, <1>4 DEF UdsInv

LEMMA CastUserDataOwners ==
  ASSUME OwnersInv, NEW u \in DOMAIN uds, NEW dst \in Types, CastUserData(u, dst)
  PROVE  OwnersInv'
<1>1. /\ IsBaseOf(dst, objs[uds[u].obj].type)
      /\ uds' = [uds EXCEPT ![u].info = dst]
      /\ UNCHANGED <<objs, count, cache>>
  BY DEF CastUserData, Castable
<1> QED
  BY <1>1, AliveKept, RetypeUdKeeps DEF OwnersInv

\* What Cached finds is the object's own user data, so the type that is set
\* there is the object's.
LEMMA PushSharedPtrOwners ==
  ASSUME OwnersInv, NEW o \in Objs, NEW info \in Types, PushSharedPtr(o, info)
  PROVE  OwnersInv'
<1>0. /\ Live(o) /\ IsBaseOf(info, objs[o].type)
      /\ UNCHANGED <<objs, count>>
      /\ objs[o].type \in Types
  BY DEF PushSharedPtr, OwnersInv, AliveInv, Dead
<1>1. AliveInv'
  BY <1>0, AliveKept DEF OwnersInv
<1>2. CASE Cached(o)
  <2> DEFINE u == cache[o].ud
             type == NewInfo(uds[u].info, info)
  <2>1. u \in DOMAIN uds /\ uds[u].obj = o /\ uds[u].phase # "gone"
    BY <1>2 DEF Cached, OwnersInv, UdsInv, EntryInv
  <2>2. uds[u].info \in Types /\ IsBaseOf(uds[u].info, objs[o].type)
    BY <2>1, UdHasObject DEF OwnersInv, UdsInv, UdInv, Ud
  <2>3. type \in Types /\ IsBaseOf(type, objs[o].type)
    BY <1>0, <2>2, NewInfoRefines
  <2>4. uds' = [uds EXCEPT ![u].info = type] /\ UNCHANGED cache
    BY <1>2 DEF PushSharedPtr
  <2> HIDE DEF u, type
  <2>5. UdsInv'
    BY <1>0, <2>1, <2>3, <2>4, RetypeUdKeeps DEF OwnersInv
  <2> QED
    BY <1>1, <2>5 DEF OwnersInv
<1>3. CASE ~Cached(o)
  <2> DEFINE new == [obj |-> o, info |-> info, phase |-> "live"]
             n == Len(uds) + 1
  <2>1. PICK ref : cache' = [cache EXCEPT ![o] = [ud |-> n, ref |-> ref]]
    BY <1>3 DEF PushSharedPtr, RefCache
  <2>2. uds' = Append(uds, new) /\ uds \in Seq(Ud) /\ cache[o] = NoEntry
    BY <1>3 DEF PushSharedPtr, Cached, OwnersInv, UdsInv
  <2>3. new \in Ud /\ new.obj = o /\ new.info = info /\ new.phase = "live"
    BY DEF Ud
  <2> HIDE DEF new
  <2>4. /\ uds' \in Seq(Ud) /\ DOMAIN uds' = DOMAIN uds \cup {n} /\ uds'[n] = new
        /\ n \notin DOMAIN uds /\ n # 0 /\ DOMAIN uds = 1 .. Len(uds) /\ Len(uds) \in Nat
        /\ \A u \in DOMAIN uds : uds'[u] = uds[u]
    BY <2>2, <2>3
  <2>5. /\ DOMAIN cache' = Objs /\ cache'[o] = [ud |-> n, ref |-> ref]
        /\ cache'[o].ud = n
        /\ cache' = [x \in Objs |-> cache'[x]]
    BY <2>1 DEF OwnersInv, UdsInv
  <2>6. ASSUME NEW x \in Objs, x # o PROVE cache'[x] = cache[x]
    BY <2>1, <2>6 DEF OwnersInv, UdsInv
  <2>7. ASSUME NEW u \in DOMAIN uds' PROVE UdInv(u)'
    <3>1. CASE u = n
      BY <1>0, <2>3, <2>4, <2>5, <3>1 DEF UdInv, Live
    <3>2. CASE u \in DOMAIN uds
      <4>1. UdInv(u) /\ uds'[u] = uds[u] /\ uds[u].obj \in Objs
        BY <2>4, <3>2, UdHasObject DEF OwnersInv, UdsInv
      <4>2. uds[u].phase # "gone" => uds[u].obj # o
        BY <2>2, <2>4, <3>2, <4>1 DEF UdInv, NoEntry
      <4> QED
        BY <1>0, <2>6, <4>1, <4>2 DEF UdInv, Live
    <3> QED
      BY <2>4, <3>1, <3>2
  <2>8. ASSUME NEW x \in Objs PROVE EntryInv(x)'
    <3>1. CASE x = o
      BY <2>3, <2>4, <2>5, <3>1 DEF EntryInv
    <3>2. CASE x # o
      BY <2>4, <2>6, <3>2 DEF EntryInv, OwnersInv, UdsInv
    <3> QED
      BY <3>1, <3>2
  <2> QED
    BY <1>1, <2>4, <2>5, <2>7, <2>8 DEF OwnersInv, UdsInv
<1> QED
  BY <1>2, <1>3

LEMMA CollectOwners ==
  ASSUME OwnersInv, NEW dead \in SUBSET Phase("live"), Collect(dead) PROVE OwnersInv'
<1>0. /\ UNCHANGED <<objs, count, cache>>
      /\ uds' = [u \in DOMAIN uds |-> IF u \in dead THEN [uds[u] EXCEPT !.phase = "cleared"]
                                     ELSE uds[u]]
      /\ uds \in Seq(Ud)
  BY DEF Collect, OwnersInv, UdsInv
<1>1. ASSUME NEW u \in DOMAIN uds
      PROVE  /\ uds'[u] \in Ud
             /\ uds'[u].obj = uds[u].obj
             /\ uds'[u].info = uds[u].info
             /\ uds'[u].phase = "gone" <=> uds[u].phase = "gone"
  <2>1. uds[u] \in Ud
    BY UdHasObject DEF OwnersInv
  <2>2. CASE u \in dead
    <3>1. uds[u].phase = "live"
      BY <2>2 DEF Phase
    <3>2. uds'[u] = [uds[u] EXCEPT !.phase = "cleared"]
      BY <1>0, <2>2
    <3> QED
      BY <2>1, <3>1, <3>2 DEF Ud
  <2>3. CASE u \notin dead
    BY <1>0, <2>1, <2>3
  <2> QED
    BY <2>2, <2>3
<1>2. DOMAIN uds' = DOMAIN uds /\ uds' \in Seq(Ud)
  BY <1>0, <1>1
<1>3. ASSUME NEW u \in DOMAIN uds PROVE UdInv(u)'
  <2>1. UdInv(u)
    BY DEF OwnersInv, UdsInv
  <2> QED
    BY <1>0, <1>1, <2>1 DEF UdInv, Live
<1>4. ASSUME NEW o \in Objs PROVE EntryInv(o)'
  <2>1. EntryInv(o)
    BY DEF OwnersInv, UdsInv
  <2> QED
    BY <1>0, <1>1, <1>2, <2>1 DEF EntryInv
<1>5. UdsInv'
  BY <1>0, <1>2, <1>3, <1>4 DEF OwnersInv, UdsInv
<1> QED
  BY <1>0, <1>5, AliveKept DEF OwnersInv

\* __gc: the entry it erases is that of the user data it is called for, and
\* no other user data owns the object.
LEMMA GcOwners ==
  ASSUME OwnersInv, NEW u \in DOMAIN uds, Gc(u) PROVE OwnersInv'
<1> DEFINE o == uds[u].obj
<1>0. /\ o \in Objs /\ Live(o) /\ cache[o].ud = u /\ uds[u].phase = "cleared"
      /\ cache' = [cache EXCEPT ![o] = NoEntry]
      /\ uds' = [uds EXCEPT ![u].phase = "gone"]
      /\ UNCHANGED count
  BY UdHasObject DEF Gc, Erased, OwnersInv, UdsInv, UdInv
<1>1. AliveInv' /\ \A x \in Objs : x # o => objs'[x] = objs[x]
  <2>1. CASE objs[o].held
    <3>1. UNCHANGED objs
      BY <2>1 DEF Gc
    <3> QED
      BY <1>0, <3>1, AliveKept DEF OwnersInv
  <2>2. CASE ~objs[o].held
    <3>1. Destroy(o)
      BY <2>2 DEF Gc
    <3> QED
      BY <1>0, <3>1, DestroyAlive DEF OwnersInv
  <2> QED
    BY <2>1, <2>2
<1>2. ASSUME NEW x \in Objs, x # o PROVE objs'[x] = objs[x] /\ cache'[x] = cache[x]
  <2>1. cache'[x] = cache[x]
    BY <1>0, <1>2 DEF OwnersInv, UdsInv
  <2>2. objs'[x] = objs[x]
    BY <1>1, <1>2
  <2> QED
    BY <2>1, <2>2
<1>3. DOMAIN cache' = Objs /\ cache'[o] = NoEntry /\ cache' = [x \in Objs |-> cache'[x]]
  BY <1>0 DEF OwnersInv, UdsInv
<1> HIDE DEF o
<1>4. /\ uds' \in Seq(Ud) /\ DOMAIN uds' = DOMAIN uds /\ uds'[u].phase = "gone"
  <2>1. uds \in Seq(Ud) /\ uds[u] \in Ud
    BY UdHasObject DEF OwnersInv, UdsInv
  <2>2. [uds[u] EXCEPT !.phase = "gone"] \in Ud
    BY <2>1 DEF Ud
  <2> QED
    BY <1>0, <2>1, <2>2 DEF Ud
<1>5. ASSUME NEW v \in DOMAIN uds, v # u PROVE uds'[v] = uds[v]
  BY <1>0, <1>5 DEF OwnersInv, UdsInv
<1>6. ASSUME NEW v \in DOMAIN uds PROVE UdInv(v)'
  <2>1. CASE v = u
    BY <1>4, <2>1 DEF UdInv
  <2>2. CASE v # u
    <3>1. uds'[v] = uds[v] /\ uds[v].obj \in Objs /\ UdInv(v)
      BY <1>5, <2>2, UdHasObject DEF OwnersInv, UdsInv
    <3>2. uds[v].phase # "gone" => uds[v].obj # o
      BY <1>0, <2>2, <3>1 DEF UdInv
    <3> QED
      BY <1>2, <3>1, <3>2 DEF UdInv, Live
  <2> QED
    BY <2>1, <2>2
<1>7. ASSUME NEW x \in Objs PROVE EntryInv(x)'
  <2>1. CASE x = o
    BY <1>3, <2>1 DEF EntryInv
  <2>2. CASE x # o
    <3>1. EntryInv(x) /\ cache'[x] = cache[x]
      BY <1>2, <2>2 DEF OwnersInv, UdsInv
    <3>2. cache[x] # NoEntry => cache[x].ud # u
      BY <2>2, <3>1 DEF EntryInv, o
    <3> QED
      BY <1>4, <1>5, <3>1, <3>2 DEF EntryInv
  <2> QED
    BY <2>1, <2>2
<1>8. UdsInv'
  BY <1>3, <1>4, <1>6, <1>7 DEF UdsInv
<1> QED
  BY <1>1, <1>8 DEF OwnersInv

-----------------------------------------------------------------------------
\* Every step of the program, of Lua and of its collector keeps what is said of
\* the user data, whatever index a copy is made with.
LEMMA StepOwners == OwnersInv /\ [Next]_vars => OwnersInv'
<1> SUFFICES ASSUME OwnersInv, [Next]_vars PROVE OwnersInv'
  OBVIOUS
<1>1. ASSUME NEW o \in Objs, NEW type \in Types, Create(o, type) PROVE OwnersInv'
  <2>1. /\ ~Live(o) /\ count' = count + 1 /\ UNCHANGED <<uds, cache>>
        /\ objs' = [objs EXCEPT ![o] = [id |-> count', type |-> type, held |-> TRUE,
                                        index |-> NoSlot]]
    BY <1>1 DEF Create, cacheVars
  <2> QED
    BY <2>1, MadeOwners
<1>2. ASSUME NEW o \in Objs, NEW p \in Objs, NEW type \in Types, Copy(o, p, type)
      PROVE  OwnersInv'
  <2>1. PICK index \in Garbage :
          objs' = [objs EXCEPT ![o] = [id |-> count', type |-> type, held |-> TRUE,
                                       index |-> index]]
    BY <1>2 DEF Copy
  <2>2. ~Live(o) /\ count' = count + 1 /\ UNCHANGED <<uds, cache>>
    BY <1>2 DEF Copy, cacheVars
  <2> QED
    BY <2>1, <2>2, MadeOwners
<1>3. ASSUME NEW o \in Objs, NEW type \in Types,
             PushPointer(o, type) \/ PushSharedPtr(o, type)
      PROVE  OwnersInv'
  BY <1>3, PushPointerOwners, PushSharedPtrOwners
<1>4. ASSUME NEW o \in Objs, Release(o) PROVE OwnersInv'
  BY <1>4, ReleaseOwners
<1>5. ASSUME NEW u \in DOMAIN uds, LoadSharedPtr(u) PROVE OwnersInv'
  BY <1>5, LoadOwners
<1>6. ASSUME UNCHANGED <<objs, count, uds, cache>> PROVE OwnersInv'
  BY <1>6, AliveKept, OwnersKeep DEF OwnersInv
<1>7. CASE NextCast
  BY <1>6, <1>7, CastUserDataOwners DEF NextCast, CastLight, cacheVars
<1>8. CASE NextCollect
  BY <1>8, CollectOwners, GcOwners DEF NextCollect
<1>9. CASE UNCHANGED vars
  BY <1>6, <1>9 DEF vars
<1> QED
  BY <1>1, <1>2, <1>3, <1>4, <1>5, <1>7, <1>8, <1>9 DEF Next, NextProgram

LEMMA InitOwners == Init => OwnersInv
  BY InitInv, IInvOwners

LEMMA Owners == Spec => []OwnersInv
  BY InitOwners, StepOwners, PTL DEF Spec

\* Copies without a slot leave the slots as they are.
LEMMA StepInv == CopiesAreFresh /\ IInv /\ [Next]_vars => IInv'
<1> SUFFICES ASSUME CopiesAreFresh, IInv, [Next]_vars PROVE IndexInv'
  BY IInvOwners, StepOwners DEF IInv, OwnersInv
<1>1. ASSUME NEW o \in Objs, NEW type \in Types, Create(o, type) \/ PushPointer(o, type)
      PROVE  IndexInv'
  BY <1>1, CreateKeeps, PushAgainKeeps, PushFirstKeeps
<1>2. ASSUME NEW o \in Objs, NEW p \in Objs, NEW type \in Types, Copy(o, p, type)
      PROVE  IndexInv'
  BY <1>2, CopyKeeps
<1>3. ASSUME NEW o \in Objs, Release(o) PROVE IndexInv'
  BY <1>3, ReleaseKeeps
<1>4. ASSUME NEW u \in DOMAIN uds, LoadSharedPtr(u) PROVE IndexInv'
  BY <1>4, LoadKeeps
<1>5. ASSUME UNCHANGED <<objs, count, array, free, gener, lights>> PROVE IndexInv'
  BY <1>5, IndexKeeps DEF IInv
<1>6. ASSUME NEW o \in Objs, NEW type \in Types, PushSharedPtr(o, type) PROVE IndexInv'
  BY <1>5, <1>6 DEF PushSharedPtr, indexVars
<1>7. CASE NextCast
  BY <1>5, <1>7, CastLightKeeps DEF NextCast, CastUserData, indexVars
<1>8. CASE NextCollect
  BY <1>5, <1>8, GcIndexKeeps DEF NextCollect, Collect, indexVars
<1>9. CASE UNCHANGED vars
  BY <1>5, <1>9 DEF vars
<1> QED
  BY <1>1, <1>2, <1>3, <1>4, <1>6, <1>7, <1>8, <1>9 DEF Next, NextProgram

\* The inductive invariant of slots and user data: whose slot is whose, which
\* are free, what serial numbers say, and which user data owns which entry of
\* the cache.  It holds if copies are made without a slot.
THEOREM Invariance == CopiesAreFresh => (Spec => []IInv)
<1> SUFFICES ASSUME CopiesAreFresh PROVE Spec => []IInv
  OBVIOUS
<1>1. IInv /\ [Next]_vars => IInv'
  BY StepInv
<1> QED
  BY <1>1, InitInv, PTL DEF Spec

LEMMA InvLight == IInv => LightIsExact
<1> SUFFICES ASSUME IInv, NEW l \in lights
             PROVE  Resolve(l) = IF objs[l.obj].id = l.id THEN l.obj ELSE NoObj
  BY DEF LightIsExact
<1>1. LightInv(l) /\ l.obj \in Objs /\ l.index \in Nat
  BY DEF IInv, IndexInv, IndexType, Light
<1>2. objs[l.obj].id = l.id => l.index + 1 \in DOMAIN array /\ array[l.index + 1].obj = l.obj
  BY <1>1 DEF IInv, IndexInv, LightInv, ObjInv, NoSlot
<1> QED
  BY <1>1, <1>2 DEF LightInv, Resolve, Slot

\* Light user data leads to the object it was made for as long as that one
\* lives and to nothing from then on (GetLightUserDataPtr), if copies are made
\* without a slot.
THEOREM LightExact == CopiesAreFresh => (Spec => []LightIsExact)
  BY InvLight, Invariance, PTL

LEMMA InvInfo == IInv => InfoIsTrue
<1> SUFFICES ASSUME IInv PROVE InfoIsTrue
  OBVIOUS
<1>1. ASSUME NEW i \in DOMAIN array, array[i].obj # NoObj
      PROVE  IsBaseOf(array[i].info, objs[array[i].obj].type)
  BY <1>1 DEF IInv, IndexInv, SlotInv
<1>2. ASSUME NEW u \in DOMAIN uds, uds[u].phase # "gone"
      PROVE  IsBaseOf(uds[u].info, objs[uds[u].obj].type)
  BY <1>2 DEF IInv, UdsInv, UdInv
<1> QED
  BY <1>1, <1>2 DEF InfoIsTrue

\* The types on record for objects are types they have (NewInfo, Castable), if
\* copies are made without a slot.
THEOREM InfoTrue == CopiesAreFresh => (Spec => []InfoIsTrue)
  BY InvInfo, Invariance, PTL

LEMMA InvEntry == OwnersInv => GcFindsItsEntry
  BY DEF OwnersInv, UdsInv, UdInv, GcFindsItsEntry

\* __gc finds the cache entry of the user data it is called for, whatever
\* copies are made with.
THEOREM EntryFound == Spec => []GcFindsItsEntry
  BY InvEntry, Owners, PTL

(* What a step makes of the types on record.                               *)

SlotsRefine ==
  \A i \in DOMAIN array :
    array'[i].serial = array[i].serial => IsBaseOf(array[i].info, array'[i].info)

UdsRefine == \A u \in DOMAIN uds : IsBaseOf(uds[u].info, uds'[u].info)

LEMMA ArrayKeptRefines == UNCHANGED array => SlotsRefine
  BY DEF SlotsRefine, IsBaseOf

LEMMA UdsKeptRefine == UNCHANGED uds => UdsRefine
  BY DEF UdsRefine, IsBaseOf

\* A slot that is emptied has another serial number from then on.
LEMMA DestroyRefines ==
  ASSUME IInv, NEW o \in Objs, Destroy(o) PROVE SlotsRefine
<1>1. CASE objs[o].index = NoSlot
  BY <1>1, ArrayKeptRefines DEF Destroy
<1>2. CASE objs[o].index # NoSlot
  <2> DEFINE s == objs[o].index + 1
  <2>1. /\ s \in DOMAIN array /\ array[s].obj = o /\ o # NoObj
        /\ array' = [array EXCEPT ![s] = EmptySlot]
        /\ gener \in Nat
    BY <1>2, BridgeAssumption DEF Destroy, IInv, IndexInv, ObjInv, IndexType
  <2> HIDE DEF s
  <2>2. array[s].serial # 0
    <3>1. SlotInv(s)
      BY <2>1 DEF IInv, IndexInv
    <3>2. array[s] # EmptySlot
      BY <2>1 DEF EmptySlot
    <3> QED
      BY <2>1, <3>1, <3>2 DEF SlotInv
  <2>3. array'[s].serial = 0 /\ \A i \in DOMAIN array : i # s => array'[i] = array[i]
    BY <2>1 DEF IInv, IndexInv, IndexType, EmptySlot
  <2> QED
    BY <2>2, <2>3 DEF SlotsRefine, IsBaseOf
<1> QED
  BY <1>1, <1>2

\* A slot that is given to an object has a new serial number, and one that an
\* object has already gets what NewInfo says.
LEMMA PushPointerRefines ==
  ASSUME IInv, NEW o \in Objs, NEW info \in Types, PushPointer(o, info) PROVE SlotsRefine
<1>0. /\ Live(o) /\ IsBaseOf(info, objs[o].type) /\ objs[o].type \in Types
      /\ array \in Seq(Info) /\ gener \in Nat
  BY DEF PushPointer, IInv, IndexInv, IndexType, ObjInv, Dead
<1>1. CASE objs[o].index # NoSlot
  <2> DEFINE s == objs[o].index + 1
             type == NewInfo(array[s].info, info)
  <2>1. s \in DOMAIN array /\ array[s].obj = o /\ o # NoObj
    BY <1>1, BridgeAssumption DEF IInv, IndexInv, ObjInv
  <2>2. array[s].info \in Types /\ IsBaseOf(array[s].info, objs[o].type)
    <3> HIDE DEF s
    <3>1. SlotInv(s)
      BY <2>1 DEF IInv, IndexInv
    <3>2. array[s] \in Info
      BY <1>0, <2>1
    <3> QED
      BY <2>1, <3>1, <3>2 DEF SlotInv, Info
  <2>3. IsBaseOf(array[s].info, type)
    BY <1>0, <2>2, NewInfoRefines
  <2>a. array' = [array EXCEPT ![s] = Renewed(array[s], o, info)]
    BY <1>1 DEF PushPointer, AllocObjIndex
  <2> HIDE DEF s
  <2>5. array[s] \in Info
    BY <1>0, <2>1
  <2>4. array' = [array EXCEPT ![s] = [array[s] EXCEPT !.info = type]]
    BY <2>1, <2>5, <2>a, RenewedRetypes
  <2> HIDE DEF type
  <2>6. /\ array'[s].info = type
        /\ \A i \in DOMAIN array : i # s => array'[i] = array[i]
    BY <1>0, <2>1, <2>4, <2>5 DEF Info
  <2> QED
    BY <2>3, <2>6 DEF SlotsRefine, IsBaseOf
<1>2. CASE objs[o].index = NoSlot
  <2> DEFINE ary == Grown.array
             list == Grown.free
             s == Last(list) + 1
             new == [serial |-> gener + 1, obj |-> o, info |-> info]
  <2>1. array' = [ary EXCEPT ![s] = new]
    BY <1>2 DEF PushPointer, AllocObjIndex
  <2>2. /\ ary \in Seq(Info) /\ DOMAIN array \subseteq DOMAIN ary
        /\ \A i \in DOMAIN array : ary[i] = array[i]
    BY GrownHasFree DEF IInv
  <2>3. new.serial = gener + 1
    OBVIOUS
  <2> HIDE DEF ary, s, new
  <2>4. ASSUME NEW i \in DOMAIN array, i # s PROVE array'[i] = array[i]
    BY <2>1, <2>2, <2>4
  <2>5. ASSUME s \in DOMAIN array PROVE array'[s].serial # array[s].serial
    <3>0. SlotInv(s)
      BY <2>5 DEF IInv, IndexInv
    <3>1. array[s].serial <= gener
      BY <1>0, <3>0 DEF SlotInv, EmptySlot
    <3>2. array'[s].serial = gener + 1
      BY <2>1, <2>2, <2>3, <2>5
    <3>3. array[s].serial \in Nat
      BY <2>5, SlotHasObject DEF IInv, IndexInv, Info
    <3> QED
      BY <1>0, <3>1, <3>2, <3>3
  <2> QED
    BY <2>4, <2>5 DEF SlotsRefine, IsBaseOf
<1> QED
  BY <1>1, <1>2

\* Only a cast and a pointer pushed again touch the type of user data.
LEMMA RetypedUdRefines ==
  ASSUME UdsInv, NEW u \in DOMAIN uds, NEW info \in Types, IsBaseOf(uds[u].info, info),
         uds' = [uds EXCEPT ![u].info = info]
  PROVE  UdsRefine
<1>1. uds \in Seq(Ud) /\ uds[u] \in Ud
  BY UdHasObject DEF UdsInv
<1>2. uds'[u].info = info /\ \A v \in DOMAIN uds : v # u => uds'[v] = uds[v]
  BY <1>1 DEF Ud
<1> QED
  BY <1>2 DEF UdsRefine, IsBaseOf

LEMMA PushSharedPtrRefines ==
  ASSUME IInv, NEW o \in Objs, NEW info \in Types, PushSharedPtr(o, info) PROVE UdsRefine
<1>1. CASE Cached(o)
  <2> DEFINE u == cache[o].ud
             type == NewInfo(uds[u].info, info)
  <2>1. u \in DOMAIN uds /\ uds[u].obj = o /\ uds[u].phase # "gone"
    BY <1>1 DEF Cached, IInv, UdsInv, EntryInv
  <2>2. uds[u].info \in Types /\ IsBaseOf(uds[u].info, objs[o].type)
    BY <2>1, UdHasObject DEF IInv, UdsInv, UdInv, Ud
  <2>3. IsBaseOf(info, objs[o].type) /\ objs[o].type \in Types
    BY DEF PushSharedPtr, IInv, IndexInv, IndexType
  <2>4. type \in Types /\ IsBaseOf(uds[u].info, type)
    BY <2>2, <2>3, NewInfoRefines
  <2>5. uds' = [uds EXCEPT ![u].info = type]
    BY <1>1 DEF PushSharedPtr
  <2> HIDE DEF u, type
  <2> QED
    BY <2>1, <2>4, <2>5, RetypedUdRefines DEF IInv
<1>2. CASE ~Cached(o)
  <2> DEFINE new == [obj |-> o, info |-> info, phase |-> "live"]
  <2>1. uds' = Append(uds, new) /\ uds \in Seq(Ud)
    BY <1>2 DEF PushSharedPtr, IInv, UdsInv
  <2>2. new \in Ud
    BY DEF Ud
  <2> HIDE DEF new
  <2>3. \A u \in DOMAIN uds : uds'[u] = uds[u]
    BY <2>1, <2>2
  <2> QED
    BY <2>3 DEF UdsRefine, IsBaseOf
<1> QED
  BY <1>1, <1>2

LEMMA CastRefines ==
  ASSUME IInv, NextCast PROVE SlotsRefine /\ UdsRefine
<1>1. ASSUME NEW dst \in Types, NEW l \in lights, CastLight(l, dst)
      PROVE  SlotsRefine /\ UdsRefine
  <2> DEFINE s == l.index + 1
  <2>1. /\ s \in DOMAIN array /\ IsBaseOf(array[s].info, dst)
        /\ array' = [array EXCEPT ![s].info = dst]
        /\ UNCHANGED uds
    BY <1>1 DEF CastLight, Resolve, Castable, Slot, cacheVars
  <2> HIDE DEF s
  <2>2. array \in Seq(Info) /\ array[s] \in Info
    BY <2>1, SlotHasObject DEF IInv, IndexInv, IndexType
  <2>3. /\ array'[s].info = dst
        /\ \A i \in DOMAIN array : i # s => array'[i] = array[i]
    BY <2>1, <2>2 DEF Info
  <2>4. SlotsRefine
    BY <2>1, <2>3 DEF SlotsRefine, IsBaseOf
  <2> QED
    BY <2>1, <2>4, UdsKeptRefine
<1>2. ASSUME NEW dst \in Types, NEW u \in DOMAIN uds, CastUserData(u, dst)
      PROVE  SlotsRefine /\ UdsRefine
  <2>1. /\ IsBaseOf(uds[u].info, dst)
        /\ uds' = [uds EXCEPT ![u].info = dst]
        /\ UNCHANGED array
    BY <1>2 DEF CastUserData, Castable, indexVars
  <2> QED
    BY <2>1, ArrayKeptRefines, RetypedUdRefines DEF IInv
<1> QED
  BY <1>1, <1>2 DEF NextCast

LEMMA CollectRefines ==
  ASSUME IInv, NextCollect PROVE SlotsRefine /\ UdsRefine
<1>1. ASSUME NEW dead \in SUBSET Phase("live"), Collect(dead)
      PROVE  SlotsRefine /\ UdsRefine
  <2>1. /\ UNCHANGED array
        /\ uds' = [u \in DOMAIN uds |-> IF u \in dead THEN [uds[u] EXCEPT !.phase = "cleared"]
                                       ELSE uds[u]]
    BY <1>1 DEF Collect, indexVars
  <2>2. \A u \in DOMAIN uds : uds[u] \in Ud
    BY UdHasObject DEF IInv
  <2>3. ASSUME NEW u \in DOMAIN uds PROVE uds'[u].info = uds[u].info
    BY <2>1, <2>2 DEF Ud
  <2> QED
    BY <2>1, <2>3, ArrayKeptRefines DEF UdsRefine, IsBaseOf
<1>2. ASSUME NEW u \in DOMAIN uds, Gc(u) PROVE SlotsRefine /\ UdsRefine
  <2> DEFINE o == uds[u].obj
  <2>1. o \in Objs /\ uds \in Seq(Ud) /\ uds[u] \in Ud
    BY UdHasObject DEF IInv, UdsInv
  <2>2. UNCHANGED array \/ Destroy(o)
    BY <1>2 DEF Gc
  <2>3. uds' = [uds EXCEPT ![u].phase = "gone"]
    BY <1>2 DEF Gc
  <2> HIDE DEF o
  <2>4. SlotsRefine
    BY <2>1, <2>2, ArrayKeptRefines, DestroyRefines
  <2>5. ASSUME NEW v \in DOMAIN uds PROVE uds'[v].info = uds[v].info
    BY <2>1, <2>3 DEF Ud
  <2> QED
    BY <2>4, <2>5 DEF UdsRefine, IsBaseOf
<1> QED
  BY <1>1, <1>2 DEF NextCollect

LEMMA StepRefines == IInv /\ [Next]_vars => SlotsRefine /\ UdsRefine
<1> SUFFICES ASSUME IInv, [Next]_vars PROVE SlotsRefine /\ UdsRefine
  OBVIOUS
<1>1. ASSUME NEW o \in Objs, Release(o) PROVE SlotsRefine /\ UdsRefine
  <2>1. (UNCHANGED array \/ Destroy(o)) /\ UNCHANGED uds
    BY <1>1 DEF Release, cacheVars
  <2> QED
    BY <2>1, ArrayKeptRefines, UdsKeptRefine, DestroyRefines
<1>2. ASSUME NEW u \in DOMAIN uds, LoadSharedPtr(u) PROVE SlotsRefine /\ UdsRefine
  BY <1>2, ArrayKeptRefines, UdsKeptRefine DEF LoadSharedPtr, indexVars, cacheVars
<1>3. ASSUME NEW o \in Objs, NEW type \in Types, Create(o, type)
      PROVE  SlotsRefine /\ UdsRefine
  BY <1>3, ArrayKeptRefines, UdsKeptRefine DEF Create, indexVars, cacheVars
<1>7. ASSUME NEW o \in Objs, NEW p \in Objs, NEW type \in Types, Copy(o, p, type)
      PROVE  SlotsRefine /\ UdsRefine
  BY <1>7, ArrayKeptRefines, UdsKeptRefine DEF Copy, indexVars, cacheVars
<1>4. ASSUME NEW o \in Objs, NEW type \in Types, PushPointer(o, type)
      PROVE  SlotsRefine /\ UdsRefine
  BY <1>4, PushPointerRefines, UdsKeptRefine DEF PushPointer, cacheVars
<1>5. ASSUME NEW o \in Objs, NEW type \in Types, PushSharedPtr(o, type)
      PROVE  SlotsRefine /\ UdsRefine
  BY <1>5, PushSharedPtrRefines, ArrayKeptRefines DEF PushSharedPtr, indexVars
<1>6. CASE UNCHANGED vars
  BY <1>6, ArrayKeptRefines, UdsKeptRefine DEF vars
<1> QED
  BY <1>1, <1>2, <1>3, <1>4, <1>5, <1>6, <1>7, CastRefines, CollectRefines DEF Next, NextProgram

\* What xlua has learnt of an object's type, by a push or by a cast, it does
\* not forget as long as the object has its slot or its user data, if copies
\* are made without a slot.
THEOREM InfoRefined == CopiesAreFresh => (Spec => InfoOnlyRefines)
<1> SUFFICES ASSUME CopiesAreFresh PROVE Spec => InfoOnlyRefines
  OBVIOUS
<1>1. IInv /\ [Next]_vars =>
        [/\ \A i \in DOMAIN array :
               array'[i].serial = array[i].serial =>
                 IsBaseOf(array[i].info, array'[i].info)
         /\ \A u \in DOMAIN uds : IsBaseOf(uds[u].info, uds'[u].info)]_vars
  BY StepRefines DEF SlotsRefine, UdsRefine
<1> QED
  BY <1>1, Invariance, PTL DEF Spec, InfoOnlyRefines
-----------------------------------------------------------------------------
(* What Lua finds by an entry of the cache.                                *)

\* The references that were given back, the last of them first, are linked
\* through the table: its entry 0 has f[n].
FreeRef(n, f, k) ==
  /\ f[k] \in 1 .. MaxUds
  /\ table[f[k]] = IF k = 1 THEN Nil ELSE Number(f[k - 1])
  /\ \A j \in 1 .. n : f[j] = f[k] => j = k
  /\ \A o \in Objs : cache[o] # NoEntry => cache[o].ref # f[k]

FreeRefs(n, f) ==
  /\ table[0] = IF n = 0 THEN Nil ELSE Number(f[n])
  /\ \A k \in 1 .. n : FreeRef(n, f, k)

\* An entry of the cache has a reference of its own.  The user data is there
\* until the collector clears it, and until __gc nothing takes its place.
EntryOwn(o) ==
  cache[o] # NoEntry =>
    /\ cache[o].ref \in 1 .. MaxUds
    /\ table[cache[o].ref] = IF uds[cache[o].ud].phase = "live" THEN Value(cache[o].ud)
                             ELSE Nil
    /\ \A p \in Objs : cache[p] # NoEntry /\ cache[p].ref = cache[o].ref => p = o

\* As long as no reference is given out that an entry has.
OwnInv ==
  ~doubled => /\ DOMAIN table = 0 .. MaxUds /\ table = [r \in 0 .. MaxUds |-> table[r]]
              /\ \E n \in Nat, f \in [Nat -> Nat] : FreeRefs(n, f)
              /\ \A o \in Objs : EntryOwn(o)

\* What the table can hold is told apart.
LEMMA Kinds ==
  /\ \A x : Number(x) # Nil /\ Value(x) # Nil
  /\ \A x, y : Number(x) # Value(y)
  /\ \A x, y : Value(x) = Value(y) => x = y
  /\ \A x : Number(x)[1] = "number" /\ Number(x)[2] = x
<1>1. \A x : Number(x)[1] = "number" /\ Number(x)[2] = x
  BY DEF Number
<1>2. \A x : Value(x)[1] = "ud" /\ Value(x)[2] = x
  BY DEF Value
<1>3. Nil[1] = "nil"
  BY DEF Nil
<1>4. "nil" # "ud" /\ "nil" # "number" /\ "ud" # "number"
  OBVIOUS
<1>5. \A x : Number(x) # Nil
  BY <1>1, <1>3, <1>4
<1>6. \A x : Value(x) # Nil
  BY <1>2, <1>3, <1>4
<1>7. \A x, y : Number(x) # Value(y)
  <2> SUFFICES ASSUME NEW x, NEW y, Number(x) = Value(y) PROVE FALSE
    OBVIOUS
  <2>1. Number(x)[1] = "number" /\ Value(y)[1] = "ud"
    BY <1>1, <1>2
  <2> QED
    BY <1>4, <2>1
<1>8. \A x, y : Value(x) = Value(y) => x = y
  <2> SUFFICES ASSUME NEW x, NEW y, Value(x) = Value(y) PROVE x = y
    OBVIOUS
  <2>1. Value(x)[2] = x /\ Value(y)[2] = y
    BY <1>2
  <2> QED
    BY <2>1
<1> QED
  BY <1>1, <1>5, <1>6, <1>7, <1>8

\* Two entries of a table are set.
LEMMA TwoPuts ==
  ASSUME NEW D, NEW t, DOMAIN t = D, t = [r \in D |-> t[r]],
         NEW a \in D, NEW b \in D, a # b, NEW x, NEW y,
         NEW t2, t2 = [t EXCEPT ![a] = x, ![b] = y]
  PROVE  /\ DOMAIN t2 = D /\ t2 = [r \in D |-> t2[r]]
         /\ t2[a] = x /\ t2[b] = y
         /\ \A r \in D : r # a /\ r # b => t2[r] = t[r]
  OBVIOUS

LEMMA InitOwn == Init => OwnInv
<1> SUFFICES ASSUME Init PROVE OwnInv
  OBVIOUS
<1>1. table = [r \in 0 .. MaxUds |-> Nil] /\ MaxUds \in Nat
  BY BridgeAssumption DEF Init
<1>2. DOMAIN table = 0 .. MaxUds /\ table[0] = Nil /\ table = [r \in 0 .. MaxUds |-> table[r]]
  BY <1>1
<1>3. [i \in Nat |-> 0] \in [Nat -> Nat] /\ FreeRefs(0, [i \in Nat |-> 0])
  BY <1>2 DEF FreeRefs
<1>4. \A o \in Objs : EntryOwn(o)
  BY DEF Init, EntryOwn
<1> QED
  BY <1>1, <1>2, <1>3, <1>4 DEF OwnInv

\* A step that leaves the cache, the table and what is alive as they are.
LEMMA OwnKept ==
  ASSUME UdsInv, OwnInv, UNCHANGED <<cache, table>>, doubled => doubled',
         \A u \in DOMAIN uds : uds'[u].phase = uds[u].phase
  PROVE  OwnInv'
<1> SUFFICES ASSUME ~doubled' PROVE OwnInv'
  BY DEF OwnInv
<1>1. ASSUME NEW o \in Objs PROVE EntryOwn(o)'
  <2>1. EntryOwn(o)
    BY DEF OwnInv
  <2>2. cache[o] # NoEntry => cache[o].ud \in DOMAIN uds
    BY DEF UdsInv, EntryInv
  <2> QED
    BY <2>1, <2>2 DEF EntryOwn
<1>2. PICK n \in Nat, f \in [Nat -> Nat] : FreeRefs(n, f)
  BY DEF OwnInv
<1>3. FreeRefs(n, f)'
  BY <1>2 DEF FreeRefs, FreeRef
<1> QED
  BY <1>1, <1>3 DEF OwnInv

\* User data u has reference ref, and the free list is what it was without it.
RefTaken(u, o, ref, n, f) ==
  /\ cache' = [cache EXCEPT ![o] = [ud |-> u, ref |-> ref]]
  /\ DOMAIN table' = 0 .. MaxUds /\ table' = [r \in 0 .. MaxUds |-> table'[r]]
  /\ table'[ref] = Value(u)
  /\ \A r \in 1 .. MaxUds : r # ref => table'[r] = table[r]
  /\ \A p \in Objs : cache[p] # NoEntry => cache[p].ref # ref
  /\ table'[0] = IF n = 0 THEN Nil ELSE Number(f[n])
  /\ \A k \in 1 .. n : FreeRef(n, f, k) /\ f[k] # ref

\* luaL_ref gave out a reference no entry has, and the free list goes on
\* without it.
LEMMA RefIsNew ==
  ASSUME UdsInv, OwnInv, ~doubled', NEW o \in Objs, cache[o] = NoEntry,
         NEW u, RefCache(u, o)
  PROVE  \E ref \in 1 .. MaxUds, n \in Nat, f \in [Nat -> Nat] : RefTaken(u, o, ref, n, f)
<1>a. ~doubled
  BY DEF RefCache
<1>0. /\ DOMAIN table = 0 .. MaxUds /\ table = [r \in 0 .. MaxUds |-> table[r]]
      /\ \A p \in Objs : EntryOwn(p)
  BY <1>a DEF OwnInv
<1>1. PICK n \in Nat, f \in [Nat -> Nat] : FreeRefs(n, f)
  BY <1>a DEF OwnInv
<1>2. PICK ref \in IF FirstFree # 0 THEN {FirstFree} ELSE {b + 1 : b \in Borders} :
        /\ cache' = [cache EXCEPT ![o] = [ud |-> u, ref |-> ref]]
        /\ table' = [table EXCEPT ![0] = IF FirstFree # 0 THEN table[ref] ELSE @,
                                  ![ref] = Value(u)]
        /\ doubled' = (doubled \/ \E x \in Objs : cache[x] # NoEntry /\ cache[x].ref = ref)
  BY DEF RefCache
<1>3. ASSUME NEW x, ref \in 1 .. MaxUds, table' = [table EXCEPT ![0] = x, ![ref] = Value(u)]
      PROVE  /\ DOMAIN table' = 0 .. MaxUds /\ table' = [r \in 0 .. MaxUds |-> table'[r]]
             /\ table'[ref] = Value(u) /\ table'[0] = x
             /\ \A r \in 1 .. MaxUds : r # ref => table'[r] = table[r]
  <2>1. /\ ref \in 0 .. MaxUds /\ 0 \in 0 .. MaxUds /\ ref # 0
        /\ \A r \in 1 .. MaxUds : r \in 0 .. MaxUds /\ r # 0
    BY <1>3, BridgeAssumption
  <2>2. /\ DOMAIN table' = 0 .. MaxUds /\ table' = [r \in 0 .. MaxUds |-> table'[r]]
        /\ table'[0] = x /\ table'[ref] = Value(u)
        /\ \A r \in 0 .. MaxUds : r # 0 /\ r # ref => table'[r] = table[r]
    BY <1>0, <1>3, <2>1, TwoPuts
  <2> QED
    BY <2>1, <2>2
<1>4. CASE n = 0
  <2>1. table[0] = Nil
    BY <1>1, <1>4 DEF FreeRefs
  <2>2. FirstFree = 0
    BY <2>1 DEF FirstFree
  <2>3. PICK b \in Borders : ref = b + 1
    BY <1>2, <2>2
  <2>4. ref \in 1 .. MaxUds /\ table[ref] = Nil
    <3>1. b \in 0 .. MaxUds - 1 /\ table[b + 1] = Nil
      BY DEF Borders
    <3>2. b + 1 \in 1 .. MaxUds
      BY <3>1, BridgeAssumption
    <3> QED
      BY <2>3, <3>1, <3>2
  <2>5. table' = [table EXCEPT ![0] = table[0], ![ref] = Value(u)]
    BY <1>2, <2>2
  <2>6. ASSUME NEW p \in Objs, cache[p] # NoEntry PROVE cache[p].ref # ref
    BY <1>2, <2>6
  <2>7. /\ DOMAIN table' = 0 .. MaxUds /\ table' = [r \in 0 .. MaxUds |-> table'[r]]
        /\ table'[ref] = Value(u) /\ table'[0] = Nil
        /\ \A r \in 1 .. MaxUds : r # ref => table'[r] = table[r]
    BY <1>3, <2>1, <2>4, <2>5
  <2>8. \A k \in 1 .. n : FALSE
    BY <1>4
  <2>9. RefTaken(u, o, ref, n, f)
    BY <1>2, <1>4, <2>6, <2>7, <2>8 DEF RefTaken
  <2> QED
    BY <2>4, <2>9
<1>5. CASE n # 0
  <2>1. n \in 1 .. n /\ n - 1 \in Nat /\ \A k \in 1 .. n - 1 : k \in 1 .. n /\ k # n
    BY <1>5
  <2>2. FreeRef(n, f, n) /\ table[0] = Number(f[n])
    BY <1>1, <1>5, <2>1 DEF FreeRefs
  <2>3. FirstFree = f[n]
    BY <2>2, Kinds DEF FirstFree
  <2>4. f[n] \in 1 .. MaxUds /\ f[n] # 0
    <3>1. f[n] \in 1 .. MaxUds
      BY <2>2 DEF FreeRef
    <3> QED
      BY <3>1
  <2>5. ref = f[n] /\ table' = [table EXCEPT ![0] = table[ref], ![ref] = Value(u)]
    BY <1>2, <2>3, <2>4
  <2>6. /\ DOMAIN table' = 0 .. MaxUds /\ table' = [r \in 0 .. MaxUds |-> table'[r]]
        /\ table'[ref] = Value(u) /\ table'[0] = table[ref]
        /\ \A r \in 1 .. MaxUds : r # ref => table'[r] = table[r]
    BY <1>3, <2>4, <2>5
  <2>7. \A p \in Objs : cache[p] # NoEntry => cache[p].ref # ref
    BY <2>2, <2>5 DEF FreeRef
  <2>8. table'[0] = IF n - 1 = 0 THEN Nil ELSE Number(f[n - 1])
    <3>1. table[ref] = IF n = 1 THEN Nil ELSE Number(f[n - 1])
      BY <2>2, <2>5 DEF FreeRef
    <3>2. n = 1 <=> n - 1 = 0
      OBVIOUS
    <3> QED
      BY <2>6, <3>1, <3>2
  <2>9. \A k \in 1 .. n - 1 : FreeRef(n - 1, f, k) /\ f[k] # ref
    <3>1. ASSUME NEW k \in 1 .. n - 1 PROVE FreeRef(n - 1, f, k) /\ f[k] # ref
      <4>1. FreeRef(n, f, k)
        BY <1>1, <2>1 DEF FreeRefs
      <4>2. f[k] # ref
        BY <2>1, <2>5, <4>1 DEF FreeRef
      <4>3. \A j \in 1 .. n - 1 : f[j] = f[k] => j = k
        BY <2>1, <4>1 DEF FreeRef
      <4> QED
        BY <4>1, <4>2, <4>3 DEF FreeRef
    <3> QED
      BY <3>1
  <2>10. RefTaken(u, o, ref, n - 1, f)
    BY <1>2, <2>6, <2>7, <2>8, <2>9 DEF RefTaken
  <2>11. ref \in 1 .. MaxUds
    BY <2>4, <2>5
  <2> QED
    BY <2>1, <2>10, <2>11
<1> QED
  BY <1>4, <1>5

LEMMA PushOwn ==
  ASSUME UdsInv, OwnInv, NEW o \in Objs, NEW info \in Types, PushSharedPtr(o, info)
  PROVE  OwnInv'
<1> SUFFICES ASSUME ~doubled' PROVE OwnInv'
  BY DEF OwnInv
<1>0. ~doubled
  BY DEF PushSharedPtr, RefCache
<1>1. CASE Cached(o)
  <2> DEFINE u == cache[o].ud
  <2>1. /\ uds' = [uds EXCEPT ![u].info = NewInfo(@, info)]
        /\ UNCHANGED <<cache, table, doubled>>
    BY <1>1 DEF PushSharedPtr
  <2> HIDE DEF u
  <2>2. \A v \in DOMAIN uds : uds'[v].phase = uds[v].phase
    BY <2>1, UdHasObject DEF UdsInv, Ud
  <2> QED
    BY <2>1, <2>2, OwnKept
<1>2. CASE ~Cached(o)
  <2> DEFINE u == Len(uds) + 1
             new == [obj |-> o, info |-> info, phase |-> "live"]
  <2>1. RefCache(u, o) /\ cache[o] = NoEntry /\ uds' = Append(uds, new)
    BY <1>2 DEF PushSharedPtr, Cached
  <2>2. /\ uds \in Seq(Ud) /\ u \notin DOMAIN uds /\ new.phase = "live" /\ u # 0
        /\ uds'[u] = new /\ \A v \in DOMAIN uds : uds'[v] = uds[v]
    BY <2>1 DEF UdsInv
  <2> HIDE DEF u, new
  <2>a. PICK ref \in 1 .. MaxUds, n \in Nat, f \in [Nat -> Nat] : RefTaken(u, o, ref, n, f)
    BY <1>0, <2>1, RefIsNew
  <2>3. /\ cache' = [cache EXCEPT ![o] = [ud |-> u, ref |-> ref]]
        /\ DOMAIN table' = 0 .. MaxUds /\ table' = [r \in 0 .. MaxUds |-> table'[r]]
        /\ table'[ref] = Value(u)
        /\ \A r \in 1 .. MaxUds : r # ref => table'[r] = table[r]
        /\ \A p \in Objs : cache[p] # NoEntry => cache[p].ref # ref
        /\ table'[0] = IF n = 0 THEN Nil ELSE Number(f[n])
        /\ \A k \in 1 .. n : FreeRef(n, f, k) /\ f[k] # ref
    BY <2>a DEF RefTaken
  <2>4. /\ cache'[o].ud = u /\ cache'[o].ref = ref
        /\ \A p \in Objs : p # o => cache'[p] = cache[p]
    BY <2>3 DEF UdsInv
  <2>5. ASSUME NEW p \in Objs PROVE EntryOwn(p)'
    <3>1. CASE p = o
      BY <2>2, <2>3, <2>4, <3>1 DEF EntryOwn
    <3>2. CASE p # o
      <4> SUFFICES ASSUME cache[p] # NoEntry PROVE EntryOwn(p)'
        BY <2>4, <3>2 DEF EntryOwn
      <4>1. EntryOwn(p) /\ cache[p].ud \in DOMAIN uds
        BY <1>0 DEF OwnInv, UdsInv, EntryInv
      <4>2. /\ cache[p].ref \in 1 .. MaxUds /\ cache[p].ref # ref
            /\ table'[cache[p].ref] = table[cache[p].ref]
        BY <2>3, <4>1 DEF EntryOwn
      <4> QED
        BY <2>2, <2>4, <3>2, <4>1, <4>2 DEF EntryOwn
    <3> QED
      BY <3>1, <3>2
  <2>6. FreeRefs(n, f)'
    <3>1. ASSUME NEW k \in 1 .. n PROVE FreeRef(n, f, k)'
      <4>1. FreeRef(n, f, k) /\ f[k] # ref
        BY <2>3
      <4>2. table'[f[k]] = table[f[k]]
        BY <2>3, <4>1 DEF FreeRef
      <4>3. \A p \in Objs : cache'[p] # NoEntry => cache'[p].ref # f[k]
        BY <2>4, <4>1 DEF FreeRef
      <4> QED
        BY <4>1, <4>2, <4>3 DEF FreeRef
    <3> QED
      BY <2>3, <3>1 DEF FreeRefs
  <2> QED
    BY <2>3, <2>5, <2>6 DEF OwnInv
<1> QED
  BY <1>1, <1>2

\* What the collector finds dead is cleared where it was.
LEMMA CollectOwn ==
  ASSUME UdsInv, OwnInv, NEW dead \in SUBSET Phase("live"), Collect(dead) PROVE OwnInv'
<1> SUFFICES ASSUME ~doubled' PROVE OwnInv'
  BY DEF OwnInv
<1>0. /\ ~doubled /\ UNCHANGED <<cache, doubled>>
      /\ table' = [r \in DOMAIN table |->
                     IF table[r] \in {Value(u) : u \in dead} THEN Nil ELSE table[r]]
      /\ uds' = [u \in DOMAIN uds |-> IF u \in dead THEN [uds[u] EXCEPT !.phase = "cleared"]
                                      ELSE uds[u]]
      /\ DOMAIN table = 0 .. MaxUds
  BY DEF Collect, OwnInv
<1>1. DOMAIN table' = 0 .. MaxUds /\ table' = [r \in 0 .. MaxUds |-> table'[r]]
  BY <1>0
<1>2. ASSUME NEW r \in 0 .. MaxUds
      PROVE  /\ (\A u \in dead : table[r] # Value(u)) => table'[r] = table[r]
             /\ (\E u \in dead : table[r] = Value(u)) => table'[r] = Nil
  BY <1>0
<1>3. PICK n \in Nat, f \in [Nat -> Nat] : FreeRefs(n, f)
  BY <1>0 DEF OwnInv
<1>4. \A r \in 0 .. MaxUds : (table[r] = Nil \/ \E x : table[r] = Number(x)) => table'[r] = table[r]
  BY <1>2, Kinds
<1>5. FreeRefs(n, f)'
  <2>1. table'[0] = table[0]
    <3>1. table[0] = Nil \/ \E x : table[0] = Number(x)
      BY <1>3 DEF FreeRefs
    <3>2. 0 \in 0 .. MaxUds
      BY BridgeAssumption
    <3> QED
      BY <1>4, <3>1, <3>2
  <2>2. ASSUME NEW k \in 1 .. n PROVE FreeRef(n, f, k)'
    <3>1. FreeRef(n, f, k) /\ f[k] \in 0 .. MaxUds
      BY <1>3 DEF FreeRefs, FreeRef
    <3>2. table[f[k]] = Nil \/ \E x : table[f[k]] = Number(x)
      BY <3>1 DEF FreeRef
    <3>3. table'[f[k]] = table[f[k]]
      BY <1>4, <3>1, <3>2
    <3> QED
      BY <1>0, <3>1, <3>3 DEF FreeRef
  <2> QED
    BY <1>3, <2>1, <2>2 DEF FreeRefs
<1>6. ASSUME NEW o \in Objs PROVE EntryOwn(o)'
  <2> SUFFICES ASSUME cache[o] # NoEntry PROVE EntryOwn(o)'
    BY <1>0 DEF EntryOwn
  <2> DEFINE u == cache[o].ud
             r == cache[o].ref
  <2>1. u \in DOMAIN uds /\ uds[u] \in Ud /\ EntryOwn(o) /\ r \in 0 .. MaxUds
    <3>1. u \in DOMAIN uds
      BY DEF UdsInv, EntryInv
    <3>2. EntryOwn(o)
      BY <1>0 DEF OwnInv
    <3>3. r \in 1 .. MaxUds
      BY <3>2 DEF EntryOwn
    <3>4. r \in 0 .. MaxUds
      BY <3>3
    <3> QED
      BY <3>1, <3>2, <3>4, UdHasObject DEF UdsInv
  <2>2. table[r] = IF uds[u].phase = "live" THEN Value(u) ELSE Nil
    BY <2>1 DEF EntryOwn
  <2> HIDE DEF u, r
  <2>3. CASE u \in dead
    <3>1. uds[u].phase = "live"
      BY <2>3 DEF Phase
    <3>2. table'[r] = Nil
      BY <1>2, <2>1, <2>2, <2>3, <3>1
    <3>3. uds'[u].phase = "cleared"
      BY <1>0, <2>1, <2>3 DEF Ud
    <3> QED
      BY <1>0, <2>1, <3>2, <3>3 DEF EntryOwn, u, r
  <2>4. CASE u \notin dead
    <3>1. uds'[u] = uds[u]
      BY <1>0, <2>1, <2>4
    <3>2. \A v \in dead : table[r] # Value(v)
      BY <2>2, <2>4, Kinds
    <3>3. table'[r] = table[r]
      BY <1>2, <2>1, <3>2
    <3> QED
      BY <1>0, <2>1, <3>1, <3>3 DEF EntryOwn, u, r
  <2> QED
    BY <2>3, <2>4
<1> QED
  BY <1>0, <1>1, <1>5, <1>6 DEF OwnInv

\* luaL_unref, for the entry of the user data that is finalised.
LEMMA GcOwn ==
  ASSUME UdsInv, OwnInv, NEW u \in DOMAIN uds, Gc(u) PROVE OwnInv'
<1> SUFFICES ASSUME ~doubled' PROVE OwnInv'
  BY DEF OwnInv
<1>a. PICK o \in Objs : o = uds[u].obj
  BY UdHasObject DEF UdsInv
<1>b. PICK ref : ref = cache[o].ref
  OBVIOUS
<1>0. /\ cache[o].ud = u /\ uds[u].phase = "cleared" /\ cache[o] # NoEntry
      /\ cache' = [cache EXCEPT ![o] = NoEntry]
      /\ table' = [table EXCEPT ![ref] = table[0], ![0] = Number(ref)]
      /\ uds' = [uds EXCEPT ![u].phase = "gone"]
      /\ ~doubled
  BY <1>a, <1>b DEF Gc, Erased, UnRefCache, UdsInv, UdInv, OwnInv
<1>1. /\ EntryOwn(o) /\ ref \in 1 .. MaxUds
      /\ DOMAIN table = 0 .. MaxUds /\ table = [r \in 0 .. MaxUds |-> table[r]]
  <2>1. EntryOwn(o)
    BY <1>0 DEF OwnInv
  <2>2. ref \in 1 .. MaxUds
    BY <1>0, <1>b, <2>1 DEF EntryOwn
  <2> QED
    BY <1>0, <2>1, <2>2 DEF OwnInv
<1>c. /\ ref \in 0 .. MaxUds /\ ref # 0 /\ 0 \in 0 .. MaxUds /\ ref \in Nat
      /\ \A r \in 1 .. MaxUds : r \in 0 .. MaxUds /\ r # 0
  <2>1. ref \in 1 .. MaxUds
    BY <1>1
  <2> QED
    BY <2>1, BridgeAssumption
<1>2. /\ DOMAIN table' = 0 .. MaxUds /\ table' = [r \in 0 .. MaxUds |-> table'[r]]
      /\ table'[0] = Number(ref) /\ table'[ref] = table[0]
      /\ \A r \in 1 .. MaxUds : r # ref => table'[r] = table[r]
  <2>1. /\ DOMAIN table' = 0 .. MaxUds /\ table' = [r \in 0 .. MaxUds |-> table'[r]]
        /\ table'[ref] = table[0] /\ table'[0] = Number(ref)
        /\ \A r \in 0 .. MaxUds : r # ref /\ r # 0 => table'[r] = table[r]
    BY <1>0, <1>1, <1>c, TwoPuts
  <2> QED
    BY <1>c, <2>1
<1>3. cache'[o] = NoEntry /\ \A p \in Objs : p # o => cache'[p] = cache[p]
  BY <1>0 DEF UdsInv
<1>4. ASSUME NEW p \in Objs PROVE EntryOwn(p)'
  <2>1. CASE p = o
    BY <1>3, <2>1 DEF EntryOwn
  <2>2. CASE p # o
    <3> SUFFICES ASSUME cache[p] # NoEntry PROVE EntryOwn(p)'
      BY <1>3, <2>2 DEF EntryOwn
    <3>1. EntryOwn(p) /\ EntryInv(p) /\ cache[p].ref \in 1 .. MaxUds
      BY <1>0 DEF OwnInv, EntryOwn, UdsInv
    <3>2. cache[p].ref # ref
      BY <1>0, <1>1, <1>b, <2>2 DEF EntryOwn
    <3>3. table'[cache[p].ref] = table[cache[p].ref]
      BY <1>2, <3>1, <3>2
    <3>4. cache[p].ud \in DOMAIN uds /\ cache[p].ud # u
      BY <1>a, <2>2, <3>1 DEF EntryInv
    <3>5. uds'[cache[p].ud] = uds[cache[p].ud]
      BY <1>0, <3>4 DEF UdsInv
    <3> QED
      BY <1>3, <2>2, <3>1, <3>3, <3>5 DEF EntryOwn
  <2> QED
    BY <2>1, <2>2
<1>5. PICK n \in Nat, f \in [Nat -> Nat] : FreeRefs(n, f)
  BY <1>0 DEF OwnInv
<1>6. \A k \in 1 .. n : FreeRef(n, f, k) /\ f[k] # ref
  BY <1>0, <1>5, <1>b DEF FreeRefs, FreeRef
<1>d. PICK g : g = [f EXCEPT ![n + 1] = ref]
  OBVIOUS
<1>7. /\ g \in [Nat -> Nat] /\ g[n + 1] = ref /\ n + 1 \in Nat /\ n + 1 # 0
      /\ \A k \in 1 .. n : g[k] = f[k] /\ k # n + 1
      /\ \A k \in 1 .. n + 1 : k \in 1 .. n \/ k = n + 1
  BY <1>c, <1>d
<1>8. FreeRefs(n + 1, g)'
  <2>1. ASSUME NEW k \in 1 .. n PROVE FreeRef(n + 1, g, k)'
    <3>1. FreeRef(n, f, k) /\ f[k] # ref /\ g[k] = f[k]
      BY <1>6, <1>7
    <3>2. table'[f[k]] = table[f[k]]
      BY <1>2, <3>1 DEF FreeRef
    <3>3. k = 1 \/ (k # 1 /\ k - 1 \in 1 .. n /\ g[k - 1] = f[k - 1])
      BY <1>7
    <3>4. table'[g[k]] = IF k = 1 THEN Nil ELSE Number(g[k - 1])
      BY <3>1, <3>2, <3>3 DEF FreeRef
    <3>5. \A j \in 1 .. n + 1 : g[j] = g[k] => j = k
      BY <1>7, <3>1 DEF FreeRef
    <3>6. \A p \in Objs : cache'[p] # NoEntry => cache'[p].ref # g[k]
      BY <1>3, <3>1 DEF FreeRef
    <3> QED
      BY <3>1, <3>4, <3>5, <3>6 DEF FreeRef
  <2>2. FreeRef(n + 1, g, n + 1)'
    <3>1. \A j \in 1 .. n + 1 : g[j] = g[n + 1] => j = n + 1
      BY <1>6, <1>7
    <3>2. \A p \in Objs : cache'[p] # NoEntry => cache'[p].ref # ref
      BY <1>0, <1>1, <1>3, <1>b DEF EntryOwn
    <3>3. table[0] = IF n = 0 THEN Nil ELSE Number(f[n])
      BY <1>5 DEF FreeRefs
    <3>4. n = 0 \/ (n # 0 /\ n \in 1 .. n /\ g[n] = f[n])
      BY <1>7
    <3>5. (n + 1 = 1 <=> n = 0) /\ n + 1 - 1 = n
      OBVIOUS
    <3>6. table'[g[n + 1]] = IF n + 1 = 1 THEN Nil ELSE Number(g[n + 1 - 1])
      BY <1>2, <1>7, <3>3, <3>4, <3>5
    <3>7. g[n + 1] \in 1 .. MaxUds /\ \A p \in Objs : cache'[p] # NoEntry => cache'[p].ref # g[n + 1]
      BY <1>1, <1>7, <3>2
    <3> QED
      BY <3>1, <3>6, <3>7 DEF FreeRef
  <2> QED
    BY <1>2, <1>7, <2>1, <2>2 DEF FreeRefs
<1> QED
  BY <1>0, <1>2, <1>4, <1>7, <1>8 DEF OwnInv

LEMMA StepOwn == UdsInv /\ OwnInv /\ [Next]_vars => OwnInv'
<1> SUFFICES ASSUME UdsInv, OwnInv, [Next]_vars PROVE OwnInv'
  OBVIOUS
<1>1. ASSUME UNCHANGED cacheVars PROVE OwnInv'
  BY <1>1, OwnKept DEF cacheVars
<1>2. ASSUME NEW o \in Objs, NEW type \in Types, PushSharedPtr(o, type) PROVE OwnInv'
  BY <1>2, PushOwn
<1>3. ASSUME NEW u \in DOMAIN uds, NEW dst \in Types, CastUserData(u, dst) PROVE OwnInv'
  <2>1. uds' = [uds EXCEPT ![u].info = dst] /\ UNCHANGED <<cache, table, doubled>>
    BY <1>3 DEF CastUserData
  <2>2. \A v \in DOMAIN uds : uds'[v].phase = uds[v].phase
    BY <2>1, UdHasObject DEF UdsInv, Ud
  <2> QED
    BY <2>1, <2>2, OwnKept
<1>4. ASSUME NEW dead \in SUBSET Phase("live"), Collect(dead) PROVE OwnInv'
  BY <1>4, CollectOwn
<1>5. ASSUME NEW u \in DOMAIN uds, Gc(u) PROVE OwnInv'
  BY <1>5, GcOwn
<1>6. CASE UNCHANGED vars
  BY <1>1, <1>6 DEF vars, cacheVars
<1>7. CASE NextProgram
  BY <1>1, <1>2, <1>7 DEF NextProgram, Release, LoadSharedPtr, Create, Copy,
                        PushPointer
<1>8. CASE NextCast
  BY <1>1, <1>3, <1>8 DEF NextCast, CastLight
<1>9. CASE NextCollect
  BY <1>4, <1>5, <1>9 DEF NextCollect
<1> QED
  BY <1>6, <1>7, <1>8, <1>9 DEF Next

\* As long as luaL_ref gives out no reference that an entry still has, what Lua
\* finds by an entry is the object's own user data, or nil from its collection
\* to its __gc (RefCache, UnRefCache, Gc).
THEOREM PushAnswered == Spec => []PushAnswersOwn
<1>1. OwnInv => PushAnswersOwn
  BY DEF OwnInv, EntryOwn, PushAnswersOwn
<1>2. OwnersInv /\ OwnInv /\ [Next]_vars => OwnInv'
  BY StepOwn DEF OwnersInv
<1> QED
  BY <1>1, <1>2, InitOwn, Owners, PTL DEF Spec
=============================================================================
