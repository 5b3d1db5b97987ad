---------------------------- MODULE ObjectBridge ----------------------------
(***************************************************************************)
(* How xlua shows C++ objects to Lua, in the default build: a plain        *)
(* pointer becomes light user data that names a slot of the global object  *)
(* array and the slot's serial number, a shared pointer becomes full user  *)
(* data that owns the object and is found again through a cache and a      *)
(* table with weak values.                                                 *)
(*                                                                         *)
(* Lua collects a user data in two steps (lgc.c): its entry of the weak    *)
(* table is cleared when the collector finds it dead, its __gc runs later, *)
(* newest first, and the program runs in between.  A collection inside     *)
(* lua_newuserdata is one right before the push: the cache was asked       *)
(* already, but nothing it says of the object that is pushed changes.      *)
(*                                                                         *)
(* A copy of an object is an object with an index of its own, but the copy *)
(* constructor of xLuaIndex leaves that index unwritten (xlua_def.h:135):  *)
(* what the memory held before decides, and Garbage says what it can hold. *)
(*                                                                         *)
(* Plain pointers go through the object array if IsInternal picks out      *)
(* their class.  As written it never does (traits.h:28 compares the type   *)
(* that xLuaGetTypeInfo returns with xLuaIndex), so this half is what      *)
(* XLUA_DECLARE_CLASS describes and global.cpp implements.                 *)
(***************************************************************************)
EXTENDS Integers, Sequences, FiniteSets, FiniteSetsExt, SequencesExt

CONSTANTS
  Objs,         \* addresses of exported objects
  Increment,    \* XLUA_CONTAINER_INCREMENTAL, how the array grows
  MaxObjects,   \* bound on the objects ever created
  MaxUds,       \* bound on the user data ever created
  Garbage       \* what the index of a copy can be

NoObj == "none"

ASSUME BridgeAssumption ==
  /\ NoObj \notin Objs
  /\ Increment \in Nat \ {0}
  /\ MaxObjects \in Nat
  /\ MaxUds \in Nat
  /\ Garbage \subseteq Int

VARIABLES
  objs,      \* the objects: type, owner in C++, index, and which one it is
  count,     \* objects created so far
  array,     \* obj_array_, from slot 0
  free,      \* free_index_, its back last
  gener,     \* serial_num_gener_
  lights,    \* the light user data Lua has
  uds,       \* the full user data ever created
  cache,     \* shared_ptrs_
  table,     \* the user data table, by reference; 0 heads its free list
  doubled    \* luaL_ref gave out a reference that an entry still has

vars == <<objs, count, array, free, gener, lights, uds, cache, table, doubled>>

indexVars == <<array, free, gener>>
cacheVars == <<uds, cache, table, doubled>>

\* One base class with two that derive from it.
Types == {"base", "left", "right"}
IsBaseOf(base, info) == base = "base" \/ base = info

NoSlot == -1
NoEntry == [ud |-> 0, ref |-> 0]
Nil == <<"nil">>
Number(n) == <<"number", n>>
Value(u) == <<"ud", u>>

Live(o) == objs[o].id # 0
Phase(phase) == {u \in DOMAIN uds : uds[u].phase = phase}
Slot(i) == array[i + 1]

Dead == [id |-> 0, type |-> "base", held |-> FALSE, index |-> NoSlot]

Init ==
  /\ objs = [o \in Objs |-> Dead]
  /\ count = 0
  /\ array = <<>>
  /\ free = <<>>
  /\ gener = 0
  /\ lights = {}
  /\ uds = <<>>
  /\ cache = [o \in Objs |-> NoEntry]
  /\ table = [r \in 0 .. MaxUds |-> Nil]
  /\ doubled = FALSE

-----------------------------------------------------------------------------
(* The object array.                                                       *)

EmptySlot == [serial |-> 0, obj |-> NoObj, info |-> "base"]

\* Mutant: the last pointer that was pushed decides.
NewInfoLast(old, info) == info

\* The type on record changes only to one that says more (UpdateCahce too).
NewInfo(old, info) == IF IsBaseOf(info, old) THEN old ELSE info

\* A slot is told of its object again: the pointer changes with the type.
Renewed(slot, o, info) ==
  IF slot.obj # NoObj /\ NewInfo(slot.info, info) = slot.info THEN slot
  ELSE [slot EXCEPT !.obj = o, !.info = info]

\* A full array grows, and the lowest of its new slots is the first taken.
Grown ==
  IF free # <<>> THEN [array |-> array, free |-> free]
  ELSE [array |-> array \o [i \in 1 .. Increment |-> EmptySlot],
        free |-> [i \in 1 .. Increment |-> Len(array) + Increment - i]]

AllocObjIndex(o, info) ==
  IF objs[o].index # NoSlot
  THEN /\ array' = [array EXCEPT ![objs[o].index + 1] = Renewed(@, o, info)]
       /\ lights' = lights \cup
            {[index |-> objs[o].index, serial |-> Slot(objs[o].index).serial,
              obj |-> o, id |-> objs[o].id]}
       /\ UNCHANGED <<objs, free, gener>>
  ELSE LET g == Grown
           i == Last(g.free)
       IN  /\ gener' = gener + 1
           /\ array' = [g.array EXCEPT ![i + 1] =
                          [serial |-> gener', obj |-> o, info |-> info]]
           /\ free' = Front(g.free)
           /\ objs' = [objs EXCEPT ![o].index = i]
           /\ lights' = lights \cup
                {[index |-> i, serial |-> gener', obj |-> o,
                  id |-> objs[o].id]}

\* The last owner of o is gone: its destructor gives its index back.
Destroy(o) ==
  /\ objs' = [objs EXCEPT ![o] = Dead]
  /\ IF objs[o].index = NoSlot THEN UNCHANGED <<array, free>>
     ELSE /\ array' = [array EXCEPT ![objs[o].index + 1] = EmptySlot]
          /\ free' = Append(free, objs[o].index)

\* Mutant: the serial number is not compared.
ResolveByIndex(l) ==
  IF l.index + 1 \in DOMAIN array THEN Slot(l.index).obj ELSE NoObj

\* GetLightUserDataPtr: the object behind light user data, or none.
Resolve(l) ==
  IF l.index + 1 \in DOMAIN array /\ Slot(l.index).serial = l.serial
  THEN Slot(l.index).obj ELSE NoObj

-----------------------------------------------------------------------------
(* The program: objects come and go, and are pushed by either pointer.     *)

Create(o, type) ==
  /\ ~Live(o)
  /\ count < MaxObjects
  /\ count' = count + 1
  /\ objs' = [objs EXCEPT ![o] = [id |-> count', type |-> type, held |-> TRUE,
                                  index |-> NoSlot]]
  /\ UNCHANGED <<indexVars, lights, cacheVars>>

\* o is made as a copy of p, or of the part of p that is a type.  An index
\* outside the array is undefined behaviour and not followed.
Copy(o, p, type) ==
  /\ ~Live(o)
  /\ objs[p].held
  /\ IsBaseOf(type, objs[p].type)
  /\ count < MaxObjects
  /\ count' = count + 1
  /\ \E index \in Garbage :
       /\ index = NoSlot \/ index + 1 \in DOMAIN array
       /\ objs' = [objs EXCEPT ![o] = [id |-> count', type |-> type,
                                       held |-> TRUE, index |-> index]]
  /\ UNCHANGED <<indexVars, lights, cacheVars>>

Owned(o) == \E u \in DOMAIN uds : uds[u].obj = o /\ uds[u].phase # "gone"

Release(o) ==
  /\ objs[o].held
  /\ IF Owned(o)
     THEN /\ objs' = [objs EXCEPT ![o].held = FALSE]
          /\ UNCHANGED <<array, free>>
     ELSE Destroy(o)
  /\ UNCHANGED <<count, gener, lights, cacheVars>>

PushPointer(o, info) ==
  /\ objs[o].held
  /\ IsBaseOf(info, objs[o].type)
  /\ AllocObjIndex(o, info)
  /\ UNCHANGED <<count, cacheVars>>

\* Load: the program shares the object again (Lua cannot have lost it yet).
LoadSharedPtr(u) ==
  /\ uds[u].phase = "live"
  /\ objs' = [objs EXCEPT ![uds[u].obj].held = TRUE]
  /\ UNCHANGED <<count, indexVars, lights, cacheVars>>

\* Where the table could end: an entry with none after it (lua_rawlen).
Borders == {r \in 0 .. MaxUds - 1 : /\ r = 0 \/ table[r] # Nil
                                    /\ table[r + 1] = Nil}

FirstFree == IF table[0] # Nil /\ table[0][1] = "number" THEN table[0][2] ELSE 0

\* luaL_ref: a reference that was given back, or one past the end.
RefCache(u, o) ==
  \E ref \in IF FirstFree # 0 THEN {FirstFree} ELSE {b + 1 : b \in Borders} :
    /\ cache' = [cache EXCEPT ![o] = [ud |-> u, ref |-> ref]]
    /\ table' = [table EXCEPT ![0] = IF FirstFree # 0 THEN table[ref] ELSE @,
                              ![ref] = Value(u)]
    /\ doubled' = (doubled \/ \E x \in Objs : /\ cache[x] # NoEntry
                                              /\ cache[x].ref = ref)

\* Mutant: an entry whose user data the collector has cleared is made anew.
CachedAndThere(o) == cache[o] # NoEntry /\ table[cache[o].ref] # Nil
Cached(o) == cache[o] # NoEntry

PushSharedPtr(o, info) ==
  /\ objs[o].held
  /\ IsBaseOf(info, objs[o].type)
  /\ IF Cached(o)
     THEN /\ uds' = [uds EXCEPT ![cache[o].ud].info = NewInfo(@, info)]
          /\ UNCHANGED <<cache, table, doubled>>
     ELSE /\ Len(uds) < MaxUds
          /\ uds' = Append(uds, [obj |-> o, info |-> info, phase |-> "live"])
          /\ RefCache(Len(uds) + 1, o)
  /\ UNCHANGED <<objs, count, indexVars, lights>>

-----------------------------------------------------------------------------
(* Lua: xlua.Cast, and the collector.                                      *)

\* Mutant: the object's own type is not asked.
CastableUnasked(o, info, dst) == IsBaseOf(info, dst)

\* From a base class to one that derives from it, if that is what the
\* object is (to_derived, a dynamic_cast).
Castable(o, info, dst) == IsBaseOf(info, dst) /\ IsBaseOf(dst, objs[o].type)

\* What xlua.Cast answers is left out: here it falls out of its case and
\* says false although it has changed the type (xlua_state.cpp:148-151).
CastLight(l, dst) ==
  /\ Resolve(l) # NoObj
  /\ ~IsBaseOf(dst, Slot(l.index).info)
  /\ Castable(Resolve(l), Slot(l.index).info, dst)
  /\ array' = [array EXCEPT ![l.index + 1].info = dst]
  /\ UNCHANGED <<objs, count, free, gener, lights, cacheVars>>

CastUserData(u, dst) ==
  /\ uds[u].phase = "live"
  /\ ~IsBaseOf(dst, uds[u].info)
  /\ Castable(uds[u].obj, uds[u].info, dst)
  /\ uds' = [uds EXCEPT ![u].info = dst]
  /\ UNCHANGED <<objs, count, indexVars, lights, cache, table, doubled>>

\* The collector finds some of the user data dead.  It does not start again
\* before the last of them has been finalised.
Collect(dead) ==
  /\ Phase("cleared") = {}
  /\ dead # {}
  /\ uds' = [u \in DOMAIN uds |->
               IF u \in dead THEN [uds[u] EXCEPT !.phase = "cleared"]
               ELSE uds[u]]
  /\ table' = [r \in DOMAIN table |->
                 IF table[r] \in {Value(u) : u \in dead} THEN Nil ELSE table[r]]
  /\ UNCHANGED <<objs, count, indexVars, lights, cache, doubled>>

\* luaL_unref: the reference heads the free list.
UnRefCache(ref) ==
  table' = [table EXCEPT ![ref] = table[0], ![0] = Number(ref)]

\* Mutant: the entry stays in the cache.
ErasedNot(o) == cache' = cache
Erased(o) == cache' = [cache EXCEPT ![o] = NoEntry]

\* Gc, the __gc of user data u, and the end of the pointer u holds.
Gc(u) ==
  LET o == uds[u].obj
  IN  /\ uds[u].phase = "cleared"
      /\ \A v \in Phase("cleared") : v <= u
      /\ cache[o] # NoEntry
      /\ UnRefCache(cache[o].ref)
      /\ Erased(o)
      /\ uds' = [uds EXCEPT ![u].phase = "gone"]
      /\ IF objs[o].held THEN UNCHANGED <<objs, array, free>> ELSE Destroy(o)
      /\ UNCHANGED <<count, gener, lights, doubled>>

NextProgram ==
  \E o \in Objs :
    \/ Release(o)
    \/ \E u \in DOMAIN uds : LoadSharedPtr(u)
    \/ \E type \in Types :
         \/ Create(o, type)
         \/ \E p \in Objs : Copy(o, p, type)
         \/ PushPointer(o, type)
         \/ PushSharedPtr(o, type)
NextCast ==
  \E dst \in Types :
    \/ \E l \in lights : CastLight(l, dst)
    \/ \E u \in DOMAIN uds : CastUserData(u, dst)
NextCollect ==
  \/ \E dead \in SUBSET Phase("live") : Collect(dead)
  \/ \E u \in DOMAIN uds : Gc(u)

Next == NextProgram \/ NextCast \/ NextCollect

Spec == Init /\ [][Next]_vars

-----------------------------------------------------------------------------
\* Light user data leads to the object it was made for as long as that one
\* lives, and to nothing from then on, whatever took its slot or its
\* address (AllocObjIndex, FreeObjIndex, the serial number test).
LightIsExact ==
  \A l \in lights :
    Resolve(l) = IF objs[l.obj].id = l.id THEN l.obj ELSE NoObj

\* The type xlua has on record for an object, by either way, is one it has:
\* member functions are called on what they are made for.
InfoIsTrue ==
  /\ \A i \in DOMAIN array :
       array[i].obj # NoObj => IsBaseOf(array[i].info, objs[array[i].obj].type)
  /\ \A u \in DOMAIN uds :
       uds[u].phase # "gone" => IsBaseOf(uds[u].info, objs[uds[u].obj].type)

\* A pointer to the base class that is pushed again, after Lua has learnt
\* that the object is of a derived one, does not make it forget.
InfoOnlyRefines ==
  [][/\ \A i \in DOMAIN array :
          array'[i].serial = array[i].serial =>
            IsBaseOf(array[i].info, array'[i].info)
     /\ \A u \in DOMAIN uds : IsBaseOf(uds[u].info, uds'[u].info)]_vars

\* Gc finds the entry of the user data it is called for: it does not ask
\* whether find found one, and it erases what it finds.
GcFindsItsEntry ==
  \A u \in DOMAIN uds :
    uds[u].phase # "gone" => cache[uds[u].obj].ud = u

\* What Lua finds by an entry of the cache is the object's own user data, or
\* nil from the collection of that one to its __gc: never another's, as long
\* as luaL_ref has given out no reference that an entry still has (RefCache,
\* UnRefCache, Gc).
PushAnswersOwn ==
  ~doubled =>
    \A o \in Objs :
      cache[o] # NoEntry =>
        table[cache[o].ref] = IF uds[cache[o].ud].phase = "live"
                              THEN Value(cache[o].ud) ELSE Nil

\* Pushing a shared pointer answers user data of the object, whatever the
\* collector is doing (PushSharedPtr, PushUd).  It does not always.
PushFinds ==
  [][\A o \in Objs, info \in Types :
       PushSharedPtr(o, info) =>
         table'[cache'[o].ref] = Value(cache'[o].ud)]_vars
=============================================================================
