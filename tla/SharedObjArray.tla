--------------------------- MODULE SharedObjArray ---------------------------
(***************************************************************************)
(* The array of reference counted objects of utility/src/                  *)
(* shared_obj_array.h.  A slot's int is minus the reference count while    *)
(* the slot holds an object and the index of the next free slot otherwise. *)
(* Pointers (SharedObjPtr) are the clients' variables and a member of each *)
(* object, so that destroying an object may destroy others: `dying' is the *)
(* stack of destructors in progress, and `todo' the rest of the assignment *)
(* that started them.                                                      *)
(***************************************************************************)
EXTENDS Integers, Sequences, FiniteSets

CONSTANTS Vars,      \* the clients' pointers
          Inc,       \* inc_, by how much the array grows
          MaxSlots   \* bound on the size of the array

ASSUME SharedAssumption == /\ Inc \in Nat \ {0} /\ MaxSlots \in Nat
                           /\ IsFiniteSet(Vars) /\ Vars \cap Int = {}

kInvalidIndex == -1
Slots   == 0 .. MaxSlots - 1
Holders == Vars \cup Slots   \* slot i stands for the pointer inside its object
Idle    == [op |-> "none"]

VARIABLES
  size,    \* objs_.size()
  word,    \* ref_count or next_index of each slot
  free,    \* free_index_
  ptr,     \* SharedObjPtr::index_ of each holder
  live,    \* the slots in which an object is constructed
  dying,   \* destructors in progress, the innermost first: [slot, member]
  todo     \* what an assignment has still to do after UnRef

vars == <<size, word, free, ptr, live, dying, todo>>

Init == /\ size = 0
        /\ word = [i \in Slots |-> 0]
        /\ free = kInvalidIndex
        /\ ptr = [h \in Holders |-> kInvalidIndex]
        /\ live = {}
        /\ dying = <<>>
        /\ todo = Idle

\* A client runs code of its own: no call is in progress.
AtRest == dying = <<>> /\ todo = Idle

\* The objects a client can reach, through its variables and their members: the
\* least set that holds what variables point to and is closed under members.
Closed(P) == /\ \A v \in Vars : ptr[v] \in Slots => ptr[v] \in P
             /\ \A i \in P : ptr[i] \in Slots => ptr[i] \in P

Reachable == {i \in Slots : \A P \in SUBSET Slots : Closed(P) => i \in P}

\* The pointers a client can name.
Usable(h) == h \in Vars \/ h \in Reachable

AddRefed(w, i) == IF i = kInvalidIndex THEN w ELSE [w EXCEPT ![i] = @ - 1]

\* UnRef(i): the last reference starts the destructor of the object.
UnRef(i) == IF i = kInvalidIndex
            THEN UNCHANGED <<word, dying>>
            ELSE /\ word' = [word EXCEPT ![i] = @ + 1]
                 /\ dying' = IF word[i] + 1 = 0
                             THEN <<[slot |-> i, member |-> TRUE]>> \o dying
                             ELSE dying
-----------------------------------------------------------------------------
\* When the vector moves to larger storage its objects are copied one after the
\* other.  The copy of an object counts the reference its member holds, in the
\* old storage; of an object that is copied later, the new storage gets the
\* larger count.  The originals are never destroyed.
Moved(i) == word[i] - Cardinality({k \in 0 .. i - 1 : ptr[k] = i})

\* Mutant: the new slots are not ended.
GrownOpen == [i \in Slots |-> IF i \in size .. size + Inc - 1 THEN i + 1
                              ELSE IF i < size THEN Moved(i) ELSE word[i]]

\* The words after AllocObj found no free slot and added Inc of them.
Grown == [i \in Slots |-> IF i \in size .. size + Inc - 2 THEN i + 1
                          ELSE IF i = size + Inc - 1 THEN kInvalidIndex
                          ELSE IF i < size THEN Moved(i) ELSE word[i]]

\* AllocObj: the pointer it returns is moved to v afterwards.
Alloc(v) ==
  /\ AtRest
  /\ free = kInvalidIndex => size + Inc <= MaxSlots
  /\ LET all == IF free = kInvalidIndex THEN Grown ELSE word
         i   == IF free = kInvalidIndex THEN size ELSE free
     IN  /\ size' = IF free = kInvalidIndex THEN size + Inc ELSE size
         /\ free' = all[i]
         /\ word' = [all EXCEPT ![i] = -1]
         /\ live' = live \cup {i}
         /\ ptr' = [ptr EXCEPT ![i] = kInvalidIndex]
         /\ todo' = [op |-> "unref", dst |-> v, then |-> "take", src |-> i]
  /\ UNCHANGED dying

\* h = g.  The client keeps another reference to what it copies: g is a variable
\* of its own, and not h itself.
Copy(h, g) == /\ AtRest /\ Usable(h) /\ g \in Vars /\ g # h
              /\ todo' = [op |-> "unref", dst |-> h, then |-> "copy", src |-> g]
              /\ UNCHANGED <<size, word, free, ptr, live, dying>>

\* h = std::move(g)
Move(h, g) == /\ AtRest /\ Usable(h) /\ g \in Vars
              /\ todo' = [op |-> "unref", dst |-> h, then |-> "move", src |-> g]
              /\ UNCHANGED <<size, word, free, ptr, live, dying>>

\* Release, or the end of a variable's scope.
Release(h) == /\ AtRest /\ Usable(h)
              /\ todo' = [op |-> "unref", dst |-> h, then |-> "reset", src |-> h]
              /\ UNCHANGED <<size, word, free, ptr, live, dying>>

\* Every assignment first gives up what the pointer refers to ...
GiveUp == /\ todo.op = "unref"
          /\ UnRef(ptr[todo.dst])
          /\ todo' = [todo EXCEPT !.op = "assign"]
          /\ UNCHANGED <<size, free, ptr, live>>

\* Mutant: copying does not count the new reference.
AssignUncounted ==
  /\ todo.op = "assign" /\ dying = <<>>
  /\ ptr' = [ptr EXCEPT ![todo.dst] = IF todo.then = "take" THEN todo.src
                                      ELSE IF todo.then = "reset" THEN kInvalidIndex
                                      ELSE ptr[todo.src]]
  /\ todo' = Idle
  /\ UNCHANGED <<size, word, free, live, dying>>

\* Mutant: moving leaves the source as it was.
AssignMoveKeeps ==
  /\ todo.op = "assign" /\ dying = <<>>
  /\ LET i == IF todo.then = "take" THEN todo.src
              ELSE IF todo.then = "reset" THEN kInvalidIndex ELSE ptr[todo.src]
     IN  /\ ptr' = [ptr EXCEPT ![todo.dst] = i]
         /\ word' = IF todo.then = "copy" THEN AddRefed(word, i) ELSE word
  /\ todo' = Idle
  /\ UNCHANGED <<size, free, live, dying>>

\* ... and when all destructors have returned takes the new index.
Assign ==
  /\ todo.op = "assign" /\ dying = <<>>
  /\ \/ /\ todo.then = "take"
        /\ ptr' = [ptr EXCEPT ![todo.dst] = todo.src]
        /\ UNCHANGED word
     \/ /\ todo.then = "copy"
        /\ ptr' = [ptr EXCEPT ![todo.dst] = ptr[todo.src]]
        /\ word' = AddRefed(word, ptr[todo.src])
     \/ /\ todo.then = "move"
        /\ ptr' = [ptr EXCEPT ![todo.dst] = ptr[todo.src], ![todo.src] = kInvalidIndex]
        /\ UNCHANGED word
     \/ /\ todo.then = "reset"
        /\ ptr' = [ptr EXCEPT ![todo.dst] = kInvalidIndex]
        /\ UNCHANGED word
  /\ todo' = Idle
  /\ UNCHANGED <<size, free, live, dying>>

\* The destructor of the innermost dying object destroys its member ...
DestroyMember == /\ dying # <<>> /\ dying[1].member
                 /\ LET i == dying[1].slot
                        outer == <<[slot |-> i, member |-> FALSE]>> \o Tail(dying)
                        j == ptr[i]
                    IN  IF j = kInvalidIndex
                        THEN dying' = outer /\ UNCHANGED word
                        ELSE /\ word' = [word EXCEPT ![j] = @ + 1]
                             /\ dying' = IF word[j] + 1 = 0
                                         THEN <<[slot |-> j, member |-> TRUE]>> \o outer
                                         ELSE outer
                 /\ UNCHANGED <<size, free, ptr, live, todo>>

\* Mutant: the freed slot becomes the whole free list.
FreeSlotAlone == /\ dying # <<>> /\ ~dying[1].member
                 /\ LET i == dying[1].slot
                    IN  /\ live' = live \ {i}
                        /\ word' = [word EXCEPT ![i] = kInvalidIndex]
                        /\ free' = i
                 /\ dying' = Tail(dying)
                 /\ UNCHANGED <<size, ptr, todo>>

\* ... and returns to UnRef, which makes the slot the first free one.
FreeSlot == /\ dying # <<>> /\ ~dying[1].member
            /\ LET i == dying[1].slot
               IN  /\ live' = live \ {i}
                   /\ word' = [word EXCEPT ![i] = free]
                   /\ free' = i
            /\ dying' = Tail(dying)
            /\ UNCHANGED <<size, ptr, todo>>

Next == \/ \E v \in Vars : Alloc(v)
        \/ \E h \in Holders : Release(h) \/ \E g \in Vars : Copy(h, g) \/ Move(h, g)
        \/ GiveUp \/ Assign \/ DestroyMember \/ FreeSlot

Spec == Init /\ [][Next]_vars
-----------------------------------------------------------------------------
Indexes == {kInvalidIndex} \cup 0 .. size - 1

TypeOK == /\ size \in 0 .. MaxSlots
          /\ word \in [Slots -> Int]
          /\ free \in Indexes
          /\ ptr \in [Holders -> Indexes]
          /\ live \subseteq 0 .. size - 1
          /\ dying \in Seq([slot : Slots, member : BOOLEAN])
          /\ todo = Idle \/ todo \in [op : {"unref", "assign"}, dst : Holders, src : Holders,
                                      then : {"take", "copy", "move", "reset"}]

\* The pointers that have not yet given up their reference: the variables, the
\* members of living objects, and the one AllocObj returned.  A destination has
\* given it up once its UnRef was called, a dying object's once it is destroyed.
Counting(h) == /\ h \in Vars \cup live
               /\ ~(todo.op = "assign" /\ todo.dst = h)
               /\ ~\E k \in 1 .. Len(dying) : dying[k].slot = h /\ ~dying[k].member

Pending(i) == IF todo # Idle /\ todo.then = "take" /\ todo.src = i THEN 1 ELSE 0

Pointing(i) == Cardinality({h \in Holders : Counting(h) /\ ptr[h] = i}) + Pending(i)

\* Every object has at least the count of the pointers to it, while destructors
\* run too, and has its count to itself: it never dies before its last pointer.
CountsSuffice == \A i \in live : -word[i] >= Pointing(i)

\* "Reference count": it is the number of pointers, and an object dies with the
\* last of them.
CountsAreExact == \A i \in live : -word[i] = Pointing(i)

\* A valid pointer refers to a slot in which an object is constructed, and one
\* whose destructor has not begun.
NoneDangles ==
  \A h \in Holders : Counting(h) /\ ptr[h] # kInvalidIndex =>
     ptr[h] \in live /\ ~\E k \in 1 .. Len(dying) : dying[k].slot = ptr[h]

\* The free list: the slots met from free_index_ on.
Walk == LET walk[n \in 0 .. MaxSlots] ==
              IF n = 0 THEN {free}
              ELSE walk[n - 1] \cup {word[i] : i \in walk[n - 1] \cap Slots}
        IN  walk[MaxSlots]

\* The free list ends, and holds the slots without an object and no others.
FreeListIsExact == /\ Walk \ {kInvalidIndex} = (0 .. size - 1) \ live
                   /\ kInvalidIndex \in Walk

\* "ref_count < 0: the array element holds an object": what IsValid, and with it
\* Traverse and the destructor of the array, take for an object is one.
ValidHoldsObject == \A i \in 0 .. size - 1 : word[i] < 0 => i \in live
=============================================================================
