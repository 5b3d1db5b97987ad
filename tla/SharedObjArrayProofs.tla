------------------------ MODULE SharedObjArrayProofs ------------------------
(***************************************************************************)
(* Reference counts never fall short, no pointer outlives its object and   *)
(* the free list has every slot without an object, for any number of       *)
(* variables and slots and any growth.                                     *)
(***************************************************************************)
EXTENDS SharedObjArray, SequenceTheorems, FiniteSetTheorems, WellFoundedInduction, TLAPS

Todos == [op : {"unref", "assign"}, dst : Holders, src : Holders,
          then : {"take", "copy", "move", "reset"}]

Unwinding == [slot : Slots, member : BOOLEAN]

Typed == /\ size \in 0 .. MaxSlots
         /\ word \in [Slots -> Int]
         /\ free \in Slots \cup {kInvalidIndex}
         /\ ptr \in [Holders -> Slots \cup {kInvalidIndex}]
         /\ live \subseteq 0 .. size - 1
         /\ dying \in Seq(Unwinding)
         /\ todo = Idle \/ todo \in Todos

\* The free list: f lists the slots of S, each once, from the first on; their
\* words w lead from one to the next.
Linked(n, f, w, first, S) ==
  /\ n \in Nat /\ f \in [1 .. n -> S]
  /\ \A i \in S : \E k \in 1 .. n : f[k] = i
  /\ \A k, l \in 1 .. n : f[k] = f[l] => k = l
  /\ first = IF n = 0 THEN kInvalidIndex ELSE f[1]
  /\ \A k \in 1 .. n : w[f[k]] = IF k = n THEN kInvalidIndex ELSE f[k + 1]

FreeSlots == (0 .. size - 1) \ live
FreeInv   == \E n, f : Linked(n, f, word, free, FreeSlots)

Dying(i) == \E k \in 1 .. Len(dying) : dying[k].slot = i

\* An object has references left until its destructor begins, which happens once.
DyingInv ==
  /\ \A k \in 1 .. Len(dying) : dying[k].slot \in live
  /\ \A i \in live : word[i] <= 0 /\ (word[i] = 0 <=> Dying(i))
  /\ \A k, l \in 1 .. Len(dying) : dying[k].slot = dying[l].slot => k = l

\* What points to object i.
PointersTo(i) == {h \in Holders : Counting(h) /\ ptr[h] = i}

CountInv == /\ \A i \in live : -word[i] >= Pointing(i)
            /\ \A h \in Holders : Counting(h) /\ ptr[h] # kInvalidIndex => ptr[h] \in live

\* The objects of P stay while the pointer h, in one of them, is assigned to: each
\* has a pointer to it other than h, in a variable or in another of them.
Anchors(P, h) == /\ h \in P /\ P \subseteq live
                 /\ \A i \in P : /\ word[i] # 0
                                 /\ \E g \in Vars \cup (P \ {h}) : ptr[g] = i

TodoInv ==
  todo # Idle =>
    /\ todo.op = "unref" => dying = <<>>
    /\ todo.then = "take" => todo.src \in live /\ todo.dst \in Vars
    /\ todo.then \in {"copy", "move"} => todo.src \in Vars
    /\ todo.then = "copy" => todo.src # todo.dst
    /\ todo.dst \notin Vars => \E P \in SUBSET Slots : Anchors(P, todo.dst)

IInv == Typed /\ FreeInv /\ DyingInv /\ CountInv /\ TodoInv
-----------------------------------------------------------------------------
LEMMA HoldersAreFinite ==
  /\ IsFiniteSet(Holders)
  /\ Vars \cap Slots = {} /\ kInvalidIndex \notin Slots /\ kInvalidIndex \notin Vars
  /\ Vars \subseteq Holders /\ Slots \subseteq Holders /\ Slots \subseteq Nat
<1>1. IsFiniteSet(Slots)
  BY SharedAssumption, FS_Interval DEF Slots
<1>2. IsFiniteSet(Holders)
  BY <1>1, SharedAssumption, FS_Union DEF Holders
<1> QED
  BY <1>2, SharedAssumption DEF Slots, Holders, kInvalidIndex

LEMMA LiveAreSlots == Typed => live \subseteq Slots /\ FreeSlots \subseteq Slots
  BY SharedAssumption DEF Typed, Slots, FreeSlots

LEMMA PointersAreFinite ==
  ASSUME NEW i
  PROVE  IsFiniteSet(PointersTo(i)) /\ Cardinality(PointersTo(i)) \in Nat
<1>1. PointersTo(i) \in SUBSET Holders
  BY DEF PointersTo
<1>2. IsFiniteSet(PointersTo(i))
  BY <1>1, HoldersAreFinite, FS_Subset
<1> QED
  BY <1>2, FS_CardinalityType

LEMMA PointingIs ==
  ASSUME NEW i
  PROVE  /\ Pointing(i) = Cardinality(PointersTo(i)) + Pending(i)
         /\ Pending(i) \in {0, 1}
  BY DEF Pointing, PointersTo, Pending

\* An object with a pointer to it is not being destroyed, and with two pointers it
\* outlives one of them.
LEMMA PointedTo ==
  ASSUME IInv, NEW h \in Holders, Counting(h), ptr[h] # kInvalidIndex
  PROVE  /\ ptr[h] \in live /\ word[ptr[h]] <= -1 /\ word[ptr[h]] \in Int
         /\ \A g \in Holders \ {h} :
              Counting(g) /\ ptr[g] = ptr[h] => word[ptr[h]] <= -2
<1> DEFINE i == ptr[h]
           S == PointersTo(i)
<1>1. i \in live /\ -word[i] >= Pointing(i) /\ word[i] \in Int
  BY LiveAreSlots DEF IInv, CountInv, Typed
<1>2. IsFiniteSet(S) /\ Cardinality(S) \in Nat /\ h \in S
  BY PointersAreFinite DEF PointersTo
<1>3. Pointing(i) = Cardinality(S) + Pending(i) /\ Pending(i) \in {0, 1}
  BY PointingIs
<1>4. /\ IsFiniteSet(S \ {h}) /\ Cardinality(S \ {h}) = Cardinality(S) - 1
      /\ Cardinality(S \ {h}) \in Nat
  BY <1>2, FS_RemoveElement, FS_CardinalityType
<1>5. ASSUME NEW g \in Holders \ {h}, Counting(g), ptr[g] = ptr[h]
      PROVE  Cardinality(S) >= 2
  <2>1. g \in S \ {h}
    BY <1>5 DEF PointersTo
  <2>2. Cardinality(S \ {h}) # 0
    BY <1>4, <2>1, FS_EmptySet
  <2> QED
    BY <1>2, <1>4, <2>2
<1> HIDE DEF S
<1> QED
  BY <1>1, <1>2, <1>3, <1>4, <1>5

\* So is the object that AllocObj has just made.
LEMMA PendingLives ==
  ASSUME IInv, todo # Idle, todo.then = "take"
  PROVE  todo.src \in live /\ word[todo.src] <= -1
<1>1. todo.src \in live /\ -word[todo.src] >= Pointing(todo.src) /\ word[todo.src] \in Int
  BY LiveAreSlots DEF IInv, CountInv, TodoInv, Typed
<1>2. Pending(todo.src) = 1
  BY DEF Pending
<1> QED
  BY <1>1, <1>2, PointingIs, PointersAreFinite

\* What keeps the objects around an assignment alive is counted.
LEMMA AnchorsCount ==
  ASSUME IInv, todo # Idle, todo.dst \notin Vars,
         NEW P \in SUBSET Slots, Anchors(P, todo.dst), NEW g \in Vars \cup (P \ {todo.dst})
  PROVE  g \in Holders /\ Counting(g)
<1>1. g \in Vars \cup live /\ g # todo.dst
  BY DEF Anchors
<1>2. ASSUME NEW k \in 1 .. Len(dying) PROVE dying[k].slot # g
  <2>1. dying[k].slot \in live /\ Dying(dying[k].slot)
    BY DEF IInv, DyingInv, Dying
  <2>2. word[dying[k].slot] = 0 /\ dying[k].slot \in Slots
    BY <2>1, LiveAreSlots DEF IInv, DyingInv
  <2>3. dying[k].slot \notin P /\ dying[k].slot \notin Vars
    BY <2>2, HoldersAreFinite DEF Anchors
  <2> QED
    BY <2>3
<1> QED
  BY <1>1, <1>2, HoldersAreFinite, LiveAreSlots DEF Counting, IInv

\* Words of free slots that are left alone leave the free list as it is.
LEMMA LinkedKept ==
  ASSUME NEW w, NEW u, NEW first, NEW S, \A i \in S : u[i] = w[i],
         \E n, f : Linked(n, f, w, first, S)
  PROVE  \E n, f : Linked(n, f, u, first, S)
<1>1. PICK n, f : Linked(n, f, w, first, S)
  OBVIOUS
<1>2. \A k \in 1 .. n : f[k] \in S
  BY <1>1 DEF Linked
<1>3. Linked(n, f, u, first, S)
  BY <1>1, <1>2 DEF Linked
<1> QED
  BY <1>3

\* Pointer h gives up its reference, which may start a destructor.
LEMMA GiveUpOne ==
  ASSUME IInv, NEW h \in Holders, Counting(h),
         ptr' = ptr, live' = live, size' = size, free' = free,
         \A g \in Holders : Counting(g)' <=> Counting(g) /\ g # h,
         \A i \in Slots : Pending(i)' = Pending(i),
         word' = IF ptr[h] = kInvalidIndex THEN word
                 ELSE [word EXCEPT ![ptr[h]] = @ + 1],
         \A i \in Slots : Dying(i)' <=> Dying(i) \/ (i = ptr[h] /\ word[i] + 1 = 0)
  PROVE  /\ word' \in [Slots -> Int]
         /\ CountInv'
         /\ FreeInv'
         /\ \A i \in live : word'[i] <= 0 /\ (word'[i] = 0 <=> Dying(i)')
<1> DEFINE j == ptr[h]
<1>1. /\ word \in [Slots -> Int] /\ j \in Slots \cup {kInvalidIndex} /\ live \subseteq Slots
      /\ kInvalidIndex \notin Slots
  BY HoldersAreFinite, LiveAreSlots DEF IInv, Typed
<1>2. word' \in [Slots -> Int]
  BY <1>1
<1>3. j # kInvalidIndex => j \in live /\ word[j] <= -1
  BY PointedTo
<1>4. \A i \in Slots : word'[i] = IF i = j THEN word[i] + 1 ELSE word[i]
  BY <1>1
<1>5. ASSUME NEW i \in live PROVE word'[i] <= 0 /\ (word'[i] = 0 <=> Dying(i)')
  <2>1. word[i] <= 0 /\ (word[i] = 0 <=> Dying(i)) /\ i \in Slots /\ word[i] \in Int
    BY <1>1 DEF IInv, DyingInv
  <2>2. CASE i = j
    BY <1>1, <1>3, <1>4, <2>1, <2>2
  <2>3. CASE i # j
    BY <1>4, <2>1, <2>3
  <2> QED
    BY <2>2, <2>3
<1>6. FreeInv'
  <2>1. \A i \in FreeSlots : word'[i] = word[i]
    BY <1>1, <1>3, <1>4, LiveAreSlots DEF IInv, FreeSlots
  <2>2. \E n, f : Linked(n, f, word', free, FreeSlots)
    BY <2>1, LinkedKept DEF IInv, FreeInv
  <2> QED
    BY <2>2 DEF FreeInv, FreeSlots
<1>7. ASSUME NEW i \in live PROVE (-word[i] >= Pointing(i))'
  <2>1. /\ i \in Slots /\ word[i] \in Int /\ -word[i] >= Pointing(i)
        /\ Pending(i)' = Pending(i)
    BY <1>1 DEF IInv, CountInv
  <2>2. /\ Pointing(i) = Cardinality(PointersTo(i)) + Pending(i) /\ Pending(i) \in {0, 1}
        /\ IsFiniteSet(PointersTo(i)) /\ Cardinality(PointersTo(i)) \in Nat
    BY PointingIs, PointersAreFinite
  <2>3. Pointing(i)' = Cardinality(PointersTo(i)') + Pending(i)'
    BY DEF Pointing, PointersTo
  <2>4. PointersTo(i)' = PointersTo(i) \ {h}
    BY DEF PointersTo
  <2>5. CASE i = j
    <3>1. h \in PointersTo(i)
      BY <2>5 DEF PointersTo
    <3>2. Cardinality(PointersTo(i) \ {h}) = Cardinality(PointersTo(i)) - 1
      BY <2>2, <3>1, FS_RemoveElement
    <3>3. word'[i] = word[i] + 1
      BY <1>4, <2>1, <2>5
    <3> QED
      BY <2>1, <2>2, <2>3, <2>4, <3>2, <3>3
  <2>6. CASE i # j
    <3>1. PointersTo(i) \ {h} = PointersTo(i)
      BY <2>6 DEF PointersTo
    <3>2. word'[i] = word[i]
      BY <1>4, <2>1, <2>6
    <3> QED
      BY <2>1, <2>2, <2>3, <2>4, <3>1, <3>2
  <2> QED
    BY <2>5, <2>6
<1>8. \A g \in Holders : Counting(g)' /\ ptr'[g] # kInvalidIndex => ptr'[g] \in live'
  BY DEF IInv, CountInv
<1>9. CountInv'
  BY <1>7, <1>8 DEF CountInv
<1> QED
  BY <1>2, <1>5, <1>6, <1>9

\* It was not the last reference to an object that the assignment needs.
LEMMA AnchorsHold ==
  ASSUME IInv, todo # Idle, NEW d, d = todo.dst, d \notin Vars,
         NEW P \in SUBSET Slots, Anchors(P, d),
         NEW h \in Holders, Counting(h), h = d \/ h \notin Vars \cup P,
         ptr' = ptr, live' = live,
         word' = IF ptr[h] = kInvalidIndex THEN word
                 ELSE [word EXCEPT ![ptr[h]] = @ + 1]
  PROVE  Anchors(P, d)'
<1>1. word \in [Slots -> Int] /\ kInvalidIndex \notin Slots
  BY HoldersAreFinite DEF IInv, Typed
<1>2. ASSUME NEW i \in P PROVE word'[i] # 0
  <2>1. PICK g \in Vars \cup (P \ {d}) : ptr[g] = i
    BY DEF Anchors
  <2>2. g \in Holders /\ Counting(g) /\ g # h
    BY AnchorsCount
  <2>3. i \in Slots /\ i # kInvalidIndex /\ word[i] \in Int /\ word[i] # 0
    BY <1>1 DEF Anchors
  <2>4. CASE ptr[h] = i
    <3>1. word[i] <= -2
      BY <2>1, <2>2, <2>3, <2>4, PointedTo
    <3>2. word'[i] = word[i] + 1
      BY <1>1, <2>3, <2>4
    <3> QED
      BY <2>3, <3>1, <3>2
  <2>5. CASE ptr[h] # i
    BY <1>1, <2>3, <2>5
  <2> QED
    BY <2>4, <2>5
<1> QED
  BY <1>2 DEF Anchors

\* The client can reach what it assigns to without going through it, so what is
\* on the way keeps it alive.
LEMMA ReachableIsAnchored ==
  ASSUME IInv, AtRest, NEW h \in Reachable PROVE \E P \in SUBSET Slots : Anchors(P, h)
<1> DEFINE Passes(P) == /\ \A v \in Vars : ptr[v] \in Slots => ptr[v] \in P
                        /\ \A i \in P \ {h} : ptr[i] \in Slots => ptr[i] \in P
           C == {i \in Slots : \A P \in SUBSET Slots : Passes(P) => i \in P}
<1>1. Passes(C)
  OBVIOUS
<1>2. h \in C
  <2> SUFFICES ASSUME h \notin C PROVE FALSE
    OBVIOUS
  <2>1. Closed(C)
    BY <1>1 DEF Closed
  <2> QED
    BY <2>1 DEF Reachable
<1>3. C \subseteq live
  <2>1. \A g \in Vars \cup live : Counting(g)
    BY EmptySeq DEF AtRest, Counting, Idle
  <2>2. \A g \in Vars \cup live : ptr[g] \in Slots => ptr[g] \in live
    BY <2>1, HoldersAreFinite, LiveAreSlots DEF IInv, CountInv
  <2>3. Passes(live) /\ live \in SUBSET Slots
    BY <2>2, LiveAreSlots DEF IInv
  <2> QED
    BY <2>3
<1>4. ASSUME NEW i \in C PROVE \E g \in Vars \cup (C \ {h}) : ptr[g] = i
  <2> SUFFICES ASSUME \A g \in Vars \cup (C \ {h}) : ptr[g] # i PROVE FALSE
    OBVIOUS
  <2>1. Passes(C \ {i})
    BY <1>1
  <2> QED
    BY <2>1
<1>5. ASSUME NEW i \in C PROVE word[i] # 0
  <2>1. ~Dying(i)
    BY EmptySeq DEF AtRest, Dying
  <2> QED
    BY <1>3, <2>1 DEF IInv, DyingInv
<1>6. Anchors(C, h)
  BY <1>2, <1>3, <1>4, <1>5 DEF Anchors
<1> QED
  BY <1>6

-----------------------------------------------------------------------------
LEMMA InitInv == Init => IInv
<1> SUFFICES ASSUME Init PROVE IInv
  OBVIOUS
<1>1. Typed
  BY SharedAssumption, EmptySeq, HoldersAreFinite DEF Init, Typed
<1>2. FreeInv
  <2>1. FreeSlots = {}
    BY DEF Init, FreeSlots
  <2>2. Linked(0, [k \in 1 .. 0 |-> 0], word, free, {})
    BY DEF Linked, Init
  <2> QED
    BY <2>1, <2>2 DEF FreeInv
<1>3. DyingInv /\ TodoInv
  BY EmptySeq DEF Init, DyingInv, TodoInv
<1>4. CountInv
  BY DEF Init, CountInv
<1> QED
  BY <1>1, <1>2, <1>3, <1>4 DEF IInv

LEMMA KeepStutter == ASSUME IInv, UNCHANGED vars PROVE IInv'
<1> USE DEF vars
<1>1. Typed' /\ FreeInv' /\ DyingInv'
  BY DEF IInv, Typed, FreeInv, FreeSlots, DyingInv, Dying
<1>2. CountInv'
  BY DEF IInv, CountInv, Pointing, Counting, Pending
<1>3. TodoInv'
  BY DEF IInv, TodoInv, Anchors
<1> QED
  BY <1>1, <1>2, <1>3 DEF IInv

\* A client starts an assignment to a pointer it can name.
LEMMA KeepStart ==
  ASSUME IInv, AtRest, NEW h \in Holders, Usable(h), NEW g \in Holders,
         NEW what \in {"copy", "move", "reset"},
         what # "reset" => g \in Vars, what = "copy" => g # h,
         todo' = [op |-> "unref", dst |-> h, then |-> what, src |-> g],
         UNCHANGED <<size, word, free, ptr, live, dying>>
  PROVE  IInv'
<1>1. dying = <<>> /\ todo = Idle
  BY DEF AtRest
<1>2. todo' \in Todos /\ todo'.op = "unref" /\ todo'.dst = h /\ todo'.src = g /\ todo'.then = what
  BY DEF Todos
<1>3. Typed'
  BY <1>2 DEF IInv, Typed
<1>4. FreeInv' /\ DyingInv'
  BY DEF IInv, FreeInv, FreeSlots, DyingInv, Dying
<1>5. CountInv'
  <2>1. \A k \in Holders : Counting(k)' <=> Counting(k)
    BY <1>1, <1>2 DEF Counting, Idle
  <2>2. \A i : Pending(i)' = 0 /\ Pending(i) = 0
    BY <1>1, <1>2 DEF Pending
  <2>3. \A i : PointersTo(i)' = PointersTo(i)
    BY <2>1 DEF PointersTo
  <2>4. \A i : Pointing(i)' = Cardinality(PointersTo(i)') + Pending(i)'
    BY DEF Pointing, PointersTo
  <2>5. \A i : Pointing(i)' = Pointing(i)
    BY <2>2, <2>3, <2>4, PointingIs
  <2> QED
    BY <2>1, <2>5 DEF IInv, CountInv
<1>6. TodoInv'
  <2>1. h \notin Vars => \E P \in SUBSET Slots : Anchors(P, h)
    BY ReachableIsAnchored DEF Usable
  <2>2. h \notin Vars => \E P \in SUBSET Slots : Anchors(P, h)'
    BY <2>1 DEF Anchors
  <2>3. todo'.then # "take"
    BY <1>2
  <2>4. (todo'.then \in {"copy", "move"} => todo'.src \in Vars) /\ (todo'.then = "copy" => todo'.src # todo'.dst)
    BY <1>2
  <2>5. todo'.dst \notin Vars => \E P \in SUBSET Slots : Anchors(P, todo.dst)'
    BY <1>2, <2>2 DEF Anchors
  <2> QED
    BY <1>1, <2>3, <2>4, <2>5 DEF TodoInv
<1> QED
  BY <1>3, <1>4, <1>5, <1>6 DEF IInv

LEMMA KeepCopy ==
  ASSUME IInv, NEW h \in Holders, NEW g \in Vars, Copy(h, g) PROVE IInv'
  BY KeepStart, HoldersAreFinite DEF Copy

LEMMA KeepMove ==
  ASSUME IInv, NEW h \in Holders, NEW g \in Vars, Move(h, g) PROVE IInv'
  BY KeepStart, HoldersAreFinite DEF Move

LEMMA KeepRelease ==
  ASSUME IInv, NEW h \in Holders, Release(h) PROVE IInv'
  BY KeepStart DEF Release
LEMMA KeepGiveUp == ASSUME IInv, GiveUp PROVE IInv'
<1> DEFINE h == todo.dst
           j == ptr[h]
<1>1. /\ todo \in Todos /\ todo # Idle /\ dying = <<>> /\ h \in Holders
      /\ Len(dying) = 0
  BY EmptySeq DEF GiveUp, IInv, Typed, TodoInv, Todos, Idle
<1>2. /\ todo' \in Todos /\ todo' # Idle /\ todo'.op = "assign" /\ todo'.dst = h
      /\ todo'.then = todo.then /\ todo'.src = todo.src
  BY <1>1 DEF GiveUp, Todos, Idle
<1>3. h \in Vars \cup live
  BY <1>1 DEF IInv, TodoInv, Anchors
<1>4. /\ Counting(h)
      /\ \A g \in Vars \cup live : Counting(g)
  BY <1>1, <1>3 DEF Counting, GiveUp
<1>5. /\ word' = IF j = kInvalidIndex THEN word ELSE [word EXCEPT ![j] = @ + 1]
      /\ dying' = IF j # kInvalidIndex /\ word[j] + 1 = 0
                  THEN <<[slot |-> j, member |-> TRUE]>> ELSE <<>>
      /\ ptr' = ptr /\ live' = live /\ size' = size /\ free' = free
  <2>1. <<[slot |-> j, member |-> TRUE]>> \o <<>> = <<[slot |-> j, member |-> TRUE]>>
    OBVIOUS
  <2> QED
    BY <1>1, <2>1 DEF GiveUp, UnRef
<1>6. /\ j \in Slots \cup {kInvalidIndex} /\ kInvalidIndex \notin Slots
      /\ j # kInvalidIndex => j \in live
  BY <1>1, <1>4, PointedTo, HoldersAreFinite DEF IInv, Typed
<1>7. /\ \A k \in 1 .. Len(dying') : k = 1 /\ dying'[k] = [slot |-> j, member |-> TRUE]
      /\ dying' = <<>> => Len(dying') = 0
      /\ dying' # <<>> => Len(dying') = 1 /\ dying'[1] = [slot |-> j, member |-> TRUE]
      /\ dying' # <<>> => j # kInvalidIndex /\ word[j] + 1 = 0
  <2>1. CASE dying' = <<>>
    BY <2>1, EmptySeq
  <2>2. CASE dying' = <<[slot |-> j, member |-> TRUE]>>
    <3>1. Len(dying') = 1 /\ dying'[1] = [slot |-> j, member |-> TRUE]
      BY <2>2
    <3>2. \A k \in 1 .. Len(dying') : k = 1
      BY <3>1
    <3> QED
      BY <1>5, <3>1, <3>2, EmptySeq
  <2> QED
    BY <1>5, <2>1, <2>2
<1>8. \A g \in Holders : Counting(g)' <=> Counting(g) /\ g # h
  BY <1>1, <1>2, <1>5, <1>7 DEF Counting, GiveUp
<1>9. \A i \in Slots : Pending(i)' = Pending(i)
  BY <1>1, <1>2 DEF Pending
<1>10. \A i \in Slots : Dying(i)' <=> Dying(i) \/ (i = j /\ word[i] + 1 = 0)
  <2> SUFFICES ASSUME NEW i \in Slots
               PROVE  Dying(i)' <=> Dying(i) \/ (i = j /\ word[i] + 1 = 0)
    OBVIOUS
  <2>1. ~Dying(i)
    BY <1>1 DEF Dying
  <2>2. CASE j # kInvalidIndex /\ word[j] + 1 = 0
    <3>1. Len(dying') = 1 /\ dying'[1].slot = j
      BY <1>5, <2>2
    <3>2. Dying(i)' <=> i = j
      BY <3>1 DEF Dying
    <3> QED
      BY <2>1, <2>2, <3>2
  <2>3. CASE ~(j # kInvalidIndex /\ word[j] + 1 = 0)
    <3>1. Len(dying') = 0
      BY <1>5, <2>3
    <3>2. ~Dying(i)'
      BY <3>1 DEF Dying
    <3> QED
      BY <1>6, <2>1, <2>3, <3>2
  <2> QED
    BY <2>2, <2>3
<1> HIDE DEF h, j
<1>11. /\ word' \in [Slots -> Int] /\ CountInv' /\ FreeInv'
       /\ \A i \in live : word'[i] <= 0 /\ (word'[i] = 0 <=> Dying(i)')
  <2> USE DEF h, j
  <2> QED
    BY <1>1, <1>4, <1>5, <1>8, <1>9, <1>10, GiveUpOne
<1>12. Typed'
  <2>1. dying' \in Seq(Unwinding)
    <3>1. j \in Slots => [slot |-> j, member |-> TRUE] \in Unwinding
      BY DEF Unwinding
    <3> QED
      BY <1>5, <1>6, <3>1
  <2> QED
    BY <1>2, <1>5, <1>11, <2>1 DEF IInv, Typed
<1>13. DyingInv'
  <2>1. \A k \in 1 .. Len(dying') : dying'[k].slot \in live'
    BY <1>5, <1>6, <1>7
  <2>2. \A k, l \in 1 .. Len(dying') : dying'[k].slot = dying'[l].slot => k = l
    BY <1>7
  <2> QED
    BY <1>5, <1>11, <2>1, <2>2 DEF DyingInv
<1>14. TodoInv'
  <2>1. todo.then = "take" => todo.src \in live /\ todo.dst \in Vars
    BY <1>1 DEF IInv, TodoInv
  <2>2. /\ todo.then \in {"copy", "move"} => todo.src \in Vars
        /\ todo.then = "copy" => todo.src # todo.dst
    BY <1>1 DEF IInv, TodoInv
  <2>3. h \notin Vars => \E P \in SUBSET Slots : Anchors(P, h)'
    <3> SUFFICES ASSUME h \notin Vars PROVE \E P \in SUBSET Slots : Anchors(P, h)'
      OBVIOUS
    <3>1. PICK P \in SUBSET Slots : Anchors(P, todo.dst)
      BY <1>1 DEF IInv, TodoInv, h
    <3>2. ASSUME NEW d, d = todo.dst PROVE Anchors(P, d)'
      <4>1. Anchors(P, d) /\ d = h /\ d \notin Vars
        BY <3>1, <3>2 DEF h
      <4>2. ptr' = ptr /\ live' = live /\ Counting(h) /\ h \in Holders /\ todo # Idle
        BY <1>1, <1>4, <1>5
      <4>3. word' = IF ptr[h] = kInvalidIndex THEN word ELSE [word EXCEPT ![ptr[h]] = @ + 1]
        BY <1>5 DEF j
      <4> QED
        BY <3>2, <4>1, <4>2, <4>3, AnchorsHold
    <3>3. todo'.dst = todo.dst
      BY <1>2 DEF h
    <3> QED
      BY <3>2, <3>3 DEF h, Anchors
  <2>4. todo'.dst \notin Vars => \E P \in SUBSET Slots : Anchors(P, todo.dst)'
    BY <1>2, <2>3 DEF Anchors, h
  <2>5. /\ todo'.op # "unref" /\ todo'.dst = todo.dst
        /\ todo'.then = todo.then /\ todo'.src = todo.src
    BY <1>2 DEF h
  <2>6. todo'.then = "take" => todo'.src \in live' /\ todo'.dst \in Vars
    BY <1>5, <2>1, <2>5
  <2> QED
    BY <2>2, <2>4, <2>5, <2>6 DEF TodoInv
<1> QED
  BY <1>11, <1>12, <1>13, <1>14 DEF IInv
\* What every assignment has in common when it is over.
LEMMA Assigned ==
  ASSUME IInv, todo.op = "assign", dying = <<>>, todo' = Idle,
         UNCHANGED <<size, free, live, dying>>,
         ptr' \in [Holders -> Slots \cup {kInvalidIndex}],
         word' \in [Slots -> Int],
         \A i \in Slots : word'[i] <= word[i] /\ (i \notin live => word'[i] = word[i]),
         CountInv'
  PROVE  IInv'
<1>1. live \subseteq Slots /\ FreeSlots \subseteq Slots /\ word \in [Slots -> Int]
  BY LiveAreSlots DEF IInv, Typed
<1>2. Typed'
  BY DEF IInv, Typed
<1>3. FreeInv'
  <2>1. \A i \in FreeSlots : word'[i] = word[i]
    BY <1>1 DEF FreeSlots
  <2>2. \E n, f : Linked(n, f, word', free, FreeSlots)
    BY <2>1, LinkedKept DEF IInv, FreeInv
  <2> QED
    BY <2>2 DEF FreeInv, FreeSlots
<1>4. DyingInv'
  <2>1. Len(dying) = 0 /\ dying' = dying
    BY EmptySeq
  <2>2. ASSUME NEW i \in live PROVE word'[i] <= 0 /\ word'[i] # 0
    <3>1. word[i] <= 0 /\ word[i] # 0
      BY <2>1 DEF IInv, DyingInv, Dying
    <3>2. i \in Slots /\ word[i] \in Int /\ word'[i] \in Int /\ word'[i] <= word[i]
      BY <1>1
    <3> QED
      BY <3>1, <3>2
  <2> QED
    BY <2>1, <2>2 DEF DyingInv, Dying
<1>5. TodoInv'
  BY DEF TodoInv
<1> QED
  BY <1>2, <1>3, <1>4, <1>5 DEF IInv

LEMMA KeepAssign == ASSUME IInv, Assign PROVE IInv'
<1> DEFINE h == todo.dst
           g == todo.src
<1>1. /\ todo \in Todos /\ todo # Idle /\ todo.op = "assign" /\ dying = <<>>
      /\ Len(dying) = 0 /\ h \in Holders /\ g \in Holders /\ todo' = Idle
      /\ UNCHANGED <<size, free, live, dying>>
  BY EmptySeq DEF Assign, IInv, Typed, Todos, Idle
<1>2. /\ h \in Vars \cup live
      /\ todo.then = "take" => g \in live
      /\ todo.then \in {"copy", "move"} => g \in Vars
      /\ todo.then = "copy" => g # h
  BY <1>1 DEF IInv, TodoInv, Anchors
<1>3. /\ word \in [Slots -> Int] /\ ptr \in [Holders -> Slots \cup {kInvalidIndex}]
      /\ live \subseteq Slots /\ kInvalidIndex \notin Slots
      /\ Vars \subseteq Holders /\ Slots \subseteq Holders /\ Vars \cap Slots = {}
  BY HoldersAreFinite, LiveAreSlots DEF IInv, Typed
<1>4. \A k \in Holders : /\ Counting(k) <=> k \in Vars \cup live /\ k # h
                         /\ Counting(k)' <=> k \in Vars \cup live
  BY <1>1 DEF Counting, Idle
<1>5. \A i : /\ Pending(i) = IF todo.then = "take" /\ g = i THEN 1 ELSE 0
             /\ Pending(i)' = 0
  BY <1>1 DEF Pending
<1>6. \A i : /\ Pointing(i)' = Cardinality(PointersTo(i)')
             /\ Pointing(i) = Cardinality(PointersTo(i)) + Pending(i)
             /\ IsFiniteSet(PointersTo(i)) /\ Cardinality(PointersTo(i)) \in Nat
             /\ IsFiniteSet(PointersTo(i) \cup {h})
             /\ h \notin PointersTo(i)
  <2>1. \A i : Pointing(i)' = Cardinality(PointersTo(i)') + Pending(i)'
    BY DEF Pointing, PointersTo
  <2>2. \A i : PointersTo(i)' \in SUBSET Holders
    BY DEF PointersTo
  <2>3. \A i : Cardinality(PointersTo(i)') \in Nat
    BY <2>2, HoldersAreFinite, FS_Subset, FS_CardinalityType
  <2>4. \A i : Pointing(i)' = Cardinality(PointersTo(i)')
    BY <1>5, <2>1, <2>3
  <2>5. \A i : IsFiniteSet(PointersTo(i) \cup {h})
    BY PointersAreFinite, FS_AddElement
  <2>6. \A i : h \notin PointersTo(i)
    BY <1>4 DEF PointersTo
  <2> QED
    BY <2>4, <2>5, <2>6, PointingIs, PointersAreFinite
<1>7. \A i : Cardinality(PointersTo(i) \cup {h}) = Cardinality(PointersTo(i)) + 1
  BY <1>6, FS_AddElement
<1>8. \A i \in live : -word[i] >= Pointing(i) /\ word[i] \in Int /\ i \in Slots /\ i # kInvalidIndex
  BY <1>3 DEF IInv, CountInv
<1>9. \A k \in Holders : k \in Vars \cup live /\ k # h /\ ptr[k] # kInvalidIndex => ptr[k] \in live
  BY <1>4 DEF IInv, CountInv
<1>10. \A i : PointersTo(i)' = {k \in Holders : k \in Vars \cup live /\ ptr'[k] = i}
  BY <1>4 DEF PointersTo
<1>11. \A i : PointersTo(i) = {k \in Holders : k \in Vars \cup live /\ k # h /\ ptr[k] = i}
  BY <1>4 DEF PointersTo
<1>12. ASSUME ptr' \in [Holders -> Slots \cup {kInvalidIndex}], word' \in [Slots -> Int],
              \A i \in Slots : word'[i] <= word[i] /\ (i \notin live => word'[i] = word[i]),
              \A k \in Vars \cup live : ptr'[k] # kInvalidIndex => ptr'[k] \in live,
              \A i \in live : -word'[i] >= Cardinality(PointersTo(i)')
       PROVE  IInv'
  <2>1. CountInv'
    BY <1>1, <1>4, <1>6, <1>12 DEF CountInv
  <2> QED
    BY <1>1, <1>12, <2>1, Assigned
<1>18. ASSUME NEW i \in live
       PROVE  /\ word[i] \in Int /\ Cardinality(PointersTo(i)) \in Nat
              /\ -word[i] >= Cardinality(PointersTo(i)) + Pending(i)
              /\ -word[i] >= Cardinality(PointersTo(i))
              /\ Cardinality(PointersTo(i) \cup {h}) = Cardinality(PointersTo(i)) + 1
  <2>1. /\ word[i] \in Int /\ Cardinality(PointersTo(i)) \in Nat
        /\ -word[i] >= Cardinality(PointersTo(i)) + Pending(i)
        /\ Cardinality(PointersTo(i) \cup {h}) = Cardinality(PointersTo(i)) + 1
    BY <1>6, <1>7, <1>8
  <2>2. Pending(i) \in {0, 1}
    BY PointingIs
  <2>3. Pending(i) \in Nat
    BY <2>2
  <2> QED
    BY <2>1, <2>3
<1> HIDE DEF h, g
<1>13. CASE todo.then = "take"
  <2>1. ptr' = [ptr EXCEPT ![h] = g] /\ word' = word /\ g \in live
    BY <1>1, <1>2, <1>13 DEF Assign, h, g
  <2>2. \A k \in Holders : ptr'[k] = IF k = h THEN g ELSE ptr[k]
    BY <1>3, <2>1
  <2>3. /\ ptr' \in [Holders -> Slots \cup {kInvalidIndex}]
        /\ \A k \in Vars \cup live : ptr'[k] # kInvalidIndex => ptr'[k] \in live
    <3>1. ptr' \in [Holders -> Slots \cup {kInvalidIndex}]
      BY <1>3, <2>1
    <3>2. \A k \in Vars \cup live : k \in Holders
      BY <1>3
    <3> QED
      BY <1>9, <2>1, <2>2, <3>1, <3>2
  <2>4. ASSUME NEW i \in live PROVE -word'[i] >= Cardinality(PointersTo(i)')
    <3>1. CASE i = g
      <4>1. PointersTo(i)' = PointersTo(i) \cup {h}
        BY <1>1, <1>2, <1>10, <1>11, <2>2, <3>1 DEF h
      <4>2. Pending(i) = 1
        BY <1>5, <1>13, <3>1 DEF g
      <4> QED
        BY <1>18, <2>1, <4>1, <4>2
    <3>2. CASE i # g
      <4>1. PointersTo(i)' = PointersTo(i)
        BY <1>10, <1>11, <2>2, <3>2
      <4> QED
        BY <1>18, <2>1, <4>1
    <3> QED
      BY <3>1, <3>2
  <2>5. word' \in [Slots -> Int] /\ \A i \in Slots : word'[i] <= word[i] /\ (i \notin live => word'[i] = word[i])
    BY <1>3, <2>1
  <2> QED
    BY <1>12, <2>3, <2>4, <2>5
<1>14. CASE todo.then = "copy"
  <2> DEFINE j == ptr[g]
  <2>1. ptr' = [ptr EXCEPT ![h] = j] /\ word' = AddRefed(word, j) /\ g \in Vars /\ g # h
    BY <1>1, <1>2, <1>14 DEF Assign, h, g
  <2>2. j \in Slots \cup {kInvalidIndex} /\ (j # kInvalidIndex => j \in live)
    BY <1>3, <1>9, <2>1
  <2>3. \A i \in Slots : word'[i] = IF i = j THEN word[i] - 1 ELSE word[i]
    BY <1>3, <2>1, <2>2 DEF AddRefed
  <2>4. word' \in [Slots -> Int]
    BY <1>3, <2>1, <2>2 DEF AddRefed
  <2>5. \A i \in Slots : word'[i] <= word[i] /\ (i \notin live => word'[i] = word[i])
    <3>1. \A i \in Slots : word[i] \in Int
      BY <1>3
    <3> QED
      BY <1>3, <2>2, <2>3, <3>1
  <2> HIDE DEF j
  <2>6. ptr' \in [Holders -> Slots \cup {kInvalidIndex}] /\ \A k \in Vars \cup live : ptr'[k] # kInvalidIndex => ptr'[k] \in live
    BY <1>3, <1>9, <2>1, <2>2
  <2>8. \A k \in Holders : ptr'[k] = IF k = h THEN j ELSE ptr[k]
    BY <1>3, <2>1
  <2>7. ASSUME NEW i \in live PROVE -word'[i] >= Cardinality(PointersTo(i)')
    <3>1. CASE i = j
      <4>1. PointersTo(i)' = PointersTo(i) \cup {h}
        BY <1>1, <1>2, <1>10, <1>11, <2>8, <3>1 DEF h
      <4> QED
        BY <1>3, <1>18, <2>3, <3>1, <4>1
    <3>2. CASE i # j
      <4>1. PointersTo(i)' = PointersTo(i)
        BY <1>10, <1>11, <2>8, <3>2
      <4> QED
        BY <1>3, <1>18, <2>3, <3>2, <4>1
    <3> QED
      BY <3>1, <3>2
  <2> QED
    BY <1>12, <2>4, <2>5, <2>6, <2>7
<1>15. CASE todo.then = "move"
  <2> DEFINE j == ptr[g]
  <2>1. ptr' = [[ptr EXCEPT ![h] = j] EXCEPT ![g] = kInvalidIndex] /\ word' = word /\ g \in Vars
    BY <1>1, <1>2, <1>15 DEF Assign, h, g
  <2>2. j \in Slots \cup {kInvalidIndex} /\ (g # h /\ j # kInvalidIndex => j \in live)
    BY <1>3, <1>9, <2>1
  <2>3. \A k \in Holders : ptr'[k] = IF k = g THEN kInvalidIndex ELSE IF k = h THEN j ELSE ptr[k]
    BY <1>1, <1>3, <2>1 DEF h
  <2>4. ptr' \in [Holders -> Slots \cup {kInvalidIndex}]
    BY <1>3, <2>1, <2>2
  <2> HIDE DEF j
  <2>5. \A k \in Vars \cup live : ptr'[k] # kInvalidIndex => ptr'[k] \in live
    BY <1>3, <1>9, <2>2, <2>3
  <2>6. word' \in [Slots -> Int] /\ \A i \in Slots : word'[i] <= word[i] /\ (i \notin live => word'[i] = word[i])
    BY <1>3, <2>1
  <2>7. ASSUME NEW i \in live PROVE -word'[i] >= Cardinality(PointersTo(i)')
    <3>1. CASE g # h /\ i = j
      <4>1. g \in PointersTo(i)
        BY <1>3, <1>11, <2>1, <3>1 DEF j
      <4>2. PointersTo(i)' = (PointersTo(i) \ {g}) \cup {h}
        BY <1>1, <1>2, <1>3, <1>8, <1>10, <1>11, <2>3, <3>1 DEF h
      <4>3. /\ IsFiniteSet(PointersTo(i) \ {g})
            /\ Cardinality(PointersTo(i) \ {g}) = Cardinality(PointersTo(i)) - 1
        BY <1>6, <4>1, FS_RemoveElement
      <4>4. Cardinality((PointersTo(i) \ {g}) \cup {h}) = Cardinality(PointersTo(i))
        <5>1. h \notin PointersTo(i) \ {g}
          BY <1>6
        <5>2. Cardinality((PointersTo(i) \ {g}) \cup {h}) = Cardinality(PointersTo(i) \ {g}) + 1
          BY <4>3, <5>1, FS_AddElement
        <5>3. Cardinality(PointersTo(i)) \in Nat
          BY <1>18
        <5> QED
          BY <4>3, <5>2, <5>3
      <4> QED
        BY <1>18, <2>1, <4>2, <4>4
    <3>2. CASE g = h \/ i # j
      <4>1. PointersTo(i)' = PointersTo(i)
        <5>1. ASSUME NEW k \in Holders, k \in Vars \cup live
              PROVE  ptr'[k] = i <=> k # h /\ ptr[k] = i
          <6>1. i # kInvalidIndex
            BY <1>8
          <6>2. CASE k = g
            BY <2>3, <3>2, <6>1, <6>2 DEF j
          <6>3. CASE k # g /\ k = h
            BY <2>3, <3>2, <6>1, <6>3
          <6>4. CASE k # g /\ k # h
            BY <2>3, <6>4
          <6> QED
            BY <6>2, <6>3, <6>4
        <5> QED
          BY <1>10, <1>11, <5>1
      <4> QED
        BY <1>18, <2>1, <4>1
    <3> QED
      BY <3>1, <3>2
  <2> QED
    BY <1>12, <2>4, <2>5, <2>6, <2>7
<1>16. CASE todo.then = "reset"
  <2>1. ptr' = [ptr EXCEPT ![h] = kInvalidIndex] /\ word' = word
    BY <1>1, <1>16 DEF Assign, h, g
  <2>2. /\ ptr' \in [Holders -> Slots \cup {kInvalidIndex}]
        /\ \A k \in Vars \cup live : ptr'[k] # kInvalidIndex => ptr'[k] \in live
    BY <1>3, <1>9, <2>1
  <2>3. word' \in [Slots -> Int] /\ \A i \in Slots : word'[i] <= word[i] /\ (i \notin live => word'[i] = word[i])
    BY <1>3, <2>1
  <2>4. ASSUME NEW i \in live PROVE -word'[i] >= Cardinality(PointersTo(i)')
    <3>1. PointersTo(i)' = PointersTo(i)
      <4>1. i # kInvalidIndex
        BY <1>8
      <4>2. \A k \in Holders : ptr'[k] = IF k = h THEN kInvalidIndex ELSE ptr[k]
        BY <1>3, <2>1
      <4> QED
        BY <1>10, <1>11, <4>1, <4>2
    <3> QED
      BY <1>18, <2>1, <3>1
  <2> QED
    BY <1>12, <2>2, <2>3, <2>4
<1>17. todo.then \in {"take", "copy", "move", "reset"}
  BY <1>1 DEF Todos
<1> QED
  BY <1>13, <1>14, <1>15, <1>16, <1>17
-----------------------------------------------------------------------------
\* Destructors in progress d: whose they are, and whose member is destroyed.
In(d, i)    == \E k \in 1 .. Len(d) : d[k].slot = i
Off(d, i)   == \E k \in 1 .. Len(d) : d[k].slot = i /\ ~d[k].member
Distinct(d) == \A k, l \in 1 .. Len(d) : d[k].slot = d[l].slot => k = l

LEMMA InOff ==
  /\ \A i : Dying(i) <=> In(dying, i)
  /\ \A i : Dying(i)' <=> In(dying', i)
  /\ \A h : Counting(h) <=> /\ h \in Vars \cup live
                            /\ ~(todo.op = "assign" /\ todo.dst = h)
                            /\ ~Off(dying, h)
  /\ \A h : Counting(h)' <=> /\ h \in Vars \cup live'
                             /\ ~(todo'.op = "assign" /\ todo'.dst = h)
                             /\ ~Off(dying', h)
  BY DEF Dying, In, Counting, Off

\* A destructor begins.
LEMMA Begun ==
  ASSUME NEW d \in Seq(Unwinding), NEW j \in Slots
  PROVE  LET p == <<[slot |-> j, member |-> TRUE]>> \o d
         IN  /\ p \in Seq(Unwinding)
             /\ \A i : In(p, i) <=> In(d, i) \/ i = j
             /\ \A i : Off(p, i) <=> Off(d, i)
             /\ Distinct(d) /\ ~In(d, j) => Distinct(p)
<1> DEFINE x == [slot |-> j, member |-> TRUE]
           p == <<x>> \o d
           n == Len(d)
<1>1. x \in Unwinding /\ x.slot = j /\ x.member
  BY DEF Unwinding
<1>2. /\ <<x>> \in Seq(Unwinding) /\ Len(<<x>>) = 1 /\ <<x>>[1] = x
      /\ n \in Nat
  BY <1>1, LenProperties
<1>3. /\ p \in Seq(Unwinding) /\ Len(p) = n + 1 /\ p[1] = x
      /\ \A k \in 1 .. n : p[k + 1] = d[k]
  <2>1. /\ p \in Seq(Unwinding) /\ Len(p) = 1 + n
        /\ \A k \in 1 .. 1 + n : p[k] = IF k <= 1 THEN <<x>>[k] ELSE d[k - 1]
    BY <1>2, ConcatProperties
  <2> HIDE DEF p, n, x
  <2> QED
    BY <1>2, <2>1
<1> HIDE DEF p, x, n
<1>4. \A k \in 1 .. n + 1 : k = 1 \/ (k - 1 \in 1 .. n /\ p[k] = d[k - 1])
  <2> SUFFICES ASSUME NEW k \in 1 .. n + 1, k # 1
               PROVE  k - 1 \in 1 .. n /\ p[k] = d[k - 1]
    OBVIOUS
  <2>1. k - 1 \in 1 .. n /\ (k - 1) + 1 = k
    BY <1>2
  <2> QED
    BY <1>3, <2>1
<1>5. 1 \in 1 .. n + 1 /\ \A k \in 1 .. n : k + 1 \in 1 .. n + 1
  BY <1>2
<1>6. \A i : In(p, i) <=> In(d, i) \/ i = j
  BY <1>1, <1>3, <1>4, <1>5 DEF In, n
<1>7. \A i : Off(p, i) <=> Off(d, i)
  BY <1>1, <1>3, <1>4, <1>5, SMTT(30) DEF Off, n
<1>8. ASSUME Distinct(d), ~In(d, j) PROVE Distinct(p)
  <2> SUFFICES ASSUME NEW k \in 1 .. n + 1, NEW l \in 1 .. n + 1, p[k].slot = p[l].slot
               PROVE  k = l
    BY <1>3 DEF Distinct
  <2>1. CASE k = 1 /\ l # 1
    BY <1>1, <1>3, <1>4, <1>8, <2>1 DEF In, n
  <2>2. CASE l = 1 /\ k # 1
    BY <1>1, <1>3, <1>4, <1>8, <2>2 DEF In, n
  <2>3. CASE k # 1 /\ l # 1
    <3>1. k - 1 = l - 1
      BY <1>4, <1>8, <2>3 DEF Distinct, n
    <3> QED
      BY <1>2, <3>1
  <2> QED
    BY <2>1, <2>2, <2>3
<1> QED
  BY <1>3, <1>6, <1>7, <1>8 DEF p, x

\* The innermost destructor has destroyed its member.
LEMMA MemberGone ==
  ASSUME NEW d \in Seq(Unwinding), d # <<>>, Distinct(d), d[1].member
  PROVE  LET o == <<[slot |-> d[1].slot, member |-> FALSE]>> \o Tail(d)
         IN  /\ o \in Seq(Unwinding) /\ o # <<>> /\ Distinct(o)
             /\ \A i : In(o, i) <=> In(d, i)
             /\ \A i : Off(o, i) <=> Off(d, i) \/ i = d[1].slot
             /\ ~Off(d, d[1].slot) /\ In(d, d[1].slot)
<1> DEFINE x == [slot |-> d[1].slot, member |-> FALSE]
           o == <<x>> \o Tail(d)
           n == Len(d)
<1>1. n \in Nat \ {0} /\ 1 \in 1 .. n /\ d[1] \in Unwinding
  BY LenProperties, EmptySeq, ElementOfSeq
<1>2. x \in Unwinding /\ x.slot = d[1].slot /\ ~x.member
  BY <1>1 DEF Unwinding
<1>3. /\ Tail(d) \in Seq(Unwinding) /\ Len(Tail(d)) = n - 1
      /\ \A k \in 1 .. n - 1 : Tail(d)[k] = d[k + 1]
  BY HeadTailProperties
<1>4. /\ o \in Seq(Unwinding) /\ Len(o) = n /\ o[1] = x
      /\ \A k \in 2 .. n : o[k] = d[k]
  <2>1. <<x>> \in Seq(Unwinding) /\ Len(<<x>>) = 1 /\ <<x>>[1] = x
    BY <1>2
  <2>2. /\ o \in Seq(Unwinding) /\ Len(o) = 1 + (n - 1)
        /\ \A k \in 1 .. 1 + (n - 1) : o[k] = IF k <= 1 THEN <<x>>[k] ELSE Tail(d)[k - 1]
    BY <1>3, <2>1, ConcatProperties
  <2> HIDE DEF o, n, x
  <2>3. Len(o) = n /\ 1 + (n - 1) = n
    BY <1>1, <2>2
  <2>4. o[1] = x
    BY <1>1, <2>1, <2>2, <2>3
  <2>5. ASSUME NEW k \in 2 .. n PROVE o[k] = d[k]
    <3>1. k \in 1 .. n /\ ~(k <= 1) /\ k - 1 \in 1 .. n - 1 /\ (k - 1) + 1 = k
      BY <1>1
    <3> QED
      BY <1>3, <2>2, <2>3, <3>1
  <2> QED
    BY <2>2, <2>3, <2>4, <2>5
<1> HIDE DEF o, x, n
<1>5. \A k \in 1 .. n : k = 1 \/ k \in 2 .. n
  BY <1>1
<1>6. \A k \in 1 .. n : o[k].slot = d[k].slot
  BY <1>2, <1>4, <1>5
<1>7. (\A i : In(o, i) <=> In(d, i)) /\ Distinct(o) /\ In(d, d[1].slot)
  BY <1>1, <1>4, <1>6 DEF In, Distinct, n
<1>8. \A i : Off(d, i) <=> \E k \in 2 .. n : d[k].slot = i /\ ~d[k].member
  <2>1. \A k \in 2 .. n : k \in 1 .. n
    BY <1>1
  <2> QED
    BY <1>5, <2>1 DEF Off, n
<1>9. \A i : Off(o, i) <=> i = d[1].slot \/ \E k \in 2 .. n : d[k].slot = i /\ ~d[k].member
  <2>1. \A k \in 2 .. n : k \in 1 .. n
    BY <1>1
  <2> QED
    BY <1>1, <1>2, <1>4, <1>5, <2>1 DEF Off
<1>10. ~Off(d, d[1].slot)
  <2>1. \A k \in 2 .. n : k \in 1 .. n /\ k # 1
    BY <1>1
  <2> QED
    BY <1>1, <1>8, <2>1 DEF Distinct, n
<1>11. o # <<>>
  BY <1>1, <1>4, EmptySeq
<1> QED
  BY <1>4, <1>7, <1>8, <1>9, <1>10, <1>11 DEF o, x

\* The innermost destructor returns.
LEMMA Returned ==
  ASSUME NEW d \in Seq(Unwinding), d # <<>>, Distinct(d)
  PROVE  /\ Tail(d) \in Seq(Unwinding) /\ Distinct(Tail(d))
         /\ d[1].slot \in Slots /\ In(d, d[1].slot)
         /\ \A i : In(Tail(d), i) <=> In(d, i) /\ i # d[1].slot
         /\ \A i : i # d[1].slot => (Off(Tail(d), i) <=> Off(d, i))
<1> DEFINE t == Tail(d)
           n == Len(d)
<1>1. n \in Nat \ {0} /\ 1 \in 1 .. n /\ d[1] \in Unwinding
  BY LenProperties, EmptySeq, ElementOfSeq
<1>2. /\ t \in Seq(Unwinding) /\ Len(t) = n - 1
      /\ \A k \in 1 .. n - 1 : t[k] = d[k + 1]
  BY HeadTailProperties
<1> HIDE DEF t, n
<1>3. \A k \in 1 .. n - 1 : k + 1 \in 1 .. n /\ k + 1 # 1
  BY <1>1
<1>4. \A k \in 1 .. n : k = 1 \/ (k - 1 \in 1 .. n - 1 /\ d[k] = t[k - 1])
  <2> SUFFICES ASSUME NEW k \in 1 .. n, k # 1 PROVE k - 1 \in 1 .. n - 1 /\ d[k] = t[k - 1]
    OBVIOUS
  <2>1. k - 1 \in 1 .. n - 1 /\ (k - 1) + 1 = k
    BY <1>1
  <2> QED
    BY <1>2, <2>1
<1>5. \A i : In(t, i) <=> In(d, i) /\ i # d[1].slot
  BY <1>1, <1>2, <1>3, <1>4, SMTT(30) DEF In, Distinct, n
<1>6. \A i : i # d[1].slot => (Off(t, i) <=> Off(d, i))
  BY <1>1, <1>2, <1>3, <1>4 DEF Off, n
<1>7. Distinct(t)
  <2> SUFFICES ASSUME NEW k \in 1 .. n - 1, NEW l \in 1 .. n - 1, t[k].slot = t[l].slot
               PROVE  k = l
    BY <1>2 DEF Distinct
  <2>1. k + 1 = l + 1
    BY <1>2, <1>3 DEF Distinct, n
  <2> QED
    BY <1>1, <2>1
<1> QED
  BY <1>1, <1>2, <1>5, <1>6, <1>7 DEF t, In, n, Unwinding
LEMMA DyingIsDistinct ==
  ASSUME IInv
  PROVE  /\ Distinct(dying) /\ dying \in Seq(Unwinding)
         /\ \A i : In(dying, i) => i \in live /\ word[i] = 0
<1>1. Distinct(dying) /\ dying \in Seq(Unwinding)
  BY DEF IInv, DyingInv, Distinct, Typed
<1>2. ASSUME NEW i, In(dying, i) PROVE i \in live /\ word[i] = 0
  <2>1. i \in live
    BY <1>2 DEF IInv, DyingInv, In
  <2>2. Dying(i)
    BY <1>2 DEF Dying, In
  <2> QED
    BY <2>1, <2>2 DEF IInv, DyingInv
<1> QED
  BY <1>1, <1>2

LEMMA KeepDestroyMember == ASSUME IInv, DestroyMember PROVE IInv'
<1> DEFINE i == dying[1].slot
           j == ptr[i]
           outer == <<[slot |-> i, member |-> FALSE]>> \o Tail(dying)
<1>1. /\ dying # <<>> /\ dying[1].member /\ dying \in Seq(Unwinding) /\ Distinct(dying)
      /\ UNCHANGED <<size, free, ptr, live, todo>>
      /\ IF j = kInvalidIndex
         THEN dying' = outer /\ word' = word
         ELSE /\ word' = [word EXCEPT ![j] = @ + 1]
              /\ dying' = IF word[j] + 1 = 0
                          THEN <<[slot |-> j, member |-> TRUE]>> \o outer ELSE outer
  BY DyingIsDistinct DEF DestroyMember
<1>2. /\ outer \in Seq(Unwinding) /\ outer # <<>> /\ Distinct(outer)
      /\ \A k : In(outer, k) <=> In(dying, k)
      /\ \A k : Off(outer, k) <=> Off(dying, k) \/ k = i
      /\ ~Off(dying, i) /\ In(dying, i)
  BY <1>1, MemberGone
<1>3. /\ i \in live /\ word[i] = 0 /\ i \in Slots /\ i \in Holders /\ i \notin Vars
  BY <1>2, DyingIsDistinct, LiveAreSlots, HoldersAreFinite DEF IInv
<1> HIDE DEF i, j, outer
<1>4. todo # Idle /\ todo.dst \notin Vars => todo.dst # i
  BY <1>3 DEF IInv, TodoInv, Anchors
<1>5. Counting(i)
  <2>1. ~(todo.op = "assign" /\ todo.dst = i)
    BY <1>3, <1>4 DEF Idle
  <2> QED
    BY <1>2, <1>3, <2>1, InOff
<1>6. /\ j \in Slots \cup {kInvalidIndex} /\ kInvalidIndex \notin Slots
      /\ j # kInvalidIndex => j \in live /\ word[j] <= -1 /\ ~In(dying, j)
  <2>1. j \in Slots \cup {kInvalidIndex} /\ kInvalidIndex \notin Slots
    BY <1>3, HoldersAreFinite DEF IInv, Typed, j
  <2>2. j # kInvalidIndex => j \in live /\ word[j] <= -1
    BY <1>3, <1>5, PointedTo DEF j
  <2>3. j # kInvalidIndex => word[j] # 0
    BY <2>2
  <2> QED
    BY <2>1, <2>2, <2>3, DyingIsDistinct
<1>7. /\ dying' \in Seq(Unwinding) /\ dying' # <<>> /\ Distinct(dying')
      /\ \A k : In(dying', k) <=> In(dying, k) \/ (k = j /\ j # kInvalidIndex /\ word[j] + 1 = 0)
      /\ \A k : Off(dying', k) <=> Off(dying, k) \/ k = i
  <2>1. CASE j # kInvalidIndex /\ word[j] + 1 = 0
    <3>1. dying' = <<[slot |-> j, member |-> TRUE]>> \o outer
      BY <1>1, <2>1
    <3>2. j \in Slots /\ ~In(outer, j)
      BY <1>2, <1>6, <2>1
    <3>3. /\ dying' \in Seq(Unwinding) /\ Distinct(dying')
          /\ \A k : In(dying', k) <=> In(outer, k) \/ k = j
          /\ \A k : Off(dying', k) <=> Off(outer, k)
      BY <1>2, <3>1, <3>2, Begun
    <3>4. dying' # <<>>
      <4>1. In(dying', j)
        BY <3>3
      <4> QED
        BY <4>1, EmptySeq DEF In
    <3> QED
      BY <1>2, <2>1, <3>3, <3>4
  <2>2. CASE ~(j # kInvalidIndex /\ word[j] + 1 = 0)
    <3>1. dying' = outer
      BY <1>1, <2>2
    <3> QED
      BY <1>2, <2>2, <3>1
  <2> QED
    BY <2>1, <2>2
<1>8. \A g \in Holders : Counting(g)' <=> Counting(g) /\ g # i
  BY <1>1, <1>7, InOff
<1>9. \A k \in Slots : Pending(k)' = Pending(k)
  BY <1>1 DEF Pending
<1>10. \A k \in Slots : Dying(k)' <=> Dying(k) \/ (k = j /\ word[k] + 1 = 0)
  BY <1>6, <1>7, InOff
<1>11. word' = IF ptr[i] = kInvalidIndex THEN word ELSE [word EXCEPT ![ptr[i]] = @ + 1]
  BY <1>1 DEF j
<1>12. /\ word' \in [Slots -> Int] /\ CountInv' /\ FreeInv'
       /\ \A k \in live : word'[k] <= 0 /\ (word'[k] = 0 <=> Dying(k)')
  <2>1. \A k \in Slots : Dying(k)' <=> Dying(k) \/ (k = ptr[i] /\ word[k] + 1 = 0)
    BY <1>10 DEF j
  <2> QED
    BY <1>1, <1>3, <1>5, <1>8, <1>9, <1>11, <2>1, GiveUpOne
<1>13. Typed'
  BY <1>1, <1>7, <1>12 DEF IInv, Typed
<1>14. DyingInv'
  <2>1. \A k : In(dying', k) => k \in live'
    BY <1>1, <1>6, <1>7, DyingIsDistinct
  <2>2. \A k \in 1 .. Len(dying') : dying'[k].slot \in live'
    BY <2>1 DEF In
  <2> QED
    BY <1>1, <1>7, <1>12, <2>2 DEF DyingInv, Distinct
<1>15. TodoInv'
  <2> SUFFICES ASSUME todo # Idle
               PROVE  /\ todo.op = "unref" => FALSE
                      /\ todo.dst \notin Vars => \E P \in SUBSET Slots : Anchors(P, todo.dst)'
    BY <1>1 DEF IInv, TodoInv
  <2>1. todo.op # "unref"
    BY <1>1 DEF IInv, TodoInv
  <2>2. ASSUME todo.dst \notin Vars PROVE \E P \in SUBSET Slots : Anchors(P, todo.dst)'
    <3>1. PICK P \in SUBSET Slots : Anchors(P, todo.dst)
      BY <2>2 DEF IInv, TodoInv
    <3>2. i \notin P
      BY <1>3, <3>1 DEF Anchors
    <3>3. ASSUME NEW d, d = todo.dst PROVE Anchors(P, d)'
      <4>1. Anchors(P, d) /\ d \notin Vars /\ i \notin Vars \cup P
        BY <1>3, <2>2, <3>1, <3>2, <3>3
      <4>2. ptr' = ptr /\ live' = live /\ Counting(i) /\ i \in Holders /\ todo # Idle
        BY <1>1, <1>3, <1>5
      <4> QED
        BY <1>11, <3>3, <4>1, <4>2, AnchorsHold
    <3> QED
      BY <1>1, <3>3 DEF Anchors
  <2> QED
    BY <2>1, <2>2
<1> QED
  BY <1>12, <1>13, <1>14, <1>15 DEF IInv

\* A slot that becomes free is put in front of the free list ...
LEMMA LinkedPush ==
  ASSUME NEW w \in [Slots -> Int], NEW first, NEW S \in SUBSET Slots, NEW i \in Slots \ S,
         \E n, f : Linked(n, f, w, first, S)
  PROVE  \E n, f : Linked(n, f, [w EXCEPT ![i] = first], i, S \cup {i})
<1>1. PICK n, f : Linked(n, f, w, first, S)
  OBVIOUS
<1> DEFINE m == n + 1
           e == [k \in 1 .. m |-> IF k = 1 THEN i ELSE f[k - 1]]
           u == [w EXCEPT ![i] = first]
<1>2. n \in Nat /\ m \in Nat /\ f \in [1 .. n -> S] /\ m = n + 1
  BY <1>1 DEF Linked
<1>3. \A k \in 2 .. m : k - 1 \in 1 .. n /\ k \in 1 .. m /\ e[k] = f[k - 1]
  BY <1>2
<1>4. e[1] = i /\ 1 \in 1 .. m /\ \A k \in 1 .. n : e[k + 1] = f[k] /\ k + 1 \in 1 .. m
  BY <1>2
<1>5. \A k \in 1 .. m : k = 1 \/ k \in 2 .. m
  BY <1>2
<1>6. \A k \in S : u[k] = w[k]
  OBVIOUS
<1>7. u[i] = first
  OBVIOUS
<1>8. e \in [1 .. m -> S \cup {i}]
  BY <1>2, <1>3, <1>4, <1>5
<1> HIDE DEF e, u, m
<1>9. \A x \in S \cup {i} : \E k \in 1 .. m : e[k] = x
  <2> SUFFICES ASSUME NEW x \in S PROVE \E k \in 1 .. m : e[k] = x
    BY <1>4
  <2>1. PICK k \in 1 .. n : f[k] = x
    BY <1>1 DEF Linked
  <2>2. e[k + 1] = x /\ k + 1 \in 1 .. m
    BY <1>4, <2>1
  <2> QED
    BY <2>2
<1>10. \A k, l \in 1 .. m : e[k] = e[l] => k = l
  <2> SUFFICES ASSUME NEW k \in 1 .. m, NEW l \in 1 .. m, e[k] = e[l] PROVE k = l
    OBVIOUS
  <2>1. \A x \in 2 .. m : e[x] \in S
    BY <1>2, <1>3
  <2>2. CASE k = 1 \/ l = 1
    BY <1>4, <1>5, <2>1, <2>2
  <2>3. CASE k \in 2 .. m /\ l \in 2 .. m
    <3>1. k - 1 = l - 1
      BY <1>1, <1>3, <2>3 DEF Linked
    <3> QED
      BY <1>2, <3>1
  <2> QED
    BY <1>5, <2>2, <2>3
<1>11. \A k \in 1 .. m : u[e[k]] = IF k = m THEN kInvalidIndex ELSE e[k + 1]
  <2> SUFFICES ASSUME NEW k \in 1 .. m
               PROVE  u[e[k]] = IF k = m THEN kInvalidIndex ELSE e[k + 1]
    OBVIOUS
  <2>1. CASE k = 1
    <3>1. u[e[k]] = IF n = 0 THEN kInvalidIndex ELSE f[1]
      BY <1>1, <1>4, <1>7, <2>1 DEF Linked
    <3>2. n # 0 => e[2] = f[1]
      BY <1>2, <1>4
    <3> QED
      BY <1>2, <2>1, <3>1, <3>2
  <2>2. CASE k \in 2 .. m
    <3> DEFINE l == k - 1
    <3>1. l \in 1 .. n /\ k = l + 1 /\ e[k] = f[l]
      BY <1>2, <1>3, <2>2
    <3> HIDE DEF l
    <3>2. u[e[k]] = w[f[l]]
      BY <1>2, <1>6, <3>1
    <3>3. w[f[l]] = IF l = n THEN kInvalidIndex ELSE f[l + 1]
      BY <1>1, <3>1 DEF Linked
    <3>4. l # n => l + 1 \in 1 .. n
      BY <1>2, <3>1
    <3>5. l # n => e[k + 1] = f[l + 1]
      BY <1>4, <3>1, <3>4
    <3> QED
      BY <1>2, <3>1, <3>2, <3>3, <3>5
  <2> QED
    BY <1>5, <2>1, <2>2
<1>12. Linked(m, e, u, i, S \cup {i})
  <2>1. m # 0
    BY <1>2
  <2> QED
    BY <1>2, <1>4, <1>8, <1>9, <1>10, <1>11, <2>1 DEF Linked
<1> QED
  BY <1>12 DEF u

\* ... and the first one is taken off it.
LEMMA LinkedPop ==
  ASSUME NEW w \in [Slots -> Int], NEW i \in Slots, NEW S \in SUBSET Slots, NEW u,
         \E n, f : Linked(n, f, w, i, S),
         \A k \in S \ {i} : u[k] = w[k]
  PROVE  /\ i \in S
         /\ w[i] \in S \cup {kInvalidIndex}
         /\ \E n, f : Linked(n, f, u, w[i], S \ {i})
<1>1. PICK n, f : Linked(n, f, w, i, S)
  OBVIOUS
<1> DEFINE m == n - 1
           e == [k \in 1 .. m |-> f[k + 1]]
<1>2. /\ n \in Nat \ {0} /\ f \in [1 .. n -> S] /\ i = f[1] /\ 1 \in 1 .. n
      /\ m \in Nat /\ n = m + 1
  <2>1. n \in Nat /\ n # 0
    BY <1>1, HoldersAreFinite DEF Linked
  <2> QED
    BY <1>1, <2>1 DEF Linked
<1>3. \A k \in 1 .. m : k + 1 \in 1 .. n /\ k + 1 # 1 /\ e[k] = f[k + 1] /\ k \in 1 .. n
  BY <1>2
<1>4. \A k \in 1 .. n : k = 1 \/ (k - 1 \in 1 .. m /\ e[k - 1] = f[k])
  <2> SUFFICES ASSUME NEW k \in 1 .. n, k # 1 PROVE k - 1 \in 1 .. m /\ e[k - 1] = f[k]
    OBVIOUS
  <2>1. k - 1 \in 1 .. m /\ (k - 1) + 1 = k
    BY <1>2
  <2> QED
    BY <1>3, <2>1
<1>5. w[i] = IF n = 1 THEN kInvalidIndex ELSE f[2]
  <2>1. w[f[1]] = IF 1 = n THEN kInvalidIndex ELSE f[1 + 1]
    BY <1>1, <1>2 DEF Linked
  <2> QED
    BY <1>2, <2>1
<1>6. w[i] = IF m = 0 THEN kInvalidIndex ELSE e[1]
  <2>1. CASE m = 0
    BY <1>2, <1>5, <2>1
  <2>2. CASE m # 0
    <3>1. 1 \in 1 .. m /\ 1 + 1 = 2 /\ n # 1
      BY <1>2, <2>2
    <3>2. e[1] = f[2]
      BY <1>3, <3>1
    <3> QED
      BY <1>5, <2>2, <3>1, <3>2
  <2> QED
    BY <2>1, <2>2
<1>7. \A k \in 1 .. m : f[k + 1] \in S \ {i}
  <2> SUFFICES ASSUME NEW k \in 1 .. m PROVE f[k + 1] \in S /\ f[k + 1] # f[1]
    BY <1>2
  <2>1. k + 1 \in 1 .. n /\ k + 1 # 1
    BY <1>3
  <2>2. f[k + 1] = f[1] => k + 1 = 1
    BY <1>1, <1>2, <2>1 DEF Linked
  <2> QED
    BY <1>2, <2>1, <2>2
<1>8. e \in [1 .. m -> S \ {i}]
  BY <1>7
<1> HIDE DEF e, m
<1>9. \A x \in S \ {i} : \E k \in 1 .. m : e[k] = x
  <2> SUFFICES ASSUME NEW x \in S, x # f[1] PROVE \E k \in 1 .. m : e[k] = x
    BY <1>2
  <2>1. PICK k \in 1 .. n : f[k] = x
    BY <1>1 DEF Linked
  <2>2. k - 1 \in 1 .. m /\ e[k - 1] = x
    BY <1>4, <2>1
  <2> QED
    BY <2>2
<1>10. \A k, l \in 1 .. m : e[k] = e[l] => k = l
  <2> SUFFICES ASSUME NEW k \in 1 .. m, NEW l \in 1 .. m, e[k] = e[l] PROVE k = l
    OBVIOUS
  <2>1. k + 1 = l + 1
    BY <1>1, <1>3 DEF Linked
  <2> QED
    BY <1>2, <2>1
<1>11. \A k \in 1 .. m : u[e[k]] = IF k = m THEN kInvalidIndex ELSE e[k + 1]
  <2> SUFFICES ASSUME NEW k \in 1 .. m
               PROVE  u[e[k]] = IF k = m THEN kInvalidIndex ELSE e[k + 1]
    OBVIOUS
  <2> DEFINE l == k + 1
  <2>1. l \in 1 .. n /\ e[k] = f[l] /\ (l = n <=> k = m)
    BY <1>2, <1>3
  <2>2. k # m => k + 1 \in 1 .. m
    BY <1>2
  <2> HIDE DEF l
  <2>3. u[e[k]] = w[f[l]]
    <3>1. e[k] \in S \ {i}
      BY <1>8
    <3> QED
      BY <2>1, <3>1
  <2>4. w[f[l]] = IF l = n THEN kInvalidIndex ELSE f[l + 1]
    BY <1>1, <2>1 DEF Linked
  <2>5. k # m => e[k + 1] = f[l + 1]
    BY <1>3, <2>2 DEF l
  <2> QED
    BY <2>1, <2>3, <2>4, <2>5
<1>12. Linked(m, e, u, w[i], S \ {i})
  BY <1>2, <1>6, <1>8, <1>9, <1>10, <1>11 DEF Linked
<1>13. w[i] \in S \cup {kInvalidIndex}
  <2>1. CASE m = 0
    BY <1>6, <2>1
  <2>2. CASE m # 0
    <3>1. 1 \in 1 .. m
      BY <1>2, <2>2
    <3> QED
      BY <1>6, <1>8, <2>2, <3>1
  <2> QED
    BY <2>1, <2>2
<1> QED
  BY <1>2, <1>12, <1>13
LEMMA KeepFreeSlot == ASSUME IInv, FreeSlot PROVE IInv'
<1> DEFINE i == dying[1].slot
<1>1. /\ dying # <<>> /\ dying \in Seq(Unwinding) /\ Distinct(dying)
      /\ ~dying[1].member
      /\ live' = live \ {i} /\ word' = [word EXCEPT ![i] = free] /\ free' = i
      /\ dying' = Tail(dying)
      /\ UNCHANGED <<size, ptr, todo>>
  BY DyingIsDistinct DEF FreeSlot
<1>2. /\ dying' \in Seq(Unwinding) /\ Distinct(dying')
      /\ i \in Slots /\ In(dying, i)
      /\ \A k : In(dying', k) <=> In(dying, k) /\ k # i
      /\ \A k : k # i => (Off(dying', k) <=> Off(dying, k))
  BY <1>1, Returned
<1>3. Off(dying, i)
  BY <1>1, LenProperties, EmptySeq DEF Off
<1> HIDE DEF i
<1>4. /\ i \in live /\ word[i] = 0 /\ i \notin Vars /\ i \in Holders
      /\ word \in [Slots -> Int] /\ free \in Slots \cup {kInvalidIndex} /\ free \in Int
      /\ live \subseteq Slots /\ size' = size /\ live \subseteq 0 .. size - 1
  BY <1>1, <1>2, DyingIsDistinct, LiveAreSlots, HoldersAreFinite DEF IInv, Typed, Slots, kInvalidIndex
<1>5. \A g \in Holders : Counting(g)' <=> Counting(g)
  BY <1>1, <1>2, <1>3, <1>4, InOff
<1>6. /\ word' \in [Slots -> Int]
      /\ \A k \in Slots \ {i} : word'[k] = word[k]
  BY <1>1, <1>4
<1>7. Typed'
  BY <1>1, <1>2, <1>4, <1>6 DEF IInv, Typed
<1>8. FreeInv'
  <2>1. FreeSlots' = FreeSlots \cup {i} /\ i \notin FreeSlots /\ FreeSlots \in SUBSET Slots
    BY <1>1, <1>4, LiveAreSlots DEF FreeSlots, IInv
  <2>2. \E n, f : Linked(n, f, word, free, FreeSlots)
    BY DEF IInv, FreeInv
  <2>3. i \in Slots \ FreeSlots
    BY <1>2, <2>1
  <2>4. \E n, f : Linked(n, f, [word EXCEPT ![i] = free], i, FreeSlots \cup {i})
    BY <1>4, <2>1, <2>2, <2>3, LinkedPush
  <2> QED
    BY <1>1, <2>1, <2>4 DEF FreeInv
<1>9. DyingInv'
  <2>1. \A k : In(dying', k) => k \in live'
    BY <1>1, <1>2, DyingIsDistinct
  <2>2. \A k \in 1 .. Len(dying') : dying'[k].slot \in live'
    BY <2>1 DEF In
  <2>3. ASSUME NEW k \in live' PROVE word'[k] <= 0 /\ (word'[k] = 0 <=> Dying(k)')
    <3>1. k \in live /\ k # i /\ k \in Slots
      BY <1>1, <1>4
    <3>2. word[k] <= 0 /\ (word[k] = 0 <=> Dying(k)) /\ word'[k] = word[k]
      BY <1>6, <3>1 DEF IInv, DyingInv
    <3> QED
      BY <1>2, <3>1, <3>2, InOff
  <2> QED
    BY <1>2, <2>2, <2>3 DEF DyingInv, Distinct
<1>10. CountInv'
  <2>1. ASSUME NEW k \in live' PROVE (-word[k] >= Pointing(k))'
    <3>1. k \in live /\ k \in Slots \ {i}
      BY <1>1, <1>4
    <3>2. PointersTo(k)' = PointersTo(k)
      BY <1>1, <1>5 DEF PointersTo
    <3>3. Pending(k)' = Pending(k)
      BY <1>1 DEF Pending
    <3>4. Pointing(k)' = Cardinality(PointersTo(k)') + Pending(k)'
      BY DEF Pointing, PointersTo
    <3>5. Pointing(k)' = Pointing(k)
      BY <3>2, <3>3, <3>4, PointingIs
    <3>6. word'[k] = word[k] /\ -word[k] >= Pointing(k)
      BY <1>6, <3>1 DEF IInv, CountInv
    <3> QED
      BY <3>5, <3>6
  <2>2. ASSUME NEW h \in Holders, Counting(h)', ptr'[h] # kInvalidIndex PROVE ptr'[h] \in live'
    <3>1. ptr[h] \in live /\ word[ptr[h]] <= -1
      BY <1>1, <1>5, <2>2, PointedTo
    <3>2. ptr[h] # i
      BY <1>4, <3>1
    <3> QED
      BY <1>1, <3>1, <3>2
  <2> QED
    BY <2>1, <2>2 DEF CountInv
<1>11. TodoInv'
  <2> SUFFICES ASSUME todo # Idle
               PROVE  /\ todo.op # "unref"
                      /\ todo.then = "take" => todo.src # i
                      /\ todo.dst \notin Vars => \E P \in SUBSET Slots : Anchors(P, todo.dst)'
    BY <1>1 DEF IInv, TodoInv
  <2>1. todo.op # "unref"
    BY <1>1 DEF IInv, TodoInv
  <2>2. todo.then = "take" => todo.src # i
    <3>1. todo.then = "take" => word[todo.src] <= -1
      BY PendingLives
    <3>2. word[i] = 0
      BY <1>4
    <3>3. ASSUME NEW x, word[x] <= -1 PROVE x # i
      BY <3>2, <3>3
    <3> QED
      BY <3>1, <3>3
  <2>3. ASSUME todo.dst \notin Vars PROVE \E P \in SUBSET Slots : Anchors(P, todo.dst)'
    <3>1. PICK P \in SUBSET Slots : Anchors(P, todo.dst)
      BY <2>3 DEF IInv, TodoInv
    <3>2. i \notin P
      BY <1>4, <3>1 DEF Anchors
    <3>3. Anchors(P, todo.dst)'
      BY <1>1, <1>6, <3>1, <3>2 DEF Anchors
    <3> QED
      BY <3>3
  <2> QED
    BY <2>1, <2>2, <2>3
<1> QED
  BY <1>7, <1>8, <1>9, <1>10, <1>11 DEF IInv
\* The pointer AllocObj returns is on its way to v.
Taking(v, i) == [op |-> "unref", dst |-> v, then |-> "take", src |-> i]

\* An index below a size stays below a larger one.
LEMMA Below ==
  ASSUME NEW n \in Nat, NEW m \in Nat, n <= m
  PROVE  \A k \in 0 .. n - 1 : k \in 0 .. m - 1
OBVIOUS

LEMMA BelowSelf ==
  ASSUME NEW m \in Nat, NEW k \in Nat, k < m
  PROVE  k \in 0 .. m - 1
OBVIOUS

\* What AllocObj has done wherever the slot came from.
LEMMA Allocated ==
  ASSUME IInv, AtRest, NEW v \in Vars, NEW i \in Slots, i \notin live,
         size' \in 0 .. MaxSlots, size <= size', i < size',
         free' \in Slots \cup {kInvalidIndex}, FreeInv',
         word' \in [Slots -> Int], word'[i] = -1,
         \A k \in live : word'[k] <= word[k],
         live' = live \cup {i}, ptr' = [ptr EXCEPT ![i] = kInvalidIndex], dying' = dying,
         todo' = Taking(v, i)
  PROVE  IInv'
<1>1. /\ dying = <<>> /\ todo = Idle /\ Len(dying) = 0
      /\ word \in [Slots -> Int] /\ ptr \in [Holders -> Slots \cup {kInvalidIndex}]
      /\ live \subseteq Slots /\ live \subseteq 0 .. size - 1 /\ size \in Nat
      /\ Slots \subseteq Nat /\ Slots \subseteq Holders /\ Vars \subseteq Holders
      /\ i \notin Vars /\ kInvalidIndex \notin Slots
  BY EmptySeq, LiveAreSlots, HoldersAreFinite, SMTT(30) DEF AtRest, IInv, Typed
<1>2. /\ todo' \in Todos /\ todo' # Idle /\ todo'.op = "unref" /\ todo'.then = "take"
      /\ todo'.dst = v /\ todo'.src = i
  BY <1>1 DEF Todos, Idle, Taking
<1>3. Typed'
  <2>1. live' \subseteq 0 .. size' - 1
    <3>1. i \in Nat /\ size' \in Nat
      BY <1>1
    <3>2. size <= size' /\ i < size'
      OBVIOUS
    <3>3. ASSUME NEW k \in live PROVE k \in 0 .. size' - 1
      <4>1. k \in 0 .. size - 1 /\ size \in Nat
        BY <1>1
      <4> QED
        BY <3>1, <3>2, <4>1, Below
    <3>4. i \in 0 .. size' - 1
      BY <3>1, <3>2, BelowSelf
    <3> QED
      BY <3>3, <3>4
  <2>2. ptr' \in [Holders -> Slots \cup {kInvalidIndex}]
    BY <1>1
  <2> QED
    BY <1>2, <2>1, <2>2 DEF IInv, Typed
<1>4. \A k \in live : word[k] <= -1 /\ word'[k] <= -1
  <2> SUFFICES ASSUME NEW k \in live PROVE word[k] <= -1 /\ word'[k] <= -1
    OBVIOUS
  <2>1. word[k] \in Int /\ word'[k] \in Int /\ word[k] <= 0 /\ word[k] # 0
    BY <1>1 DEF IInv, DyingInv, Dying
  <2> QED
    BY <2>1
<1>5. DyingInv'
  <2>1. ASSUME NEW k \in live' PROVE word'[k] <= 0 /\ word'[k] # 0
    <3>1. word'[k] <= -1 /\ word'[k] \in Int
      BY <1>1, <1>4
    <3> QED
      BY <3>1
  <2>2. Len(dying') = 0
    BY <1>1
  <2>3. \A k : ~Dying(k)'
    BY <2>2 DEF Dying
  <2> QED
    BY <2>1, <2>2, <2>3 DEF DyingInv
<1>6. \A k \in Holders : /\ Counting(k) <=> k \in Vars \cup live
                         /\ Counting(k)' <=> k \in Vars \cup live'
  BY <1>1, <1>2 DEF Counting, Idle
<1>7. \A k \in Holders : k \in Vars \cup live /\ ptr[k] # kInvalidIndex => ptr[k] \in live
  BY <1>6 DEF IInv, CountInv
<1>8. \A k \in Holders : ptr'[k] = IF k = i THEN kInvalidIndex ELSE ptr[k]
  BY <1>1
<1>9. ASSUME NEW k \in live' PROVE (-word[k] >= Pointing(k))'
  <2>1. Pointing(k)' = Cardinality(PointersTo(k)') + Pending(k)'
    BY DEF Pointing, PointersTo
  <2>2. CASE k = i
    <3>1. PointersTo(k)' = {}
      <4>1. ASSUME NEW g \in Holders, Counting(g)' PROVE ptr'[g] # k
        BY <1>1, <1>6, <1>7, <1>8, <2>2, <4>1
      <4> QED
        BY <4>1 DEF PointersTo
    <3>2. Cardinality(PointersTo(k)') = 0
      BY <3>1, FS_EmptySet
    <3>3. Pending(k)' = 1
      BY <1>2, <2>2 DEF Pending
    <3> QED
      BY <2>1, <2>2, <3>2, <3>3
  <2>3. CASE k # i
    <3>1. k \in live /\ k # kInvalidIndex
      BY <1>1, <2>3
    <3>2. PointersTo(k)' = PointersTo(k)
      <4>1. ASSUME NEW g \in Holders
            PROVE  (Counting(g)' /\ ptr'[g] = k) <=> (Counting(g) /\ ptr[g] = k)
        BY <1>1, <1>6, <1>8, <3>1
      <4> QED
        BY <4>1 DEF PointersTo
    <3>3. Pending(k)' = 0 /\ Pending(k) = 0
      BY <1>1, <1>2, <2>3 DEF Pending
    <3>4. Pointing(k)' = Pointing(k) /\ Pointing(k) \in Nat
      <4>1. Pointing(k) = Cardinality(PointersTo(k)) + Pending(k)
        BY PointingIs
      <4>2. Cardinality(PointersTo(k)) \in Nat
        BY PointersAreFinite
      <4> QED
        BY <2>1, <3>2, <3>3, <4>1, <4>2
    <3>5. -word[k] >= Pointing(k) /\ word'[k] <= word[k] /\ word[k] \in Int /\ word'[k] \in Int
      BY <1>1, <3>1 DEF IInv, CountInv
    <3> QED
      BY <3>4, <3>5
  <2> QED
    BY <2>2, <2>3
<1>10. \A h \in Holders : Counting(h)' /\ ptr'[h] # kInvalidIndex => ptr'[h] \in live'
  BY <1>6, <1>7, <1>8
<1>11. CountInv'
  BY <1>9, <1>10 DEF CountInv
<1>12. TodoInv'
  BY <1>1, <1>2 DEF TodoInv
<1> QED
  BY <1>3, <1>5, <1>11, <1>12 DEF IInv

LEMMA MovedIsLess == ASSUME Typed, NEW i \in Slots PROVE Moved(i) \in Int /\ Moved(i) <= word[i]
<1> DEFINE K == {k \in 0 .. i - 1 : ptr[k] = i}
<1>1. i \in Int /\ word[i] \in Int
  BY HoldersAreFinite DEF Typed
<1>2. IsFiniteSet(0 .. i - 1) /\ K \in SUBSET (0 .. i - 1)
  BY <1>1, FS_Interval
<1>3. Cardinality(K) \in Nat
  BY <1>2, FS_Subset, FS_CardinalityType
<1> QED
  BY <1>1, <1>3 DEF Moved

LEMMA KeepAlloc == ASSUME IInv, NEW v \in Vars, Alloc(v) PROVE IInv'
<1>1. PICK n, f : Linked(n, f, word, free, FreeSlots)
  BY DEF IInv, FreeInv
<1>2. /\ size \in 0 .. MaxSlots /\ size \in Nat /\ MaxSlots \in Nat /\ Inc \in Nat \ {0}
      /\ word \in [Slots -> Int] /\ FreeSlots \in SUBSET Slots /\ live \subseteq Slots
      /\ Slots \subseteq Nat /\ kInvalidIndex \notin Slots /\ live \subseteq 0 .. size - 1
      /\ free \in Slots \cup {kInvalidIndex}
  BY SharedAssumption, HoldersAreFinite, LiveAreSlots DEF IInv, Typed
<1>3. CASE free # kInvalidIndex
  <2>1. /\ size' = size /\ free' = word[free] /\ word' = [word EXCEPT ![free] = -1]
        /\ live' = live \cup {free} /\ ptr' = [ptr EXCEPT ![free] = kInvalidIndex]
        /\ todo' = Taking(v, free)
        /\ dying' = dying /\ AtRest
    BY <1>3 DEF Alloc, Taking
  <2>2. free \in Slots /\ \A k \in FreeSlots \ {free} : word'[k] = word[k]
    BY <1>2, <1>3, <2>1
  <2>3. /\ free \in FreeSlots
        /\ word[free] \in FreeSlots \cup {kInvalidIndex}
        /\ \E m, e : Linked(m, e, word', word[free], FreeSlots \ {free})
    BY <1>1, <1>2, <2>2, LinkedPop
  <2>4. FreeSlots' = FreeSlots \ {free} /\ free \notin live /\ free < size
    BY <1>2, <2>1, <2>3 DEF FreeSlots
  <2>5. FreeInv'
    BY <2>1, <2>3, <2>4 DEF FreeInv
  <2>6. /\ word' \in [Slots -> Int] /\ word'[free] = -1
        /\ \A k \in live : word'[k] <= word[k]
    <3>1. \A k \in live : word'[k] = word[k] /\ word[k] \in Int
      BY <1>2, <2>1, <2>4
    <3>2. word' \in [Slots -> Int] /\ word'[free] = -1
      BY <1>2, <2>1, <2>2
    <3> QED
      BY <3>1, <3>2
  <2>7. /\ size' \in 0 .. MaxSlots /\ size <= size' /\ free < size'
        /\ free' \in Slots \cup {kInvalidIndex}
    BY <1>2, <2>1, <2>3, <2>4
  <2> QED
    BY <2>1, <2>2, <2>4, <2>5, <2>6, <2>7, Allocated
<1>4. CASE free = kInvalidIndex
  <2>1. /\ size' = size + Inc /\ free' = Grown[size] /\ word' = [Grown EXCEPT ![size] = -1]
        /\ live' = live \cup {size} /\ ptr' = [ptr EXCEPT ![size] = kInvalidIndex]
        /\ todo' = Taking(v, size)
        /\ dying' = dying /\ AtRest /\ size + Inc <= MaxSlots
    BY <1>4 DEF Alloc, Taking
  <2>2. FreeSlots = {} /\ live = 0 .. size - 1
    <3>1. n = 0
      <4> SUFFICES ASSUME n # 0 PROVE FALSE
        OBVIOUS
      <4>1. 1 \in 1 .. n /\ free = f[1] /\ f \in [1 .. n -> FreeSlots]
        BY <1>1 DEF Linked
      <4>2. free \in FreeSlots
        BY <4>1
      <4> QED
        BY <1>2, <1>4, <4>2
    <3>2. FreeSlots = {}
      BY <1>1, <3>1 DEF Linked
    <3> QED
      BY <1>2, <3>2 DEF FreeSlots
  <2>3. /\ size \in Slots /\ size \notin live
        /\ size + Inc - 1 \in Slots /\ \A k \in size .. size + Inc - 1 : k \in Slots
    BY <1>2, <2>1, <2>2 DEF Slots
  <2>4. /\ Grown \in [Slots -> Int]
        /\ \A k \in Slots : Grown[k] = IF k \in size .. size + Inc - 2 THEN k + 1
                                       ELSE IF k = size + Inc - 1 THEN kInvalidIndex
                                       ELSE IF k < size THEN Moved(k) ELSE word[k]
    <3>1. \A k \in Slots : Moved(k) \in Int
      BY MovedIsLess DEF IInv
    <3>2. kInvalidIndex \in Int
      BY DEF kInvalidIndex
    <3> QED
      BY <1>2, <3>1, <3>2 DEF Grown
  <2>5. /\ word' \in [Slots -> Int] /\ word'[size] = -1
        /\ \A k \in Slots \ {size} : word'[k] = Grown[k]
    BY <2>1, <2>3, <2>4
  <2>6. \A k \in live : word'[k] <= word[k]
    <3> SUFFICES ASSUME NEW k \in live PROVE word'[k] <= word[k]
      OBVIOUS
    <3>1. k \in Slots /\ k < size /\ k # size /\ ~(k \in size .. size + Inc - 2) /\ k # size + Inc - 1
      BY <1>2
    <3>2. word'[k] = Moved(k)
      BY <2>4, <2>5, <3>1
    <3> QED
      BY <3>1, <3>2, MovedIsLess DEF IInv
  <2> DEFINE m == Inc - 1
             e == [k \in 1 .. m |-> size + k]
             S == size + 1 .. size + Inc - 1
  <2>7. FreeSlots' = S
    BY <1>2, <2>1, <2>2 DEF FreeSlots
  <2>8. Linked(m, e, word', free', S)
    <3>1. m \in Nat /\ e \in [1 .. m -> S]
      BY <1>2
    <3>2. \A k \in 1 .. m : e[k] = size + k /\ k \in Nat
      OBVIOUS
    <3>3. \A x \in S : x - size \in 1 .. m /\ e[x - size] = x
      BY <1>2
    <3>4. \A k, l \in 1 .. m : e[k] = e[l] => k = l
      BY <1>2, <3>2
    <3>5. free' = IF m = 0 THEN kInvalidIndex ELSE e[1]
      <4>1. CASE Inc = 1
        BY <1>2, <2>1, <2>3, <2>4, <4>1
      <4>2. CASE Inc # 1
        <5>1. size \in size .. size + Inc - 2 /\ 1 \in 1 .. m /\ m # 0
          BY <1>2, <4>2
        <5>2. Grown[size] = size + 1
          BY <2>3, <2>4, <5>1
        <5> QED
          BY <2>1, <3>2, <5>1, <5>2
      <4> QED
        BY <4>1, <4>2
    <3>6. ASSUME NEW k \in 1 .. m
          PROVE  word'[e[k]] = IF k = m THEN kInvalidIndex ELSE e[k + 1]
      <4>1. /\ size + k \in Slots \ {size} /\ e[k] = size + k
            /\ k = m => ~(size + k \in size .. size + Inc - 2) /\ size + k = size + Inc - 1
            /\ k # m => size + k \in size .. size + Inc - 2 /\ k + 1 \in 1 .. m
        BY <1>2, <2>3, <3>2
      <4>2. word'[e[k]] = Grown[size + k]
        BY <2>5, <4>1
      <4>3. CASE k = m
        BY <2>4, <4>1, <4>2, <4>3
      <4>4. CASE k # m
        <5>1. Grown[size + k] = (size + k) + 1
          BY <2>4, <4>1, <4>4
        <5>2. e[k + 1] = size + (k + 1)
          BY <3>2, <4>1, <4>4
        <5>3. (size + k) + 1 = size + (k + 1)
          BY <1>2
        <5> QED
          BY <4>2, <4>4, <5>1, <5>2, <5>3
      <4> QED
        BY <4>3, <4>4
    <3> HIDE DEF m, e, S
    <3> QED
      BY <3>1, <3>3, <3>4, <3>5, <3>6 DEF Linked
  <2> HIDE DEF m, e, S
  <2>9. FreeInv'
    BY <2>7, <2>8 DEF FreeInv
  <2>10. /\ size' \in 0 .. MaxSlots /\ size <= size' /\ size < size'
    BY <1>2, <2>1
  <2>11. free' \in Slots \cup {kInvalidIndex}
    <3>1. size \in size .. size + Inc - 2 => size + 1 \in size .. size + Inc - 1
      BY <1>2
    <3>2. size = size + Inc - 1 \/ size \in size .. size + Inc - 2
      BY <1>2
    <3> QED
      BY <2>1, <2>3, <2>4, <3>1, <3>2
  <2> QED
    BY <2>1, <2>3, <2>5, <2>6, <2>9, <2>10, <2>11, Allocated
<1> QED
  BY <1>3, <1>4

LEMMA NextInv == ASSUME IInv, [Next]_vars PROVE IInv'
<1>1. CASE \E v \in Vars : Alloc(v)
  BY <1>1, KeepAlloc
<1>2. CASE \E h \in Holders : Release(h)
  BY <1>2, KeepRelease
<1>3. CASE \E h \in Holders, g \in Vars : Copy(h, g)
  BY <1>3, KeepCopy
<1>4. CASE \E h \in Holders, g \in Vars : Move(h, g)
  BY <1>4, KeepMove
<1>5. CASE GiveUp
  BY <1>5, KeepGiveUp
<1>6. CASE Assign
  BY <1>6, KeepAssign
<1>7. CASE DestroyMember
  BY <1>7, KeepDestroyMember
<1>8. CASE FreeSlot
  BY <1>8, KeepFreeSlot
<1>9. CASE UNCHANGED vars
  BY <1>9, KeepStutter
<1> QED
  BY <1>1, <1>2, <1>3, <1>4, <1>5, <1>6, <1>7, <1>8, <1>9 DEF Next

\* The counts, the free list, the destructors in progress and the assignment that
\* started them stay consistent in every execution.
THEOREM Invariance == Spec => []IInv
<1>1. Init => IInv
  BY InitInv
<1>2. IInv /\ [Next]_vars => IInv'
  BY NextInv
<1> QED
  BY <1>1, <1>2, PTL DEF Spec

\* No pointer leaves the array, which only grows.
Within == ptr \in [Holders -> Indexes]

LEMMA WithinNext == ASSUME IInv, Within, [Next]_vars PROVE Within'
<1>1. /\ size \in Nat /\ ptr \in [Holders -> Slots \cup {kInvalidIndex}]
      /\ live \subseteq 0 .. size - 1
      /\ Slots \subseteq Holders /\ Vars \subseteq Holders
  BY SharedAssumption, HoldersAreFinite DEF IInv, Typed
<1>2. Indexes = (0 .. size - 1) \cup {kInvalidIndex}
  BY DEF Indexes
<1>3. Indexes' = (0 .. size' - 1) \cup {kInvalidIndex}
  BY DEF Indexes, kInvalidIndex
<1>4. ASSUME UNCHANGED <<size, ptr>> PROVE Within'
  BY <1>2, <1>3, <1>4 DEF Within
<1>5. CASE \E v \in Vars : Alloc(v)
  <2>1. PICK v \in Vars : Alloc(v)
    BY <1>5
  <2>2. size' = size \/ size' = size + Inc
    BY <2>1 DEF Alloc
  <2>3. size' \in Nat /\ size <= size'
    BY <1>1, <2>2, SharedAssumption
  <2>4. Indexes \subseteq Indexes'
    BY <1>1, <1>2, <1>3, <2>3, Below
  <2>5. PICK i : ptr' = [ptr EXCEPT ![i] = kInvalidIndex]
    BY <2>1 DEF Alloc
  <2>6. kInvalidIndex \in Indexes'
    BY <1>3
  <2> QED
    BY <2>4, <2>5, <2>6 DEF Within, kInvalidIndex
<1>6. CASE \E h \in Holders : Release(h) \/ \E g \in Vars : Copy(h, g) \/ Move(h, g)
  BY <1>4, <1>6 DEF Release, Copy, Move
<1>7. CASE GiveUp
  BY <1>4, <1>7 DEF GiveUp
<1>8. CASE Assign
  <2>1. todo # Idle /\ todo \in Todos /\ size' = size
    BY <1>8 DEF IInv, Typed, Assign, Idle
  <2>2. todo.src \in Holders
    BY <2>1 DEF Todos
  <2>3. todo.then = "take" => todo.src \in Indexes
    BY <1>1, <1>2, <2>1 DEF IInv, TodoInv
  <2>4. ptr[todo.src] \in Indexes /\ kInvalidIndex \in Indexes
    BY <1>2, <2>2 DEF Within
  <2>5. \/ \E x \in Indexes : ptr' = [ptr EXCEPT ![todo.dst] = x]
        \/ ptr' = [ptr EXCEPT ![todo.dst] = ptr[todo.src], ![todo.src] = kInvalidIndex]
    BY <1>8, <2>3, <2>4 DEF Assign
  <2>6. ptr' \in [Holders -> Indexes]
    BY <2>4, <2>5 DEF Within
  <2>7. Indexes' = Indexes
    BY <1>2, <1>3, <2>1
  <2> QED
    BY <2>6, <2>7 DEF Within
<1>9. CASE DestroyMember
  BY <1>4, <1>9 DEF DestroyMember
<1>10. CASE FreeSlot
  BY <1>4, <1>10 DEF FreeSlot
<1>11. CASE UNCHANGED vars
  BY <1>4, <1>11 DEF vars
<1> QED
  BY <1>5, <1>6, <1>7, <1>8, <1>9, <1>10, <1>11 DEF Next

\* The size, the words, the free list, the pointers and what is under way in a
\* SharedObjArray keep their types: no pointer and no free index lies outside of it.
THEOREM TypeCorrect == Spec => []TypeOK
<1>1. Init => Within
  BY DEF Init, Within, Indexes
<1>2. IInv /\ Within /\ [Next]_vars => Within'
  BY WithinNext
<1>3. IInv /\ Within => TypeOK
  <2> SUFFICES ASSUME IInv, Within PROVE TypeOK
    OBVIOUS
  <2>1. todo = Idle \/ todo \in [op : {"unref", "assign"}, dst : Holders, src : Holders,
                                 then : {"take", "copy", "move", "reset"}]
    <3>1. todo = Idle \/ todo \in Todos
      BY DEF IInv, Typed
    <3> QED
      BY <3>1, Zenon DEF Todos
  <2>2. dying \in Seq([slot : Slots, member : BOOLEAN])
    BY DEF IInv, Typed, Unwinding
  <2>3. free \in Indexes
    <3>1. PICK n, f : Linked(n, f, word, free, FreeSlots)
      BY DEF IInv, FreeInv
    <3>2. CASE n = 0
      BY <3>1, <3>2 DEF Linked, Indexes
    <3>3. CASE n # 0
      <4>1. f[1] \in FreeSlots /\ free = f[1]
        BY <3>1, <3>3 DEF Linked
      <4> QED
        BY <4>1 DEF FreeSlots, Indexes
    <3> QED
      BY <3>2, <3>3
  <2>4. size \in 0 .. MaxSlots /\ word \in [Slots -> Int] /\ live \subseteq 0 .. size - 1
    BY DEF IInv, Typed
  <2> QED
    BY <2>1, <2>2, <2>3, <2>4, Zenon DEF TypeOK, Within
<1> QED
  BY <1>1, <1>2, <1>3, Invariance, PTL DEF Spec

\* A SharedObjArray never counts fewer references than there are pointers, also
\* while destructors run inside an assignment and after it has grown.
THEOREM EnoughCounted == Spec => []CountsSuffice
<1>1. IInv => CountsSuffice
  BY DEF IInv, CountInv, CountsSuffice
<1> QED
  BY <1>1, Invariance, PTL

\* No SharedObjPtr refers to an object whose destructor has begun, or to a slot
\* that was given back.
THEOREM PointersLive == Spec => []NoneDangles
<1>1. ASSUME IInv, NEW h \in Holders, Counting(h), ptr[h] # kInvalidIndex
      PROVE  ptr[h] \in live /\ ~\E k \in 1 .. Len(dying) : dying[k].slot = ptr[h]
  <2>1. ptr[h] \in live /\ word[ptr[h]] <= -1 /\ word[ptr[h]] \in Int
    BY <1>1, PointedTo
  <2>2. word[ptr[h]] # 0
    BY <2>1
  <2>3. ~Dying(ptr[h])
    BY <1>1, <2>1, <2>2 DEF IInv, DyingInv
  <2> QED
    BY <2>1, <2>3 DEF Dying
<1>2. IInv => NoneDangles
  BY <1>1 DEF NoneDangles
<1> QED
  BY <1>2, Invariance, PTL
-----------------------------------------------------------------------------
(* The free list, walked along, is the slots without an object.            *)

\* A set of numbers with 0 that has the successor of each of its members has all.
LEMMA Induct ==
  ASSUME NEW S \in SUBSET Nat, 0 \in S, \A k \in S : k + 1 \in S
  PROVE  S = Nat
<1> SUFFICES ASSUME Nat \ S # {} PROVE FALSE
  OBVIOUS
<1>1. PICK m \in Nat \ S : \A y \in Nat \ S : ~(<<y, m>> \in OpToRel(<, Nat))
  BY NatLessThanWellFounded, WFMin
<1>a. m \in Nat /\ m \notin S
  BY <1>1
<1>2. m # 0 /\ m - 1 \in Nat /\ m - 1 < m
  <2>1. m # 0
    BY <1>a
  <2> QED
    BY <1>a, <2>1
<1>3. m - 1 \in S
  <2> SUFFICES ASSUME m - 1 \notin S PROVE FALSE
    OBVIOUS
  <2>1. <<m - 1, m>> \in OpToRel(<, Nat)
    BY <1>1, <1>2 DEF OpToRel
  <2> QED
    BY <1>1, <1>2, <2>1
<1>4. m - 1 + 1 = m
  BY <1>a
<1>5. m \in S
  BY <1>3, <1>4
<1> QED
  BY <1>a, <1>5

\* One more round of the walk along the list, and the rounds 0 .. m.
Hop(w, W) == W \cup {w[i] : i \in W \cap Slots}

IsWalk(walk, w, first, m) ==
  walk = [n \in 0 .. m |-> IF n = 0 THEN {first} ELSE Hop(w, walk[n - 1])]

\* There is a walk of any length: a shorter one can be continued.
LEMMA WalkExists ==
  ASSUME NEW w, NEW first, NEW m \in Nat
  PROVE  \E walk : IsWalk(walk, w, first, m)
<1> DEFINE S == {k \in Nat : \E walk : IsWalk(walk, w, first, k)}
<1>1. 0 \in S
  <2> DEFINE t == [n \in 0 .. 0 |-> {first}]
  <2>1. t = [n \in 0 .. 0 |-> IF n = 0 THEN {first} ELSE Hop(w, t[n - 1])]
    OBVIOUS
  <2>2. IsWalk(t, w, first, 0)
    BY <2>1 DEF IsWalk
  <2> QED
    BY <2>2
<1>2. ASSUME NEW k \in S PROVE k + 1 \in S
  <2>1. PICK v : IsWalk(v, w, first, k)
    OBVIOUS
  <2> DEFINE t == [n \in 0 .. k + 1 |-> IF n = k + 1 THEN Hop(w, v[k]) ELSE v[n]]
             u == [n \in 0 .. k + 1 |-> IF n = 0 THEN {first} ELSE Hop(w, t[n - 1])]
  <2>2. \A n \in 0 .. k : v[n] = IF n = 0 THEN {first} ELSE Hop(w, v[n - 1])
    BY <2>1 DEF IsWalk
  <2>3. ASSUME NEW n \in 0 .. k + 1 PROVE t[n] = u[n]
    <3>1. CASE n = k + 1
      <4>1. t[n] = Hop(w, v[k]) /\ n # 0 /\ n - 1 = k /\ t[n - 1] = v[k]
        BY <3>1
      <4>2. u[n] = Hop(w, t[n - 1])
        BY <4>1
      <4> QED
        BY <4>1, <4>2
    <3>2. CASE n = 0
      BY <2>2, <3>2
    <3>3. CASE n # 0 /\ n # k + 1
      <4>1. n \in 0 .. k /\ n - 1 \in 0 .. k /\ n - 1 # k + 1
        BY <3>3
      <4>2. t[n] = v[n] /\ t[n - 1] = v[n - 1]
        BY <3>3, <4>1
      <4>3. u[n] = Hop(w, t[n - 1])
        BY <3>3
      <4> HIDE DEF t, u
      <4> QED
        BY <2>2, <3>3, <4>1, <4>2, <4>3
    <3> QED
      BY <3>1, <3>2, <3>3
  <2>4. t = u
    <3>1. t = [n \in 0 .. k + 1 |-> t[n]] /\ u = [n \in 0 .. k + 1 |-> u[n]]
      OBVIOUS
    <3> HIDE DEF t, u
    <3> QED
      BY <2>3, <3>1
  <2>5. IsWalk(t, w, first, k + 1)
    <3> HIDE DEF t
    <3> QED
      BY <2>4 DEF IsWalk
  <2> QED
    BY <2>5
<1>3. S = Nat
  <2>1. S \in SUBSET Nat
    OBVIOUS
  <2> HIDE DEF S
  <2> QED
    BY <1>1, <1>2, <2>1, Induct
<1> QED
  BY <1>3

\* A walk along a linked list has met its first k + 1 slots after k rounds, the
\* end after as many as there are slots, and nothing else.
LEMMA WalkMeetsList ==
  ASSUME NEW walk, NEW w, NEW first, NEW m \in Nat, NEW n, NEW f, NEW S \in SUBSET Slots,
         Linked(n, f, w, first, S), IsWalk(walk, w, first, m), n <= m
  PROVE  walk[m] = S \cup {kInvalidIndex}
<1> DEFINE Met(k) == /\ walk[k] \subseteq S \cup {kInvalidIndex}
                     /\ \A j \in 1 .. n : j <= k + 1 => f[j] \in walk[k]
                     /\ n <= k => kInvalidIndex \in walk[k]
           T == {k \in Nat : k <= m => Met(k)}
<1>0. /\ \A k \in 0 .. m : walk[k] = IF k = 0 THEN {first} ELSE Hop(w, walk[k - 1])
      /\ n \in Nat /\ kInvalidIndex \notin Slots
      /\ \A i \in S : \E j \in 1 .. n : f[j] = i
      /\ \A j \in 1 .. n : f[j] \in S /\ f[j] \in Slots
      /\ \A j \in 1 .. n : w[f[j]] = IF j = n THEN kInvalidIndex ELSE f[j + 1]
      /\ first = IF n = 0 THEN kInvalidIndex ELSE f[1]
  BY HoldersAreFinite DEF IsWalk, Linked
<1>1. 0 \in T
  <2>1. walk[0] = {first}
    BY <1>0
  <2>2. first \in S \cup {kInvalidIndex}
    BY <1>0
  <2>3. \A j \in 1 .. n : j <= 0 + 1 => j = 1 /\ n # 0
    BY <1>0
  <2> QED
    BY <1>0, <2>1, <2>2, <2>3
<1>2. ASSUME NEW k \in T PROVE k + 1 \in T
  <2> SUFFICES ASSUME k + 1 <= m PROVE Met(k + 1)
    OBVIOUS
  <2>1. Met(k) /\ k \in Nat
    OBVIOUS
  <2>2. walk[k + 1] = walk[k] \cup {w[i] : i \in walk[k] \cap Slots}
    <3>1. k + 1 \in 0 .. m /\ k + 1 # 0 /\ k + 1 - 1 = k
      BY <2>1
    <3>2. \A l \in 0 .. m : walk[l] = IF l = 0 THEN {first} ELSE Hop(w, walk[l - 1])
      BY <1>0
    <3>3. walk[k + 1] = Hop(w, walk[k])
      BY <3>1, <3>2
    <3> QED
      BY <3>3 DEF Hop
  <2>3. \A i \in S : w[i] \in S \cup {kInvalidIndex}
    <3> SUFFICES ASSUME NEW i \in S PROVE w[i] \in S \cup {kInvalidIndex}
      OBVIOUS
    <3>1. PICK j \in 1 .. n : f[j] = i
      BY <1>0
    <3>2. j # n => j + 1 \in 1 .. n
      BY <1>0
    <3> QED
      BY <1>0, <3>1, <3>2
  <2>4. walk[k + 1] \subseteq S \cup {kInvalidIndex}
    BY <1>0, <2>1, <2>2, <2>3
  <2>5. ASSUME NEW j \in 1 .. n, j <= k + 1 + 1 PROVE f[j] \in walk[k + 1]
    <3>1. CASE j <= k + 1
      BY <2>1, <2>2, <3>1
    <3>2. CASE j = k + 2
      <4>1. k + 1 \in 1 .. n /\ k + 1 # n /\ k + 1 + 1 = j /\ k + 1 <= k + 1
        BY <1>0, <2>1, <3>2
      <4>2. f[k + 1] \in walk[k] \cap Slots /\ w[f[k + 1]] = f[j]
        BY <1>0, <2>1, <4>1
      <4> QED
        BY <2>2, <4>2
    <3> QED
      BY <2>1, <2>5, <3>1, <3>2
  <2>6. ASSUME n <= k + 1 PROVE kInvalidIndex \in walk[k + 1]
    <3>1. CASE n <= k
      BY <2>1, <2>2, <3>1
    <3>2. CASE n = k + 1
      <4>1. n \in 1 .. n /\ n <= k + 1
        BY <1>0, <2>1, <3>2
      <4>2. f[n] \in walk[k] \cap Slots /\ w[f[n]] = kInvalidIndex
        BY <1>0, <2>1, <4>1
      <4> QED
        BY <2>2, <4>2
    <3> QED
      BY <1>0, <2>1, <2>6, <3>1, <3>2
  <2> QED
    BY <2>4, <2>5, <2>6
<1>3. T = Nat
  <2>1. T \in SUBSET Nat
    OBVIOUS
  <2> HIDE DEF T
  <2> QED
    BY <1>1, <1>2, <2>1, Induct
<1>4. Met(m)
  BY <1>3
<1>5. \A j \in 1 .. n : j <= m + 1
  BY <1>0
<1> QED
  BY <1>0, <1>4, <1>5

\* A list of n slots that meets none twice is no longer than the array.
LEMMA ListIsShort ==
  ASSUME Typed, NEW n, NEW f, NEW w, NEW first, Linked(n, f, w, first, FreeSlots)
  PROVE  n <= MaxSlots
<1>1. n \in Nat /\ size \in Nat /\ MaxSlots \in Nat /\ size <= MaxSlots
  BY SharedAssumption DEF Typed, Linked
<1>2. IsFiniteSet(0 .. size - 1) /\ Cardinality(0 .. size - 1) = size
  BY <1>1, FS_Interval
<1>3. FreeSlots \in SUBSET (0 .. size - 1)
  BY DEF FreeSlots
<1>4. IsFiniteSet(FreeSlots) /\ Cardinality(FreeSlots) <= size
  BY <1>2, <1>3, FS_Subset
<1>5. f \in Injection(1 .. n, FreeSlots)
  BY DEF Linked, Injection, IsInjective
<1>6. Cardinality(1 .. n) <= Cardinality(FreeSlots)
  BY <1>4, <1>5, FS_Injection
<1>7. Cardinality(1 .. n) = n /\ Cardinality(FreeSlots) \in Nat
  BY <1>1, <1>4, FS_Interval, FS_CardinalityType
<1> QED
  BY <1>1, <1>4, <1>6, <1>7

LEMMA InvIsExactList == IInv => FreeListIsExact
<1> SUFFICES ASSUME IInv PROVE FreeListIsExact
  OBVIOUS
<1> DEFINE v == CHOOSE walk : IsWalk(walk, word, free, MaxSlots)
<1>1. Walk = v[MaxSlots]
  BY Zenon DEF Walk, IsWalk, Hop
<1>2. MaxSlots \in Nat
  BY SharedAssumption
<1>3. IsWalk(v, word, free, MaxSlots)
  BY <1>2, WalkExists
<1> HIDE DEF v
<1>4. PICK n, f : Linked(n, f, word, free, FreeSlots)
  BY DEF IInv, FreeInv
<1>5. n <= MaxSlots /\ FreeSlots \in SUBSET Slots
  BY <1>4, ListIsShort, LiveAreSlots DEF IInv
<1>6. v[MaxSlots] = FreeSlots \cup {kInvalidIndex}
  BY <1>2, <1>3, <1>4, <1>5, WalkMeetsList
<1>7. kInvalidIndex \notin FreeSlots
  BY <1>5, HoldersAreFinite
<1> QED
  BY <1>1, <1>6, <1>7 DEF FreeListIsExact, FreeSlots

\* The free list ends, and has the slots without an object and no others (AllocObj
\* and UnRef of shared_obj_array.h).
THEOREM FreeListExact == Spec => []FreeListIsExact
  BY InvIsExactList, Invariance, PTL
=============================================================================
