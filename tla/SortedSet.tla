----------------------------- MODULE SortedSet ------------------------------
(***************************************************************************)
(* What scope_set and the keys of a scope_map promise their user: a set of *)
(* at most Capacity elements, and with each call the element it found or   *)
(* led to, End where there is none, and whether it changed the set.        *)
(***************************************************************************)
EXTENDS Naturals, FiniteSets, FiniteSetsExt

CONSTANTS Keys, Capacity, End

VARIABLES set, ans

Answer(at, changed) == [at |-> at, changed |-> changed]

\* The least element that is not below k.
From(S, k) == LET above == {x \in S : x >= k}
              IN IF above = {} THEN End ELSE Min(above)

\* The element after k.
After(S, k) == From(S \ {k}, k)

Init == set = {} /\ ans = Answer(End, FALSE)

Insert(k) == /\ k \in set \/ Cardinality(set) < Capacity
             /\ set' = set \cup {k}
             /\ ans' = Answer(k, k \notin set)

\* operator [] tells nothing but the element.
Index(k) == /\ k \in set \/ Cardinality(set) < Capacity
            /\ set' = set \cup {k}
            /\ ans' = Answer(k, FALSE)

EraseAt(k) == /\ k \in set
              /\ set' = set \ {k}
              /\ ans' = Answer(After(set, k), FALSE)

EraseKey(k) == /\ set' = set \ {k}
               /\ ans' = Answer(End, k \in set)

\* erase(first, last); last is End or an element.
EraseRange(first, last) ==
  LET gone == {x \in set : x >= first /\ (last = End \/ x < last)}
  IN /\ first \in set /\ last \in (set \cup {End}) /\ (last = End \/ first <= last)
     /\ set' = set \ gone
     /\ ans' = Answer(last, FALSE)

Clear == set' = {} /\ ans' = Answer(End, FALSE)

Find(k) == /\ UNCHANGED set
           /\ ans' = Answer(IF k \in set THEN k ELSE End, FALSE)

Next == \/ \E k \in Keys : \/ Insert(k) \/ Index(k) \/ EraseAt(k)
                           \/ EraseKey(k) \/ Find(k)
        \/ \E first \in Keys, last \in Keys \cup {End} : EraseRange(first, last)
        \/ Clear

Spec == Init /\ [][Next]_<<set, ans>>
=============================================================================
