------------------------------ MODULE WeakRefs ------------------------------
(***************************************************************************)
(* What weak_obj_ptr.h promises: a weak pointer refers to a living object  *)
(* or to none.  There are no slots and no serial numbers, and an object is *)
(* known by its address alone, since no pointer to it outlives it.         *)
(***************************************************************************)
CONSTANTS Addresses, Pointers, None

VARIABLES living, ref

refVars == <<living, ref>>

Init == /\ living = {}
        /\ ref = [p \in Pointers |-> None]

Construct(a) == /\ a \notin living
                /\ living' = living \cup {a}
                /\ UNCHANGED ref

\* Every pointer to the object lets go of it.
Destroy(a) == /\ a \in living
              /\ living' = living \ {a}
              /\ ref' = [p \in Pointers |-> IF ref[p] = a THEN None ELSE ref[p]]

Point(p, a) == /\ a \in living
               /\ ref' = [ref EXCEPT ![p] = a]
               /\ UNCHANGED living

Copy(p, q) == /\ ref' = [ref EXCEPT ![p] = ref[q]]
              /\ UNCHANGED living

Reset(p) == /\ ref' = [ref EXCEPT ![p] = None]
            /\ UNCHANGED living

Next == \/ \E a \in Addresses : Construct(a) \/ Destroy(a)
        \/ \E p \in Pointers, a \in Addresses : Point(p, a)
        \/ \E p \in Pointers : Reset(p) \/ \E q \in Pointers : Copy(p, q)

Spec == Init /\ [][Next]_refVars
=============================================================================
