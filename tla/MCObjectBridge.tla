--------------------------- MODULE MCObjectBridge ---------------------------
(***************************************************************************)
(* Two objects, at two addresses or one after the other at the same, and   *)
(* three user data: enough to push an object, or another, between the two  *)
(* steps of a collection, and to find a reference used again.  Copies are  *)
(* made in memory that says "no slot", as a constructor would, or in       *)
(* memory that is still zero as well.                                      *)
(***************************************************************************)
EXTENDS ObjectBridge

CONSTANTS o1, o2

MCObjs == {o1, o2}
Swapped == Permutations(MCObjs)

Written == {NoSlot}
Zeroed == {NoSlot, 0}
=============================================================================
