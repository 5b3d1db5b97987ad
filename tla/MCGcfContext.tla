---------------------------- MODULE MCGcfContext ----------------------------
(***************************************************************************)
(* A file with three declarations that open a scope and two variables, all *)
(* named a or b: enough for a struct in a struct that inherits, a name     *)
(* that hides another and a namespace that is opened twice.                *)
(***************************************************************************)
EXTENDS GcfContext

CONSTANTS a, b

MCNames == {a, b}
Swapped == Permutations(MCNames)
=============================================================================
