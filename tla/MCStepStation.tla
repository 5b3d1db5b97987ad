---------------------------- MODULE MCStepStation ----------------------------
(***************************************************************************)
(* A root, two stations made of functions, and a parallel executor that    *)
(* may hold either of them.                                                *)
(***************************************************************************)
EXTENDS StepStation, TLC

CONSTANTS root, A, B, bodyA, bodyB, par

AllStations  == {root, A, B}
OneParallel  == {par}
Functions    == {bodyA, bodyB}
BodyOfAB     == A :> bodyA @@ B :> bodyB
==============================================================================
