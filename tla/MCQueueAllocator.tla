-------------------------- MODULE MCQueueAllocator --------------------------
(***************************************************************************)
(* Instances of QueueAllocator: one thread that writes and reads in turn,  *)
(* and one that writes while another reads.                                *)
(***************************************************************************)
EXTENDS QueueAllocator, TLC

CONSTANTS w, r

TheWriter == {w}
TheReader == {r}
TwoWords  == {2}
OneOrThree == {1, 3}
==============================================================================
