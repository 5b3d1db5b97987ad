---------------------------- MODULE MCAllocChain ----------------------------
(***************************************************************************)
(* Instances of AllocChain: no default pool or a small one, blocks for two *)
(* or three pieces, a size that has to be rounded, one that leaves little  *)
(* of a block and one that needs a block of its own.                       *)
(***************************************************************************)
EXTENDS AllocChain

BothKinds == {"serial", "stacked"}
SomePools == {0, 5}
SomeSizes == {1, 4, 7}
=============================================================================
