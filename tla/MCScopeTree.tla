---------------------------- MODULE MCScopeTree -----------------------------
(***************************************************************************)
(* An instance of ScopeTree.  Which node of the pool an element lies in    *)
(* changes nothing the tree looks at: states with the same shape, colors   *)
(* and elements are one (Shape).                                           *)
(***************************************************************************)
EXTENDS ScopeTree

SomeKeys == 1 .. 8

\* A node without its address.
RECURSIVE Shaped(_)
Shaped(x) == IF x = Head0 THEN <<>>
             ELSE <<node[x].key, node[x].red, Shaped(node[x].left), Shaped(node[x].right)>>

Shape == <<Shaped(Root(node)), At(node, Lmost(node)), At(node, Rmost(node)), count, Len(freeList), Cardinality(Used), ans>>
=============================================================================
