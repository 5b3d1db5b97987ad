----------------------------- MODULE AllocChain -----------------------------
(***************************************************************************)
(* The chain of memory blocks behind SerialAllocator and StackedAllocator  *)
(* (utility/src/detail/alloc_internal.h, serial_allocator.h,               *)
(* stacked_allocator.h).  A block lies inside the heap memory of the node  *)
(* that was created for it, but nodes swap their controls: the node next   *)
(* to alloc_node_ holds the control of the block used before.  Block 0 is  *)
(* the default pool, which belongs to the user; block n lies in node n.    *)
(***************************************************************************)
EXTENDS Naturals, Sequences, SequencesExt, FiniteSetsExt

CONSTANTS Kinds,      \* the allocators looked at, of "serial" and "stacked"
          Align,      \* Align, to which sizes are rounded up
          Block,      \* block_size_
          Pools,      \* sizes of a SerialAllocator's default pool, 0 for none
          Sizes,      \* the sizes asked for, of which none is 0
          MaxNodes,   \* bound on the nodes on the heap at a time
          MaxLive     \* bound on the allocations in use at a time

VARIABLES
  kind,    \* the allocator
  cur,     \* alloc_node_.value: [block, cap, used]
  chain,   \* the nodes from alloc_node_.next on: [node, ctrl]
  empty,   \* the nodes from empty_head_ on
  heap,    \* the nodes that have not been deleted
  live,    \* the allocations in use, the oldest first: [block, at, size]
  halted   \* the assertion that failed

ASSUME ChainAssumption == /\ Align \in Nat \ {0} /\ Block \in Nat
                          /\ Pools \subseteq Nat /\ Sizes \subseteq Nat \ {0}
                          /\ MaxNodes \in Nat

vars == <<kind, cur, chain, empty, heap, live, halted>>

Ctrl(b, cap) == [block |-> b, cap |-> cap, used |-> 0]

\* A StackedAllocator has no default pool.
Init == /\ kind \in Kinds
        /\ \E pool \in Pools : cur = Ctrl(0, IF kind = "stacked" THEN 0 ELSE pool)
        /\ chain = <<>> /\ empty = <<>> /\ heap = {}
        /\ live = <<>>
        /\ halted = "no"

AlignSize(sz) == ((sz + Align - 1) \div Align) * Align

\* Mutant: the size that is not rounded decides.
YieldsUnrounded(c, sz) == sz <= c.cap - c.used

\* SerialAllocCtrl::Alloc yields memory.
Yields(c, sz) == AlignSize(sz) <= c.cap - c.used

Cut(c, sz)   == [c EXCEPT !.used = @ + AlignSize(sz)]
Piece(c, sz) == [block |-> c.block, at |-> c.used, size |-> sz]
Emptied(c)   == [c EXCEPT !.used = 0]

\* The size Alloc asks CreateNode for.
NodeSize(sz) == IF AlignSize(sz + Align) > Block THEN AlignSize(sz + Align) ELSE Block
-----------------------------------------------------------------------------
AllocHere(sz) == /\ halted = "no" /\ Len(live) < MaxLive
                 /\ Yields(cur, sz)
                 /\ cur' = Cut(cur, sz)
                 /\ live' = Append(live, Piece(cur, sz))
                 /\ UNCHANGED <<kind, chain, empty, heap, halted>>

\* Mutant: the first empty node is taken, whatever its capacity.
SuitableAny(i, size) == i = 1

\* FindSuitableNode takes the first empty node that is large enough.
Suitable(i, size) == /\ empty[i].ctrl.cap >= size
                     /\ \A j \in 1 .. i - 1 : empty[j].ctrl.cap < size

\* The node becomes the first of the chain, with the control that was current,
\* and the memory is cut from its block.
Enter(node, c, sz) == /\ chain' = <<[node |-> node, ctrl |-> cur]>> \o chain
                      /\ cur' = Cut(c, sz)
                      /\ IF Yields(c, sz)
                         THEN live' = Append(live, Piece(c, sz)) /\ UNCHANGED halted
                         ELSE halted' = "no memory" /\ UNCHANGED live

\* Alloc in an empty node ...
AllocReuse(sz) ==
  /\ halted = "no" /\ Len(live) < MaxLive
  /\ ~Yields(cur, sz)
  /\ \E i \in 1 .. Len(empty) :
       /\ Suitable(i, NodeSize(sz))
       /\ empty' = RemoveAt(empty, i)
       /\ Enter(empty[i].node, empty[i].ctrl, sz)
  /\ UNCHANGED <<kind, heap>>

\* ... or in a new one.
AllocInNode(sz) ==
  /\ halted = "no" /\ Len(live) < MaxLive
  /\ ~Yields(cur, sz)
  /\ ~\E i \in 1 .. Len(empty) : Suitable(i, NodeSize(sz))
  /\ Cardinality(heap) < MaxNodes
  /\ LET n == Min((1 .. MaxNodes) \ heap)
     IN  heap' = heap \cup {n} /\ Enter(n, Ctrl(n, NodeSize(sz)), sz)
  /\ UNCHANGED <<kind, empty>>

\* The assertions of StackedAllocCtrl::Dealloc: the memory is of the current
\* block and ends where the memory that was cut from it ends.
OnTop(a) == a.block = cur.block /\ a.at = cur.used - AlignSize(a.size)

\* Mutant: an emptied block is kept until the next one is needed.
DeallocStays ==
  /\ kind = "stacked" /\ halted = "no" /\ live # <<>>
  /\ LET a == live[Len(live)]
     IN  IF OnTop(a)
         THEN cur' = [cur EXCEPT !.used = a.at] /\ UNCHANGED halted
         ELSE halted' = "order" /\ UNCHANGED cur
  /\ live' = Front(live)
  /\ UNCHANGED <<kind, chain, empty, heap>>

\* Mutant: the last node of the chain is not returned to.
DeallocKeepsLast ==
  /\ kind = "stacked" /\ halted = "no" /\ live # <<>>
  /\ LET a    == live[Len(live)]
         left == [cur EXCEPT !.used = a.at]
     IN  IF ~OnTop(a)
         THEN halted' = "order" /\ UNCHANGED <<cur, chain, empty>>
         ELSE /\ IF a.at = 0 /\ Len(chain) > 1
                 THEN /\ cur' = chain[1].ctrl
                      /\ chain' = Tail(chain)
                      /\ empty' = <<[node |-> chain[1].node, ctrl |-> left]>> \o empty
                 ELSE cur' = left /\ UNCHANGED <<chain, empty>>
              /\ UNCHANGED halted
  /\ live' = Front(live)
  /\ UNCHANGED <<kind, heap>>

\* StackedAllocator::Dealloc, at the end of a ScopeBuffer's scope: the latest
\* allocation is given back, and with the last of a block the block before it
\* becomes current again.
Dealloc ==
  /\ kind = "stacked" /\ halted = "no" /\ live # <<>>
  /\ LET a    == live[Len(live)]
         left == [cur EXCEPT !.used = a.at]
     IN  IF ~OnTop(a)
         THEN halted' = "order" /\ UNCHANGED <<cur, chain, empty>>
         ELSE /\ IF a.at = 0 /\ chain # <<>>
                 THEN /\ cur' = chain[1].ctrl
                      /\ chain' = Tail(chain)
                      /\ empty' = <<[node |-> chain[1].node, ctrl |-> left]>> \o empty
                 ELSE cur' = left /\ UNCHANGED <<chain, empty>>
              /\ UNCHANGED halted
  /\ live' = Front(live)
  /\ UNCHANGED <<kind, heap>>

\* The chain in front of the empty nodes, turned round, all its blocks empty.
Collected == Reverse([i \in 1 .. Len(chain) |->
                        [chain[i] EXCEPT !.ctrl = Emptied(@)]]) \o empty

\* Mutant: the default pool is not taken back.
ResetKeepsCurrent == /\ kind = "serial"
                     /\ cur' = Emptied(cur)
                     /\ empty' = Collected
                     /\ chain' = <<>>
                     /\ live' = <<>>
                     /\ UNCHANGED <<kind, heap, halted>>

\* Reset: all nodes become empty ones; the last of the chain, which holds the
\* default pool, swaps it for the current block.
Reset == /\ kind = "serial" /\ halted = "no"
         /\ IF chain = <<>>
            THEN cur' = Emptied(cur) /\ UNCHANGED empty
            ELSE /\ cur' = Collected[1].ctrl
                 /\ empty' = [Collected EXCEPT ![1].ctrl = Emptied(cur)]
         /\ chain' = <<>>
         /\ live' = <<>>
         /\ UNCHANGED <<kind, heap, halted>>

\* Mutant: the control of the last node is not taken back before it is deleted.
DissolveForgetsDefault == /\ kind = "serial"
                          /\ chain' = <<>> /\ empty' = <<>> /\ heap' = {}
                          /\ live' = <<>>
                          /\ UNCHANGED <<kind, cur, halted>>

\* Dissolve: the nodes are deleted, and the default pool is current as it was:
\* what was cut from it stays cut.
Dissolve == /\ kind = "serial" /\ halted = "no"
            /\ cur' = IF chain = <<>> THEN cur ELSE chain[Len(chain)].ctrl
            /\ chain' = <<>> /\ empty' = <<>> /\ heap' = {}
            /\ live' = <<>>
            /\ UNCHANGED <<kind, halted>>

Next == \/ \E sz \in Sizes : AllocHere(sz) \/ AllocReuse(sz) \/ AllocInNode(sz)
        \/ Dealloc \/ Reset \/ Dissolve

Spec == Init /\ [][Next]_vars
-----------------------------------------------------------------------------
Ctrls == [block : 0 .. MaxNodes, cap : Nat, used : Nat]
Nodes == [node : 1 .. MaxNodes, ctrl : Ctrls]

TypeOK == /\ kind \in Kinds
          /\ cur \in Ctrls /\ cur.used <= cur.cap
          /\ chain \in Seq(Nodes) /\ empty \in Seq(Nodes)
          /\ heap \subseteq 1 .. MaxNodes
          /\ \A a \in Range(live) : a.size \in Sizes /\ a.block \in 0 .. MaxNodes /\ a.at \in Nat
          /\ halted \in {"no", "no memory", "order"}

\* The blocks and nodes in use, the current first, and the empty ones.
AllNodes  == chain \o empty
AllCtrls  == <<cur>> \o [i \in 1 .. Len(AllNodes) |-> AllNodes[i].ctrl]

\* However nodes swap their controls and move between the two lists, every node
\* on the heap is in one of the lists once, every block in one control once, and
\* the default pool is at the bottom: deleting the nodes of both lists leaks no
\* memory, deletes none twice, and leaves no control behind in deleted memory.
BlocksAreKept ==
  /\ Len(AllNodes) = Cardinality(heap)
  /\ {AllNodes[i].node : i \in 1 .. Len(AllNodes)} = heap
  /\ {AllCtrls[i].block : i \in 1 .. Len(AllCtrls)} = {0} \cup heap
  /\ (IF chain = <<>> THEN cur ELSE chain[Len(chain)].ctrl).block = 0
  /\ \A i \in 1 .. Len(empty) : empty[i].ctrl.used = 0

CapOf(b) == LET i == CHOOSE i \in 1 .. Len(AllCtrls) : AllCtrls[i].block = b
            IN  AllCtrls[i].cap

\* Memory in use lies inside a block that is not deleted, and no two pieces of it
\* overlap, whatever was reset, given back and cut again before.
LiveIsApart ==
  /\ \A a \in Range(live) : /\ a.block \in {0} \cup heap
                            /\ a.at + a.size <= CapOf(a.block)
  /\ \A i, j \in 1 .. Len(live) :
       i < j /\ live[i].block = live[j].block => live[i].at + live[i].size <= live[j].at

\* assert(buff) of Alloc: the node found or created has room for what it was
\* created for.
AllocSucceeds == halted # "no memory"

\* The assertion of StackedAllocCtrl::Dealloc: memory given back in the reverse
\* of the order in which it was cut is found on top of the current block, also
\* where the stack passes from one block to another.
DeallocFindsTop == halted # "order"

\* When a StackedAllocator's last buffer is given back it is as it was made, but
\* for the blocks it keeps: each of them is empty, and one of those looked at for
\* the next allocation.
UnusedStackIsFresh == kind = "stacked" /\ live = <<>> /\ halted = "no" =>
                        cur = Ctrl(0, 0) /\ chain = <<>>
=============================================================================
