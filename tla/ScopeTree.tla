----------------------------- MODULE ScopeTree ------------------------------
(***************************************************************************)
(* The red-black tree behind scope_set and scope_map                       *)
(* (utility/src/detail/_tree.h, scope_set.h, scope_map.h) in the pool of a *)
(* particular_allocator (particular_allocator.h).  Node 0 is the head,     *)
(* which stands for nil: its parent is the root, its left and right are    *)
(* the leftmost and the rightmost node.  A call is one step; a loop of the *)
(* code is the function of one turn, repeated (Loop).                      *)
(***************************************************************************)
EXTENDS Naturals, Sequences, SequencesExt, FiniteSets

CONSTANTS Keys,      \* the elements, as numbers that _camp compares
          Capacity,  \* max_size(): the nodes of the pool but the head
          End        \* end(), as an answer

VARIABLES
  node,  \* the pool: [left, right, parent, red, key]
  freeList,  \* the free list of the allocator, from its head
  count, \* _val.count
  ans    \* what the last call returned: [at, changed]

treeVars == <<node, freeList, count, ans>>

ASSUME TreeAssumption == /\ Keys \subseteq Nat /\ Capacity \in Nat \ {0}
                         /\ End \notin Nat

Head0 == 0
Nodes == 1 .. Capacity
Slots == {Head0} \cup Nodes
Sides == {"left", "right"}

Node == [left : Slots, right : Slots, parent : Slots, red : BOOLEAN, key : Nat]
Pool == [Slots -> Node]

Blank == [left |-> Head0, right |-> Head0, parent |-> Head0, red |-> FALSE, key |-> 0]

\* The pool is chained in the order of the addresses; the tree takes the first
\* node for its head.
TreeInit == /\ node = [x \in Slots |-> Blank]
            /\ freeList = [i \in Nodes |-> i]
            /\ count = 0
            /\ ans = [at |-> End, changed |-> FALSE]
-----------------------------------------------------------------------------
(* Walking *)

\* What a loop leaves.  Its turn is a function that leaves alone where the loop
\* stops; no loop of the tree takes more turns than the pool has slots.
Loop(turn, start) ==
  LET after[i \in 0 .. Capacity + 1] == IF i = 0 THEN start ELSE turn[after[i - 1]]
  IN after[Capacity + 1]

Root(n)  == n[Head0].parent
Lmost(n) == n[Head0].left
Rmost(n) == n[Head0].right

Other(side) == IF side = "left" THEN "right" ELSE "left"

\* A field of x is assigned.
Put(n, x, field, v) == [n EXCEPT ![x][field] = v]
Paint(n, x, red)    == Put(n, x, "red", red)

\* Min (side left) and Max (side right).
Outermost(n, x, side) ==
  Loop([y \in Slots |-> IF n[y][side] = Head0 THEN y ELSE n[y][side]], x)

\* The first ancestor that has x not on the given side; the head if none.
Climb(n, x, side) ==
  LET turn == [y \in Slots |-> LET p == n[y].parent
                               IN IF p # Head0 /\ y = n[p][side] THEN p ELSE y]
  IN n[Loop(turn, x)].parent

\* Mutant: the node is left downwards only.
IncDown(n, x) == IF x = Head0 \/ n[x].right = Head0 THEN n[x].parent
                 ELSE Outermost(n, n[x].right, "left")

\* operator ++ of an iterator; end() stays where it is.
Inc(n, x) == IF x = Head0 THEN Head0
             ELSE IF n[x].right # Head0 THEN Outermost(n, n[x].right, "left")
             ELSE Climb(n, x, "right")

\* operator --; before end() is the rightmost node, before begin() is end().
Dec(n, x) == IF x = Head0 THEN Rmost(n)
             ELSE IF n[x].left # Head0 THEN Outermost(n, n[x].left, "right")
             ELSE Climb(n, x, "left")

\* Lbound: the first node whose key is not below k.
Lbound(n, k) ==
  LET turn == [s \in [at : Slots, found : Slots] |->
                 IF s.at = Head0 THEN s
                 ELSE IF n[s.at].key < k THEN [s EXCEPT !.at = n[s.at].right]
                 ELSE [at |-> n[s.at].left, found |-> s.at]]
  IN Loop(turn, [at |-> Root(n), found |-> Head0]).found

\* find
Found(n, k) == LET x == Lbound(n, k)
               IN IF x = Head0 \/ k < n[x].key THEN Head0 ELSE x

At(n, x) == IF x = Head0 THEN End ELSE n[x].key
-----------------------------------------------------------------------------
(* Linking *)

\* y takes the place of x under x's parent, or as the root.
Replace(n, x, y) ==
  LET p == n[x].parent
  IN IF x = Root(n) THEN Put(n, Head0, "parent", y)
     ELSE Put(n, p, IF n[p].left = x THEN "left" ELSE "right", y)

\* The parent of a node that may be nil.
SetParent(n, x, p) == IF x = Head0 THEN n ELSE Put(n, x, "parent", p)

\* Lrotate (side left) and Rrotate (side right).
Rotate(n, x, side) ==
  LET y  == n[x][Other(side)]
      c  == n[y][side]
      n1 == SetParent(Put(n, x, Other(side), c), c, x)
      n2 == Replace(Put(n1, y, "parent", n[x].parent), x, y)
  IN Put(Put(n2, y, side, x), x, "parent", y)

\* The uncle of x is black: x is turned outward, and its parent comes up.
Turned(n, x, s) ==
  LET p  == n[x].parent
      g  == n[p].parent
      inner == x = n[p][Other(s)]
      n1 == IF inner THEN Rotate(n, p, s) ELSE n
      x1 == IF inner THEN p ELSE x
      n2 == Paint(Paint(n1, n1[x1].parent, FALSE), g, TRUE)
  IN [n |-> Rotate(n2, g, Other(s)), x |-> x1]

\* A turn of the loop of Insert_at with balance = x.
InsertTurn(n, x) ==
  LET p == n[x].parent
      g == n[p].parent
      s == IF p = n[g].left THEN "left" ELSE "right"
      u == n[g][Other(s)]
  IN IF ~n[p].red THEN [n |-> n, x |-> x]
     ELSE IF n[u].red
     THEN [n |-> Paint(Paint(Paint(n, u, FALSE), p, FALSE), g, TRUE), x |-> g]
     ELSE Turned(n, x, s)

\* The loop of Insert_at from balance = x on.
InsertFix(n, x) ==
  LET turn == [t \in [n : Pool, x : Slots] |-> InsertTurn(t.n, t.x)]
      m    == Loop(turn, [n |-> n, x |-> x]).n
  IN Paint(m, Root(m), FALSE)

\* Mutant: the outermost nodes are not kept.
LinkForgets(n, addLeft, p, x) ==
  LET n1 == Put(n, x, "parent", p)
  IN IF p = Head0
     THEN Put(Put(Put(n1, Head0, "parent", x), Head0, "left", x), Head0, "right", x)
     ELSE Put(n1, p, IF addLeft THEN "left" ELSE "right", x)

\* Insert_at, up to the balance: x becomes a leaf under p.
Link(n, addLeft, p, x) ==
  LET side == IF addLeft THEN "left" ELSE "right"
      n1 == Put(n, x, "parent", p)
      n2 == Put(n1, p, side, x)
  IN IF p = Head0
     THEN Put(Put(Put(n1, Head0, "parent", x), Head0, "left", x), Head0, "right", x)
     ELSE IF p = n[Head0][side] THEN Put(n2, Head0, side, x) ELSE n2

\* Buynode: allocate takes the first of the free list.
Bought(k) == [node EXCEPT ![Head(freeList)] = [Blank EXCEPT !.red = TRUE, !.key = k]]

\* Where Insert_Nohint ends: the last node on the way down and the side.
Descend(n, k) ==
  LET turn == [s \in [at : Slots, parent : Slots, addLeft : BOOLEAN] |->
                 IF s.at = Head0 THEN s
                 ELSE LET less == k < n[s.at].key
                      IN [at |-> n[s.at][IF less THEN "left" ELSE "right"],
                          parent |-> s.at, addLeft |-> less]]
  IN Loop(turn, [at |-> Root(n), parent |-> Head0, addLeft |-> TRUE])

\* The place of Insert_Hint for the hint that Try_emplace passes, the lower
\* bound x of a key that is not there.
HintPlace(n, x) ==
  IF x = Lmost(n) THEN [parent |-> x, addLeft |-> TRUE]
  ELSE IF x = Head0 THEN [parent |-> Rmost(n), addLeft |-> FALSE]
  ELSE IF n[Dec(n, x)].right = Head0 THEN [parent |-> Dec(n, x), addLeft |-> FALSE]
  ELSE [parent |-> x, addLeft |-> TRUE]
-----------------------------------------------------------------------------
(* Unlinking *)

\* The child that an outermost node leaves behind decides who is outermost now.
Outer(n, e, f, side) ==
  IF n[Head0][side] # e THEN n
  ELSE Put(n, Head0, side, IF f = Head0 THEN n[e].parent ELSE Outermost(n, f, side))

\* Erasing a node with one child f at most.  fix is where the balance starts,
\* above its parent, and black is the color that went.
CutLeaf(n, e, f) ==
  LET n1 == Replace(SetParent(n, f, n[e].parent), e, f)
  IN [n |-> Outer(Outer(n1, e, f, "left"), e, f, "right"),
      fix |-> f, above |-> n[e].parent, black |-> ~n[e].red]

\* Mutant: the colors are not swapped.
CutInnerKeepsColor(n, e, x) ==
  LET f  == n[x].right
      q  == n[x].parent
      n1 == Put(Put(n, n[e].left, "parent", x), x, "left", n[e].left)
      n2 == IF x = n[e].right THEN n1
            ELSE Put(Put(Put(SetParent(n1, f, q), q, "left", f),
                         x, "right", n[e].right), n[e].right, "parent", x)
      n3 == Put(Replace(n2, e, x), x, "parent", n[e].parent)
  IN [n |-> n3, fix |-> f, above |-> IF x = n[e].right THEN x ELSE q, black |-> ~n[e].red]

\* Erasing a node with two children: its successor x takes its place and its
\* color.
CutInner(n, e, x) ==
  LET f  == n[x].right
      q  == n[x].parent
      n1 == Put(Put(n, n[e].left, "parent", x), x, "left", n[e].left)
      n2 == IF x = n[e].right THEN n1
            ELSE Put(Put(Put(SetParent(n1, f, q), q, "left", f),
                         x, "right", n[e].right), n[e].right, "parent", x)
      n3 == Put(Replace(n2, e, x), x, "parent", n[e].parent)
  IN [n |-> Paint(n3, x, n[e].red),
      fix |-> f, above |-> IF x = n[e].right THEN x ELSE q, black |-> ~n[x].red]

Cut(n, e) == IF n[e].left = Head0 THEN CutLeaf(n, e, n[e].right)
             ELSE IF n[e].right = Head0 THEN CutLeaf(n, e, n[e].left)
             ELSE CutInner(n, e, Inc(n, e))

\* A red sibling comes up and leaves a black one of its children.
BlackSibling(n, p, s) ==
  LET w == n[p][Other(s)]
  IN IF n[w].red THEN Rotate(Paint(Paint(n, w, FALSE), p, TRUE), p, s) ELSE n

\* The sibling gets a red child on the far side.
RedNephew(n, p, s) ==
  LET o == Other(s)
      w == n[p][o]
  IN IF n[n[w][o]].red THEN n
     ELSE Rotate(Paint(Paint(n, n[w][s], FALSE), w, TRUE), w, o)

\* The sibling comes up and gives a black node to the near side.
Borrowed(n, p, s) ==
  LET o == Other(s)
      v == n[p][o]
  IN Rotate(Paint(Paint(Paint(n, v, n[p].red), p, FALSE), n[v][o], FALSE), p, s)

\* A turn of the loop of erase with fixNode = f under fixParent = p.
EraseTurn(n, f, p) ==
  LET s  == IF f = n[p].left THEN "left" ELSE "right"
      n1 == BlackSibling(n, p, s)
      w  == n1[p][Other(s)]
      up(m) == [n |-> m, f |-> p, p |-> m[p].parent, stop |-> FALSE]
  IN IF f = Root(n) \/ n[f].red THEN [n |-> n, f |-> f, p |-> p, stop |-> TRUE]
     ELSE IF w = Head0 THEN up(n1)
     ELSE IF ~n1[n1[w].left].red /\ ~n1[n1[w].right].red
     THEN up(Paint(n1, w, TRUE))
     ELSE [n |-> Borrowed(RedNephew(n1, p, s), p, s), f |-> f, p |-> p, stop |-> TRUE]

\* The loop of erase from fixNode = f under fixParent = p on.
EraseFix(n, f, p) ==
  LET turn == [t \in [n : Pool, f : Slots, p : Slots, stop : BOOLEAN] |->
                 IF t.stop THEN t ELSE EraseTurn(t.n, t.f, t.p)]
      end  == Loop(turn, [n |-> n, f |-> f, p |-> p, stop |-> FALSE])
  IN Paint(end.n, end.f, FALSE)

\* The nodes without e.
Erased(n, e) == LET c == Cut(n, e)
                IN IF c.black THEN EraseFix(c.n, c.fix, c.above) ELSE c.n

\* The loop of erase(first, last): what remains, and the nodes given back.
ErasedRange(n, first, last) ==
  LET turn == [t \in [n : Pool, x : Slots, gone : Seq(Nodes)] |->
                 IF t.x = last THEN t
                 ELSE [n |-> Erased(t.n, t.x), x |-> Inc(t.n, t.x), gone |-> <<t.x>> \o t.gone]]
  IN Loop(turn, [n |-> n, x |-> first, gone |-> <<>>])

\* Erase of clear: the right subtree goes first, then the node, then the left
\* one; what each call gives back, for a tree a turn deeper with every turn.
Walked(n) ==
  LET turn == [w \in [Slots -> Seq(Nodes)] |->
                 [x \in Slots |-> IF x = Head0 THEN <<>>
                                  ELSE w[n[x].left] \o <<x>> \o w[n[x].right]]]
  IN Loop(turn, [x \in Slots |-> <<>>])[Root(n)]
-----------------------------------------------------------------------------
(* The calls *)

\* Insert_at: the assertion lets no element in when the pool is used up.
Insert_at(place, k) ==
  LET x == Head(freeList)
  IN /\ count < Capacity
     /\ node' = InsertFix(Link(Bought(k), place.addLeft, place.parent, x), x)
     /\ freeList' = Tail(freeList)
     /\ count' = count + 1

\* Mutant: what is on the way down is not compared a second time.
InsertAnyway(k) ==
  LET d == Descend(node, k)
  IN Insert_at(d, k) /\ ans' = [at |-> k, changed |-> TRUE]

\* insert, Insert_Nohint
Insert(k) ==
  LET d  == Descend(node, k)
      it == IF d.addLeft THEN Dec(node, d.parent) ELSE d.parent
  IN IF (d.addLeft /\ d.parent = Lmost(node)) \/ node[it].key < k
     THEN Insert_at(d, k) /\ ans' = [at |-> k, changed |-> TRUE]
     ELSE ans' = [at |-> At(node, it), changed |-> FALSE] /\ UNCHANGED <<node, freeList, count>>

\* operator [] of scope_map, Try_emplace, Emplace_Hint, Insert_Hint
Index(k) ==
  LET x == Lbound(node, k)
  IN /\ IF x = Head0 \/ k < node[x].key
        THEN Insert_at(HintPlace(node, x), k)
        ELSE UNCHANGED <<node, freeList, count>>
     /\ ans' = [at |-> k, changed |-> FALSE]

\* Mutant: the element after moves into the node, and its node is given back.
WithoutMoves(x) ==
  LET y == IF Head0 \in {node[x].left, node[x].right} THEN x ELSE Inc(node, x)
  IN /\ node' = [Erased(node, y) EXCEPT ![x].key = node[y].key]
     /\ freeList' = <<y>> \o freeList
     /\ count' = count - 1

\* The node of an element leaves the tree and goes back to the allocator.
Without(x) == /\ node' = Erased(node, x)
              /\ freeList' = <<x>> \o freeList
              /\ count' = IF count > 0 THEN count - 1 ELSE count

\* erase(it): the answer is the iterator after it
EraseAt(x) == /\ Without(x)
              /\ ans' = [at |-> At(node, Inc(node, x)), changed |-> FALSE]

\* erase(key)
EraseKey(k) ==
  LET x == Found(node, k)
  IN /\ IF x = Head0 THEN UNCHANGED <<node, freeList, count>> ELSE Without(x)
     /\ ans' = [at |-> End, changed |-> x # Head0]

Clear == /\ freeList' = Walked(node) \o freeList
         /\ node' = [node EXCEPT ![Head0] = Blank]
         /\ count' = 0
         /\ ans' = [at |-> End, changed |-> FALSE]

\* erase(first, last)
EraseRange(first, last) ==
  LET r == ErasedRange(node, first, last)
  IN IF first = Lmost(node) /\ last = Head0
     THEN Clear
     ELSE /\ node' = r.n
          /\ freeList' = r.gone \o freeList
          /\ count' = count - Len(r.gone)
          /\ ans' = [at |-> At(node, last), changed |-> FALSE]

Find(k) == /\ ans' = [at |-> At(node, Found(node, k)), changed |-> FALSE]
           /\ UNCHANGED <<node, freeList, count>>
-----------------------------------------------------------------------------
Used == Nodes \ ToSet(freeList)

\* Iterators a user may hold: of elements that are there, and end().
NotBefore(x, y) == y = Head0 \/ node[x].key <= node[y].key

TreeNext == \/ \E k \in Keys : Insert(k) \/ Index(k) \/ EraseKey(k) \/ Find(k)
            \/ \E x \in Used : EraseAt(x)
            \/ \E x \in Used, y \in Used \cup {Head0} : NotBefore(x, y) /\ EraseRange(x, y)
            \/ Clear

TreeSpec == TreeInit /\ [][TreeNext]_treeVars
-----------------------------------------------------------------------------
\* Every node is linked with its parent both ways, the root has the head for a
\* parent, and the head knows root and outermost nodes; the tree and the free
\* list share the pool without a node lost or used twice, and the
\* count is right.
LinksAgree ==
  /\ \A x \in Used, s \in Sides :
       node[x][s] # Head0 => node[x][s] \in Used /\ node[node[x][s]].parent = x
  /\ \A x \in Used : IF x = Root(node) THEN node[x].parent = Head0
                     ELSE x \in {node[node[x].parent][s] : s \in Sides}
  /\ (Used = {}) = (Root(node) = Head0)
  /\ \A s \in Sides : node[Head0][s] =
       IF Used = {} THEN Head0 ELSE Outermost(node, Root(node), s)
  /\ Len(freeList) + Cardinality(Used) = Capacity
  /\ count = Cardinality(Used)

\* The black nodes on a way from each node down to nil; 0 if the ways differ or
\* a red node has a red child.
BlackHeights ==
  LET turn == [h \in [Slots -> Nat] |->
                 [x \in Slots |->
                    LET l == h[node[x].left]
                        r == h[node[x].right]
                        redPair == node[x].red /\ (node[node[x].left].red \/ node[node[x].right].red)
                    IN IF x = Head0 THEN 1
                       ELSE IF l = 0 \/ l # r \/ redPair THEN 0
                       ELSE IF node[x].red THEN l ELSE l + 1]]
  IN Loop(turn, [x \in Slots |-> IF x = Head0 THEN 1 ELSE 0])

\* Every way from the root down to nil has as many black nodes, and no red node
\* has a red child: the balance of Insert_at and of erase restore what makes
\* the calls logarithmic.
RedBlack == /\ BlackHeights[Root(node)] > 0
            /\ ~node[Head0].red /\ ~node[Root(node)].red

\* The elements before x (side left) or after it (side right).
Beyond(x, side) ==
  {z \in Used : IF side = "left" THEN node[z].key < node[x].key ELSE node[x].key < node[z].key}

\* y is the element next to x on a side; the head if there is none.
IsNext(x, y, side) ==
  IF y = Head0 THEN Beyond(x, side) = {}
  ELSE y \in Beyond(x, side) /\ Beyond(x, side) \cap Beyond(y, Other(side)) = {}

\* ++ leads from every element to the next greater one and from the last to
\* end(), -- leads the same way back, begin() and --end() are the least and the
\* greatest, and no element is there twice: a walk passes every element once, in
\* rising order.
IterationIsSorted ==
  /\ \A x, y \in Used : node[x].key = node[y].key => x = y
  /\ \A x \in Used : /\ IsNext(x, Inc(node, x), "right")
                      /\ IsNext(x, Dec(node, x), "left")
  /\ \A s \in Sides : IF Used = {} THEN node[Head0][s] = Head0
                      ELSE node[Head0][s] \in Used /\ Beyond(node[Head0][s], s) = {}

Contents == {node[x].key : x \in Used}

\* An element stays in its node as long as it is in the tree: iterators and
\* references to it survive every call that does not erase it.
ElementsStay == [][\A x \in Used : node[x].key \in Contents' =>
                     x \in Used' /\ node'[x].key = node[x].key]_treeVars

\* The calls do what an ordered set of their elements does.
Ordered == INSTANCE SortedSet WITH set <- Contents, ans <- ans
SortedSetSpec == Ordered!Spec
=============================================================================
