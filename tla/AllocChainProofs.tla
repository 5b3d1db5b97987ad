-------------------------- MODULE AllocChainProofs --------------------------
(***************************************************************************)
(* For every alignment, block size and sequence of calls, a node that was  *)
(* found or created has room for what it is needed for, a StackedAllocator *)
(* unwinds over all of its blocks, every node and block is kept once, and  *)
(* what is handed out stays apart.                                         *)
(***************************************************************************)
EXTENDS AllocChain, SequenceTheorems, FiniteSetTheorems, WellFoundedInduction, TLAPS

\* What the lists hold: nodes with no more cut than there is, or with nothing cut.
Fit    == {c \in Ctrls : c.used <= c.cap}
Filled == {n \in Nodes : n.ctrl \in Fit}
Clean  == {n \in Nodes : n.ctrl.used = 0}
Pieces == [block : 0 .. MaxNodes, at : Nat, size : Sizes]

Typed == /\ kind \in Kinds
         /\ cur \in Fit
         /\ chain \in Seq(Filled)
         /\ empty \in Seq(Clean)
         /\ heap \subseteq 1 .. MaxNodes
         /\ live \in Seq(Pieces)
         /\ halted = "no"

\* A stack of controls, c on top of those of ch.
Level(c, ch, k) == IF k = 0 THEN c ELSE ch[k].ctrl

\* Piece i follows on the piece before it, without a gap.
Follows(lv, i) == lv[i].at = lv[i - 1].at + AlignSize(lv[i - 1].size)

\* The pieces top[k + 1] + 1 .. top[k] fill level k from its start to what is cut
\* from it, and there is one at least.  At the bottom is the control that has no
\* memory.
Tiled(c, ch, lv, top) ==
  /\ top \in [0 .. Len(ch) -> 0 .. Len(lv)]
  /\ top[0] = Len(lv) /\ top[Len(ch)] = 0
  /\ Level(c, ch, Len(ch)) = Ctrl(0, 0)
  /\ \A k \in 0 .. Len(ch) - 1 :
       /\ top[k + 1] < top[k]
       /\ lv[top[k]].at + AlignSize(lv[top[k]].size) = Level(c, ch, k).used
       /\ \A i \in top[k + 1] + 1 .. top[k] :
            /\ lv[i].block = Level(c, ch, k).block
            /\ IF i = top[k + 1] + 1 THEN lv[i].at = 0 ELSE Follows(lv, i)

StackTiled == kind = "stacked" => \E top : Tiled(cur, chain, live, top)

IInv == Typed /\ StackTiled
-----------------------------------------------------------------------------
LEMMA Euclid == \A a \in Nat \ {0}, x \in Nat :
                  /\ x \div a \in Nat
                  /\ (x \div a) * a <= x
                  /\ x < (x \div a) * a + a
  BY SMT

LEMMA TimesMono ==
  ASSUME NEW a \in Nat, NEW p \in Nat, NEW q \in Nat, p <= q PROVE p * a <= q * a
  BY SMT

LEMMA TimesSucc ==
  ASSUME NEW a \in Nat, NEW p \in Nat PROVE (p + 1) * a = p * a + a /\ p * a \in Nat
  BY SMT

\* AlignSize never rounds down, and keeps the order of sizes.
LEMMA AlignSizeBounds ==
  ASSUME NEW sz \in Nat PROVE AlignSize(sz) \in Nat /\ sz <= AlignSize(sz)
<1> DEFINE q == (sz + Align - 1) \div Align
<1>1. sz + Align - 1 \in Nat /\ Align \in Nat \ {0}
  BY ChainAssumption
<1>2. q \in Nat /\ sz + Align - 1 < q * Align + Align
  BY <1>1, Euclid
<1>3. q * Align \in Nat
  BY <1>1, <1>2, TimesSucc
<1>4. AlignSize(sz) = q * Align
  BY DEF AlignSize
<1> HIDE DEF q
<1>5. sz <= q * Align
  <2> DEFINE m == q * Align
  <2>1. m \in Nat /\ sz + Align - 1 < m + Align
    BY <1>2, <1>3
  <2> HIDE DEF m
  <2>2. sz <= m
    BY <2>1, <1>1
  <2> QED
    BY <2>2 DEF m
<1> QED
  BY <1>3, <1>4, <1>5

LEMMA AlignSizeMono ==
  ASSUME NEW s \in Nat, NEW t \in Nat, s <= t PROVE AlignSize(s) <= AlignSize(t)
<1> DEFINE p == (s + Align - 1) \div Align
           q == (t + Align - 1) \div Align
<1>1. /\ s + Align - 1 \in Nat /\ t + Align - 1 \in Nat /\ Align \in Nat \ {0}
      /\ s + Align - 1 <= t + Align - 1
  BY ChainAssumption
<1>2. /\ p \in Nat /\ p * Align <= s + Align - 1
      /\ q \in Nat /\ t + Align - 1 < q * Align + Align
  BY <1>1, Euclid
<1>3. AlignSize(s) = p * Align /\ AlignSize(t) = q * Align
  BY DEF AlignSize
<1> HIDE DEF p, q
<1>4. p <= q
  <2> SUFFICES ASSUME q + 1 <= p PROVE FALSE
    BY <1>2
  <2>1. (q + 1) * Align <= p * Align
    BY <1>1, <1>2, TimesMono
  <2>2. (q + 1) * Align = q * Align + Align /\ q * Align \in Nat /\ p * Align \in Nat
    BY <1>1, <1>2, TimesSucc
  <2> QED
    BY <1>1, <1>2, <2>1, <2>2
<1> QED
  BY <1>1, <1>2, <1>3, <1>4, TimesMono

LEMMA SizesArePositive == \A sz \in Sizes : AlignSize(sz) \in Nat \ {0}
<1> SUFFICES ASSUME NEW sz \in Sizes PROVE AlignSize(sz) \in Nat \ {0}
  OBVIOUS
<1>1. sz \in Nat \ {0}
  BY ChainAssumption
<1> QED
  BY <1>1, AlignSizeBounds

\* A node that has the size asked for, and nothing cut, yields the memory.
LEMMA RoomForIt ==
  ASSUME NEW sz \in Sizes, NEW c \in Ctrls, c.used = 0, c.cap >= NodeSize(sz)
  PROVE  /\ NodeSize(sz) \in Nat
         /\ Yields(c, sz)
         /\ Cut(c, sz) \in Fit
<1>1. sz \in Nat /\ Align \in Nat /\ Block \in Nat /\ c.cap \in Nat
  BY ChainAssumption DEF Ctrls
<1>2. sz + Align \in Nat /\ sz <= sz + Align
  BY <1>1
<1>3. /\ AlignSize(sz) <= AlignSize(sz + Align)
      /\ AlignSize(sz) \in Nat /\ AlignSize(sz + Align) \in Nat
  BY <1>1, <1>2, AlignSizeMono, AlignSizeBounds
<1>4. NodeSize(sz) \in Nat /\ AlignSize(sz) <= NodeSize(sz)
  BY <1>1, <1>3 DEF NodeSize
<1>5. AlignSize(sz) <= c.cap
  BY <1>1, <1>3, <1>4
<1> QED
  BY <1>1, <1>3, <1>4, <1>5 DEF Yields, Cut, Fit, Ctrls
-----------------------------------------------------------------------------
\* Memory cut from the control on top is its new last piece.
LEMMA TilePush ==
  ASSUME NEW c \in Fit, NEW ch \in Seq(Filled), NEW lv \in Seq(Pieces), NEW top,
         Tiled(c, ch, lv, top), NEW sz \in Sizes, Yields(c, sz)
  PROVE  \E t : Tiled(Cut(c, sz), ch, Append(lv, Piece(c, sz)), t)
<1> DEFINE n  == Len(lv)
           l  == Append(lv, Piece(c, sz))
           t  == [top EXCEPT ![0] = n + 1]
<1>1. n \in Nat /\ Len(ch) \in Nat /\ AlignSize(sz) \in Nat \ {0}
  BY SizesArePositive, LenProperties
<1>2. c.used \in Nat /\ c.cap \in Nat /\ Piece(c, sz) \in Pieces
  BY DEF Fit, Ctrls, Piece, Pieces
<1>3. /\ Len(l) = n + 1 /\ l[n + 1] = Piece(c, sz)
      /\ \A i \in 1 .. n : l[i] = lv[i]
  BY <1>2, AppendProperties
<1>4. Len(ch) # 0
  <2> SUFFICES ASSUME Len(ch) = 0 PROVE FALSE
    OBVIOUS
  <2>1. c = Ctrl(0, 0)
    BY DEF Tiled, Level
  <2> QED
    BY <2>1, <1>1 DEF Ctrl, Yields
<1>5. Cut(c, sz).used = c.used + AlignSize(sz) /\ Cut(c, sz).block = c.block
  BY DEF Cut, Fit, Ctrls
<1>6. \A k \in 1 .. Len(ch) : Level(Cut(c, sz), ch, k) = Level(c, ch, k)
  BY DEF Level
<1>7. t \in [0 .. Len(ch) -> 0 .. n + 1] /\ t[0] = n + 1 /\ \A k \in 1 .. Len(ch) : t[k] = top[k]
  BY <1>1, <1>4 DEF Tiled
<1>8. top \in [0 .. Len(ch) -> 0 .. n] /\ top[0] = n /\ top[1] < n
  BY <1>1, <1>4 DEF Tiled
<1> HIDE DEF t, l, n
<1>9. ASSUME NEW k \in 0 .. Len(ch) - 1
      PROVE  /\ t[k + 1] < t[k]
             /\ l[t[k]].at + AlignSize(l[t[k]].size) = Level(Cut(c, sz), ch, k).used
             /\ \A i \in t[k + 1] + 1 .. t[k] :
                  /\ l[i].block = Level(Cut(c, sz), ch, k).block
                  /\ IF i = t[k + 1] + 1 THEN l[i].at = 0 ELSE Follows(l, i)
  <2>1. /\ top[k + 1] < top[k] /\ top[k] \in 0 .. n /\ top[k + 1] \in 0 .. n
        /\ lv[top[k]].at + AlignSize(lv[top[k]].size) = Level(c, ch, k).used
        /\ \A i \in top[k + 1] + 1 .. top[k] :
             /\ lv[i].block = Level(c, ch, k).block
             /\ IF i = top[k + 1] + 1 THEN lv[i].at = 0 ELSE Follows(lv, i)
    <3>1. k + 1 \in 0 .. Len(ch) /\ k \in 0 .. Len(ch)
      BY <1>1
    <3>2. top[k] \in 0 .. n /\ top[k + 1] \in 0 .. n
      BY <1>8, <3>1
    <3> QED
      BY <3>2 DEF Tiled
  <2>2. t[k + 1] = top[k + 1]
    BY <1>1, <1>7
  <2>3. \A i \in top[k + 1] + 1 .. top[k] :
          i # top[k + 1] + 1 => (Follows(lv, i) => Follows(l, i))
    <3> SUFFICES ASSUME NEW i \in top[k + 1] + 1 .. top[k], i # top[k + 1] + 1
                 PROVE  Follows(lv, i) => Follows(l, i)
      OBVIOUS
    <3>1. i \in 1 .. n /\ i - 1 \in 1 .. n
      BY <1>1, <2>1, SMTT(30)
    <3> QED
      BY <1>3, <3>1 DEF Follows
  <2>4. CASE k = 0
    <3>1. /\ t[0] = n + 1 /\ l[n + 1] = Piece(c, sz) /\ Level(Cut(c, sz), ch, 0) = Cut(c, sz)
          /\ Piece(c, sz).at = c.used /\ Piece(c, sz).size = sz /\ Piece(c, sz).block = c.block
          /\ Level(c, ch, 0) = c
      BY <1>3, <1>7 DEF Level, Piece
    <3>2. Follows(l, n + 1)
      BY <1>1, <1>3, <1>8, <2>1, <2>4, <3>1 DEF Follows
    <3>3. ASSUME NEW i \in t[1] + 1 .. n + 1
          PROVE  /\ l[i].block = c.block
                 /\ IF i = t[1] + 1 THEN l[i].at = 0 ELSE Follows(l, i)
      <4>1. CASE i = n + 1
        BY <1>1, <1>8, <2>2, <2>4, <3>1, <3>2, <4>1
      <4>2. CASE i # n + 1
        <5>1. i \in top[1] + 1 .. top[0] /\ i \in 1 .. n
          BY <1>1, <1>8, <2>2, <2>4, <4>2
        <5> QED
          BY <1>3, <2>1, <2>2, <2>3, <2>4, <3>1, <5>1
      <4> QED
        BY <4>1, <4>2
    <3> QED
      BY <1>1, <1>5, <1>8, <2>2, <2>4, <3>1, <3>3
  <2>5. CASE k # 0
    <3>1. t[k] = top[k] /\ Level(Cut(c, sz), ch, k) = Level(c, ch, k)
      BY <1>1, <1>6, <1>7, <2>5
    <3>2. top[k] \in 1 .. n /\ \A i \in top[k + 1] + 1 .. top[k] : l[i] = lv[i]
      BY <1>1, <1>3, <2>1
    <3> QED
      BY <1>3, <2>1, <2>2, <2>3, <3>1, <3>2
  <2> QED
    BY <2>4, <2>5
<1>10. t[Len(ch)] = 0 /\ Level(Cut(c, sz), ch, Len(ch)) = Ctrl(0, 0)
  BY <1>1, <1>4, <1>6, <1>7 DEF Tiled
<1>11. Tiled(Cut(c, sz), ch, l, t)
  BY <1>3, <1>7, <1>9, <1>10 DEF Tiled
<1> QED
  BY <1>11 DEF l

\* Memory cut from another block, with nothing cut before, is a level of its own.
LEMMA TileEnter ==
  ASSUME NEW c \in Fit, NEW ch \in Seq(Filled), NEW lv \in Seq(Pieces), NEW top,
         Tiled(c, ch, lv, top), NEW sz \in Sizes,
         NEW d \in Ctrls, d.used = 0, NEW node \in 1 .. MaxNodes
  PROVE  \E t : Tiled(Cut(d, sz), <<[node |-> node, ctrl |-> c]>> \o ch,
                      Append(lv, Piece(d, sz)), t)
<1> DEFINE n  == Len(lv)
           m  == Len(ch)
           l  == Append(lv, Piece(d, sz))
           h  == <<[node |-> node, ctrl |-> c]>> \o ch
           t  == [k \in 0 .. m + 1 |-> IF k = 0 THEN n + 1 ELSE top[k - 1]]
<1>1. n \in Nat /\ m \in Nat /\ AlignSize(sz) \in Nat \ {0}
  BY SizesArePositive, LenProperties
<1>2. /\ Piece(d, sz) \in Pieces /\ Piece(d, sz).at = 0 /\ Piece(d, sz).size = sz
      /\ Piece(d, sz).block = d.block
      /\ Cut(d, sz).used = AlignSize(sz) /\ Cut(d, sz).block = d.block
  BY <1>1 DEF Ctrls, Piece, Pieces, Cut
<1>3. /\ Len(l) = n + 1 /\ l[n + 1] = Piece(d, sz)
      /\ \A i \in 1 .. n : l[i] = lv[i]
  BY <1>2, AppendProperties
<1>4. /\ Len(h) = m + 1 /\ h[1].ctrl = c
      /\ \A k \in 1 .. m : h[k + 1] = ch[k]
  <2>1. <<[node |-> node, ctrl |-> c]>> \in Seq(Filled) /\ Len(<<[node |-> node, ctrl |-> c]>>) = 1
    BY DEF Filled, Fit, Nodes
  <2> QED
    BY <1>1, <2>1, ConcatProperties
<1>5. \A k \in 0 .. m : Level(Cut(d, sz), h, k + 1) = Level(c, ch, k)
  BY <1>1, <1>4 DEF Level
<1>6. top \in [0 .. m -> 0 .. n] /\ top[0] = n /\ top[m] = 0
  BY <1>1 DEF Tiled
<1>7. t \in [0 .. m + 1 -> 0 .. n + 1] /\ t[0] = n + 1 /\ \A k \in 0 .. m : t[k + 1] = top[k]
  BY <1>1, <1>6
<1> HIDE DEF t, l, h, n, m
<1>8. ASSUME NEW k \in 0 .. m
      PROVE  /\ t[k + 1] < t[k]
             /\ l[t[k]].at + AlignSize(l[t[k]].size) = Level(Cut(d, sz), h, k).used
             /\ \A i \in t[k + 1] + 1 .. t[k] :
                  /\ l[i].block = Level(Cut(d, sz), h, k).block
                  /\ IF i = t[k + 1] + 1 THEN l[i].at = 0 ELSE Follows(l, i)
  <2>1. CASE k = 0
    <3>1. t[k] = n + 1 /\ t[k + 1] = n /\ Level(Cut(d, sz), h, k) = Cut(d, sz)
      BY <1>1, <1>6, <1>7, <2>1 DEF Level
    <3>2. \A i \in n + 1 .. n + 1 : i = n + 1
      BY <1>1
    <3> QED
      BY <1>1, <1>2, <1>3, <3>1, <3>2
  <2>2. CASE k # 0
    <3> DEFINE j == k - 1
    <3>1. j \in 0 .. m - 1 /\ k = j + 1 /\ j \in 0 .. m
      BY <1>1, <2>2
    <3> HIDE DEF j
    <3>2. t[k] = top[j] /\ t[k + 1] = top[j + 1]
      BY <1>1, <1>7, <3>1
    <3>3. /\ top[j + 1] < top[j] /\ top[j] \in 0 .. n /\ top[j + 1] \in 0 .. n
          /\ lv[top[j]].at + AlignSize(lv[top[j]].size) = Level(c, ch, j).used
          /\ \A i \in top[j + 1] + 1 .. top[j] :
               /\ lv[i].block = Level(c, ch, j).block
               /\ IF i = top[j + 1] + 1 THEN lv[i].at = 0 ELSE Follows(lv, i)
      BY <1>1, <1>6, <3>1 DEF Tiled, m, n
    <3>4. Level(Cut(d, sz), h, k) = Level(c, ch, j)
      BY <1>5, <3>1
    <3>5. top[j] \in 1 .. n /\ \A i \in top[j + 1] + 1 .. top[j] : l[i] = lv[i]
      BY <1>1, <1>3, <3>3
    <3>6. \A i \in top[j + 1] + 1 .. top[j] :
            i # top[j + 1] + 1 => (Follows(lv, i) => Follows(l, i))
      BY <1>1, <1>3, <3>3, SMTT(30) DEF Follows
    <3> QED
      BY <1>3, <3>2, <3>3, <3>4, <3>5, <3>6, SMTT(30)
  <2> QED
    BY <2>1, <2>2
<1>9. t[m + 1] = 0 /\ Level(Cut(d, sz), h, m + 1) = Ctrl(0, 0)
  BY <1>1, <1>5, <1>6, <1>7 DEF Tiled, m
<1>10. Tiled(Cut(d, sz), h, l, t)
  <2>1. (m + 1) - 1 = m
    BY <1>1
  <2> QED
    BY <1>3, <1>4, <1>7, <1>8, <1>9, <2>1 DEF Tiled
<1> QED
  BY <1>10 DEF l, h
\* The last piece is the one on top of the current control.  When it starts the
\* block it is alone in its level, and what is left is the stack below.
LEMMA TilePop ==
  ASSUME NEW c \in Fit, NEW ch \in Seq(Filled), NEW lv \in Seq(Pieces), NEW top,
         Tiled(c, ch, lv, top), lv # <<>>
  PROVE  LET a == lv[Len(lv)]
         IN  /\ a \in Pieces
             /\ a.block = c.block /\ a.at + AlignSize(a.size) = c.used
             /\ ch # <<>>
             /\ a.at = 0 => \E t : Tiled(ch[1].ctrl, Tail(ch), Front(lv), t)
             /\ a.at # 0 => \E t : Tiled([c EXCEPT !.used = a.at], ch, Front(lv), t)
<1> DEFINE n == Len(lv)
           m == Len(ch)
           a == lv[n]
           l == Front(lv)
<1>1. n \in Nat \ {0} /\ m \in Nat /\ a \in Pieces
  BY LenProperties, EmptySeq, ElementOfSeq
<1>2. top \in [0 .. m -> 0 .. n] /\ top[0] = n /\ top[m] = 0
  BY <1>1 DEF Tiled
<1>3. m # 0 /\ ch # <<>>
  BY <1>1, <1>2, EmptySeq
<1>4. /\ Len(l) = n - 1
      /\ \A i \in 1 .. n - 1 : l[i] = lv[i]
  <2>1. \A i \in 1 .. n - 1 : lv[i] \in Pieces
    BY <1>1, ElementOfSeq
  <2>2. l = SubSeq(lv, 1, n - 1)
    BY DEF Front
  <2> HIDE DEF n, l
  <2>3. /\ Len(SubSeq(lv, 1, n - 1)) = IF 1 <= n - 1 THEN n - 1 - 1 + 1 ELSE 0
        /\ \A i \in 1 .. n - 1 - 1 + 1 : SubSeq(lv, 1, n - 1)[i] = lv[1 + i - 1]
    BY <1>1, <2>1, SubSeqProperties
  <2>4. \A i \in 1 .. n - 1 : i \in 1 .. n - 1 - 1 + 1 /\ 1 + i - 1 = i
    BY <1>1
  <2>5. Len(SubSeq(lv, 1, n - 1)) = n - 1
    BY <1>1, <2>3
  <2> QED
    BY <2>2, <2>3, <2>4, <2>5
<1>5. ASSUME NEW k \in 0 .. m - 1
      PROVE  /\ top[k + 1] < top[k] /\ top[k] \in 0 .. n /\ top[k + 1] \in 0 .. n
             /\ lv[top[k]].at + AlignSize(lv[top[k]].size) = Level(c, ch, k).used
             /\ \A i \in top[k + 1] + 1 .. top[k] :
                  /\ lv[i].block = Level(c, ch, k).block
                  /\ IF i = top[k + 1] + 1 THEN lv[i].at = 0 ELSE Follows(lv, i)
  <2>1. k \in 0 .. m /\ k + 1 \in 0 .. m
    BY <1>1
  <2>2. top[k] \in 0 .. n /\ top[k + 1] \in 0 .. n
    BY <1>2, <2>1
  <2> QED
    BY <2>2 DEF Tiled
<1>6. /\ top[1] < n /\ top[1] \in 0 .. n
      /\ a.at + AlignSize(a.size) = c.used /\ a.block = c.block
      /\ IF n = top[1] + 1 THEN a.at = 0 ELSE Follows(lv, n)
  <2>1. 0 \in 0 .. m - 1 /\ Level(c, ch, 0) = c /\ 0 + 1 = 1
    BY <1>1, <1>3 DEF Level
  <2> HIDE DEF a
  <2>2. /\ top[1] < n /\ top[1] \in 0 .. n
        /\ lv[n].at + AlignSize(lv[n].size) = c.used
        /\ \A i \in top[1] + 1 .. n :
             /\ lv[i].block = c.block
             /\ IF i = top[1] + 1 THEN lv[i].at = 0 ELSE Follows(lv, i)
    BY <1>2, <1>5, <2>1
  <2>3. n \in top[1] + 1 .. n
    BY <1>1, <2>2
  <2> QED
    BY <2>2, <2>3 DEF a
<1>7. n # top[1] + 1 => /\ n - 1 \in 1 .. n - 1 /\ lv[n - 1] \in Pieces
                        /\ a.at = lv[n - 1].at + AlignSize(lv[n - 1].size)
                        /\ a.at # 0
  <2> SUFFICES ASSUME n # top[1] + 1
               PROVE  /\ n - 1 \in 1 .. n - 1 /\ lv[n - 1] \in Pieces
                      /\ a.at = lv[n - 1].at + AlignSize(lv[n - 1].size)
                      /\ a.at # 0
    OBVIOUS
  <2>1. n - 1 \in 1 .. n - 1 /\ n - 1 \in 1 .. n
    BY <1>1, <1>6
  <2>2. lv[n - 1] \in Pieces
    BY <2>1, ElementOfSeq
  <2>3. lv[n - 1].at \in Nat /\ AlignSize(lv[n - 1].size) \in Nat \ {0}
    BY <2>2, SizesArePositive DEF Pieces
  <2>4. a.at = lv[n - 1].at + AlignSize(lv[n - 1].size)
    BY <1>6 DEF Follows
  <2> QED
    BY <2>1, <2>2, <2>3, <2>4
<1>8. ASSUME NEW i \in 2 .. n - 1, Follows(lv, i) PROVE Follows(l, i)
  <2>1. i \in 1 .. n - 1 /\ i - 1 \in 1 .. n - 1
    BY <1>1
  <2> QED
    BY <1>4, <1>8, <2>1 DEF Follows
<1> HIDE DEF l
<1>9. ASSUME a.at = 0 PROVE \E t : Tiled(ch[1].ctrl, Tail(ch), l, t)
  <2> DEFINE r == Tail(ch)
             d == ch[1].ctrl
             t == [k \in 0 .. m - 1 |-> top[k + 1]]
  <2>1. top[1] = n - 1
    BY <1>1, <1>6, <1>7, <1>9
  <2>2. Len(r) = m - 1 /\ \A k \in 1 .. m - 1 : r[k] = ch[k + 1]
    BY <1>1, <1>3, HeadTailProperties
  <2>3. \A k \in 0 .. m - 1 : Level(d, r, k) = Level(c, ch, k + 1)
    BY <1>1, <1>3, <2>2 DEF Level
  <2>4. ASSUME NEW k \in 0 .. m - 1 PROVE top[k + 1] \in 0 .. n - 1
    <3>1. CASE k = 0
      BY <1>1, <2>1, <3>1
    <3>2. CASE k # 0
      <4>1. top[k + 1] \in 0 .. n /\ top[k + 1] < top[k] /\ top[k] \in 0 .. n
        BY <1>5
      <4> QED
        BY <1>1, <4>1
    <3> QED
      BY <3>1, <3>2
  <2>5. t \in [0 .. m - 1 -> 0 .. n - 1] /\ \A k \in 0 .. m - 1 : t[k] = top[k + 1]
    BY <2>4
  <2> HIDE DEF t, r, d
  <2>6. t[0] = n - 1 /\ t[m - 1] = 0 /\ Level(d, r, m - 1) = Ctrl(0, 0)
    <3>1. 0 \in 0 .. m - 1 /\ m - 1 \in 0 .. m - 1 /\ (m - 1) + 1 = m
      BY <1>1, <1>3
    <3>2. t[0] = n - 1
      <4>1. t[0] = top[0 + 1]
        BY <2>5, <3>1
      <4> QED
        BY <2>1, <4>1
    <3>3. t[m - 1] = 0 /\ Level(d, r, m - 1) = Level(c, ch, m)
      BY <1>2, <2>3, <2>5, <3>1
    <3> QED
      BY <3>2, <3>3 DEF Tiled
  <2>7. ASSUME NEW k \in 0 .. m - 2
        PROVE  /\ t[k + 1] < t[k]
               /\ l[t[k]].at + AlignSize(l[t[k]].size) = Level(d, r, k).used
               /\ \A i \in t[k + 1] + 1 .. t[k] :
                    /\ l[i].block = Level(d, r, k).block
                    /\ IF i = t[k + 1] + 1 THEN l[i].at = 0 ELSE Follows(l, i)
    <3> DEFINE j == k + 1
    <3>1. j \in 0 .. m - 1 /\ k \in 0 .. m - 1 /\ k + 1 \in 0 .. m - 1 /\ j = k + 1
      BY <1>1
    <3> HIDE DEF j
    <3>2. t[k] = top[j] /\ t[k + 1] = top[j + 1] /\ Level(d, r, k) = Level(c, ch, j)
      BY <2>3, <2>5, <3>1
    <3>3. /\ top[j + 1] < top[j] /\ top[j] \in 0 .. n - 1 /\ top[j + 1] \in 0 .. n - 1
          /\ lv[top[j]].at + AlignSize(lv[top[j]].size) = Level(c, ch, j).used
          /\ \A i \in top[j + 1] + 1 .. top[j] :
               /\ lv[i].block = Level(c, ch, j).block
               /\ IF i = top[j + 1] + 1 THEN lv[i].at = 0 ELSE Follows(lv, i)
      <4>1. top[j] \in 0 .. n - 1 /\ top[j + 1] \in 0 .. n - 1
        BY <2>4, <3>1
      <4> QED
        BY <1>5, <3>1, <4>1
    <3>4. \A i \in top[j + 1] + 1 .. top[j] :
            /\ l[i] = lv[i]
            /\ i # top[j + 1] + 1 => (Follows(lv, i) => Follows(l, i))
      <4> SUFFICES ASSUME NEW i \in top[j + 1] + 1 .. top[j]
                   PROVE  /\ i \in 1 .. n - 1
                          /\ i # top[j + 1] + 1 => i \in 2 .. n - 1
        BY <1>4, <1>8
      <4> QED
        BY <1>1, <3>3
    <3>5. l[top[j]] = lv[top[j]]
      BY <1>1, <1>4, <3>3
    <3> QED
      BY <3>2, <3>3, <3>4, <3>5, SMTT(30)
  <2>8. Tiled(d, r, l, t)
    <3>1. (m - 1) - 1 = m - 2
      BY <1>1
    <3> QED
      BY <1>4, <2>2, <2>5, <2>6, <2>7, <3>1 DEF Tiled
  <2> QED
    BY <2>8 DEF r, d
<1>10. ASSUME a.at # 0 PROVE \E t : Tiled([c EXCEPT !.used = a.at], ch, l, t)
  <2> DEFINE d == [c EXCEPT !.used = a.at]
             t == [top EXCEPT ![0] = n - 1]
  <2>1. n # top[1] + 1
    BY <1>6, <1>10
  <2>2. d.used = a.at /\ d.block = c.block
    BY DEF Fit, Ctrls
  <2>3. /\ Level(d, ch, 0) = d
        /\ \A k \in 1 .. m : Level(d, ch, k) = Level(c, ch, k)
    BY DEF Level
  <2>4. ASSUME NEW k \in 1 .. m PROVE top[k] \in 0 .. n - 1
    <3> DEFINE j == k - 1
    <3>1. j \in 0 .. m - 1 /\ k = j + 1
      BY <1>1
    <3> HIDE DEF j
    <3>2. top[j + 1] < top[j] /\ top[j] \in 0 .. n /\ top[j + 1] \in 0 .. n
      BY <1>5, <3>1
    <3> QED
      BY <1>1, <3>1, <3>2
  <2>5. /\ t \in [0 .. m -> 0 .. n - 1] /\ t[0] = n - 1
        /\ \A k \in 1 .. m : t[k] = top[k]
    <3>1. \A k \in 0 .. m : t[k] = IF k = 0 THEN n - 1 ELSE top[k]
      BY <1>1, <1>2
    <3>2. t = [k \in 0 .. m |-> t[k]]
      BY <1>2
    <3>3. \A k \in 0 .. m : t[k] \in 0 .. n - 1
      BY <1>1, <2>4, <3>1
    <3> HIDE DEF t
    <3> QED
      BY <1>1, <3>1, <3>2, <3>3
  <2> HIDE DEF t, d
  <2>6. ASSUME NEW k \in 0 .. m - 1
        PROVE  /\ t[k + 1] < t[k]
               /\ l[t[k]].at + AlignSize(l[t[k]].size) = Level(d, ch, k).used
               /\ \A i \in t[k + 1] + 1 .. t[k] :
                    /\ l[i].block = Level(d, ch, k).block
                    /\ IF i = t[k + 1] + 1 THEN l[i].at = 0 ELSE Follows(l, i)
    <3>1. t[k + 1] = top[k + 1] /\ top[k + 1] \in 0 .. n - 1
      BY <1>1, <2>4, <2>5
    <3>2. \A i \in top[k + 1] + 1 .. n - 1 :
            /\ l[i] = lv[i]
            /\ i # top[k + 1] + 1 => (Follows(lv, i) => Follows(l, i))
      <4> SUFFICES ASSUME NEW i \in top[k + 1] + 1 .. n - 1
                   PROVE  /\ i \in 1 .. n - 1
                          /\ i # top[k + 1] + 1 => i \in 2 .. n - 1
        BY <1>4, <1>8
      <4> QED
        BY <1>1, <3>1
    <3>3. CASE k = 0
      <4>1. t[0] = n - 1 /\ t[1] = top[1] /\ Level(d, ch, 0) = d /\ Level(c, ch, 0) = c
        BY <2>3, <2>5, <3>1, <3>3 DEF Level
      <4>2. top[1] < n - 1
        BY <1>1, <1>6, <2>1
      <4>3. l[n - 1] = lv[n - 1] /\ a.at = lv[n - 1].at + AlignSize(lv[n - 1].size)
        BY <1>4, <1>7, <2>1
      <4>4. \A i \in top[1] + 1 .. n :
              /\ lv[i].block = c.block
              /\ IF i = top[1] + 1 THEN lv[i].at = 0 ELSE Follows(lv, i)
        BY <1>2, <1>5, <3>3, <4>1
      <4>5. \A i \in top[1] + 1 .. n - 1 : i \in top[1] + 1 .. n
        BY <1>1, <1>6
      <4> QED
        BY <2>2, <3>2, <3>3, <4>1, <4>2, <4>3, <4>4, <4>5
    <3>4. CASE k # 0
      <4>1. /\ k \in 1 .. m /\ t[k] = top[k] /\ top[k] \in 0 .. n - 1
            /\ Level(d, ch, k) = Level(c, ch, k)
        BY <1>1, <2>3, <2>4, <2>5, <3>4
      <4>2. \A i \in top[k + 1] + 1 .. top[k] : i \in top[k + 1] + 1 .. n - 1
        BY <1>1, <3>1, <4>1
      <4>3. top[k] \in top[k + 1] + 1 .. top[k]
        BY <1>5, <3>1, <4>1
      <4>4. l[top[k]] = lv[top[k]]
        BY <3>2, <4>2, <4>3
      <4>5. \A i \in top[k + 1] + 1 .. top[k] :
              /\ l[i].block = Level(c, ch, k).block
              /\ IF i = top[k + 1] + 1 THEN l[i].at = 0 ELSE Follows(l, i)
        BY <1>5, <3>2, <4>2, SMTT(30)
      <4> QED
        BY <1>5, <3>1, <4>1, <4>4, <4>5
    <3> QED
      BY <3>3, <3>4
  <2>7. t[m] = 0 /\ Level(d, ch, m) = Ctrl(0, 0)
    BY <1>1, <1>2, <1>3, <2>3, <2>5 DEF Tiled
  <2>8. Tiled(d, ch, l, t)
    BY <1>4, <2>5, <2>6, <2>7 DEF Tiled
  <2> QED
    BY <2>8 DEF d
<1> QED
  BY <1>1, <1>3, <1>6, <1>9, <1>10 DEF l
-----------------------------------------------------------------------------
LEMMA InitInv == Init => IInv
<1> SUFFICES ASSUME Init PROVE IInv
  OBVIOUS
<1>1. cur \in Fit
  BY ChainAssumption DEF Init, Ctrl, Fit, Ctrls
<1>2. Typed
  BY <1>1, EmptySeq DEF Init, Typed
<1>3. ASSUME kind = "stacked" PROVE Tiled(cur, chain, live, [k \in 0 .. 0 |-> 0])
  <2>1. cur = Ctrl(0, 0) /\ Len(chain) = 0 /\ Len(live) = 0
    BY <1>3, EmptySeq DEF Init
  <2> QED
    BY <2>1 DEF Tiled, Level
<1> QED
  BY <1>2, <1>3 DEF IInv, StackTiled

\* A set of numbers that is not empty has a least one, which Min finds.
LEMMA MinIsIn == ASSUME NEW S \in SUBSET Nat, S # {} PROVE Min(S) \in S
<1>1. \E x \in S : \A y \in S : ~(<<y, x>> \in OpToRel(<, Nat))
  BY NatLessThanWellFounded, WFMin
<1>2. PICK x \in S : \A y \in S : ~(<<y, x>> \in OpToRel(<, Nat))
  BY <1>1
<1>3. \A y \in S : x =< y
  <2> SUFFICES ASSUME NEW y \in S, ~(x =< y) PROVE FALSE
    OBVIOUS
  <2>1. x \in Nat /\ y \in Nat /\ y < x
    OBVIOUS
  <2>2. <<y, x>> \in OpToRel(<, Nat)
    BY <2>1 DEF OpToRel
  <2> QED
    BY <1>2, <2>2
<1> QED
  BY <1>2, <1>3 DEF Min

LEMMA KeepAllocHere ==
  ASSUME IInv, NEW sz \in Sizes, AllocHere(sz) PROVE IInv'
<1> USE DEF IInv, AllocHere
<1>1. AlignSize(sz) \in Nat /\ cur.used \in Nat /\ cur.cap \in Nat /\ cur \in Ctrls
  BY SizesArePositive DEF Typed, Fit, Ctrls
<1>2. Cut(cur, sz) \in Fit /\ Piece(cur, sz) \in Pieces
  <2>1. AlignSize(sz) <= cur.cap - cur.used
    BY DEF Yields
  <2>2. cur.used + AlignSize(sz) \in Nat /\ cur.used + AlignSize(sz) <= cur.cap
    BY <1>1, <2>1
  <2> QED
    BY <1>1, <2>2 DEF Cut, Piece, Pieces, Fit, Ctrls
<1>3. Typed'
  <2>1. live' \in Seq(Pieces)
    BY <1>2, AppendProperties DEF Typed
  <2> QED
    BY <1>2, <2>1 DEF Typed
<1>4. StackTiled'
  <2> SUFFICES ASSUME kind = "stacked" PROVE \E t : Tiled(cur', chain', live', t)
    BY DEF StackTiled
  <2>1. PICK top : Tiled(cur, chain, live, top)
    BY DEF StackTiled
  <2>2. \E t : Tiled(Cut(cur, sz), chain, Append(live, Piece(cur, sz)), t)
    BY <2>1, TilePush DEF Typed
  <2> QED
    BY <2>2
<1> QED
  BY <1>3, <1>4

\* The assertion of Alloc holds where it is reached.
LEMMA KeepEnter ==
  ASSUME IInv, NEW sz \in Sizes, NEW node \in 1 .. MaxNodes,
         NEW c \in Ctrls, c.used = 0, c.cap >= NodeSize(sz),
         Enter(node, c, sz), kind' = kind,
         empty' \in Seq(Clean), heap' \subseteq 1 .. MaxNodes
  PROVE  IInv'
<1> USE DEF IInv
<1>1. Yields(c, sz) /\ Cut(c, sz) \in Fit
  BY RoomForIt
<1>2. /\ chain' = <<[node |-> node, ctrl |-> cur]>> \o chain
      /\ cur' = Cut(c, sz) /\ live' = Append(live, Piece(c, sz)) /\ halted' = halted
  BY <1>1 DEF Enter
<1>3. chain' \in Seq(Filled)
  <2>1. <<[node |-> node, ctrl |-> cur]>> \in Seq(Filled)
    BY DEF Typed, Filled, Fit, Nodes
  <2> QED
    BY <1>2, <2>1, ConcatProperties DEF Typed
<1>4. live' \in Seq(Pieces)
  <2>1. Piece(c, sz) \in Pieces
    BY DEF Piece, Pieces, Ctrls
  <2> QED
    BY <1>2, <2>1, AppendProperties DEF Typed
<1>5. Typed'
  BY <1>1, <1>2, <1>3, <1>4 DEF Typed
<1>6. StackTiled'
  <2> SUFFICES ASSUME kind = "stacked" PROVE \E t : Tiled(cur', chain', live', t)
    BY DEF StackTiled
  <2>1. PICK top : Tiled(cur, chain, live, top)
    BY DEF StackTiled
  <2>2. \E t : Tiled(Cut(c, sz), <<[node |-> node, ctrl |-> cur]>> \o chain,
                     Append(live, Piece(c, sz)), t)
    BY <2>1, TileEnter DEF Typed
  <2> QED
    BY <1>2, <2>2
<1> QED
  BY <1>5, <1>6

LEMMA KeepAllocReuse ==
  ASSUME IInv, NEW sz \in Sizes, AllocReuse(sz) PROVE IInv'
<1>1. PICK i \in 1 .. Len(empty) : /\ Suitable(i, NodeSize(sz))
                                   /\ empty' = RemoveAt(empty, i)
                                   /\ Enter(empty[i].node, empty[i].ctrl, sz)
  BY DEF AllocReuse
<1>2. empty[i] \in Clean /\ empty \in Seq(Clean) /\ Len(empty) \in Nat
  BY ElementOfSeq, LenProperties DEF IInv, Typed
<1>3. /\ empty[i].node \in 1 .. MaxNodes /\ empty[i].ctrl \in Ctrls
      /\ empty[i].ctrl.used = 0 /\ empty[i].ctrl.cap >= NodeSize(sz)
  BY <1>1, <1>2 DEF Clean, Nodes, Suitable
<1>4. empty' \in Seq(Clean)
  <2>1. \A j \in 1 .. Len(empty) : empty[j] \in Clean
    BY <1>2, ElementOfSeq
  <2>2. /\ \A j \in 1 .. i - 1 : empty[j] \in Clean
        /\ \A j \in i + 1 .. Len(empty) : empty[j] \in Clean
    BY <1>2, <2>1
  <2>3. SubSeq(empty, 1, i - 1) \in Seq(Clean) /\ SubSeq(empty, i + 1, Len(empty)) \in Seq(Clean)
    BY <1>2, <2>2, SubSeqProperties
  <2> QED
    BY <1>1, <2>3, ConcatProperties DEF RemoveAt
<1>5. kind' = kind /\ heap' \subseteq 1 .. MaxNodes
  BY DEF AllocReuse, IInv, Typed
<1> QED
  BY <1>1, <1>3, <1>4, <1>5, KeepEnter

\* A new node gets a number that no node on the heap has.
LEMMA NewNode ==
  ASSUME Typed, Cardinality(heap) < MaxNodes
  PROVE  Min((1 .. MaxNodes) \ heap) \in (1 .. MaxNodes) \ heap
<1>1. heap \subseteq 1 .. MaxNodes /\ MaxNodes \in Nat
  BY ChainAssumption DEF Typed
<1>2. (1 .. MaxNodes) \ heap # {}
  <2> SUFFICES ASSUME heap = 1 .. MaxNodes PROVE FALSE
    BY <1>1
  <2>1. Cardinality(heap) = MaxNodes
    BY <1>1, FS_Interval
  <2> QED
    BY <1>1, <2>1
<1> QED
  BY <1>1, <1>2, MinIsIn

LEMMA KeepAllocInNode ==
  ASSUME IInv, NEW sz \in Sizes, AllocInNode(sz) PROVE IInv'
<1> DEFINE n == Min((1 .. MaxNodes) \ heap)
<1>1. heap \subseteq 1 .. MaxNodes /\ MaxNodes \in Nat
  BY ChainAssumption DEF IInv, Typed
<1>2. n \in 1 .. MaxNodes
  BY NewNode DEF IInv, AllocInNode
<1>3. /\ heap' = heap \cup {n} /\ Enter(n, Ctrl(n, NodeSize(sz)), sz)
      /\ kind' = kind /\ empty' = empty
  BY DEF AllocInNode
<1> HIDE DEF n
<1>4. NodeSize(sz) \in Nat
  <2>1. sz \in Nat /\ Align \in Nat /\ Block \in Nat
    BY ChainAssumption
  <2>2. AlignSize(sz + Align) \in Nat
    BY <2>1, AlignSizeBounds
  <2> QED
    BY <2>1, <2>2 DEF NodeSize
<1>5. /\ Ctrl(n, NodeSize(sz)) \in Ctrls /\ Ctrl(n, NodeSize(sz)).used = 0
      /\ Ctrl(n, NodeSize(sz)).cap >= NodeSize(sz)
  BY <1>1, <1>2, <1>4 DEF Ctrl, Ctrls
<1> QED
  BY <1>1, <1>2, <1>3, <1>5, KeepEnter DEF IInv, Typed

\* What is given back is on top, also when the block before it comes back.
LEMMA KeepDealloc ==
  ASSUME IInv, Dealloc PROVE IInv'
<1> USE DEF IInv
<1> DEFINE a == live[Len(live)]
           left == [cur EXCEPT !.used = a.at]
<1>1. PICK top : Tiled(cur, chain, live, top)
  BY DEF StackTiled, Dealloc
<1>2. /\ cur \in Fit /\ chain \in Seq(Filled) /\ live \in Seq(Pieces) /\ live # <<>>
      /\ empty \in Seq(Clean)
  BY DEF Typed, Dealloc
<1>3. /\ a \in Pieces
      /\ a.block = cur.block /\ a.at + AlignSize(a.size) = cur.used
      /\ chain # <<>>
      /\ a.at = 0 => \E t : Tiled(chain[1].ctrl, Tail(chain), Front(live), t)
      /\ a.at # 0 => \E t : Tiled([cur EXCEPT !.used = a.at], chain, Front(live), t)
  BY <1>1, <1>2, TilePop
<1>4. a.at \in Nat /\ AlignSize(a.size) \in Nat /\ cur \in Ctrls /\ cur.used <= cur.cap
  BY <1>2, <1>3, SizesArePositive DEF Pieces, Fit
<1>5. OnTop(a)
  BY <1>3, <1>4 DEF OnTop
<1>6. left \in Fit
  <2>1. a.at <= cur.used /\ cur.cap \in Nat /\ cur.used \in Nat
    BY <1>3, <1>4 DEF Ctrls
  <2> QED
    BY <1>4, <2>1 DEF Fit, Ctrls
<1>7. Front(live) \in Seq(Pieces)
  <2>1. Len(live) \in Nat /\ \A i \in 1 .. Len(live) : live[i] \in Pieces
    BY <1>2, ElementOfSeq, LenProperties
  <2>2. \A i \in 1 .. Len(live) - 1 : live[i] \in Pieces
    BY <2>1
  <2> QED
    BY <2>1, <2>2, SubSeqProperties DEF Front
<1>8. /\ live' = Front(live) /\ kind' = kind /\ heap' = heap /\ halted' = halted
      /\ IF a.at = 0
         THEN /\ cur' = chain[1].ctrl /\ chain' = Tail(chain)
              /\ empty' = <<[node |-> chain[1].node, ctrl |-> left]>> \o empty
         ELSE cur' = left /\ chain' = chain /\ empty' = empty
  BY <1>3, <1>5 DEF Dealloc
<1>9. CASE a.at = 0
  <2>1. /\ chain[1] \in Filled /\ Tail(chain) \in Seq(Filled)
    <3>1. 1 \in 1 .. Len(chain)
      BY <1>2, <1>3, LenProperties, EmptySeq
    <3> QED
      BY <1>2, <1>3, <3>1, ElementOfSeq, HeadTailProperties
  <2>2. chain[1].ctrl \in Fit /\ chain[1].node \in 1 .. MaxNodes
    BY <2>1 DEF Filled, Nodes
  <2>3. left.used = 0
    BY <1>4, <1>9 DEF Ctrls
  <2> HIDE DEF left
  <2>4. [node |-> chain[1].node, ctrl |-> left] \in Clean
    BY <1>6, <2>2, <2>3 DEF Clean, Fit, Nodes
  <2>5. <<[node |-> chain[1].node, ctrl |-> left]>> \o empty \in Seq(Clean)
    <3>1. <<[node |-> chain[1].node, ctrl |-> left]>> \in Seq(Clean)
      BY <2>4
    <3> QED
      BY <1>2, <3>1, ConcatProperties
  <2>6. Typed'
    BY <1>7, <1>8, <1>9, <2>1, <2>2, <2>5 DEF Typed
  <2>7. \E t : Tiled(cur', chain', live', t)
    BY <1>3, <1>8, <1>9
  <2> QED
    BY <2>6, <2>7 DEF StackTiled
<1>10. CASE a.at # 0
  <2>1. Typed'
    BY <1>2, <1>6, <1>7, <1>8, <1>10 DEF Typed
  <2>2. \E t : Tiled(cur', chain', live', t)
    BY <1>3, <1>8, <1>10
  <2> QED
    BY <2>1, <2>2 DEF StackTiled
<1> QED
  BY <1>9, <1>10
LEMMA EmptiedIsClean ==
  ASSUME NEW c \in Ctrls PROVE Emptied(c) \in Fit /\ Emptied(c).used = 0
  BY DEF Emptied, Fit, Ctrls

LEMMA CollectedIsClean ==
  ASSUME Typed
  PROVE  Collected \in Seq(Clean) /\ Len(Collected) = Len(chain) + Len(empty)
<1> DEFINE n == Len(chain)
           e == [i \in 1 .. n |-> [chain[i] EXCEPT !.ctrl = Emptied(@)]]
<1>1. n \in Nat /\ \A i \in 1 .. n : chain[i] \in Filled
  BY LenProperties, ElementOfSeq DEF Typed
<1>2. \A i \in 1 .. n : e[i] \in Clean
  <2> SUFFICES ASSUME NEW i \in 1 .. n PROVE e[i] \in Clean
    OBVIOUS
  <2>1. chain[i] \in Nodes /\ chain[i].ctrl \in Ctrls
    BY <1>1 DEF Filled, Nodes
  <2>2. Emptied(chain[i].ctrl) \in Ctrls /\ Emptied(chain[i].ctrl).used = 0
    BY <2>1, EmptiedIsClean DEF Fit
  <2>3. e[i] = [chain[i] EXCEPT !.ctrl = Emptied(chain[i].ctrl)]
    OBVIOUS
  <2> QED
    BY <2>1, <2>2, <2>3 DEF Clean, Nodes
<1>3. e \in [1 .. n -> Clean]
  BY <1>2
<1>4. e \in Seq(Clean) /\ Len(e) = n
  BY <1>1, <1>3, SeqDef, LenProperties
<1> HIDE DEF e, n
<1>5. Reverse(e) \in [1 .. n -> Clean]
  <2>1. Reverse(e) = [i \in 1 .. n |-> e[(n - i) + 1]]
    BY <1>4 DEF Reverse
  <2>2. \A i \in 1 .. n : (n - i) + 1 \in 1 .. n
    BY <1>1
  <2> QED
    BY <1>3, <2>1, <2>2
<1>6. Reverse(e) \in Seq(Clean) /\ Len(Reverse(e)) = n
  <2>1. Reverse(e) \in Seq(Clean)
    BY <1>1, <1>5, SeqDef
  <2> QED
    BY <1>1, <1>5, <2>1, LenProperties
<1>7. Collected = Reverse(e) \o empty
  BY DEF Collected, e, n
<1>8. empty \in Seq(Clean)
  BY DEF Typed
<1>9. n = Len(chain)
  BY DEF n
<1>10. ASSUME NEW r \in Seq(Clean)
       PROVE  r \o empty \in Seq(Clean) /\ Len(r \o empty) = Len(r) + Len(empty)
  BY <1>8, ConcatProperties
<1>11. /\ Reverse(e) \o empty \in Seq(Clean)
       /\ Len(Reverse(e) \o empty) = Len(Reverse(e)) + Len(empty)
  BY <1>6, <1>10
<1> QED
  BY <1>6, <1>7, <1>9, <1>11

LEMMA KeepReset == ASSUME IInv, Reset PROVE IInv'
<1> USE DEF IInv, Reset
<1>1. cur \in Ctrls /\ Collected \in Seq(Clean) /\ Len(Collected) = Len(chain) + Len(empty)
  BY CollectedIsClean DEF Typed, Fit
<1>2. Emptied(cur) \in Fit /\ Emptied(cur) \in Ctrls /\ Emptied(cur).used = 0
  BY <1>1, EmptiedIsClean DEF Fit
<1>3. cur' \in Fit /\ empty' \in Seq(Clean)
  <2>1. CASE chain = <<>>
    BY <1>2, <2>1 DEF Typed
  <2>2. CASE chain # <<>>
    <3>1. 1 \in 1 .. Len(Collected)
      BY <1>1, <2>2, LenProperties, EmptySeq DEF Typed
    <3>2. Collected[1] \in Clean
      BY <1>1, <3>1, ElementOfSeq
    <3>3. Collected[1].ctrl \in Fit
      <4>1. Collected[1].ctrl \in Ctrls /\ Collected[1].ctrl.used = 0
        BY <3>2 DEF Clean, Nodes
      <4> QED
        BY <4>1 DEF Fit, Ctrls
    <3>4. [Collected[1] EXCEPT !.ctrl = Emptied(cur)] \in Clean
      BY <1>2, <3>2 DEF Clean, Nodes
    <3>5. /\ cur' = Collected[1].ctrl
          /\ empty' = [Collected EXCEPT ![1] = [Collected[1] EXCEPT !.ctrl = Emptied(cur)]]
      BY <2>2
    <3>6. empty' \in Seq(Clean)
      BY <1>1, <3>1, <3>4, <3>5, ExceptSeq
    <3> QED
      BY <3>3, <3>5, <3>6
  <2> QED
    BY <2>1, <2>2
<1>4. Typed'
  BY <1>3, EmptySeq DEF Typed
<1>5. kind' # "stacked"
  OBVIOUS
<1> QED
  BY <1>4, <1>5 DEF StackTiled

LEMMA KeepDissolve == ASSUME IInv, Dissolve PROVE IInv'
<1> USE DEF IInv, Dissolve
<1>1. cur' \in Fit
  <2>1. CASE chain = <<>>
    BY <2>1 DEF Typed
  <2>2. CASE chain # <<>>
    <3>1. Len(chain) \in 1 .. Len(chain)
      BY <2>2, LenProperties, EmptySeq DEF Typed
    <3>2. chain[Len(chain)] \in Filled
      BY <3>1, ElementOfSeq DEF Typed
    <3> QED
      BY <2>2, <3>2 DEF Filled
  <2> QED
    BY <2>1, <2>2
<1>2. Typed'
  BY <1>1, EmptySeq DEF Typed
<1>3. kind' # "stacked"
  OBVIOUS
<1> QED
  BY <1>2, <1>3 DEF StackTiled

LEMMA KeepStutter == ASSUME IInv, UNCHANGED vars PROVE IInv'
  BY DEF IInv, Typed, StackTiled, vars

LEMMA NextInv == ASSUME IInv, [Next]_vars PROVE IInv'
<1>1. CASE \E sz \in Sizes : AllocHere(sz)
  BY <1>1, KeepAllocHere
<1>2. CASE \E sz \in Sizes : AllocReuse(sz)
  BY <1>2, KeepAllocReuse
<1>3. CASE \E sz \in Sizes : AllocInNode(sz)
  BY <1>3, KeepAllocInNode
<1>4. CASE Dealloc
  BY <1>4, KeepDealloc
<1>5. CASE Reset
  BY <1>5, KeepReset
<1>6. CASE Dissolve
  BY <1>6, KeepDissolve
<1>7. CASE UNCHANGED vars
  BY <1>7, KeepStutter
<1> QED
  BY <1>1, <1>2, <1>3, <1>4, <1>5, <1>6, <1>7 DEF Next

\* The lists, their controls and the memory in use stay well formed, and the
\* tiling of a stack's blocks by its buffers is kept, in every execution.
THEOREM ChainInvariance == Spec => []IInv
<1>1. Init => IInv
  BY InitInv
<1>2. IInv /\ [Next]_vars => IInv'
  BY NextInv
<1> QED
  BY <1>1, <1>2, PTL DEF Spec

\* Nothing is ever cut beyond the end of a control, and the lists of a chain hold
\* nodes of its heap blocks.
THEOREM TypeCorrect == Spec => []TypeOK
<1>1. IInv => TypeOK
  <2> SUFFICES ASSUME IInv PROVE TypeOK
    OBVIOUS
  <2>1. cur \in Ctrls /\ cur.used <= cur.cap
    BY DEF IInv, Typed, Fit
  <2>2. chain \in Seq(Nodes) /\ empty \in Seq(Nodes)
    <3>1. Filled \subseteq Nodes /\ Clean \subseteq Nodes
      BY DEF Filled, Clean
    <3>2. chain \in Seq(Filled) /\ empty \in Seq(Clean)
      BY DEF IInv, Typed
    <3> QED
      BY <3>1, <3>2
  <2>3. ASSUME NEW a \in Range(live)
        PROVE  a.size \in Sizes /\ a.block \in 0 .. MaxNodes /\ a.at \in Nat
    <3>1. live \in Seq(Pieces)
      BY DEF IInv, Typed
    <3>2. a \in Pieces
      BY <3>1 DEF Range
    <3> QED
      BY <3>2 DEF Pieces
  <2>4. kind \in Kinds /\ heap \subseteq 1 .. MaxNodes /\ halted = "no"
    BY DEF IInv, Typed
  <2> QED
    BY <2>1, <2>2, <2>3, <2>4, Zenon DEF TypeOK
<1> QED
  BY <1>1, ChainInvariance, PTL

\* assert(buff) of Alloc never fails, whatever the alignment, the block size and
\* the sizes asked for: rounding and the capacity of the node agree.
THEOREM NodesHaveRoom == Spec => []AllocSucceeds
<1>1. IInv => AllocSucceeds
  BY DEF IInv, Typed, AllocSucceeds
<1> QED
  BY <1>1, ChainInvariance, PTL

\* The assertion of StackedAllocCtrl::Dealloc never fails, however many blocks
\* the stack is spread over.
THEOREM StackUnwinds == Spec => []DeallocFindsTop
<1>1. IInv => DeallocFindsTop
  BY DEF IInv, Typed, DeallocFindsTop
<1> QED
  BY <1>1, ChainInvariance, PTL

\* With its last buffer the stack gives back every block it went through.
THEOREM StackComesBack == Spec => []UnusedStackIsFresh
<1>1. ASSUME IInv, kind = "stacked", live = <<>> PROVE cur = Ctrl(0, 0) /\ chain = <<>>
  <2>1. PICK top : Tiled(cur, chain, live, top)
    BY <1>1 DEF IInv, StackTiled
  <2>2. Len(live) = 0 /\ Len(chain) \in Nat
    BY <1>1, EmptySeq, LenProperties DEF IInv, Typed
  <2>3. Len(chain) = 0
    <3> SUFFICES ASSUME Len(chain) # 0 PROVE FALSE
      OBVIOUS
    <3>1. 0 \in 0 .. Len(chain) - 1 /\ 0 + 1 \in 0 .. Len(chain)
      BY <2>2
    <3>2. top[0 + 1] < top[0] /\ top[0] = 0 /\ top[0 + 1] \in 0 .. 0
      BY <2>1, <2>2, <3>1 DEF Tiled
    <3> QED
      BY <3>2
  <2>4. chain = <<>>
    BY <1>1, <2>3, EmptySeq DEF IInv, Typed
  <2> QED
    BY <2>1, <2>3, <2>4 DEF Tiled, Level
<1>2. IInv => UnusedStackIsFresh
  BY <1>1 DEF UnusedStackIsFresh
<1> QED
  BY <1>2, ChainInvariance, PTL
-----------------------------------------------------------------------------
(* Nodes and blocks are kept: none is lost and none is in two places.      *)

\* g(1), ..., g(k) are the members of S, each once.
Lists(k, g, S) == /\ \A i \in 1 .. k : g[i] \in S
                  /\ \A x \in S : \E i \in 1 .. k : g[i] = x
                  /\ \A i, j \in 1 .. k : g[i] = g[j] => i = j

LEMMA ListsCons ==
  ASSUME NEW k \in Nat, NEW g, NEW S, Lists(k, g, S), NEW h, h[1] \notin S,
         \A i \in 1 .. k : h[i + 1] = g[i]
  PROVE  Lists(k + 1, h, S \cup {h[1]})
<1>1. \A i \in 1 .. k + 1 : i = 1 \/ (i - 1 \in 1 .. k /\ h[i] = g[i - 1])
  <2> SUFFICES ASSUME NEW i \in 1 .. k + 1, i # 1 PROVE i - 1 \in 1 .. k /\ h[i] = g[i - 1]
    OBVIOUS
  <2>1. i - 1 \in 1 .. k /\ (i - 1) + 1 = i
    OBVIOUS
  <2> QED
    BY <2>1
<1>2. \A x \in S \cup {h[1]} : \E i \in 1 .. k + 1 : h[i] = x
  <2> SUFFICES ASSUME NEW x \in S PROVE \E i \in 1 .. k + 1 : h[i] = x
    OBVIOUS
  <2>1. PICK i \in 1 .. k : g[i] = x
    BY DEF Lists
  <2>2. i + 1 \in 1 .. k + 1 /\ h[i + 1] = x
    BY <2>1
  <2> QED
    BY <2>2
<1>3. ASSUME NEW i \in 1 .. k + 1, NEW j \in 1 .. k + 1, h[i] = h[j] PROVE i = j
  <2>1. CASE i = 1 \/ j = 1
    BY <1>1, <1>3, <2>1 DEF Lists
  <2>2. CASE i # 1 /\ j # 1
    <3>1. i - 1 \in 1 .. k /\ j - 1 \in 1 .. k /\ g[i - 1] = g[j - 1]
      BY <1>1, <1>3, <2>2
    <3>2. i - 1 = j - 1
      BY <3>1 DEF Lists
    <3> QED
      BY <3>2
  <2> QED
    BY <2>1, <2>2
<1>4. \A i \in 1 .. k + 1 : h[i] \in S \cup {h[1]}
  BY <1>1 DEF Lists
<1> QED
  BY <1>2, <1>3, <1>4 DEF Lists

LEMMA ListsRemove ==
  ASSUME NEW k \in Nat, NEW g, NEW S, Lists(k, g, S), NEW n \in 1 .. k, NEW h,
         \A i \in 1 .. k - 1 : h[i] = IF i < n THEN g[i] ELSE g[i + 1]
  PROVE  Lists(k - 1, h, S \ {g[n]})
<1> DEFINE at(i) == IF i < n THEN i ELSE i + 1
<1>1. \A i \in 1 .. k - 1 : at(i) \in 1 .. k /\ at(i) # n /\ h[i] = g[at(i)]
  OBVIOUS
<1>2. \A i, j \in 1 .. k - 1 : at(i) = at(j) => i = j
  OBVIOUS
<1>3. \A j \in 1 .. k : j # n => \E i \in 1 .. k - 1 : at(i) = j
  <2> SUFFICES ASSUME NEW j \in 1 .. k, j # n PROVE \E i \in 1 .. k - 1 : at(i) = j
    OBVIOUS
  <2> DEFINE i == IF j < n THEN j ELSE j - 1
  <2>1. i \in 1 .. k - 1 /\ at(i) = j
    OBVIOUS
  <2> QED
    BY <2>1
<1> HIDE DEF at
<1>4. \A i \in 1 .. k - 1 : h[i] \in S \ {g[n]}
  BY <1>1 DEF Lists
<1>5. ASSUME NEW x \in S \ {g[n]} PROVE \E i \in 1 .. k - 1 : h[i] = x
  <2>1. PICK j \in 1 .. k : g[j] = x
    BY DEF Lists
  <2>2. PICK i \in 1 .. k - 1 : at(i) = j
    BY <1>3, <2>1
  <2> QED
    BY <1>1, <2>1, <2>2
<1>6. \A i, j \in 1 .. k - 1 : h[i] = h[j] => i = j
  BY <1>1, <1>2 DEF Lists
<1> QED
  BY <1>4, <1>5, <1>6 DEF Lists

\* Two lists, the first turned round.
LEMMA ListsJoin ==
  ASSUME NEW k \in Nat, NEW g, NEW S, Lists(k, g, S),
         NEW m \in Nat, NEW h, NEW T, Lists(m, h, T), S \cap T = {}, NEW c,
         \A i \in 1 .. k + m : c[i] = IF i <= k THEN g[(k - i) + 1] ELSE h[i - k]
  PROVE  Lists(k + m, c, S \cup T)
<1>1. \A i \in 1 .. k : (k - i) + 1 \in 1 .. k /\ c[i] = g[(k - i) + 1] /\ c[i] \in S
  <2> SUFFICES ASSUME NEW i \in 1 .. k
               PROVE  (k - i) + 1 \in 1 .. k /\ c[i] = g[(k - i) + 1] /\ c[i] \in S
    OBVIOUS
  <2>1. (k - i) + 1 \in 1 .. k /\ i \in 1 .. k + m /\ i <= k
    OBVIOUS
  <2> QED
    BY <2>1 DEF Lists
<1>2. \A i \in k + 1 .. k + m : i - k \in 1 .. m /\ c[i] = h[i - k] /\ c[i] \in T
  <2> SUFFICES ASSUME NEW i \in k + 1 .. k + m
               PROVE  i - k \in 1 .. m /\ c[i] = h[i - k] /\ c[i] \in T
    OBVIOUS
  <2>1. i - k \in 1 .. m /\ i \in 1 .. k + m /\ ~(i <= k)
    OBVIOUS
  <2> QED
    BY <2>1 DEF Lists
<1>3. \A i \in 1 .. k + m : i \in 1 .. k \/ i \in k + 1 .. k + m
  OBVIOUS
<1>4. ASSUME NEW x \in S PROVE \E i \in 1 .. k + m : c[i] = x
  <2>1. PICK j \in 1 .. k : g[j] = x
    BY DEF Lists
  <2> DEFINE i == (k - j) + 1
  <2>2. i \in 1 .. k /\ (k - i) + 1 = j /\ i \in 1 .. k + m
    OBVIOUS
  <2>3. c[i] = x
    BY <1>1, <2>1, <2>2
  <2> QED
    BY <2>2, <2>3
<1>5. ASSUME NEW x \in T PROVE \E i \in 1 .. k + m : c[i] = x
  <2>1. PICK j \in 1 .. m : h[j] = x
    BY DEF Lists
  <2>2. k + j \in k + 1 .. k + m /\ (k + j) - k = j /\ k + j \in 1 .. k + m
    OBVIOUS
  <2>3. c[k + j] = x
    BY <1>2, <2>1, <2>2
  <2> QED
    BY <2>2, <2>3
<1>6. ASSUME NEW i \in 1 .. k + m, NEW j \in 1 .. k + m, c[i] = c[j] PROVE i = j
  <2>1. CASE i \in 1 .. k /\ j \in 1 .. k
    <3>1. (k - i) + 1 = (k - j) + 1
      BY <1>1, <1>6, <2>1 DEF Lists
    <3> QED
      BY <3>1
  <2>2. CASE i \in k + 1 .. k + m /\ j \in k + 1 .. k + m
    <3>1. i - k = j - k
      BY <1>2, <1>6, <2>2 DEF Lists
    <3> QED
      BY <3>1
  <2>3. ~(i \in 1 .. k /\ j \in k + 1 .. k + m) /\ ~(j \in 1 .. k /\ i \in k + 1 .. k + m)
    BY <1>1, <1>2, <1>6
  <2> QED
    BY <1>3, <2>1, <2>2, <2>3
<1>7. \A i \in 1 .. k + m : c[i] \in S \cup T
  BY <1>1, <1>2, <1>3
<1> QED
  BY <1>4, <1>5, <1>6, <1>7 DEF Lists

\* The first of a list gives way to one that is not in it.
LEMMA ListsReplace ==
  ASSUME NEW k \in Nat \ {0}, NEW g, NEW S, Lists(k, g, S), NEW h, h[1] \notin S,
         \A i \in 1 .. k : i # 1 => h[i] = g[i]
  PROVE  Lists(k, h, (S \ {g[1]}) \cup {h[1]})
<1>1. 1 \in 1 .. k
  OBVIOUS
<1>2. \A x \in S \ {g[1]} : \E i \in 1 .. k : i # 1 /\ h[i] = x
  BY <1>1 DEF Lists
<1>3. \A i \in 1 .. k : h[i] \in (S \ {g[1]}) \cup {h[1]}
  BY <1>1 DEF Lists
<1>4. \A i, j \in 1 .. k : h[i] = h[j] => i = j
  BY <1>1 DEF Lists
<1> QED
  BY <1>1, <1>2, <1>3, <1>4 DEF Lists

NodeOf(ch)  == [i \in 1 .. Len(ch) |-> ch[i].node]
BlockOf(ch) == [i \in 1 .. Len(ch) |-> ch[i].ctrl.block]

\* The nodes ch are those of S and hold the blocks of T.
Listed(ch, S, T) == Lists(Len(ch), NodeOf(ch), S) /\ Lists(Len(ch), BlockOf(ch), T)

\* The nodes on the heap are in one of the lists once, and the blocks in them and
\* the default pool in the current control or in one of a list.
Kept(c, ch, em, hp) ==
  \E S, T, P, Q :
    /\ Listed(ch, S, T) /\ Listed(em, P, Q)
    /\ S \cap P = {} /\ S \cup P = hp
    /\ T \cap Q = {} /\ c.block \notin T \cup Q
    /\ {c.block} \cup T \cup Q = {0} \cup hp
    /\ (IF ch = <<>> THEN c ELSE ch[Len(ch)].ctrl).block = 0

KeptInv == Kept(cur, chain, empty, heap)

LEMMA ListedCons ==
  ASSUME NEW ch \in Seq(Nodes), NEW S, NEW T, Listed(ch, S, T),
         NEW e \in Nodes, e.node \notin S, e.ctrl.block \notin T
  PROVE  LET h == <<e>> \o ch
         IN  /\ Listed(h, S \cup {e.node}, T \cup {e.ctrl.block})
             /\ h # <<>>
             /\ h[Len(h)] = IF ch = <<>> THEN e ELSE ch[Len(ch)]
<1> DEFINE h == <<e>> \o ch
           k == Len(ch)
<1>1. <<e>> \in Seq(Nodes) /\ Len(<<e>>) = 1 /\ <<e>>[1] = e
  OBVIOUS
<1>2. k \in Nat /\ (k = 0 <=> ch = <<>>)
  BY LenProperties, EmptySeq
<1>3. /\ h \in Seq(Nodes) /\ Len(h) = 1 + k
      /\ \A i \in 1 .. 1 + k : h[i] = IF i <= 1 THEN <<e>>[i] ELSE ch[i - 1]
  BY <1>1, ConcatProperties
<1> HIDE DEF h, k
<1>4. Len(h) = k + 1 /\ h[1] = e /\ \A i \in 1 .. k : h[i + 1] = ch[i]
  <2>1. \A i \in 1 .. k : i + 1 \in 1 .. 1 + k /\ ~(i + 1 <= 1) /\ (i + 1) - 1 = i
    BY <1>2
  <2> QED
    BY <1>1, <1>2, <1>3, <2>1
<1>5. h # <<>> /\ h[Len(h)] = IF ch = <<>> THEN e ELSE ch[Len(ch)]
  <2>1. h # <<>>
    BY <1>2, <1>3, EmptySeq
  <2>2. k # 0 => k \in 1 .. k
    BY <1>2
  <2> QED
    BY <1>2, <1>4, <2>1, <2>2 DEF k
<1>6. /\ NodeOf(h)[1] = e.node /\ BlockOf(h)[1] = e.ctrl.block
      /\ \A i \in 1 .. k : NodeOf(h)[i + 1] = NodeOf(ch)[i] /\ BlockOf(h)[i + 1] = BlockOf(ch)[i]
  <2>1. 1 \in 1 .. Len(h) /\ \A i \in 1 .. k : i + 1 \in 1 .. Len(h) /\ i \in 1 .. Len(ch)
    BY <1>2, <1>4 DEF k
  <2> QED
    BY <1>4, <2>1 DEF NodeOf, BlockOf
<1>7. Lists(k, NodeOf(ch), S) /\ Lists(k, BlockOf(ch), T)
  BY DEF Listed, k
<1>8. Lists(k + 1, NodeOf(h), S \cup {e.node})
  <2>1. Lists(k + 1, NodeOf(h), S \cup {NodeOf(h)[1]})
    BY <1>2, <1>6, <1>7, ListsCons
  <2> QED
    BY <1>6, <2>1
<1>9. Lists(k + 1, BlockOf(h), T \cup {e.ctrl.block})
  <2>1. Lists(k + 1, BlockOf(h), T \cup {BlockOf(h)[1]})
    BY <1>2, <1>6, <1>7, ListsCons
  <2> QED
    BY <1>6, <2>1
<1> QED
  BY <1>4, <1>5, <1>8, <1>9 DEF Listed, h

\* A sequence without its n-th element.
LEMMA RemoveAtIs ==
  ASSUME NEW X, NEW s \in Seq(X), NEW n \in 1 .. Len(s)
  PROVE  /\ RemoveAt(s, n) \in Seq(X)
         /\ Len(RemoveAt(s, n)) = Len(s) - 1
         /\ \A i \in 1 .. Len(s) - 1 : RemoveAt(s, n)[i] = IF i < n THEN s[i] ELSE s[i + 1]
<1> DEFINE a == SubSeq(s, 1, n - 1)
           b == SubSeq(s, n + 1, Len(s))
           k == Len(s)
<1>1. k \in Nat /\ n \in Nat /\ n - 1 \in Int /\ n + 1 \in Int /\ \A i \in 1 .. k : s[i] \in X
  BY LenProperties, ElementOfSeq
<1>2. /\ \A i \in 1 .. n - 1 : s[i] \in X
      /\ \A i \in n + 1 .. k : s[i] \in X
  BY <1>1
<1>3. /\ a \in Seq(X)
      /\ Len(a) = IF 1 <= n - 1 THEN n - 1 - 1 + 1 ELSE 0
      /\ \A i \in 1 .. n - 1 - 1 + 1 : a[i] = s[1 + i - 1]
  BY <1>1, <1>2, SubSeqProperties
<1>4. /\ b \in Seq(X)
      /\ Len(b) = IF n + 1 <= k THEN k - (n + 1) + 1 ELSE 0
      /\ \A i \in 1 .. k - (n + 1) + 1 : b[i] = s[n + 1 + i - 1]
  BY <1>1, <1>2, SubSeqProperties
<1> HIDE DEF a, b, k
<1>5. Len(a) = n - 1 /\ Len(b) = k - n /\ n <= k
  BY <1>1, <1>3, <1>4 DEF k
<1>6. /\ a \o b \in Seq(X) /\ Len(a \o b) = Len(a) + Len(b)
      /\ \A i \in 1 .. Len(a) + Len(b) : (a \o b)[i] = IF i <= Len(a) THEN a[i] ELSE b[i - Len(a)]
  BY <1>3, <1>4, ConcatProperties
<1>7. ASSUME NEW i \in 1 .. k - 1 PROVE (a \o b)[i] = IF i < n THEN s[i] ELSE s[i + 1]
  <2>1. (a \o b)[i] = IF i <= n - 1 THEN a[i] ELSE b[i - (n - 1)]
    <3>1. i \in 1 .. Len(a) + Len(b)
      BY <1>1, <1>5
    <3> QED
      BY <1>5, <1>6, <3>1
  <2>2. CASE i < n
    <3>1. i \in 1 .. n - 1 - 1 + 1 /\ 1 + i - 1 = i /\ i <= n - 1
      BY <1>1, <2>2
    <3> QED
      BY <1>3, <2>1, <2>2, <3>1
  <2>3. CASE ~(i < n)
    <3> DEFINE j == i - (n - 1)
    <3>1. j \in 1 .. k - (n + 1) + 1 /\ n + 1 + j - 1 = i + 1 /\ ~(i <= n - 1)
      BY <1>1, <2>3
    <3> HIDE DEF j
    <3>2. b[j] = s[n + 1 + j - 1]
      BY <1>4, <3>1
    <3> QED
      BY <2>1, <2>3, <3>1, <3>2 DEF j
  <2> QED
    BY <2>2, <2>3
<1>8. RemoveAt(s, n) = a \o b
  BY DEF RemoveAt, a, b
<1>9. Len(a \o b) = k - 1
  BY <1>1, <1>5, <1>6
<1> QED
  BY <1>6, <1>7, <1>8, <1>9 DEF k

LEMMA ListedRemove ==
  ASSUME NEW ch \in Seq(Nodes), NEW S, NEW T, Listed(ch, S, T), NEW n \in 1 .. Len(ch)
  PROVE  /\ RemoveAt(ch, n) \in Seq(Nodes)
         /\ Listed(RemoveAt(ch, n), S \ {ch[n].node}, T \ {ch[n].ctrl.block})
<1> DEFINE k == Len(ch)
           h == RemoveAt(ch, n)
<1>1. k \in Nat /\ n \in 1 .. k
  BY LenProperties
<1>2. /\ h \in Seq(Nodes) /\ Len(h) = k - 1
      /\ \A i \in 1 .. k - 1 : h[i] = IF i < n THEN ch[i] ELSE ch[i + 1]
  BY RemoveAtIs
<1> HIDE DEF h, k
<1>3. \A i \in 1 .. k - 1 : /\ NodeOf(h)[i] = IF i < n THEN NodeOf(ch)[i] ELSE NodeOf(ch)[i + 1]
                            /\ BlockOf(h)[i] = IF i < n THEN BlockOf(ch)[i] ELSE BlockOf(ch)[i + 1]
  <2>1. \A i \in 1 .. k - 1 : i \in 1 .. Len(h) /\ i \in 1 .. Len(ch) /\ i + 1 \in 1 .. Len(ch)
    BY <1>1, <1>2 DEF k
  <2> QED
    BY <1>2, <2>1 DEF NodeOf, BlockOf
<1>4. Lists(k, NodeOf(ch), S) /\ Lists(k, BlockOf(ch), T)
  BY DEF Listed, k
<1>5. /\ Lists(k - 1, NodeOf(h), S \ {NodeOf(ch)[n]})
      /\ Lists(k - 1, BlockOf(h), T \ {BlockOf(ch)[n]})
  BY <1>1, <1>3, <1>4, ListsRemove
<1>6. NodeOf(ch)[n] = ch[n].node /\ BlockOf(ch)[n] = ch[n].ctrl.block
  BY DEF NodeOf, BlockOf
<1> QED
  BY <1>2, <1>5, <1>6 DEF Listed, h

LEMMA TailIsRemove ==
  ASSUME NEW X, NEW s \in Seq(X), s # <<>> PROVE Tail(s) = RemoveAt(s, 1) /\ 1 \in 1 .. Len(s)
<1>1. Len(s) \in Nat \ {0}
  BY EmptySeq
<1>2. Tail(s) = SubSeq(s, 2, Len(s)) /\ Tail(s) \in Seq(X)
  BY TailIsSubSeq, HeadTailProperties
<1>3. SubSeq(s, 1, 1 - 1) = <<>> /\ 1 + 1 = 2
  BY SubSeqEmpty
<1>4. <<>> \o Tail(s) = Tail(s)
  BY <1>2, ConcatEmptySeq
<1> QED
  BY <1>1, <1>2, <1>3, <1>4 DEF RemoveAt

\* What is cut from the current block does not move it.
LEMMA KeptCut ==
  ASSUME NEW c, NEW d, NEW ch, NEW em, NEW hp, Kept(c, ch, em, hp), d.block = c.block
  PROVE  Kept(d, ch, em, hp)
<1>1. PICK S, T, P, Q :
        /\ Listed(ch, S, T) /\ Listed(em, P, Q)
        /\ S \cap P = {} /\ S \cup P = hp
        /\ T \cap Q = {} /\ c.block \notin T \cup Q
        /\ {c.block} \cup T \cup Q = {0} \cup hp
        /\ (IF ch = <<>> THEN c ELSE ch[Len(ch)].ctrl).block = 0
  BY DEF Kept
<1>2. (IF ch = <<>> THEN d ELSE ch[Len(ch)].ctrl).block = 0
  BY <1>1
<1> QED
  BY <1>1, <1>2 DEF Kept

\* An empty node becomes the first of the chain and its block the current one.
LEMMA KeptReuse ==
  ASSUME NEW c \in Ctrls, NEW ch \in Seq(Nodes), NEW em \in Seq(Nodes), NEW hp,
         Kept(c, ch, em, hp), NEW i \in 1 .. Len(em)
  PROVE  Kept(em[i].ctrl, <<[node |-> em[i].node, ctrl |-> c]>> \o ch, RemoveAt(em, i), hp)
<1> DEFINE e == [node |-> em[i].node, ctrl |-> c]
           n == em[i].node
           b == em[i].ctrl.block
           h == <<e>> \o ch
<1>1. PICK S, T, P, Q :
        /\ Listed(ch, S, T) /\ Listed(em, P, Q)
        /\ S \cap P = {} /\ S \cup P = hp
        /\ T \cap Q = {} /\ c.block \notin T \cup Q
        /\ {c.block} \cup T \cup Q = {0} \cup hp
        /\ (IF ch = <<>> THEN c ELSE ch[Len(ch)].ctrl).block = 0
  BY DEF Kept
<1>2. em[i] \in Nodes /\ e \in Nodes /\ e.node = n /\ e.ctrl = c
  BY ElementOfSeq DEF Nodes
<1>3. n \in P /\ b \in Q
  BY <1>1 DEF Listed, Lists, NodeOf, BlockOf
<1>4. n \notin S /\ c.block \notin T
  BY <1>1, <1>3
<1> HIDE DEF e
<1>5. /\ Listed(h, S \cup {n}, T \cup {c.block})
      /\ h # <<>> /\ h[Len(h)] = IF ch = <<>> THEN e ELSE ch[Len(ch)]
  BY <1>1, <1>2, <1>4, ListedCons
<1>6. Listed(RemoveAt(em, i), P \ {n}, Q \ {b})
  BY <1>1, ListedRemove
<1>7. (IF h = <<>> THEN em[i].ctrl ELSE h[Len(h)].ctrl).block = 0
  BY <1>1, <1>2, <1>5
<1> HIDE DEF h, n
<1>8. /\ (S \cup {n}) \cap (P \ {n}) = {} /\ (S \cup {n}) \cup (P \ {n}) = hp
      /\ (T \cup {c.block}) \cap (Q \ {b}) = {} /\ b \notin (T \cup {c.block}) \cup (Q \ {b})
      /\ {b} \cup (T \cup {c.block}) \cup (Q \ {b}) = {0} \cup hp
  BY <1>1, <1>3
<1>9. Kept(em[i].ctrl, h, RemoveAt(em, i), hp)
  BY <1>5, <1>6, <1>7, <1>8 DEF Kept
<1> QED
  BY <1>9 DEF h, e, n

\* So does a new node.
LEMMA KeptNew ==
  ASSUME NEW c \in Ctrls, NEW ch \in Seq(Nodes), NEW em \in Seq(Nodes), NEW hp,
         Kept(c, ch, em, hp), NEW n \in 1 .. MaxNodes, n \notin hp, NEW d, d.block = n
  PROVE  Kept(d, <<[node |-> n, ctrl |-> c]>> \o ch, em, hp \cup {n})
<1> DEFINE e == [node |-> n, ctrl |-> c]
           h == <<e>> \o ch
<1>1. PICK S, T, P, Q :
        /\ Listed(ch, S, T) /\ Listed(em, P, Q)
        /\ S \cap P = {} /\ S \cup P = hp
        /\ T \cap Q = {} /\ c.block \notin T \cup Q
        /\ {c.block} \cup T \cup Q = {0} \cup hp
        /\ (IF ch = <<>> THEN c ELSE ch[Len(ch)].ctrl).block = 0
  BY DEF Kept
<1>2. e \in Nodes /\ e.node = n /\ e.ctrl = c
  BY DEF Nodes
<1>3. n \notin S /\ n \notin P /\ n # 0 /\ n \notin {c.block} \cup T \cup Q
  BY <1>1
<1> HIDE DEF e
<1>4. /\ Listed(h, S \cup {n}, T \cup {c.block})
      /\ h # <<>> /\ h[Len(h)] = IF ch = <<>> THEN e ELSE ch[Len(ch)]
  BY <1>1, <1>2, <1>3, ListedCons
<1>5. (IF h = <<>> THEN d ELSE h[Len(h)].ctrl).block = 0
  BY <1>1, <1>2, <1>4
<1> HIDE DEF h
<1>6. /\ (S \cup {n}) \cap P = {} /\ (S \cup {n}) \cup P = hp \cup {n}
      /\ (T \cup {c.block}) \cap Q = {} /\ d.block \notin (T \cup {c.block}) \cup Q
      /\ {d.block} \cup (T \cup {c.block}) \cup Q = {0} \cup (hp \cup {n})
  BY <1>1, <1>3
<1>7. Kept(d, h, em, hp \cup {n})
  BY <1>1, <1>4, <1>5, <1>6 DEF Kept
<1> QED
  BY <1>7 DEF h, e

\* The first node of the chain becomes the first of the empty ones, and takes the
\* current block with it.
LEMMA KeptBack ==
  ASSUME NEW c, NEW ch \in Seq(Nodes), NEW em \in Seq(Nodes), NEW hp,
         Kept(c, ch, em, hp), ch # <<>>, NEW d \in Ctrls, d.block = c.block
  PROVE  Kept(ch[1].ctrl, Tail(ch), <<[node |-> ch[1].node, ctrl |-> d]>> \o em, hp)
<1> DEFINE n == ch[1].node
           b == ch[1].ctrl.block
           e == [node |-> n, ctrl |-> d]
           h == <<e>> \o em
           r == Tail(ch)
<1>1. PICK S, T, P, Q :
        /\ Listed(ch, S, T) /\ Listed(em, P, Q)
        /\ S \cap P = {} /\ S \cup P = hp
        /\ T \cap Q = {} /\ c.block \notin T \cup Q
        /\ {c.block} \cup T \cup Q = {0} \cup hp
        /\ (IF ch = <<>> THEN c ELSE ch[Len(ch)].ctrl).block = 0
  BY DEF Kept
<1>2. r = RemoveAt(ch, 1) /\ 1 \in 1 .. Len(ch) /\ ch[1] \in Nodes
  BY TailIsRemove, ElementOfSeq
<1>3. e \in Nodes /\ e.node = n /\ e.ctrl = d
  BY <1>2 DEF Nodes
<1>4. n \in S /\ b \in T
  BY <1>1, <1>2 DEF Listed, Lists, NodeOf, BlockOf
<1>5. n \notin P /\ d.block \notin Q
  BY <1>1, <1>4
<1> HIDE DEF e, r
<1>6. Listed(r, S \ {n}, T \ {b})
  <2>1. Listed(RemoveAt(ch, 1), S \ {ch[1].node}, T \ {ch[1].ctrl.block})
    BY <1>1, <1>2, ListedRemove
  <2> QED
    BY <1>2, <2>1
<1>7. Listed(h, P \cup {n}, Q \cup {d.block})
  BY <1>1, <1>3, <1>5, ListedCons
<1>8. (IF r = <<>> THEN ch[1].ctrl ELSE r[Len(r)].ctrl).block = 0
  <2>1. /\ Len(ch) \in Nat \ {0} /\ r \in Seq(Nodes) /\ Len(r) = Len(ch) - 1
        /\ \A i \in 1 .. Len(r) : r[i] = ch[i + 1]
    <3>1. Len(ch) \in Nat \ {0}
      BY EmptySeq
    <3> QED
      BY <3>1, HeadTailProperties DEF r
  <2>2. CASE r = <<>>
    <3>1. Len(ch) = 1
      BY <2>1, <2>2, EmptySeq
    <3> QED
      BY <1>1, <2>2, <3>1
  <2>3. CASE r # <<>>
    <3>1. Len(r) \in 1 .. Len(r) /\ Len(r) + 1 = Len(ch)
      BY <2>1, <2>3, EmptySeq
    <3>2. r[Len(r)] = ch[Len(ch)]
      BY <2>1, <3>1
    <3> QED
      BY <1>1, <2>3, <3>2
  <2> QED
    BY <2>2, <2>3
<1> HIDE DEF h, n
<1>9. /\ (S \ {n}) \cap (P \cup {n}) = {} /\ (S \ {n}) \cup (P \cup {n}) = hp
      /\ (T \ {b}) \cap (Q \cup {d.block}) = {} /\ b \notin (T \ {b}) \cup (Q \cup {d.block})
      /\ {b} \cup (T \ {b}) \cup (Q \cup {d.block}) = {0} \cup hp
  BY <1>1, <1>4
<1>10. Kept(ch[1].ctrl, r, h, hp)
  BY <1>6, <1>7, <1>8, <1>9 DEF Kept
<1> QED
  BY <1>10 DEF h, e, n, r

\* All nodes are deleted, and the default pool is all there is.
LEMMA KeptNone == ASSUME NEW c, c.block = 0 PROVE Kept(c, <<>>, <<>>, {})
<1>1. Listed(<<>>, {}, {})
  BY EmptySeq DEF Listed, Lists
<1> QED
  BY <1>1 DEF Kept
LEMMA EmptyIsListed == Listed(<<>>, {}, {})
  BY EmptySeq DEF Listed, Lists

\* The nodes in the order in which Reset collects them.
LEMMA CollectedIs ==
  ASSUME Typed
  PROVE  \A i \in 1 .. Len(chain) + Len(empty) :
           IF i <= Len(chain)
           THEN /\ Collected[i].node = chain[(Len(chain) - i) + 1].node
                /\ Collected[i].ctrl.block = chain[(Len(chain) - i) + 1].ctrl.block
           ELSE Collected[i] = empty[i - Len(chain)]
<1> DEFINE n == Len(chain)
           e == [i \in 1 .. n |-> [chain[i] EXCEPT !.ctrl = Emptied(@)]]
           r == Reverse(e)
<1>1. n \in Nat /\ Len(empty) \in Nat /\ \A i \in 1 .. n : chain[i] \in Nodes
  BY LenProperties, ElementOfSeq DEF Typed, Filled
<1>2. \A i \in 1 .. n : /\ e[i] \in Nodes /\ e[i].node = chain[i].node
                        /\ e[i].ctrl.block = chain[i].ctrl.block
  <2> SUFFICES ASSUME NEW i \in 1 .. n
               PROVE  /\ e[i] \in Nodes /\ e[i].node = chain[i].node
                      /\ e[i].ctrl.block = chain[i].ctrl.block
    OBVIOUS
  <2>1. chain[i] \in Nodes /\ chain[i].ctrl \in Ctrls
    BY <1>1 DEF Nodes
  <2>2. Emptied(chain[i].ctrl) \in Ctrls /\ Emptied(chain[i].ctrl).block = chain[i].ctrl.block
    BY <2>1 DEF Emptied, Ctrls
  <2>3. e[i] = [chain[i] EXCEPT !.ctrl = Emptied(chain[i].ctrl)]
    OBVIOUS
  <2> QED
    BY <2>1, <2>2, <2>3 DEF Nodes
<1>3. e \in [1 .. n -> Nodes]
  BY <1>2
<1>4. e \in Seq(Nodes) /\ Len(e) = n
  BY <1>1, <1>3, SeqDef, LenProperties
<1> HIDE DEF e, n
<1>5. r = [i \in 1 .. n |-> e[(n - i) + 1]] /\ \A i \in 1 .. n : (n - i) + 1 \in 1 .. n
  BY <1>1, <1>4 DEF Reverse
<1>6. r \in [1 .. n -> Nodes]
  BY <1>3, <1>5
<1>7. r \in Seq(Nodes) /\ Len(r) = n
  <2>1. r \in Seq(Nodes)
    BY <1>1, <1>6, SeqDef
  <2> QED
    BY <1>1, <1>6, <2>1, LenProperties
<1>8. Collected = r \o empty
  BY DEF Collected, e, n
<1>9. empty \in Seq(Nodes)
  <2>1. Clean \subseteq Nodes
    BY DEF Clean
  <2> QED
    BY <2>1 DEF Typed
<1> HIDE DEF r
<1>10. \A i \in 1 .. n + Len(empty) : Collected[i] = IF i <= n THEN r[i] ELSE empty[i - n]
  BY <1>7, <1>8, <1>9, ConcatProperties
<1>11. ASSUME NEW i \in 1 .. n + Len(empty)
       PROVE  IF i <= n
              THEN /\ Collected[i].node = chain[(n - i) + 1].node
                   /\ Collected[i].ctrl.block = chain[(n - i) + 1].ctrl.block
              ELSE Collected[i] = empty[i - n]
  <2>1. CASE i <= n
    <3>1. i \in 1 .. n /\ (n - i) + 1 \in 1 .. n
      BY <1>1, <1>5, <2>1
    <3>2. Collected[i] = e[(n - i) + 1]
      BY <1>5, <1>10, <2>1, <3>1
    <3> QED
      BY <1>2, <2>1, <3>1, <3>2
  <2>2. CASE ~(i <= n)
    BY <1>10, <2>2
  <2> QED
    BY <2>1, <2>2
<1> QED
  BY <1>11 DEF n

\* Reset swaps the default pool, which the last node holds, for the current block.
LEMMA KeptReset ==
  ASSUME Typed, KeptInv, chain # <<>>
  PROVE  Kept(Collected[1].ctrl, <<>>, [Collected EXCEPT ![1].ctrl = Emptied(cur)], heap)
<1> DEFINE n == Len(chain)
           m == Len(empty)
           h == [Collected EXCEPT ![1].ctrl = Emptied(cur)]
           g == Collected
<1>1. PICK S, T, P, Q :
        /\ Listed(chain, S, T) /\ Listed(empty, P, Q)
        /\ S \cap P = {} /\ S \cup P = heap
        /\ T \cap Q = {} /\ cur.block \notin T \cup Q
        /\ {cur.block} \cup T \cup Q = {0} \cup heap
        /\ chain[n].ctrl.block = 0
  BY DEF Kept, KeptInv
<1>2. n \in Nat \ {0} /\ m \in Nat
  BY EmptySeq, LenProperties DEF Typed
<1>3. /\ g \in Seq(Nodes) /\ Len(g) = n + m
      /\ Emptied(cur) \in Ctrls /\ Emptied(cur).block = cur.block
  <2>1. Clean \subseteq Nodes
    BY DEF Clean
  <2> QED
    BY <2>1, CollectedIsClean, SMTT(30) DEF Typed, Fit, Emptied, Ctrls
<1>4. \A i \in 1 .. n + m :
        IF i <= n
        THEN /\ g[i].node = chain[(n - i) + 1].node
             /\ g[i].ctrl.block = chain[(n - i) + 1].ctrl.block
        ELSE g[i] = empty[i - n]
  BY CollectedIs
<1> HIDE DEF g, n, m
<1>5. \A i \in 1 .. n + m :
        /\ NodeOf(g)[i] = IF i <= n THEN NodeOf(chain)[(n - i) + 1] ELSE NodeOf(empty)[i - n]
        /\ BlockOf(g)[i] = IF i <= n THEN BlockOf(chain)[(n - i) + 1] ELSE BlockOf(empty)[i - n]
  <2> SUFFICES ASSUME NEW i \in 1 .. n + m
               PROVE  /\ NodeOf(g)[i] = IF i <= n THEN NodeOf(chain)[(n - i) + 1]
                                                  ELSE NodeOf(empty)[i - n]
                      /\ BlockOf(g)[i] = IF i <= n THEN BlockOf(chain)[(n - i) + 1]
                                                   ELSE BlockOf(empty)[i - n]
    OBVIOUS
  <2>1. NodeOf(g)[i] = g[i].node /\ BlockOf(g)[i] = g[i].ctrl.block
    BY <1>3 DEF NodeOf, BlockOf
  <2>2. CASE i <= n
    <3>1. (n - i) + 1 \in 1 .. n
      BY <1>2, <2>2
    <3> QED
      BY <1>4, <2>1, <2>2, <3>1 DEF NodeOf, BlockOf, n
  <2>3. CASE ~(i <= n)
    <3>1. i - n \in 1 .. m
      BY <1>2, <2>3
    <3> QED
      BY <1>4, <2>1, <2>3, <3>1 DEF NodeOf, BlockOf, m
  <2> QED
    BY <2>2, <2>3
<1>6. Lists(n + m, NodeOf(g), S \cup P) /\ Lists(n + m, BlockOf(g), T \cup Q)
  <2>1. /\ Lists(n, NodeOf(chain), S) /\ Lists(n, BlockOf(chain), T)
        /\ Lists(m, NodeOf(empty), P) /\ Lists(m, BlockOf(empty), Q)
    BY <1>1 DEF Listed, n, m
  <2>2. Lists(n + m, NodeOf(g), S \cup P)
    BY <1>1, <1>2, <1>5, <2>1, ListsJoin
  <2>3. Lists(n + m, BlockOf(g), T \cup Q)
    BY <1>1, <1>2, <1>5, <2>1, ListsJoin
  <2> QED
    BY <2>2, <2>3
<1>7. 1 \in 1 .. n + m /\ n + m \in Nat \ {0} /\ g[1] \in Nodes
  BY <1>2, <1>3, ElementOfSeq
<1>8. g[1].ctrl.block = 0 /\ BlockOf(g)[1] = 0
  <2>1. 1 <= n /\ (n - 1) + 1 = n
    BY <1>2
  <2>2. g[1].ctrl.block = 0
    BY <1>1, <1>4, <1>7, <2>1
  <2> QED
    BY <1>3, <1>7, <2>2 DEF BlockOf
<1>9. /\ Len(h) = n + m
      /\ NodeOf(h) = NodeOf(g)
      /\ BlockOf(h)[1] = cur.block
      /\ \A i \in 1 .. n + m : i # 1 => BlockOf(h)[i] = BlockOf(g)[i]
  <2> DEFINE e == [g[1] EXCEPT !.ctrl = Emptied(cur)]
  <2>1. e \in Nodes /\ e.node = g[1].node /\ e.ctrl.block = cur.block
    BY <1>3, <1>7 DEF Nodes
  <2>2. h = [g EXCEPT ![1] = e]
    BY DEF g
  <2> HIDE DEF e, h
  <2>3. /\ Len(h) = n + m
        /\ \A j \in 1 .. n + m : h[j] = IF j = 1 THEN e ELSE g[j]
    BY <1>3, <1>7, <2>1, <2>2, ExceptSeq
  <2>4. \A j \in 1 .. n + m : h[j].node = g[j].node
    BY <2>1, <2>3
  <2> QED
    BY <1>3, <1>7, <2>1, <2>3, <2>4 DEF NodeOf, BlockOf
<1> HIDE DEF h
<1>10. Lists(n + m, BlockOf(h), ((T \cup Q) \ {0}) \cup {cur.block})
  <2>1. BlockOf(h)[1] \notin T \cup Q
    BY <1>1, <1>9
  <2>2. Lists(n + m, BlockOf(h), ((T \cup Q) \ {BlockOf(g)[1]}) \cup {BlockOf(h)[1]})
    BY <1>6, <1>7, <1>9, <2>1, ListsReplace
  <2> QED
    BY <1>8, <1>9, <2>2
<1>11. Listed(h, heap, ((T \cup Q) \ {0}) \cup {cur.block})
  BY <1>1, <1>6, <1>9, <1>10 DEF Listed
<1>12. 0 \in T \cup Q
  BY <1>6, <1>7, <1>8 DEF Lists
<1>13. /\ g[1].ctrl.block \notin {} \cup (((T \cup Q) \ {0}) \cup {cur.block})
       /\ {g[1].ctrl.block} \cup {} \cup (((T \cup Q) \ {0}) \cup {cur.block}) = {0} \cup heap
  BY <1>1, <1>8, <1>12
<1>14. Kept(g[1].ctrl, <<>>, h, heap)
  BY <1>8, <1>11, <1>13, EmptyIsListed DEF Kept
<1> QED
  BY <1>14 DEF g, h

LEMMA InitKept == Init => KeptInv
<1> SUFFICES ASSUME Init PROVE KeptInv
  OBVIOUS
<1>1. cur.block = 0
  BY DEF Init, Ctrl
<1>2. Kept(cur, <<>>, <<>>, {})
  BY <1>1, KeptNone
<1> QED
  BY <1>2 DEF Init, KeptInv

LEMMA TypedLists ==
  ASSUME Typed
  PROVE  /\ cur \in Ctrls /\ chain \in Seq(Nodes) /\ empty \in Seq(Nodes)
         /\ \A i \in 1 .. Len(chain) : chain[i] \in Nodes /\ chain[i].ctrl \in Ctrls
         /\ \A i \in 1 .. Len(empty) : empty[i] \in Nodes /\ empty[i].ctrl \in Ctrls
<1>1. Filled \subseteq Nodes /\ Clean \subseteq Nodes
  BY DEF Filled, Clean
<1>2. cur \in Ctrls /\ chain \in Seq(Nodes) /\ empty \in Seq(Nodes)
  BY <1>1 DEF Typed, Fit
<1>3. /\ \A i \in 1 .. Len(chain) : chain[i] \in Nodes
      /\ \A i \in 1 .. Len(empty) : empty[i] \in Nodes
  BY <1>2, ElementOfSeq
<1> QED
  BY <1>2, <1>3 DEF Nodes

LEMMA StepKept == ASSUME IInv, KeptInv, [Next]_vars PROVE KeptInv'
<1> USE DEF KeptInv
<1>1. ASSUME NEW sz \in Sizes, AllocHere(sz) PROVE KeptInv'
  <2>1. cur' = Cut(cur, sz) /\ cur'.block = cur.block
    BY <1>1, TypedLists DEF AllocHere, Cut, IInv, Ctrls
  <2> QED
    BY <1>1, <2>1, KeptCut DEF AllocHere
<1>2. ASSUME NEW sz \in Sizes, AllocReuse(sz) PROVE KeptInv'
  <2>1. PICK i \in 1 .. Len(empty) : /\ empty' = RemoveAt(empty, i)
                                     /\ Enter(empty[i].node, empty[i].ctrl, sz)
    BY <1>2 DEF AllocReuse
  <2>2. Kept(empty[i].ctrl, <<[node |-> empty[i].node, ctrl |-> cur]>> \o chain,
             RemoveAt(empty, i), heap)
    BY KeptReuse, TypedLists DEF IInv
  <2>3. /\ chain' = <<[node |-> empty[i].node, ctrl |-> cur]>> \o chain
        /\ cur'.block = empty[i].ctrl.block /\ heap' = heap
    BY <1>2, <2>1, TypedLists DEF AllocReuse, Enter, Cut, IInv, Ctrls
  <2> QED
    BY <2>1, <2>2, <2>3, KeptCut
<1>3. ASSUME NEW sz \in Sizes, AllocInNode(sz) PROVE KeptInv'
  <2> DEFINE n == Min((1 .. MaxNodes) \ heap)
  <2>1. n \in (1 .. MaxNodes) \ heap
    BY <1>3, NewNode DEF AllocInNode, IInv
  <2>2. /\ heap' = heap \cup {n} /\ Enter(n, Ctrl(n, NodeSize(sz)), sz) /\ empty' = empty
    BY <1>3 DEF AllocInNode
  <2> HIDE DEF n
  <2>3. Ctrl(n, NodeSize(sz)).block = n
    BY DEF Ctrl
  <2>4. Kept(Ctrl(n, NodeSize(sz)), <<[node |-> n, ctrl |-> cur]>> \o chain, empty, heap \cup {n})
    BY <2>1, <2>3, KeptNew, TypedLists DEF IInv
  <2>5. /\ chain' = <<[node |-> n, ctrl |-> cur]>> \o chain
        /\ cur'.block = Ctrl(n, NodeSize(sz)).block
    BY <2>2 DEF Enter, Cut, Ctrl
  <2> QED
    BY <2>2, <2>4, <2>5, KeptCut
<1>4. ASSUME Dealloc PROVE KeptInv'
  <2> DEFINE a == live[Len(live)]
             left == [cur EXCEPT !.used = a.at]
  <2>1. halted' = "no" /\ heap' = heap
    BY <1>4, KeepDealloc DEF IInv, Typed, Dealloc
  <2>2. OnTop(a)
    BY <1>4, <2>1 DEF Dealloc
  <2>3. left.block = cur.block
    BY TypedLists DEF IInv, Ctrls
  <2>4. CASE a.at = 0 /\ chain # <<>>
    <3>1. /\ cur' = chain[1].ctrl /\ chain' = Tail(chain)
          /\ empty' = <<[node |-> chain[1].node, ctrl |-> left]>> \o empty
      BY <1>4, <2>2, <2>4 DEF Dealloc
    <3>2. left \in Ctrls
      BY <2>4, TypedLists DEF IInv, Ctrls
    <3> HIDE DEF left
    <3>3. Kept(chain[1].ctrl, Tail(chain),
               <<[node |-> chain[1].node, ctrl |-> left]>> \o empty, heap)
      BY <2>3, <2>4, <3>2, KeptBack, TypedLists DEF IInv
    <3> QED
      BY <2>1, <3>1, <3>3
  <2>5. CASE ~(a.at = 0 /\ chain # <<>>)
    <3>1. cur' = left /\ chain' = chain /\ empty' = empty
      BY <1>4, <2>2, <2>5 DEF Dealloc
    <3> HIDE DEF left
    <3>2. Kept(left, chain, empty, heap)
      BY <2>3, KeptCut
    <3> QED
      BY <2>1, <3>1, <3>2
  <2> QED
    BY <2>4, <2>5
<1>5. ASSUME Reset PROVE KeptInv'
  <2>1. CASE chain = <<>>
    <3>1. Emptied(cur).block = cur.block
      BY TypedLists DEF Emptied, IInv, Ctrls
    <3>2. Kept(Emptied(cur), chain, empty, heap)
      BY <3>1, KeptCut
    <3> QED
      BY <1>5, <2>1, <3>2 DEF Reset
  <2>2. CASE chain # <<>>
    <3>1. /\ cur' = Collected[1].ctrl /\ empty' = [Collected EXCEPT ![1].ctrl = Emptied(cur)]
          /\ chain' = <<>> /\ heap' = heap
      BY <1>5, <2>2 DEF Reset
    <3>2. Kept(Collected[1].ctrl, <<>>, [Collected EXCEPT ![1].ctrl = Emptied(cur)], heap)
      BY <2>2, KeptReset DEF IInv
    <3> QED
      BY <3>1, <3>2
  <2> QED
    BY <2>1, <2>2
<1>6. ASSUME Dissolve PROVE KeptInv'
  <2>1. cur'.block = 0
    BY <1>6 DEF Dissolve, Kept
  <2>2. Kept(cur', <<>>, <<>>, {})
    BY <2>1, KeptNone
  <2> QED
    BY <1>6, <2>2 DEF Dissolve
<1>7. CASE UNCHANGED vars
  BY <1>7 DEF vars
<1> QED
  BY <1>1, <1>2, <1>3, <1>4, <1>5, <1>6, <1>7 DEF Next
\* The two lists as one, and the controls with the current one in front.
LEMMA AllNodesAre ==
  ASSUME Typed
  PROVE  /\ AllNodes \in Seq(Nodes) /\ Len(AllNodes) = Len(chain) + Len(empty)
         /\ \A i \in 1 .. Len(chain) + Len(empty) :
              AllNodes[i] = IF i <= Len(chain) THEN chain[i] ELSE empty[i - Len(chain)]
         /\ Len(AllCtrls) = Len(AllNodes) + 1
         /\ AllCtrls[1] = cur
         /\ \A i \in 1 .. Len(AllNodes) : AllCtrls[i + 1] = AllNodes[i].ctrl
<1> DEFINE c == [i \in 1 .. Len(AllNodes) |-> AllNodes[i].ctrl]
<1>1. /\ AllNodes \in Seq(Nodes) /\ Len(AllNodes) = Len(chain) + Len(empty)
      /\ \A i \in 1 .. Len(chain) + Len(empty) :
           AllNodes[i] = IF i <= Len(chain) THEN chain[i] ELSE empty[i - Len(chain)]
  BY TypedLists, ConcatProperties DEF AllNodes
<1>2. Len(AllNodes) \in Nat /\ \A i \in 1 .. Len(AllNodes) : AllNodes[i].ctrl \in Ctrls
  <2>1. \A i \in 1 .. Len(AllNodes) : AllNodes[i] \in Nodes
    BY <1>1, ElementOfSeq
  <2> QED
    BY <1>1, <2>1, LenProperties DEF Nodes
<1>3. c \in Seq(Ctrls) /\ Len(c) = Len(AllNodes)
  <2>1. c \in [1 .. Len(AllNodes) -> Ctrls]
    BY <1>2
  <2>2. c \in Seq(Ctrls)
    BY <1>2, <2>1, SeqDef
  <2> HIDE DEF c
  <2> QED
    BY <1>2, <2>1, <2>2, LenProperties
<1>4. <<cur>> \in Seq(Ctrls) /\ Len(<<cur>>) = 1 /\ <<cur>>[1] = cur
  BY TypedLists
<1>5. \A i \in 1 .. Len(AllNodes) : c[i] = AllNodes[i].ctrl
  OBVIOUS
<1>6. AllCtrls = <<cur>> \o c
  BY DEF AllCtrls
<1> HIDE DEF c
<1>7. /\ Len(AllCtrls) = 1 + Len(AllNodes)
      /\ \A i \in 1 .. 1 + Len(AllNodes) : AllCtrls[i] = IF i <= 1 THEN <<cur>>[i] ELSE c[i - 1]
  BY <1>3, <1>4, <1>6, ConcatProperties
<1>8. AllCtrls[1] = cur
  <2>1. 1 \in 1 .. 1 + Len(AllNodes) /\ 1 <= 1
    BY <1>2
  <2> QED
    BY <1>4, <1>7, <2>1
<1>9. \A i \in 1 .. Len(AllNodes) : AllCtrls[i + 1] = AllNodes[i].ctrl
  <2>1. \A i \in 1 .. Len(AllNodes) :
          i + 1 \in 1 .. 1 + Len(AllNodes) /\ ~(i + 1 <= 1) /\ (i + 1) - 1 = i
    BY <1>2
  <2> QED
    BY <1>5, <1>7, <2>1
<1>10. Len(AllCtrls) = Len(AllNodes) + 1
  BY <1>2, <1>7
<1> QED
  BY <1>1, <1>8, <1>9, <1>10

\* The list of a set has as many places as the set has members.
LEMMA ListSize ==
  ASSUME NEW k \in Nat, NEW g, NEW S, Lists(k, g, S) PROVE Cardinality(S) = k
<1> DEFINE f == [i \in 1 .. k |-> g[i]]
<1>1. f \in Bijection(1 .. k, S)
  <2>1. f \in [1 .. k -> S] /\ \A i \in 1 .. k : f[i] = g[i]
    BY DEF Lists
  <2> HIDE DEF f
  <2>2. f \in Surjection(1 .. k, S)
    BY <2>1 DEF Lists, Surjection
  <2>3. f \in Injection(1 .. k, S)
    BY <2>1 DEF Lists, Injection, IsInjective
  <2> QED
    BY <2>2, <2>3 DEF Bijection
<1>2. ExistsBijection(1 .. k, S)
  BY <1>1 DEF ExistsBijection
<1>3. IsFiniteSet(1 .. k) /\ Cardinality(1 .. k) = k
  BY FS_Interval
<1> QED
  BY <1>2, <1>3, FS_Bijection

LEMMA InvIsKept == ASSUME IInv, KeptInv PROVE BlocksAreKept
<1> DEFINE n == Len(chain)
           m == Len(empty)
<1>1. PICK S, T, P, Q :
        /\ Listed(chain, S, T) /\ Listed(empty, P, Q)
        /\ S \cap P = {} /\ S \cup P = heap
        /\ T \cap Q = {} /\ cur.block \notin T \cup Q
        /\ {cur.block} \cup T \cup Q = {0} \cup heap
        /\ (IF chain = <<>> THEN cur ELSE chain[Len(chain)].ctrl).block = 0
  BY DEF Kept, KeptInv
<1>2. n \in Nat /\ m \in Nat /\ Typed
  BY LenProperties DEF IInv, Typed
<1>3. /\ \A i \in 1 .. n : chain[i].node \in S /\ chain[i].ctrl.block \in T
      /\ \A i \in 1 .. m : empty[i].node \in P /\ empty[i].ctrl.block \in Q
      /\ \A x \in S : \E i \in 1 .. n : chain[i].node = x
      /\ \A x \in T : \E i \in 1 .. n : chain[i].ctrl.block = x
      /\ \A x \in P : \E i \in 1 .. m : empty[i].node = x
      /\ \A x \in Q : \E i \in 1 .. m : empty[i].ctrl.block = x
  <2>1. /\ \A i \in 1 .. n : NodeOf(chain)[i] = chain[i].node
                             /\ BlockOf(chain)[i] = chain[i].ctrl.block
        /\ \A i \in 1 .. m : NodeOf(empty)[i] = empty[i].node
                             /\ BlockOf(empty)[i] = empty[i].ctrl.block
    BY DEF NodeOf, BlockOf
  <2> QED
    BY <1>1, <2>1, SMTT(30) DEF Listed, Lists
<1>4. /\ Len(AllNodes) = n + m /\ Len(AllCtrls) = n + m + 1
      /\ \A i \in 1 .. n + m : AllNodes[i] = IF i <= n THEN chain[i] ELSE empty[i - n]
      /\ AllCtrls[1] = cur /\ \A i \in 1 .. n + m : AllCtrls[i + 1] = AllNodes[i].ctrl
  BY <1>2, AllNodesAre
<1> HIDE DEF n, m
<1>5. /\ \A i \in 1 .. n : i \in 1 .. n + m /\ AllNodes[i] = chain[i]
      /\ \A i \in 1 .. m : n + i \in 1 .. n + m /\ AllNodes[n + i] = empty[i]
      /\ \A i \in 1 .. n + m : i \in 1 .. n \/ (i - n \in 1 .. m /\ AllNodes[i] = empty[i - n])
  <2>1. \A i \in 1 .. n : i \in 1 .. n + m /\ i <= n
    BY <1>2
  <2>2. \A i \in 1 .. m : n + i \in 1 .. n + m /\ ~(n + i <= n) /\ (n + i) - n = i
    BY <1>2
  <2>3. \A i \in 1 .. n + m : i \in 1 .. n \/ (i - n \in 1 .. m /\ ~(i <= n))
    BY <1>2
  <2> QED
    BY <1>4, <2>1, <2>2, <2>3
<1>6. {AllNodes[i].node : i \in 1 .. Len(AllNodes)} = heap
  <2>1. \A i \in 1 .. n + m : AllNodes[i].node \in heap
    BY <1>1, <1>3, <1>5
  <2>2. \A x \in heap : \E i \in 1 .. n + m : AllNodes[i].node = x
    <3> SUFFICES ASSUME NEW x \in heap PROVE \E i \in 1 .. n + m : AllNodes[i].node = x
      OBVIOUS
    <3>1. CASE x \in S
      BY <1>3, <1>5, <3>1
    <3>2. CASE x \in P
      <4>1. PICK i \in 1 .. m : empty[i].node = x
        BY <1>3, <3>2
      <4> QED
        BY <1>5, <4>1
    <3> QED
      BY <1>1, <3>1, <3>2
  <2> QED
    BY <1>4, <2>1, <2>2
<1>7. {AllCtrls[i].block : i \in 1 .. Len(AllCtrls)} = {0} \cup heap
  <2>1. \A i \in 1 .. n + m + 1 : i = 1 \/ (i - 1 \in 1 .. n + m /\ (i - 1) + 1 = i)
    BY <1>2
  <2>2. ASSUME NEW i \in 1 .. n + m + 1 PROVE AllCtrls[i].block \in {0} \cup heap
    <3>1. CASE i = 1
      BY <1>1, <1>4, <3>1
    <3>2. ASSUME NEW j \in 1 .. n + m, i = j + 1 PROVE AllNodes[j].ctrl.block \in {0} \cup heap
      BY <1>1, <1>3, <1>5
    <3>3. CASE i # 1
      <4>1. i - 1 \in 1 .. n + m /\ i = (i - 1) + 1
        BY <2>1, <3>3
      <4>2. AllCtrls[(i - 1) + 1] = AllNodes[i - 1].ctrl
        BY <1>4, <4>1
      <4> QED
        BY <3>2, <4>1, <4>2
    <3> QED
      BY <3>1, <3>3
  <2>3. \A i \in 1 .. n + m : i + 1 \in 1 .. n + m + 1
    BY <1>2
  <2>4. 1 \in 1 .. n + m + 1
    BY <1>2
  <2>5. ASSUME NEW x \in {0} \cup heap PROVE \E i \in 1 .. n + m + 1 : AllCtrls[i].block = x
    <3>1. CASE x = cur.block
      BY <1>4, <2>4, <3>1
    <3>2. CASE x \in T
      <4>1. PICK i \in 1 .. n : chain[i].ctrl.block = x
        BY <1>3, <3>2
      <4>2. AllCtrls[i + 1].block = x /\ i + 1 \in 1 .. n + m + 1
        BY <1>4, <1>5, <2>3, <4>1
      <4> QED
        BY <4>2
    <3>3. CASE x \in Q
      <4>1. PICK i \in 1 .. m : empty[i].ctrl.block = x
        BY <1>3, <3>3
      <4>2. AllCtrls[n + i + 1].block = x /\ n + i + 1 \in 1 .. n + m + 1
        BY <1>4, <1>5, <2>3, <4>1
      <4> QED
        BY <4>2
    <3> QED
      BY <1>1, <3>1, <3>2, <3>3
  <2> QED
    BY <1>4, <2>2, <2>5
<1>8. Len(AllNodes) = Cardinality(heap)
  <2>1. Cardinality(S) = n /\ Cardinality(P) = m
    BY <1>1, <1>2, ListSize DEF Listed, n, m
  <2>2. IsFiniteSet(heap)
    <3>1. heap \in SUBSET (1 .. MaxNodes) /\ IsFiniteSet(1 .. MaxNodes)
      BY <1>2, ChainAssumption, FS_Interval DEF Typed
    <3> QED
      BY <3>1, FS_Subset
  <2>3. IsFiniteSet(S) /\ IsFiniteSet(P)
    <3>1. S \in SUBSET heap /\ P \in SUBSET heap
      BY <1>1
    <3> QED
      BY <2>2, <3>1, FS_Subset
  <2>4. Cardinality(S \cup P) = Cardinality(S) + Cardinality(P) - Cardinality(S \cap P)
    BY <2>3, FS_Union
  <2>5. Cardinality(S \cap P) = 0
    BY <1>1, FS_EmptySet
  <2>6. Cardinality(heap) = n + m - 0
    <3>1. heap = S \cup P
      BY <1>1
    <3> QED
      BY <2>1, <2>4, <2>5, <3>1
  <2> QED
    BY <1>2, <1>4, <2>6
<1>9. \A i \in 1 .. Len(empty) : empty[i].ctrl.used = 0
  BY <1>2, ElementOfSeq DEF Typed, Clean
<1> QED
  BY <1>1, <1>6, <1>7, <1>8, <1>9 DEF BlocksAreKept

\* Nodes swap their controls and move between the two lists, and deleting the nodes
\* of both lists leaks nothing and deletes nothing twice (~SerialAllocCtrl).
THEOREM BlocksKept == Spec => []BlocksAreKept
<1>1. Init => KeptInv
  BY InitKept
<1>2. IInv /\ KeptInv /\ [Next]_vars => KeptInv'
  BY StepKept
<1>3. IInv /\ KeptInv => BlocksAreKept
  BY InvIsKept
<1> QED
  BY <1>1, <1>2, <1>3, ChainInvariance, PTL DEF Spec
-----------------------------------------------------------------------------
(* Memory in use is never cut again.                                       *)

\* Where a piece ends, with what it was rounded up by.
End(a) == a.at + AlignSize(a.size)

\* Of the memory of control c only what is cut from it is in use.
Within(c, lv) == \A i \in 1 .. Len(lv) : lv[i].block = c.block => End(lv[i]) <= c.used

\* Pieces of the same block follow each other in the order in which they were cut.
Apart(lv) == \A i, j \in 1 .. Len(lv) :
               i < j /\ lv[i].block = lv[j].block => End(lv[i]) <= lv[j].at

LiveInv == /\ \A i \in 1 .. Len(live) : live[i].block \in {0} \cup heap
           /\ Within(cur, live)
           /\ \A i \in 1 .. Len(chain) : Within(chain[i].ctrl, live)
           /\ \A i \in 1 .. Len(empty) : Within(empty[i].ctrl, live)
           /\ Apart(live)

LEMMA PieceEnds ==
  ASSUME NEW a \in Pieces
  PROVE  End(a) \in Nat /\ a.at \in Nat /\ a.at + a.size <= End(a) /\ a.at < End(a) /\ a.size \in Nat
<1>1. a.at \in Nat /\ a.size \in Sizes /\ a.size \in Nat \ {0}
  BY ChainAssumption DEF Pieces
<1>2. AlignSize(a.size) \in Nat /\ a.size <= AlignSize(a.size)
  BY <1>1, AlignSizeBounds
<1> QED
  BY <1>1, <1>2 DEF End

\* All but the last piece.
LEMMA FrontIs ==
  ASSUME NEW X, NEW s \in Seq(X), s # <<>>
  PROVE  /\ Len(Front(s)) = Len(s) - 1
         /\ \A i \in 1 .. Len(s) - 1 : Front(s)[i] = s[i]
<1> DEFINE n == Len(s)
<1>1. n \in Nat \ {0} /\ \A i \in 1 .. n - 1 : s[i] \in X
  <2>1. n \in Nat \ {0}
    BY EmptySeq
  <2>2. \A i \in 1 .. n - 1 : i \in 1 .. n
    BY <2>1
  <2> QED
    BY <2>1, <2>2, ElementOfSeq
<1> HIDE DEF n
<1>2. /\ Len(SubSeq(s, 1, n - 1)) = IF 1 <= n - 1 THEN n - 1 - 1 + 1 ELSE 0
      /\ \A i \in 1 .. n - 1 - 1 + 1 : SubSeq(s, 1, n - 1)[i] = s[1 + i - 1]
  BY <1>1, SubSeqProperties
<1>3. \A i \in 1 .. n - 1 : i \in 1 .. n - 1 - 1 + 1 /\ 1 + i - 1 = i
  BY <1>1
<1>4. Front(s) = SubSeq(s, 1, n - 1)
  BY DEF Front, n
<1>5. Len(Front(s)) = n - 1
  BY <1>1, <1>2, <1>4
<1>6. \A i \in 1 .. n - 1 : Front(s)[i] = s[i]
  BY <1>2, <1>3, <1>4
<1> QED
  BY <1>5, <1>6 DEF n

\* The block of the current control is in no list.
LEMMA CurrentIsAlone ==
  ASSUME NEW c, NEW ch, NEW em, NEW hp, Kept(c, ch, em, hp)
  PROVE  /\ c.block \in {0} \cup hp
         /\ \A i \in 1 .. Len(ch) : ch[i].ctrl.block # c.block
         /\ \A i \in 1 .. Len(em) : em[i].ctrl.block # c.block
<1>1. PICK S, T, P, Q : /\ Listed(ch, S, T) /\ Listed(em, P, Q)
                        /\ c.block \notin T \cup Q
                        /\ {c.block} \cup T \cup Q = {0} \cup hp
  BY DEF Kept
<1>2. /\ \A i \in 1 .. Len(ch) : BlockOf(ch)[i] = ch[i].ctrl.block
      /\ \A i \in 1 .. Len(em) : BlockOf(em)[i] = em[i].ctrl.block
  BY DEF BlockOf
<1> QED
  BY <1>1, <1>2 DEF Listed, Lists

\* Memory is cut from a control that was current, or becomes it.
LEMMA LiveCut ==
  ASSUME live \in Seq(Pieces), Apart(live), NEW c \in Ctrls, NEW sz \in Sizes,
         Within(c, live), KeptInv', live' = Append(live, Piece(c, sz)), cur' = Cut(c, sz),
         \A i \in 1 .. Len(live) : live[i].block \in {0} \cup heap',
         \A i \in 1 .. Len(chain') : Within(chain'[i].ctrl, live),
         \A i \in 1 .. Len(empty') : Within(empty'[i].ctrl, live)
  PROVE  LiveInv'
<1> DEFINE n == Len(live)
           a == Piece(c, sz)
<1>1. /\ n \in Nat /\ \A i \in 1 .. n : live[i] \in Pieces
      /\ a \in Pieces /\ a.at = c.used /\ a.block = c.block /\ a.size = sz
      /\ AlignSize(sz) \in Nat /\ c.used \in Nat
  BY LenProperties, ElementOfSeq, SizesArePositive DEF Piece, Pieces, Ctrls
<1>2. cur'.block = c.block /\ cur'.used = c.used + AlignSize(sz)
  BY DEF Cut, Ctrls
<1> HIDE DEF a, n
<1>3. /\ Len(live') = n + 1 /\ live'[n + 1] = a
      /\ \A i \in 1 .. n : live'[i] = live[i]
  BY <1>1, AppendProperties DEF a, n
<1>4. \A i \in 1 .. n + 1 : i \in 1 .. n \/ i = n + 1
  BY <1>1
<1>5. /\ c.block \in {0} \cup heap'
      /\ \A i \in 1 .. Len(chain') : chain'[i].ctrl.block # c.block
      /\ \A i \in 1 .. Len(empty') : empty'[i].ctrl.block # c.block
  <2>1. /\ cur'.block \in {0} \cup heap'
        /\ \A i \in 1 .. Len(chain') : chain'[i].ctrl.block # cur'.block
        /\ \A i \in 1 .. Len(empty') : empty'[i].ctrl.block # cur'.block
    <3>1. Kept(cur', chain', empty', heap')
      BY DEF KeptInv
    <3> QED
      BY <3>1, CurrentIsAlone
  <2> QED
    BY <1>2, <2>1
<1>6. \A i \in 1 .. Len(live') : live'[i].block \in {0} \cup heap'
  BY <1>1, <1>3, <1>4, <1>5 DEF n
<1>7. ASSUME NEW d, Within(d, live), d.block # c.block PROVE Within(d, live')
  BY <1>1, <1>3, <1>4, <1>7 DEF Within, n
<1>8. /\ \A i \in 1 .. Len(chain') : Within(chain'[i].ctrl, live')
      /\ \A i \in 1 .. Len(empty') : Within(empty'[i].ctrl, live')
  BY <1>5, <1>7
<1>9. \A i \in 1 .. n : End(live[i]) \in Nat /\ (live[i].block = c.block => End(live[i]) <= c.used)
  BY <1>1, PieceEnds DEF Within, n
<1>10. Within(cur', live')
  <2> SUFFICES ASSUME NEW i \in 1 .. n + 1, live'[i].block = cur'.block
               PROVE  End(live'[i]) <= cur'.used
    BY <1>3 DEF Within
  <2>1. CASE i = n + 1
    <3>1. End(a) = c.used + AlignSize(sz)
      BY <1>1 DEF End
    <3> QED
      BY <1>1, <1>2, <1>3, <2>1, <3>1
  <2>2. CASE i \in 1 .. n
    <3>1. End(live[i]) <= c.used /\ End(live[i]) \in Nat
      BY <1>2, <1>3, <1>9, <2>2
    <3> QED
      BY <1>1, <1>2, <1>3, <2>2, <3>1
  <2> QED
    BY <1>4, <2>1, <2>2
<1>11. Apart(live')
  <2> SUFFICES ASSUME NEW i \in 1 .. n + 1, NEW j \in 1 .. n + 1, i < j,
                      live'[i].block = live'[j].block
               PROVE  End(live'[i]) <= live'[j].at
    BY <1>3 DEF Apart
  <2>0. i \in 1 .. n
    BY <1>1
  <2>1. CASE j = n + 1
    BY <1>1, <1>3, <1>9, <2>0, <2>1
  <2>2. CASE j \in 1 .. n
    BY <1>3, <2>0, <2>2 DEF Apart, n
  <2> QED
    BY <1>4, <2>1, <2>2
<1> QED
  BY <1>6, <1>8, <1>10, <1>11 DEF LiveInv

LEMMA NothingLive ==
  ASSUME live' = <<>> PROVE LiveInv'
<1>1. \A i \in 1 .. Len(live') : FALSE
  BY EmptySeq
<1> QED
  BY <1>1 DEF LiveInv, Within, Apart

\* The last piece is given back: what is left in its block ends where it began.
LEMMA LiveUncut ==
  ASSUME IInv, LiveInv, Dealloc PROVE LiveInv'
<1> DEFINE n == Len(live)
           a == live[n]
           left == [cur EXCEPT !.used = a.at]
           l == Front(live)
<1>1. /\ live \in Seq(Pieces) /\ live # <<>> /\ n \in Nat \ {0}
      /\ \A i \in 1 .. n : live[i] \in Pieces
  BY EmptySeq, ElementOfSeq DEF Dealloc, IInv, Typed
<1>2. OnTop(a) /\ live' = l /\ heap' = heap
  <2>1. halted' = "no"
    BY KeepDealloc DEF IInv, Typed
  <2> QED
    BY <2>1 DEF Dealloc
<1>3. a.block = cur.block /\ left.block = cur.block /\ left.used = a.at
      /\ left \in Ctrls
  <2>1. cur \in Ctrls /\ a \in Pieces
    <3>1. n \in 1 .. n
      BY <1>1
    <3> QED
      BY <1>1, <3>1, TypedLists DEF IInv
  <2>2. a.at \in Nat
    BY <2>1 DEF Pieces
  <2>3. a.block = cur.block
    BY <1>2 DEF OnTop
  <2>4. left.block = cur.block /\ left.used = a.at /\ left \in Ctrls
    BY <2>1, <2>2 DEF Ctrls
  <2> QED
    BY <2>3, <2>4
<1>4. Len(l) = n - 1 /\ \A i \in 1 .. n - 1 : l[i] = live[i] /\ i \in 1 .. n /\ i < n
  BY <1>1, FrontIs
<1> HIDE DEF l, left
<1>5. \A d : Within(d, live) => Within(d, l)
  BY <1>4 DEF Within, n
<1>6. Within(left, l)
  <2>1. n \in 1 .. n
    BY <1>1
  <2>2. \A i \in 1 .. n - 1 : l[i].block = a.block => End(l[i]) <= a.at
    BY <1>4, <2>1 DEF LiveInv, Apart
  <2> QED
    BY <1>3, <1>4, <2>2 DEF Within
<1>7. Apart(l) /\ \A i \in 1 .. Len(l) : l[i].block \in {0} \cup heap
  BY <1>4 DEF Apart, LiveInv, n
<1>8. CASE a.at = 0 /\ chain # <<>>
  <2> DEFINE e == [node |-> chain[1].node, ctrl |-> left]
  <2>1. cur' = chain[1].ctrl /\ chain' = Tail(chain) /\ empty' = <<e>> \o empty
    BY <1>2, <1>8 DEF Dealloc, left
  <2>2. /\ 1 \in 1 .. Len(chain)
        /\ \A i \in 1 .. Len(Tail(chain)) : i + 1 \in 1 .. Len(chain)
                                             /\ Tail(chain)[i] = chain[i + 1]
    <3>1. chain \in Seq(Nodes) /\ Len(chain) \in Nat \ {0}
      BY <1>8, TypedLists, EmptySeq DEF IInv
    <3>2. Len(Tail(chain)) = Len(chain) - 1
          /\ \A i \in 1 .. Len(Tail(chain)) : Tail(chain)[i] = chain[i + 1]
      BY <1>8, <3>1, HeadTailProperties
    <3> QED
      BY <3>1, <3>2
  <2>3. \A i \in 1 .. Len(<<e>> \o empty) :
          (<<e>> \o empty)[i].ctrl = left
          \/ \E j \in 1 .. Len(empty) : (<<e>> \o empty)[i] = empty[j]
    <3>1. e \in Nodes /\ e.ctrl = left
      BY <1>3, <2>2, TypedLists DEF IInv, Nodes
    <3> HIDE DEF e
    <3>2. <<e>> \in Seq(Nodes) /\ Len(<<e>>) = 1 /\ <<e>>[1] = e
      BY <3>1
    <3>3. empty \in Seq(Nodes) /\ Len(empty) \in Nat
      BY TypedLists, LenProperties DEF IInv
    <3>4. /\ Len(<<e>> \o empty) = 1 + Len(empty)
          /\ \A i \in 1 .. 1 + Len(empty) :
               (<<e>> \o empty)[i] = IF i <= 1 THEN <<e>>[i] ELSE empty[i - 1]
      BY <3>2, <3>3, ConcatProperties
    <3>5. \A i \in 1 .. 1 + Len(empty) : i = 1 \/ (~(i <= 1) /\ i - 1 \in 1 .. Len(empty))
      BY <3>3
    <3> QED
      BY <3>1, <3>2, <3>4, <3>5
  <2> HIDE DEF e
  <2>4. /\ Within(cur', l)
        /\ \A i \in 1 .. Len(chain') : Within(chain'[i].ctrl, l)
        /\ \A i \in 1 .. Len(empty') : Within(empty'[i].ctrl, l)
    BY <1>5, <1>6, <2>1, <2>2, <2>3 DEF LiveInv
  <2> QED
    BY <1>2, <1>7, <2>4 DEF LiveInv
<1>9. CASE ~(a.at = 0 /\ chain # <<>>)
  <2>1. cur' = left /\ chain' = chain /\ empty' = empty
    BY <1>2, <1>9 DEF Dealloc, left
  <2> QED
    BY <1>2, <1>5, <1>6, <1>7, <2>1 DEF LiveInv
<1> QED
  BY <1>8, <1>9

\* A control from which nothing is cut has no memory in use, and a node that was
\* created now has none either.
LEMMA LiveEnter ==
  ASSUME IInv, LiveInv, KeptInv', NEW sz \in Sizes, NEW node \in 1 .. MaxNodes,
         NEW c \in Ctrls, c.used = 0, c.cap >= NodeSize(sz), Within(c, live),
         Enter(node, c, sz), heap \subseteq heap',
         \A i \in 1 .. Len(empty') : \E j \in 1 .. Len(empty) : empty'[i] = empty[j]
  PROVE  LiveInv'
<1> DEFINE e == [node |-> node, ctrl |-> cur]
<1>1. /\ chain' = <<e>> \o chain
      /\ cur' = Cut(c, sz) /\ live' = Append(live, Piece(c, sz))
  BY RoomForIt DEF Enter
<1>2. \A i \in 1 .. Len(chain') : Within(chain'[i].ctrl, live)
  <2>1. e \in Nodes /\ e.ctrl = cur
    BY TypedLists DEF IInv, Nodes
  <2> HIDE DEF e
  <2>2. <<e>> \in Seq(Nodes) /\ Len(<<e>>) = 1 /\ <<e>>[1] = e
    BY <2>1
  <2>3. chain \in Seq(Nodes) /\ Len(chain) \in Nat
    BY TypedLists, LenProperties DEF IInv
  <2>4. /\ Len(<<e>> \o chain) = 1 + Len(chain)
        /\ \A i \in 1 .. 1 + Len(chain) :
             (<<e>> \o chain)[i] = IF i <= 1 THEN <<e>>[i] ELSE chain[i - 1]
    BY <2>2, <2>3, ConcatProperties
  <2>5. \A i \in 1 .. 1 + Len(chain) : i = 1 \/ (~(i <= 1) /\ i - 1 \in 1 .. Len(chain))
    BY <2>3
  <2>6. Within(cur, live) /\ \A i \in 1 .. Len(chain) : Within(chain[i].ctrl, live)
    BY DEF LiveInv
  <2> SUFFICES ASSUME NEW i \in 1 .. 1 + Len(chain) PROVE Within((<<e>> \o chain)[i].ctrl, live)
    BY <1>1, <2>4
  <2>7. CASE i = 1
    <3>1. (<<e>> \o chain)[i] = e
      BY <2>2, <2>4, <2>7
    <3> QED
      BY <2>1, <2>6, <3>1
  <2>8. CASE ~(i <= 1) /\ i - 1 \in 1 .. Len(chain)
    <3>1. (<<e>> \o chain)[i] = chain[i - 1]
      BY <2>4, <2>8
    <3> QED
      BY <2>6, <2>8, <3>1
  <2> QED
    BY <2>5, <2>7, <2>8
<1>3. \A i \in 1 .. Len(empty') : Within(empty'[i].ctrl, live)
  BY DEF LiveInv
<1>4. live \in Seq(Pieces) /\ Apart(live)
      /\ \A i \in 1 .. Len(live) : live[i].block \in {0} \cup heap'
  BY DEF LiveInv, IInv, Typed
<1> QED
  BY <1>1, <1>2, <1>3, <1>4, LiveCut

LEMMA StepLive == ASSUME IInv, KeptInv, LiveInv, [Next]_vars PROVE LiveInv'
<1>0. KeptInv'
  BY StepKept
<1>1. ASSUME NEW sz \in Sizes, AllocHere(sz) PROVE LiveInv'
  <2>1. /\ live' = Append(live, Piece(cur, sz)) /\ cur' = Cut(cur, sz)
        /\ chain' = chain /\ empty' = empty /\ heap' = heap
    BY <1>1 DEF AllocHere
  <2>2. live \in Seq(Pieces) /\ cur \in Ctrls
    BY TypedLists DEF IInv, Typed
  <2> QED
    BY <1>0, <2>1, <2>2, LiveCut DEF LiveInv
<1>2. ASSUME NEW sz \in Sizes, AllocReuse(sz) PROVE LiveInv'
  <2>1. PICK i \in 1 .. Len(empty) : /\ Suitable(i, NodeSize(sz))
                                     /\ empty' = RemoveAt(empty, i)
                                     /\ Enter(empty[i].node, empty[i].ctrl, sz)
    BY <1>2 DEF AllocReuse
  <2>2. /\ empty[i].node \in 1 .. MaxNodes /\ empty[i].ctrl \in Ctrls
        /\ empty[i].ctrl.used = 0 /\ empty[i].ctrl.cap >= NodeSize(sz)
    <3>1. empty[i] \in Clean
      BY ElementOfSeq DEF IInv, Typed
    <3> QED
      BY <2>1, <3>1 DEF Clean, Nodes, Suitable
  <2>3. \A k \in 1 .. Len(empty') : \E j \in 1 .. Len(empty) : empty'[k] = empty[j]
    <3>1. /\ Len(empty') = Len(empty) - 1 /\ Len(empty) \in Nat
          /\ \A k \in 1 .. Len(empty) - 1 : empty'[k] = IF k < i THEN empty[k] ELSE empty[k + 1]
      BY <2>1, RemoveAtIs, TypedLists, LenProperties DEF IInv
    <3>2. \A k \in 1 .. Len(empty) - 1 : k \in 1 .. Len(empty) /\ k + 1 \in 1 .. Len(empty)
      BY <3>1
    <3> QED
      BY <3>1, <3>2
  <2>4. Within(empty[i].ctrl, live) /\ heap' = heap
    BY <1>2 DEF LiveInv, AllocReuse
  <2> QED
    BY <1>0, <2>1, <2>2, <2>3, <2>4, LiveEnter
<1>3. ASSUME NEW sz \in Sizes, AllocInNode(sz) PROVE LiveInv'
  <2> DEFINE n == Min((1 .. MaxNodes) \ heap)
             c == Ctrl(n, NodeSize(sz))
  <2>1. n \in (1 .. MaxNodes) \ heap
    BY <1>3, NewNode DEF AllocInNode, IInv
  <2>2. heap' = heap \cup {n} /\ Enter(n, c, sz) /\ empty' = empty
    BY <1>3 DEF AllocInNode
  <2> HIDE DEF n
  <2>3. n \in 1 .. MaxNodes /\ n \notin {0} \cup heap /\ MaxNodes \in Nat
    BY <2>1, ChainAssumption
  <2>4. NodeSize(sz) \in Nat
    <3>1. sz \in Nat /\ Align \in Nat /\ Block \in Nat
      BY ChainAssumption
    <3>2. AlignSize(sz + Align) \in Nat
      BY <3>1, AlignSizeBounds
    <3> QED
      BY <3>1, <3>2 DEF NodeSize
  <2>5. c \in Ctrls /\ c.used = 0 /\ c.cap >= NodeSize(sz) /\ c.block = n
    BY <2>3, <2>4 DEF Ctrl, Ctrls
  <2> HIDE DEF c
  <2>6. Within(c, live)
    BY <2>3, <2>5 DEF Within, LiveInv
  <2> QED
    BY <1>0, <2>2, <2>3, <2>5, <2>6, LiveEnter
<1>4. CASE Dealloc
  BY <1>4, LiveUncut
<1>5. CASE Reset
  BY <1>5, NothingLive DEF Reset
<1>6. CASE Dissolve
  BY <1>6, NothingLive DEF Dissolve
<1>7. CASE UNCHANGED vars
  BY <1>7 DEF vars, LiveInv, Within, Apart
<1> QED
  BY <1>1, <1>2, <1>3, <1>4, <1>5, <1>6, <1>7 DEF Next

LEMMA InitLive == Init => LiveInv
<1> SUFFICES ASSUME Init PROVE LiveInv
  OBVIOUS
<1>1. \A i \in 1 .. Len(live) : FALSE
  BY EmptySeq DEF Init
<1> QED
  BY <1>1 DEF LiveInv, Within, Apart

\* What the controls of all blocks say of the memory in use.
LEMMA AllCtrlsHold ==
  ASSUME IInv, LiveInv, NEW i \in 1 .. Len(AllCtrls)
  PROVE  AllCtrls[i] \in Fit /\ Within(AllCtrls[i], live)
<1> DEFINE n == Len(chain)
           m == Len(empty)
<1>1. n \in Nat /\ m \in Nat /\ Typed
  BY LenProperties DEF IInv, Typed
<1>2. /\ Len(AllNodes) = n + m /\ Len(AllCtrls) = n + m + 1
      /\ \A k \in 1 .. n + m : AllNodes[k] = IF k <= n THEN chain[k] ELSE empty[k - n]
      /\ AllCtrls[1] = cur /\ \A k \in 1 .. n + m : AllCtrls[k + 1] = AllNodes[k].ctrl
  BY <1>1, AllNodesAre
<1>3. /\ \A k \in 1 .. n : chain[k].ctrl \in Fit /\ Within(chain[k].ctrl, live)
      /\ \A k \in 1 .. m : empty[k].ctrl \in Fit /\ Within(empty[k].ctrl, live)
  <2>1. /\ \A k \in 1 .. n : chain[k] \in Filled
        /\ \A k \in 1 .. m : empty[k] \in Clean
    BY <1>1, ElementOfSeq DEF Typed
  <2>2. \A e \in Clean : e.ctrl \in Fit
    BY DEF Clean, Nodes, Fit, Ctrls
  <2> QED
    BY <2>1, <2>2 DEF Filled, LiveInv
<1> HIDE DEF n, m
<1>4. CASE i = 1
  BY <1>1, <1>2, <1>4 DEF Typed, LiveInv
<1>5. CASE i # 1
  <2> DEFINE k == i - 1
  <2>1. k \in 1 .. n + m /\ i = k + 1
    BY <1>1, <1>2, <1>5
  <2> HIDE DEF k
  <2>2. AllCtrls[i] = (IF k <= n THEN chain[k] ELSE empty[k - n]).ctrl
    BY <1>2, <2>1
  <2>3. CASE k <= n
    <3>1. k \in 1 .. n
      BY <1>1, <2>1, <2>3
    <3> QED
      BY <1>3, <2>2, <2>3, <3>1
  <2>4. CASE ~(k <= n)
    <3>1. k - n \in 1 .. m
      BY <1>1, <2>1, <2>4
    <3> QED
      BY <1>3, <2>2, <2>4, <3>1
  <2> QED
    BY <2>3, <2>4
<1> QED
  BY <1>4, <1>5

LEMMA InvIsApart == ASSUME IInv, KeptInv, LiveInv PROVE LiveIsApart
<1>1. live \in Seq(Pieces) /\ Len(live) \in Nat /\ \A i \in 1 .. Len(live) : live[i] \in Pieces
  BY LenProperties, ElementOfSeq DEF IInv, Typed
<1>2. ASSUME NEW i \in 1 .. Len(live)
      PROVE  /\ live[i].block \in {0} \cup heap
             /\ live[i].at + live[i].size <= CapOf(live[i].block)
  <2> DEFINE b == live[i].block
             k == CHOOSE j \in 1 .. Len(AllCtrls) : AllCtrls[j].block = b
  <2>1. b \in {0} \cup heap
    BY DEF LiveInv
  <2>2. \E j \in 1 .. Len(AllCtrls) : AllCtrls[j].block = b
    <3>1. {AllCtrls[j].block : j \in 1 .. Len(AllCtrls)} = {0} \cup heap
      BY InvIsKept DEF BlocksAreKept
    <3> QED
      BY <2>1, <3>1
  <2>3. k \in 1 .. Len(AllCtrls) /\ AllCtrls[k].block = b
    BY <2>2
  <2>4. CapOf(b) = AllCtrls[k].cap
    BY DEF CapOf
  <2> HIDE DEF k
  <2>5. AllCtrls[k] \in Fit /\ End(live[i]) <= AllCtrls[k].used
    BY <2>3, AllCtrlsHold DEF Within
  <2>6. /\ End(live[i]) \in Nat /\ live[i].at \in Nat /\ live[i].size \in Nat
        /\ live[i].at + live[i].size <= End(live[i])
    BY <1>1, PieceEnds
  <2>7. AllCtrls[k].used \in Nat /\ AllCtrls[k].cap \in Nat
        /\ AllCtrls[k].used <= AllCtrls[k].cap
    BY <2>5 DEF Fit, Ctrls
  <2>8. live[i].at + live[i].size <= AllCtrls[k].cap
    BY <2>5, <2>6, <2>7
  <2> QED
    BY <2>1, <2>4, <2>8
<1>3. ASSUME NEW a \in Range(live)
      PROVE  a.block \in {0} \cup heap /\ a.at + a.size <= CapOf(a.block)
  <2>1. PICK i \in 1 .. Len(live) : a = live[i]
    BY <1>1, LenProperties DEF Range
  <2> QED
    BY <1>2, <2>1
<1>4. ASSUME NEW i \in 1 .. Len(live), NEW j \in 1 .. Len(live), i < j,
             live[i].block = live[j].block
      PROVE  live[i].at + live[i].size <= live[j].at
  <2>1. End(live[i]) <= live[j].at
    BY <1>4 DEF LiveInv, Apart
  <2>2. /\ End(live[i]) \in Nat /\ live[i].at \in Nat /\ live[i].size \in Nat
        /\ live[i].at + live[i].size <= End(live[i]) /\ live[j].at \in Nat
    BY <1>1, PieceEnds
  <2> QED
    BY <2>1, <2>2
<1> QED
  BY <1>3, <1>4 DEF LiveIsApart

\* Memory in use lies inside a block that exists and overlaps no other memory in
\* use, for any block size and alignment and any order of calls (Alloc, Dealloc,
\* Reset and Dissolve of alloc_internal.h).
THEOREM PiecesApart == Spec => []LiveIsApart
<1>1. Init => KeptInv /\ LiveInv
  BY InitKept, InitLive
<1>2. IInv /\ KeptInv /\ LiveInv /\ [Next]_vars => KeptInv' /\ LiveInv'
  BY StepKept, StepLive
<1>3. IInv /\ KeptInv /\ LiveInv => LiveIsApart
  BY InvIsApart
<1> QED
  BY <1>1, <1>2, <1>3, ChainInvariance, PTL DEF Spec
=============================================================================
