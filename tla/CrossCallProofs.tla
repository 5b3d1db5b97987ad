--------------------------- MODULE CrossCallProofs ---------------------------
(***************************************************************************)
(* For a buffer of any size, any modules, messages and depth of calls,     *)
(* requests and answers that fit and such that do not: a requester gets    *)
(* what the responder of its own call returned, and a responder runs with  *)
(* the parameters of its own request, but for the texts that Came excepts. *)
(***************************************************************************)
EXTENDS CrossCall, NaturalsInduction, SequenceTheorems,
        WellFoundedInduction, TLAPS

Writing(wp) == [mode |-> "write", rp |-> Size, wp |-> wp]

-----------------------------------------------------------------------------
(* The way of the fields through the buffer.                               *)

LEMMA StartsWriting ==
  ASSUME NEW o
  PROVE  StartWrite(View(o), o)
           = [mem |-> mem, ds |-> IF o = "cs" THEN 1 ELSE ds, st |-> Writing(1)]
<1>1. View(o) = [mem |-> mem, ds |-> ds, st |-> station[o]]
  BY DEF View
<1> DEFINE st == Writing(1)
<1>2. StartWrite(View(o), o) = [View(o) EXCEPT !.st = st, !.ds = IF o = "cs" THEN 1 ELSE ds]
  BY <1>1 DEF StartWrite, Writing
<1> DEFINE d == IF o = "cs" THEN 1 ELSE ds
<1>3. [mem |-> mem, ds |-> d, st |-> st]
        = [[mem |-> mem, ds |-> ds, st |-> station[o]] EXCEPT !.st = st, !.ds = d]
  <2> HIDE DEF st, d
  <2> DEFINE v == [mem |-> mem, ds |-> ds, st |-> station[o]]
             t == [mem |-> mem, ds |-> ds, st |-> st]
  <2>1. t = [v EXCEPT !.st = st]
    OBVIOUS
  <2>2. [mem |-> mem, ds |-> d, st |-> st] = [t EXCEPT !.ds = d]
    OBVIOUS
  <2> HIDE DEF v, t
  <2>3. [[v EXCEPT !.st = st] EXCEPT !.ds = d] = [v EXCEPT !.st = st, !.ds = d]
    OBVIOUS
  <2> QED
    BY <2>1, <2>2, <2>3 DEF v
<1> QED
  BY <1>1, <1>2, <1>3

\* A set of numbers with 0 that has the successor of each of its members has all.
LEMMA Induct ==
  ASSUME NEW S \in SUBSET Nat, 0 \in S, \A k \in S : k + 1 \in S
  PROVE  S = Nat
<1> SUFFICES ASSUME Nat \ S # {} PROVE FALSE
  OBVIOUS
<1>1. PICK m \in Nat \ S : \A y \in Nat \ S : ~(<<y, m>> \in OpToRel(<, Nat))
  BY NatLessThanWellFounded, WFMin
<1>2. m \in Nat /\ m \notin S
  BY <1>1
<1>3. m # 0 /\ m - 1 \in Nat /\ m - 1 < m /\ m - 1 + 1 = m
  <2>1. m # 0
    BY <1>2
  <2> QED
    BY <1>2, <2>1
<1>4. m - 1 \in S
  <2> SUFFICES ASSUME m - 1 \notin S PROVE FALSE
    OBVIOUS
  <2>1. <<m - 1, m>> \in OpToRel(<, Nat)
    BY <1>2, <1>3 DEF OpToRel
  <2> QED
    BY <1>1, <1>3, <2>1
<1> QED
  BY <1>2, <1>3, <1>4

IsSum(u, fields) ==
  u = [k \in 0 .. Len(fields) |-> IF k = 0 THEN 0 ELSE u[k - 1] + Len(fields[k])]
IsPut(u, v, fields) ==
  u = [k \in 0 .. Len(fields) |-> IF k = 0 THEN v ELSE Put(u[k - 1], fields[k])]
IsSeen(u, v, s, pieces) ==
  u = [k \in 0 .. Len(pieces) |-> IF k = 0 THEN v ELSE Skip(u[k - 1], s, pieces[k])]

\* A walk of one more step.
IsLonger(g, f, n, x) ==
  /\ g = [k \in 0 .. n + 1 |-> g[k]]
  /\ \A k \in 0 .. n : g[k] = f[k]
  /\ g[n + 1] = x

LEMMA Longer ==
  ASSUME NEW n \in Nat, NEW f, NEW x
  PROVE  \E g : IsLonger(g, f, n, x)
<1> DEFINE g == [k \in 0 .. n + 1 |-> IF k = n + 1 THEN x ELSE f[k]]
<1>1. \A k \in 0 .. n : k \in 0 .. n + 1 /\ k # n + 1
  OBVIOUS
<1>2. n + 1 \in 0 .. n + 1
  OBVIOUS
<1>3. (\A k \in 0 .. n : g[k] = f[k]) /\ g[n + 1] = x
  BY <1>1, <1>2
<1>4. g = [k \in 0 .. n + 1 |-> g[k]]
  OBVIOUS
<1> HIDE DEF g
<1> QED
  BY <1>3, <1>4 DEF IsLonger

LEMMA SumIs ==
  ASSUME NEW fields, NEW n \in Nat, Len(fields) = n
  PROVE  /\ WordsOf(fields)[0] = 0
         /\ \A k \in 1 .. n : WordsOf(fields)[k] = WordsOf(fields)[k - 1] + Len(fields[k])
<1> DEFINE Walks(u, m) == u = [k \in 0 .. m |-> IF k = 0 THEN 0 ELSE u[k - 1] + Len(fields[k])]
           S == {m \in Nat : \E u : Walks(u, m)}
<1>1. 0 \in S
  <2> DEFINE u == [k \in 0 .. 0 |-> 0]
  <2>1. Walks(u, 0)
    OBVIOUS
  <2> QED
    BY <2>1
<1>2. ASSUME NEW m \in S PROVE m + 1 \in S
  <2>1. m \in Nat
    OBVIOUS
  <2>2. PICK u : Walks(u, m)
    OBVIOUS
  <2>a. PICK x : x = u[m] + Len(fields[m + 1])
    OBVIOUS
  <2>3. PICK g : IsLonger(g, u, m, x)
    BY <2>1, Longer
  <2>4. ASSUME NEW k \in 0 .. m + 1
        PROVE  g[k] = IF k = 0 THEN 0 ELSE g[k - 1] + Len(fields[k])
    <3>1. CASE k = m + 1
      <4>1. k # 0 /\ k - 1 = m /\ m \in 0 .. m
        BY <2>1, <3>1
      <4> QED
        BY <2>3, <2>a, <3>1, <4>1 DEF IsLonger
    <3>2. CASE k \in 0 .. m
      <4>1. k # 0 => k - 1 \in 0 .. m
        BY <2>1, <3>2
      <4> QED
        BY <2>2, <2>3, <3>2, <4>1 DEF IsLonger
    <3> QED
      BY <2>1, <3>1, <3>2
  <2>5. Walks(g, m + 1)
    <3> DEFINE w == [k \in 0 .. m + 1 |-> IF k = 0 THEN 0 ELSE g[k - 1] + Len(fields[k])]
    <3>1. w = [k \in 0 .. m + 1 |-> w[k]] /\ \A k \in 0 .. m + 1 : g[k] = w[k]
      BY <2>4
    <3> HIDE DEF w
    <3>2. g = w
      BY <2>3, <3>1 DEF IsLonger
    <3> QED
      BY <3>2 DEF w
  <2> HIDE DEF Walks
  <2> QED
    BY <2>1, <2>5
<1>3. S \in SUBSET Nat
  OBVIOUS
<1> HIDE DEF S
<1>4. n \in S
  BY <1>1, <1>2, <1>3, Induct
<1>5. \E u : IsSum(u, fields)
  BY <1>4 DEF S, IsSum
<1>6. WordsOf(fields) = CHOOSE u : IsSum(u, fields)
  BY Zenon DEF WordsOf, IsSum
<1>7. IsSum(WordsOf(fields), fields)
  BY <1>5, <1>6
<1> HIDE DEF S, Walks
<1>8. PICK w : w = WordsOf(fields)
  OBVIOUS
<1>9. w = [k \in 0 .. n |-> IF k = 0 THEN 0 ELSE w[k - 1] + Len(fields[k])]
  BY <1>7, <1>8 DEF IsSum
<1>a. 0 \in 0 .. n /\ \A k \in 1 .. n : k \in 0 .. n /\ k # 0
  OBVIOUS
<1>b. w[0] = 0 /\ \A k \in 1 .. n : w[k] = w[k - 1] + Len(fields[k])
  BY <1>9, <1>a
<1> QED
  BY <1>8, <1>b

\* What is seen on the way of n fields into the buffer.
PutsOn(u, v, fields, n) ==
  /\ PutAll(v, fields) = u[n] /\ u[0] = v
  /\ \A k \in 1 .. n : u[k] = Put(u[k - 1], fields[k])

LEMMA PutIs ==
  ASSUME NEW v, NEW fields, NEW n \in Nat, Len(fields) = n
  PROVE  \E u : PutsOn(u, v, fields, n)
<1> DEFINE Walks(u, m) == u = [k \in 0 .. m |-> IF k = 0 THEN v ELSE Put(u[k - 1], fields[k])]
           S == {m \in Nat : \E u : Walks(u, m)}
<1>1. 0 \in S
  <2> DEFINE u == [k \in 0 .. 0 |-> v]
  <2>1. Walks(u, 0)
    OBVIOUS
  <2> QED
    BY <2>1
<1>2. ASSUME NEW m \in S PROVE m + 1 \in S
  <2>1. m \in Nat
    OBVIOUS
  <2>2. PICK u : Walks(u, m)
    OBVIOUS
  <2>a. PICK x : x = Put(u[m], fields[m + 1])
    OBVIOUS
  <2>3. PICK g : IsLonger(g, u, m, x)
    BY <2>1, Longer
  <2>4. ASSUME NEW k \in 0 .. m + 1
        PROVE  g[k] = IF k = 0 THEN v ELSE Put(g[k - 1], fields[k])
    <3>1. CASE k = m + 1
      <4>1. k # 0 /\ k - 1 = m /\ m \in 0 .. m
        BY <2>1, <3>1
      <4> QED
        BY <2>3, <2>a, <3>1, <4>1 DEF IsLonger
    <3>2. CASE k \in 0 .. m
      <4>1. k # 0 => k - 1 \in 0 .. m
        BY <2>1, <3>2
      <4> QED
        BY <2>2, <2>3, <3>2, <4>1 DEF IsLonger
    <3> QED
      BY <2>1, <3>1, <3>2
  <2>5. Walks(g, m + 1)
    <3> DEFINE w == [k \in 0 .. m + 1 |-> IF k = 0 THEN v ELSE Put(g[k - 1], fields[k])]
    <3>1. w = [k \in 0 .. m + 1 |-> w[k]] /\ \A k \in 0 .. m + 1 : g[k] = w[k]
      BY <2>4
    <3> HIDE DEF w
    <3>2. g = w
      BY <2>3, <3>1 DEF IsLonger
    <3> QED
      BY <3>2 DEF w
  <2> HIDE DEF Walks
  <2> QED
    BY <2>1, <2>5
<1>3. S \in SUBSET Nat
  OBVIOUS
<1> HIDE DEF S
<1>4. n \in S
  BY <1>1, <1>2, <1>3, Induct
<1>5. \E u : IsPut(u, v, fields)
  BY <1>4 DEF S, IsPut
<1>6. PutAll(v, fields) = (CHOOSE u : IsPut(u, v, fields))[Len(fields)]
  BY Zenon DEF PutAll, IsPut
<1> HIDE DEF S, Walks
<1>7. PICK w : IsPut(w, v, fields) /\ PutAll(v, fields) = w[Len(fields)]
  BY <1>5, <1>6
<1>8. w = [k \in 0 .. n |-> IF k = 0 THEN v ELSE Put(w[k - 1], fields[k])]
  BY <1>7 DEF IsPut
<1>9. 0 \in 0 .. n /\ \A k \in 1 .. n : k \in 0 .. n /\ k # 0
  OBVIOUS
<1>a. w[0] = v /\ \A k \in 1 .. n : w[k] = Put(w[k - 1], fields[k])
  BY <1>8, <1>9
<1> QED
  BY <1>7, <1>a DEF PutsOn

\* What is seen on the way of n pieces out of the buffer.
GetsOn(u, v, s, pieces, n) ==
  /\ GetAll(v, s, pieces).v = u[n] /\ u[0] = v
  /\ \A k \in 1 .. n : u[k] = Skip(u[k - 1], s, pieces[k])
  /\ GetAll(v, s, pieces).got = [k \in DOMAIN pieces |-> Get(u[k - 1], s, pieces[k])]
  /\ GetAll(v, s, pieces).ok => \A k \in DOMAIN pieces : Readable(u[k - 1], s, pieces[k])

LEMMA SeenIs ==
  ASSUME NEW v, NEW s, NEW pieces, NEW n \in Nat, Len(pieces) = n
  PROVE  \E u : GetsOn(u, v, s, pieces, n)
<1> DEFINE Walks(u, m) == u = [k \in 0 .. m |-> IF k = 0 THEN v ELSE Skip(u[k - 1], s, pieces[k])]
           S == {m \in Nat : \E u : Walks(u, m)}
<1>1. 0 \in S
  <2> DEFINE u == [k \in 0 .. 0 |-> v]
  <2>1. Walks(u, 0)
    OBVIOUS
  <2> QED
    BY <2>1
<1>2. ASSUME NEW m \in S PROVE m + 1 \in S
  <2>1. m \in Nat
    OBVIOUS
  <2>2. PICK u : Walks(u, m)
    OBVIOUS
  <2>a. PICK x : x = Skip(u[m], s, pieces[m + 1])
    OBVIOUS
  <2>3. PICK g : IsLonger(g, u, m, x)
    BY <2>1, Longer
  <2>4. ASSUME NEW k \in 0 .. m + 1
        PROVE  g[k] = IF k = 0 THEN v ELSE Skip(g[k - 1], s, pieces[k])
    <3>1. CASE k = m + 1
      <4>1. k # 0 /\ k - 1 = m /\ m \in 0 .. m
        BY <2>1, <3>1
      <4> QED
        BY <2>3, <2>a, <3>1, <4>1 DEF IsLonger
    <3>2. CASE k \in 0 .. m
      <4>1. k # 0 => k - 1 \in 0 .. m
        BY <2>1, <3>2
      <4> QED
        BY <2>2, <2>3, <3>2, <4>1 DEF IsLonger
    <3> QED
      BY <2>1, <3>1, <3>2
  <2>5. Walks(g, m + 1)
    <3> DEFINE w == [k \in 0 .. m + 1 |-> IF k = 0 THEN v ELSE Skip(g[k - 1], s, pieces[k])]
    <3>1. w = [k \in 0 .. m + 1 |-> w[k]] /\ \A k \in 0 .. m + 1 : g[k] = w[k]
      BY <2>4
    <3> HIDE DEF w
    <3>2. g = w
      BY <2>3, <3>1 DEF IsLonger
    <3> QED
      BY <3>2 DEF w
  <2> HIDE DEF Walks
  <2> QED
    BY <2>1, <2>5
<1>3. S \in SUBSET Nat
  OBVIOUS
<1> HIDE DEF S
<1>4. n \in S
  BY <1>1, <1>2, <1>3, Induct
<1>5. \E u : IsSeen(u, v, s, pieces)
  BY <1>4 DEF S, IsSeen
<1> DEFINE Both(u) == [got |-> [k \in DOMAIN pieces |-> Get(u[k - 1], s, pieces[k])],
                       v   |-> u[Len(pieces)],
                       ok  |-> \A k \in DOMAIN pieces : Readable(u[k - 1], s, pieces[k])]
<1>6. GetAll(v, s, pieces) = Both(CHOOSE u : IsSeen(u, v, s, pieces))
  BY Zenon DEF GetAll, IsSeen
<1> HIDE DEF S, Walks
<1>7. PICK w : IsSeen(w, v, s, pieces) /\ GetAll(v, s, pieces) = Both(w)
  BY <1>5, <1>6
<1>8. w = [k \in 0 .. n |-> IF k = 0 THEN v ELSE Skip(w[k - 1], s, pieces[k])]
  BY <1>7 DEF IsSeen
<1>9. 0 \in 0 .. n /\ \A k \in 1 .. n : k \in 0 .. n /\ k # 0
  OBVIOUS
<1>a. w[0] = v /\ \A k \in 1 .. n : w[k] = Skip(w[k - 1], s, pieces[k])
  BY <1>8, <1>9
<1>b. /\ GetAll(v, s, pieces).v = w[n]
      /\ GetAll(v, s, pieces).got = [k \in DOMAIN pieces |-> Get(w[k - 1], s, pieces[k])]
      /\ GetAll(v, s, pieces).ok => \A k \in DOMAIN pieces : Readable(w[k - 1], s, pieces[k])
  BY <1>7
<1> QED
  BY <1>a, <1>b DEF GetsOn

\* What does not sink from one step to the next does not sink.
LEMMA SumsGrow ==
  ASSUME NEW n \in Nat, NEW sum, \A k \in 0 .. n : sum[k] \in Nat,
         \A k \in 1 .. n : sum[k - 1] <= sum[k]
  PROVE  \A i, k \in 0 .. n : i <= k => sum[i] <= sum[k]
<1> SUFFICES ASSUME NEW i \in 0 .. n PROVE \A k \in 0 .. n : i <= k => sum[i] <= sum[k]
  OBVIOUS
<1> DEFINE S == {e \in Nat : i + e <= n => sum[i] <= sum[i + e]}
<1>1. 0 \in S
  <2>1. i + 0 = i /\ sum[i] \in Nat
    OBVIOUS
  <2> QED
    BY <2>1
<1>2. ASSUME NEW e \in S PROVE e + 1 \in S
  <2>1. e \in Nat
    OBVIOUS
  <2> SUFFICES ASSUME i + (e + 1) <= n PROVE sum[i] <= sum[i + (e + 1)]
    BY <2>1
  <2>2. /\ i + e <= n /\ i + e \in 0 .. n /\ i + (e + 1) \in 0 .. n
        /\ i + (e + 1) \in 1 .. n /\ i + (e + 1) - 1 = i + e
    BY <2>1
  <2>3. sum[i] \in Nat /\ sum[i + e] \in Nat /\ sum[i + (e + 1)] \in Nat
    BY <2>2
  <2>4. sum[i + e] <= sum[i + (e + 1)]
    BY <2>2
  <2>5. sum[i] <= sum[i + e]
    BY <2>2
  <2> QED
    BY <2>3, <2>4, <2>5
<1>3. S \in SUBSET Nat
  OBVIOUS
<1> HIDE DEF S
<1>4. S = Nat
  BY <1>1, <1>2, <1>3, Induct
<1> SUFFICES ASSUME NEW k \in 0 .. n, i <= k PROVE sum[i] <= sum[k]
  OBVIOUS
<1>5. k - i \in Nat /\ i + (k - i) = k /\ i + (k - i) <= n
  OBVIOUS
<1> QED
  BY <1>4, <1>5 DEF S

\* A field that fits is put behind what is there, which stays.
LEMMA PutBehind ==
  ASSUME NEW m, NEW d, NEW p \in Nat, NEW n \in Nat, p > 0, p + n <= Size,
         NEW words, Len(words) = n, DOMAIN words = 1 .. n,
         NEW w, w = Put([mem |-> m, ds |-> d, st |-> Writing(p)], words)
  PROVE  /\ w = [mem |-> w.mem, ds |-> d, st |-> Writing(p + n)]
         /\ \A j \in 1 .. n : w.mem[p + j - 1] = words[j]
         /\ \A x \in 1 .. p - 1 : w.mem[x] = m[x]
<1> DEFINE v == [mem |-> m, ds |-> d, st |-> Writing(p)]
           all == [i \in 1 .. Size - 1 |-> IF i - p + 1 \in DOMAIN words
                                           THEN words[i - p + 1] ELSE m[i]]
<1>1. Put(v, words) = [mem |-> all, ds |-> d, st |-> Writing(p + n)]
  <2>1. v.st.mode = "write" /\ v.st.wp = p
    BY DEF Writing
  <2>2. ~(p + n > Size)
    BY CrossAssumption
  <2>3. Put(v, words) = [[v EXCEPT !.mem = all] EXCEPT !.st.wp = p + n]
    BY <2>1, <2>2 DEF Put
  <2> HIDE DEF all
  <2>4. [v EXCEPT !.mem = all] = [mem |-> all, ds |-> d, st |-> Writing(p)]
    OBVIOUS
  <2> QED
    BY <2>3, <2>4 DEF Writing
<1>2. Size \in Nat
  BY CrossAssumption
<1>3. ASSUME NEW j \in 1 .. n PROVE all[p + j - 1] = words[j]
  <2>1. p + j - 1 \in 1 .. Size - 1 /\ p + j - 1 - p + 1 = j
    BY <1>2
  <2> QED
    BY <2>1
<1>4. ASSUME NEW x \in 1 .. p - 1 PROVE all[x] = m[x]
  <2>1. x \in 1 .. Size - 1 /\ x - p + 1 \notin 1 .. n
    BY <1>2
  <2> QED
    BY <2>1
<1> HIDE DEF all
<1> QED
  BY <1>1, <1>3, <1>4

\* What a call writes, field by field.
LEMMA FieldsAre ==
  ASSUME NEW pieces, Formed(pieces), NEW tag, NEW c, NEW fields,
         fields = Fields(tag, c, pieces), NEW n, n = Len(pieces)
  PROVE  /\ n \in Nat /\ DOMAIN pieces = 1 .. n /\ Len(fields) = n /\ DOMAIN fields = 1 .. n
         /\ \A k \in 1 .. n : /\ pieces[k].words \in Nat
                              /\ Len(fields[k]) = pieces[k].words
                              /\ DOMAIN fields[k] = 1 .. pieces[k].words
                              /\ fields[k] = [j \in 1 .. pieces[k].words |-> fields[k][j]]
<1>1. n \in Nat /\ DOMAIN pieces = 1 .. n /\ \A k \in 1 .. n : pieces[k].words \in Nat
  <2>1. pieces \in Seq(Piece)
    BY DEF Formed
  <2>2. n \in Nat /\ DOMAIN pieces = 1 .. n /\ \A k \in 1 .. n : pieces[k] \in Piece
    BY <2>1
  <2> QED
    BY <2>2 DEF Piece
<1>2. fields = [i \in 1 .. n |-> [j \in 1 .. pieces[i].words |-> <<tag, c, i, j>>]]
  BY <1>1 DEF Fields
<1>3. Len(fields) = n /\ DOMAIN fields = 1 .. n
  BY <1>1, <1>2
<1>4. ASSUME NEW k \in 1 .. n
      PROVE  /\ Len(fields[k]) = pieces[k].words
             /\ DOMAIN fields[k] = 1 .. pieces[k].words
             /\ fields[k] = [j \in 1 .. pieces[k].words |-> fields[k][j]]
  <2>1. PICK z : z = pieces[k].words
    OBVIOUS
  <2>2. fields[k] = [j \in 1 .. z |-> <<tag, c, k, j>>] /\ z \in Nat
    BY <1>1, <1>2, <2>1
  <2> QED
    BY <2>1, <2>2
<1> QED
  BY <1>1, <1>3, <1>4

\* The sums of the words of the fields.
Summed(sum, fields, n) ==
  /\ sum[0] = 0
  /\ \A k \in 0 .. n : sum[k] \in Nat
  /\ \A k \in 1 .. n : /\ sum[k] = sum[k - 1] + Len(fields[k])
                       /\ Len(fields[k]) \in Nat
  /\ \A i, k \in 0 .. n : i <= k => sum[i] <= sum[k]

LEMMA SumsAre ==
  ASSUME NEW fields, NEW n \in Nat, Len(fields) = n,
         \A k \in 1 .. n : Len(fields[k]) \in Nat
  PROVE  Summed(WordsOf(fields), fields, n)
<1>0. PICK sum : sum = WordsOf(fields)
  OBVIOUS
<1>1. /\ sum[0] = 0
      /\ \A k \in 1 .. n : sum[k] = sum[k - 1] + Len(fields[k])
  BY <1>0, SumIs
<1>2. \A k \in 0 .. n : sum[k] \in Nat
  <2> DEFINE S == {k \in Nat : k <= n => sum[k] \in Nat}
  <2>1. 0 \in S
    BY <1>1
  <2>2. ASSUME NEW k \in S PROVE k + 1 \in S
    <3>1. k \in Nat /\ (k + 1 <= n => k + 1 \in 1 .. n /\ k + 1 - 1 = k /\ k <= n)
      OBVIOUS
    <3>2. k + 1 <= n => sum[k + 1] = sum[k] + Len(fields[k + 1]) /\ Len(fields[k + 1]) \in Nat
      BY <1>1, <3>1
    <3> QED
      BY <3>1, <3>2
  <2>3. S \in SUBSET Nat
    OBVIOUS
  <2> HIDE DEF S
  <2>4. S = Nat
    BY <2>1, <2>2, <2>3, Induct
  <2> QED
    BY <2>4 DEF S
<1>3. \A i, k \in 0 .. n : i <= k => sum[i] <= sum[k]
  <2>1. ASSUME NEW k \in 1 .. n PROVE sum[k - 1] <= sum[k]
    <3>1. k - 1 \in 0 .. n /\ k \in 0 .. n
      OBVIOUS
    <3>2. sum[k - 1] \in Nat /\ sum[k] = sum[k - 1] + Len(fields[k]) /\ Len(fields[k]) \in Nat
      BY <1>1, <1>2, <3>1
    <3> QED
      BY <3>2
  <2> QED
    BY <1>2, <2>1, SumsGrow
<1> QED
  BY <1>0, <1>1, <1>2, <1>3 DEF Summed

\* A field that does not fit leaves everything as it is.
LEMMA PutNothing ==
  ASSUME NEW m, NEW d, NEW p, NEW words, p + Len(words) > Size
  PROVE  Put([mem |-> m, ds |-> d, st |-> Writing(p)], words)
           = [mem |-> m, ds |-> d, st |-> Writing(p)]
BY DEF Put, Writing

\* After k fields: those that fit stand one behind the other, the i-th from its
\* sum on; from the first that does not fit on, only what is behind those before
\* it may have been written.
Wrote(x, d, fields, sum, k) ==
  \E p \in Nat \ {0} :
    /\ x = [mem |-> x.mem, ds |-> d, st |-> Writing(p)]
    /\ \A i \in 0 .. k : 1 + sum[i] <= Size => 1 + sum[i] <= p
    /\ 1 + sum[k] <= Size => p = 1 + sum[k]
    /\ \A i \in 1 .. k : 1 + sum[i] <= Size =>
         \A j \in 1 .. Len(fields[i]) : x.mem[sum[i - 1] + j] = fields[i][j]

LEMMA PutNext ==
  ASSUME NEW d, NEW fields, NEW sum, NEW n \in Nat, Summed(sum, fields, n),
         NEW k \in 0 .. n - 1, DOMAIN fields[k + 1] = 1 .. Len(fields[k + 1]),
         NEW x, Wrote(x, d, fields, sum, k),
         NEW y, y = Put(x, fields[k + 1])
  PROVE  Wrote(y, d, fields, sum, k + 1)
<1>0. Size \in Nat
  BY CrossAssumption
<1>1. PICK p \in Nat \ {0} :
        /\ x = [mem |-> x.mem, ds |-> d, st |-> Writing(p)]
        /\ \A i \in 0 .. k : 1 + sum[i] <= Size => 1 + sum[i] <= p
        /\ 1 + sum[k] <= Size => p = 1 + sum[k]
        /\ \A i \in 1 .. k : 1 + sum[i] <= Size =>
             \A j \in 1 .. Len(fields[i]) : x.mem[sum[i - 1] + j] = fields[i][j]
  BY DEF Wrote
<1>2. PICK words : words = fields[k + 1]
  OBVIOUS
<1>3. PICK l : l = Len(words)
  OBVIOUS
<1>4. PICK a : a = sum[k]
  OBVIOUS
<1>5. PICK b : b = sum[k + 1]
  OBVIOUS
<1>6. /\ k \in Nat /\ k + 1 \in 1 .. n /\ k + 1 - 1 = k /\ k \in 0 .. n /\ k + 1 \in 0 .. n
      /\ \A i \in 0 .. k + 1 : i \in 0 .. k \/ i = k + 1
      /\ \A i \in 1 .. k + 1 : i \in 1 .. k \/ i = k + 1
  OBVIOUS
<1>7. l \in Nat /\ a \in Nat /\ b = a + l /\ DOMAIN words = 1 .. l
  BY <1>2, <1>3, <1>4, <1>5, <1>6 DEF Summed
<1>8. y = Put([mem |-> x.mem, ds |-> d, st |-> Writing(p)], words)
  BY <1>1, <1>2
<1>9. CASE p + l > Size
  <2>1. y = x
    BY <1>1, <1>3, <1>8, <1>9, PutNothing
  <2>2. ~(1 + b <= Size)
    BY <1>0, <1>1, <1>4, <1>7, <1>9
  <2>3. \A i \in 0 .. k + 1 : 1 + sum[i] <= Size => 1 + sum[i] <= p
    BY <1>1, <1>5, <1>6, <2>2
  <2>4. \A i \in 1 .. k + 1 : 1 + sum[i] <= Size =>
          \A j \in 1 .. Len(fields[i]) : y.mem[sum[i - 1] + j] = fields[i][j]
    BY <1>1, <1>5, <1>6, <2>1, <2>2
  <2>5. y = [mem |-> y.mem, ds |-> d, st |-> Writing(p)]
    BY <1>1, <2>1
  <2> QED
    BY <1>5, <2>2, <2>3, <2>4, <2>5 DEF Wrote
<1>a. CASE p + l <= Size
  <2>1. /\ y = [mem |-> y.mem, ds |-> d, st |-> Writing(p + l)]
        /\ \A j \in 1 .. l : y.mem[p + j - 1] = words[j]
        /\ \A z \in 1 .. p - 1 : y.mem[z] = x.mem[z]
    BY <1>3, <1>7, <1>8, <1>a, PutBehind
  <2>2. p + l \in Nat \ {0} /\ p <= p + l
    BY <1>7
  <2>3. 1 + b <= Size => p = 1 + a /\ p + l = 1 + b
    <3> SUFFICES ASSUME 1 + b <= Size PROVE p = 1 + a /\ p + l = 1 + b
      OBVIOUS
    <3>1. 1 + a <= Size
      BY <1>0, <1>7
    <3>2. p = 1 + a
      BY <1>1, <1>4, <3>1
    <3> QED
      BY <1>7, <3>2
  <2>4. ASSUME NEW i \in 0 .. k + 1, 1 + sum[i] <= Size PROVE 1 + sum[i] <= p + l
    <3>1. CASE i = k + 1
      <4>1. sum[i] = b
        BY <1>5, <3>1
      <4> QED
        BY <2>2, <2>3, <2>4, <4>1
    <3>2. CASE i \in 0 .. k
      <4>1. sum[i] \in Nat /\ 1 + sum[i] <= p
        BY <1>1, <2>4, <3>2 DEF Summed
      <4> QED
        BY <1>7, <2>2, <4>1
    <3> QED
      BY <1>6, <3>1, <3>2
  <2>5. ASSUME NEW i \in 1 .. k + 1, 1 + sum[i] <= Size, NEW j \in 1 .. Len(fields[i])
        PROVE  y.mem[sum[i - 1] + j] = fields[i][j]
    <3>1. CASE i = k + 1
      <4>1. i - 1 = k /\ j \in 1 .. l /\ p = 1 + a
        BY <1>2, <1>3, <1>5, <1>6, <2>3, <2>5, <3>1
      <4>2. sum[i - 1] + j = p + j - 1
        BY <1>4, <1>7, <4>1
      <4> QED
        BY <1>2, <2>1, <3>1, <4>1, <4>2
    <3>2. CASE i \in 1 .. k
      <4>1. i \in 1 .. n /\ i - 1 \in 0 .. n /\ i \in 0 .. k
        BY <1>6, <3>2
      <4>2. x.mem[sum[i - 1] + j] = fields[i][j]
        BY <1>1, <2>5, <3>2
      <4>3. PICK e : e = sum[i - 1]
        OBVIOUS
      <4>4. PICK z : z = Len(fields[i])
        OBVIOUS
      <4>5. e \in Nat /\ z \in Nat /\ sum[i] = e + z
        BY <4>1, <4>3, <4>4 DEF Summed
      <4>6. 1 + (e + z) <= p
        BY <1>1, <2>5, <4>1, <4>5
      <4>7. j \in 1 .. z
        BY <4>4
      <4>8. e + j \in 1 .. p - 1
        BY <4>5, <4>6, <4>7
      <4> QED
        BY <2>1, <4>2, <4>3, <4>8
    <3> QED
      BY <1>6, <3>1, <3>2
  <2>6. 1 + sum[k + 1] <= Size => p + l = 1 + sum[k + 1]
    BY <1>5, <2>3
  <2> QED
    BY <2>1, <2>2, <2>4, <2>5, <2>6 DEF Wrote
<1> QED
  BY <1>0, <1>7, <1>9, <1>a

LEMMA PutsAll ==
  ASSUME NEW fields, NEW n \in Nat, Len(fields) = n,
         \A k \in 1 .. n : DOMAIN fields[k] = 1 .. Len(fields[k]),
         NEW sum, Summed(sum, fields, n), NEW m, NEW d
  PROVE  Wrote(PutAll([mem |-> m, ds |-> d, st |-> Writing(1)], fields), d, fields, sum, n)
<1> DEFINE v == [mem |-> m, ds |-> d, st |-> Writing(1)]
<1>1. PICK u : PutsOn(u, v, fields, n)
  BY PutIs
<1>2. /\ PutAll(v, fields) = u[n] /\ u[0] = v
      /\ \A k \in 1 .. n : u[k] = Put(u[k - 1], fields[k])
  BY <1>1 DEF PutsOn
<1> DEFINE S == {k \in Nat : k <= n => Wrote(u[k], d, fields, sum, k)}
<1>3. 0 \in S
  <2>1. 1 + sum[0] = 1 /\ (\A i \in 1 .. 0 : FALSE) /\ \A i \in 0 .. 0 : i = 0
    BY DEF Summed
  <2>2. u[0] = [mem |-> u[0].mem, ds |-> d, st |-> Writing(1)]
    BY <1>2
  <2>3. Wrote(u[0], d, fields, sum, 0)
    BY <2>1, <2>2 DEF Wrote
  <2> QED
    BY <2>3
<1>4. ASSUME NEW k \in S PROVE k + 1 \in S
  <2>1. k \in Nat
    OBVIOUS
  <2> SUFFICES ASSUME k + 1 <= n PROVE Wrote(u[k + 1], d, fields, sum, k + 1)
    BY <2>1
  <2>2. k \in 0 .. n - 1 /\ k + 1 \in 1 .. n /\ k + 1 - 1 = k /\ k <= n
    BY <2>1
  <2>3. Wrote(u[k], d, fields, sum, k)
    BY <2>2
  <2>4. u[k + 1] = Put(u[k], fields[k + 1]) /\ DOMAIN fields[k + 1] = 1 .. Len(fields[k + 1])
    BY <1>2, <2>2
  <2> HIDE DEF S
  <2> QED
    BY <2>2, <2>3, <2>4, PutNext
<1>5. S \in SUBSET Nat
  OBVIOUS
<1> HIDE DEF S
<1>6. S = Nat
  BY <1>3, <1>4, <1>5, Induct
<1>7. n \in S /\ n <= n
  BY <1>6
<1>8. Wrote(u[n], d, fields, sum, n)
  BY <1>7 DEF S
<1> QED
  BY <1>2, <1>8

Reading(rp) == [mode |-> "read", rp |-> rp, wp |-> Size]
Reader(m, d, rp) == [mem |-> m, ds |-> d, st |-> Reading(rp)]

LEMMA ReaderIs ==
  ASSUME NEW m, NEW d, NEW p
  PROVE  /\ Reader(m, d, p).st.mode = "read" /\ Reader(m, d, p).st.rp = p
         /\ Reader(m, d, p).ds = d /\ Reader(m, d, p).mem = m
         /\ \A q : [Reader(m, d, p) EXCEPT !.st.rp = q] = Reader(m, d, q)
BY DEF Reader, Reading

\* n words from word p on.
Cut(m, p, n) == [j \in 1 .. n |-> m[p + j - 1]]

\* Either side reads a piece that ends before the end of what it may read.
LEMMA SkipReads ==
  ASSUME NEW m, NEW d \in Nat, NEW p \in Nat, NEW x, NEW n \in Nat, x.words = n,
         p + n <= Size, NEW s, s # "cpp" \/ p + n <= d
  PROVE  /\ Skip(Reader(m, d, p), s, x) = Reader(m, d, p + n)
         /\ \/ Get(Reader(m, d, p), s, x) = Cut(m, p, n)
            \/ s = "cpp" /\ x.kind = "nul"
<1>1. PICK v : v = Reader(m, d, p)
  OBVIOUS
<1>2. /\ v.st.mode = "read" /\ v.st.rp = p /\ v.ds = d /\ v.mem = m
      /\ \A q : [v EXCEPT !.st.rp = q] = Reader(m, d, q)
  BY <1>1, ReaderIs
<1>3. Reach(v, s, x) = n
  BY <1>2, CrossAssumption DEF Reach
<1>4. Readable(v, s, x)
  BY <1>2, <1>3, CrossAssumption DEF Readable
<1>5. Skip(v, s, x) = [v EXCEPT !.st.rp = p + n]
  BY <1>2, <1>3, <1>4 DEF Skip
<1>6. Skip(v, s, x) = Reader(m, d, p + n)
  BY <1>2, <1>5
<1>7. Get(v, s, x) = Cut(m, p, n) \/ (s = "cpp" /\ x.kind = "nul")
  <2>1. CASE s = "cpp" /\ x.kind = "nul"
    BY <2>1
  <2>2. CASE ~(s = "cpp" /\ x.kind = "nul")
    <3>1. Get(v, s, x) = [j \in 1 .. n |-> v.mem[v.st.rp + j - 1]]
      BY <1>3, <1>4, <2>2 DEF Get
    <3>2. [j \in 1 .. n |-> v.mem[v.st.rp + j - 1]] = [j \in 1 .. n |-> m[p + j - 1]]
      BY <1>2
    <3> QED
      BY <3>1, <3>2 DEF Cut
  <2> QED
    BY <2>1, <2>2
<1> QED
  BY <1>1, <1>6, <1>7

\* On the C# side a number that does not fit ends the program, and a text takes
\* the rest of the buffer.
LEMMA ShortRead ==
  ASSUME NEW m, NEW d, NEW p \in Nat, NEW x, NEW n \in Nat, x.words = n, p + n > Size,
         Readable(Reader(m, d, p), "cs", x)
  PROVE  x.kind # "plain" /\ Skip(Reader(m, d, p), "cs", x) = Reader(m, d, Size)
<1>1. PICK v : v = Reader(m, d, p)
  OBVIOUS
<1>2. /\ v.st.mode = "read" /\ v.st.rp = p
      /\ \A q : [v EXCEPT !.st.rp = q] = Reader(m, d, q)
  BY <1>1, ReaderIs
<1>3. x.kind # "plain"
  <2> SUFFICES ASSUME x.kind = "plain" PROVE FALSE
    OBVIOUS
  <2>1. Reach(v, "cs", x) = n
    BY DEF Reach
  <2>2. v.st.rp + Reach(v, "cs", x) <= Size
    BY <1>1 DEF Readable
  <2> QED
    BY <1>2, <2>1, <2>2, CrossAssumption
<1>4. Reach(v, "cs", x) = Size - p
  BY <1>2, <1>3 DEF Reach
<1>5. Skip(v, "cs", x) = [v EXCEPT !.st.rp = p + (Size - p)]
  BY <1>1, <1>2, <1>4 DEF Skip
<1>6. p + (Size - p) = Size
  BY CrossAssumption
<1> QED
  BY <1>1, <1>2, <1>3, <1>5, <1>6

\* The pieces have as many words as the fields, and the end of the data, by which
\* a C++ reader stops, is not before that of the fields.
Sized(pieces, fields, n) == \A k \in 1 .. n : pieces[k].words = Len(fields[k])
Within(s, sum, n, d) == s = "cpp" => \A k \in 0 .. n : 1 + sum[k] <= d

\* What is left of a reader that has the first k pieces, all of which fit.
LEMMA GetsFitting ==
  ASSUME NEW n \in Nat, NEW pieces, Len(pieces) = n, DOMAIN pieces = 1 .. n,
         NEW fields, NEW sum, Summed(sum, fields, n),
         Sized(pieces, fields, n),
         NEW m, NEW d \in Nat, NEW s, Within(s, sum, n, d),
         NEW u, GetsOn(u, Reader(m, d, 1), s, pieces, n)
  PROVE  /\ \A k \in 0 .. n : 1 + sum[k] <= Size => u[k] = Reader(m, d, 1 + sum[k])
         /\ \A k \in 1 .. n : 1 + sum[k] <= Size =>
              \/ Get(u[k - 1], s, pieces[k]) = Cut(m, 1 + sum[k - 1], Len(fields[k]))
              \/ s = "cpp" /\ pieces[k].kind = "nul"
<1>0. Size \in Nat
  BY CrossAssumption
<1>1. u[0] = Reader(m, d, 1) /\ \A k \in 1 .. n : u[k] = Skip(u[k - 1], s, pieces[k])
  BY DEF GetsOn
<1> DEFINE At(k) == 1 + sum[k] <= Size => u[k] = Reader(m, d, 1 + sum[k])
           Reads(k) == 1 + sum[k] <= Size =>
                         \/ Get(u[k - 1], s, pieces[k]) = Cut(m, 1 + sum[k - 1], Len(fields[k]))
                         \/ s = "cpp" /\ pieces[k].kind = "nul"
           S == {k \in Nat : k <= n => At(k)}
<1>2. At(0)
  BY <1>1 DEF Summed
<1>3. ASSUME NEW k \in 1 .. n, At(k - 1) PROVE At(k) /\ Reads(k)
  <2> SUFFICES ASSUME 1 + sum[k] <= Size
               PROVE  /\ u[k] = Reader(m, d, 1 + sum[k])
                      /\ \/ Get(u[k - 1], s, pieces[k]) = Cut(m, 1 + sum[k - 1], Len(fields[k]))
                         \/ s = "cpp" /\ pieces[k].kind = "nul"
    OBVIOUS
  <2>1. k - 1 \in 0 .. n /\ k \in 0 .. n
    OBVIOUS
  <2>2. PICK p : p = 1 + sum[k - 1]
    OBVIOUS
  <2>3. PICK z : z = Len(fields[k])
    OBVIOUS
  <2>4. PICK x : x = pieces[k]
    OBVIOUS
  <2>5. p \in Nat /\ z \in Nat /\ 1 + sum[k] = p + z /\ x.words = z
    <3>1. PICK a : a = sum[k - 1]
      OBVIOUS
    <3>2. a \in Nat /\ z \in Nat /\ sum[k] = a + z
      BY <2>1, <2>3, <3>1 DEF Summed
    <3>3. p = 1 + a
      BY <2>2, <3>1
    <3>4. p \in Nat /\ 1 + (a + z) = p + z
      BY <3>2, <3>3
    <3> QED
      BY <2>3, <2>4, <3>2, <3>4 DEF Sized
  <2>6. p + z <= Size /\ (s # "cpp" \/ p + z <= d)
    BY <2>1, <2>5 DEF Within
  <2>7. u[k - 1] = Reader(m, d, p)
    <3>1. p <= Size
      BY <1>0, <2>5, <2>6
    <3> QED
      BY <1>3, <2>2, <3>1
  <2>8. /\ Skip(Reader(m, d, p), s, x) = Reader(m, d, p + z)
        /\ \/ Get(Reader(m, d, p), s, x) = Cut(m, p, z)
           \/ s = "cpp" /\ x.kind = "nul"
    <3>1. d \in Nat /\ p \in Nat /\ z \in Nat /\ x.words = z
      BY <2>5
    <3> QED
      BY ONLY <2>6, <3>1, SkipReads
  <2>9. u[k] = Skip(u[k - 1], s, pieces[k])
    BY <1>1
  <2> QED
    BY <2>2, <2>3, <2>4, <2>5, <2>7, <2>8, <2>9
<1> HIDE DEF At, Reads
<1>4. ASSUME NEW k \in S PROVE k + 1 \in S
  <2>1. k \in Nat
    OBVIOUS
  <2>2. k + 1 <= n => k + 1 \in 1 .. n /\ k + 1 - 1 = k /\ k <= n
    BY <2>1
  <2>3. k + 1 <= n => At(k + 1)
    BY <1>3, <2>2
  <2> QED
    BY <2>1, <2>3
<1>5. S \in SUBSET Nat /\ 0 \in S
  BY <1>2
<1> HIDE DEF S
<1>6. S = Nat
  BY <1>4, <1>5, Induct
<1>7. \A k \in 0 .. n : At(k)
  <2>1. \A k \in 0 .. n : k \in Nat /\ k <= n
    OBVIOUS
  <2> QED
    BY <1>6, <2>1 DEF S
<1>8. \A k \in 1 .. n : Reads(k)
  <2> SUFFICES ASSUME NEW k \in 1 .. n PROVE Reads(k)
    OBVIOUS
  <2>1. k - 1 \in 0 .. n
    OBVIOUS
  <2> QED
    BY <1>3, <1>7, <2>1
<1> QED
  BY <1>7, <1>8 DEF At, Reads

\* One of the pieces up to one that does not fit is the first that does not.
LEMMA FirstShort ==
  ASSUME NEW n \in Nat, NEW fields, NEW sum, Summed(sum, fields, n),
         NEW i \in 1 .. n, ~(1 + sum[i] <= Size)
  PROVE  \E q \in 1 .. i : 1 + sum[q - 1] <= Size /\ ~(1 + sum[q] <= Size)
<1> DEFINE S == {k \in Nat : k <= i => 1 + sum[k] <= Size}
<1> SUFFICES ASSUME \A q \in 1 .. i : 1 + sum[q - 1] <= Size => 1 + sum[q] <= Size
             PROVE  FALSE
  OBVIOUS
<1>1. 0 \in S
  BY CrossAssumption DEF Summed
<1>2. ASSUME NEW k \in S PROVE k + 1 \in S
  <2>1. k \in Nat /\ (k + 1 <= i => k + 1 \in 1 .. i /\ k + 1 - 1 = k /\ k <= i)
    OBVIOUS
  <2> QED
    BY <2>1
<1>3. S \in SUBSET Nat
  OBVIOUS
<1> HIDE DEF S
<1>4. S = Nat
  BY <1>1, <1>2, <1>3, Induct
<1>5. i \in S /\ i <= i
  BY <1>4
<1> QED
  BY <1>5 DEF S

\* A C# reader that goes on to the end.
GoesThrough(u, pieces, n) ==
  \A k \in 1 .. n : /\ u[k] = Skip(u[k - 1], "cs", pieces[k])
                    /\ Readable(u[k - 1], "cs", pieces[k])

\* It has the first q - 1 pieces.
Stands(u, sum, q) == \E m, d : u[q - 1] = Reader(m, d, 1 + sum[q - 1])

\* A C# reader that goes on found the first piece that does not fit to be a text
\* behind which nothing comes.
LEMMA ShortIsLast ==
  ASSUME NEW pieces, Formed(pieces), NEW n, n = Len(pieces),
         NEW fields, NEW sum, Summed(sum, fields, n),
         Sized(pieces, fields, n),
         NEW q \in 1 .. n, ~(1 + sum[q] <= Size), NEW u, Stands(u, sum, q),
         GoesThrough(u, pieces, n)
  PROVE  q = n /\ pieces[q].kind # "plain"
<1>0. n \in Nat /\ DOMAIN pieces = 1 .. n
  BY DEF Formed
<1>1. PICK m, d, p : p = 1 + sum[q - 1] /\ u[q - 1] = Reader(m, d, p)
  BY DEF Stands
<1>2. PICK z : z = pieces[q].words
  OBVIOUS
<1>3. p \in Nat /\ z \in Nat /\ p + z > Size
  <2>1. PICK a : a = sum[q - 1]
    OBVIOUS
  <2>2. q - 1 \in 0 .. n
    BY <1>0
  <2>3. a \in Nat /\ z \in Nat /\ sum[q] = a + z
    BY <1>2, <2>1, <2>2 DEF Summed, Sized
  <2>4. ~(1 + (a + z) <= Size) /\ p = 1 + a
    BY <1>1, <2>1, <2>3
  <2> QED
    BY <2>3, <2>4, CrossAssumption
<1>4. pieces[q].kind # "plain" /\ u[q] = Reader(m, d, Size)
  <2>1. PICK x : x = pieces[q]
    OBVIOUS
  <2>2. Readable(Reader(m, d, p), "cs", x) /\ u[q] = Skip(Reader(m, d, p), "cs", x)
    BY <1>1, <2>1 DEF GoesThrough
  <2>3. x.words = z
    BY <1>2, <2>1
  <2>4. x.kind # "plain" /\ Skip(Reader(m, d, p), "cs", x) = Reader(m, d, Size)
    BY <1>3, <2>2, <2>3, ShortRead
  <2> QED
    BY <2>1, <2>2, <2>4
<1>5. CASE q # n
  <2>1. q + 1 \in 1 .. n /\ q + 1 - 1 = q /\ q + 1 \in DOMAIN pieces
    BY <1>0, <1>5
  <2>2. PICK x : x = pieces[q + 1]
    OBVIOUS
  <2>3. x.kind = "plain" /\ x.words > 0
    BY <1>4, <2>1, <2>2 DEF Formed
  <2>4. x.words \in Nat
    <3>1. x.words = Len(fields[q + 1])
      BY <2>1, <2>2 DEF Sized
    <3> QED
      BY <2>1, <3>1 DEF Summed
  <2>5. Readable(Reader(m, d, Size), "cs", x)
    BY <1>4, <2>1, <2>2 DEF GoesThrough
  <2>6. Size \in Nat /\ Size + x.words > Size
    BY <2>3, <2>4, CrossAssumption
  <2>7. x.kind # "plain"
    BY <2>4, <2>5, <2>6, ShortRead
  <2> QED
    BY <2>3, <2>7
<1> QED
  BY <1>4, <1>5

\* What one side sends and the other goes on with came, whatever was in the buffer.
LEMMA Transfer ==
  ASSUME NEW s \in Sides, NEW o, o = Other(s),
         NEW pieces, Formed(pieces), NEW tag, NEW c,
         NEW fields, fields = Fields(tag, c, pieces),
         NEW mm, NEW dd, NEW st,
         NEW sent, sent = Endup(PutAll([mem |-> mm, ds |-> dd, st |-> Writing(1)], fields), s),
         NEW read, read = GetAll(StartRead([mem |-> sent.mem, ds |-> sent.ds, st |-> st]),
                                 o, pieces),
         GoesOn(s, fields, o, read)
  PROVE  Came(read.got, fields, pieces, o)
<1>0. Size \in Nat /\ Size > 4
  BY CrossAssumption
<1>1. PICK n : n = Len(pieces)
  OBVIOUS
<1>2. /\ n \in Nat /\ DOMAIN pieces = 1 .. n /\ Len(fields) = n /\ DOMAIN fields = 1 .. n
      /\ \A k \in 1 .. n : /\ pieces[k].words \in Nat
                           /\ Len(fields[k]) = pieces[k].words
                           /\ DOMAIN fields[k] = 1 .. pieces[k].words
                           /\ fields[k] = [j \in 1 .. pieces[k].words |-> fields[k][j]]
  BY <1>1, FieldsAre
<1>3. PICK sum : sum = WordsOf(fields)
  OBVIOUS
<1>4. Summed(sum, fields, n)
  BY <1>2, <1>3, SumsAre
<1>5. PICK w : w = PutAll([mem |-> mm, ds |-> dd, st |-> Writing(1)], fields)
  OBVIOUS
<1>6. Wrote(w, dd, fields, sum, n)
  BY <1>2, <1>4, <1>5, PutsAll
<1>7. PICK d \in Nat \ {0} :
        /\ w = [mem |-> w.mem, ds |-> dd, st |-> Writing(d)]
        /\ \A i \in 0 .. n : 1 + sum[i] <= Size => 1 + sum[i] <= d
        /\ \A i \in 1 .. n : 1 + sum[i] <= Size =>
             \A j \in 1 .. Len(fields[i]) : w.mem[sum[i - 1] + j] = fields[i][j]
  BY <1>6 DEF Wrote
<1>8. sent.mem = w.mem /\ sent.ds = d
  <2> DEFINE x == Writing(d)
  <2>1. w.st = x /\ x.mode = "write" /\ x.wp = d
    BY <1>7 DEF Writing
  <2>2. w = [mem |-> w.mem, ds |-> dd, st |-> x]
    BY <1>7
  <2>3. sent = Endup(w, s)
    BY <1>5
  <2> HIDE DEF x
  <2>4. sent = [w EXCEPT !.ds = d, !.st.wp = Size]
    BY <2>1, <2>3 DEF Endup
  <2> QED
    BY <2>2, <2>4
<1>9. PICK m : m = w.mem
  OBVIOUS
<1>a. StartRead([mem |-> sent.mem, ds |-> sent.ds, st |-> st]) = Reader(m, d, 1)
  BY <1>8, <1>9 DEF StartRead, Reader, Reading
<1>b. read = GetAll(Reader(m, d, 1), o, pieces)
  BY <1>a
<1>c. PICK u : GetsOn(u, Reader(m, d, 1), o, pieces, n)
  BY <1>1, <1>2, SeenIs
<1>d. /\ \A k \in 1 .. n : u[k] = Skip(u[k - 1], o, pieces[k])
      /\ read.got = [k \in 1 .. n |-> Get(u[k - 1], o, pieces[k])]
      /\ read.ok => \A k \in 1 .. n : Readable(u[k - 1], o, pieces[k])
  BY <1>2, <1>b, <1>c DEF GetsOn
<1>e. (o = "cpp" => Fits(fields)) /\ (o = "cs" => read.ok)
  BY DEF GoesOn, Other, Sides
<1>f. Within(o, sum, n, d)
  <2> SUFFICES ASSUME o = "cpp", NEW k \in 0 .. n PROVE 1 + sum[k] <= d
    BY DEF Within
  <2>1. 1 + sum[n] <= Size
    BY <1>2, <1>3, <1>e DEF Fits
  <2>2. n \in 0 .. n /\ k <= n
    BY <1>2
  <2>3. sum[k] \in Nat /\ sum[n] \in Nat /\ sum[k] <= sum[n]
    BY <1>4, <2>2 DEF Summed
  <2>4. 1 + sum[k] <= Size
    BY <1>0, <2>1, <2>3
  <2> QED
    BY <1>7, <2>4
<1>g. /\ \A k \in 0 .. n : 1 + sum[k] <= Size => u[k] = Reader(m, d, 1 + sum[k])
      /\ \A k \in 1 .. n : 1 + sum[k] <= Size =>
           \/ Get(u[k - 1], o, pieces[k]) = Cut(m, 1 + sum[k - 1], Len(fields[k]))
           \/ o = "cpp" /\ pieces[k].kind = "nul"
  <2>1. Len(pieces) = n /\ n \in Nat /\ d \in Nat /\ DOMAIN pieces = 1 .. n
    BY <1>1, <1>2
  <2>2. Sized(pieces, fields, n)
    BY <1>2 DEF Sized
  <2> QED
    BY ONLY <1>4, <1>c, <1>f, <2>1, <2>2, GetsFitting
<1>h. ASSUME NEW k \in 1 .. n, 1 + sum[k] <= Size
      PROVE  Cut(m, 1 + sum[k - 1], Len(fields[k])) = fields[k]
  <2>1. PICK p : p = sum[k - 1]
    OBVIOUS
  <2>2. PICK z : z = pieces[k].words
    OBVIOUS
  <2>3. z \in Nat /\ Len(fields[k]) = z /\ fields[k] = [j \in 1 .. z |-> fields[k][j]]
    BY <1>2, <2>2
  <2>4. p \in Nat
    <3>1. k - 1 \in 0 .. n
      BY <1>2
    <3> QED
      BY <1>4, <2>1, <3>1 DEF Summed
  <2>5. \A j \in 1 .. z : m[p + j] = fields[k][j]
    BY <1>7, <1>9, <1>h, <2>1, <2>3
  <2>6. \A j \in 1 .. z : 1 + p + j - 1 = p + j
    BY <2>3, <2>4
  <2>7. Cut(m, 1 + p, z) = [j \in 1 .. z |-> fields[k][j]]
    BY <2>5, <2>6 DEF Cut
  <2> QED
    BY <2>1, <2>3, <2>7
<1>i. ASSUME NEW k \in 1 .. n, ~(1 + sum[k] <= Size)
      PROVE  o = "cs" /\ k = n /\ pieces[k].kind # "plain" /\ ~Fits(fields)
  <2>1. ~Fits(fields)
    <3>1. n \in 0 .. n /\ k \in 0 .. n /\ k <= n
      BY <1>2
    <3>2. sum[k] \in Nat /\ sum[n] \in Nat /\ sum[k] <= sum[n]
      BY <1>4, <3>1 DEF Summed
    <3>3. ~(1 + sum[n] <= Size)
      BY <1>0, <1>i, <3>2
    <3> QED
      BY <1>2, <1>3, <3>3 DEF Fits
  <2>2. o = "cs"
    BY <1>e, <2>1 DEF Other
  <2>3. PICK q \in 1 .. k : 1 + sum[q - 1] <= Size /\ ~(1 + sum[q] <= Size)
    BY <1>2, <1>4, <1>i, FirstShort
  <2>4. q \in 1 .. n /\ q - 1 \in 0 .. n
    BY <1>2
  <2>5. Stands(u, sum, q)
    BY <1>g, <2>3, <2>4 DEF Stands
  <2>6. GoesThrough(u, pieces, n)
    BY <1>d, <1>e, <2>2 DEF GoesThrough
  <2>7. q = n /\ pieces[q].kind # "plain"
    <3>1. Sized(pieces, fields, n)
      BY <1>2 DEF Sized
    <3> QED
      BY ONLY Formed(pieces), <1>1, <1>4, <2>3, <2>4, <2>5, <2>6, <3>1, ShortIsLast
  <2>8. k = q
    BY <1>2, <2>7
  <2> QED
    BY <2>1, <2>2, <2>7, <2>8
<1>j. ASSUME NEW k \in 1 .. n
      PROVE  \/ read.got[k] = fields[k]
             \/ o = "cs" /\ k = Len(fields) /\ pieces[k].kind # "plain" /\ ~Fits(fields)
             \/ o = "cpp" /\ pieces[k].kind = "nul"
  <2>1. read.got[k] = Get(u[k - 1], o, pieces[k])
    BY <1>d
  <2>2. CASE 1 + sum[k] <= Size
    BY <1>g, <1>h, <2>1, <2>2
  <2>3. CASE ~(1 + sum[k] <= Size)
    BY <1>2, <1>i, <2>3
  <2> QED
    BY <2>2, <2>3
<1>k. DOMAIN read.got = DOMAIN fields /\ DOMAIN fields = 1 .. n
  BY <1>2, <1>d
<1> QED
  BY <1>j, <1>k DEF Came

-----------------------------------------------------------------------------
(* Calls and returns.                                                      *)

\* The calls in progress are calls of messages.
StackInv ==
  /\ stack \in Seq(ToSet(stack))
  /\ \A k \in 1 .. Len(stack) : stack[k].side \in Sides /\ stack[k].msg \in Messages

IInv == StackInv /\ ParamsAreOwn /\ AnswerIsOwn

LEMMA RequestFormed ==
  ASSUME NEW msg \in Messages
  PROVE  Formed(RequestPieces(msg))
<1>1. PICK q : q = msg.params
  OBVIOUS
<1>2. Formed(q)
  BY <1>1, CrossAssumption
<1>3. Word \in Piece /\ Word.kind = "plain" /\ Word.words = 1
  BY DEF Word, Piece
<1>4. PICK h : h = <<Word, Word, Word>>
  OBVIOUS
<1>5. h \in Seq(Piece) /\ Len(h) = 3 /\ \A k \in 1 .. 3 : h[k] = Word
  BY <1>3, <1>4
<1>6. q \in Seq(Piece)
  BY <1>2 DEF Formed
<1>7. PICK all : all = h \o q
  OBVIOUS
<1>8. PICK n : n = Len(q)
  OBVIOUS
<1>9. /\ all \in Seq(Piece) /\ n \in Nat /\ DOMAIN q = 1 .. n /\ DOMAIN all = 1 .. 3 + n
      /\ \A i \in 1 .. 3 + n : all[i] = IF i <= 3 THEN Word ELSE q[i - 3]
  <2>1. /\ h \o q \in Seq(Piece) /\ Len(h \o q) = 3 + n
        /\ \A i \in 1 .. 3 + n : (h \o q)[i] = IF i <= 3 THEN h[i] ELSE q[i - 3]
    <3>1. /\ h \o q \in Seq(Piece) /\ Len(h \o q) = Len(h) + Len(q)
          /\ \A i \in 1 .. Len(h) + Len(q) :
               (h \o q)[i] = IF i <= Len(h) THEN h[i] ELSE q[i - Len(h)]
      BY <1>5, <1>6, ConcatProperties
    <3> QED
      BY <1>5, <1>8, <3>1
  <2>2. DOMAIN all = 1 .. 3 + n
    BY <1>6, <1>7, <1>8, <2>1
  <2> QED
    BY <1>5, <1>6, <1>7, <1>8, <2>1, <2>2
<1>a. ASSUME NEW i \in 1 .. 3 + n
      PROVE  IF all[i].kind = "plain" THEN all[i].words > 0
             ELSE i > 1 /\ all[i - 1].kind = "plain"
  <2>1. CASE i <= 3
    BY <1>3, <1>9, <2>1
  <2>2. CASE i > 3
    <3>1. PICK k : k = i - 3
      OBVIOUS
    <3>2. k \in 1 .. n /\ k \in DOMAIN q /\ all[i] = q[k]
      BY <1>9, <2>2, <3>1
    <3>3. IF q[k].kind = "plain" THEN q[k].words > 0 ELSE k > 1 /\ q[k - 1].kind = "plain"
      BY <1>2, <3>2 DEF Formed
    <3>4. k > 1 => all[i - 1] = q[k - 1] /\ i > 1
      <4>1. k > 1 => i - 1 \in 1 .. 3 + n /\ ~(i - 1 <= 3) /\ i - 1 - 3 = k - 1 /\ i > 1
        BY <1>9, <2>2, <3>1
      <4> QED
        BY <1>9, <4>1
    <3> QED
      BY <3>2, <3>3, <3>4
  <2> QED
    BY <1>9, <2>1, <2>2
<1> QED
  BY <1>1, <1>4, <1>7, <1>9, <1>a DEF Formed, RequestPieces

LEMMA ReturnKeeps == ASSUME IInv, Return PROVE IInv'
<1> DEFINE f == Last(stack)
           o == f.side
           s == Other(o)
           fields == Answer(f.call, f.msg)
           sent == Endup(Replied(f, View(o)), o)
           back == Taken(f.msg, Handed(sent, s), s)
<1>1. stack \in Seq(ToSet(stack)) /\ Len(stack) \in Nat \ {0}
  BY DEF IInv, StackInv, Return
<1>2. o \in Sides /\ Formed(f.msg.ret)
  <2>1. f.side \in Sides /\ f.msg \in Messages
    BY <1>1 DEF IInv, StackInv, Last
  <2> QED
    BY <2>1, CrossAssumption
<1>3. StackInv'
  <2>1. stack' = Front(stack)
    BY DEF Return
  <2>2. /\ stack' \in Seq(ToSet(stack))
        /\ Len(stack') = Len(stack) - 1
        /\ \A k \in 1 .. Len(stack') : stack'[k] = stack[k]
    <3> DEFINE S == ToSet(stack)
    <3> HIDE DEF S
    <3>1. stack \in Seq(S) /\ Len(stack) \in Nat \ {0}
      BY <1>1 DEF S
    <3>2. stack' = SubSeq(stack, 1, Len(stack) - 1)
      BY <2>1 DEF Front
    <3>3. stack' \in Seq(S) /\ Len(stack') = Len(stack) - 1
      <4>1. CASE Len(stack) = 1
        <5>1. stack' = <<>>
          BY <3>1, <3>2, <4>1
        <5> QED
          BY <4>1, <5>1
      <4>2. CASE Len(stack) > 1
        BY <3>1, <3>2, <4>2
      <4>3. Len(stack) = 1 \/ Len(stack) > 1
        BY <3>1
      <4> QED
        BY <4>1, <4>2, <4>3
    <3>4. \A k \in 1 .. Len(stack') : stack'[k] = stack[k]
      BY <3>1, <3>2, <3>3
    <3> QED
      BY <3>3, <3>4 DEF S
  <2>3. stack' \in Seq(ToSet(stack'))
    BY <2>2 DEF ToSet
  <2> QED
    BY <1>1, <2>2, <2>3 DEF IInv, StackInv
<1>4. ParamsAreOwn'
  <2>1. stack' = SubSeq(stack, 1, Len(stack) - 1) /\ stack # <<>>
    BY DEF Return, Front
  <2>2. \A k \in DOMAIN stack' : k \in DOMAIN stack /\ stack'[k] = stack[k]
    BY <1>1, <2>1
  <2> QED
    BY <2>2 DEF IInv, ParamsAreOwn
<1>5. /\ last' = [served |-> TRUE, side |-> s, call |-> f.call, msg |-> f.msg, got |-> back.got]
      /\ GoesOn(o, fields, s, back)
  BY DEF Return
<1>6. fields = Fields("ret", f.call, f.msg.ret)
  BY DEF Answer
<1>7. back = GetAll(StartRead(Handed(sent, s)), s, f.msg.ret)
  BY DEF Taken
<1>8. Came(back.got, fields, f.msg.ret, s)
  <2>1. CASE f.msg.ret = <<>>
    <3> HIDE DEF sent, fields, s
    <3>1. DOMAIN back.got = {}
      <4>1. PICK u : GetsOn(u, StartRead(Handed(sent, s)), s, f.msg.ret, 0)
        BY <2>1, SeenIs
      <4> QED
        BY <1>7, <2>1, <4>1 DEF GetsOn
    <3>2. DOMAIN fields = {}
      BY <1>6, <2>1 DEF Fields
    <3> QED
      BY <3>1, <3>2 DEF Came
  <2>2. CASE f.msg.ret # <<>>
    <3> DEFINE dd == IF o = "cs" THEN 1 ELSE ds
    <3>1. StartWrite(View(o), o) = [mem |-> mem, ds |-> dd, st |-> Writing(1)]
      BY StartsWriting
    <3>2. sent = Endup(PutAll([mem |-> mem, ds |-> dd, st |-> Writing(1)], fields), o)
      BY <2>2, <3>1 DEF Replied
    <3>3. back = GetAll(StartRead([mem |-> sent.mem, ds |-> sent.ds, st |-> station[s]]),
                        s, f.msg.ret)
      BY <1>7 DEF Handed
    <3>4. s = Other(o)
      OBVIOUS
    <3> HIDE DEF f, o, s, fields, sent, back, dd
    <3> QED
      BY <1>2, <1>5, <1>6, <3>2, <3>3, <3>4, Transfer
  <2> QED
    BY <2>1, <2>2
<1>9. AnswerIsOwn'
  <2> HIDE DEF f, s, back
  <2>1. /\ last'.got = back.got /\ last'.call = f.call /\ last'.msg = f.msg /\ last'.side = s
    BY <1>5
  <2>2. fields = Answer(f.call, f.msg)
    OBVIOUS
  <2> HIDE DEF fields
  <2> QED
    BY <1>8, <2>1, <2>2 DEF AnswerIsOwn
<1> QED
  BY <1>3, <1>4, <1>9 DEF IInv

LEMMA CallKeeps ==
  ASSUME IInv, NEW m \in DOMAIN Modules, NEW msg \in Messages, Call(m, msg)
  PROVE  IInv'
<1> DEFINE s == Running
           o == Other(s)
           c == calls + 1
           fields == Request(c, msg)
           pieces == RequestPieces(msg)
           sent == Endup(PutAll(StartWrite(View(s), s), fields), s)
           read == GetAll(StartRead(Handed(sent, o)), o, pieces)
           f == [side |-> o, call |-> c, msg |-> msg, got |-> read.got]
           S == ToSet(stack) \cup {f}
<1>1. s \in Sides
  BY DEF Running, IInv, StackInv, Sides, Last
<1>2. stack' = Append(stack, f) /\ GoesOn(s, fields, o, read) /\ UNCHANGED last
  BY DEF Call
<1>3. f.side \in Sides /\ f.msg \in Messages
  BY <1>1 DEF Other, Sides
<1>4. Came(f.got, Request(f.call, f.msg), RequestPieces(f.msg), f.side)
  <2> DEFINE dd == IF s = "cs" THEN 1 ELSE ds
  <2>1. sent = Endup(PutAll([mem |-> mem, ds |-> dd, st |-> Writing(1)], fields), s)
    BY StartsWriting
  <2>2. read = GetAll(StartRead([mem |-> sent.mem, ds |-> sent.ds, st |-> station[o]]), o, pieces)
    BY DEF Handed
  <2>3. fields = Fields("param", c, pieces) /\ Formed(pieces) /\ o = Other(s)
    BY RequestFormed DEF Request
  <2>4. Came(read.got, fields, pieces, o)
    <3> HIDE DEF s, o, c, fields, pieces, sent, read, dd
    <3> QED
      BY <1>1, <1>2, <2>1, <2>2, <2>3, Transfer
  <2> QED
    BY <2>4
<1> HIDE DEF f
<1>5. stack \in Seq(S)
  <2>1. stack \in Seq(ToSet(stack)) /\ \A k \in 1 .. Len(stack) : stack[k] \in S
    BY DEF IInv, StackInv, ToSet
  <2> QED
    BY <2>1
<1>6. /\ stack' \in Seq(S)
      /\ Len(stack') = Len(stack) + 1
      /\ DOMAIN stack' = 1 .. Len(stack')
      /\ DOMAIN stack = 1 .. Len(stack)
      /\ stack'[Len(stack')] = f
      /\ \A k \in 1 .. Len(stack) : stack'[k] = stack[k]
      /\ Len(stack) \in Nat
  BY <1>2, <1>5
<1>7. stack' \in Seq(ToSet(stack'))
  BY <1>6 DEF ToSet
<1>8. \A k \in 1 .. Len(stack') : k = Len(stack') \/ k \in 1 .. Len(stack)
  BY <1>6
<1>9. StackInv'
  BY <1>3, <1>6, <1>7, <1>8 DEF IInv, StackInv
<1>a. ParamsAreOwn'
  <2>1. ASSUME NEW k \in DOMAIN stack'
        PROVE  Came(stack'[k].got, Request(stack'[k].call, stack'[k].msg),
                    RequestPieces(stack'[k].msg), stack'[k].side)
    <3>1. CASE k = Len(stack')
      BY <1>4, <1>6, <3>1
    <3>2. CASE k \in 1 .. Len(stack)
      BY <1>6, <3>2 DEF IInv, ParamsAreOwn
    <3> QED
      BY <1>6, <1>8, <3>1, <3>2
  <2> QED
    BY <2>1 DEF ParamsAreOwn
<1>b. AnswerIsOwn'
  BY <1>2 DEF IInv, AnswerIsOwn
<1> QED
  BY <1>9, <1>a, <1>b DEF IInv

LEMMA StepInv == IInv /\ [Next]_vars => IInv'
<1> SUFFICES ASSUME IInv, [Next]_vars PROVE IInv'
  OBVIOUS
<1>1. ASSUME NEW m \in DOMAIN Modules, NEW msg \in Messages, CallNobody(m, msg)
      PROVE  IInv'
  <2>1. UNCHANGED stack /\ ~last'.served
    BY <1>1 DEF CallNobody, NoAnswer
  <2> QED
    BY <2>1 DEF IInv, StackInv, ParamsAreOwn, AnswerIsOwn
<1>2. ASSUME UNCHANGED <<stack, last>> PROVE IInv'
  BY <1>2 DEF IInv, StackInv, ParamsAreOwn, AnswerIsOwn
<1>3. ASSUME NEW m \in DOMAIN Modules, Register(m) \/ Unregister(m) PROVE IInv'
  <2>1. UNCHANGED <<stack, last>>
    BY <1>3 DEF Register, Unregister
  <2> QED
    BY <1>2, <2>1
<1>4. ASSUME UNCHANGED vars PROVE IInv'
  BY <1>2, <1>4 DEF vars
<1> QED
  BY <1>1, <1>3, <1>4, CallKeeps, ReturnKeeps DEF Next

LEMMA InitInv == Init => IInv
<1> SUFFICES ASSUME Init PROVE IInv
  OBVIOUS
<1>1. stack = <<>> /\ ~last.served
  BY DEF Init, NoAnswer
<1>2. DOMAIN stack = {}
  BY <1>1
<1> QED
  BY <1>1, <1>2 DEF IInv, StackInv, ParamsAreOwn, AnswerIsOwn

\* A requester gets what the responder of its own call returned, whatever calls
\* that one made over the same buffer (Return, EndCall, the swap buffers), but
\* for a text at the end that C++ had no room for, and one with a NUL that C++ cuts.
THEOREM AnswersAreOwn == Spec => []AnswerIsOwn
<1>1. IInv => AnswerIsOwn
  BY DEF IInv
<1> QED
  BY <1>1, InitInv, StepInv, PTL DEF Spec

\* A responder runs with the parameters its own requester passed, whatever the
\* calls around it left in the buffer (EndCall, OnCall, the swap buffers, the
\* fields one behind the other), but for the same two kinds of text.
THEOREM ParamsOwn == Spec => []ParamsAreOwn
<1>1. IInv => ParamsAreOwn
  BY DEF IInv
<1> QED
  BY <1>1, InitInv, StepInv, PTL DEF Spec
=============================================================================
