--------------------------- MODULE ExecutorProofs ---------------------------
(***************************************************************************)
(* Proofs about the two executors of utility: the pool of AsyncPool, for   *)
(* any number of workers, clients and tasks, and the stations of           *)
(* StepStation, for any tree of stations, parallel executors and           *)
(* functions.  The two share no state.                                     *)
(***************************************************************************)
EXTENDS AsyncPool, StepStation, TLAPS

(***************************************************************************)
(* StepStation.  That a station is empty when it is destroyed depends on   *)
(* who is on the call stack with whom: StationInv says how calls nest,     *)
(* what a caller waits for, and that each step is where its home says.     *)
(* That guards are called in reverse depends on the tree as well: UndoInv  *)
(* says in which order the steps of a station arm their guards, and where  *)
(* each guard is that was not called yet.  That just the right guards are  *)
(* called depends on both, and on what broke: ExactInv says, for each      *)
(* guard and each call, whether it is doomed to be called or spared.       *)
(***************************************************************************)
\* What is in a container has it for its home; the root has none.
Housed(seqs, hm) == \A c \in DOMAIN seqs : \A k \in 1 .. Len(seqs[c]) : hm[seqs[c][k]] = c

HomeInv == Housed(queue, home) /\ Housed(done, home) /\ Housed(list, home)

\* A station destroyed before its end rolls itself back, and whoever destroys a
\* step rolls it back first: two calls, one on the other, on the same step.
UndoneFirst(st, k) ==
  st[k].op = "roll" /\ st[k + 1].op = "kill" /\ st[k].at = st[k + 1].at

\* Apart from that each call was made by the container of its step; the first
\* one, on the root, by the user.
Nested(st, hm) ==
  /\ hm[Root] = None
  /\ Len(st) > 0 => st[Len(st)].at = Root
  /\ \A k \in 1 .. Len(st) - 1 : hm[st[k].at] = st[k + 1].at \/ UndoneFirst(st, k)

\* No step is in two calls at once.
AtOnce(st) ==
  \A i, j \in 1 .. Len(st) :
    i < j /\ st[i].at = st[j].at => j = i + 1 /\ UndoneFirst(st, i)

\* Rollback and destructors step nothing.
StepsBelow(st) == \A i, j \in 1 .. Len(st) : i < j /\ st[i].op = "step" => st[j].op = "step"

StackInv(st, hm) == Nested(st, hm) /\ AtOnce(st) /\ StepsBelow(st)

\* A container that waits for a step, or has its answer, has that step still.
Waiting(st, k, r) == /\ st[k].op = "step"
                     /\ IF k = 1 THEN r # None ELSE st[k - 1].op = "step"

HasStep(f, q, l) == /\ f.at \in Stations => q[f.at] # <<>>
                    /\ f.at \in Parallels => f.i \in 1 .. Len(l[f.at])

ChildInv(st, r, q, l) == \A k \in 1 .. Len(st) : Waiting(st, k, r) => HasStep(st[k], q, l)

\* A station under destruction has no steps left once it is rolled back.
Ending(f, q) == f.op = "kill" /\ f.at \in Stations /\ f.i # 0 => q[f.at] = <<>>

KillBelow(st, q) == \A k \in 2 .. Len(st) : Ending(st[k], q) \/ UndoneFirst(st, k - 1)

KillInv(st, q) == KillBelow(st, q) /\ (Len(st) > 0 => Ending(st[1], q))

\* Who looks at an answer is a container that is being stepped.
AnswerInv(st, r) == r # None => Len(st) > 0 /\ st[1].op = "step"

CallsInv(st, r, q, l, hm) ==
  StackInv(st, hm) /\ AnswerInv(st, r) /\ ChildInv(st, r, q, l) /\ KillInv(st, q)

StationInv == StationTypeOK /\ HomeInv /\ CallsInv(stack, ret, queue, list, home)
-----------------------------------------------------------------------------
\* Sequences with one more, or one fewer, in front.
LEMMA ConsSeq == ASSUME NEW S, NEW s \in Seq(S), NEW e \in S
                 PROVE  /\ <<e>> \o s \in Seq(S)
                        /\ Len(<<e>> \o s) = Len(s) + 1
                        /\ (<<e>> \o s)[1] = e
                        /\ \A k \in 1 .. Len(s) : (<<e>> \o s)[k + 1] = s[k]
                        /\ \A k \in 2 .. Len(s) + 1 : (<<e>> \o s)[k] = s[k - 1]
  OBVIOUS

LEMMA TailSeq == ASSUME NEW S, NEW s \in Seq(S), s # <<>>
                 PROVE  /\ Tail(s) \in Seq(S)
                        /\ Len(s) \in Nat /\ Len(s) > 0 /\ Len(Tail(s)) = Len(s) - 1
                        /\ \A k \in 1 .. Len(Tail(s)) : Tail(s)[k] = s[k + 1]
                        /\ s[1] \in S
  OBVIOUS

LEMMA ConcatSeq == ASSUME NEW S, NEW s \in Seq(S), NEW t \in Seq(S)
                   PROVE  /\ s \o t \in Seq(S)
                          /\ Len(s \o t) = Len(s) + Len(t)
                          /\ \A k \in 1 .. Len(s) + Len(t) :
                               (s \o t)[k] = IF k <= Len(s) THEN s[k] ELSE t[k - Len(s)]
  OBVIOUS

LEMMA EmptySeq == ASSUME NEW S, NEW s \in Seq(S)
                  PROVE  /\ Len(s) \in Nat /\ (s = <<>> <=> Len(s) = 0)
                         /\ \A k \in 1 .. Len(s) : s[k] \in S
  OBVIOUS

LEMMA FrameType == ASSUME NEW op \in {"step", "roll", "kill"}, NEW x \in Steps
                   PROVE  /\ Frame(op, x) \in Frames
                          /\ Frame(op, x).op = op /\ Frame(op, x).at = x
                          /\ Frame(op, x).i = 0
  BY DEF Frame, Frames
-----------------------------------------------------------------------------
(***************************************************************************)
(* What a call, a return and a change of the call on top do to the stack.  *)
(***************************************************************************)
\* A container calls a step of its own.
LEMMA CallNests == ASSUME NEW st \in Seq(Frames), NEW hm, StackInv(st, hm), st # <<>>,
                          NEW f \in Frames, hm[f.at] = st[1].at,
                          f.op = "step" => st[1].op = "step"
                   PROVE  StackInv(<<f>> \o st, hm)
<1> DEFINE new == <<f>> \o st
<1>1. /\ Len(st) \in Nat /\ Len(st) > 0 /\ Len(new) = Len(st) + 1 /\ new[1] = f
      /\ \A k \in 1 .. Len(st) : new[k + 1] = st[k]
      /\ \A k \in 2 .. Len(st) + 1 : new[k] = st[k - 1]
      /\ \A k \in 1 .. Len(st) : st[k] \in Frames
  BY ONLY ConsSeq, EmptySeq, st \in Seq(Frames), f \in Frames, st # <<>>
<1>2. hm[Root] = None /\ st[Len(st)].at = Root /\ AtOnce(st) /\ StepsBelow(st)
  BY <1>1 DEF StackInv, Nested
<1>3. \A k \in 1 .. Len(st) - 1 : hm[st[k].at] = st[k + 1].at \/ UndoneFirst(st, k)
  BY DEF StackInv, Nested
<1> HIDE DEF new
<1>4. \A k \in 1 .. Len(st) - 1 : UndoneFirst(new, k + 1) <=> UndoneFirst(st, k)
  BY ONLY <1>1 DEF UndoneFirst
<1>5. Nested(new, hm)
  <2>1. new[Len(new)].at = Root
    BY ONLY <1>1, <1>2
  <2>2. ASSUME NEW k \in 1 .. Len(new) - 1
        PROVE  hm[new[k].at] = new[k + 1].at \/ UndoneFirst(new, k)
    <3>1. CASE k = 1
      BY ONLY <3>1, <1>1, hm[f.at] = st[1].at
    <3>2. CASE k > 1
      <4>1. PICK m \in 1 .. Len(st) - 1 : k = m + 1
        BY ONLY <3>2, <1>1, k \in 1 .. Len(new) - 1
      <4>2. new[k] = st[m] /\ new[k + 1] = st[m + 1]
        BY ONLY <4>1, <1>1
      <4> QED BY ONLY <4>1, <4>2, <1>3, <1>4
    <3> QED BY ONLY <3>1, <3>2, <1>1
  <2> QED BY ONLY <2>1, <2>2, <1>2 DEF Nested
\* The step called is in no call yet: its caller would be, twice.
<1>6. \A j \in 1 .. Len(st) : st[j].at # f.at
  <2> SUFFICES ASSUME NEW j \in 1 .. Len(st), st[j].at = f.at PROVE FALSE
    OBVIOUS
  <2>1. \A k \in 1 .. Len(st) - 1 : st[k + 1].at = st[1].at => k = 1 /\ UndoneFirst(st, 1)
    <3>1. \A k \in 1 .. Len(st) - 1 : 1 \in 1 .. Len(st) /\ k + 1 \in 1 .. Len(st) /\ 1 < k + 1
      BY ONLY <1>1
    <3>2. \A k \in 1 .. Len(st) - 1 : k + 1 = 1 + 1 => k = 1
      BY ONLY <1>1
    <3> QED BY ONLY <3>1, <3>2, <1>2 DEF AtOnce
  <2>2. hm[f.at] # None /\ \A k \in 1 .. Len(st) : st[k].at = f.at => k # Len(st)
    <3>1. st[1].at \in Steps
      BY ONLY <1>1 DEF Frames
    <3>2. hm[f.at] # None
      BY StationAssumption, <3>1 DEF Steps
    <3> QED BY ONLY <3>2, <1>2
  <2>3. \A k \in 1 .. Len(st) : st[k].at = f.at =>
          /\ k \in 1 .. Len(st) - 1
          /\ (k = 1 /\ UndoneFirst(st, 1)) \/ UndoneFirst(st, k)
    BY ONLY <2>1, <2>2, <1>1, <1>3, hm[f.at] = st[1].at
  <2>4. \A k \in 1 .. Len(st) - 1 :
          UndoneFirst(st, k) => st[k].op = "roll" /\ st[k + 1].op = "kill" /\ st[k + 1].at = st[k].at
    BY DEF UndoneFirst
  <2>5. UndoneFirst(st, j) /\ j \in 1 .. Len(st) - 1
    BY ONLY <2>3, st[j].at = f.at, j \in 1 .. Len(st)
  <2>6. j + 1 \in 1 .. Len(st) - 1 /\ UndoneFirst(st, j + 1)
    <3>1. j + 1 \in 1 .. Len(st) /\ j + 1 # 1
      BY ONLY <2>5, <1>1
    <3> QED BY ONLY <3>1, <2>5, <2>4, <2>3, st[j].at = f.at
  <2> QED BY ONLY <2>5, <2>6, <2>4, "roll" # "kill"
<1>7. AtOnce(new)
  <2> SUFFICES ASSUME NEW i \in 1 .. Len(new), NEW j \in 1 .. Len(new), i < j,
                      new[i].at = new[j].at
               PROVE  j = i + 1 /\ UndoneFirst(new, i)
    BY DEF AtOnce
  <2>1. PICK n \in 1 .. Len(st) : j = n + 1
    BY ONLY <1>1, i \in 1 .. Len(new), j \in 1 .. Len(new), i < j
  <2>2. i # 1
    BY ONLY <2>1, <1>1, <1>6, new[i].at = new[j].at
  <2>3. PICK m \in 1 .. Len(st) : i = m + 1 /\ m < n
    BY ONLY <2>1, <2>2, <1>1, i \in 1 .. Len(new), i < j
  <2>4. n = m + 1 /\ UndoneFirst(st, m)
    BY ONLY <2>1, <2>3, <1>1, <1>2, new[i].at = new[j].at DEF AtOnce
  <2> QED BY ONLY <2>1, <2>3, <2>4, <1>1, <1>4
<1>8. StepsBelow(new)
  <2> SUFFICES ASSUME NEW i \in 1 .. Len(new), NEW j \in 1 .. Len(new), i < j,
                      new[i].op = "step"
               PROVE  new[j].op = "step"
    BY DEF StepsBelow
  <2>1. PICK n \in 1 .. Len(st) : j = n + 1
    BY ONLY <1>1, i \in 1 .. Len(new), j \in 1 .. Len(new), i < j
  <2>2. \A m \in 1 .. Len(st) : m < n /\ st[m].op = "step" => st[n].op = "step"
    BY ONLY <1>2, <2>1 DEF StepsBelow
  <2>3. CASE i = 1
    BY ONLY <2>1, <2>2, <2>3, <1>1, new[i].op = "step", f.op = "step" => st[1].op = "step"
  <2>4. CASE i # 1
    <3>1. PICK m \in 1 .. Len(st) : i = m + 1 /\ m < n
      BY ONLY <2>1, <2>4, <1>1, i \in 1 .. Len(new), i < j
    <3> QED BY ONLY <2>1, <2>2, <3>1, <1>1, new[i].op = "step"
  <2> QED BY ONLY <2>3, <2>4
<1> QED BY <1>5, <1>7, <1>8 DEF StackInv, new

\* Whoever destroys a step first has it rolled back.
LEMMA UndoNests == ASSUME NEW st \in Seq(Frames), NEW hm, StackInv(st, hm), st # <<>>,
                          st[1].op = "kill", NEW f \in Frames,
                          f.op = "roll", f.at = st[1].at
                   PROVE  StackInv(<<f>> \o st, hm)
<1> DEFINE new == <<f>> \o st
<1>1. /\ Len(st) \in Nat /\ Len(st) > 0 /\ Len(new) = Len(st) + 1 /\ new[1] = f
      /\ \A k \in 1 .. Len(st) : new[k + 1] = st[k]
      /\ \A k \in 2 .. Len(st) + 1 : new[k] = st[k - 1]
  BY ONLY ConsSeq, EmptySeq, st \in Seq(Frames), f \in Frames, st # <<>>
<1>2. hm[Root] = None /\ st[Len(st)].at = Root /\ AtOnce(st) /\ StepsBelow(st)
  BY <1>1 DEF StackInv, Nested
<1>3. \A k \in 1 .. Len(st) - 1 : hm[st[k].at] = st[k + 1].at \/ UndoneFirst(st, k)
  BY DEF StackInv, Nested
<1> HIDE DEF new
<1>4. \A k \in 1 .. Len(st) - 1 : UndoneFirst(new, k + 1) <=> UndoneFirst(st, k)
  BY ONLY <1>1 DEF UndoneFirst
<1>5. UndoneFirst(new, 1)
  <2>1. new[1] = f /\ new[1 + 1] = st[1]
    BY ONLY <1>1
  <2> QED BY ONLY <2>1, f.op = "roll", f.at = st[1].at, st[1].op = "kill" DEF UndoneFirst
<1>6. Nested(new, hm)
  <2>1. new[Len(new)].at = Root
    BY ONLY <1>1, <1>2
  <2>2. ASSUME NEW k \in 1 .. Len(new) - 1
        PROVE  hm[new[k].at] = new[k + 1].at \/ UndoneFirst(new, k)
    <3>1. CASE k = 1
      BY ONLY <3>1, <1>5
    <3>2. CASE k > 1
      <4>1. PICK m \in 1 .. Len(st) - 1 : k = m + 1
        BY ONLY <3>2, <1>1, k \in 1 .. Len(new) - 1
      <4>2. new[k] = st[m] /\ new[k + 1] = st[m + 1]
        BY ONLY <4>1, <1>1
      <4> QED BY ONLY <4>1, <4>2, <1>3, <1>4
    <3> QED BY ONLY <3>1, <3>2, <1>1
  <2> QED BY ONLY <2>1, <2>2, <1>2 DEF Nested
<1>7. \A j \in 2 .. Len(st) : st[j].at # f.at
  <2> SUFFICES ASSUME NEW j \in 2 .. Len(st), st[j].at = f.at PROVE FALSE
    OBVIOUS
  <2>1. 1 \in 1 .. Len(st) /\ j \in 1 .. Len(st) /\ 1 < j
    BY ONLY <1>1
  <2>2. UndoneFirst(st, 1)
    BY ONLY <2>1, <1>2, st[j].at = f.at, f.at = st[1].at DEF AtOnce
  <2> QED BY ONLY <2>2, st[1].op = "kill" DEF UndoneFirst
<1>8. AtOnce(new)
  <2> SUFFICES ASSUME NEW i \in 1 .. Len(new), NEW j \in 1 .. Len(new), i < j,
                      new[i].at = new[j].at
               PROVE  j = i + 1 /\ UndoneFirst(new, i)
    BY DEF AtOnce
  <2>1. PICK n \in 1 .. Len(st) : j = n + 1
    BY ONLY <1>1, i \in 1 .. Len(new), j \in 1 .. Len(new), i < j
  <2>2. CASE i = 1
    <3>1. n = 1
      BY ONLY <2>1, <2>2, <1>1, <1>7, new[i].at = new[j].at
    <3> QED BY ONLY <2>1, <2>2, <3>1, <1>5
  <2>3. CASE i # 1
    <3>1. PICK m \in 1 .. Len(st) : i = m + 1 /\ m < n
      BY ONLY <2>1, <2>3, <1>1, i \in 1 .. Len(new), i < j
    <3>2. n = m + 1 /\ UndoneFirst(st, m)
      BY ONLY <2>1, <3>1, <1>1, <1>2, new[i].at = new[j].at DEF AtOnce
    <3> QED BY ONLY <2>1, <3>1, <3>2, <1>1, <1>4
  <2> QED BY ONLY <2>2, <2>3
<1>9. StepsBelow(new)
  <2> SUFFICES ASSUME NEW i \in 1 .. Len(new), NEW j \in 1 .. Len(new), i < j,
                      new[i].op = "step"
               PROVE  new[j].op = "step"
    BY DEF StepsBelow
  <2>1. PICK n \in 1 .. Len(st) : j = n + 1
    BY ONLY <1>1, i \in 1 .. Len(new), j \in 1 .. Len(new), i < j
  <2>2. i # 1
    BY ONLY <1>1, new[i].op = "step", f.op = "roll", "roll" # "step"
  <2>3. PICK m \in 1 .. Len(st) : i = m + 1 /\ m < n
    BY ONLY <2>1, <2>2, <1>1, i \in 1 .. Len(new), i < j
  <2> QED BY ONLY <2>1, <2>3, <1>1, <1>2, new[i].op = "step" DEF StepsBelow
<1> QED BY <1>6, <1>8, <1>9 DEF StackInv, new

\* A call returns.
LEMMA ReturnNests == ASSUME NEW st \in Seq(Frames), NEW hm, StackInv(st, hm), st # <<>>
                     PROVE  StackInv(Tail(st), hm)
<1> DEFINE new == Tail(st)
<1>1. /\ Len(st) \in Nat /\ Len(st) > 0 /\ Len(new) = Len(st) - 1
      /\ \A k \in 1 .. Len(new) : new[k] = st[k + 1]
  BY ONLY TailSeq, st \in Seq(Frames), st # <<>>
<1>2. hm[Root] = None /\ st[Len(st)].at = Root /\ AtOnce(st) /\ StepsBelow(st)
  BY <1>1 DEF StackInv, Nested
<1>3. \A k \in 1 .. Len(st) - 1 : hm[st[k].at] = st[k + 1].at \/ UndoneFirst(st, k)
  BY DEF StackInv, Nested
<1> HIDE DEF new
<1>4. \A k \in 1 .. Len(new) - 1 : UndoneFirst(new, k) <=> UndoneFirst(st, k + 1)
  BY ONLY <1>1 DEF UndoneFirst
<1>5. Nested(new, hm)
  <2>1. Len(new) > 0 => new[Len(new)].at = Root
    BY ONLY <1>1, <1>2
  <2>2. ASSUME NEW k \in 1 .. Len(new) - 1
        PROVE  hm[new[k].at] = new[k + 1].at \/ UndoneFirst(new, k)
    <3>1. new[k] = st[k + 1] /\ new[k + 1] = st[k + 1 + 1] /\ k + 1 \in 1 .. Len(st) - 1
      BY ONLY <1>1, k \in 1 .. Len(new) - 1
    <3> QED BY ONLY <3>1, <1>3, <1>4, k \in 1 .. Len(new) - 1
  <2> QED BY ONLY <2>1, <2>2, <1>2 DEF Nested
<1>6. \A k \in 1 .. Len(new) : new[k] = st[k + 1] /\ k + 1 \in 1 .. Len(st)
  BY ONLY <1>1
<1>7. AtOnce(new)
  <2> SUFFICES ASSUME NEW i \in 1 .. Len(new), NEW j \in 1 .. Len(new), i < j,
                      new[i].at = new[j].at
               PROVE  j = i + 1 /\ UndoneFirst(new, i)
    BY DEF AtOnce
  <2>1. j + 1 = i + 1 + 1 /\ UndoneFirst(st, i + 1)
    BY ONLY <1>2, <1>6, <1>1, i < j, new[i].at = new[j].at DEF AtOnce
  <2>2. j = i + 1 /\ i \in 1 .. Len(new) - 1
    BY ONLY <2>1, <1>1, i \in 1 .. Len(new), j \in 1 .. Len(new)
  <2> QED BY ONLY <2>1, <2>2, <1>4
<1>8. StepsBelow(new)
  <2> SUFFICES ASSUME NEW i \in 1 .. Len(new), NEW j \in 1 .. Len(new), i < j,
                      new[i].op = "step"
               PROVE  new[j].op = "step"
    BY DEF StepsBelow
  <2>1. i + 1 < j + 1
    BY ONLY <1>1, i < j, i \in 1 .. Len(new), j \in 1 .. Len(new)
  <2> QED BY ONLY <2>1, <1>2, <1>6, new[i].op = "step" DEF StepsBelow
<1> QED BY <1>5, <1>7, <1>8 DEF StackInv, new

\* The call on top goes on.
LEMMA GoesOn == ASSUME NEW st \in Seq(Frames), NEW hm, StackInv(st, hm), st # <<>>,
                       NEW f \in Frames, f.op = st[1].op, f.at = st[1].at
                PROVE  StackInv(<<f>> \o Tail(st), hm)
<1> DEFINE new == <<f>> \o Tail(st)
<1>1. /\ Len(st) \in Nat /\ Len(st) > 0 /\ Len(new) = Len(st) /\ new[1] = f
      /\ \A k \in 2 .. Len(st) : new[k] = st[k]
  <2>1. /\ Tail(st) \in Seq(Frames) /\ Len(st) \in Nat /\ Len(st) > 0
        /\ Len(Tail(st)) = Len(st) - 1
        /\ \A k \in 1 .. Len(Tail(st)) : Tail(st)[k] = st[k + 1]
    BY ONLY TailSeq, st \in Seq(Frames), st # <<>>
  <2>2. /\ Len(new) = Len(Tail(st)) + 1 /\ new[1] = f
        /\ \A k \in 2 .. Len(Tail(st)) + 1 : new[k] = Tail(st)[k - 1]
    BY ONLY ConsSeq, <2>1, f \in Frames
  <2> QED BY ONLY <2>1, <2>2
<1> HIDE DEF new
<1>2. \A k \in 1 .. Len(st) : new[k].op = st[k].op /\ new[k].at = st[k].at
  <2> TAKE k \in 1 .. Len(st)
  <2>1. k = 1 \/ k \in 2 .. Len(st)
    BY ONLY <1>1
  <2> QED BY ONLY <2>1, <1>1, f.op = st[1].op, f.at = st[1].at
<1>3. \A k \in 1 .. Len(st) - 1 : UndoneFirst(new, k) <=> UndoneFirst(st, k)
  <2> TAKE k \in 1 .. Len(st) - 1
  <2>1. k \in 1 .. Len(st) /\ k + 1 \in 1 .. Len(st)
    BY ONLY <1>1
  <2> QED BY ONLY <2>1, <1>2 DEF UndoneFirst
<1>4. Nested(new, hm)
  <2>1. \A k \in 1 .. Len(st) - 1 : hm[st[k].at] = st[k + 1].at \/ UndoneFirst(st, k)
    BY DEF StackInv, Nested
  <2>2. \A k \in 1 .. Len(st) - 1 : k \in 1 .. Len(st) /\ k + 1 \in 1 .. Len(st)
    BY ONLY <1>1
  <2>3. hm[Root] = None /\ st[Len(st)].at = Root /\ Len(st) \in 1 .. Len(st)
    BY <1>1 DEF StackInv, Nested
  <2> QED BY ONLY <1>1, <1>2, <1>3, <2>1, <2>2, <2>3 DEF Nested
<1>5. AtOnce(new)
  <2> SUFFICES ASSUME NEW i \in 1 .. Len(new), NEW j \in 1 .. Len(new), i < j,
                      new[i].at = new[j].at
               PROVE  j = i + 1 /\ UndoneFirst(new, i)
    BY DEF AtOnce
  <2>1. j = i + 1 /\ UndoneFirst(st, i)
    BY <1>1, <1>2 DEF StackInv, AtOnce
  <2>2. i \in 1 .. Len(st) - 1
    BY ONLY <2>1, <1>1, i \in 1 .. Len(new), j \in 1 .. Len(new)
  <2> QED BY ONLY <2>1, <2>2, <1>3
<1>6. StepsBelow(new)
  BY <1>1, <1>2 DEF StackInv, StepsBelow
<1> QED BY <1>4, <1>5, <1>6 DEF StackInv, new

\* A step that was nowhere is put in a container.
LEMMA HousingNests == ASSUME NEW st \in Seq(Frames), NEW hm \in [Steps -> Steps \cup {None}],
                             StackInv(st, hm), NEW x \in Steps, x # Root, hm[x] = None,
                             NEW c
                      PROVE  StackInv(st, [hm EXCEPT ![x] = c])
<1> DEFINE new == [hm EXCEPT ![x] = c]
<1>1. \A y \in Steps : hm[y] # None => new[y] = hm[y]
  OBVIOUS
<1>2. new[Root] = None
  BY DEF StackInv, Nested, Steps
<1>3. \A k \in 1 .. Len(st) - 1 : k \in 1 .. Len(st) /\ k + 1 \in 1 .. Len(st)
  BY ONLY EmptySeq, st \in Seq(Frames)
<1>4. \A k \in 1 .. Len(st) : st[k].at \in Steps
  <2>1. \A k \in 1 .. Len(st) : st[k] \in Frames
    BY ONLY EmptySeq, st \in Seq(Frames)
  <2> QED BY ONLY <2>1 DEF Frames
<1>5. None \notin Steps
  BY StationAssumption DEF Steps
<1> HIDE DEF new
<1>6. \A k \in 1 .. Len(st) - 1 : new[st[k].at] = st[k + 1].at \/ UndoneFirst(st, k)
  BY <1>1, <1>3, <1>4, <1>5 DEF StackInv, Nested
<1>7. Nested(st, new)
  BY <1>2, <1>6 DEF StackInv, Nested
<1> QED BY <1>7 DEF StackInv, new
-----------------------------------------------------------------------------
\* The calls below the top, with another call on top of them or none.
LEMMA Pushed == ASSUME NEW st \in Seq(Frames), NEW f \in Frames, NEW new, new = <<f>> \o st
                PROVE  /\ new \in Seq(Frames) /\ Len(new) \in Nat /\ Len(st) \in Nat
                       /\ Len(new) = Len(st) + 1 /\ new[1] = f
                       /\ \A k \in 1 .. Len(new) : k = 1 \/ (k - 1 \in 1 .. Len(st) /\ new[k] = st[k - 1])
                       /\ \A k \in 2 .. Len(st) : UndoneFirst(new, k) <=> UndoneFirst(st, k - 1)
<1>1. /\ new \in Seq(Frames) /\ Len(st) \in Nat /\ Len(new) = Len(st) + 1 /\ new[1] = f
      /\ \A k \in 2 .. Len(st) + 1 : new[k] = st[k - 1]
  BY ONLY ConsSeq, EmptySeq, st \in Seq(Frames), f \in Frames, new = <<f>> \o st
<1>2. ASSUME NEW k \in 2 .. Len(st) PROVE UndoneFirst(new, k) <=> UndoneFirst(st, k - 1)
  <2>1. new[k] = st[k - 1] /\ new[k + 1] = st[k] /\ k - 1 + 1 = k
    BY ONLY <1>1, k \in 2 .. Len(st)
  <2> QED BY ONLY <2>1 DEF UndoneFirst
<1> QED BY ONLY <1>1, <1>2

LEMMA Popped == ASSUME NEW st \in Seq(Frames), st # <<>>, NEW new, new = Tail(st)
                PROVE  /\ new \in Seq(Frames) /\ Len(new) \in Nat /\ Len(st) \in Nat
                       /\ Len(st) = Len(new) + 1 /\ st[1] \in Frames
                       /\ \A k \in 1 .. Len(new) : k + 1 \in 1 .. Len(st) /\ new[k] = st[k + 1]
                       /\ \A k \in 1 .. Len(new) - 1 : UndoneFirst(new, k) <=> UndoneFirst(st, k + 1)
<1>1. /\ new \in Seq(Frames) /\ Len(st) \in Nat /\ Len(st) > 0 /\ Len(new) = Len(st) - 1
      /\ \A k \in 1 .. Len(new) : new[k] = st[k + 1]
      /\ st[1] \in Frames
  BY ONLY TailSeq, st \in Seq(Frames), st # <<>>, new = Tail(st)
<1>2. ASSUME NEW k \in 1 .. Len(new) - 1 PROVE UndoneFirst(new, k) <=> UndoneFirst(st, k + 1)
  <2>1. new[k] = st[k + 1] /\ new[k + 1] = st[k + 1 + 1]
    BY ONLY <1>1, k \in 1 .. Len(new) - 1
  <2> QED BY ONLY <2>1 DEF UndoneFirst
<1> QED BY ONLY <1>1, <1>2

\* What the callers on the stack rely on, when a call is made ...
LEMMA PushKeeps == ASSUME NEW st \in Seq(Frames), NEW f \in Frames, NEW q, NEW l,
                          ChildInv(st, None, q, l), KillBelow(st, q), Ending(f, q),
                          Len(st) > 0 => Ending(st[1], q) \/ UndoneFirst(<<f>> \o st, 1),
                          f.op = "step" => Len(st) = 0 \/ HasStep(st[1], q, l)
                   PROVE  ChildInv(<<f>> \o st, None, q, l) /\ KillInv(<<f>> \o st, q)
<1> DEFINE new == <<f>> \o st
<1>1. /\ new \in Seq(Frames) /\ Len(new) \in Nat /\ Len(st) \in Nat
      /\ Len(new) = Len(st) + 1 /\ new[1] = f
      /\ \A k \in 1 .. Len(new) : k = 1 \/ (k - 1 \in 1 .. Len(st) /\ new[k] = st[k - 1])
      /\ \A k \in 2 .. Len(st) : UndoneFirst(new, k) <=> UndoneFirst(st, k - 1)
  BY ONLY Pushed, st \in Seq(Frames), f \in Frames
<1> HIDE DEF new
<1>2. ASSUME NEW k \in 1 .. Len(new), Waiting(new, k, None) PROVE HasStep(new[k], q, l)
  <2>1. k # 1
    BY <1>2 DEF Waiting
  <2>2. PICK m \in 1 .. Len(st) : k = m + 1 /\ m = k - 1 /\ new[k] = st[m]
    BY ONLY <1>1, <2>1, k \in 1 .. Len(new)
  <2>3. st[m].op = "step" /\ new[m].op = "step"
    BY <1>2, <2>1, <2>2 DEF Waiting
  <2>4. CASE m = 1
    BY <2>2, <2>3, <2>4, <1>1
  <2>5. CASE m # 1
    <3>1. new[m] = st[m - 1]
      BY ONLY <2>2, <2>5, <1>1
    <3>2. Waiting(st, m, None)
      BY ONLY <2>3, <2>5, <3>1 DEF Waiting
    <3> QED BY ONLY <2>2, <3>2, ChildInv(st, None, q, l) DEF ChildInv
  <2> QED BY ONLY <2>4, <2>5
<1>3. ASSUME NEW k \in 2 .. Len(new)
      PROVE  Ending(new[k], q) \/ UndoneFirst(new, k - 1)
  <2>1. PICK m \in 1 .. Len(st) : k = m + 1 /\ m = k - 1 /\ new[k] = st[m]
    BY ONLY <1>1, k \in 2 .. Len(new)
  <2>2. CASE m = 1
    BY <1>1, <2>1, <2>2 DEF new
  <2>3. CASE m # 1
    <3>1. m \in 2 .. Len(st)
      BY ONLY <2>3, <1>1, m \in 1 .. Len(st)
    <3> QED BY ONLY <2>1, <3>1, <1>1, KillBelow(st, q) DEF KillBelow
  <2> QED BY ONLY <2>2, <2>3
<1>4. Len(new) > 0 => Ending(new[1], q)
  BY ONLY <1>1, Ending(f, q)
<1> QED BY <1>2, <1>3, <1>4 DEF ChildInv, KillInv, KillBelow, new

\* ... when it returns ...
LEMMA PopKeeps == ASSUME NEW st \in Seq(Frames), st # <<>>, NEW q, NEW l, NEW r, NEW r2,
                         ChildInv(st, r, q, l), KillInv(st, q),
                         st[1].op = "step" \/ r2 = None,
                         st[1].op = "roll" /\ st[1].at \in Stations => q[st[1].at] = <<>>
                  PROVE  ChildInv(Tail(st), r2, q, l) /\ KillInv(Tail(st), q)
<1> DEFINE new == Tail(st)
<1>1. /\ Len(new) \in Nat /\ Len(st) \in Nat
      /\ Len(st) = Len(new) + 1
      /\ \A k \in 1 .. Len(new) : k + 1 \in 1 .. Len(st) /\ new[k] = st[k + 1]
      /\ \A k \in 1 .. Len(new) - 1 : UndoneFirst(new, k) <=> UndoneFirst(st, k + 1)
  BY ONLY Popped, st \in Seq(Frames), st # <<>>
<1> HIDE DEF new
<1>2. ASSUME NEW k \in 1 .. Len(new), Waiting(new, k, r2) PROVE HasStep(new[k], q, l)
  <2>1. new[k] = st[k + 1] /\ k + 1 \in 1 .. Len(st) /\ k + 1 - 1 = k /\ k + 1 # 1
    BY ONLY <1>1, k \in 1 .. Len(new)
  <2>2. CASE k = 1
    <3>1. Waiting(st, k + 1, r)
      BY <1>2, <2>1, <2>2 DEF Waiting
    <3> QED BY ONLY <2>1, <3>1, ChildInv(st, r, q, l) DEF ChildInv
  <2>3. CASE k # 1
    <3>1. new[k - 1] = st[k]
      BY ONLY <2>3, <1>1, k \in 1 .. Len(new)
    <3>2. Waiting(st, k + 1, r)
      BY ONLY <1>2, <2>1, <2>3, <3>1 DEF Waiting
    <3> QED BY ONLY <2>1, <3>2, ChildInv(st, r, q, l) DEF ChildInv
  <2> QED BY ONLY <2>2, <2>3
<1>3. \A k \in 1 .. Len(new) : Ending(st[k + 1], q) \/ UndoneFirst(st, k)
  <2> TAKE k \in 1 .. Len(new)
  <2>1. k + 1 \in 2 .. Len(st) /\ k + 1 - 1 = k
    BY ONLY <1>1
  <2> QED BY ONLY <2>1, KillInv(st, q) DEF KillInv, KillBelow
<1>4. ASSUME NEW k \in 2 .. Len(new) PROVE Ending(new[k], q) \/ UndoneFirst(new, k - 1)
  <2>1. new[k] = st[k + 1] /\ k \in 1 .. Len(new) /\ k - 1 \in 1 .. Len(new) - 1 /\ k - 1 + 1 = k
    BY ONLY <1>1, k \in 2 .. Len(new)
  <2> QED BY ONLY <2>1, <1>1, <1>3
<1>5. ASSUME Len(new) > 0 PROVE Ending(new[1], q)
  <2>1. 1 \in 1 .. Len(new) /\ new[1] = st[2]
    BY ONLY <1>1, <1>5
  <2>2. UndoneFirst(st, 1) => Ending(st[2], q)
    BY DEF UndoneFirst, Ending
  <2> QED BY ONLY <2>1, <2>2, <1>3
<1> QED BY <1>2, <1>4, <1>5 DEF ChildInv, KillInv, KillBelow, new

\* ... and while it goes on.
LEMMA TurnKeeps == ASSUME NEW st \in Seq(Frames), st # <<>>, NEW q, NEW l, NEW r,
                          NEW f \in Frames, f.op = st[1].op, f.at = st[1].at,
                          ChildInv(st, r, q, l), KillBelow(st, q)
                   PROVE  ChildInv(<<f>> \o Tail(st), None, q, l) /\ KillBelow(<<f>> \o Tail(st), q)
<1> DEFINE rest == Tail(st)
           new == <<f>> \o rest
<1>1. /\ rest \in Seq(Frames) /\ Len(st) \in Nat /\ Len(st) = Len(rest) + 1
      /\ \A k \in 1 .. Len(rest) : k + 1 \in 1 .. Len(st) /\ rest[k] = st[k + 1]
  BY ONLY Popped, st \in Seq(Frames), st # <<>>
<1>2. /\ new \in Seq(Frames) /\ Len(new) = Len(rest) + 1 /\ new[1] = f
      /\ \A k \in 1 .. Len(new) : k = 1 \/ (k - 1 \in 1 .. Len(rest) /\ new[k] = rest[k - 1])
  BY ONLY <1>1, Pushed, f \in Frames
<1> HIDE DEF rest, new
<1>3. Len(new) = Len(st) /\ \A k \in 2 .. Len(st) : new[k] = st[k]
  <2>1. \A k \in 2 .. Len(st) : k \in 1 .. Len(new) /\ k # 1 /\ k - 1 + 1 = k
    BY ONLY <1>1, <1>2
  <2> QED BY ONLY <1>1, <1>2, <2>1
<1>4. \A k \in 1 .. Len(st) : new[k].op = st[k].op /\ new[k].at = st[k].at
  <2> TAKE k \in 1 .. Len(st)
  <2>1. k = 1 \/ k \in 2 .. Len(st)
    BY ONLY <1>1
  <2> QED BY ONLY <2>1, <1>2, <1>3, f.op = st[1].op, f.at = st[1].at
<1>5. ASSUME NEW k \in 1 .. Len(new), Waiting(new, k, None) PROVE HasStep(new[k], q, l)
  <2>1. k # 1
    BY <1>5 DEF Waiting
  <2>2. k \in 2 .. Len(st) /\ k \in 1 .. Len(st) /\ k - 1 \in 1 .. Len(st)
    BY ONLY <2>1, <1>1, <1>3, k \in 1 .. Len(new)
  <2>3. Waiting(st, k, r)
    BY ONLY <1>5, <2>1, <2>2, <1>4 DEF Waiting
  <2> QED BY ONLY <2>2, <2>3, <1>3, ChildInv(st, r, q, l) DEF ChildInv
<1>6. ASSUME NEW k \in 2 .. Len(new) PROVE Ending(new[k], q) \/ UndoneFirst(new, k - 1)
  <2>1. k \in 2 .. Len(st) /\ k \in 1 .. Len(st) /\ k - 1 \in 1 .. Len(st) /\ k - 1 + 1 = k
    BY ONLY <1>1, <1>3, k \in 2 .. Len(new)
  <2>2. UndoneFirst(new, k - 1) <=> UndoneFirst(st, k - 1)
    BY ONLY <2>1, <1>4 DEF UndoneFirst
  <2> QED BY ONLY <2>1, <2>2, <1>3, KillBelow(st, q) DEF KillBelow
<1> QED BY <1>5, <1>6 DEF ChildInv, KillBelow, new, rest
-----------------------------------------------------------------------------
(***************************************************************************)
(* The same of all that is known of the calls.                             *)
(***************************************************************************)
LEMMA Calls == ASSUME NEW st \in Seq(Frames), st # <<>>, NEW f \in Frames,
                      NEW q, NEW l, NEW hm, CallsInv(st, None, q, l, hm),
                      hm[f.at] = st[1].at, Ending(f, q),
                      f.op = "step" => st[1].op = "step" /\ HasStep(st[1], q, l)
               PROVE  CallsInv(<<f>> \o st, None, q, l, hm)
<1>1. StackInv(<<f>> \o st, hm)
  BY CallNests DEF CallsInv
<1>2. Len(st) > 0
  BY EmptySeq
<1>3. ChildInv(<<f>> \o st, None, q, l) /\ KillInv(<<f>> \o st, q)
  BY <1>2, PushKeeps DEF CallsInv, KillInv
<1> QED BY <1>1, <1>3 DEF CallsInv, AnswerInv

LEMMA Undoes == ASSUME NEW st \in Seq(Frames), st # <<>>, st[1].op = "kill",
                       NEW f \in Frames, f.op = "roll", f.at = st[1].at,
                       NEW q, NEW l, NEW hm, StackInv(st, hm), ChildInv(st, None, q, l),
                       KillBelow(st, q)
                PROVE  CallsInv(<<f>> \o st, None, q, l, hm)
<1>1. StackInv(<<f>> \o st, hm)
  BY UndoNests
<1>2. UndoneFirst(<<f>> \o st, 1)
  <2>1. Len(st) \in Nat /\ Len(st) > 0
    BY ONLY EmptySeq, st \in Seq(Frames), st # <<>>
  <2>2. (<<f>> \o st)[1] = f /\ (<<f>> \o st)[1 + 1] = st[1]
    BY ONLY ConsSeq, <2>1, st \in Seq(Frames), f \in Frames
  <2> QED BY ONLY <2>2, f.op = "roll", f.at = st[1].at, st[1].op = "kill" DEF UndoneFirst
<1>3. Ending(f, q)
  BY DEF Ending
<1>4. ChildInv(<<f>> \o st, None, q, l) /\ KillInv(<<f>> \o st, q)
  BY <1>2, <1>3, PushKeeps
<1> QED BY <1>1, <1>4 DEF CallsInv, AnswerInv

LEMMA Returns == ASSUME NEW st \in Seq(Frames), st # <<>>, NEW q, NEW l, NEW hm, NEW r, NEW r2,
                        CallsInv(st, r, q, l, hm),
                        r2 = None \/ (st[1].op = "step" /\ Len(st) > 1),
                        st[1].op = "roll" /\ st[1].at \in Stations => q[st[1].at] = <<>>
                 PROVE  CallsInv(Tail(st), r2, q, l, hm)
<1>1. StackInv(Tail(st), hm)
  BY ReturnNests DEF CallsInv
<1>2. ChildInv(Tail(st), r2, q, l) /\ KillInv(Tail(st), q)
  BY PopKeeps DEF CallsInv
<1>3. ASSUME r2 # None PROVE Len(Tail(st)) > 0 /\ Tail(st)[1].op = "step"
  <2>1. Len(st) \in Nat /\ Len(st) = Len(Tail(st)) + 1 /\ Len(Tail(st)) \in Nat
        /\ \A k \in 1 .. Len(Tail(st)) : Tail(st)[k] = st[k + 1]
    BY ONLY Popped, st \in Seq(Frames), st # <<>>
  <2>2. Len(Tail(st)) > 0 /\ Tail(st)[1] = st[2] /\ 1 \in 1 .. Len(st) /\ 2 \in 1 .. Len(st)
    BY ONLY <2>1, <1>3, r2 = None \/ (st[1].op = "step" /\ Len(st) > 1)
  <2>3. StepsBelow(st) /\ st[1].op = "step"
    BY <1>3 DEF CallsInv, StackInv
  <2> QED BY ONLY <2>2, <2>3 DEF StepsBelow
<1> QED BY <1>1, <1>2, <1>3 DEF CallsInv, AnswerInv

LEMMA Continues == ASSUME NEW st \in Seq(Frames), st # <<>>, NEW q, NEW l, NEW hm, NEW r,
                          CallsInv(st, r, q, l, hm),
                          NEW f \in Frames, f.op = st[1].op, f.at = st[1].at
                   PROVE  /\ StackInv(<<f>> \o Tail(st), hm)
                          /\ ChildInv(<<f>> \o Tail(st), None, q, l)
                          /\ KillBelow(<<f>> \o Tail(st), q)
                          /\ Ending(f, q) => CallsInv(<<f>> \o Tail(st), None, q, l, hm)
<1>1. StackInv(<<f>> \o Tail(st), hm)
  BY GoesOn DEF CallsInv
<1>2. ChildInv(<<f>> \o Tail(st), None, q, l) /\ KillBelow(<<f>> \o Tail(st), q)
  BY TurnKeeps DEF CallsInv, KillInv
<1>3. (<<f>> \o Tail(st))[1] = f
  BY ONLY Popped, ConsSeq, st \in Seq(Frames), st # <<>>, f \in Frames
<1> QED BY <1>1, <1>2, <1>3 DEF CallsInv, AnswerInv, KillInv

\* The user's own call.
LEMMA CallsFirst == ASSUME NEW f \in Frames, f.at = Root, f.i = 0, NEW q, NEW l, NEW hm,
                           hm[Root] = None
                    PROVE  CallsInv(<<f>>, None, q, l, hm)
<1>1. Len(<<f>>) = 1 /\ <<f>>[1] = f /\ 2 .. 1 = {} /\ 1 .. 1 = {1} /\ 1 .. 1 - 1 = {}
  OBVIOUS
<1>2. StackInv(<<f>>, hm)
  BY <1>1 DEF StackInv, Nested, AtOnce, StepsBelow
<1>3. ChildInv(<<f>>, None, q, l)
  BY <1>1 DEF ChildInv, Waiting
<1>4. KillInv(<<f>>, q)
  BY <1>1 DEF KillInv, KillBelow, Ending
<1> QED BY <1>2, <1>3, <1>4 DEF CallsInv, AnswerInv

\* No other call than the destruction of the step that is rolled back is on the
\* step of the top.
LEMMA Others == ASSUME NEW st \in Seq(Frames), NEW hm, StackInv(st, hm), NEW k \in 2 .. Len(st),
                       st[k].at = st[1].at
                PROVE  st[1].op = "roll" /\ st[k].op = "kill" /\ k = 2
<1>1. 1 \in 1 .. Len(st) /\ k \in 1 .. Len(st) /\ 1 < k /\ 1 + 1 = 2
  BY ONLY EmptySeq, st \in Seq(Frames), k \in 2 .. Len(st)
<1>2. k = 1 + 1 /\ UndoneFirst(st, 1)
  BY ONLY <1>1, StackInv(st, hm), st[k].at = st[1].at DEF StackInv, AtOnce
<1> QED BY ONLY <1>1, <1>2 DEF UndoneFirst

\* The container on top lets a step go; whoever waits below waits for another.
LEMMA Spends == ASSUME NEW st \in Seq(Frames), st # <<>>, NEW q, NEW l, NEW hm, NEW r,
                       CallsInv(st, r, q, l, hm), NEW q2, NEW l2,
                       \A s \in Stations : s # st[1].at => q2[s] = q[s],
                       \A p \in Parallels : p # st[1].at => l2[p] = l[p],
                       st[1].at \in Stations /\ q[st[1].at] = <<>> => q2[st[1].at] = <<>>
                PROVE  CallsInv(st, None, q2, l2, hm)
<1>1. Len(st) \in Nat /\ Len(st) > 0
  BY ONLY EmptySeq, st \in Seq(Frames), st # <<>>
<1>2. ASSUME NEW k \in 1 .. Len(st), Waiting(st, k, None) PROVE HasStep(st[k], q2, l2)
  <2>1. k # 1 /\ st[k].op = "step"
    BY <1>2 DEF Waiting
  <2>2. k \in 2 .. Len(st)
    BY ONLY <2>1, <1>1, k \in 1 .. Len(st)
  <2>3. st[k].at # st[1].at
    BY <2>1, <2>2, Others DEF CallsInv
  <2>4. Waiting(st, k, r)
    BY ONLY <1>2, <2>1 DEF Waiting
  <2>5. HasStep(st[k], q, l)
    BY <2>4 DEF CallsInv, ChildInv
  <2> QED BY <2>3, <2>5 DEF HasStep
<1>3. \A k \in 1 .. Len(st) : Ending(st[k], q) => Ending(st[k], q2)
  BY DEF Ending
<1>4. KillInv(st, q2)
  <2>1. \A k \in 2 .. Len(st) : k \in 1 .. Len(st)
    OBVIOUS
  <2>2. 1 \in 1 .. Len(st)
    BY ONLY <1>1
  <2> QED BY <2>1, <2>2, <1>1, <1>3 DEF CallsInv, KillInv, KillBelow
<1> QED BY <1>2, <1>4 DEF CallsInv, AnswerInv, ChildInv

\* A function adds a step to its station: only Step is on the stack.
LEMMA Grows == ASSUME NEW st \in Seq(Frames), NEW q, NEW l, NEW hm, NEW r,
                      CallsInv(st, r, q, l, hm), NEW q2, NEW hm2, StackInv(st, hm2),
                      \A s \in Stations : q[s] # <<>> => q2[s] # <<>>,
                      st = <<>> \/ st[1].op = "step"
               PROVE  CallsInv(st, r, q2, l, hm2)
<1>1. ChildInv(st, r, q2, l)
  BY DEF CallsInv, ChildInv, HasStep
<1>2. \A k \in 1 .. Len(st) : st[k].op = "step"
  <2> TAKE k \in 1 .. Len(st)
  <2>1. 1 \in 1 .. Len(st) /\ (k = 1 \/ 1 < k) /\ st # <<>>
    BY ONLY EmptySeq, st \in Seq(Frames), k \in 1 .. Len(st)
  <2> QED BY <2>1 DEF CallsInv, StackInv, StepsBelow
<1>3. \A k \in 1 .. Len(st) : Ending(st[k], q2)
  BY <1>2 DEF Ending
<1>4. KillInv(st, q2)
  <2>1. (Len(st) > 0 => 1 \in 1 .. Len(st)) /\ \A k \in 2 .. Len(st) : k \in 1 .. Len(st)
    BY ONLY EmptySeq, st \in Seq(Frames)
  <2> QED BY ONLY <2>1, <1>3 DEF KillInv, KillBelow
<1> QED BY <1>1, <1>4 DEF CallsInv
-----------------------------------------------------------------------------
(***************************************************************************)
(* What is in a container and what becomes of it.                          *)
(***************************************************************************)
LEMMA InHoused == ASSUME NEW C, NEW s \in [C -> Seq(Steps)], NEW hm, Housed(s, hm), NEW c \in C
                  PROVE  /\ s[c] # <<>> => s[c][1] \in Steps /\ hm[s[c][1]] = c
                         /\ \A k \in 1 .. Len(s[c]) : s[c][k] \in Steps /\ hm[s[c][k]] = c
<1>1. s[c] \in Seq(Steps)
  OBVIOUS
<1>2. s[c] # <<>> => 1 \in 1 .. Len(s[c])
  BY <1>1, EmptySeq
<1>3. \A k \in 1 .. Len(s[c]) : s[c][k] \in Steps
  BY <1>1, EmptySeq
<1> QED BY <1>2, <1>3 DEF Housed

LEMMA TailHoused == ASSUME NEW C, NEW s \in [C -> Seq(Steps)], NEW hm, Housed(s, hm),
                           NEW c \in C, s[c] # <<>>
                    PROVE  /\ [s EXCEPT ![c] = Tail(@)] \in [C -> Seq(Steps)]
                           /\ Housed([s EXCEPT ![c] = Tail(@)], hm)
<1> DEFINE new == [s EXCEPT ![c] = Tail(@)]
<1>1. /\ Tail(s[c]) \in Seq(Steps) /\ Len(s[c]) \in Nat /\ Len(s[c]) > 0
      /\ Len(Tail(s[c])) = Len(s[c]) - 1
      /\ \A k \in 1 .. Len(Tail(s[c])) : Tail(s[c])[k] = s[c][k + 1]
  BY TailSeq
<1>2. \A d \in C : \A k \in 1 .. Len(s[d]) : hm[s[d][k]] = d
  BY DEF Housed
<1>3. \A k \in 1 .. Len(Tail(s[c])) : hm[Tail(s[c])[k]] = c
  <2> TAKE k \in 1 .. Len(Tail(s[c]))
  <2>1. k + 1 \in 1 .. Len(s[c])
    BY ONLY <1>1
  <2> QED BY <2>1, <1>1, <1>2
<1>5. \A d \in C : \A k \in 1 .. Len(new[d]) : hm[new[d][k]] = d
  BY <1>2, <1>3
<1> QED BY <1>1, <1>5 DEF Housed

LEMMA ConsHoused == ASSUME NEW C, NEW s \in [C -> Seq(Steps)], NEW hm, Housed(s, hm),
                           NEW c \in C, NEW x \in Steps, hm[x] = c
                    PROVE  /\ [s EXCEPT ![c] = <<x>> \o @] \in [C -> Seq(Steps)]
                           /\ Housed([s EXCEPT ![c] = <<x>> \o @], hm)
<1> DEFINE new == [s EXCEPT ![c] = <<x>> \o @]
<1>1. /\ <<x>> \o s[c] \in Seq(Steps) /\ Len(s[c]) \in Nat
      /\ Len(<<x>> \o s[c]) = Len(s[c]) + 1 /\ (<<x>> \o s[c])[1] = x
      /\ \A k \in 2 .. Len(s[c]) + 1 : (<<x>> \o s[c])[k] = s[c][k - 1]
  BY ConsSeq, EmptySeq
<1>2. \A d \in C : \A k \in 1 .. Len(s[d]) : hm[s[d][k]] = d
  BY DEF Housed
<1>3. \A k \in 1 .. Len(<<x>> \o s[c]) : hm[(<<x>> \o s[c])[k]] = c
  <2> TAKE k \in 1 .. Len(<<x>> \o s[c])
  <2>1. k = 1 \/ (k \in 2 .. Len(s[c]) + 1 /\ k - 1 \in 1 .. Len(s[c]))
    BY ONLY <1>1
  <2> QED BY <2>1, <1>1, <1>2
<1>4. \A d \in C : \A k \in 1 .. Len(new[d]) : hm[new[d][k]] = d
  BY <1>2, <1>3
<1> QED BY <1>1, <1>4 DEF Housed

LEMMA AppendHoused == ASSUME NEW C, NEW s \in [C -> Seq(Steps)], NEW hm \in [Steps -> Steps \cup {None}],
                             Housed(s, hm), None \notin C, NEW x \in Steps, hm[x] = None, NEW c
                      PROVE  LET new == [hm EXCEPT ![x] = c]
                             IN  /\ Housed(s, new)
                                 /\ c \in C => /\ [s EXCEPT ![c] = Append(@, x)] \in [C -> Seq(Steps)]
                                               /\ Housed([s EXCEPT ![c] = Append(@, x)], new)
<1> DEFINE new == [hm EXCEPT ![x] = c]
           more == [s EXCEPT ![c] = Append(@, x)]
<1>1. \A d \in C : \A k \in 1 .. Len(s[d]) : hm[s[d][k]] = d /\ s[d][k] \in Steps
  BY EmptySeq DEF Housed
<1>2. \A d \in C : \A k \in 1 .. Len(s[d]) : new[s[d][k]] = d
  BY <1>1
<1>3. ASSUME c \in C PROVE more \in [C -> Seq(Steps)] /\ Housed(more, new)
  <2>1. /\ Append(s[c], x) \in Seq(Steps) /\ Len(s[c]) \in Nat
        /\ Len(Append(s[c], x)) = Len(s[c]) + 1 /\ Append(s[c], x)[Len(s[c]) + 1] = x
        /\ \A k \in 1 .. Len(s[c]) : Append(s[c], x)[k] = s[c][k]
    BY <1>3
  <2>2. new[x] = c
    OBVIOUS
  <2> HIDE DEF new
  <2>3. \A k \in 1 .. Len(Append(s[c], x)) : new[Append(s[c], x)[k]] = c
    <3> TAKE k \in 1 .. Len(Append(s[c], x))
    <3>1. k = Len(s[c]) + 1 \/ k \in 1 .. Len(s[c])
      BY ONLY <2>1
    <3> QED BY <3>1, <2>1, <2>2, <1>2, <1>3
  <2>4. \A d \in C : \A k \in 1 .. Len(more[d]) : new[more[d][k]] = d
    BY <2>3, <1>2
  <2> QED BY <2>1, <2>4 DEF Housed
<1> QED BY <1>2, <1>3 DEF Housed

LEMMA EraseHoused == ASSUME NEW C, NEW s \in [C -> Seq(Steps)], NEW hm, Housed(s, hm),
                            NEW c \in C, NEW n \in 1 .. Len(s[c])
                     PROVE  LET new == [s EXCEPT ![c] = SubSeq(@, 1, n - 1) \o SubSeq(@, n + 1, Len(@))]
                            IN  /\ new \in [C -> Seq(Steps)] /\ Housed(new, hm)
<1> DEFINE q == s[c]
           less == SubSeq(q, 1, n - 1) \o SubSeq(q, n + 1, Len(q))
           new == [s EXCEPT ![c] = less]
<1>1. q \in Seq(Steps) /\ n \in 1 .. Len(q) /\ Len(q) \in Nat
  BY EmptySeq
<1>2. \A k \in 1 .. Len(q) : hm[q[k]] = c /\ q[k] \in Steps
  BY EmptySeq DEF Housed
<1> HIDE DEF q
<1> DEFINE before == SubSeq(q, 1, n - 1)
           after  == SubSeq(q, n + 1, Len(q))
<1>7. /\ before \in Seq(Steps) /\ Len(before) = n - 1
      /\ \A k \in 1 .. Len(before) : before[k] = q[k]
  BY ONLY <1>1
<1>8. /\ after \in Seq(Steps) /\ Len(after) = Len(q) - n
      /\ \A k \in 1 .. Len(after) : after[k] = q[k + n]
  BY ONLY <1>1
<1> HIDE DEF before, after
<1>3. /\ less \in Seq(Steps) /\ Len(less) = Len(q) - 1
      /\ \A k \in 1 .. Len(less) : less[k] = q[k] \/ less[k] = q[k + 1]
  <2>1. /\ before \o after \in Seq(Steps) /\ Len(before \o after) = Len(before) + Len(after)
        /\ \A k \in 1 .. Len(before) + Len(after) :
             (before \o after)[k] = IF k <= Len(before) THEN before[k] ELSE after[k - Len(before)]
    BY ONLY <1>7, <1>8, ConcatSeq
  <2>2. less = before \o after
    BY DEF before, after
  <2> HIDE DEF less
  <2>3. less \in Seq(Steps) /\ Len(less) = Len(q) - 1
    <3>1. Len(before) + Len(after) = Len(q) - 1
      BY ONLY <1>1, <1>7, <1>8
    <3> QED BY ONLY <2>1, <2>2, <3>1
  <2>4. ASSUME NEW k \in 1 .. Len(less) PROVE less[k] = q[k] \/ less[k] = q[k + 1]
    <3>1. less[k] = IF k <= n - 1 THEN before[k] ELSE after[k - (n - 1)]
      BY ONLY <2>1, <2>2, <1>1, <1>7, <1>8, k \in 1 .. Len(less)
    <3>2. CASE k <= n - 1
      BY ONLY <3>1, <3>2, <1>1, <1>7, k \in 1 .. Len(less)
    <3>3. CASE ~(k <= n - 1)
      <4>1. k - (n - 1) \in 1 .. Len(after) /\ k - (n - 1) + n = k + 1
        BY ONLY <3>3, <2>3, <1>1, <1>8, k \in 1 .. Len(less)
      <4> QED BY ONLY <4>1, <3>1, <3>3, <1>8
    <3> QED BY ONLY <3>2, <3>3
  <2> QED BY ONLY <2>3, <2>4
<1>4. Len(less) = Len(q) - 1
  BY <1>3
<1> HIDE DEF less
<1>5. \A k \in 1 .. Len(less) : hm[less[k]] = c
  <2> TAKE k \in 1 .. Len(less)
  <2>1. k \in 1 .. Len(q) /\ k + 1 \in 1 .. Len(q)
    BY ONLY <1>1, <1>4
  <2> QED BY ONLY <2>1, <1>2, <1>3
<1>6. \A d \in C : \A k \in 1 .. Len(new[d]) : hm[new[d][k]] = d
  BY <1>5 DEF Housed
<1> QED BY <1>1, <1>2, <1>3, <1>6 DEF Housed, less, before, after, q
-----------------------------------------------------------------------------
(***************************************************************************)
(* The containers around a step: Up(x) is Above(home, x).                  *)
(***************************************************************************)
Closed(hm, A) == \A z \in A : hm[z] \in A \cup {None}

Above(hm, x) == {y \in Steps : \A A \in SUBSET Steps : x \in A /\ Closed(hm, A) => y \in A}

Acyclic(hm) == \A x \in Steps : hm[x] # None => x \notin Above(hm, hm[x])

LEMMA NoneIsNoStep == None \notin Steps
  BY StationAssumption DEF Steps

LEMMA AboveLeast == ASSUME NEW hm, NEW x, NEW A \in SUBSET Steps, x \in A, Closed(hm, A)
                    PROVE  Above(hm, x) \subseteq A
  BY DEF Above

LEMMA AboveClosed == ASSUME NEW hm \in [Steps -> Steps \cup {None}], NEW x \in Steps
                     PROVE  /\ x \in Above(hm, x) /\ Above(hm, x) \subseteq Steps
                            /\ Closed(hm, Above(hm, x))
<1>1. ASSUME NEW z \in Above(hm, x), hm[z] # None PROVE hm[z] \in Above(hm, x)
  BY <1>1 DEF Above, Closed
<1> QED BY <1>1 DEF Above, Closed

LEMMA AboveTrans == ASSUME NEW hm \in [Steps -> Steps \cup {None}], NEW x \in Steps,
                           NEW y \in Above(hm, x)
                    PROVE  Above(hm, y) \subseteq Above(hm, x)
  BY AboveClosed, AboveLeast

\* One step up.
LEMMA AboveHome == ASSUME NEW hm \in [Steps -> Steps \cup {None}], NEW x \in Steps
                   PROVE  /\ hm[x] = None => Above(hm, x) = {x}
                          /\ hm[x] # None => Above(hm, x) = {x} \cup Above(hm, hm[x])
<1>1. ASSUME hm[x] = None PROVE Above(hm, x) \subseteq {x}
  <2>1. {x} \in SUBSET Steps /\ x \in {x} /\ Closed(hm, {x})
    BY <1>1 DEF Closed
  <2> QED BY ONLY <2>1, AboveLeast
<1>2. ASSUME hm[x] # None PROVE Above(hm, x) = {x} \cup Above(hm, hm[x])
  <2>1. hm[x] \in Above(hm, x)
    BY <1>2, AboveClosed DEF Closed
  <2>2. Above(hm, hm[x]) \subseteq Above(hm, x)
    BY <2>1, AboveTrans
  <2>3. hm[x] \in Steps
    BY <1>2
  <2>4. Closed(hm, {x} \cup Above(hm, hm[x]))
    BY <2>3, AboveClosed DEF Closed
  <2>5. Above(hm, x) \subseteq {x} \cup Above(hm, hm[x])
    BY <2>3, <2>4, AboveClosed, AboveLeast
  <2> QED BY <2>2, <2>5, AboveClosed
<1> QED BY <1>1, <1>2, AboveClosed

\* What is above a step is a line.
LEMMA AboveLinear == ASSUME NEW hm \in [Steps -> Steps \cup {None}], NEW x \in Steps,
                            NEW y \in Above(hm, x), NEW z \in Above(hm, x)
                     PROVE  y \in Above(hm, z) \/ z \in Above(hm, y)
<1> DEFINE A == Above(hm, z) \cup {w \in Steps : z \in Above(hm, w)}
<1>1. z \in Steps /\ x \in A /\ A \subseteq Steps
  BY AboveClosed
<1>2. ASSUME NEW w \in A, hm[w] # None PROVE hm[w] \in A
  <2>1. CASE w \in Above(hm, z)
    BY <1>1, <1>2, <2>1, AboveClosed DEF Closed
  <2>2. CASE w \notin Above(hm, z)
    <3>1. w \in Steps /\ z \in Above(hm, w) /\ w # z /\ hm[w] \in Steps
      BY <1>1, <1>2, <2>2, AboveClosed
    <3>2. z \in Above(hm, hm[w])
      BY <1>2, <3>1, AboveHome
    <3> QED BY <3>1, <3>2
  <2> QED BY <2>1, <2>2
<1>3. Closed(hm, A)
  BY <1>2 DEF Closed
<1>4. Above(hm, x) \subseteq A
  <2> HIDE DEF A
  <2> QED BY ONLY <1>1, <1>3, AboveLeast
<1> QED BY <1>4

\* It has one end, and of two members of a container at most one.
LEMMA OneEnd == ASSUME NEW hm \in [Steps -> Steps \cup {None}], NEW x \in Steps,
                       NEW y \in Above(hm, x), NEW z \in Above(hm, x), hm[y] = None, hm[z] = None
                PROVE  y = z
<1>1. y \in Steps /\ z \in Steps
  BY AboveClosed
<1> QED BY <1>1, AboveLinear, AboveHome

LEMMA OneMember == ASSUME NEW hm \in [Steps -> Steps \cup {None}], Acyclic(hm), NEW x \in Steps,
                          NEW y \in Above(hm, x), NEW z \in Above(hm, x), hm[y] # None, hm[z] = hm[y]
                   PROVE  y = z
<1>1. y \in Steps /\ z \in Steps /\ hm[y] \in Steps
  BY AboveClosed
<1>2. y \notin Above(hm, hm[z]) /\ z \notin Above(hm, hm[y])
  BY <1>1 DEF Acyclic
<1> QED BY <1>1, <1>2, AboveLinear, AboveHome

\* A spare step is put in a container that it is not above of.
PutIn(hm, hm2, x, c) == /\ hm[x] = None /\ hm2[x] = c /\ x \notin Above(hm, c)
                        /\ \A y \in Steps : y # x => hm2[y] = hm[y]

LEMMA AboveGrows == ASSUME NEW hm \in [Steps -> Steps \cup {None}], NEW x \in Steps,
                           NEW c \in Steps, NEW hm2 \in [Steps -> Steps \cup {None}],
                           PutIn(hm, hm2, x, c), NEW z \in Steps
                    PROVE  /\ x \notin Above(hm, z) => Above(hm2, z) = Above(hm, z)
                           /\ Above(hm, z) \subseteq Above(hm2, z)
                           /\ Above(hm2, z) \subseteq Above(hm, z) \cup Above(hm, c)
<1>1. /\ hm[x] = None /\ hm2[x] = c /\ x \notin Above(hm, c)
      /\ \A y \in Steps : y # x => hm2[y] = hm[y]
  BY DEF PutIn
<1>2. ASSUME x \notin Above(hm, z) PROVE Above(hm2, z) \subseteq Above(hm, z)
  <2>1. Closed(hm2, Above(hm, z))
    BY <1>1, <1>2, AboveClosed DEF Closed
  <2> QED BY <2>1, AboveClosed, AboveLeast
<1>3. Above(hm, z) \subseteq Above(hm2, z)
  <2>1. Above(hm2, z) \subseteq Steps /\ z \in Above(hm2, z) /\ Closed(hm2, Above(hm2, z))
    BY AboveClosed
  <2>2. Closed(hm, Above(hm2, z))
    BY <1>1, <2>1 DEF Closed
  <2> QED BY <2>1, <2>2, AboveLeast
<1>4. Above(hm2, z) \subseteq Above(hm, z) \cup Above(hm, c)
  <2>1. /\ Above(hm, z) \subseteq Steps /\ z \in Above(hm, z) /\ Closed(hm, Above(hm, z))
        /\ Above(hm, c) \subseteq Steps /\ c \in Above(hm, c) /\ Closed(hm, Above(hm, c))
    BY AboveClosed
  <2>2. Closed(hm2, Above(hm, z) \cup Above(hm, c))
    BY <1>1, <2>1 DEF Closed
  <2> QED BY <2>1, <2>2, AboveLeast
<1> QED BY <1>2, <1>3, <1>4

LEMMA StaysAcyclic == ASSUME NEW hm \in [Steps -> Steps \cup {None}], NEW x \in Steps,
                             NEW c \in Steps, NEW hm2 \in [Steps -> Steps \cup {None}],
                             PutIn(hm, hm2, x, c), Acyclic(hm)
                      PROVE  Acyclic(hm2)
<1>3. /\ hm[x] = None /\ hm2[x] = c /\ x \notin Above(hm, c)
      /\ \A y \in Steps : y # x => hm2[y] = hm[y]
  BY DEF PutIn
<1>0. \A z \in Steps : /\ x \notin Above(hm, z) => Above(hm2, z) = Above(hm, z)
                      /\ Above(hm2, z) \subseteq Above(hm, z) \cup Above(hm, c)
  BY AboveGrows
<1> SUFFICES ASSUME NEW y \in Steps, hm2[y] # None PROVE y \notin Above(hm2, hm2[y])
  BY DEF Acyclic
<1>1. CASE y = x
  BY <1>0, <1>1, <1>3
<1>2. CASE y # x
  <2> DEFINE w == hm[y]
  <2>1. w \in Steps /\ hm2[y] = w /\ y \notin Above(hm, w) /\ w # None
    BY <1>2, <1>3 DEF Acyclic
  <2> HIDE DEF w
  <2>2. CASE x \notin Above(hm, w)
    BY <1>0, <2>1, <2>2
  <2>3. CASE x \in Above(hm, w)
    <3>1. ASSUME y \in Above(hm, c) PROVE FALSE
      <4>1. w \in Above(hm, c)
        BY <1>3, <2>1, <3>1, AboveClosed DEF Closed, w
      <4>2. Above(hm, w) \subseteq Above(hm, c)
        BY ONLY <4>1, AboveTrans, hm \in [Steps -> Steps \cup {None}], c \in Steps
      <4> QED BY ONLY <1>3, <2>3, <4>2
    <3> QED BY ONLY <1>0, <2>1, <3>1
  <2> QED BY <2>2, <2>3
<1> QED BY <1>1, <1>2
-----------------------------------------------------------------------------
\* Only stations and parallel executors contain, and nothing contains itself; the
\* function a station is made of is in it from the beginning.
TreeInv(hm) == /\ hm \in [Steps -> Stations \cup Parallels \cup {None}]
               /\ Acyclic(hm)
               /\ \A s \in DOMAIN Body : hm[Body[s]] = s

\* Every caller is above whom it calls.
CallersAbove(st, hm) ==
  \A i, j \in 1 .. Len(st) : i <= j => st[j].at \in Above(hm, st[i].at)

\* What is above the stations of the guards armed so far, all in the root.
Paths == [g \in 1 .. Len(owner) |-> Up(owner[g])]

ArmedInv(w) == \A g \in DOMAIN w : Root \in w[g]

\* No guard was armed in y; those in y were armed before those in x.
Fresh(w, y)     == \A g \in DOMAIN w : y \notin w[g]
Before(w, y, x) == \A h, g \in DOMAIN w : y \in w[h] /\ x \in w[g] => h < g

Distinct(seq) == \A i, j \in 1 .. Len(seq) : seq[i] = seq[j] => i = j

\* A station's steps, those left and those done: only the first that is left may
\* have armed anything, and the done ones armed in the order they were done.
Ordered(q, d, w) ==
  /\ Distinct(q) /\ Distinct(d) /\ Elems(q) \cap Elems(d) = {}
  /\ q # <<>> => \A x \in Elems(Tail(q)) : Fresh(w, x)
  /\ \A i, j \in 1 .. Len(d) : i < j => Before(w, d[j], d[i])
  /\ \A y \in Elems(d), x \in Elems(q) : Before(w, y, x)

OrderInv(q, d, w) == \A c \in Stations : Ordered(q[c], d[c], w)

\* The step of a station that is in a call: whatever is done came before it, what
\* is left has not begun.
Latest(x, q, d, w) ==
  /\ x \notin Elems(d)
  /\ \A y \in Elems(d) : Before(w, y, x)
  /\ q # <<>> => x \notin Elems(Tail(q)) /\ (q[1] # x => Fresh(w, q[1]))

ActiveAt(f, c, q, d, w) ==
  c \in Stations => /\ Latest(f.at, q[c], d[c], w)
                    /\ f.op = "step" => q[c] # <<>> /\ q[c][1] = f.at

ActiveInv(st, hm, q, d, w) == \A f \in Elems(st) : ActiveAt(f, hm[f.at], q, d, w)

\* The function of a station is its first step: nobody else arms a guard in the
\* station before it is done, and then it cannot arm one itself.
BodyInv(q, w, o) ==
  \A s \in DOMAIN Body : Body[s] \in Elems(q[s]) =>
     /\ Body[s] \notin Elems(Tail(q[s]))
     /\ \A g \in DOMAIN w : s \in w[g] => o[g] = s

InnerLater(w, o) ==
  \A g, h \in DOMAIN w : o[h] # Root /\ o[g] # o[h] /\ o[h] \in w[g] => h < g

UndoOrder(st, hm, q, d, w, o) ==
  /\ TreeInv(hm) /\ CallersAbove(st, hm) /\ ArmedInv(w) /\ OrderInv(q, d, w)
  /\ ActiveInv(st, hm, q, d, w) /\ BodyInv(q, w, o) /\ InnerLater(w, o)

\* A guard that waits was armed by its station, the later the nearer to the top.
GuardInv(gs, o, cd) ==
  /\ \A s \in Stations : \A k \in 1 .. Len(gs[s]) :
       /\ gs[s][k] \in 1 .. Len(o) /\ o[gs[s][k]] = s
       /\ \A m \in 1 .. Len(cd) : cd[m] # gs[s][k]
       /\ \A m \in 1 .. Len(gs[s]) : m < k => gs[s][k] < gs[s][m]
  /\ \A m \in 1 .. Len(cd) : cd[m] \in 1 .. Len(o)

\* A step that has been taken out of its container is empty, or being destroyed;
\* when its own members are next, its guards are gone.
Full(x, q, d, gs, l) == \/ x \in Stations /\ (q[x] # <<>> \/ d[x] # <<>> \/ gs[x] # <<>>)
                        \/ x \in Parallels /\ l[x] # <<>>

Inside(c, q, d, l) == IF c \in Parallels THEN Elems(l[c]) ELSE Elems(q[c]) \cup Elems(d[c])

Killed(st, x) == \E f \in Elems(st) : f.op = "kill" /\ f.at = x

Bare(f, gs) == f.op = "kill" /\ f.at \in Stations /\ f.i = 2 => gs[f.at] = <<>>

TakenOut(st, hm, q, d, gs, l) ==
  /\ \A x \in Steps : hm[x] # None /\ Full(x, q, d, gs, l) =>
                        x \in Inside(hm[x], q, d, l) \/ Killed(st, x)
  /\ \A f \in Elems(st) : Bare(f, gs)

UndoInv == /\ UndoOrder(stack, home, queue, done, Paths, owner)
           /\ GuardInv(guards, owner, called)
           /\ TakenOut(stack, home, queue, done, guards, list)
-----------------------------------------------------------------------------
LEMMA NoElems == Elems(<<>>) = {}
<1>1. Len(<<>>) = 0 /\ 1 .. 0 = {}
  OBVIOUS
<1> QED BY <1>1 DEF Elems

LEMMA ElemsTail == ASSUME NEW S, NEW s \in Seq(S), s # <<>>
                   PROVE  /\ Tail(s) \in Seq(S) /\ s[1] \in S
                          /\ Elems(s) = {s[1]} \cup Elems(Tail(s))
                          /\ \A k \in 1 .. Len(Tail(s)) : k + 1 \in 2 .. Len(s) /\ Tail(s)[k] = s[k + 1]
<1>1. /\ Tail(s) \in Seq(S) /\ Len(s) \in Nat /\ Len(s) > 0 /\ Len(Tail(s)) = Len(s) - 1
      /\ \A k \in 1 .. Len(Tail(s)) : Tail(s)[k] = s[k + 1]
      /\ s[1] \in S
  BY ONLY TailSeq, s \in Seq(S), s # <<>>
<1> DEFINE t == Tail(s)
<1> HIDE DEF t
<1>2. /\ 1 \in 1 .. Len(s)
      /\ \A k \in 1 .. Len(t) : k + 1 \in 2 .. Len(s) /\ k + 1 \in 1 .. Len(s) /\ t[k] = s[k + 1]
      /\ \A k \in 1 .. Len(s) : k = 1 \/ (k - 1 \in 1 .. Len(t) /\ t[k - 1] = s[k])
  <2>1. Len(t) = Len(s) - 1 /\ \A k \in 1 .. Len(t) : t[k] = s[k + 1]
    BY <1>1 DEF t
  <2> QED BY ONLY <1>1, <2>1
<1>3. Elems(s) = {s[1]} \cup Elems(t)
  BY ONLY <1>2 DEF Elems
<1> QED BY <1>1, <1>2, <1>3 DEF t

LEMMA ElemsCons == ASSUME NEW S, NEW s \in Seq(S), NEW e \in S
                   PROVE  Elems(<<e>> \o s) = {e} \cup Elems(s)
<1> DEFINE t == <<e>> \o s
<1>1. /\ Len(t) = Len(s) + 1 /\ t[1] = e /\ Len(s) \in Nat
      /\ \A k \in 2 .. Len(s) + 1 : t[k] = s[k - 1]
  BY ONLY ConsSeq, EmptySeq, s \in Seq(S), e \in S
<1> HIDE DEF t
<1>2. /\ 1 \in 1 .. Len(t)
      /\ \A k \in 1 .. Len(t) : k = 1 \/ (k - 1 \in 1 .. Len(s) /\ t[k] = s[k - 1])
      /\ \A k \in 1 .. Len(s) : k + 1 \in 1 .. Len(t) /\ t[k + 1] = s[k]
  <2>1. \A k \in 1 .. Len(s) : k + 1 \in 2 .. Len(s) + 1 /\ k + 1 - 1 = k
    BY ONLY <1>1
  <2> QED BY ONLY <1>1, <2>1
<1>3. Elems(t) = {e} \cup Elems(s)
  BY ONLY <1>1, <1>2 DEF Elems
<1> QED BY <1>3 DEF t

LEMMA ElemsAppend == ASSUME NEW S, NEW s \in Seq(S), NEW e \in S
                     PROVE  /\ Append(s, e) \in Seq(S) /\ Append(s, e) # <<>>
                            /\ Elems(Append(s, e)) = Elems(s) \cup {e}
                            /\ Len(s) \in Nat /\ Len(Append(s, e)) = Len(s) + 1
                            /\ Append(s, e)[Len(s) + 1] = e
                            /\ \A k \in 1 .. Len(s) : Append(s, e)[k] = s[k]
<1> DEFINE t == Append(s, e)
<1>1. /\ t \in Seq(S) /\ Len(t) = Len(s) + 1 /\ t[Len(s) + 1] = e /\ Len(s) \in Nat
      /\ \A k \in 1 .. Len(s) : t[k] = s[k]
  BY ONLY s \in Seq(S), e \in S
<1> HIDE DEF t
<1>2. /\ \A k \in 1 .. Len(t) : k = Len(s) + 1 \/ k \in 1 .. Len(s)
      /\ \A k \in 1 .. Len(s) : k \in 1 .. Len(t)
      /\ Len(s) + 1 \in 1 .. Len(t)
  BY ONLY <1>1
<1>3. Elems(t) = Elems(s) \cup {e}
  BY ONLY <1>1, <1>2 DEF Elems
<1>4. t # <<>>
  BY ONLY <1>1
<1> QED BY <1>1, <1>3, <1>4 DEF t

LEMMA TailDistinct == ASSUME NEW S, NEW s \in Seq(S), s # <<>>, Distinct(s)
                      PROVE  Distinct(Tail(s)) /\ s[1] \notin Elems(Tail(s))
<1> DEFINE t == Tail(s)
<1>1. \A k \in 1 .. Len(t) : k + 1 \in 2 .. Len(s) /\ t[k] = s[k + 1] /\ k \in Nat
  BY ONLY ElemsTail, s \in Seq(S), s # <<>>
<1>2. Len(s) \in Nat /\ Len(s) > 0
  BY ONLY EmptySeq, s \in Seq(S), s # <<>>
<1> HIDE DEF t
<1>3. 1 \in 1 .. Len(s) /\ \A k \in 1 .. Len(t) : k + 1 \in 1 .. Len(s) /\ k + 1 # 1
  BY ONLY <1>1, <1>2
<1>4. \A i, j \in 1 .. Len(t) : i + 1 = j + 1 => i = j
  BY ONLY <1>1
<1>5. Distinct(t)
  BY ONLY <1>1, <1>3, <1>4, Distinct(s) DEF Distinct
<1>6. s[1] \notin Elems(t)
  BY ONLY <1>1, <1>3, Distinct(s) DEF Distinct, Elems
<1> QED BY <1>5, <1>6 DEF t

LEMMA TailAppend == ASSUME NEW S, NEW s \in Seq(S), NEW e \in S
                    PROVE  /\ Elems(Tail(Append(s, e))) = IF s = <<>> THEN {} ELSE Elems(Tail(s)) \cup {e}
                           /\ Append(s, e)[1] = IF s = <<>> THEN e ELSE s[1]
<1>1. CASE s = <<>>
  <2>1. Append(s, e) = <<e>> /\ Tail(<<e>>) = <<>> /\ 1 .. Len(<<>>) = {} /\ <<e>>[1] = e
    BY <1>1
  <2> QED BY ONLY <1>1, <2>1 DEF Elems
<1>2. CASE s # <<>>
  <2>1. Tail(Append(s, e)) = Append(Tail(s), e) /\ Append(s, e)[1] = s[1]
    <3>1. Len(s) \in Nat /\ Len(s) > 0
      BY <1>2, EmptySeq
    <3>2. Tail(Append(s, e)) = Append(Tail(s), e)
      BY ONLY s \in Seq(S), e \in S, <1>2, <3>1
    <3>3. \A k \in 1 .. Len(s) : Append(s, e)[k] = s[k]
      BY ONLY ElemsAppend, s \in Seq(S), e \in S
    <3>4. 1 \in 1 .. Len(s)
      BY ONLY <3>1
    <3> QED BY ONLY <3>2, <3>3, <3>4
  <2>2. Elems(Append(Tail(s), e)) = Elems(Tail(s)) \cup {e}
    <3>1. PICK t \in Seq(S) : t = Tail(s)
      BY ONLY <1>2, TailSeq, s \in Seq(S)
    <3>2. Elems(Append(t, e)) = Elems(t) \cup {e}
      BY ONLY ElemsAppend, t \in Seq(S), e \in S
    <3> QED BY ONLY <3>1, <3>2
  <2> QED BY ONLY <1>2, <2>1, <2>2
<1> QED BY ONLY <1>1, <1>2
-----------------------------------------------------------------------------
(***************************************************************************)
(* What happens to the steps of a station.                                 *)
(***************************************************************************)
\* The first step is called.
LEMMA HeadIsLatest == ASSUME NEW q \in Seq(Steps), NEW d \in Seq(Steps), NEW w, Ordered(q, d, w), q # <<>>
                      PROVE  Latest(q[1], q, d, w)
<1>1. q[1] \in Elems(q)
  BY ElemsTail
<1>2. q[1] \notin Elems(Tail(q))
  BY TailDistinct DEF Ordered
<1> QED BY <1>1, <1>2 DEF Ordered, Latest

\* It is destroyed, not done ...
LEMMA HeadDropped == ASSUME NEW q \in Seq(Steps), NEW d \in Seq(Steps), NEW w, Ordered(q, d, w), q # <<>>
                     PROVE  Ordered(Tail(q), d, w) /\ Latest(q[1], Tail(q), d, w)
<1> DEFINE t == Tail(q)
<1>1. t \in Seq(Steps) /\ Elems(q) = {q[1]} \cup Elems(t) /\ q[1] \notin Elems(t) /\ Distinct(t)
  BY ElemsTail, TailDistinct DEF Ordered
<1>2. \A x \in Elems(t) : Fresh(w, x)
  BY DEF Ordered
<1> HIDE DEF t
<1>3. t # <<>> => Elems(t) = {t[1]} \cup Elems(Tail(t))
  BY <1>1, ElemsTail
<1>4. Ordered(t, d, w)
  BY <1>1, <1>2, <1>3 DEF Ordered
<1>5. Latest(q[1], t, d, w)
  BY <1>1, <1>2, <1>3 DEF Ordered, Latest
<1> QED BY <1>4, <1>5 DEF t

\* ... or done.
LEMMA HeadDone == ASSUME NEW q \in Seq(Steps), NEW d \in Seq(Steps), NEW w, Ordered(q, d, w), q # <<>>
                  PROVE  Ordered(Tail(q), <<q[1]>> \o d, w)
<1> DEFINE t == Tail(q)
           x == q[1]
           e == <<x>> \o d
<1>1. t \in Seq(Steps) /\ x \in Steps /\ Elems(q) = {x} \cup Elems(t) /\ x \notin Elems(t) /\ Distinct(t)
  BY ElemsTail, TailDistinct DEF Ordered
<1>2. /\ \A y \in Elems(t) : Fresh(w, y)
      /\ x \notin Elems(d) /\ Elems(t) \cap Elems(d) = {}
      /\ \A y \in Elems(d) : Before(w, y, x)
      /\ \A i, j \in 1 .. Len(d) : i < j => Before(w, d[j], d[i])
      /\ Distinct(d)
  BY <1>1 DEF Ordered
<1> HIDE DEF t, x
<1>3. t # <<>> => Elems(t) = {t[1]} \cup Elems(Tail(t))
  BY <1>1, ElemsTail
<1>4. /\ Len(d) \in Nat /\ Len(e) = Len(d) + 1 /\ e[1] = x
      /\ \A k \in 2 .. Len(d) + 1 : e[k] = d[k - 1]
  BY ONLY ConsSeq, EmptySeq, d \in Seq(Steps), <1>1
<1>5. Elems(e) = {x} \cup Elems(d)
  BY ONLY ElemsCons, d \in Seq(Steps), <1>1
<1> HIDE DEF e
<1>6. \A k \in 1 .. Len(e) : k = 1 \/ (k - 1 \in 1 .. Len(d) /\ e[k] = d[k - 1])
  BY ONLY <1>4
<1>7. \A k \in 1 .. Len(d) : d[k] \in Elems(d)
  BY DEF Elems
<1>8. Distinct(e)
  <2> SUFFICES ASSUME NEW i \in 1 .. Len(e), NEW j \in 1 .. Len(e), e[i] = e[j] PROVE i = j
    BY DEF Distinct
  <2>1. CASE i # 1 /\ j # 1
    <3>1. i - 1 = j - 1
      BY ONLY <2>1, <1>2, <1>6, e[i] = e[j], i \in 1 .. Len(e), j \in 1 .. Len(e) DEF Distinct
    <3> QED BY ONLY <3>1, <1>4, i \in 1 .. Len(e), j \in 1 .. Len(e)
  <2>2. CASE i = 1 \/ j = 1
    BY ONLY <2>2, <1>2, <1>4, <1>6, <1>7, e[i] = e[j], i \in 1 .. Len(e), j \in 1 .. Len(e)
  <2> QED BY <2>1, <2>2
<1>9. ASSUME NEW i \in 1 .. Len(e), NEW j \in 1 .. Len(e), i < j PROVE Before(w, e[j], e[i])
  <2>1. j # 1 /\ j - 1 \in 1 .. Len(d) /\ e[j] = d[j - 1]
    BY ONLY <1>4, <1>6, i \in 1 .. Len(e), j \in 1 .. Len(e), i < j
  <2>2. CASE i = 1
    BY ONLY <2>1, <2>2, <1>2, <1>4, <1>7
  <2>3. CASE i # 1
    <3>1. i - 1 \in 1 .. Len(d) /\ e[i] = d[i - 1] /\ i - 1 < j - 1
      BY ONLY <2>3, <1>4, <1>6, i \in 1 .. Len(e), j \in 1 .. Len(e), i < j
    <3> QED BY ONLY <2>1, <3>1, <1>2
  <2> QED BY <2>2, <2>3
<1>10. \A y \in Elems(e), z \in Elems(t) : Before(w, y, z)
  BY ONLY <1>2 DEF Before, Fresh
<1>11. Ordered(t, e, w)
  BY ONLY <1>1, <1>2, <1>3, <1>5, <1>8, <1>9, <1>10 DEF Ordered
<1> QED BY <1>11 DEF t, x, e

\* The latest that was done is undone or destroyed.
LEMMA DoneDropped == ASSUME NEW d \in Seq(Steps), NEW w, Ordered(<<>>, d, w), d # <<>>
                     PROVE  Ordered(<<>>, Tail(d), w) /\ Latest(d[1], <<>>, Tail(d), w)
<1> DEFINE t == Tail(d)
<1>1. t \in Seq(Steps) /\ Elems(d) = {d[1]} \cup Elems(t) /\ d[1] \notin Elems(t) /\ Distinct(t)
  BY ElemsTail, TailDistinct DEF Ordered
<1>2. /\ Len(d) \in Nat /\ Len(d) > 0 /\ Len(t) = Len(d) - 1
      /\ \A k \in 1 .. Len(t) : t[k] = d[k + 1]
  BY ONLY TailSeq, d \in Seq(Steps), d # <<>>
<1> HIDE DEF t
<1>3. 1 \in 1 .. Len(d) /\ \A k \in 1 .. Len(t) : k + 1 \in 1 .. Len(d) /\ 1 < k + 1
  BY ONLY <1>2
<1>4. \A i, j \in 1 .. Len(d) : i < j => Before(w, d[j], d[i])
  BY DEF Ordered
<1>5. \A k \in 1 .. Len(t) : Before(w, t[k], d[1])
  BY ONLY <1>2, <1>3, <1>4
<1>6. \A i, j \in 1 .. Len(t) : i < j => i + 1 < j + 1
  BY ONLY <1>2
<1>7. \A i, j \in 1 .. Len(t) : i < j => Before(w, t[j], t[i])
  BY ONLY <1>2, <1>3, <1>4, <1>6
<1>8. Ordered(<<>>, t, w)
  BY <1>1, <1>7 DEF Ordered
<1>9. \A y \in Elems(t) : Before(w, y, d[1])
  BY ONLY <1>5 DEF Elems
<1>10. Latest(d[1], <<>>, t, w)
  BY ONLY <1>1, <1>9 DEF Latest
<1> QED BY <1>8, <1>10 DEF t

\* A step is added.
LEMMA StepAdded == ASSUME NEW q \in Seq(Steps), NEW d \in Seq(Steps), NEW w, Ordered(q, d, w),
                          NEW x \in Steps, x \notin Elems(q), x \notin Elems(d), Fresh(w, x)
                   PROVE  /\ Ordered(Append(q, x), d, w)
                          /\ \A z : z # x /\ Latest(z, q, d, w) => Latest(z, Append(q, x), d, w)
<1> DEFINE t == Append(q, x)
<1>1. /\ t \in Seq(Steps) /\ t # <<>> /\ Elems(t) = Elems(q) \cup {x}
      /\ Len(q) \in Nat /\ Len(t) = Len(q) + 1 /\ t[Len(q) + 1] = x
      /\ \A k \in 1 .. Len(q) : t[k] = q[k]
  BY ONLY ElemsAppend, q \in Seq(Steps), x \in Steps
<1>2. /\ Elems(Tail(t)) = IF q = <<>> THEN {} ELSE Elems(Tail(q)) \cup {x}
      /\ t[1] = IF q = <<>> THEN x ELSE q[1]
  BY ONLY TailAppend, q \in Seq(Steps), x \in Steps
<1> HIDE DEF t
<1>3. Distinct(t)
  <2> SUFFICES ASSUME NEW i \in 1 .. Len(t), NEW j \in 1 .. Len(t), t[i] = t[j] PROVE i = j
    BY DEF Distinct
  <2>1. \A k \in 1 .. Len(t) : (k = Len(q) + 1 /\ t[k] = x) \/ (k \in 1 .. Len(q) /\ t[k] = q[k])
    BY ONLY <1>1
  <2>2. \A k \in 1 .. Len(q) : q[k] # x
    BY ONLY x \notin Elems(q) DEF Elems
  <2>3. Distinct(q)
    BY DEF Ordered
  <2> QED BY ONLY <2>1, <2>2, <2>3, t[i] = t[j], i \in 1 .. Len(t), j \in 1 .. Len(t) DEF Distinct
<1>4. \A y \in Elems(d) : Before(w, y, x)
  BY DEF Fresh, Before
<1>5. Ordered(t, d, w)
  BY <1>1, <1>2, <1>3, <1>4 DEF Ordered
<1>6. \A z : z # x /\ Latest(z, q, d, w) => Latest(z, t, d, w)
  BY <1>2 DEF Latest
<1> QED BY <1>5, <1>6 DEF t

\* A guard is armed in a step that is in a call, or in none of these.
LEMMA GuardAdded == ASSUME NEW q \in Seq(Steps), NEW d \in Seq(Steps), NEW n \in Nat,
                           NEW w, DOMAIN w = 1 .. n,
                           NEW w2, DOMAIN w2 = 1 .. n + 1, \A g \in 1 .. n : w2[g] = w[g],
                           \A y \in w2[n + 1] : y \notin Elems(d) /\ (q # <<>> => y \notin Elems(Tail(q)))
                    PROVE  /\ Ordered(q, d, w) => Ordered(q, d, w2)
                           /\ \A x : /\ Latest(x, q, d, w)
                                     /\ q # <<>> /\ q[1] # x => q[1] \notin w2[n + 1]
                                     => Latest(x, q, d, w2)
<1>1. \A g \in 1 .. n + 1 : g = n + 1 \/ (g \in 1 .. n /\ g < n + 1)
  OBVIOUS
<1>2. \A y \in Elems(d) : \A x : Before(w, y, x) => Before(w2, y, x)
  BY <1>1 DEF Before
<1>3. \A y : y \notin w2[n + 1] /\ Fresh(w, y) => Fresh(w2, y)
  BY <1>1 DEF Fresh
<1>4. \A k \in 1 .. Len(d) : d[k] \in Elems(d)
  BY DEF Elems
<1>5. Ordered(q, d, w) => Ordered(q, d, w2)
  BY <1>2, <1>3, <1>4 DEF Ordered
<1>6. \A x : Latest(x, q, d, w) /\ (q # <<>> /\ q[1] # x => q[1] \notin w2[n + 1]) => Latest(x, q, d, w2)
  BY <1>2, <1>3 DEF Latest
<1> QED BY <1>5, <1>6
-----------------------------------------------------------------------------
(***************************************************************************)
(* What happens to the calls.                                              *)
(***************************************************************************)
LEMMA CallersPush == ASSUME NEW st \in Seq(Frames), st # <<>>, NEW f \in Frames,
                            NEW hm \in [Steps -> Steps \cup {None}], CallersAbove(st, hm),
                            hm[f.at] = st[1].at \/ f.at = st[1].at
                     PROVE  CallersAbove(<<f>> \o st, hm)
<1> DEFINE new == <<f>> \o st
<1>1. /\ Len(new) \in Nat /\ Len(st) \in Nat /\ Len(new) = Len(st) + 1 /\ new[1] = f
      /\ \A k \in 1 .. Len(new) : k = 1 \/ (k - 1 \in 1 .. Len(st) /\ new[k] = st[k - 1])
  BY ONLY Pushed, st \in Seq(Frames), f \in Frames
<1> HIDE DEF new
<1>2. Len(st) > 0 /\ \A k \in 1 .. Len(st) : st[k] \in Frames
  BY ONLY EmptySeq, st \in Seq(Frames), st # <<>>
<1>3. f.at \in Steps /\ st[1].at \in Steps /\ 1 \in 1 .. Len(st)
  BY <1>1, <1>2 DEF Frames
<1>4. f.at \in Above(hm, f.at) /\ Above(hm, st[1].at) \subseteq Above(hm, f.at)
  BY <1>3, NoneIsNoStep, AboveClosed, AboveHome
<1> SUFFICES ASSUME NEW i \in 1 .. Len(new), NEW j \in 1 .. Len(new), i <= j
             PROVE  new[j].at \in Above(hm, new[i].at)
  BY DEF CallersAbove, new
<1>5. CASE j = 1
  <2>1. i = 1
    BY ONLY <1>5, <1>1, i \in 1 .. Len(new), i <= j
  <2> QED BY ONLY <2>1, <1>5, <1>1, <1>4
<1>6. CASE j # 1
  <2>1. j - 1 \in 1 .. Len(st) /\ new[j] = st[j - 1] /\ 1 <= j - 1
    BY ONLY <1>6, <1>1, j \in 1 .. Len(new)
  <2>2. CASE i = 1
    <3>1. st[j - 1].at \in Above(hm, st[1].at)
      BY ONLY <2>1, <1>3, CallersAbove(st, hm) DEF CallersAbove
    <3> QED BY ONLY <3>1, <2>1, <2>2, <1>1, <1>4
  <2>3. CASE i # 1
    <3>1. i - 1 \in 1 .. Len(st) /\ new[i] = st[i - 1] /\ i - 1 <= j - 1
      BY ONLY <2>3, <1>1, i \in 1 .. Len(new), j \in 1 .. Len(new), i <= j
    <3> QED BY ONLY <2>1, <3>1, CallersAbove(st, hm) DEF CallersAbove
  <2> QED BY <2>2, <2>3
<1> QED BY <1>5, <1>6

LEMMA CallersPop == ASSUME NEW st \in Seq(Frames), st # <<>>, NEW hm, CallersAbove(st, hm)
                    PROVE  CallersAbove(Tail(st), hm)
<1> DEFINE new == Tail(st)
<1>1. Len(new) \in Nat /\ \A k \in 1 .. Len(new) : k + 1 \in 1 .. Len(st) /\ new[k] = st[k + 1]
  BY ONLY Popped, st \in Seq(Frames), st # <<>>
<1> HIDE DEF new
<1>2. \A i, j \in 1 .. Len(new) : i <= j => i + 1 <= j + 1
  BY ONLY <1>1
<1>3. CallersAbove(new, hm)
  BY ONLY <1>1, <1>2, CallersAbove(st, hm) DEF CallersAbove
<1> QED BY <1>3 DEF new

LEMMA CallersTurn == ASSUME NEW st \in Seq(Frames), st # <<>>, NEW g \in Frames, g.at = st[1].at,
                            NEW hm, CallersAbove(st, hm)
                     PROVE  CallersAbove(<<g>> \o Tail(st), hm)
<1> DEFINE rest == Tail(st)
           new == <<g>> \o rest
<1>1. /\ rest \in Seq(Frames) /\ Len(st) \in Nat /\ Len(st) = Len(rest) + 1
      /\ \A k \in 1 .. Len(rest) : k + 1 \in 1 .. Len(st) /\ rest[k] = st[k + 1]
  BY ONLY Popped, st \in Seq(Frames), st # <<>>
<1> HIDE DEF rest
<1>2. /\ Len(new) = Len(rest) + 1 /\ new[1] = g
      /\ \A k \in 1 .. Len(new) : k = 1 \/ (k - 1 \in 1 .. Len(rest) /\ new[k] = rest[k - 1])
  BY ONLY <1>1, Pushed, g \in Frames
<1> HIDE DEF new
<1>3. Len(new) = Len(st)
  BY ONLY <1>1, <1>2
<1>4. \A k \in 1 .. Len(st) : new[k].at = st[k].at
  <2> TAKE k \in 1 .. Len(st)
  <2>1. k = 1 \/ new[k] = st[k]
    <3>1. k # 1 => k - 1 \in 1 .. Len(rest) /\ new[k] = rest[k - 1] /\ k - 1 + 1 = k
      BY ONLY <1>1, <1>2, <1>3, k \in 1 .. Len(st)
    <3> QED BY ONLY <3>1, <1>1
  <2> QED BY ONLY <2>1, <1>2, g.at = st[1].at
<1>5. CallersAbove(new, hm)
  BY ONLY <1>3, <1>4, CallersAbove(st, hm) DEF CallersAbove
<1> QED BY <1>5 DEF new, rest

\* The calls on the stack after a call, a return and a turn.
LEMMA StackElems == ASSUME NEW st \in Seq(Frames), NEW f \in Frames
                    PROVE  /\ Elems(<<f>> \o st) = {f} \cup Elems(st)
                           /\ st # <<>> => /\ Elems(st) = {st[1]} \cup Elems(Tail(st))
                                           /\ Elems(<<f>> \o Tail(st)) = {f} \cup Elems(Tail(st))
                           /\ \A g \in Elems(st) : g \in Frames /\ g.at \in Steps
<1>1. Elems(<<f>> \o st) = {f} \cup Elems(st)
  BY ONLY ElemsCons, st \in Seq(Frames), f \in Frames
<1>2. ASSUME st # <<>>
      PROVE  Elems(st) = {st[1]} \cup Elems(Tail(st)) /\ Elems(<<f>> \o Tail(st)) = {f} \cup Elems(Tail(st))
  <2>1. PICK t \in Seq(Frames) : t = Tail(st) /\ Elems(st) = {st[1]} \cup Elems(t)
    BY ONLY <1>2, ElemsTail, st \in Seq(Frames), ZenonT(30)
  <2>2. Elems(<<f>> \o t) = {f} \cup Elems(t)
    BY ONLY ElemsCons, f \in Frames
  <2> QED BY ONLY <2>1, <2>2
<1>3. \A g \in Elems(st) : g \in Frames /\ g.at \in Steps
  <2>1. \A k \in 1 .. Len(st) : st[k] \in Frames
    BY ONLY EmptySeq, st \in Seq(Frames)
  <2> QED BY ONLY <2>1 DEF Elems, Frames
<1> QED BY <1>1, <1>2, <1>3

\* Whoever is on top calls a step, or rolls back what it destroys.
LEMMA OrderCalls == ASSUME NEW st \in Seq(Frames), st # <<>>, NEW f \in Frames,
                           NEW hm \in [Steps -> Steps \cup {None}], NEW q, NEW d, NEW w, NEW o,
                           UndoOrder(st, hm, q, d, w, o),
                           \/ hm[f.at] = st[1].at /\ ActiveAt(f, st[1].at, q, d, w)
                           \/ f.at = st[1].at /\ f.op # "step"
                    PROVE  UndoOrder(<<f>> \o st, hm, q, d, w, o)
<1>1. CallersAbove(<<f>> \o st, hm)
  BY CallersPush DEF UndoOrder
<1>2. Elems(<<f>> \o st) = {f} \cup Elems(st) /\ st[1] \in Elems(st)
  BY StackElems
<1>3. ActiveAt(f, hm[f.at], q, d, w)
  BY <1>2 DEF UndoOrder, ActiveInv, ActiveAt
<1> QED BY <1>1, <1>2, <1>3 DEF UndoOrder, ActiveInv

LEMMA OrderReturns == ASSUME NEW st \in Seq(Frames), st # <<>>, NEW hm, NEW q, NEW d, NEW w, NEW o,
                             UndoOrder(st, hm, q, d, w, o)
                      PROVE  UndoOrder(Tail(st), hm, q, d, w, o)
<1>1. CallersAbove(Tail(st), hm)
  BY CallersPop DEF UndoOrder
<1>2. Elems(Tail(st)) \subseteq Elems(st)
  BY ElemsTail
<1> QED BY <1>1, <1>2 DEF UndoOrder, ActiveInv

LEMMA OrderTurns == ASSUME NEW st \in Seq(Frames), st # <<>>, NEW g \in Frames,
                           g.op = st[1].op, g.at = st[1].at, NEW hm, NEW q, NEW d, NEW w, NEW o,
                           UndoOrder(st, hm, q, d, w, o)
                    PROVE  UndoOrder(<<g>> \o Tail(st), hm, q, d, w, o)
<1>1. CallersAbove(<<g>> \o Tail(st), hm)
  BY CallersTurn DEF UndoOrder
<1>2. Elems(st) = {st[1]} \cup Elems(Tail(st)) /\ Elems(<<g>> \o Tail(st)) = {g} \cup Elems(Tail(st))
  BY StackElems
<1>3. ActiveAt(g, hm[g.at], q, d, w)
  BY <1>2 DEF UndoOrder, ActiveInv, ActiveAt
<1> QED BY <1>1, <1>2, <1>3 DEF UndoOrder, ActiveInv

\* The station on top lets a step go: none of its steps is in a call.
LEMMA OrderSpends == ASSUME NEW st \in Seq(Frames), st # <<>>, st[1].at \in Stations,
                            NEW hm \in [Steps -> Steps \cup {None}], NEW q, NEW d, NEW w, NEW o,
                            UndoOrder(st, hm, q, d, w, o), NEW q2, NEW d2,
                            \A s \in Stations : s # st[1].at => q2[s] = q[s] /\ d2[s] = d[s],
                            Ordered(q2[st[1].at], d2[st[1].at], w),
                            Elems(q2[st[1].at]) \subseteq Elems(q[st[1].at]),
                            q2[st[1].at] # <<>> =>
                              Elems(Tail(q2[st[1].at])) \subseteq Elems(Tail(q[st[1].at]))
                     PROVE  UndoOrder(st, hm, q2, d2, w, o)
<1> DEFINE c == st[1].at
<1>1. c \in Steps
  BY DEF Steps
<1>2. ASSUME NEW f \in Elems(st) PROVE hm[f.at] # c
  <2>1. PICK k \in 1 .. Len(st) : f = st[k]
    BY DEF Elems
  <2>2. 1 \in 1 .. Len(st) /\ 1 <= k
    BY ONLY k \in 1 .. Len(st), EmptySeq, st \in Seq(Frames)
  <2>3. f.at \in Above(hm, c)
    BY <2>1, <2>2 DEF UndoOrder, CallersAbove
  <2>4. f.at \in Steps
    BY <1>1, <2>3, AboveClosed
  <2> QED BY <1>1, <2>3, <2>4, NoneIsNoStep DEF UndoOrder, TreeInv, Acyclic
<1>3. ActiveInv(st, hm, q2, d2, w)
  BY <1>2 DEF UndoOrder, ActiveInv, ActiveAt
<1>4. OrderInv(q2, d2, w)
  BY DEF UndoOrder, OrderInv
<1>5. BodyInv(q2, w, o)
  <2>1. \A s \in Stations : Elems(q2[s]) # {} => q2[s] # <<>>
    BY NoElems
  <2> QED BY <2>1, StationAssumption DEF UndoOrder, BodyInv
<1> QED BY <1>3, <1>4, <1>5 DEF UndoOrder

\* The user's own call.
LEMMA OrderFirst == ASSUME NEW f \in Frames, f.at = Root, NEW hm \in [Steps -> Steps \cup {None}],
                           hm[Root] = None, NEW q, NEW d, NEW w, NEW o, UndoOrder(<<>>, hm, q, d, w, o)
                    PROVE  UndoOrder(<<f>>, hm, q, d, w, o)
<1>1. Len(<<f>>) = 1 /\ 1 .. 1 = {1} /\ <<f>>[1] = f
  OBVIOUS
<1>2. CallersAbove(<<f>>, hm)
  <2>1. Root \in Above(hm, Root)
    BY StationAssumption, AboveClosed DEF Steps
  <2> QED BY ONLY <1>1, <2>1, f.at = Root DEF CallersAbove
<1>3. Elems(<<f>>) = {f}
  BY ONLY <1>1 DEF Elems
<1>4. None \notin Stations
  BY StationAssumption
<1> QED BY <1>2, <1>3, <1>4 DEF UndoOrder, ActiveInv, ActiveAt
-----------------------------------------------------------------------------
(***************************************************************************)
(* Who is above a step in a call.                                          *)
(***************************************************************************)
OnStack(st) == {f.at : f \in Elems(st)}

LEMMA StackClosed == ASSUME NEW st \in Seq(Frames), NEW hm, StackInv(st, hm)
                     PROVE  OnStack(st) \in SUBSET Steps /\ Closed(hm, OnStack(st))
<1>1. \A f \in Elems(st) : f.at \in Steps
  <2>1. \A k \in 1 .. Len(st) : st[k] \in Frames
    BY ONLY EmptySeq, st \in Seq(Frames)
  <2> QED BY ONLY <2>1 DEF Elems, Frames
<1>2. ASSUME NEW k \in 1 .. Len(st) PROVE hm[st[k].at] \in OnStack(st) \cup {None}
  <2>1. Len(st) \in Nat /\ \A m \in 1 .. Len(st) : st[m].at \in OnStack(st)
    BY EmptySeq DEF OnStack, Elems
  <2>2. /\ hm[Root] = None /\ st[Len(st)].at = Root
        /\ \A m \in 1 .. Len(st) - 1 : hm[st[m].at] = st[m + 1].at \/ UndoneFirst(st, m)
    BY <2>1 DEF StackInv, Nested
  <2>3. k = Len(st) \/ (k \in 1 .. Len(st) - 1 /\ k + 1 \in 1 .. Len(st))
    BY ONLY <2>1, k \in 1 .. Len(st)
  <2>4. CASE k = Len(st)
    BY ONLY <2>2, <2>4
  <2>5. CASE k # Len(st) /\ ~UndoneFirst(st, k)
    BY ONLY <2>1, <2>2, <2>3, <2>5
  <2>6. CASE k # Len(st) /\ UndoneFirst(st, k)
    <3>1. st[k + 1].op = "kill" /\ st[k + 1].at = st[k].at
      BY <2>6 DEF UndoneFirst
    <3>2. k + 1 = Len(st) \/ (k + 1 \in 1 .. Len(st) - 1 /\ k + 1 + 1 \in 1 .. Len(st))
      BY ONLY <2>1, <2>3, <2>6
    <3>3. ~UndoneFirst(st, k + 1)
      BY ONLY <3>1, "kill" # "roll" DEF UndoneFirst
    <3> QED BY ONLY <2>1, <2>2, <3>1, <3>2, <3>3
  <2> QED BY ONLY <2>4, <2>5, <2>6
<1>3. \A f \in Elems(st) : hm[f.at] \in OnStack(st) \cup {None}
  BY ONLY <1>2 DEF Elems
<1> QED BY ONLY <1>1, <1>3 DEF OnStack, Closed

LEMMA RootAbove == ASSUME NEW st \in Seq(Frames), NEW hm, StackInv(st, hm), CallersAbove(st, hm),
                          NEW f \in Elems(st)
                   PROVE  Root \in Above(hm, f.at)
<1>1. PICK k \in 1 .. Len(st) : f = st[k]
  BY DEF Elems
<1>2. Len(st) \in 1 .. Len(st) /\ k <= Len(st) /\ Len(st) > 0
  BY ONLY EmptySeq, st \in Seq(Frames), k \in 1 .. Len(st)
<1>3. st[Len(st)].at = Root
  BY <1>2 DEF StackInv, Nested
<1> QED BY ONLY <1>1, <1>2, <1>3, CallersAbove(st, hm) DEF CallersAbove

\* What is above a step and is not the step contains another that is.
LEMMA MemberAbove == ASSUME NEW hm \in [Steps -> Steps \cup {None}], NEW x \in Steps,
                            NEW y \in Above(hm, x), y # x
                     PROVE  \E z \in Above(hm, x) : hm[z] = y
<1> SUFFICES ASSUME \A z \in Above(hm, x) : hm[z] # y PROVE FALSE
  OBVIOUS
<1> DEFINE A == Above(hm, x) \ {y}
<1>1. A \in SUBSET Steps /\ x \in A /\ Closed(hm, A)
  BY AboveClosed DEF Closed
<1>2. Above(hm, x) \subseteq A
  <2> HIDE DEF A
  <2> QED BY ONLY <1>1, AboveLeast
<1> QED BY <1>2

LEMMA StepsOnly == ASSUME NEW st \in Seq(Frames), NEW hm, StackInv(st, hm), st[1].op = "step"
                   PROVE  \A f \in Elems(st) : f.op = "step"
<1>1. ASSUME NEW k \in 1 .. Len(st) PROVE st[k].op = "step"
  <2>1. 1 \in 1 .. Len(st) /\ (k = 1 \/ 1 < k)
    BY ONLY EmptySeq, st \in Seq(Frames), k \in 1 .. Len(st)
  <2> QED BY <2>1 DEF StackInv, StepsBelow
<1> QED BY <1>1 DEF Elems

\* The station that the running code may use.
Uses(st, s) == \/ s = Root /\ st = <<>>
               \/ s \in DOMAIN Body /\ st # <<>> /\ st[1].op = "step" /\ st[1].at = Body[s]

LEMMA InUse == ASSUME NEW st \in Seq(Frames), NEW hm, StackInv(st, hm), NEW q, NEW d, NEW w, NEW o,
                      UndoOrder(st, hm, q, d, w, o), NEW s \in Stations, Uses(st, s)
               PROVE  /\ hm \in [Steps -> Steps \cup {None}] /\ s \in Steps
                      /\ Root \in Above(hm, s)
                      /\ \A f \in Elems(st) : f.op = "step"
                      /\ \A y \in Above(hm, s) : hm[y] # None => y \in OnStack(st)
                      /\ st = <<>> => s = Root /\ Above(hm, s) = {Root}
                      /\ st # <<>> => q[s] # <<>> /\ q[s][1] = Body[s]
<1>1. hm \in [Steps -> Steps \cup {None}] /\ s \in Steps
  BY DEF UndoOrder, TreeInv, Steps
<1>2. CASE st = <<>>
  <2>1. s = Root /\ hm[Root] = None /\ Elems(<<>>) = {}
    BY <1>2 DEF Uses, StackInv, Nested, Elems
  <2>2. Above(hm, s) = {Root}
    BY <1>1, <2>1, AboveHome
  <2> QED BY <1>1, <1>2, <2>1, <2>2
<1>3. CASE st # <<>>
  <2>1. s \in DOMAIN Body /\ st[1].op = "step" /\ st[1].at = Body[s]
    BY <1>3 DEF Uses
  <2>2. st[1] \in Elems(st)
    BY <1>3, ElemsTail
  <2>3. Body[s] \in Steps /\ Body[s] \in Leaves /\ hm[Body[s]] = s /\ s # None /\ Root \notin Leaves
    BY <2>1, StationAssumption DEF Steps, UndoOrder, TreeInv
  <2>4. OnStack(st) \in SUBSET Steps /\ Closed(hm, OnStack(st)) /\ Body[s] \in OnStack(st)
    BY <2>1, <2>2, StackClosed DEF OnStack
  <2>5. Above(hm, s) \subseteq OnStack(st)
    <3>1. s \in OnStack(st)
      BY <2>3, <2>4 DEF Closed
    <3> QED BY ONLY <2>4, <3>1, AboveLeast
  <2>6. Root \in Above(hm, s)
    <3>1. Root \in Above(hm, Body[s])
      BY <2>1, <2>2, RootAbove DEF UndoOrder
    <3>2. Above(hm, Body[s]) = {Body[s]} \cup Above(hm, s)
      BY <1>1, <2>3, AboveHome
    <3> QED BY ONLY <2>3, <3>1, <3>2
  <2>7. \A f \in Elems(st) : f.op = "step"
    BY <2>1, StepsOnly
  <2>8. q[s] # <<>> /\ q[s][1] = Body[s]
    BY <2>1, <2>2, <2>3 DEF UndoOrder, ActiveInv, ActiveAt
  <2> QED BY <1>1, <1>3, <2>5, <2>6, <2>7, <2>8
<1> QED BY <1>2, <1>3

\* The running code arms a guard of its station, s.
Arms(hm, s, n, w, w2, o, o2) ==
  /\ DOMAIN w = 1 .. n /\ DOMAIN w2 = 1 .. n + 1
  /\ \A g \in 1 .. n : w2[g] = w[g] /\ o2[g] = o[g]
  /\ w2[n + 1] = Above(hm, s) /\ o2[n + 1] = s

LEMMA OrderGuards ==
  ASSUME NEW st \in Seq(Frames), NEW hm, StackInv(st, hm), NEW q \in [Stations -> Seq(Steps)],
         NEW d \in [Stations -> Seq(Steps)], Housed(q, hm), Housed(d, hm),
         NEW w, NEW o, UndoOrder(st, hm, q, d, w, o), NEW s \in Stations, Uses(st, s),
         NEW n \in Nat, NEW w2, NEW o2, Arms(hm, s, n, w, w2, o, o2)
  PROVE  UndoOrder(st, hm, q, d, w2, o2)
<1>0. /\ DOMAIN w = 1 .. n /\ DOMAIN w2 = 1 .. n + 1
      /\ \A g \in 1 .. n : w2[g] = w[g] /\ o2[g] = o[g]
      /\ w2[n + 1] = Above(hm, s) /\ o2[n + 1] = s
  BY DEF Arms
<1> DEFINE P == Above(hm, s)
<1>1. /\ hm \in [Steps -> Steps \cup {None}] /\ s \in Steps
      /\ Root \in P
      /\ \A f \in Elems(st) : f.op = "step"
      /\ \A y \in P : hm[y] # None => y \in OnStack(st)
      /\ st = <<>> => s = Root /\ P = {Root}
      /\ st # <<>> => q[s] # <<>> /\ q[s][1] = Body[s]
  BY InUse
<1>2. \A g \in 1 .. n + 1 : g = n + 1 \/ (g \in 1 .. n /\ g < n + 1)
  OBVIOUS
<1>3. /\ TreeInv(hm) /\ CallersAbove(st, hm) /\ ArmedInv(w) /\ OrderInv(q, d, w)
      /\ ActiveInv(st, hm, q, d, w) /\ BodyInv(q, w, o) /\ InnerLater(w, o)
  BY DEF UndoOrder
<1> HIDE DEF P
<1>4. \A c \in Stations : /\ \A y \in Elems(d[c]) : hm[y] = c
                          /\ q[c] # <<>> => \A y \in Elems(Tail(q[c])) : hm[y] = c
                          /\ q[c] # <<>> => \A y \in Elems(q[c]) : y = q[c][1] \/ y \in Elems(Tail(q[c]))
                          /\ q[c] # <<>> => q[c][1] \in Elems(q[c])
                          /\ c # None
  <2> TAKE c \in Stations
  <2>1. \A y \in Elems(q[c]) \cup Elems(d[c]) : hm[y] = c
    BY DEF Housed, Elems
  <2>2. PICK s1 \in Seq(Steps) : s1 = q[c]
    OBVIOUS
  <2>3. s1 # <<>> => Elems(s1) = {s1[1]} \cup Elems(Tail(s1))
    BY ONLY ElemsTail, s1 \in Seq(Steps)
  <2> QED BY <2>1, <2>2, <2>3, StationAssumption
\* What is above the station, and in another, is in a call.
<1>5. ASSUME NEW c \in Stations, NEW y \in P
      PROVE  y \notin Elems(d[c]) /\ (q[c] # <<>> => y \notin Elems(Tail(q[c])))
  <2>0. y \in Elems(d[c]) \/ (q[c] # <<>> /\ y \in Elems(Tail(q[c]))) => hm[y] = c
    BY ONLY <1>4, c \in Stations
  <2> SUFFICES ASSUME hm[y] = c PROVE y \notin Elems(d[c]) /\ (q[c] # <<>> => y \notin Elems(Tail(q[c])))
    BY <2>0
  <2>1. y \in OnStack(st) /\ c # None
    BY <1>1, <1>4
  <2>2. PICK f \in Elems(st) : f.at = y
    BY <2>1 DEF OnStack
  <2>3. ActiveAt(f, c, q, d, w)
    BY <1>3, <2>2 DEF ActiveInv
  <2> QED BY ONLY <2>2, <2>3, c \in Stations DEF ActiveAt, Latest
<1>6. \A c \in Stations : \A y \in w2[n + 1] :
        y \notin Elems(d[c]) /\ (q[c] # <<>> => y \notin Elems(Tail(q[c])))
  BY <1>0, <1>5 DEF P
<1>7. \A c \in Stations :
         /\ Ordered(q[c], d[c], w2)
         /\ \A x : Latest(x, q[c], d[c], w) /\ (q[c] # <<>> /\ q[c][1] # x => q[c][1] \notin w2[n + 1])
                     => Latest(x, q[c], d[c], w2)
  <2> TAKE c \in Stations
  <2>1. q[c] \in Seq(Steps) /\ d[c] \in Seq(Steps) /\ Ordered(q[c], d[c], w)
    BY <1>3 DEF OrderInv
  <2> QED BY <1>0, <1>6, <2>1, GuardAdded
<1>8. OrderInv(q, d, w2)
  BY <1>7 DEF OrderInv
<1>9. ActiveInv(st, hm, q, d, w2)
  <2> SUFFICES ASSUME NEW f \in Elems(st), hm[f.at] \in Stations PROVE ActiveAt(f, hm[f.at], q, d, w2)
    BY DEF ActiveInv, ActiveAt
  <2>1. /\ Latest(f.at, q[hm[f.at]], d[hm[f.at]], w)
        /\ q[hm[f.at]] # <<>> /\ q[hm[f.at]][1] = f.at
    BY <1>1, <1>3 DEF ActiveInv, ActiveAt
  <2> QED BY <1>7, <2>1 DEF ActiveAt
<1>10. ASSUME NEW u \in DOMAIN Body, Body[u] \in Elems(q[u]), u \in P PROVE u = s
  <2> SUFFICES ASSUME u # s PROVE FALSE
    OBVIOUS
  <2>1. PICK x \in P : hm[x] = u
    BY <1>1, <1>10, MemberAbove DEF P
  <2>2. u \in Stations /\ u # None /\ Body[u] \in Leaves
    BY StationAssumption
  <2>3. PICK f \in Elems(st) : f.at = x /\ f.op = "step"
    BY <1>1, <2>1, <2>2 DEF OnStack
  <2>4. q[u] # <<>> /\ q[u][1] = x
    BY <1>3, <2>1, <2>2, <2>3 DEF ActiveInv, ActiveAt
  <2>5. x = Body[u]
    BY <1>3, <1>4, <1>10, <2>2, <2>4 DEF BodyInv
  <2>6. x # s
    BY <2>2, <2>5, StationAssumption
  <2>7. PICK z \in Above(hm, s) : hm[z] = x
    BY <1>1, <2>6, MemberAbove DEF P
  <2>8. z \in Steps
    BY <1>1, <2>7, AboveClosed
  <2>9. Body[u] \notin Stations \cup Parallels \cup {None}
    BY <2>2, StationAssumption
  <2> QED BY <1>3, <2>5, <2>7, <2>8, <2>9 DEF TreeInv
<1>11. BodyInv(q, w2, o2)
  BY <1>0, <1>2, <1>3, <1>10 DEF BodyInv, P
<1>12. \A g \in 1 .. n : s # Root /\ s \in w[g] => o[g] = s
  <2> SUFFICES ASSUME s # Root PROVE \A g \in 1 .. n : s \in w[g] => o[g] = s
    OBVIOUS
  <2>1. s \in DOMAIN Body /\ q[s] # <<>> /\ q[s][1] = Body[s]
    BY <1>1 DEF Uses
  <2>2. Body[s] \in Elems(q[s])
    BY <1>4, <2>1
  <2> QED BY <1>0, <1>3, <2>1, <2>2 DEF BodyInv
<1>13. InnerLater(w2, o2)
  <2> SUFFICES ASSUME NEW g \in 1 .. n + 1, NEW h \in 1 .. n + 1,
                      o2[h] # Root, o2[g] # o2[h], o2[h] \in w2[g]
               PROVE  h < g
    BY <1>0 DEF InnerLater
  <2>1. h # n + 1
    BY <1>0, <1>2, <1>12
  <2>2. h \in 1 .. n /\ h < n + 1
    BY ONLY <1>2, <2>1
  <2>3. CASE g = n + 1
    BY ONLY <2>2, <2>3
  <2>4. CASE g \in 1 .. n
    BY <1>0, <2>2, <2>4, <1>3 DEF InnerLater
  <2> QED BY <1>2, <2>3, <2>4
<1>14. ArmedInv(w2)
  BY <1>0, <1>1, <1>2, <1>3 DEF ArmedInv, P
<1> QED BY <1>3, <1>8, <1>9, <1>11, <1>13, <1>14 DEF UndoOrder

LEMMA HousesAbove ==
  ASSUME NEW hm, hm \in [Steps -> Steps \cup {None}], NEW x, x \in Steps, NEW c, c \in Steps,
         NEW hm2, hm2 \in [Steps -> Steps \cup {None}], PutIn(hm, hm2, x, c)
  PROVE  \A z \in Steps : /\ x \notin Above(hm, z) => Above(hm2, z) = Above(hm, z)
                          /\ Above(hm, z) \subseteq Above(hm2, z)
  BY AboveGrows

\* A spare step is put in a container.
Joins(q, q2, x, c) == q2 = IF c \in Stations THEN [q EXCEPT ![c] = Append(@, x)] ELSE q

Known(w, hm) == \A g \in DOMAIN w : \E x \in Steps : w[g] = Above(hm, x)

SamePaths(w, hm, hm2) ==
  \A g \in DOMAIN w, y \in Steps : w[g] = Above(hm, y) => Above(hm2, y) = Above(hm, y)

LEMMA OrderHouses ==
  ASSUME NEW st \in Seq(Frames), NEW hm, StackInv(st, hm), NEW q \in [Stations -> Seq(Steps)],
         NEW d \in [Stations -> Seq(Steps)], Housed(q, hm), Housed(d, hm),
         NEW w, NEW o, UndoOrder(st, hm, q, d, w, o), Known(w, hm),
         NEW x \in Steps, x # Root, NEW c \in Stations \cup Parallels,
         NEW hm2 \in [Steps -> Steps \cup {None}], PutIn(hm, hm2, x, c),
         NEW q2, Joins(q, q2, x, c)
  PROVE  UndoOrder(st, hm2, q2, d, w, o) /\ SamePaths(w, hm, hm2)
<1>1. /\ TreeInv(hm) /\ CallersAbove(st, hm) /\ ArmedInv(w) /\ OrderInv(q, d, w)
      /\ ActiveInv(st, hm, q, d, w) /\ BodyInv(q, w, o) /\ InnerLater(w, o)
  BY DEF UndoOrder
<1>2. /\ hm \in [Steps -> Steps \cup {None}] /\ Acyclic(hm) /\ c \in Steps /\ hm[Root] = None
  BY <1>1 DEF TreeInv, Steps, StackInv, Nested
<1>3. hm[x] = None /\ hm2[x] = c /\ \A y \in Steps : y # x => hm2[y] = hm[y]
  BY DEF PutIn
<1>4. \A z \in Steps : /\ x \notin Above(hm, z) => Above(hm2, z) = Above(hm, z)
                       /\ Above(hm, z) \subseteq Above(hm2, z)
  BY ONLY <1>2, HousesAbove, x \in Steps, hm2 \in [Steps -> Steps \cup {None}], PutIn(hm, hm2, x, c)
<1>5. Acyclic(hm2)
  BY <1>2, StaysAcyclic
<1>6. Fresh(w, x)
  <2> SUFFICES ASSUME NEW g \in DOMAIN w, x \in w[g] PROVE FALSE
    BY DEF Fresh
  <2>1. PICK y \in Steps : w[g] = Above(hm, y)
    BY DEF Known
  <2>2. Root \in Above(hm, y)
    BY <1>1, <2>1 DEF ArmedInv
  <2> QED BY <1>2, <1>3, <2>1, <2>2, OneEnd
<1>7. TreeInv(hm2)
  <2>1. None \notin Stations
    BY StationAssumption
  <2>2. \A s \in DOMAIN Body : Body[s] \in Steps /\ Body[s] # x /\ s \in Stations
    <3> TAKE s \in DOMAIN Body
    <3>1. s \in Stations /\ Body[s] \in Steps /\ hm[Body[s]] = s
      BY <1>1, StationAssumption DEF TreeInv, Steps
    <3> QED BY ONLY <1>3, <2>1, <3>1
  <2>3. hm2 \in [Steps -> Stations \cup Parallels \cup {None}]
    BY <1>1, <1>3 DEF TreeInv
  <2> QED BY <1>1, <1>3, <1>5, <2>2, <2>3 DEF TreeInv
<1>8. \A f \in Elems(st) : f.at \in Steps /\ f.at # x
  <2> TAKE f \in Elems(st)
  <2>1. Root \in Above(hm, f.at)
    BY <1>1, RootAbove
  <2>2. f.at \in Steps
    BY StackClosed DEF OnStack
  <2>3. Above(hm, x) = {x}
    BY <1>2, <1>3, AboveHome
  <2> QED BY ONLY <2>1, <2>2, <2>3, x # Root
<1>9. CallersAbove(st, hm2)
  <2>1. \A k \in 1 .. Len(st) : st[k].at \in Steps
    BY <1>8 DEF Elems
  <2> QED BY <1>1, <1>4, <2>1 DEF CallersAbove
<1>10. \A s \in Stations : x \notin Elems(q[s]) /\ x \notin Elems(d[s])
  BY <1>3, StationAssumption DEF Housed, Elems
<1>11. \A s \in Stations : /\ Ordered(q2[s], d[s], w)
                           /\ \A z : z # x /\ Latest(z, q[s], d[s], w) => Latest(z, q2[s], d[s], w)
                           /\ q[s] # <<>> => q2[s] # <<>> /\ q2[s][1] = q[s][1]
                           /\ Elems(q2[s]) \subseteq Elems(q[s]) \cup {x}
                           /\ q[s] # <<>> => Elems(Tail(q2[s])) \subseteq Elems(Tail(q[s])) \cup {x}
  <2> TAKE s \in Stations
  <2>1. q[s] \in Seq(Steps) /\ d[s] \in Seq(Steps) /\ Ordered(q[s], d[s], w)
    BY <1>1 DEF OrderInv
  <2>2. CASE s = c
    <3>1. q2[s] = Append(q[s], x)
      BY <2>2 DEF Joins
    <3>2. /\ Ordered(Append(q[s], x), d[s], w)
          /\ \A z : z # x /\ Latest(z, q[s], d[s], w) => Latest(z, Append(q[s], x), d[s], w)
      BY ONLY <1>6, <1>10, <2>1, StepAdded, x \in Steps, s \in Stations
    <3>3. Append(q[s], x) # <<>> /\ Elems(Append(q[s], x)) = Elems(q[s]) \cup {x}
      BY ONLY <2>1, ElemsAppend, x \in Steps
    <3>4. q[s] # <<>> => /\ Append(q[s], x)[1] = q[s][1]
                         /\ Elems(Tail(Append(q[s], x))) = Elems(Tail(q[s])) \cup {x}
      BY ONLY <2>1, TailAppend, x \in Steps
    <3> QED BY ONLY <3>1, <3>2, <3>3, <3>4
  <2>3. CASE s # c
    <3>1. q2[s] = q[s]
      BY <2>3 DEF Joins
    <3> QED BY <2>1, <3>1
  <2> QED BY <2>2, <2>3
<1>12. OrderInv(q2, d, w)
  BY <1>11 DEF OrderInv
<1>13. ActiveInv(st, hm2, q2, d, w)
  <2> SUFFICES ASSUME NEW f \in Elems(st), hm[f.at] \in Stations PROVE ActiveAt(f, hm[f.at], q2, d, w)
    BY <1>3, <1>8 DEF ActiveInv, ActiveAt
  <2>1. ActiveAt(f, hm[f.at], q, d, w)
    BY <1>1 DEF ActiveInv
  <2> QED BY <1>8, <1>11, <2>1 DEF ActiveAt
<1>14. BodyInv(q2, w, o)
  <2> SUFFICES ASSUME NEW s \in DOMAIN Body, Body[s] \in Elems(q2[s])
               PROVE  Body[s] \notin Elems(Tail(q2[s])) /\ \A g \in DOMAIN w : s \in w[g] => o[g] = s
    BY DEF BodyInv
  <2>1. s \in Stations /\ Body[s] # x
    BY <1>1, <1>3, StationAssumption DEF TreeInv
  <2>2. Body[s] \in Elems(q[s])
    BY <1>11, <2>1
  <2>3. q[s] # <<>>
    <3>1. Len(<<>>) = 0 /\ 1 .. 0 = {}
      OBVIOUS
    <3> QED BY <2>2, <3>1 DEF Elems
  <2> QED BY <1>1, <1>11, <2>1, <2>2, <2>3 DEF BodyInv
<1>15. UndoOrder(st, hm2, q2, d, w, o)
  BY <1>1, <1>7, <1>9, <1>12, <1>13, <1>14 DEF UndoOrder
<1>16. SamePaths(w, hm, hm2)
  BY <1>4, <1>6 DEF Fresh, SamePaths
<1> QED BY <1>15, <1>16
-----------------------------------------------------------------------------
(***************************************************************************)
(* What has been taken out is empty, or being destroyed.                   *)
(***************************************************************************)
LEMMA TakenPush == ASSUME NEW st \in Seq(Frames), NEW f \in Frames, f.i # 2, NEW hm, NEW q, NEW d,
                          NEW gs, NEW l, TakenOut(st, hm, q, d, gs, l)
                   PROVE  TakenOut(<<f>> \o st, hm, q, d, gs, l)
<1>1. Elems(<<f>> \o st) = {f} \cup Elems(st)
  BY StackElems
<1>2. Bare(f, gs)
  BY DEF Bare
<1> QED BY <1>1, <1>2 DEF TakenOut, Killed

LEMMA TakenPop == ASSUME NEW st \in Seq(Frames), st # <<>>, NEW hm, NEW q, NEW d, NEW gs, NEW l,
                         TakenOut(st, hm, q, d, gs, l),
                         st[1].op = "kill" => ~Full(st[1].at, q, d, gs, l)
                  PROVE  TakenOut(Tail(st), hm, q, d, gs, l)
<1>1. Elems(st) = {st[1]} \cup Elems(Tail(st))
  BY ElemsTail
<1> QED BY <1>1 DEF TakenOut, Killed

LEMMA TakenTurn == ASSUME NEW st \in Seq(Frames), st # <<>>, NEW g \in Frames, g.op = st[1].op,
                          g.at = st[1].at, NEW hm, NEW q, NEW d, NEW gs, NEW l, Bare(g, gs),
                          TakenOut(st, hm, q, d, gs, l)
                   PROVE  TakenOut(<<g>> \o Tail(st), hm, q, d, gs, l)
<1>1. Elems(st) = {st[1]} \cup Elems(Tail(st)) /\ Elems(<<g>> \o Tail(st)) = {g} \cup Elems(Tail(st))
  BY StackElems
<1> QED BY <1>1 DEF TakenOut, Killed

\* Whatever a container lets go is destroyed.
LEMMA TakenLess ==
  ASSUME NEW st, NEW hm, NEW q, NEW d, NEW gs, NEW l, TakenOut(st, hm, q, d, gs, l),
         NEW q2, NEW d2, NEW gs2, NEW l2,
         \A y \in Steps : Full(y, q2, d2, gs2, l2) => Full(y, q, d, gs, l),
         \A y \in Steps : hm[y] # None /\ y \in Inside(hm[y], q, d, l)
                            => y \in Inside(hm[y], q2, d2, l2) \/ Killed(st, y),
         \A f \in Elems(st) : Bare(f, gs) => Bare(f, gs2)
  PROVE  TakenOut(st, hm, q2, d2, gs2, l2)
  BY DEF TakenOut

LEMMA FirstTaken == ASSUME NEW C, NEW s \in [C -> Seq(Steps)], NEW c \in C, s[c] # <<>>
                    PROVE  LET s2 == [s EXCEPT ![c] = Tail(@)]
                           IN  \A b \in C : /\ s2[b] # <<>> => s[b] # <<>>
                                            /\ \A y \in Elems(s[b]) : y \in Elems(s2[b]) \/ y = s[c][1]
<1>1. Elems(s[c]) = {s[c][1]} \cup Elems(Tail(s[c]))
  <2>1. s[c] \in Seq(Steps)
    OBVIOUS
  <2> QED BY <2>1, ElemsTail
<1> QED BY <1>1

LEMMA TakenQueue ==
  ASSUME NEW st, NEW hm \in [Steps -> Stations \cup Parallels \cup {None}], NEW d, NEW gs, NEW l,
         NEW q \in [Stations -> Seq(Steps)], NEW c \in Stations, q[c] # <<>>, Killed(st, q[c][1]),
         TakenOut(st, hm, q, d, gs, l)
  PROVE  TakenOut(st, hm, [q EXCEPT ![c] = Tail(@)], d, gs, l)
<1> DEFINE q2 == [q EXCEPT ![c] = Tail(@)]
<1>1. \A b \in Stations : /\ q2[b] # <<>> => q[b] # <<>>
                          /\ \A y \in Elems(q[b]) : y \in Elems(q2[b]) \/ Killed(st, y)
  BY FirstTaken
<1> HIDE DEF q2
<1>2. \A y \in Steps : Full(y, q2, d, gs, l) => Full(y, q, d, gs, l)
  BY <1>1 DEF Full
<1>3. \A y \in Steps : hm[y] # None /\ y \in Inside(hm[y], q, d, l)
                         => y \in Inside(hm[y], q2, d, l) \/ Killed(st, y)
  BY <1>1 DEF Inside
<1>4. TakenOut(st, hm, q2, d, gs, l)
  BY ONLY <1>2, <1>3, TakenLess, TakenOut(st, hm, q, d, gs, l)
<1> QED BY <1>4 DEF q2

LEMMA TakenDone ==
  ASSUME NEW st, NEW hm \in [Steps -> Stations \cup Parallels \cup {None}], NEW q, NEW gs, NEW l,
         NEW d \in [Stations -> Seq(Steps)], NEW c \in Stations, d[c] # <<>>, Killed(st, d[c][1]),
         TakenOut(st, hm, q, d, gs, l)
  PROVE  TakenOut(st, hm, q, [d EXCEPT ![c] = Tail(@)], gs, l)
<1> DEFINE d2 == [d EXCEPT ![c] = Tail(@)]
<1>1. \A b \in Stations : /\ d2[b] # <<>> => d[b] # <<>>
                          /\ \A y \in Elems(d[b]) : y \in Elems(d2[b]) \/ Killed(st, y)
  BY FirstTaken
<1> HIDE DEF d2
<1>2. \A y \in Steps : Full(y, q, d2, gs, l) => Full(y, q, d, gs, l)
  BY <1>1 DEF Full
<1>3. \A y \in Steps : hm[y] # None /\ y \in Inside(hm[y], q, d, l)
                         => y \in Inside(hm[y], q, d2, l) \/ Killed(st, y)
  BY <1>1 DEF Inside
<1>4. TakenOut(st, hm, q, d2, gs, l)
  BY ONLY <1>2, <1>3, TakenLess, TakenOut(st, hm, q, d, gs, l)
<1> QED BY <1>4 DEF d2

LEMMA TakenList ==
  ASSUME NEW st, NEW hm \in [Steps -> Stations \cup Parallels \cup {None}], NEW q, NEW d, NEW gs,
         NEW l, NEW l2, NEW x, Killed(st, x),
         \A b \in Parallels : /\ l2[b] # <<>> => l[b] # <<>>
                              /\ \A y \in Elems(l[b]) : y \in Elems(l2[b]) \/ y = x,
         TakenOut(st, hm, q, d, gs, l)
  PROVE  TakenOut(st, hm, q, d, gs, l2)
<1>2. \A y \in Steps : Full(y, q, d, gs, l2) => Full(y, q, d, gs, l)
  BY DEF Full
<1>3. \A y \in Steps : hm[y] # None /\ y \in Inside(hm[y], q, d, l)
                         => y \in Inside(hm[y], q, d, l2) \/ Killed(st, y)
  BY DEF Inside
<1> QED BY ONLY <1>2, <1>3, TakenLess, TakenOut(st, hm, q, d, gs, l)

\* A step that completes stays in its station.
LEMMA TakenMoved ==
  ASSUME NEW st, NEW hm \in [Steps -> Stations \cup Parallels \cup {None}], NEW gs, NEW l,
         NEW q \in [Stations -> Seq(Steps)], NEW d \in [Stations -> Seq(Steps)],
         NEW c \in Stations, q[c] # <<>>, TakenOut(st, hm, q, d, gs, l)
  PROVE  TakenOut(st, hm, [q EXCEPT ![c] = Tail(@)], [d EXCEPT ![c] = <<q[c][1]>> \o @], gs, l)
<1> DEFINE q2 == [q EXCEPT ![c] = Tail(@)]
           d2 == [d EXCEPT ![c] = <<q[c][1]>> \o @]
<1>1. /\ Elems(q[c]) = {q[c][1]} \cup Elems(Tail(q[c]))
      /\ Elems(<<q[c][1]>> \o d[c]) = {q[c][1]} \cup Elems(d[c])
  <2>1. PICK s \in Seq(Steps) : s = q[c]
    OBVIOUS
  <2>2. PICK e \in Seq(Steps) : e = d[c]
    OBVIOUS
  <2>3. Elems(s) = {s[1]} \cup Elems(Tail(s)) /\ s[1] \in Steps
    BY ONLY <2>1, q[c] # <<>>, ElemsTail
  <2>4. Elems(<<s[1]>> \o e) = {s[1]} \cup Elems(e)
    BY ONLY <2>3, e \in Seq(Steps), ElemsCons
  <2> QED BY ONLY <2>1, <2>2, <2>3, <2>4
<1>2. /\ \A b \in Stations : Elems(q[b]) \cup Elems(d[b]) \subseteq Elems(q2[b]) \cup Elems(d2[b])
      /\ \A b \in Stations : q2[b] # <<>> \/ d2[b] # <<>> => q[b] # <<>> \/ d[b] # <<>>
  BY <1>1
<1> HIDE DEF q2, d2
<1>3. \A y \in Steps : Full(y, q2, d2, gs, l) => Full(y, q, d, gs, l)
  BY <1>2 DEF Full
<1>4. \A y \in Steps : hm[y] # None /\ y \in Inside(hm[y], q, d, l)
                         => y \in Inside(hm[y], q2, d2, l) \/ Killed(st, y)
  BY <1>2 DEF Inside
<1>5. TakenOut(st, hm, q2, d2, gs, l)
  BY ONLY <1>3, <1>4, TakenLess, TakenOut(st, hm, q, d, gs, l)
<1> QED BY <1>5 DEF q2, d2

\* What an element erased from a list leaves.
LEMMA EraseLeaves == ASSUME NEW q \in Seq(Steps), NEW n \in 1 .. Len(q)
                     PROVE  \A y \in Elems(q) : \/ y = q[n]
                                                \/ y \in Elems(SubSeq(q, 1, n - 1) \o SubSeq(q, n + 1, Len(q)))
<1> DEFINE before == SubSeq(q, 1, n - 1)
           after  == SubSeq(q, n + 1, Len(q))
           less   == before \o after
<1>1. q \in Seq(Steps) /\ n \in 1 .. Len(q) /\ Len(q) \in Nat
  BY EmptySeq
<1>2. /\ before \in Seq(Steps) /\ Len(before) = n - 1
      /\ \A k \in 1 .. Len(before) : before[k] = q[k]
  BY ONLY <1>1
<1>3. /\ after \in Seq(Steps) /\ Len(after) = Len(q) - n
      /\ \A k \in 1 .. Len(after) : after[k] = q[k + n]
  BY ONLY <1>1
<1> HIDE DEF before, after
<1>4. /\ Len(less) = Len(before) + Len(after)
      /\ \A k \in 1 .. Len(before) + Len(after) :
             less[k] = IF k <= Len(before) THEN before[k] ELSE after[k - Len(before)]
  BY ONLY <1>2, <1>3, ConcatSeq
<1> HIDE DEF less
<1>5. ASSUME NEW k \in 1 .. Len(q), k # n PROVE \E m \in 1 .. Len(less) : less[m] = q[k]
  <2>1. CASE k < n
    <3>1. k \in 1 .. Len(before) /\ k \in 1 .. Len(before) + Len(after) /\ k <= Len(before)
      BY ONLY <1>1, <1>2, <1>3, <2>1, k \in 1 .. Len(q)
    <3>2. less[k] = q[k] /\ k \in 1 .. Len(less)
      BY ONLY <1>2, <1>4, <3>1
    <3> QED BY ONLY <3>2
  <2>2. CASE ~(k < n)
    <3>1. /\ k - 1 \in 1 .. Len(before) + Len(after) /\ ~(k - 1 <= Len(before))
          /\ k - 1 - Len(before) \in 1 .. Len(after) /\ k - 1 - Len(before) + n = k
      BY ONLY <1>1, <1>2, <1>3, <2>2, k \in 1 .. Len(q), k # n
    <3>2. less[k - 1] = q[k] /\ k - 1 \in 1 .. Len(less)
      BY ONLY <1>3, <1>4, <3>1
    <3> QED BY ONLY <3>2
  <2> QED BY <2>1, <2>2
<1>6. \A y \in Elems(q) : y = q[n] \/ y \in Elems(less)
  BY ONLY <1>5 DEF Elems
<1> QED BY <1>6 DEF less, before, after
-----------------------------------------------------------------------------
(***************************************************************************)
(* The steps of a station.                                                 *)
(***************************************************************************)
USE DEF tree, history, Enter, Top, Pop, At, SetTop

\* The initial state: each function that makes a station is its first step.
LEMMA StationStarts == StationInit => StationInv
<1> SUFFICES ASSUME StationInit PROVE StationInv
  OBVIOUS
<1> USE DEF StationInit
<1>1. \A s \in DOMAIN Body : Body[s] \in Leaves /\ home[Body[s]] = s
  BY StationAssumption DEF Steps
<1>2. queue \in [Stations -> Seq(Steps)] /\ Housed(queue, home)
  <2>1. \A s \in Stations : queue[s] \in Seq(Steps) /\ \A k \in 1 .. Len(queue[s]) : home[queue[s][k]] = s
    <3> TAKE s \in Stations
    <3>1. CASE s \in DOMAIN Body
      <4>1. Body[s] \in Steps /\ queue[s] = <<Body[s]>>
        BY <1>1, <3>1 DEF Steps
      <4>2. Len(<<Body[s]>>) = 1 /\ <<Body[s]>>[1] = Body[s] /\ 1 .. 1 = {1}
        OBVIOUS
      <4> QED BY <1>1, <3>1, <4>1, <4>2
    <3>2. CASE s \notin DOMAIN Body
      <4>1. queue[s] = <<>> /\ 1 .. Len(queue[s]) = {}
        BY <3>2
      <4> QED BY <4>1
    <3> QED BY <3>1, <3>2
  <2> QED BY <2>1 DEF Housed
<1>3. \A s \in Stations : done[s] = <<>> /\ 1 .. Len(done[s]) = {}
  OBVIOUS
<1>4. \A p \in Parallels : list[p] = <<>> /\ 1 .. Len(list[p]) = {}
  OBVIOUS
<1>5. HomeInv
  BY <1>2, <1>3, <1>4 DEF HomeInv, Housed
<1>6. home \in [Steps -> Steps \cup {None}] /\ home[Root] = None
  BY StationAssumption DEF Steps
<1>7. StationTypeOK
  BY StationAssumption, <1>2, <1>6 DEF StationTypeOK
<1>8. stack = <<>> /\ Len(<<>>) = 0 /\ 1 .. 0 = {} /\ 2 .. 0 = {} /\ 1 .. 0 - 1 = {} /\ ~(0 > 0)
  OBVIOUS
<1>9. CallsInv(stack, ret, queue, list, home)
  BY <1>6, <1>8 DEF CallsInv, StackInv, Nested, AtOnce, StepsBelow, AnswerInv, ChildInv,
                    KillInv, KillBelow
<1> QED BY <1>5, <1>7, <1>9 DEF StationInv

LEMMA OnTop == ASSUME StationTypeOK, stack # <<>>
               PROVE  /\ stack \in Seq(Frames) /\ Top \in Frames /\ Pop \in Seq(Frames)
                      /\ Top.at \in Steps /\ Len(stack) \in Nat /\ Len(stack) > 0
                      /\ \A f \in Frames : Enter(f) \in Seq(Frames) /\ SetTop(f) \in Seq(Frames)
<1>1. stack \in Seq(Frames)
  BY DEF StationTypeOK
<1>2. Top \in Frames /\ Pop \in Seq(Frames) /\ Len(stack) \in Nat /\ Len(stack) > 0
  BY ONLY <1>1, TailSeq, EmptySeq, stack # <<>> DEF Top, Pop
<1>3. Top.at \in Steps
  BY <1>2 DEF Frames
<1> QED BY <1>1, <1>2, <1>3, ConsSeq

\* A call of Step returns; q and l are what the containers hold by then.
LEMMA StepReturns == ASSUME StationTypeOK, stack # <<>>, Top.op = "step", NEW r \in Status,
                            Return(r), NEW q, NEW l, NEW r0, CallsInv(stack, r0, q, l, home)
                     PROVE  /\ CallsInv(stack', ret', q, l, home)
                            /\ stack' \in Seq(Frames) /\ ret' \in Status \cup {None}
                            /\ phase' \in {"live", "failed", "completed", "undone", "dead"}
                            /\ broken' \subseteq Steps
<1>1. /\ stack \in Seq(Frames) /\ Pop \in Seq(Frames) /\ Top.at \in Steps
      /\ Len(stack) \in Nat /\ Len(stack) > 0
  BY OnTop
<1>2. ret' = None \/ Len(stack) > 1
  <2>1. PICK n \in Nat : n = Len(stack) /\ n > 0
    BY <1>1
  <2>2. n = 1 \/ n > 1
    BY ONLY n \in Nat, <2>1
  <2> QED BY <2>1, <2>2 DEF Return
<1>3. CallsInv(Tail(stack), ret', q, l, home)
  BY <1>1, <1>2, Returns
<1> QED BY <1>1, <1>3 DEF Return, StationTypeOK

LEMMA StationUnchanged == ASSUME StationInv, UNCHANGED stationVars PROVE StationInv'
  BY DEF stationVars, StationInv, StationTypeOK, HomeInv

LEMMA GuardKeeps == ASSUME StationInv, NEW s \in Stations, Guard(s) PROVE StationInv'
<1> USE DEF Guard, StationInv, StationTypeOK
<1>1. owner' \in Seq(Stations) /\ Len(owner') <= MaxGuards /\ Len(owner) + 1 \in 1 .. MaxGuards
  BY StationAssumption
<1>2. guards' \in [Stations -> Seq(1 .. MaxGuards)]
  BY <1>1, ConsSeq
<1> QED BY <1>1, <1>2 DEF HomeInv

LEMMA SubStepKeeps == ASSUME StationInv, NEW s \in Stations, NEW x \in Steps, SubStep(s, x)
                      PROVE  StationInv'
<1> USE DEF SubStep, Spare, StationInv, StationTypeOK
<1>1. None \notin Stations /\ None \notin Parallels
  BY StationAssumption
<1>2. queue' \in [Stations -> Seq(Steps)] /\ Housed(queue', home') /\ Housed(done', home')
  BY <1>1, AppendHoused DEF HomeInv
<1>3. Housed(list', home')
  BY <1>1, AppendHoused DEF HomeInv
<1>4. home' \in [Steps -> Steps \cup {None}]
  BY DEF Steps
<1>5. StackInv(stack, home')
  BY HousingNests DEF CallsInv
<1>6. stack = <<>> \/ Top.op = "step"
  BY DEF InHand
<1>7. \A t \in Stations : queue[t] # <<>> => queue'[t] # <<>>
  <2>1. \A q \in Seq(Steps) : Append(q, x) # <<>>
    <3> TAKE q \in Seq(Steps)
    <3>1. Len(Append(q, x)) = Len(q) + 1 /\ Len(q) \in Nat
      BY ONLY x \in Steps
    <3> QED BY ONLY <3>1
  <2> QED BY <2>1
<1>8. CallsInv(stack, ret, queue', list, home')
  BY <1>5, <1>6, <1>7, Grows
<1> QED BY <1>2, <1>3, <1>4, <1>8 DEF HomeInv

LEMMA AddStepKeeps == ASSUME StationInv, NEW p \in Parallels, NEW x \in Steps, AddStep(p, x)
                      PROVE  StationInv'
<1> USE DEF AddStep, Spare, StationInv, StationTypeOK
<1>1. None \notin Stations /\ None \notin Parallels
  BY StationAssumption
<1>2. list' \in [Parallels -> Seq(Steps)] /\ Housed(list', home')
  <2>1. list \in [Parallels -> Seq(Steps)] /\ home \in [Steps -> Steps \cup {None}]
        /\ Housed(list, home) /\ home[x] = None
    BY DEF HomeInv
  <2>2. list' = [list EXCEPT ![p] = Append(@, x)] /\ home' = [home EXCEPT ![x] = p]
    OBVIOUS
  <2> QED BY ONLY <1>1, <2>1, <2>2, AppendHoused, p \in Parallels, x \in Steps
<1>3. Housed(queue', home') /\ Housed(done', home')
  BY <1>1, AppendHoused DEF HomeInv
<1>4. home' \in [Steps -> Steps \cup {None}]
  BY DEF Steps
<1>5. StackInv(stack, home')
  BY HousingNests DEF CallsInv
<1>6. stack = <<>> /\ 1 .. Len(<<>>) = {} /\ ~(Len(<<>>) > 0)
  OBVIOUS
<1>7. CallsInv(stack', ret', queue', list', home')
  BY <1>5, <1>6 DEF CallsInv, AnswerInv, ChildInv, KillInv, KillBelow
<1> QED BY <1>2, <1>3, <1>4, <1>7 DEF HomeInv

LEMMA UserCallKeeps == ASSUME StationInv, CallStep \/ CallRollback \/ Destroy PROVE StationInv'
<1> USE DEF StationInv, StationTypeOK
<1>1. stack = <<>> /\ ret = None
  BY EmptySeq DEF CallStep, CallRollback, Destroy, CallsInv, AnswerInv
<1>2. Root \in Steps /\ home[Root] = None
  BY StationAssumption DEF Steps, CallsInv, StackInv, Nested
<1>3. \A op \in {"step", "roll", "kill"} :
        /\ <<Frame(op, Root)>> \in Seq(Frames)
        /\ CallsInv(<<Frame(op, Root)>>, None, queue, list, home)
  <2> TAKE op \in {"step", "roll", "kill"}
  <2>1. Frame(op, Root) \in Frames /\ Frame(op, Root).at = Root /\ Frame(op, Root).i = 0
    BY <1>2, FrameType
  <2> HIDE DEF StationInv, StationTypeOK
  <2>2. CallsInv(<<Frame(op, Root)>>, None, queue, list, home)
    BY <1>2, <2>1, CallsFirst
  <2> QED BY <2>1, <2>2
<1>4. CASE CallStep
  BY <1>1, <1>3, <1>4 DEF CallStep, HomeInv
<1>5. CASE CallRollback
  BY <1>1, <1>2, <1>3, <1>5 DEF CallRollback, HomeInv
<1>6. CASE Destroy
  BY <1>1, <1>2, <1>3, <1>6 DEF Destroy, HomeInv
<1> QED BY <1>4, <1>5, <1>6

\* Step, of a function ...
LEMMA LeafStepKeeps == ASSUME StationInv, NEW r \in Status, LeafStep(r) PROVE StationInv'
<1>1. stack # <<>> /\ Top.op = "step" /\ Return(r) /\ UNCHANGED <<tree, home>>
  BY DEF LeafStep
<1>2. StationTypeOK /\ CallsInv(stack, ret, queue, list, home)
  BY DEF StationInv
<1>3. /\ CallsInv(stack', ret', queue, list, home)
      /\ stack' \in Seq(Frames) /\ ret' \in Status \cup {None}
      /\ phase' \in {"live", "failed", "completed", "undone", "dead"}
      /\ broken' \subseteq Steps
  BY ONLY <1>1, <1>2, StepReturns, r \in Status
<1>4. waits' \in 0 .. MaxWaits
  <2>1. r \in {"Busy", "Idle"} => waits < MaxWaits
    BY DEF LeafStep
  <2>2. waits' = IF r \in {"Busy", "Idle"} THEN waits + 1 ELSE waits
    BY DEF LeafStep
  <2>3. waits \in 0 .. MaxWaits /\ MaxWaits \in Nat
    BY StationAssumption, <1>2 DEF StationTypeOK
  <2> QED BY ONLY <2>1, <2>2, <2>3
<1> QED BY <1>3, <1>4 DEF StationInv, StationTypeOK, HomeInv, LeafStep

\* ... of a station, which calls its first step ...
LEMMA QueueStepKeeps == ASSUME StationInv, QueueStep PROVE StationInv'
<1>1. /\ stack # <<>> /\ Top.op = "step" /\ Top.at \in Stations /\ ret = None
      /\ UNCHANGED <<tree, waits, home, owner, called, erased>>
  BY DEF QueueStep
<1>2. /\ StationTypeOK /\ HomeInv /\ CallsInv(stack, ret, queue, list, home)
      /\ queue \in [Stations -> Seq(Steps)]
  BY DEF StationInv, StationTypeOK
<1>3. CASE queue[Top.at] = <<>>
  <2>1. Return("Completed") /\ "Completed" \in Status
    BY <1>3 DEF QueueStep, Status
  <2>2. /\ CallsInv(stack', ret', queue, list, home)
        /\ stack' \in Seq(Frames) /\ ret' \in Status \cup {None}
        /\ phase' \in {"live", "failed", "completed", "undone", "dead"}
        /\ broken' \subseteq Steps
    BY ONLY <1>1, <1>2, <2>1, StepReturns
  <2> QED BY <1>1, <2>2 DEF StationInv, StationTypeOK, HomeInv
<1>4. CASE queue[Top.at] # <<>>
  <2> DEFINE x == queue[Top.at][1]
  <2>1. /\ stack' = <<Frame("step", x)>> \o stack /\ UNCHANGED <<ret, phase, broken>>
    BY <1>4 DEF QueueStep
  <2>2. x \in Steps /\ home[x] = Top.at
    <3>1. PICK c \in Stations : c = Top.at
      BY <1>1
    <3>2. Housed(queue, home) /\ queue[c] # <<>>
      BY <1>2, <1>4, <3>1 DEF HomeInv
    <3> QED BY ONLY <1>2, <3>1, <3>2, InHoused
  <2>3. Frame("step", x) \in Frames /\ Frame("step", x).at = x /\ Frame("step", x).op = "step"
    BY <2>2, FrameType
  <2>4. HasStep(Top, queue, list)
    BY StationAssumption, <1>1, <1>4 DEF HasStep
  <2>5. Ending(Frame("step", x), queue)
    BY <2>3 DEF Ending
  <2>6. CallsInv(stack', None, queue, list, home)
    BY <1>1, <1>2, <2>1, <2>2, <2>3, <2>4, <2>5, OnTop, Calls
  <2>7. stack' \in Seq(Frames)
    BY <1>1, <1>2, <2>1, <2>3, OnTop
  <2> QED BY <1>1, <2>1, <2>6, <2>7 DEF StationInv, StationTypeOK, HomeInv
<1> QED BY <1>3, <1>4

\* ... and takes it out of the queue once it has completed ...
LEMMA QueueReturnKeeps == ASSUME StationInv, QueueReturn PROVE StationInv'
<1>1. /\ stack # <<>> /\ Top.op = "step" /\ Top.at \in Stations /\ ret # None
      /\ UNCHANGED <<guards, list, waits, home, owner, called, erased>>
  BY DEF QueueReturn
<1>2. /\ StationTypeOK /\ HomeInv /\ CallsInv(stack, ret, queue, list, home)
      /\ queue \in [Stations -> Seq(Steps)] /\ done \in [Stations -> Seq(Steps)]
      /\ ret \in Status
  BY <1>1 DEF StationInv, StationTypeOK
<1>3. stack \in Seq(Frames) /\ 1 \in 1 .. Len(stack)
  BY <1>1, <1>2, OnTop
<1>4. queue[Top.at] # <<>>
  <2>1. Waiting(stack, 1, ret)
    BY <1>1 DEF Waiting
  <2> QED BY <1>1, <1>2, <1>3, <2>1 DEF CallsInv, ChildInv, HasStep
<1>5. CASE ret = "Completed"
  <2>1. /\ queue' = [queue EXCEPT ![Top.at] = Tail(@)] /\ Return("Busy") /\ "Busy" \in Status
        /\ done' = [done EXCEPT ![Top.at] = <<queue[Top.at][1]>> \o @]
    BY <1>5 DEF QueueReturn, Status
  <2>2. /\ queue' \in [Stations -> Seq(Steps)] /\ Housed(queue', home)
        /\ queue[Top.at][1] \in Steps /\ home[queue[Top.at][1]] = Top.at
    <3>1. PICK c \in Stations : c = Top.at
      BY <1>1
    <3>2. Housed(queue, home) /\ queue[c] # <<>> /\ queue' = [queue EXCEPT ![c] = Tail(@)]
      BY <1>2, <1>4, <2>1, <3>1 DEF HomeInv
    <3>3. queue' \in [Stations -> Seq(Steps)] /\ Housed(queue', home)
      BY ONLY <1>2, <3>1, <3>2, TailHoused
    <3>4. queue[c][1] \in Steps /\ home[queue[c][1]] = c
      <4>1. queue \in [Stations -> Seq(Steps)] /\ Housed(queue, home) /\ queue[c] # <<>>
        BY <1>2, <3>2
      <4> QED BY ONLY <4>1, c \in Stations, InHoused
    <3> QED BY ONLY <3>1, <3>3, <3>4
  <2>3. done' \in [Stations -> Seq(Steps)] /\ Housed(done', home)
    <3>1. PICK c \in Stations : c = Top.at
      BY <1>1
    <3>2. PICK y \in Steps : y = queue[Top.at][1]
      BY <2>2
    <3>3. Housed(done, home) /\ home[y] = c /\ done' = [done EXCEPT ![c] = <<y>> \o @]
      BY <1>2, <2>1, <2>2, <3>1, <3>2 DEF HomeInv
    <3> QED BY ONLY <1>2, <3>3, ConsHoused
  <2>4. CallsInv(stack, None, queue', list, home)
    BY <1>1, <1>2, <1>3, <1>4, <2>1, Spends
  <2>5. /\ CallsInv(stack', ret', queue', list, home)
        /\ stack' \in Seq(Frames) /\ ret' \in Status \cup {None}
        /\ phase' \in {"live", "failed", "completed", "undone", "dead"}
        /\ broken' \subseteq Steps
    BY ONLY <1>1, <1>2, <2>1, <2>4, StepReturns
  <2> QED BY <1>1, <2>2, <2>3, <2>5 DEF StationInv, StationTypeOK, HomeInv
<1>6. CASE ret # "Completed"
  <2>1. Return(ret) /\ UNCHANGED <<queue, done>>
    BY <1>6 DEF QueueReturn
  <2>2. /\ CallsInv(stack', ret', queue, list, home)
        /\ stack' \in Seq(Frames) /\ ret' \in Status \cup {None}
        /\ phase' \in {"live", "failed", "completed", "undone", "dead"}
        /\ broken' \subseteq Steps
    BY ONLY <1>1, <1>2, <2>1, StepReturns
  <2> QED BY <1>1, <2>1, <2>2 DEF StationInv, StationTypeOK, HomeInv
<1> QED BY <1>5, <1>6

\* ... and of a parallel executor.
LEMMA ParallelStepKeeps == ASSUME StationInv, ParallelStep PROVE StationInv'
<1>1. /\ stack # <<>> /\ Top.op = "step" /\ Top.at \in Parallels /\ ret = None
      /\ UNCHANGED <<tree, waits, home, owner, called, erased>>
  BY DEF ParallelStep
<1>2. /\ StationTypeOK /\ HomeInv /\ CallsInv(stack, ret, queue, list, home)
      /\ list \in [Parallels -> Seq(Steps)]
  BY DEF StationInv, StationTypeOK
<1>3. /\ stack \in Seq(Frames) /\ Top \in Frames
      /\ \A f \in Frames : SetTop(f) \in Seq(Frames)
  BY <1>1, <1>2, OnTop
<1> DEFINE n == IF Top.i = 0 THEN 1 ELSE Top.i
           x == list[Top.at][n]
           g == [Top EXCEPT !.i = n]
<1>4. CASE n <= Len(list[Top.at])
  <2>1. stack' = <<Frame("step", x)>> \o (<<g>> \o Tail(stack)) /\ UNCHANGED <<ret, phase, broken>>
    BY <1>4 DEF ParallelStep
  <2>2. Top.i \in Nat
    BY <1>3 DEF Frames
  <2>3. n \in 1 .. Len(list[Top.at])
    <3>1. Len(list[Top.at]) \in Nat
      BY <1>1, <1>2
    <3> QED BY ONLY <1>4, <2>2, <3>1
  <2>4. x \in Steps /\ home[x] = Top.at
    BY <1>1, <1>2, <2>3, EmptySeq DEF HomeInv, Housed
  <2>5. g \in Frames /\ g.op = Top.op /\ g.at = Top.at /\ g.i = n
    BY <1>3, <2>2 DEF Frames
  <2>6. Frame("step", x) \in Frames /\ Frame("step", x).at = x /\ Frame("step", x).op = "step"
    BY <2>4, FrameType
  <2> HIDE DEF n, x, g
  <2>7. Ending(g, queue) /\ Ending(Frame("step", x), queue)
    BY <1>1, <2>5, <2>6 DEF Ending
  <2>8. CallsInv(<<g>> \o Tail(stack), None, queue, list, home)
    BY ONLY <1>1, <1>2, <1>3, <2>5, <2>7, Continues DEF Top
  <2>9. HasStep(g, queue, list)
    BY StationAssumption, <1>1, <2>3, <2>5 DEF HasStep
  <2>10. <<g>> \o Tail(stack) \in Seq(Frames) /\ (<<g>> \o Tail(stack))[1] = g /\ <<g>> \o Tail(stack) # <<>>
    BY ONLY <1>1, <1>3, <2>5, Popped, Pushed, EmptySeq
  <2>11. CallsInv(stack', None, queue, list, home)
    BY ONLY <1>1, <2>1, <2>4, <2>5, <2>6, <2>7, <2>8, <2>9, <2>10, Calls
  <2>12. stack' \in Seq(Frames)
    BY ONLY <2>1, <2>6, <2>10, ConsSeq
  <2> QED BY <1>1, <1>2, <2>1, <2>11, <2>12 DEF StationInv, StationTypeOK, HomeInv
<1>5. CASE ~(n <= Len(list[Top.at]))
  <2>1. PICK r \in Status : Return(r)
    BY <1>5 DEF ParallelStep, Status
  <2>2. /\ CallsInv(stack', ret', queue, list, home)
        /\ stack' \in Seq(Frames) /\ ret' \in Status \cup {None}
        /\ phase' \in {"live", "failed", "completed", "undone", "dead"}
        /\ broken' \subseteq Steps
    BY ONLY <1>1, <1>2, <2>1, StepReturns
  <2> QED BY <1>1, <1>2, <2>2 DEF StationInv, StationTypeOK, HomeInv
<1> QED BY <1>4, <1>5

LEMMA ParallelWaitKeeps == ASSUME StationInv, ParallelWait PROVE StationInv'
<1>1. /\ stack # <<>> /\ Top.op = "step" /\ ret' = None
      /\ UNCHANGED <<tree, phase, waits, home, history>>
  BY DEF ParallelWait
<1>2. StationTypeOK /\ HomeInv /\ CallsInv(stack, ret, queue, list, home)
  BY DEF StationInv
<1>3. stack \in Seq(Frames) /\ Top \in Frames
  BY <1>1, <1>2, OnTop
<1>4. PICK g \in Frames : stack' = <<g>> \o Tail(stack) /\ g.op = Top.op /\ g.at = Top.at
  <2> DEFINE g == [Top EXCEPT !.i = @ + 1, !.busy = IF ret = "Busy" THEN @ + 1 ELSE @]
  <2>1. PICK n \in Nat, b \in Nat : n = Top.i /\ b = Top.busy
    BY <1>3 DEF Frames
  <2>2. n + 1 \in Nat /\ b + 1 \in Nat
    BY ONLY n \in Nat, b \in Nat
  <2>3. g \in Frames /\ g.op = Top.op /\ g.at = Top.at
    BY <1>3, <2>1, <2>2 DEF Frames
  <2> QED BY <2>3 DEF ParallelWait
<1>5. Ending(g, queue)
  BY <1>1, <1>4 DEF Ending
<1>6. CallsInv(stack', None, queue, list, home)
  BY ONLY <1>1, <1>2, <1>3, <1>4, <1>5, Continues DEF Top
<1>7. stack' \in Seq(Frames)
  BY ONLY <1>1, <1>3, <1>4, TailSeq, ConsSeq
<1> QED BY <1>1, <1>2, <1>6, <1>7 DEF StationInv, StationTypeOK, HomeInv

\* A step that failed or completed is out of the list before it is destroyed.
LEMMA ParallelEraseKeeps == ASSUME StationInv, ParallelErase PROVE StationInv'
<1> DEFINE x == list[Top.at][Top.i]
           under == <<Frame("kill", x)>> \o stack
<1>1. /\ stack # <<>> /\ Top.op = "step" /\ Top.at \in Parallels /\ ret # None /\ ret' = None
      /\ list' = Erased(Top.at, Top.i)
      /\ erased' = IF ret = "Completed" THEN erased \cup {x} ELSE erased
      /\ UNCHANGED <<queue, done, guards, phase, waits, home, owner, called, broken>>
  BY StationAssumption DEF ParallelErase
<1>2. /\ StationTypeOK /\ HomeInv /\ CallsInv(stack, ret, queue, list, home)
      /\ list \in [Parallels -> Seq(Steps)]
  BY DEF StationInv, StationTypeOK
<1>3. stack \in Seq(Frames) /\ 1 \in 1 .. Len(stack)
  BY <1>1, <1>2, OnTop
<1>4. Top.i \in 1 .. Len(list[Top.at])
  <2>1. Waiting(stack, 1, ret)
    BY <1>1, SMTT(20) DEF Waiting
  <2> QED BY <1>1, <1>2, <1>3, <2>1 DEF CallsInv, ChildInv, HasStep
<1>5. /\ list' \in [Parallels -> Seq(Steps)] /\ Housed(list', home)
      /\ x \in Steps /\ home[x] = Top.at
  <2>1. PICK p \in Parallels : p = Top.at
    BY <1>1
  <2>2. PICK n \in 1 .. Len(list[p]) : n = Top.i
    BY <1>4, <2>1
  <2>3. Housed(list, home) /\ x = list[p][n]
        /\ list' = [list EXCEPT ![p] = SubSeq(@, 1, n - 1) \o SubSeq(@, n + 1, Len(@))]
    BY <1>1, <1>2, <2>1, <2>2, SMTT(20) DEF Erased, HomeInv
  <2>4. list' \in [Parallels -> Seq(Steps)] /\ Housed(list', home)
    BY ONLY <1>2, <2>1, <2>3, n \in 1 .. Len(list[p]), EraseHoused
  <2>5. list[p][n] \in Steps /\ home[list[p][n]] = p
    BY ONLY <1>2, <2>1, <2>3, n \in 1 .. Len(list[p]), InHoused
  <2> QED BY ONLY <2>1, <2>3, <2>4, <2>5
<1> HIDE DEF x
<1>6. CallsInv(stack, None, queue, list', home)
  <2>1. \A p \in Parallels : p # Top.at => list'[p] = list[p]
    BY <1>1, <1>2 DEF Erased
  <2>2. Top.at \notin Stations
    BY StationAssumption, <1>1
  <2> QED BY ONLY <1>1, <1>2, <1>3, <2>1, <2>2, Spends DEF Top
<1>7. \A op \in {"roll", "kill"} :
         /\ Frame(op, x) \in Frames /\ Frame(op, x).at = x /\ Frame(op, x).op = op
         /\ Ending(Frame(op, x), queue)
  BY <1>5, FrameType DEF Ending
<1>8. CallsInv(under, None, queue, list', home)
  BY ONLY <1>1, <1>3, <1>5, <1>6, <1>7, Calls, "kill" # "step" DEF Top
<1>9. under \in Seq(Frames) /\ under[1] = Frame("kill", x) /\ under # <<>>
  BY ONLY <1>3, <1>7, Pushed, EmptySeq
<1> HIDE DEF under
<1>10. CallsInv(<<Frame("roll", x)>> \o under, None, queue, list', home)
  BY ONLY <1>7, <1>8, <1>9, Undoes DEF CallsInv, KillInv
<1>11. <<Frame("roll", x)>> \o under \in Seq(Frames)
  BY ONLY <1>7, <1>9, ConsSeq, SMTT(20)
<1>12. stack' = <<Frame("roll", x)>> \o under \/ stack' = under
  <2>1. <<>> \o under = under
    BY ONLY <1>9
  <2> QED BY <2>1 DEF ParallelErase, under, x
<1>13. erased' \subseteq Steps
  BY <1>1, <1>2, <1>5 DEF StationTypeOK
<1> QED BY <1>1, <1>2, <1>5, <1>8, <1>9, <1>10, <1>11, <1>12, <1>13
       DEF StationInv, StationTypeOK, HomeInv

\* While it rolls back or destroys nobody waits for an answer.
LEMMA NoAnswer == ASSUME StationInv, stack # <<>>, Top.op # "step" PROVE ret = None
  BY DEF StationInv, CallsInv, AnswerInv

\* A call of Rollback or of a destructor returns; nothing else changes.
LEMMA UndoReturns == ASSUME StationInv, stack # <<>>, Top.op # "step", stack' = Pop,
                            Top.op = "roll" /\ Top.at \in Stations => queue[Top.at] = <<>>,
                            UNCHANGED <<tree, ret, phase, waits, home, history>>
                     PROVE  StationInv'
<1>1. StationTypeOK /\ HomeInv /\ CallsInv(stack, ret, queue, list, home) /\ ret = None
  BY NoAnswer DEF StationInv
<1>2. stack \in Seq(Frames) /\ Pop \in Seq(Frames)
  BY <1>1, OnTop
<1>3. CallsInv(Tail(stack), None, queue, list, home)
  BY <1>1, <1>2, Returns
<1> QED BY <1>1, <1>2, <1>3 DEF StationInv, StationTypeOK, HomeInv

\* The call on top of a station under rollback or destruction goes on, and may
\* make another; nothing else changes.
LEMMA UndoContinues == ASSUME StationInv, stack # <<>>, Top.op # "step",
                              CallsInv(stack', None, queue, list, home),
                              stack' \in Seq(Frames),
                              UNCHANGED <<tree, ret, phase, waits, home, history>>
                       PROVE  StationInv'
  BY NoAnswer DEF StationInv, StationTypeOK, HomeInv

LEMMA RollHeadKeeps == ASSUME StationInv, RollHead PROVE StationInv'
<1> DEFINE g == [Top EXCEPT !.i = 1]
           rest == <<g>> \o Tail(stack)
           x == queue[Top.at][1]
<1>1. /\ stack # <<>> /\ Top.op = "roll" /\ Top.at \in Stations
      /\ stack' = IF queue[Top.at] = <<>> THEN rest ELSE <<Frame("roll", x)>> \o rest
      /\ UNCHANGED <<tree, ret, phase, waits, home, history>>
  BY DEF RollHead
<1>2. /\ StationTypeOK /\ HomeInv /\ CallsInv(stack, ret, queue, list, home)
      /\ queue \in [Stations -> Seq(Steps)]
  BY DEF StationInv, StationTypeOK
<1>3. stack \in Seq(Frames) /\ Top \in Frames
  BY <1>1, <1>2, OnTop
<1>4. g \in Frames /\ g.op = Top.op /\ g.at = Top.at
  BY <1>3 DEF Frames
<1> HIDE DEF g
<1>5. Ending(g, queue)
  BY <1>1, <1>4 DEF Ending
<1>6. CallsInv(rest, None, queue, list, home)
  BY ONLY <1>1, <1>2, <1>3, <1>4, <1>5, Continues DEF Top
<1>7. rest \in Seq(Frames) /\ rest[1] = g /\ rest # <<>>
  BY ONLY <1>1, <1>3, <1>4, Popped, Pushed, EmptySeq
<1> HIDE DEF rest, x
<1>8. ASSUME queue[Top.at] # <<>>
      PROVE  /\ CallsInv(<<Frame("roll", x)>> \o rest, None, queue, list, home)
             /\ <<Frame("roll", x)>> \o rest \in Seq(Frames)
  <2>1. x \in Steps /\ home[x] = Top.at
    <3>1. PICK c \in Stations : c = Top.at
      BY <1>1
    <3>2. Housed(queue, home) /\ queue[c] # <<>> /\ x = queue[c][1]
      BY <1>2, <1>8, <3>1 DEF HomeInv, x
    <3> QED BY ONLY <1>2, <3>1, <3>2, InHoused
  <2>2. /\ Frame("roll", x) \in Frames /\ Frame("roll", x).at = x /\ Frame("roll", x).op = "roll"
        /\ Ending(Frame("roll", x), queue)
    BY <2>1, FrameType DEF Ending
  <2> QED BY ONLY <1>4, <1>6, <1>7, <2>1, <2>2, Calls, ConsSeq, "roll" # "step"
<1> QED BY <1>1, <1>6, <1>7, <1>8, UndoContinues

LEMMA RollDropKeeps == ASSUME StationInv, RollDrop PROVE StationInv'
<1>1. PICK s \in Stations : /\ Rolling(s) /\ queue[s] # <<>>
                            /\ queue' = [queue EXCEPT ![s] = Tail(@)]
                            /\ stack' = <<Frame("kill", queue[s][1])>> \o stack
                            /\ UNCHANGED <<done, guards, list, ret, phase, waits, home, history>>
  BY DEF RollDrop
<1>2. stack # <<>> /\ Top.op = "roll" /\ Top.at = s
  BY <1>1 DEF Rolling
<1>3. /\ StationTypeOK /\ HomeInv /\ CallsInv(stack, ret, queue, list, home)
      /\ queue \in [Stations -> Seq(Steps)] /\ ret = None
  BY <1>2, NoAnswer DEF StationInv, StationTypeOK
<1>4. stack \in Seq(Frames)
  BY <1>2, <1>3, OnTop
<1> DEFINE x == queue[s][1]
<1>0. /\ queue \in [Stations -> Seq(Steps)] /\ Housed(queue, home) /\ queue[s] # <<>>
      /\ queue' = [queue EXCEPT ![s] = Tail(@)]
  BY <1>1, <1>3 DEF HomeInv
<1>5. x \in Steps /\ home[x] = s
  BY ONLY <1>0, s \in Stations, InHoused
<1>6. queue' \in [Stations -> Seq(Steps)] /\ Housed(queue', home)
  BY ONLY <1>0, s \in Stations, TailHoused
<1>7. CallsInv(stack, None, queue', list, home)
  BY <1>1, <1>2, <1>3, <1>4, Spends
<1>8. /\ Frame("kill", x) \in Frames /\ Frame("kill", x).at = x /\ Frame("kill", x).op = "kill"
      /\ Ending(Frame("kill", x), queue')
  BY <1>5, FrameType DEF Ending
<1>9. stack' = <<Frame("kill", x)>> \o stack
  BY <1>1
<1> HIDE DEF x
<1>10. CallsInv(stack', None, queue', list, home) /\ stack' \in Seq(Frames)
  <2>1. home[Frame("kill", x).at] = stack[1].at
    BY <1>2, <1>5, <1>8
  <2> QED BY ONLY <1>2, <1>4, <1>7, <1>8, <1>9, <2>1, Calls, ConsSeq, "kill" # "step"
<1> QED BY <1>1, <1>3, <1>6, <1>10 DEF StationInv, StationTypeOK, HomeInv

LEMMA RollDoneKeeps == ASSUME StationInv, RollDone PROVE StationInv'
<1>1. PICK s \in Stations :
         /\ Rolling(s) /\ done[s] # <<>>
         /\ done' = [done EXCEPT ![s] = Tail(@)]
         /\ stack' = <<Frame("roll", done[s][1]), Frame("kill", done[s][1])>> \o stack
         /\ UNCHANGED <<queue, guards, list, ret, phase, waits, home, history>>
  BY DEF RollDone
<1>2. stack # <<>> /\ Top.op = "roll" /\ Top.at = s
  BY <1>1 DEF Rolling
<1>3. /\ StationTypeOK /\ HomeInv /\ CallsInv(stack, ret, queue, list, home)
      /\ done \in [Stations -> Seq(Steps)] /\ ret = None
  BY <1>2, NoAnswer DEF StationInv, StationTypeOK
<1>4. stack \in Seq(Frames)
  BY <1>2, <1>3, OnTop
<1> DEFINE x == done[s][1]
           under == <<Frame("kill", x)>> \o stack
<1>0. /\ done \in [Stations -> Seq(Steps)] /\ Housed(done, home) /\ done[s] # <<>>
      /\ done' = [done EXCEPT ![s] = Tail(@)]
  BY <1>1, <1>3 DEF HomeInv
<1>5. x \in Steps /\ home[x] = s
  BY ONLY <1>0, s \in Stations, InHoused
<1>6. done' \in [Stations -> Seq(Steps)] /\ Housed(done', home)
  BY ONLY <1>0, s \in Stations, TailHoused
<1>7. \A op \in {"roll", "kill"} :
         /\ Frame(op, x) \in Frames /\ Frame(op, x).at = x /\ Frame(op, x).op = op
         /\ Ending(Frame(op, x), queue)
  BY <1>5, FrameType DEF Ending
<1>8. stack' = <<Frame("roll", x), Frame("kill", x)>> \o stack
  BY <1>1
<1> HIDE DEF x
<1>9. CallsInv(under, None, queue, list, home)
  <2>1. home[Frame("kill", x).at] = stack[1].at
    BY <1>2, <1>5, <1>7
  <2> QED BY ONLY <1>2, <1>3, <1>4, <1>7, <2>1, Calls, "kill" # "step"
<1>10. under \in Seq(Frames) /\ under[1] = Frame("kill", x) /\ under # <<>>
  BY ONLY <1>4, <1>7, Pushed, EmptySeq
<1>11. stack' = <<Frame("roll", x)>> \o under
  BY ONLY <1>4, <1>7, <1>8
<1> HIDE DEF under
<1>12. CallsInv(stack', None, queue, list, home) /\ stack' \in Seq(Frames)
  BY ONLY <1>7, <1>9, <1>10, <1>11, Undoes, ConsSeq DEF CallsInv, KillInv
<1> QED BY <1>1, <1>3, <1>6, <1>12 DEF StationInv, StationTypeOK, HomeInv

LEMMA RollGuardKeeps == ASSUME StationInv, RollGuard PROVE StationInv'
<1>1. PICK s \in Stations :
        /\ guards[s] # <<>>
        /\ guards' = [guards EXCEPT ![s] = Tail(@)]
        /\ called' = Append(called, guards[s][1])
        /\ UNCHANGED <<queue, done, list, stack, ret, phase, waits, home, owner, broken, erased>>
  BY DEF RollGuard
<1>2. guards \in [Stations -> Seq(1 .. MaxGuards)] /\ called \in Seq(1 .. MaxGuards)
  BY DEF StationInv, StationTypeOK
<1>3. PICK gs \in Seq(1 .. MaxGuards) : gs = guards[s] /\ gs # <<>>
  BY <1>1, <1>2
<1>4. Tail(gs) \in Seq(1 .. MaxGuards) /\ gs[1] \in 1 .. MaxGuards
  BY ONLY <1>3, TailSeq
<1>5. guards' \in [Stations -> Seq(1 .. MaxGuards)] /\ called' \in Seq(1 .. MaxGuards)
  BY <1>1, <1>2, <1>3, <1>4
<1> QED BY <1>1, <1>5 DEF StationInv, StationTypeOK, HomeInv

LEMMA PlainReturnKeeps == ASSUME StationInv, RollNothing \/ RollEnd \/ KillLeaf PROVE StationInv'
<1>1. Stations \cap (Parallels \cup Leaves) = {}
  BY StationAssumption
<1>2. CASE RollNothing
  BY <1>1, <1>2, UndoReturns DEF RollNothing
<1>3. CASE RollEnd
  BY <1>3, UndoReturns DEF RollEnd, Rolling
<1>4. CASE KillLeaf
  BY <1>4, UndoReturns DEF KillLeaf
<1> QED BY <1>2, <1>3, <1>4

LEMMA KillParallelKeeps == ASSUME StationInv, KillParallel PROVE StationInv'
<1> DEFINE p == Top.at
           x == list[p][1]
<1>1. /\ stack # <<>> /\ Top.op = "kill" /\ p \in Parallels
      /\ UNCHANGED <<queue, done, guards, ret, phase, waits, home, owner, called, broken>>
  BY DEF KillParallel
<1>2. CASE list[p] = <<>>
  <2>1. stack' = Pop /\ UNCHANGED <<list, erased>>
    BY <1>2 DEF KillParallel
  <2> QED BY <1>1, <2>1, UndoReturns
<1>3. CASE list[p] # <<>>
  <2>1. /\ stack' = <<Frame("kill", x)>> \o stack
        /\ list' = [list EXCEPT ![p] = Tail(@)]
        /\ erased' = erased \cup {y \in Stations : y = x /\ queue[y] = <<>>}
    BY <1>3 DEF KillParallel
  <2>2. /\ StationTypeOK /\ HomeInv /\ CallsInv(stack, ret, queue, list, home)
        /\ list \in [Parallels -> Seq(Steps)] /\ ret = None
    BY <1>1, NoAnswer DEF StationInv, StationTypeOK
  <2>3. stack \in Seq(Frames) /\ p = stack[1].at
    BY <1>1, <2>2, OnTop
  <2> HIDE DEF p
  <2>0. /\ list \in [Parallels -> Seq(Steps)] /\ Housed(list, home) /\ list[p] # <<>> /\ p \in Parallels
        /\ list' = [list EXCEPT ![p] = Tail(@)]
    BY <1>1, <1>3, <2>1, <2>2 DEF HomeInv
  <2>4. x \in Steps /\ home[x] = p
    BY ONLY <2>0, InHoused
  <2>5. list' \in [Parallels -> Seq(Steps)] /\ Housed(list', home)
    BY ONLY <2>0, TailHoused
  <2>6. CallsInv(stack, None, queue, list', home)
    <3>1. \A c \in Parallels : c # p => list'[c] = list[c]
      BY <2>1, <2>2
    <3>2. p \notin Stations
      BY StationAssumption, <1>1
    <3> QED BY ONLY <1>1, <2>2, <2>3, <3>1, <3>2, Spends
  <2>7. /\ Frame("kill", x) \in Frames /\ Frame("kill", x).at = x /\ Frame("kill", x).op = "kill"
        /\ Ending(Frame("kill", x), queue)
    BY <2>4, FrameType DEF Ending
  <2> HIDE DEF x
  <2>8. CallsInv(stack', None, queue, list', home) /\ stack' \in Seq(Frames)
    BY ONLY <1>1, <2>1, <2>3, <2>4, <2>6, <2>7, Calls, ConsSeq, "kill" # "step"
  <2>9. erased' \subseteq Steps
    BY <2>1, <2>2 DEF StationTypeOK, Steps
  <2> QED BY <1>1, <2>2, <2>5, <2>8, <2>9 DEF StationInv, StationTypeOK, HomeInv
<1> QED BY <1>2, <1>3

LEMMA KillStationKeeps == ASSUME StationInv, KillStation PROVE StationInv'
<1> DEFINE g == [Top EXCEPT !.i = 1]
           rest == <<g>> \o Tail(stack)
           f == Frame("roll", Top.at)
<1>1. /\ stack # <<>> /\ Top.op = "kill" /\ Top.at \in Stations
      /\ stack' = IF queue[Top.at] = <<>> THEN rest ELSE <<f>> \o rest
      /\ UNCHANGED <<tree, ret, phase, waits, home, history>>
  BY DEF KillStation
<1>2. StationTypeOK /\ CallsInv(stack, ret, queue, list, home)
  BY DEF StationInv
<1>3. stack \in Seq(Frames) /\ Top \in Frames /\ Top.at \in Steps
  BY <1>1, <1>2, OnTop
<1>4. g \in Frames /\ g.op = Top.op /\ g.at = Top.at
  BY <1>3 DEF Frames
<1>5. f \in Frames /\ f.at = Top.at /\ f.op = "roll"
  BY <1>3, FrameType
<1> HIDE DEF g, f
<1>6. /\ StackInv(rest, home) /\ ChildInv(rest, None, queue, list) /\ KillBelow(rest, queue)
      /\ Ending(g, queue) => CallsInv(rest, None, queue, list, home)
  BY ONLY <1>1, <1>2, <1>3, <1>4, Continues DEF Top
<1>7. rest \in Seq(Frames) /\ rest[1] = g /\ rest # <<>>
  BY ONLY <1>1, <1>3, <1>4, Popped, Pushed, EmptySeq
<1> HIDE DEF rest
<1>8. CASE queue[Top.at] = <<>>
  <2>1. Ending(g, queue)
    BY <1>4, <1>8 DEF Ending
  <2> QED BY <1>1, <1>6, <1>7, <1>8, <2>1, UndoContinues
<1>9. CASE queue[Top.at] # <<>>
  <2>1. CallsInv(<<f>> \o rest, None, queue, list, home) /\ <<f>> \o rest \in Seq(Frames)
    BY ONLY <1>1, <1>4, <1>5, <1>6, <1>7, Undoes, ConsSeq
  <2> QED BY <1>1, <1>9, <2>1, UndoContinues
<1> QED BY <1>8, <1>9

LEMMA KillGuardsKeeps == ASSUME StationInv, KillGuards PROVE StationInv'
<1> DEFINE g == [Top EXCEPT !.i = 2]
<1>1. /\ stack # <<>> /\ Top.op = "kill" /\ Top.at \in Stations /\ Top.i = 1
      /\ stack' = <<g>> \o Tail(stack)
      /\ guards' = [guards EXCEPT ![Top.at] = <<>>]
      /\ UNCHANGED <<queue, done, list, ret, phase, waits, home, history>>
  BY DEF KillGuards
<1>2. /\ StationTypeOK /\ HomeInv /\ CallsInv(stack, ret, queue, list, home)
      /\ guards \in [Stations -> Seq(1 .. MaxGuards)] /\ ret = None
  BY <1>1, NoAnswer DEF StationInv, StationTypeOK
<1>3. stack \in Seq(Frames) /\ Top \in Frames /\ Len(stack) > 0
  BY <1>1, <1>2, OnTop
<1>4. g \in Frames /\ g.op = Top.op /\ g.at = Top.at
  BY <1>3 DEF Frames
<1> HIDE DEF g
<1>5. Ending(Top, queue)
  BY <1>2, <1>3 DEF CallsInv, KillInv
<1>6. Ending(g, queue)
  BY <1>1, <1>4, <1>5 DEF Ending
<1>7. CallsInv(stack', None, queue, list, home)
  BY ONLY <1>1, <1>2, <1>3, <1>4, <1>6, Continues DEF Top
<1>8. stack' \in Seq(Frames)
  BY ONLY <1>1, <1>3, <1>4, TailSeq, ConsSeq
<1>9. guards' \in [Stations -> Seq(1 .. MaxGuards)]
  BY <1>1, <1>2
<1> QED BY <1>1, <1>2, <1>7, <1>8, <1>9 DEF StationInv, StationTypeOK, HomeInv

LEMMA KillQueueKeeps == ASSUME StationInv, KillQueue PROVE StationInv'
<1> DEFINE s == Top.at
           x == done[s][1]
<1>1. /\ stack # <<>> /\ Top.op = "kill" /\ s \in Stations
      /\ UNCHANGED <<queue, guards, list, ret, phase, waits, home, history>>
  BY DEF KillQueue
<1>2. CASE done[s] = <<>>
  <2>1. stack' = Pop /\ UNCHANGED done
    BY <1>2 DEF KillQueue
  <2> QED BY <1>1, <2>1, UndoReturns
<1>3. CASE done[s] # <<>>
  <2>1. /\ stack' = <<Frame("kill", x)>> \o stack
        /\ done' = [done EXCEPT ![s] = Tail(@)]
    BY <1>3 DEF KillQueue
  <2>2. /\ StationTypeOK /\ HomeInv /\ CallsInv(stack, ret, queue, list, home)
        /\ done \in [Stations -> Seq(Steps)] /\ ret = None
    BY <1>1, NoAnswer DEF StationInv, StationTypeOK
  <2>3. stack \in Seq(Frames) /\ s = stack[1].at
    BY <1>1, <2>2, OnTop
  <2> HIDE DEF s
  <2>0. /\ done \in [Stations -> Seq(Steps)] /\ Housed(done, home) /\ done[s] # <<>> /\ s \in Stations
        /\ done' = [done EXCEPT ![s] = Tail(@)]
    BY <1>1, <1>3, <2>1, <2>2 DEF HomeInv
  <2>4. x \in Steps /\ home[x] = s
    BY ONLY <2>0, InHoused
  <2>5. done' \in [Stations -> Seq(Steps)] /\ Housed(done', home)
    BY ONLY <2>0, TailHoused
  <2>6. /\ Frame("kill", x) \in Frames /\ Frame("kill", x).at = x /\ Frame("kill", x).op = "kill"
        /\ Ending(Frame("kill", x), queue)
    BY <2>4, FrameType DEF Ending
  <2> HIDE DEF x
  <2>7. CallsInv(stack', None, queue, list, home) /\ stack' \in Seq(Frames)
    BY ONLY <1>1, <2>1, <2>2, <2>3, <2>4, <2>6, Calls, ConsSeq, "kill" # "step"
  <2> QED BY <1>1, <2>2, <2>5, <2>7 DEF StationInv, StationTypeOK, HomeInv
<1> QED BY <1>2, <1>3
-----------------------------------------------------------------------------
(***************************************************************************)
(* The theorems.                                                           *)
(***************************************************************************)
LEMMA StationStepsKeep == ASSUME StationInv, [StationNext]_stationVars PROVE StationInv'
<1>1. CASE UserStep
  BY <1>1, GuardKeeps, SubStepKeeps, AddStepKeeps, UserCallKeeps DEF UserStep
<1>2. CASE Stepping
  BY <1>2, LeafStepKeeps, QueueStepKeeps, QueueReturnKeeps, ParallelStepKeeps,
     ParallelWaitKeeps, ParallelEraseKeeps DEF Stepping
<1>3. CASE Undoing
  BY <1>3, PlainReturnKeeps, RollHeadKeeps, RollDropKeeps, RollDoneKeeps, RollGuardKeeps,
     KillParallelKeeps, KillStationKeeps, KillGuardsKeeps, KillQueueKeeps DEF Undoing
<1>4. CASE Done \/ UNCHANGED stationVars
  BY <1>4, StationUnchanged DEF Done
<1> QED BY <1>1, <1>2, <1>3, <1>4 DEF StationNext

LEMMA StationCorrect == StationSpec => []StationInv
<1>1. StationInv /\ [StationNext]_stationVars => StationInv'
  BY StationStepsKeep
<1> QED BY StationStarts, <1>1, PTL DEF StationSpec

\* Every queue, list and call of the executors has its type: what is stepped,
\* rolled back and destroyed is always a step.
THEOREM StationTypes == StationSpec => []StationTypeOK
<1>1. StationInv => StationTypeOK
  BY DEF StationInv
<1> QED BY <1>1, StationCorrect, PTL

\* The queue of a station is empty when ~QueueImpl runs, as the code asserts, and
\* no step is rolled back, stepped or destroyed by two calls at once.
THEOREM DestroyedEmpty == StationSpec => []DestroyedIsEmpty
<1>1. StationInv => DestroyedIsEmpty
  <2> SUFFICES ASSUME StationInv PROVE DestroyedIsEmpty
    OBVIOUS
  <2>1. StationTypeOK /\ stack \in Seq(Frames) /\ AtOnce(stack) /\ KillInv(stack, queue)
    BY DEF StationInv, StationTypeOK, CallsInv, StackInv
  <2>2. ASSUME At("kill", Stations), Top.i = 2 PROVE queue[Top.at] = <<>>
    BY <2>1, <2>2, OnTop DEF KillInv, Ending
  <2>3. ASSUME NEW i \in 1 .. Len(stack), NEW j \in 1 .. Len(stack),
               stack[i].op = stack[j].op, stack[i].at = stack[j].at
        PROVE  i = j
    <3>1. \A k, m \in 1 .. Len(stack) :
            k < m /\ stack[k].at = stack[m].at => stack[k].op # stack[m].op
      BY <2>1 DEF AtOnce, UndoneFirst
    <3>2. i < j \/ j < i \/ i = j
      BY ONLY i \in 1 .. Len(stack), j \in 1 .. Len(stack), <2>1, EmptySeq
    <3> QED BY ONLY <3>1, <3>2, <2>3
  <2> QED BY <2>2, <2>3 DEF DestroyedIsEmpty
<1> QED BY <1>1, StationCorrect, PTL
-----------------------------------------------------------------------------
(***************************************************************************)
(* Every action keeps the order of undoing.                                *)
(***************************************************************************)
LEMMA UpIsAbove == \A x : Up(x) = Above(home, x)
  BY DEF Up, Above, Closed

LEMMA PathsKept == ASSUME UNCHANGED <<home, owner>> PROVE Paths' = Paths
  BY DEF Paths, Up

LEMMA PathFacts == ASSUME StationTypeOK
                   PROVE  /\ Len(owner) \in Nat /\ DOMAIN Paths = 1 .. Len(owner)
                          /\ \A g \in 1 .. Len(owner) : /\ owner[g] \in Stations /\ owner[g] \in Steps
                                                        /\ Paths[g] = Above(home, owner[g])
<1>1. owner \in Seq(Stations)
  BY DEF StationTypeOK
<1>2. Len(owner) \in Nat /\ \A g \in 1 .. Len(owner) : owner[g] \in Stations
  BY ONLY <1>1, EmptySeq
<1> QED BY <1>2, UpIsAbove DEF Paths, Steps

\* What an action has to show that puts no step and arms no guard.
LEMMA UndoKept == ASSUME UNCHANGED <<home, owner>>,
                         UndoOrder(stack', home, queue', done', Paths, owner),
                         TakenOut(stack', home, queue', done', guards', list'),
                         GuardInv(guards', owner, called')
                  PROVE  UndoInv'
  BY PathsKept DEF UndoInv

\* The parts of the invariants, by name.
LEMMA UndoParts == ASSUME StationInv, UndoInv
                   PROVE  /\ UndoOrder(stack, home, queue, done, Paths, owner)
                          /\ TakenOut(stack, home, queue, done, guards, list)
                          /\ GuardInv(guards, owner, called)
                          /\ home \in [Steps -> Stations \cup Parallels \cup {None}]
                          /\ home \in [Steps -> Steps \cup {None}]
                          /\ OrderInv(queue, done, Paths)
                          /\ stack \in Seq(Frames)
                          /\ queue \in [Stations -> Seq(Steps)] /\ done \in [Stations -> Seq(Steps)]
                          /\ list \in [Parallels -> Seq(Steps)]
                          /\ Housed(queue, home) /\ Housed(done, home) /\ Housed(list, home)
                          /\ CallsInv(stack, ret, queue, list, home)
                          /\ StationTypeOK
  BY DEF UndoInv, StationInv, StationTypeOK, HomeInv, UndoOrder, TreeInv

\* A call returns and nothing is let go.
LEMMA ReturnUndo == ASSUME StationInv, UndoInv, stack # <<>>, stack' = Pop,
                           Top.op = "kill" => ~Full(Top.at, queue, done, guards, list),
                           UNCHANGED <<tree, home, owner, called>>
                    PROVE  UndoInv'
<1>1. /\ UndoOrder(stack, home, queue, done, Paths, owner)
      /\ TakenOut(stack, home, queue, done, guards, list)
      /\ GuardInv(guards, owner, called) /\ stack \in Seq(Frames)
  BY UndoParts
<1>2. UndoOrder(Tail(stack), home, queue, done, Paths, owner)
  BY ONLY <1>1, stack # <<>>, OrderReturns
<1>3. TakenOut(Tail(stack), home, queue, done, guards, list)
  BY ONLY <1>1, stack # <<>>, Top.op = "kill" => ~Full(Top.at, queue, done, guards, list), TakenPop DEF Top
<1> QED BY <1>1, <1>2, <1>3, UndoKept

\* The call on top goes on and may make another.
LEMMA CallUndo == ASSUME StationInv, UndoInv, stack # <<>>, NEW f \in Frames, f.i = 0,
                         stack' = <<f>> \o stack,
                         \/ home[f.at] = Top.at /\ ActiveAt(f, Top.at, queue, done, Paths)
                         \/ f.at = Top.at /\ f.op # "step",
                         UNCHANGED <<tree, home, owner, called>>
                  PROVE  UndoInv'
<1>1. /\ UndoOrder(stack, home, queue, done, Paths, owner)
      /\ TakenOut(stack, home, queue, done, guards, list)
      /\ GuardInv(guards, owner, called) /\ stack \in Seq(Frames)
      /\ home \in [Steps -> Steps \cup {None}]
  BY UndoParts
<1>2. UndoOrder(<<f>> \o stack, home, queue, done, Paths, owner)
  BY <1>1, OrderCalls
<1>3. TakenOut(<<f>> \o stack, home, queue, done, guards, list)
  BY <1>1, TakenPush
<1> QED BY <1>1, <1>2, <1>3, UndoKept

LEMMA TurnUndo == ASSUME StationInv, UndoInv, stack # <<>>,
                         NEW g \in Frames, g.op = Top.op, g.at = Top.at, Bare(g, guards),
                         \/ stack' = SetTop(g)
                         \/ \E f \in Frames :
                              /\ stack' = <<f>> \o SetTop(g) /\ f.i = 0
                              /\ \/ home[f.at] = Top.at /\ ActiveAt(f, Top.at, queue, done, Paths)
                                 \/ f.at = Top.at /\ f.op # "step",
                         UNCHANGED <<tree, home, owner, called>>
                  PROVE  UndoInv'
<1> DEFINE rest == <<g>> \o Tail(stack)
<1>1. /\ UndoOrder(stack, home, queue, done, Paths, owner)
      /\ TakenOut(stack, home, queue, done, guards, list)
      /\ GuardInv(guards, owner, called) /\ stack \in Seq(Frames)
      /\ home \in [Steps -> Steps \cup {None}]
  BY UndoParts
<1>2. g.op = stack[1].op /\ g.at = stack[1].at
  OBVIOUS
<1>3. rest \in Seq(Frames) /\ rest # <<>> /\ rest[1] = g
  BY ONLY <1>1, stack # <<>>, g \in Frames, Popped, Pushed, EmptySeq
<1>4. UndoOrder(rest, home, queue, done, Paths, owner)
  BY ONLY <1>1, <1>2, stack # <<>>, g \in Frames, OrderTurns
<1>5. TakenOut(rest, home, queue, done, guards, list)
  BY ONLY <1>1, <1>2, stack # <<>>, g \in Frames, Bare(g, guards), TakenTurn
<1> HIDE DEF rest
<1>6. CASE stack' = rest
  BY <1>1, <1>4, <1>5, <1>6, UndoKept
<1>7. ASSUME NEW f \in Frames, stack' = <<f>> \o rest, f.i = 0,
             \/ home[f.at] = Top.at /\ ActiveAt(f, Top.at, queue, done, Paths)
             \/ f.at = Top.at /\ f.op # "step"
      PROVE  UndoInv'
  <2>1. \/ home[f.at] = rest[1].at /\ ActiveAt(f, rest[1].at, queue, done, Paths)
        \/ f.at = rest[1].at /\ f.op # "step"
    BY <1>3, <1>7
  <2>2. UndoOrder(<<f>> \o rest, home, queue, done, Paths, owner)
    BY ONLY <1>1, <1>3, <1>4, <2>1, f \in Frames, OrderCalls
  <2>3. f.i # 2
    BY <1>7
  <2>4. TakenOut(<<f>> \o rest, home, queue, done, guards, list)
    BY ONLY <1>3, <1>5, <2>3, f \in Frames, TakenPush
  <2> QED BY <1>1, <1>7, <2>2, <2>4, UndoKept
<1> QED BY <1>6, <1>7 DEF rest

\* The first step that is left is called, by its station.
LEMMA HeadActive == ASSUME StationInv, UndoInv, NEW c \in Stations, queue[c] # <<>>,
                           NEW op \in {"step", "roll", "kill"}
                    PROVE  LET f == Frame(op, queue[c][1])
                           IN  /\ f \in Frames /\ f.i = 0 /\ f.op = op /\ home[f.at] = c
                               /\ ActiveAt(f, c, queue, done, Paths)
<1> DEFINE x == queue[c][1]
<1>1. /\ OrderInv(queue, done, Paths) /\ queue[c] \in Seq(Steps) /\ done[c] \in Seq(Steps)
      /\ queue \in [Stations -> Seq(Steps)] /\ Housed(queue, home)
  BY UndoParts
<1>2. x \in Steps /\ home[x] = c
  BY ONLY <1>1, queue[c] # <<>>, c \in Stations, InHoused
<1>3. Ordered(queue[c], done[c], Paths)
  BY <1>1 DEF OrderInv
<1>4. Latest(x, queue[c], done[c], Paths)
  BY ONLY <1>1, <1>3, queue[c] # <<>>, HeadIsLatest
<1>5. Frame(op, x) \in Frames /\ Frame(op, x).op = op /\ Frame(op, x).at = x /\ Frame(op, x).i = 0
  BY <1>2, FrameType
<1> HIDE DEF x
<1>6. ActiveAt(Frame(op, x), c, queue, done, Paths)
  BY <1>4, <1>5 DEF ActiveAt, x
<1> QED BY <1>2, <1>5, <1>6 DEF x

LEMMA UserCallUndo == ASSUME StationInv, UndoInv, CallStep \/ CallRollback \/ Destroy PROVE UndoInv'
<1>1. /\ UndoOrder(stack, home, queue, done, Paths, owner)
      /\ TakenOut(stack, home, queue, done, guards, list)
      /\ GuardInv(guards, owner, called) /\ stack \in Seq(Frames)
      /\ home \in [Steps -> Steps \cup {None}] /\ CallsInv(stack, ret, queue, list, home)
  BY UndoParts
<1>2. stack = <<>> /\ UNCHANGED <<tree, home, owner, called>>
  BY DEF CallStep, CallRollback, Destroy
<1>3. Root \in Steps /\ home[Root] = None
  BY <1>1, StationAssumption DEF Steps, CallsInv, StackInv, Nested
<1>4. \A op \in {"step", "roll", "kill"} :
        /\ UndoOrder(<<Frame(op, Root)>>, home, queue, done, Paths, owner)
        /\ TakenOut(<<Frame(op, Root)>>, home, queue, done, guards, list)
  <2> TAKE op \in {"step", "roll", "kill"}
  <2>1. Frame(op, Root) \in Frames /\ Frame(op, Root).at = Root /\ Frame(op, Root).i # 2
    BY <1>3, FrameType
  <2>2. UndoOrder(<<Frame(op, Root)>>, home, queue, done, Paths, owner)
    BY <1>1, <1>2, <1>3, <2>1, OrderFirst
  <2>3. <<>> \in Seq(Frames) /\ <<Frame(op, Root)>> \o <<>> = <<Frame(op, Root)>>
    BY <2>1
  <2>4. TakenOut(<<Frame(op, Root)>>, home, queue, done, guards, list)
    <3>1. TakenOut(<<>>, home, queue, done, guards, list)
      BY ONLY <1>1, <1>2
    <3> QED BY <2>1, <2>3, <3>1, TakenPush
  <2> QED BY <2>2, <2>4
<1>5. stack' \in {<<Frame(op, Root)>> : op \in {"step", "roll", "kill"}}
  BY DEF CallStep, CallRollback, Destroy
<1> QED BY <1>1, <1>2, <1>4, <1>5, UndoKept

LEMMA LeafStepUndo == ASSUME StationInv, UndoInv, NEW r \in Status, LeafStep(r) PROVE UndoInv'
  BY ReturnUndo DEF LeafStep, Return

LEMMA QueueStepUndo == ASSUME StationInv, UndoInv, QueueStep PROVE UndoInv'
<1>1. /\ stack # <<>> /\ Top.op = "step" /\ Top.at \in Stations
      /\ UNCHANGED <<tree, home, owner, called>>
  BY DEF QueueStep
<1>2. CASE queue[Top.at] = <<>>
  BY <1>1, <1>2, ReturnUndo, SMTT(20) DEF QueueStep, Return
<1>3. CASE queue[Top.at] # <<>>
  <2>1. stack' = <<Frame("step", queue[Top.at][1])>> \o stack
    BY <1>3 DEF QueueStep
  <2>2. PICK f : f = Frame("step", queue[Top.at][1])
    OBVIOUS
  <2>3. f \in Frames /\ f.i = 0 /\ home[f.at] = Top.at /\ ActiveAt(f, Top.at, queue, done, Paths)
    BY <1>1, <1>3, <2>2, HeadActive
  <2> QED BY <1>1, <2>1, <2>2, <2>3, CallUndo
<1> QED BY <1>2, <1>3

LEMMA ParallelStepUndo == ASSUME StationInv, UndoInv, ParallelStep PROVE UndoInv'
<1>1. /\ stack # <<>> /\ Top.op = "step" /\ Top.at \in Parallels /\ ret = None
      /\ UNCHANGED <<tree, home, owner, called>>
  BY DEF ParallelStep
<1> DEFINE n == IF Top.i = 0 THEN 1 ELSE Top.i
           x == list[Top.at][n]
           g == [Top EXCEPT !.i = n]
<1>2. CASE n <= Len(list[Top.at])
  <2>1. stack' = <<Frame("step", x)>> \o SetTop(g)
    BY <1>2 DEF ParallelStep
  <2>2. StationTypeOK /\ Housed(list, home) /\ list \in [Parallels -> Seq(Steps)]
    BY UndoParts
  <2>3. Top \in Frames /\ Top.i \in Nat
    BY <1>1, <2>2, OnTop DEF Frames
  <2>4. n \in 1 .. Len(list[Top.at])
    <3>1. Len(list[Top.at]) \in Nat
      BY <1>1, <2>2
    <3> QED BY ONLY <1>2, <2>3, <3>1
  <2>5. x \in Steps /\ home[x] = Top.at
    BY <1>1, <2>2, <2>4, EmptySeq DEF Housed
  <2>6. g \in Frames /\ g.op = Top.op /\ g.at = Top.at
    BY <2>3 DEF Frames
  <2>7. Frame("step", x) \in Frames /\ Frame("step", x).at = x /\ Frame("step", x).i = 0
    BY <2>5, FrameType
  <2>8. Top.at \notin Stations
    BY <1>1, StationAssumption
  <2> HIDE DEF n, x, g
  <2>9. Bare(g, guards)
    BY <1>1, <2>6 DEF Bare
  <2>10. ActiveAt(Frame("step", x), Top.at, queue, done, Paths)
    BY <2>8 DEF ActiveAt
  <2> QED BY <1>1, <2>1, <2>5, <2>6, <2>7, <2>9, <2>10, TurnUndo
<1>3. CASE ~(n <= Len(list[Top.at]))
  <2>1. PICK r \in Status : Return(r)
    BY <1>3 DEF ParallelStep, Status
  <2> QED BY <1>1, <2>1, ReturnUndo DEF Return
<1> QED BY <1>2, <1>3

LEMMA ParallelWaitUndo == ASSUME StationInv, UndoInv, ParallelWait PROVE UndoInv'
<1>1. /\ stack # <<>> /\ Top.op = "step" /\ UNCHANGED <<tree, home, owner, called>>
  BY DEF ParallelWait
<1>2. Top \in Frames
  BY <1>1, UndoParts, OnTop
<1>3. PICK g \in Frames : stack' = <<g>> \o Tail(stack) /\ g.op = Top.op /\ g.at = Top.at
  <2> DEFINE g == [Top EXCEPT !.i = @ + 1, !.busy = IF ret = "Busy" THEN @ + 1 ELSE @]
  <2>1. PICK n \in Nat, b \in Nat : n = Top.i /\ b = Top.busy
    BY <1>2 DEF Frames
  <2>2. n + 1 \in Nat /\ b + 1 \in Nat
    BY ONLY n \in Nat, b \in Nat
  <2>3. g \in Frames /\ g.op = Top.op /\ g.at = Top.at
    BY <1>2, <2>1, <2>2 DEF Frames
  <2> QED BY <2>3 DEF ParallelWait
<1>4. Bare(g, guards)
  BY <1>1, <1>3 DEF Bare
<1> QED BY <1>1, <1>3, <1>4, TurnUndo

LEMMA RollHeadUndo == ASSUME StationInv, UndoInv, RollHead PROVE UndoInv'
<1> DEFINE g == [Top EXCEPT !.i = 1]
<1>1. /\ stack # <<>> /\ Top.op = "roll" /\ Top.at \in Stations
      /\ stack' = IF queue[Top.at] = <<>> THEN SetTop(g)
                  ELSE <<Frame("roll", queue[Top.at][1])>> \o SetTop(g)
      /\ UNCHANGED <<tree, home, owner, called>>
  BY DEF RollHead
<1>2. Top \in Frames
  BY <1>1, UndoParts, OnTop
<1>3. g \in Frames /\ g.op = Top.op /\ g.at = Top.at
  BY <1>2 DEF Frames
<1> HIDE DEF g
<1>4. Bare(g, guards)
  BY <1>1, <1>3 DEF Bare
<1>5. CASE queue[Top.at] = <<>>
  BY <1>1, <1>3, <1>4, <1>5, TurnUndo
<1>6. CASE queue[Top.at] # <<>>
  <2>1. PICK f : f = Frame("roll", queue[Top.at][1])
    OBVIOUS
  <2>2. f \in Frames /\ f.i = 0 /\ home[f.at] = Top.at /\ ActiveAt(f, Top.at, queue, done, Paths)
    BY <1>1, <1>6, <2>1, HeadActive
  <2> QED BY <1>1, <1>3, <1>4, <1>6, <2>1, <2>2, TurnUndo
<1> QED BY <1>5, <1>6

LEMMA KillStationUndo == ASSUME StationInv, UndoInv, KillStation PROVE UndoInv'
<1> DEFINE g == [Top EXCEPT !.i = 1]
           f == Frame("roll", Top.at)
<1>1. /\ stack # <<>> /\ Top.op = "kill" /\ Top.at \in Stations
      /\ stack' = IF queue[Top.at] = <<>> THEN SetTop(g) ELSE <<f>> \o SetTop(g)
      /\ UNCHANGED <<tree, home, owner, called>>
  BY DEF KillStation
<1>2. Top \in Frames /\ Top.at \in Steps
  BY <1>1, UndoParts, OnTop
<1>3. g \in Frames /\ g.op = Top.op /\ g.at = Top.at /\ g.i # 2
  BY <1>2 DEF Frames
<1>4. f \in Frames /\ f.at = Top.at /\ f.op # "step" /\ f.i = 0
  BY <1>2, FrameType
<1> HIDE DEF g, f
<1>5. Bare(g, guards)
  BY <1>3 DEF Bare
<1> QED BY <1>1, <1>3, <1>4, <1>5, TurnUndo

LEMMA PlainReturnUndo == ASSUME StationInv, UndoInv, RollNothing \/ RollEnd \/ KillLeaf PROVE UndoInv'
<1>1. stack # <<>> /\ stack' = Pop /\ UNCHANGED <<tree, home, owner, called>>
  BY DEF RollNothing, RollEnd, Rolling, KillLeaf
<1>2. Top.op = "kill" => Top.at \in Leaves
  BY DEF RollNothing, RollEnd, Rolling, KillLeaf
<1>3. Top.op = "kill" => ~Full(Top.at, queue, done, guards, list)
  BY <1>2, StationAssumption DEF Full
<1> QED BY <1>1, <1>3, ReturnUndo

\* What a station has of its steps.
LEMMA StationHas == ASSUME StationInv, UndoInv, NEW c \in Stations
                    PROVE  /\ queue[c] \in Seq(Steps) /\ done[c] \in Seq(Steps)
                           /\ Ordered(queue[c], done[c], Paths)
                           /\ queue[c] # <<>> => queue[c][1] \in Steps /\ home[queue[c][1]] = c
                           /\ done[c] # <<>> => done[c][1] \in Steps /\ home[done[c][1]] = c
<1>1. /\ queue \in [Stations -> Seq(Steps)] /\ done \in [Stations -> Seq(Steps)]
      /\ OrderInv(queue, done, Paths) /\ Housed(queue, home) /\ Housed(done, home)
  BY UndoParts
<1>2. queue[c] # <<>> => queue[c][1] \in Steps /\ home[queue[c][1]] = c
  BY ONLY <1>1, c \in Stations, InHoused
<1>3. done[c] # <<>> => done[c][1] \in Steps /\ home[done[c][1]] = c
  BY ONLY <1>1, c \in Stations, InHoused, SMTT(20)
<1> QED BY <1>1, <1>2, <1>3 DEF OrderInv

LEMMA QueueReturnUndo == ASSUME StationInv, UndoInv, QueueReturn PROVE UndoInv'
<1>1. /\ stack # <<>> /\ Top.op = "step" /\ Top.at \in Stations /\ ret # None
      /\ stack' = Pop /\ UNCHANGED <<guards, list, home, owner, called>>
  BY DEF QueueReturn, Return
<1>2. CASE ret # "Completed"
  BY <1>1, <1>2, ReturnUndo DEF QueueReturn
<1>3. CASE ret = "Completed"
  <2>1. PICK c \in Stations : c = Top.at
    BY <1>1
  <2>2. /\ queue' = [queue EXCEPT ![c] = Tail(@)]
        /\ done' = [done EXCEPT ![c] = <<queue[c][1]>> \o @]
    BY <1>3, <2>1 DEF QueueReturn
  <2>3. /\ UndoOrder(stack, home, queue, done, Paths, owner)
        /\ TakenOut(stack, home, queue, done, guards, list)
        /\ GuardInv(guards, owner, called) /\ stack \in Seq(Frames)
        /\ home \in [Steps -> Stations \cup Parallels \cup {None}]
        /\ home \in [Steps -> Steps \cup {None}]
        /\ queue \in [Stations -> Seq(Steps)] /\ done \in [Stations -> Seq(Steps)]
        /\ CallsInv(stack, ret, queue, list, home)
    BY UndoParts
  <2>4. queue[c] # <<>>
    <3>1. 1 \in 1 .. Len(stack) /\ Waiting(stack, 1, ret)
      BY <1>1, UndoParts, OnTop DEF Waiting
    <3> QED BY <1>1, <2>1, <2>3, <3>1 DEF CallsInv, ChildInv, HasStep
  <2>5. queue[c] \in Seq(Steps) /\ done[c] \in Seq(Steps) /\ Ordered(queue[c], done[c], Paths)
    BY StationHas
  <2>6. Ordered(Tail(queue[c]), <<queue[c][1]>> \o done[c], Paths)
    BY ONLY <2>4, <2>5, HeadDone
  <2>7. /\ Elems(Tail(queue[c])) \subseteq Elems(queue[c])
        /\ Tail(queue[c]) # <<>> => Elems(Tail(Tail(queue[c]))) \subseteq Elems(Tail(queue[c]))
    <3>1. PICK t \in Seq(Steps) : t = Tail(queue[c]) /\ Elems(t) \subseteq Elems(queue[c])
      BY ONLY <2>4, <2>5, ElemsTail
    <3>2. t # <<>> => Elems(Tail(t)) \subseteq Elems(t)
      BY ONLY t \in Seq(Steps), ElemsTail
    <3> QED BY ONLY <3>1, <3>2
  <2>8. /\ \A s \in Stations : s # c => queue'[s] = queue[s] /\ done'[s] = done[s]
        /\ queue'[c] = Tail(queue[c]) /\ done'[c] = <<queue[c][1]>> \o done[c]
    BY <2>2, <2>3
  <2>9. UndoOrder(stack, home, queue', done', Paths, owner)
    <3>1. stack[1].at = c
      BY <2>1
    <3>2. PICK q2, d2 : q2 = queue' /\ d2 = done'
      OBVIOUS
    <3>3. /\ Ordered(q2[c], d2[c], Paths) /\ Elems(q2[c]) \subseteq Elems(queue[c])
          /\ q2[c] # <<>> => Elems(Tail(q2[c])) \subseteq Elems(Tail(queue[c]))
          /\ \A s \in Stations : s # c => q2[s] = queue[s] /\ d2[s] = done[s]
      BY ONLY <2>6, <2>7, <2>8, <3>2
    <3>4. UndoOrder(stack, home, q2, d2, Paths, owner)
      <4>1. /\ stack \in Seq(Frames) /\ stack # <<>> /\ stack[1].at \in Stations
            /\ home \in [Steps -> Steps \cup {None}]
            /\ UndoOrder(stack, home, queue, done, Paths, owner)
        BY ONLY <1>1, <2>3, <3>1, c \in Stations
      <4>2. /\ Ordered(q2[stack[1].at], d2[stack[1].at], Paths)
            /\ Elems(q2[stack[1].at]) \subseteq Elems(queue[stack[1].at])
            /\ q2[stack[1].at] # <<>> =>
                 Elems(Tail(q2[stack[1].at])) \subseteq Elems(Tail(queue[stack[1].at]))
            /\ \A s \in Stations : s # stack[1].at => q2[s] = queue[s] /\ d2[s] = done[s]
        BY ONLY <3>1, <3>3
      <4> QED BY ONLY <4>1, <4>2, OrderSpends
    <3> QED BY ONLY <3>2, <3>4
  <2>10. UndoOrder(stack', home, queue', done', Paths, owner)
    BY ONLY <1>1, <2>3, <2>9, OrderReturns DEF Pop
  <2>11. TakenOut(stack, home, queue', done', guards, list)
    BY ONLY <2>1, <2>2, <2>3, <2>4, TakenMoved
  <2>12. TakenOut(stack', home, queue', done', guards, list)
    <3>1. stack[1].op # "kill"
      BY <1>1
    <3> QED BY ONLY <1>1, <2>3, <2>11, <3>1, TakenPop DEF Pop
  <2> QED BY <1>1, <2>3, <2>10, <2>12, UndoKept
<1> QED BY <1>2, <1>3

LEMMA ParallelEraseUndo == ASSUME StationInv, UndoInv, ParallelErase PROVE UndoInv'
<1> DEFINE x == list[Top.at][Top.i]
           under == <<Frame("kill", x)>> \o stack
<1>1. /\ stack # <<>> /\ Top.op = "step" /\ Top.at \in Parallels /\ ret # None
      /\ list' = Erased(Top.at, Top.i) /\ UNCHANGED <<queue, done, guards, home, owner, called>>
  BY StationAssumption DEF ParallelErase
<1>2. /\ UndoOrder(stack, home, queue, done, Paths, owner)
      /\ TakenOut(stack, home, queue, done, guards, list)
      /\ GuardInv(guards, owner, called) /\ stack \in Seq(Frames)
      /\ home \in [Steps -> Stations \cup Parallels \cup {None}]
      /\ home \in [Steps -> Steps \cup {None}]
      /\ list \in [Parallels -> Seq(Steps)] /\ Housed(list, home)
      /\ CallsInv(stack, ret, queue, list, home)
  BY UndoParts
<1>3. PICK p \in Parallels : p = Top.at
  BY <1>1
<1>4. PICK n \in 1 .. Len(list[p]) : n = Top.i
  <2>1. 1 \in 1 .. Len(stack) /\ Waiting(stack, 1, ret)
    BY <1>1, UndoParts, OnTop DEF Waiting
  <2> QED BY <1>1, <1>2, <1>3, <2>1 DEF CallsInv, ChildInv, HasStep
<1>5. x \in Steps /\ home[x] = p /\ x = list[p][n]
  <2>1. list[p][n] \in Steps /\ home[list[p][n]] = p
    BY ONLY <1>2, p \in Parallels, n \in 1 .. Len(list[p]), InHoused
  <2> QED BY <1>3, <1>4, <2>1
<1> HIDE DEF x
<1>6. \A b \in Parallels : /\ list'[b] # <<>> => list[b] # <<>>
                           /\ \A y \in Elems(list[b]) : y \in Elems(list'[b]) \/ y = x
  <2>1. list' = [list EXCEPT ![p] = SubSeq(@, 1, n - 1) \o SubSeq(@, n + 1, Len(@))]
    BY <1>1, <1>3, <1>4 DEF Erased
  <2> TAKE b \in Parallels
  <2>2. CASE b # p
    <3>1. list'[b] = list[b]
      BY <1>2, <2>1, <2>2
    <3> QED BY ONLY <3>1
  <2>3. CASE b = p
    <3>1. list[p] \in Seq(Steps)
      BY <1>2
    <3>2. \A y \in Elems(list[p]) :
             y = list[p][n] \/ y \in Elems(SubSeq(list[p], 1, n - 1) \o SubSeq(list[p], n + 1, Len(list[p])))
      BY ONLY <3>1, n \in 1 .. Len(list[p]), EraseLeaves
    <3>3. list'[p] = SubSeq(list[p], 1, n - 1) \o SubSeq(list[p], n + 1, Len(list[p]))
      BY <1>2, <2>1
    <3>4. list[p] # <<>>
      <4>1. Len(list[p]) # 0
        BY ONLY <3>1, n \in 1 .. Len(list[p]), EmptySeq
      <4> QED BY ONLY <3>1, <4>1, EmptySeq
    <3> QED BY ONLY <1>5, <2>3, <3>2, <3>3, <3>4
  <2> QED BY <2>2, <2>3
<1>7. \A op \in {"roll", "kill"} :
         /\ Frame(op, x) \in Frames /\ Frame(op, x).at = x /\ Frame(op, x).op = op
         /\ Frame(op, x).i # 2
  BY <1>5, FrameType
<1>8. under \in Seq(Frames) /\ under[1] = Frame("kill", x) /\ under # <<>>
  BY ONLY <1>2, <1>7, Pushed, EmptySeq, SMTT(20)
<1>9. UndoOrder(under, home, queue, done, Paths, owner)
  <2>1. ActiveAt(Frame("kill", x), p, queue, done, Paths)
    BY StationAssumption DEF ActiveAt
  <2> QED BY <1>1, <1>2, <1>3, <1>5, <1>7, <2>1, OrderCalls
<1>10. TakenOut(under, home, queue, done, guards, list')
  <2>1. TakenOut(under, home, queue, done, guards, list)
    BY ONLY <1>2, <1>7, TakenPush
  <2>2. Killed(under, x)
    <3>1. Frame("kill", x) \in Elems(under)
      BY ONLY <1>8, ElemsTail
    <3> QED BY <1>7, <3>1 DEF Killed
  <2> HIDE DEF under
  <2> QED BY ONLY <1>2, <1>6, <2>1, <2>2, TakenList
<1> HIDE DEF under
<1>11. UndoOrder(<<Frame("roll", x)>> \o under, home, queue, done, Paths, owner)
  <2>1. Frame("roll", x).at = under[1].at /\ Frame("roll", x).op # "step"
    BY <1>7, <1>8
  <2> QED BY ONLY <1>2, <1>7, <1>8, <1>9, <2>1, OrderCalls
<1>12. TakenOut(<<Frame("roll", x)>> \o under, home, queue, done, guards, list')
  BY ONLY <1>7, <1>8, <1>10, TakenPush, SMTT(20)
<1>13. stack' = <<Frame("roll", x)>> \o under \/ stack' = under
  <2>1. <<>> \o under = under
    BY ONLY <1>8
  <2> QED BY <2>1 DEF ParallelErase, under, x
<1> QED BY <1>1, <1>2, <1>9, <1>10, <1>11, <1>12, <1>13, UndoKept

\* Station c lets x go: q2 and d2 are what is left of its steps.
Releases(c, x, q2, d2) ==
  /\ x \in Steps /\ home[x] = c
  /\ \A s \in Stations : s # c => q2[s] = queue[s] /\ d2[s] = done[s]
  /\ Ordered(q2[c], d2[c], Paths) /\ Latest(x, q2[c], d2[c], Paths)
  /\ Elems(q2[c]) \subseteq Elems(queue[c])
  /\ q2[c] # <<>> => Elems(Tail(q2[c])) \subseteq Elems(Tail(queue[c]))

LEMMA LetGo == ASSUME StationInv, UndoInv, stack # <<>>, NEW c \in Stations, c = Top.at,
                      NEW x, NEW q2, NEW d2, Releases(c, x, q2, d2),
                      NEW under, under = <<Frame("kill", x)>> \o stack
               PROVE  /\ under \in Seq(Frames) /\ under # <<>> /\ under[1] = Frame("kill", x)
                      /\ UndoOrder(under, home, q2, d2, Paths, owner)
                      /\ TakenOut(under, home, queue, done, guards, list)
                      /\ Killed(under, x)
<1>0. under = <<Frame("kill", x)>> \o stack
  OBVIOUS
<1>8. /\ x \in Steps /\ home[x] = c
      /\ \A s \in Stations : s # c => q2[s] = queue[s] /\ d2[s] = done[s]
      /\ Ordered(q2[c], d2[c], Paths) /\ Latest(x, q2[c], d2[c], Paths)
      /\ Elems(q2[c]) \subseteq Elems(queue[c])
      /\ q2[c] # <<>> => Elems(Tail(q2[c])) \subseteq Elems(Tail(queue[c]))
  BY DEF Releases
<1>1. /\ UndoOrder(stack, home, queue, done, Paths, owner)
      /\ TakenOut(stack, home, queue, done, guards, list)
      /\ stack \in Seq(Frames) /\ home \in [Steps -> Steps \cup {None}]
  BY UndoParts
<1>2. UndoOrder(stack, home, q2, d2, Paths, owner)
  <2>1. stack[1].at = c /\ stack # <<>>
    OBVIOUS
  <2> QED BY ONLY <1>1, <1>8, <2>1, c \in Stations, OrderSpends
<1>3. /\ Frame("kill", x) \in Frames /\ Frame("kill", x).at = x
      /\ Frame("kill", x).op = "kill" /\ Frame("kill", x).i # 2
  BY <1>8, FrameType
<1>4. under \in Seq(Frames) /\ under[1] = Frame("kill", x) /\ under # <<>>
  BY ONLY <1>0, <1>1, <1>3, Pushed, EmptySeq
<1>5. UndoOrder(under, home, q2, d2, Paths, owner)
  <2>1. ActiveAt(Frame("kill", x), c, q2, d2, Paths)
    BY <1>3, <1>8 DEF ActiveAt
  <2>2. home[Frame("kill", x).at] = stack[1].at /\ stack[1].at = c
    BY <1>3, <1>8
  <2>3. stack # <<>>
    OBVIOUS
  <2> QED BY ONLY <1>0, <1>1, <1>2, <1>3, <2>1, <2>2, <2>3, OrderCalls
<1>6. TakenOut(under, home, queue, done, guards, list)
  BY ONLY <1>0, <1>1, <1>3, TakenPush
<1>7. Killed(under, x)
  <2>1. Frame("kill", x) \in Elems(under)
    BY ONLY <1>4, ElemsTail
  <2> QED BY <1>3, <2>1 DEF Killed
<1> QED BY <1>4, <1>5, <1>6, <1>7

LEMMA RollDropUndo == ASSUME StationInv, UndoInv, RollDrop PROVE UndoInv'
<1>1. PICK c \in Stations : /\ Rolling(c) /\ queue[c] # <<>>
                            /\ queue' = [queue EXCEPT ![c] = Tail(@)]
                            /\ stack' = <<Frame("kill", queue[c][1])>> \o stack
                            /\ UNCHANGED <<done, guards, list, home, owner, called>>
  BY DEF RollDrop
<1>2. stack # <<>> /\ c = Top.at
  BY <1>1 DEF Rolling
<1>0. StationInv /\ UndoInv /\ stack # <<>> /\ c = Top.at
  BY <1>2
<1>3. /\ home \in [Steps -> Stations \cup Parallels \cup {None}]
      /\ queue \in [Stations -> Seq(Steps)] /\ GuardInv(guards, owner, called)
  BY UndoParts
<1>4. /\ queue[c] \in Seq(Steps) /\ done[c] \in Seq(Steps) /\ Ordered(queue[c], done[c], Paths)
      /\ queue[c][1] \in Steps /\ home[queue[c][1]] = c
  BY <1>1, StationHas
<1>5. Ordered(Tail(queue[c]), done[c], Paths) /\ Latest(queue[c][1], Tail(queue[c]), done[c], Paths)
  BY ONLY <1>1, <1>4, HeadDropped
<1>6. /\ Elems(Tail(queue[c])) \subseteq Elems(queue[c])
      /\ Tail(queue[c]) # <<>> => Elems(Tail(Tail(queue[c]))) \subseteq Elems(Tail(queue[c]))
  <2>1. PICK t \in Seq(Steps) : t = Tail(queue[c]) /\ Elems(t) \subseteq Elems(queue[c])
    BY ONLY <1>1, <1>4, ElemsTail
  <2>2. t # <<>> => Elems(Tail(t)) \subseteq Elems(t)
    BY ONLY t \in Seq(Steps), ElemsTail
  <2> QED BY ONLY <2>1, <2>2
<1>7. PICK q2, x : q2 = queue' /\ x = queue[c][1]
  OBVIOUS
<1>8. q2[c] = Tail(queue[c]) /\ \A s \in Stations : s # c => q2[s] = queue[s]
  BY <1>1, <1>3, <1>7
<1>9. PICK under : under = <<Frame("kill", x)>> \o stack
  OBVIOUS
<1>10. /\ UndoOrder(under, home, q2, done, Paths, owner)
       /\ TakenOut(under, home, queue, done, guards, list) /\ Killed(under, x)
  <2>1. Releases(c, x, q2, done)
    BY ONLY <1>4, <1>5, <1>6, <1>7, <1>8 DEF Releases
  <2> QED BY ONLY <1>0, <1>9, <2>1, c \in Stations, LetGo
<1>11. TakenOut(under, home, queue', done, guards, list)
  BY ONLY <1>1, <1>3, <1>7, <1>10, c \in Stations, TakenQueue
<1>12. stack' = under
  BY <1>1, <1>7, <1>9, SMTT(20)
<1> QED BY <1>1, <1>3, <1>7, <1>10, <1>11, <1>12, UndoKept

\* A station lets its latest completed step go.
LEMMA DoneLetGo == ASSUME StationInv, UndoInv, stack # <<>>, NEW c \in Stations, c = Top.at,
                          queue[c] = <<>>, done[c] # <<>>, NEW d2, d2 = [done EXCEPT ![c] = Tail(@)],
                          NEW x, x = done[c][1], NEW under, under = <<Frame("kill", x)>> \o stack
                   PROVE  /\ x \in Steps /\ under \in Seq(Frames) /\ under # <<>> /\ under[1] = Frame("kill", x)
                          /\ UndoOrder(under, home, queue, d2, Paths, owner)
                          /\ TakenOut(under, home, queue, d2, guards, list)
<1>0. StationInv /\ UndoInv /\ stack # <<>> /\ c = Top.at
  OBVIOUS
<1>1. /\ home \in [Steps -> Stations \cup Parallels \cup {None}]
      /\ done \in [Stations -> Seq(Steps)]
  BY UndoParts
<1>2. /\ queue[c] \in Seq(Steps) /\ done[c] \in Seq(Steps) /\ Ordered(queue[c], done[c], Paths)
      /\ done[c][1] \in Steps /\ home[done[c][1]] = c
  BY StationHas
<1>3. Ordered(queue[c], Tail(done[c]), Paths) /\ Latest(done[c][1], queue[c], Tail(done[c]), Paths)
  <2>1. Ordered(<<>>, done[c], Paths) /\ queue[c] = <<>>
    BY <1>2
  <2>2. done[c] # <<>>
    OBVIOUS
  <2>3. Ordered(<<>>, Tail(done[c]), Paths) /\ Latest(done[c][1], <<>>, Tail(done[c]), Paths)
    BY ONLY <1>2, <2>1, <2>2, DoneDropped
  <2> QED BY ONLY <2>1, <2>3
<1>5. d2[c] = Tail(done[c]) /\ \A s \in Stations : s # c => d2[s] = done[s]
  BY <1>1
<1>6. under = <<Frame("kill", x)>> \o stack /\ x = done[c][1]
  OBVIOUS
<1>7. /\ under \in Seq(Frames) /\ under # <<>> /\ under[1] = Frame("kill", x)
      /\ UndoOrder(under, home, queue, d2, Paths, owner)
      /\ TakenOut(under, home, queue, done, guards, list) /\ Killed(under, x)
  <2>1. Releases(c, x, queue, d2)
    BY ONLY <1>2, <1>3, <1>5, <1>6 DEF Releases
  <2>2. under = <<Frame("kill", x)>> \o stack
    BY <1>6
  <2>3. /\ under \in Seq(Frames) /\ under # <<>>
        /\ UndoOrder(under, home, queue, d2, Paths, owner)
        /\ TakenOut(under, home, queue, done, guards, list) /\ Killed(under, x)
    BY ONLY <1>0, <2>1, <2>2, c \in Stations, LetGo
  <2>4. under[1] = Frame("kill", x)
    BY ONLY <1>0, <2>1, <2>2, c \in Stations, LetGo
  <2> QED BY ONLY <2>3, <2>4
<1>8. TakenOut(under, home, queue, d2, guards, list)
  <2>1. d2 = [done EXCEPT ![c] = Tail(@)] /\ done[c] # <<>>
    OBVIOUS
  <2> QED BY ONLY <1>1, <1>6, <1>7, <2>1, c \in Stations, TakenDone
<1> QED BY <1>2, <1>6, <1>7, <1>8

LEMMA RollDoneUndo == ASSUME StationInv, UndoInv, RollDone PROVE UndoInv'
<1>1. PICK c \in Stations :
         /\ Rolling(c) /\ queue[c] = <<>> /\ done[c] # <<>>
         /\ done' = [done EXCEPT ![c] = Tail(@)]
         /\ stack' = <<Frame("roll", done[c][1]), Frame("kill", done[c][1])>> \o stack
         /\ UNCHANGED <<queue, guards, list, home, owner, called>>
  BY DEF RollDone
<1>2. stack # <<>> /\ c = Top.at
  BY <1>1 DEF Rolling
<1>3. home \in [Steps -> Steps \cup {None}] /\ GuardInv(guards, owner, called) /\ stack \in Seq(Frames)
  BY UndoParts
<1>4. PICK d2, x : d2 = done' /\ x = done[c][1]
  OBVIOUS
<1>5. PICK under : under = <<Frame("kill", x)>> \o stack
  OBVIOUS
<1>6. /\ x \in Steps /\ under \in Seq(Frames) /\ under # <<>> /\ under[1] = Frame("kill", x)
      /\ UndoOrder(under, home, queue, d2, Paths, owner)
      /\ TakenOut(under, home, queue, d2, guards, list)
  BY <1>1, <1>2, <1>4, <1>5, DoneLetGo
<1>7. /\ Frame("roll", x) \in Frames /\ Frame("roll", x).op = "roll" /\ Frame("roll", x).at = x
      /\ Frame("roll", x).i # 2
      /\ Frame("kill", x) \in Frames /\ Frame("kill", x).at = x
  BY <1>6, FrameType
<1>8. UndoOrder(<<Frame("roll", x)>> \o under, home, queue, d2, Paths, owner)
  <2>1. Frame("roll", x).at = under[1].at /\ Frame("roll", x).op # "step"
    BY <1>6, <1>7
  <2> QED BY ONLY <1>3, <1>6, <1>7, <2>1, OrderCalls
<1>9. TakenOut(<<Frame("roll", x)>> \o under, home, queue, d2, guards, list)
  BY ONLY <1>6, <1>7, TakenPush
<1>10. stack' = <<Frame("roll", x)>> \o under
  <2>1. stack' = <<Frame("roll", x), Frame("kill", x)>> \o stack
    BY <1>1, <1>4
  <2> QED BY ONLY <1>3, <1>5, <1>7, <2>1
<1> QED BY <1>1, <1>3, <1>4, <1>8, <1>9, <1>10, UndoKept

LEMMA KillQueueUndo == ASSUME StationInv, UndoInv, KillQueue PROVE UndoInv'
<1>1. PICK c \in Stations : c = Top.at
  BY DEF KillQueue
<1>2. /\ stack # <<>> /\ Top.op = "kill" /\ Top.i = 2 /\ Top.at \in Stations
      /\ UNCHANGED <<queue, guards, list, home, owner, called>>
  BY DEF KillQueue
<1>3. /\ stack \in Seq(Frames) /\ CallsInv(stack, ret, queue, list, home) /\ StationTypeOK
      /\ TakenOut(stack, home, queue, done, guards, list) /\ GuardInv(guards, owner, called)
  BY UndoParts
<1>4. queue[c] = <<>> /\ guards[c] = <<>>
  <2>1. Len(stack) > 0 /\ Ending(Top, queue)
    BY <1>2, <1>3, OnTop DEF CallsInv, KillInv
  <2>2. stack[1] \in Elems(stack)
    BY ONLY <1>2, <1>3, ElemsTail
  <2>3. Bare(Top, guards)
    BY <1>3, <2>2 DEF TakenOut
  <2> QED BY <1>1, <1>2, <2>1, <2>3 DEF Ending, Bare
<1>5. CASE done[c] = <<>>
  <2>1. c \notin Parallels
    BY StationAssumption
  <2>2. ~Full(Top.at, queue, done, guards, list)
    BY <1>1, <1>4, <1>5, <2>1 DEF Full
  <2> QED BY <1>1, <1>2, <1>5, <2>2, ReturnUndo DEF KillQueue
<1>6. CASE done[c] # <<>>
  <2>1. /\ stack' = <<Frame("kill", done[c][1])>> \o stack
        /\ done' = [done EXCEPT ![c] = Tail(@)]
    BY <1>1, <1>6 DEF KillQueue
  <2>2. PICK d2, under, x : d2 = done' /\ under = stack' /\ x = done[c][1]
    OBVIOUS
  <2>3. UndoOrder(under, home, queue, d2, Paths, owner) /\ TakenOut(under, home, queue, d2, guards, list)
    BY <1>1, <1>2, <1>4, <1>6, <2>1, <2>2, DoneLetGo
  <2> QED BY <1>2, <1>3, <2>2, <2>3, UndoKept
<1> QED BY <1>5, <1>6

LEMMA KillParallelUndo == ASSUME StationInv, UndoInv, KillParallel PROVE UndoInv'
<1>1. PICK p \in Parallels : p = Top.at
  BY DEF KillParallel
<1>2. /\ stack # <<>> /\ Top.op = "kill" /\ UNCHANGED <<queue, done, guards, home, owner, called>>
  BY DEF KillParallel
<1>3. p \notin Stations
  BY StationAssumption
<1>4. CASE list[p] = <<>>
  <2>1. ~Full(Top.at, queue, done, guards, list)
    BY <1>1, <1>3, <1>4 DEF Full
  <2> QED BY <1>1, <1>2, <1>4, <2>1, ReturnUndo DEF KillParallel
<1>5. CASE list[p] # <<>>
  <2>1. PICK x : x = list[p][1]
    OBVIOUS
  <2>2. /\ stack' = <<Frame("kill", x)>> \o stack
        /\ list' = [list EXCEPT ![p] = Tail(@)]
    BY <1>1, <1>5, <2>1 DEF KillParallel
  <2>3. /\ UndoOrder(stack, home, queue, done, Paths, owner)
        /\ TakenOut(stack, home, queue, done, guards, list)
        /\ GuardInv(guards, owner, called) /\ stack \in Seq(Frames)
        /\ home \in [Steps -> Stations \cup Parallels \cup {None}]
        /\ home \in [Steps -> Steps \cup {None}]
        /\ list \in [Parallels -> Seq(Steps)] /\ Housed(list, home)
    BY UndoParts
  <2>4. x \in Steps /\ home[x] = p
    BY ONLY <1>5, <2>1, <2>3, p \in Parallels, InHoused
  <2>5. /\ Frame("kill", x) \in Frames /\ Frame("kill", x).at = x /\ Frame("kill", x).op = "kill"
        /\ Frame("kill", x).i # 2
    BY <2>4, FrameType
  <2>6. UndoOrder(<<Frame("kill", x)>> \o stack, home, queue, done, Paths, owner)
    <3>1. home[Frame("kill", x).at] = stack[1].at /\ ActiveAt(Frame("kill", x), stack[1].at, queue, done, Paths)
      BY <1>1, <1>3, <2>4, <2>5 DEF ActiveAt
    <3> QED BY ONLY <1>2, <2>3, <2>5, <3>1, OrderCalls
  <2>7. PICK under : under = <<Frame("kill", x)>> \o stack
    OBVIOUS
  <2>8. TakenOut(under, home, queue, done, guards, list)
    BY ONLY <2>3, <2>5, <2>7, TakenPush
  <2>9. Killed(under, x)
    <3>1. Frame("kill", x) \in Elems(under)
      BY ONLY <2>3, <2>5, <2>7, StackElems
    <3> QED BY <2>5, <3>1 DEF Killed
  <2>10. PICK l2 : l2 = list'
    OBVIOUS
  <2>11. \A b \in Parallels : /\ l2[b] # <<>> => list[b] # <<>>
                              /\ \A y \in Elems(list[b]) : y \in Elems(l2[b]) \/ y = x
    BY <1>5, <2>1, <2>2, <2>3, <2>10, FirstTaken
  <2>12. TakenOut(under, home, queue, done, guards, l2)
    BY ONLY <2>3, <2>8, <2>9, <2>11, TakenList
  <2> QED BY <1>2, <2>2, <2>3, <2>6, <2>7, <2>10, <2>12, UndoKept
<1> QED BY <1>4, <1>5

-----------------------------------------------------------------------------
(***************************************************************************)
(* The guards of a station.                                                *)
(***************************************************************************)
\* What GuardInv says of one station's guards.
Waits(gseq, s, o, cd) ==
  \A k \in 1 .. Len(gseq) : /\ gseq[k] \in 1 .. Len(o) /\ o[gseq[k]] = s
                            /\ \A m \in 1 .. Len(cd) : cd[m] # gseq[k]
                            /\ \A m \in 1 .. Len(gseq) : m < k => gseq[k] < gseq[m]

LEMMA GuardCalled == ASSUME NEW S, NEW gseq \in Seq(S), gseq # <<>>, NEW s, NEW o, Len(o) \in Nat,
                            NEW cd \in Seq(S), Waits(gseq, s, o, cd)
                     PROVE  Waits(Tail(gseq), s, o, Append(cd, gseq[1]))
<1> DEFINE t == Tail(gseq)
           g == gseq[1]
           e == Append(cd, g)
<1>1. /\ Len(gseq) \in Nat /\ Len(gseq) > 0 /\ Len(t) = Len(gseq) - 1
      /\ \A k \in 1 .. Len(t) : t[k] = gseq[k + 1]
      /\ g \in S
  BY ONLY TailSeq, gseq \in Seq(S), gseq # <<>>
<1>2. Len(cd) \in Nat /\ Len(e) = Len(cd) + 1 /\ e[Len(cd) + 1] = g /\ \A k \in 1 .. Len(cd) : e[k] = cd[k]
  BY ONLY ElemsAppend, cd \in Seq(S), <1>1
<1> HIDE DEF t, e
<1>3. \A k \in 1 .. Len(t) : k + 1 \in 1 .. Len(gseq) /\ 1 \in 1 .. Len(gseq) /\ 1 < k + 1
  BY ONLY <1>1
<1>4. \A m \in 1 .. Len(e) : m = Len(cd) + 1 \/ m \in 1 .. Len(cd)
  BY ONLY <1>2
<1>5. \A m, k \in 1 .. Len(t) : m < k => m + 1 < k + 1
  BY ONLY <1>1
<1>6. \A k \in 1 .. Len(t) : gseq[k + 1] # g
  <2> TAKE k \in 1 .. Len(t)
  <2>1. gseq[k + 1] < g /\ g \in Int /\ gseq[k + 1] \in Int
    BY <1>3 DEF Waits
  <2> QED BY ONLY <2>1
<1>7. ASSUME NEW k \in 1 .. Len(t)
      PROVE  /\ t[k] \in 1 .. Len(o) /\ o[t[k]] = s
             /\ \A m \in 1 .. Len(e) : e[m] # t[k]
             /\ \A m \in 1 .. Len(t) : m < k => t[k] < t[m]
  <2>1. k + 1 \in 1 .. Len(gseq) /\ t[k] = gseq[k + 1]
    BY <1>1, <1>3
  <2>2. t[k] \in 1 .. Len(o) /\ o[t[k]] = s /\ \A m \in 1 .. Len(cd) : cd[m] # t[k]
    BY ONLY <2>1, Waits(gseq, s, o, cd) DEF Waits
  <2>3. \A m \in 1 .. Len(e) : e[m] # t[k]
    BY ONLY <2>1, <2>2, <1>2, <1>4, <1>6, k \in 1 .. Len(t)
  <2>4. \A m \in 1 .. Len(t) : m < k => t[k] < t[m]
    <3> TAKE m \in 1 .. Len(t)
    <3> HAVE m < k
    <3>1. m + 1 < k + 1 /\ t[m] = gseq[m + 1] /\ m + 1 \in 1 .. Len(gseq)
      BY ONLY <1>1, <1>3, <1>5, m < k, m \in 1 .. Len(t), k \in 1 .. Len(t)
    <3> QED BY ONLY <2>1, <3>1, Waits(gseq, s, o, cd) DEF Waits
  <2> QED BY <2>2, <2>3, <2>4
<1>8. Waits(t, s, o, e)
  BY ONLY <1>7 DEF Waits
<1> QED BY <1>8 DEF t, e

LEMMA GuardArmed == ASSUME NEW S, NEW gseq \in Seq(S), NEW s, NEW o \in Seq(Stations),
                           NEW cd, Waits(gseq, s, o, cd), \A m \in 1 .. Len(cd) : cd[m] \in 1 .. Len(o),
                           Len(o) + 1 \in S, s \in Stations
                    PROVE  Waits(<<Len(o) + 1>> \o gseq, s, Append(o, s), cd)
<1> DEFINE n == Len(o) + 1
           t == <<n>> \o gseq
           e == Append(o, s)
<1>1. /\ Len(gseq) \in Nat /\ Len(t) = Len(gseq) + 1 /\ t[1] = n
      /\ \A k \in 2 .. Len(gseq) + 1 : t[k] = gseq[k - 1]
  BY ONLY ConsSeq, EmptySeq, gseq \in Seq(S), n \in S
<1>2. Len(o) \in Nat /\ Len(e) = n /\ e[n] = s /\ \A k \in 1 .. Len(o) : e[k] = o[k]
  BY ONLY ElemsAppend, o \in Seq(Stations), s \in Stations
<1> HIDE DEF t, e
<1>3. \A k \in 1 .. Len(t) : k = 1 \/ (1 < k /\ k - 1 \in 1 .. Len(gseq) /\ t[k] = gseq[k - 1])
  BY ONLY <1>1
<1>4. n \in 1 .. n /\ \A k \in 1 .. Len(o) : k < n /\ k \in 1 .. n /\ k # n
  BY ONLY <1>2
<1>5. \A m, k \in 1 .. Len(t) : m < k => k # 1 /\ m - 1 < k - 1
  BY ONLY <1>1
<1> HIDE DEF n
<1>6. ASSUME NEW k \in 1 .. Len(t)
      PROVE  /\ t[k] \in 1 .. n /\ e[t[k]] = s
             /\ \A m \in 1 .. Len(cd) : cd[m] # t[k]
             /\ \A m \in 1 .. Len(t) : m < k => t[k] < t[m]
  <2>1. CASE k = 1
    <3>1. t[k] = n
      BY ONLY <1>1, <2>1
    <3>2. \A m \in 1 .. Len(t) : ~(m < k)
      BY ONLY <1>5, <2>1, k \in 1 .. Len(t)
    <3> QED BY <1>2, <1>4, <3>1, <3>2
  <2>2. CASE k # 1
    <3>1. k - 1 \in 1 .. Len(gseq) /\ t[k] = gseq[k - 1]
      BY ONLY <1>3, <2>2, k \in 1 .. Len(t)
    <3>2. t[k] \in 1 .. Len(o) /\ o[t[k]] = s /\ \A m \in 1 .. Len(cd) : cd[m] # t[k]
      BY ONLY <3>1, Waits(gseq, s, o, cd) DEF Waits
    <3>3. \A m \in 1 .. Len(t) : m < k => t[k] < t[m]
      <4> TAKE m \in 1 .. Len(t)
      <4> HAVE m < k
      <4>1. CASE m = 1
        BY ONLY <1>1, <1>4, <3>2, <4>1
      <4>2. CASE m # 1
        <5>1. m - 1 \in 1 .. Len(gseq) /\ t[m] = gseq[m - 1] /\ m - 1 < k - 1
          BY ONLY <1>3, <1>5, <4>2, m < k, m \in 1 .. Len(t), k \in 1 .. Len(t)
        <5> QED BY ONLY <3>1, <5>1, Waits(gseq, s, o, cd) DEF Waits
      <4> QED BY <4>1, <4>2
    <3> QED BY <1>2, <1>4, <3>2, <3>3
  <2> QED BY <2>1, <2>2
<1>7. Waits(t, s, e, cd)
  BY ONLY <1>2, <1>6 DEF Waits
<1> QED BY <1>7 DEF t, e, n

\* A guard of another station stays as it was.
LEMMA OtherCalled == ASSUME NEW S, NEW gseq, NEW t, NEW s, t # s, NEW o, NEW cd \in Seq(S),
                            Waits(gseq, t, o, cd), NEW g \in S, o[g] = s
                     PROVE  Waits(gseq, t, o, Append(cd, g))
<1>1. /\ Len(cd) \in Nat /\ Len(Append(cd, g)) = Len(cd) + 1 /\ Append(cd, g)[Len(cd) + 1] = g
      /\ \A k \in 1 .. Len(cd) : Append(cd, g)[k] = cd[k]
  BY ElemsAppend
<1>2. \A m \in 1 .. Len(Append(cd, g)) : m = Len(cd) + 1 \/ m \in 1 .. Len(cd)
  BY ONLY <1>1
<1>3. \A k \in 1 .. Len(gseq) : gseq[k] # g
  BY DEF Waits
<1> QED BY <1>1, <1>2, <1>3 DEF Waits

LEMMA OtherArmed == ASSUME NEW gseq, NEW t, NEW s \in Stations, NEW o \in Seq(Stations),
                           NEW cd, Waits(gseq, t, o, cd)
                    PROVE  Waits(gseq, t, Append(o, s), cd)
<1>1. /\ Len(o) \in Nat /\ Len(Append(o, s)) = Len(o) + 1
      /\ \A k \in 1 .. Len(o) : Append(o, s)[k] = o[k]
  BY ElemsAppend
<1>2. \A k \in 1 .. Len(o) : k \in 1 .. Len(Append(o, s))
  BY ONLY <1>1
<1> QED BY <1>1, <1>2 DEF Waits

LEMMA RollGuardUndo == ASSUME StationInv, UndoInv, RollGuard PROVE UndoInv'
<1>1. PICK s \in Stations :
        /\ guards[s] # <<>>
        /\ guards' = [guards EXCEPT ![s] = Tail(@)]
        /\ called' = Append(called, guards[s][1])
        /\ UNCHANGED <<queue, done, list, stack, home, owner>>
  BY DEF RollGuard
<1>2. /\ guards \in [Stations -> Seq(1 .. MaxGuards)] /\ called \in Seq(1 .. MaxGuards)
      /\ UndoOrder(stack, home, queue, done, Paths, owner)
      /\ TakenOut(stack, home, queue, done, guards, list)
      /\ GuardInv(guards, owner, called) /\ Len(owner) \in Nat
  BY UndoParts, PathFacts DEF StationTypeOK
<1>3. PICK gs, cd : gs = guards' /\ cd = called'
  OBVIOUS
<1>4. /\ gs[s] = Tail(guards[s]) /\ \A t \in Stations : t # s => gs[t] = guards[t]
      /\ cd = Append(called, guards[s][1])
  BY <1>1, <1>2, <1>3
<1>5. /\ \A t \in Stations : Waits(guards[t], t, owner, called)
      /\ \A m \in 1 .. Len(called) : called[m] \in 1 .. Len(owner)
  BY ONLY <1>2 DEF GuardInv, Waits
<1>6. guards[s] \in Seq(1 .. MaxGuards) /\ guards[s][1] \in 1 .. MaxGuards /\ 1 \in 1 .. Len(guards[s])
  <2>1. guards[s] \in Seq(1 .. MaxGuards)
    BY <1>2
  <2>2. Len(guards[s]) \in Nat /\ Len(guards[s]) > 0 /\ guards[s][1] \in 1 .. MaxGuards
    BY ONLY <1>1, <2>1, TailSeq
  <2> QED BY ONLY <2>1, <2>2
<1>7. guards[s][1] \in 1 .. Len(owner) /\ owner[guards[s][1]] = s
  BY ONLY <1>5, <1>6, s \in Stations DEF Waits
<1>8. ASSUME NEW t \in Stations PROVE Waits(gs[t], t, owner, cd)
  <2>1. CASE t = s
    <3>1. Waits(Tail(guards[s]), s, owner, Append(called, guards[s][1]))
      BY ONLY <1>1, <1>2, <1>5, <1>6, s \in Stations, GuardCalled
    <3> QED BY ONLY <1>4, <2>1, <3>1
  <2>2. CASE t # s
    <3>1. Waits(guards[t], t, owner, Append(called, guards[s][1]))
      BY ONLY <1>2, <1>5, <1>6, <1>7, <2>2, t \in Stations, OtherCalled
    <3> QED BY ONLY <1>4, <2>2, <3>1, t \in Stations
  <2> QED BY <2>1, <2>2
<1>9. \A m \in 1 .. Len(cd) : cd[m] \in 1 .. Len(owner)
  <2>1. /\ Len(called) \in Nat /\ Len(cd) = Len(called) + 1 /\ cd[Len(called) + 1] = guards[s][1]
        /\ \A k \in 1 .. Len(called) : cd[k] = called[k]
    BY ONLY <1>2, <1>4, <1>6, ElemsAppend
  <2>2. \A m \in 1 .. Len(cd) : m = Len(called) + 1 \/ m \in 1 .. Len(called)
    BY ONLY <2>1
  <2> QED BY ONLY <1>5, <1>7, <2>1, <2>2
<1>10. GuardInv(gs, owner, cd)
  BY ONLY <1>8, <1>9 DEF GuardInv, Waits
<1>11. TakenOut(stack, home, queue, done, gs, list)
  <2>1. \A t \in Stations : gs[t] # <<>> => guards[t] # <<>>
    BY ONLY <1>1, <1>4
  <2>2. \A y \in Steps : Full(y, queue, done, gs, list) => Full(y, queue, done, guards, list)
    BY ONLY <2>1 DEF Full
  <2>3. \A f \in Elems(stack) : Bare(f, guards) => Bare(f, gs)
    BY ONLY <2>1 DEF Bare
  <2> QED BY ONLY <1>2, <2>2, <2>3, TakenLess
<1> QED BY <1>1, <1>2, <1>3, <1>10, <1>11, UndoKept

LEMMA KillGuardsUndo == ASSUME StationInv, UndoInv, KillGuards PROVE UndoInv'
<1> DEFINE g == [Top EXCEPT !.i = 2]
<1>1. PICK s \in Stations : s = Top.at
  BY DEF KillGuards
<1>2. /\ stack # <<>> /\ stack' = <<g>> \o Tail(stack)
      /\ guards' = [guards EXCEPT ![s] = <<>>]
      /\ UNCHANGED <<queue, done, list, home, owner, called>>
  BY <1>1 DEF KillGuards
<1>3. /\ UndoOrder(stack, home, queue, done, Paths, owner)
      /\ TakenOut(stack, home, queue, done, guards, list)
      /\ GuardInv(guards, owner, called) /\ stack \in Seq(Frames)
      /\ guards \in [Stations -> Seq(1 .. MaxGuards)]
  BY UndoParts DEF StationTypeOK
<1>4. Top \in Frames
  BY <1>2, UndoParts, OnTop
<1>5. g \in Frames /\ g.op = stack[1].op /\ g.at = stack[1].at /\ g.at = s
  BY <1>1, <1>4 DEF Frames
<1> HIDE DEF g
<1>6. PICK gs : gs = guards'
  OBVIOUS
<1>7. gs[s] = <<>> /\ \A t \in Stations : t # s => gs[t] = guards[t]
  BY <1>2, <1>3, <1>6
<1>8. UndoOrder(<<g>> \o Tail(stack), home, queue, done, Paths, owner)
  BY ONLY <1>2, <1>3, <1>5, OrderTurns
<1>9. TakenOut(stack, home, queue, done, gs, list)
  <2>1. \A t \in Stations : gs[t] # <<>> => guards[t] # <<>>
    BY ONLY <1>7
  <2>2. \A y \in Steps : Full(y, queue, done, gs, list) => Full(y, queue, done, guards, list)
    BY ONLY <2>1 DEF Full
  <2>3. \A f \in Elems(stack) : Bare(f, guards) => Bare(f, gs)
    BY ONLY <2>1 DEF Bare
  <2> QED BY ONLY <1>3, <2>2, <2>3, TakenLess
<1>10. TakenOut(<<g>> \o Tail(stack), home, queue, done, gs, list)
  <2>1. Bare(g, gs)
    BY ONLY <1>5, <1>7 DEF Bare
  <2> QED BY ONLY <1>2, <1>3, <1>5, <1>9, <2>1, TakenTurn
<1>11. GuardInv(gs, owner, called)
  <2>1. Len(<<>>) = 0 /\ 1 .. 0 = {}
    OBVIOUS
  <2>2. \A t \in Stations : gs[t] = guards[t] \/ gs[t] = <<>>
    BY ONLY <1>7
  <2> QED BY ONLY <1>3, <2>1, <2>2 DEF GuardInv
<1> QED BY <1>2, <1>3, <1>6, <1>8, <1>10, <1>11, UndoKept

-----------------------------------------------------------------------------
(***************************************************************************)
(* The user's code.                                                        *)
(***************************************************************************)
\* The station in hand is the root, or has something left.
LEMMA InHandFacts == ASSUME StationInv, UndoInv, NEW s \in Stations, InHand(s)
                     PROVE  /\ Uses(stack, s)
                            /\ home[s] # None => queue[s] # <<>>
                            /\ \A f \in Elems(stack) : f.op = "step"
                            /\ Root \in Above(home, s)
<1>1. /\ UndoOrder(stack, home, queue, done, Paths, owner) /\ stack \in Seq(Frames)
      /\ StackInv(stack, home)
  BY UndoParts DEF CallsInv
<1>2. Uses(stack, s)
  BY StationAssumption DEF InHand, Uses
<1>3. /\ \A f \in Elems(stack) : f.op = "step"
      /\ stack = <<>> => s = Root
      /\ stack # <<>> => queue[s] # <<>>
      /\ Root \in Above(home, s)
  BY ONLY <1>1, <1>2, s \in Stations, InUse
<1>4. home[Root] = None
  BY <1>1 DEF StackInv, Nested
<1> QED BY <1>2, <1>3, <1>4

LEMMA GuardUndo == ASSUME StationInv, UndoInv, NEW s \in Stations, Guard(s) PROVE UndoInv'
<1>1. /\ InHand(s) /\ Len(owner) < MaxGuards
      /\ guards' = [guards EXCEPT ![s] = <<Len(owner) + 1>> \o @]
      /\ owner' = Append(owner, s)
      /\ UNCHANGED <<queue, done, list, stack, home, called>>
  BY DEF Guard
<1>2. /\ UndoOrder(stack, home, queue, done, Paths, owner)
      /\ TakenOut(stack, home, queue, done, guards, list)
      /\ GuardInv(guards, owner, called) /\ stack \in Seq(Frames)
      /\ StackInv(stack, home) /\ Housed(queue, home) /\ Housed(done, home)
      /\ queue \in [Stations -> Seq(Steps)] /\ done \in [Stations -> Seq(Steps)]
      /\ guards \in [Stations -> Seq(1 .. MaxGuards)]
      /\ owner \in Seq(Stations) /\ StationTypeOK
  BY UndoParts DEF CallsInv, StationTypeOK
<1>3. Uses(stack, s) /\ (home[s] # None => queue[s] # <<>>) /\ \A f \in Elems(stack) : f.op = "step"
  BY <1>1, InHandFacts
<1>4. PICK n \in Nat : n = Len(owner) /\ DOMAIN Paths = 1 .. n
  BY <1>2, PathFacts
<1>5. PICK gs, o, w : gs = guards' /\ o = owner' /\ w = Paths'
  OBVIOUS
<1>6. /\ o = Append(owner, s) /\ Len(o) = n + 1 /\ o[n + 1] = s
      /\ \A g \in 1 .. n : o[g] = owner[g]
  BY ONLY <1>1, <1>2, <1>4, <1>5, s \in Stations, ElemsAppend
<1>7. w = [g \in 1 .. Len(o) |-> Above(home, o[g])]
  <2>1. Paths' = [g \in 1 .. Len(owner') |-> Above(home', owner'[g])]
    BY DEF Paths, Up, Above, Closed
  <2> QED BY ONLY <1>1, <1>5, <2>1
<1>8. Paths = [g \in 1 .. n |-> Above(home, owner[g])]
  BY ONLY <1>4, UpIsAbove DEF Paths
<1>9. \A g \in 1 .. n : g \in 1 .. n + 1
  BY ONLY n \in Nat
<1>10. n + 1 \in 1 .. n + 1
  BY ONLY n \in Nat
<1>11. DOMAIN w = 1 .. n + 1 /\ (\A g \in 1 .. n : w[g] = Paths[g]) /\ w[n + 1] = Above(home, s)
  BY ONLY <1>6, <1>7, <1>8, <1>9, <1>10
<1>12. UndoOrder(stack, home, queue, done, w, o)
  <2>1. /\ UndoOrder(stack, home, queue, done, Paths, owner)
        /\ stack \in Seq(Frames) /\ StackInv(stack, home)
        /\ Housed(queue, home) /\ Housed(done, home)
        /\ queue \in [Stations -> Seq(Steps)] /\ done \in [Stations -> Seq(Steps)]
        /\ Uses(stack, s)
    BY ONLY <1>2, <1>3
  <2>2. Arms(home, s, n, Paths, w, owner, o)
    BY ONLY <1>4, <1>6, <1>11 DEF Arms
  <2> QED BY ONLY <2>1, <2>2, n \in Nat, s \in Stations, OrderGuards
<1>13. gs[s] = <<n + 1>> \o guards[s] /\ \A t \in Stations : t # s => gs[t] = guards[t]
  BY <1>1, <1>2, <1>4, <1>5
<1>14. /\ \A t \in Stations : Waits(guards[t], t, owner, called)
       /\ \A m \in 1 .. Len(called) : called[m] \in 1 .. Len(owner)
  BY ONLY <1>2 DEF GuardInv, Waits
<1>15. ASSUME NEW t \in Stations PROVE Waits(gs[t], t, o, called)
  <2>1. CASE t = s
    <3>1. n + 1 \in 1 .. MaxGuards
      <4>1. MaxGuards \in Nat /\ n < MaxGuards
        BY StationAssumption, <1>1, <1>4
      <4> QED BY ONLY <4>1, n \in Nat
    <3>2. guards[s] \in Seq(1 .. MaxGuards)
      BY <1>2
    <3>3. Waits(<<n + 1>> \o guards[s], s, Append(owner, s), called)
      BY ONLY <1>2, <1>4, <1>14, <3>1, <3>2, s \in Stations, GuardArmed
    <3> QED BY ONLY <1>6, <1>13, <2>1, <3>3
  <2>2. CASE t # s
    <3>1. Waits(guards[t], t, Append(owner, s), called)
      BY ONLY <1>2, <1>14, t \in Stations, s \in Stations, OtherArmed
    <3> QED BY ONLY <1>6, <1>13, <2>2, <3>1, t \in Stations
  <2> QED BY <2>1, <2>2
<1>16. \A m \in 1 .. Len(called) : called[m] \in 1 .. Len(o)
  <2>1. \A g \in 1 .. Len(owner) : g \in 1 .. Len(o)
    BY ONLY <1>4, <1>6, <1>9
  <2> QED BY ONLY <1>14, <2>1
<1>17. GuardInv(gs, o, called)
  BY ONLY <1>15, <1>16 DEF GuardInv, Waits
<1>18. TakenOut(stack, home, queue, done, gs, list)
  <2>1. \A y \in Steps : Full(y, queue, done, gs, list) => Full(y, queue, done, guards, list) \/ y = s
    BY ONLY <1>13 DEF Full
  <2>2. \A y \in Steps : home[y] # None /\ Full(y, queue, done, gs, list) => Full(y, queue, done, guards, list)
    BY ONLY <1>3, <2>1, s \in Stations DEF Full
  <2>3. \A f \in Elems(stack) : Bare(f, gs)
    BY <1>3 DEF Bare
  <2> QED BY ONLY <1>2, <2>2, <2>3 DEF TakenOut
<1> QED BY <1>1, <1>5, <1>12, <1>17, <1>18 DEF UndoInv

\* What a spare step that is put in a container leaves as it was.
LEMMA HousedUndo ==
  ASSUME StationInv, UndoInv, NEW x \in Steps, Spare(x), NEW c \in Stations \cup Parallels,
         home' = [home EXCEPT ![x] = c], x \notin Up(c),
         queue' = IF c \in Stations THEN [queue EXCEPT ![c] = Append(@, x)] ELSE queue,
         list' = IF c \in Parallels THEN [list EXCEPT ![c] = Append(@, x)] ELSE list,
         home[c] # None => c \in Inside(home[c], queue, done, list) \/ Full(c, queue, done, guards, list),
         UNCHANGED <<done, guards, stack, owner, called>>
  PROVE  UndoInv'
<1>1. /\ UndoOrder(stack, home, queue, done, Paths, owner)
      /\ TakenOut(stack, home, queue, done, guards, list)
      /\ GuardInv(guards, owner, called) /\ stack \in Seq(Frames)
      /\ StackInv(stack, home) /\ Housed(queue, home) /\ Housed(done, home)
      /\ queue \in [Stations -> Seq(Steps)] /\ done \in [Stations -> Seq(Steps)]
      /\ list \in [Parallels -> Seq(Steps)]
      /\ home \in [Steps -> Stations \cup Parallels \cup {None}]
      /\ home \in [Steps -> Steps \cup {None}]
      /\ StationTypeOK
  BY UndoParts DEF CallsInv
<1>2. PICK hm, q2, l2 : hm = home' /\ q2 = queue' /\ l2 = list'
  OBVIOUS
<1>3. /\ x # Root /\ home[x] = None /\ hm[x] = c /\ \A y \in Steps : y # x => hm[y] = home[y]
      /\ hm \in [Steps -> Steps \cup {None}] /\ x \notin Above(home, c)
  BY <1>1, <1>2, UpIsAbove DEF Spare, Steps
<1>4. PutIn(home, hm, x, c)
  BY ONLY <1>3 DEF PutIn
<1>5. Known(Paths, home)
  BY <1>1, PathFacts DEF Known
<1>6. Joins(queue, q2, x, c)
  BY <1>2 DEF Joins
<1>7. UndoOrder(stack, hm, q2, done, Paths, owner) /\ SamePaths(Paths, home, hm)
  <2>1. /\ UndoOrder(stack, home, queue, done, Paths, owner)
        /\ stack \in Seq(Frames) /\ StackInv(stack, home)
        /\ Housed(queue, home) /\ Housed(done, home)
        /\ queue \in [Stations -> Seq(Steps)] /\ done \in [Stations -> Seq(Steps)]
        /\ hm \in [Steps -> Steps \cup {None}] /\ x # Root
    BY ONLY <1>1, <1>3
  <2> QED BY ONLY <1>4, <1>5, <1>6, <2>1, x \in Steps, c \in Stations \cup Parallels, OrderHouses
<1>8. Paths' = Paths
  <2>1. Paths' = [g \in 1 .. Len(owner) |-> Above(hm, owner[g])]
    <3>1. Paths' = [g \in 1 .. Len(owner') |-> Above(home', owner'[g])]
      BY DEF Paths, Up, Above, Closed
    <3>2. owner' = owner
      OBVIOUS
    <3> QED BY ONLY <1>2, <3>1, <3>2
  <2>2. Paths = [g \in 1 .. Len(owner) |-> Above(home, owner[g])]
    BY ONLY UpIsAbove DEF Paths
  <2>3. \A g \in 1 .. Len(owner) : owner[g] \in Steps
    BY <1>1, PathFacts
  <2>4. DOMAIN Paths = 1 .. Len(owner)
    BY ONLY <2>2
  <2> QED BY ONLY <1>7, <2>1, <2>2, <2>3, <2>4 DEF SamePaths
\* What is in a container stays there; only c may have become full.
<1>9. /\ \A b \in Stations : b # c => q2[b] = queue[b]
      /\ \A b \in Parallels : b # c => l2[b] = list[b]
      /\ c \in Stations => q2[c] = Append(queue[c], x)
      /\ c \in Parallels => l2[c] = Append(list[c], x)
      /\ Stations \cap Parallels = {} /\ None \notin Stations \cup Parallels
  BY <1>1, <1>2, StationAssumption
<1>10. /\ c \in Stations => Elems(q2[c]) = Elems(queue[c]) \cup {x}
       /\ c \in Parallels => Elems(l2[c]) = Elems(list[c]) \cup {x}
  <2>1. c \in Stations => queue[c] \in Seq(Steps)
    BY <1>1
  <2>2. c \in Parallels => list[c] \in Seq(Steps)
    BY <1>1
  <2>3. c \in Stations => Elems(Append(queue[c], x)) = Elems(queue[c]) \cup {x}
    BY ONLY <2>1, x \in Steps, ElemsAppend
  <2>4. c \in Parallels => Elems(Append(list[c], x)) = Elems(list[c]) \cup {x}
    BY ONLY <2>2, x \in Steps, ElemsAppend
  <2> QED BY ONLY <1>9, <2>3, <2>4
<1>11. /\ \A b \in Stations \cup Parallels : Inside(b, queue, done, list) \subseteq Inside(b, q2, done, l2)
       /\ x \in Inside(c, q2, done, l2)
       /\ \A y \in Steps : Full(y, q2, done, guards, l2) /\ y # c => Full(y, queue, done, guards, list)
  <2>1. \A b \in Stations : Elems(queue[b]) \subseteq Elems(q2[b])
    BY ONLY <1>9, <1>10
  <2>2. \A b \in Parallels : Elems(list[b]) \subseteq Elems(l2[b])
    BY ONLY <1>9, <1>10
  <2>3. \A b \in Stations \cup Parallels : Inside(b, queue, done, list) \subseteq Inside(b, q2, done, l2)
    BY ONLY <1>9, <2>1, <2>2 DEF Inside
  <2>4. x \in Inside(c, q2, done, l2)
    BY ONLY <1>9, <1>10, c \in Stations \cup Parallels DEF Inside
  <2>5. \A y \in Steps : Full(y, q2, done, guards, l2) /\ y # c => Full(y, queue, done, guards, list)
    BY ONLY <1>9 DEF Full
  <2> QED BY <2>3, <2>4, <2>5
<1>12. TakenOut(stack, hm, q2, done, guards, l2)
  <2>1. ASSUME NEW y \in Steps, hm[y] # None, Full(y, q2, done, guards, l2)
        PROVE  y \in Inside(hm[y], q2, done, l2) \/ Killed(stack, y)
    <3>1. CASE y = x
      BY ONLY <1>3, <1>11, <3>1
    <3>2. CASE y # x
      <4>1. hm[y] = home[y] /\ home[y] \in Stations \cup Parallels
        BY <1>1, <1>3, <2>1, <3>2
      <4>2. Full(y, queue, done, guards, list) => y \in Inside(home[y], queue, done, list) \/ Killed(stack, y)
        BY <1>1, <4>1, <2>1 DEF TakenOut
      <4>3. y = c => y \in Inside(home[y], queue, done, list) \/ Full(y, queue, done, guards, list)
        BY <2>1, <4>1
      <4> QED BY ONLY <1>11, <2>1, <4>1, <4>2, <4>3
    <3> QED BY <3>1, <3>2
  <2> QED BY ONLY <1>1, <2>1 DEF TakenOut
<1> QED BY <1>1, <1>2, <1>7, <1>8, <1>12 DEF UndoInv

LEMMA SubStepUndo == ASSUME StationInv, UndoInv, NEW s \in Stations, NEW x \in Steps, SubStep(s, x)
                     PROVE  UndoInv'
<1>1. /\ InHand(s) /\ Spare(x)
      /\ queue' = [queue EXCEPT ![s] = Append(@, x)] /\ home' = [home EXCEPT ![x] = s]
      /\ UNCHANGED <<done, guards, list, stack, owner, called>>
  BY DEF SubStep
<1>2. Root \in Above(home, s) /\ (home[s] # None => queue[s] # <<>>)
  BY <1>1, InHandFacts
<1>3. s \notin Parallels /\ s \in Steps /\ Root \in Steps
  BY StationAssumption DEF Steps
<1>4. x \notin Up(s)
  <2>1. home \in [Steps -> Steps \cup {None}] /\ home[Root] = None
    BY UndoParts DEF CallsInv, StackInv, Nested
  <2>2. x # Root /\ home[x] = None
    BY <1>1 DEF Spare
  <2>3. x \notin Above(home, s)
    BY ONLY <1>2, <1>3, <2>1, <2>2, OneEnd
  <2> QED BY <2>3, UpIsAbove
<1>5. home[s] # None => Full(s, queue, done, guards, list)
  BY <1>2 DEF Full
<1> QED BY <1>1, <1>3, <1>4, <1>5, HousedUndo

LEMMA AddStepUndo == ASSUME StationInv, UndoInv, NEW p \in Parallels, NEW x \in Steps, AddStep(p, x)
                     PROVE  UndoInv'
<1>1. /\ Spare(x) /\ x \notin Up(p) /\ ~Gone(p)
      /\ list' = [list EXCEPT ![p] = Append(@, x)] /\ home' = [home EXCEPT ![x] = p]
      /\ UNCHANGED <<queue, done, guards, stack, owner, called>>
  BY DEF AddStep
<1>2. p \notin Stations
  BY StationAssumption
<1>3. home[p] # None => p \in Inside(home[p], queue, done, list)
  BY <1>1 DEF Gone, Holds, Inside
<1> QED BY <1>1, <1>2, <1>3, HousedUndo

LEMMA UndoStarts == StationInit => UndoInv
<1> SUFFICES ASSUME StationInit PROVE UndoInv
  OBVIOUS
<1> USE DEF StationInit
<1>0. StationInv
  BY StationStarts
<1>1. \A s \in DOMAIN Body : Body[s] \in Leaves /\ Body[s] \in Steps /\ home[Body[s]] = s /\ s \in Stations
  BY StationAssumption DEF Steps
<1>2. \A x \in Steps : home[x] # None => home[x] \in DOMAIN Body /\ Body[home[x]] = x
  OBVIOUS
<1>3. home \in [Steps -> Stations \cup Parallels \cup {None}] /\ home \in [Steps -> Steps \cup {None}]
  BY <1>1, <1>2 DEF Steps
<1>4. Acyclic(home)
  <2> SUFFICES ASSUME NEW x \in Steps, home[x] # None PROVE x \notin Above(home, home[x])
    BY DEF Acyclic
  <2>0. home[x] \in DOMAIN Body /\ Body[home[x]] = x
    BY <1>2
  <2>1. home[x] \in Stations /\ home[x] \in Steps /\ x \in Leaves
    BY ONLY <1>1, <2>0 DEF Steps
  <2>2. home[home[x]] = None
    BY <1>1, <1>2, <2>1, StationAssumption
  <2>3. Above(home, home[x]) = {home[x]}
    BY ONLY <1>3, <2>1, <2>2, AboveHome
  <2> QED BY <2>1, <2>3, StationAssumption
<1>5. TreeInv(home)
  BY <1>1, <1>3, <1>4 DEF TreeInv
<1>6. Len(<<>>) = 0 /\ 1 .. 0 = {} /\ Elems(<<>>) = {} /\ DOMAIN <<>> = {}
  BY NoElems
<1>7. DOMAIN Paths = {}
  BY <1>6 DEF Paths
<1>8. ASSUME NEW c \in Stations PROVE Ordered(queue[c], done[c], Paths)
  <2>1. done[c] = <<>>
    OBVIOUS
  <2>2. queue[c] = <<>> \/ \E y : queue[c] = <<y>>
    OBVIOUS
  <2>3. CASE queue[c] = <<>>
    BY <1>6, <2>1, <2>3 DEF Ordered, Distinct
  <2>4. ASSUME NEW y, queue[c] = <<y>> PROVE Ordered(queue[c], done[c], Paths)
    <3>1. Tail(<<y>>) = <<>> /\ Len(<<y>>) = 1 /\ 1 .. 1 = {1}
      OBVIOUS
    <3> QED BY ONLY <1>6, <1>7, <2>1, <2>4, <3>1 DEF Ordered, Distinct, Before
  <2> QED BY <2>2, <2>3, <2>4
<1>9. ASSUME NEW s \in DOMAIN Body PROVE Body[s] \notin Elems(Tail(queue[s]))
  <2>1. queue[s] = <<Body[s]>>
    BY <1>1
  <2>2. Tail(<<Body[s]>>) = <<>>
    OBVIOUS
  <2> QED BY ONLY <1>6, <2>1, <2>2
<1>10. stack = <<>> /\ owner = <<>> /\ called = <<>>
  OBVIOUS
<1>11. UndoOrder(stack, home, queue, done, Paths, owner)
  BY ONLY <1>5, <1>6, <1>7, <1>8, <1>9, <1>10
     DEF UndoOrder, CallersAbove, ArmedInv, OrderInv, ActiveInv, BodyInv, InnerLater
<1>12. GuardInv(guards, owner, called)
  <2>1. \A s \in Stations : guards[s] = <<>>
    OBVIOUS
  <2> QED BY ONLY <1>6, <1>10, <2>1 DEF GuardInv
<1>13. TakenOut(stack, home, queue, done, guards, list)
  <2>1. ASSUME NEW x \in Steps, home[x] # None PROVE ~Full(x, queue, done, guards, list)
    <3>0. home[x] \in DOMAIN Body /\ Body[home[x]] = x
      BY <1>2, <2>1
    <3>1. x \in Leaves
      BY ONLY <1>1, <3>0
    <3> QED BY <3>1, StationAssumption DEF Full
  <2> QED BY <1>6, <1>10, <2>1 DEF TakenOut
<1> QED BY <1>11, <1>12, <1>13 DEF UndoInv

LEMMA UndoUnchanged == ASSUME UndoInv, UNCHANGED stationVars PROVE UndoInv'
<1>1. UNCHANGED <<queue, done, guards, list, stack, home, owner, called>>
  BY DEF stationVars
<1> QED BY <1>1, PathsKept DEF UndoInv

LEMMA UndoStepsKeep == ASSUME StationInv, UndoInv, [StationNext]_stationVars PROVE UndoInv'
<1>1. CASE UserStep
  BY <1>1, GuardUndo, SubStepUndo, AddStepUndo, UserCallUndo DEF UserStep
<1>2. CASE Stepping
  BY <1>2, LeafStepUndo, QueueStepUndo, QueueReturnUndo, ParallelStepUndo,
     ParallelWaitUndo, ParallelEraseUndo DEF Stepping
<1>3. CASE Undoing
  BY <1>3, PlainReturnUndo, RollHeadUndo, RollDropUndo, RollDoneUndo, RollGuardUndo,
     KillParallelUndo, KillStationUndo, KillGuardsUndo, KillQueueUndo DEF Undoing
<1>4. CASE Done \/ UNCHANGED stationVars
  BY <1>4, UndoUnchanged DEF Done
<1> QED BY <1>1, <1>2, <1>3, <1>4 DEF StationNext

LEMMA UndoCorrect == StationSpec => []UndoInv
<1>1. UndoInv /\ StationInv /\ [StationNext]_stationVars => UndoInv'
  BY UndoStepsKeep
<1> QED BY UndoStarts, <1>1, StationCorrect, PTL DEF StationSpec

-----------------------------------------------------------------------------
(***************************************************************************)
(* The order of undoing.                                                   *)
(***************************************************************************)
\* A station that still has a guard is in a call, or is in a container that is,
\* or in something in such a container, and that has not been taken out.
LEMMA Climb == ASSUME StationInv, UndoInv, NEW t \in Steps, Root \in Above(home, t), stack # <<>>,
                      t \notin OnStack(stack), Full(t, queue, done, guards, list)
               PROVE  \E y \in Above(home, t) : /\ y \notin OnStack(stack) /\ home[y] \in OnStack(stack)
                                                /\ y \in Inside(home[y], queue, done, list)
<1>1. /\ home \in [Steps -> Stations \cup Parallels \cup {None}]
      /\ home \in [Steps -> Steps \cup {None}]
      /\ TakenOut(stack, home, queue, done, guards, list)
      /\ stack \in Seq(Frames) /\ StackInv(stack, home)
  BY UndoParts DEF CallsInv
<1>2. Root \in OnStack(stack)
  <2>1. Len(stack) \in Nat /\ Len(stack) > 0
    BY ONLY <1>1, stack # <<>>, EmptySeq
  <2>2. Len(stack) \in 1 .. Len(stack)
    BY ONLY <2>1
  <2>3. stack[Len(stack)].at = Root /\ stack[Len(stack)] \in Elems(stack)
    BY <1>1, <2>1, <2>2 DEF StackInv, Nested, Elems
  <2> QED BY <2>3 DEF OnStack
<1> DEFINE A == {y \in Above(home, t) : y \notin OnStack(stack) /\ Full(y, queue, done, guards, list)}
<1>3. Above(home, t) \subseteq Steps /\ t \in Above(home, t) /\ Closed(home, Above(home, t))
  BY <1>1, AboveClosed
<1>4. PICK y \in A : home[y] # None /\ home[y] \notin A
  <2> SUFFICES ASSUME \A y \in A : home[y] \in A \cup {None} PROVE FALSE
    OBVIOUS
  <2>1. A \in SUBSET Steps /\ t \in A /\ Closed(home, A)
    BY <1>3 DEF Closed
  <2>2. Root \notin A
    BY <1>2
  <2> HIDE DEF A
  <2>3. Above(home, t) \subseteq A
    BY ONLY <2>1, AboveLeast
  <2> QED BY <2>2, <2>3
<1>5. y \in Steps /\ home[y] \in Above(home, t) /\ home[y] \in Stations \cup Parallels
  BY <1>1, <1>3, <1>4 DEF Closed
<1>6. ~Killed(stack, y)
  BY <1>4 DEF Killed, OnStack
<1>7. y \in Inside(home[y], queue, done, list)
  BY <1>1, <1>4, <1>5, <1>6 DEF TakenOut
<1>8. Full(home[y], queue, done, guards, list)
  BY <1>5, <1>7, NoElems, StationAssumption DEF Inside, Full
<1> QED BY <1>4, <1>5, <1>7, <1>8

\* The calls on the stack are of what is above the step on top.
LEMMA OnStackAbove == ASSUME NEW st \in Seq(Frames), NEW hm, st # <<>>, StackInv(st, hm), CallersAbove(st, hm)
                      PROVE  OnStack(st) = Above(hm, st[1].at)
<1>1. /\ OnStack(st) \in SUBSET Steps /\ Closed(hm, OnStack(st))
  BY StackClosed
<1>2. st[1] \in Elems(st)
  BY ElemsTail
<1>3. st[1].at \in OnStack(st)
  BY <1>2 DEF OnStack
<1>4. Above(hm, st[1].at) \subseteq OnStack(st)
  BY ONLY <1>1, <1>3, AboveLeast
<1>5. ASSUME NEW f \in Elems(st) PROVE f.at \in Above(hm, st[1].at)
  <2>1. PICK k \in 1 .. Len(st) : f = st[k]
    BY DEF Elems
  <2>2. 1 \in 1 .. Len(st) /\ 1 <= k
    BY ONLY k \in 1 .. Len(st), EmptySeq, st \in Seq(Frames)
  <2> QED BY ONLY <2>1, <2>2, CallersAbove(st, hm) DEF CallersAbove
<1> QED BY <1>4, <1>5 DEF OnStack

\* A guard h waits while g, the latest of the station s, is called.
LEMMA CalledInOrder ==
  ASSUME StationInv, UndoInv, NEW s \in Stations, Rolling(s), queue[s] = <<>>, done[s] = <<>>,
         guards[s] # <<>>, NEW t \in Stations, NEW k \in 1 .. Len(guards[t]), guards[t][k] # guards[s][1]
  PROVE  LET g == guards[s][1]
             h == guards[t][k]
         IN  /\ owner[g] = s /\ owner[h] = t /\ ~Called(g)
             /\ s = Root => t = Root
             /\ (s = Root <=> t = Root) /\ ~Apart(s, t) => h < g
<1> DEFINE g == guards[s][1]
           h == guards[t][k]
<1>1. /\ home \in [Steps -> Steps \cup {None}] /\ Acyclic(home)
      /\ stack \in Seq(Frames) /\ StackInv(stack, home) /\ CallersAbove(stack, home)
      /\ ArmedInv(Paths) /\ OrderInv(queue, done, Paths) /\ InnerLater(Paths, owner)
      /\ ActiveInv(stack, home, queue, done, Paths)
      /\ GuardInv(guards, owner, called) /\ StationTypeOK
      /\ guards \in [Stations -> Seq(1 .. MaxGuards)]
      /\ home[Root] = None
  BY UndoParts DEF CallsInv, UndoOrder, TreeInv, StationTypeOK, StackInv, Nested
<1>2. stack # <<>> /\ stack[1].at = s /\ s \in Steps /\ t \in Steps
  BY DEF Rolling, Steps
<1>3. 1 \in 1 .. Len(guards[s])
  <2>1. guards[s] \in Seq(1 .. MaxGuards)
    BY <1>1
  <2> QED BY ONLY <2>1, guards[s] # <<>>, EmptySeq
<1>4. /\ g \in 1 .. Len(owner) /\ owner[g] = s /\ ~Called(g)
      /\ h \in 1 .. Len(owner) /\ owner[h] = t
  BY <1>1, <1>3 DEF GuardInv, Called
<1>5. g \in DOMAIN Paths /\ h \in DOMAIN Paths /\ Paths[g] = Above(home, s) /\ Paths[h] = Above(home, t)
  BY <1>1, <1>4, PathFacts
<1>6. CASE t = s
  <2>1. k # 1 /\ 1 < k
    <3>1. k # 1
      BY <1>6
    <3> QED BY ONLY <3>1, <1>3, <1>6, k \in 1 .. Len(guards[t])
  <2>2. h < g
    BY <1>1, <1>3, <1>6, <2>1 DEF GuardInv
  <2> QED BY <1>4, <1>6, <2>2
<1>7. ASSUME t # s PROVE (s = Root => t = Root) /\ ((s = Root <=> t = Root) /\ ~Apart(s, t) => h < g)
  <2>1. OnStack(stack) = Above(home, s)
    BY ONLY <1>1, <1>2, OnStackAbove
  <2>2. s = Root => Above(home, s) = {Root}
    BY <1>1, <1>2, AboveHome
  <2> HIDE DEF g, h
  <2>3. CASE t \in OnStack(stack)
    <3>1. s # Root
      BY <1>7, <2>1, <2>2, <2>3
    <3>2. t # Root => h < g
      BY ONLY <1>1, <1>4, <1>5, <1>7, <2>1, <2>3 DEF InnerLater
    <3> QED BY <3>1, <3>2
  <2>4. CASE t \notin OnStack(stack)
    <3>1. Full(t, queue, done, guards, list)
      <4>1. guards[t] # <<>>
        BY EmptySeq
      <4> QED BY <4>1 DEF Full
    <3>2. Root \in Above(home, t)
      BY <1>1, <1>5 DEF ArmedInv
    <3>3. PICK y \in Above(home, t) : /\ y \notin OnStack(stack) /\ home[y] \in OnStack(stack)
                                      /\ y \in Inside(home[y], queue, done, list)
      BY <1>2, <2>4, <3>1, <3>2, Climb
    <3> DEFINE c == home[y]
    <3>4. c \in Above(home, s) /\ c \in Steps /\ c # None /\ y \in Steps
      BY <1>1, <1>2, <2>1, <3>3, AboveClosed, NoneIsNoStep
    <3>5. c # s
      <4>1. s \notin Parallels
        BY StationAssumption
      <4> QED BY <3>3, <4>1, NoElems DEF Inside
    <3> HIDE DEF c
    <3>6. PICK x \in Above(home, s) : home[x] = c
      BY <1>1, <1>2, <3>4, <3>5, MemberAbove
    <3>7. x # y /\ x \in Steps
      BY <1>1, <1>2, <2>1, <3>3, <3>6, AboveClosed
    <3>8. s # Root
      BY <2>2, <3>4, <3>5
    <3>9. CASE c \in Parallels
      <4>1. c \in Above(home, t)
        BY <1>1, <1>2, <3>3, <3>4, AboveClosed DEF c, Closed
      <4>2. ASSUME NEW z \in Steps, home[z] = c, z \in Above(home, s), z \in Above(home, t) PROVE FALSE
        <5>1. z = x
          BY ONLY <1>1, <1>2, <3>4, <3>6, <4>2, OneMember, ZenonT(30)
        <5>2. z = y
          <6>1. home[y] = c
            BY DEF c
          <6> QED BY ONLY <1>1, <1>2, <3>3, <3>4, <4>2, <6>1, OneMember
        <5> QED BY <3>7, <5>1, <5>2
      <4>3. Apart(s, t)
        BY <3>4, <3>9, <4>1, <4>2, UpIsAbove DEF Apart
      <4> QED BY <3>8, <4>3
    <3>10. CASE c \notin Parallels
      <4>1. c \in Stations
        <5>1. home[x] \in Stations \cup Parallels \cup {None}
          BY <3>7, UndoParts
        <5> QED BY <3>4, <3>6, <3>10, <5>1
      <4>2. y \in Elems(queue[c]) \/ y \in Elems(done[c])
        BY <3>3, <3>10 DEF Inside, c
      <4>3. PICK f \in Elems(stack) : f.at = x
        BY <2>1, <3>6 DEF OnStack
      <4>4. Latest(x, queue[c], done[c], Paths)
        BY <1>1, <3>6, <4>1, <4>3 DEF ActiveInv, ActiveAt
      <4>5. Ordered(queue[c], done[c], Paths) /\ queue[c] \in Seq(Steps)
        BY <4>1, StationHas
      <4>6. ~Fresh(Paths, y)
        BY <1>5, <3>3 DEF Fresh
      <4>7. y \notin Elems(queue[c])
        <5> SUFFICES ASSUME y \in Elems(queue[c]) PROVE FALSE
          OBVIOUS
        <5>1. queue[c] # <<>>
          BY NoElems
        <5>2. y = queue[c][1] \/ y \in Elems(Tail(queue[c]))
          BY <4>5, <5>1, ElemsTail
        <5> QED BY <3>7, <4>4, <4>5, <4>6, <5>1, <5>2 DEF Latest, Ordered
      <4>8. Before(Paths, y, x)
        BY <4>2, <4>4, <4>7 DEF Latest
      <4>9. h < g
        BY ONLY <1>5, <3>3, <3>6, <4>8 DEF Before
      <4> QED BY <3>8, <4>9
    <3> QED BY <3>9, <3>10
  <2> QED BY <2>3, <2>4
<1> QED BY <1>4, <1>6, <1>7

\* Only one action calls a guard.
LEMMA WhoCalls == ASSUME [StationNext]_stationVars, called' # called PROVE RollGuard
<1>1. CASE UserStep
  BY <1>1, SMTT(20) DEF UserStep, Guard, SubStep, AddStep, CallStep, CallRollback, Destroy
<1>2. CASE Stepping
  BY <1>2, ZenonT(30) DEF Stepping, LeafStep, QueueStep, QueueReturn, ParallelStep, ParallelWait, ParallelErase
<1>3. CASE Undoing
  BY <1>3 DEF Undoing, RollNothing, RollHead, RollDrop, RollDone, RollEnd, KillLeaf,
              KillParallel, KillStation, KillGuards, KillQueue
<1>4. CASE Done \/ UNCHANGED stationVars
  BY <1>4 DEF Done, stationVars
<1> QED BY <1>1, <1>2, <1>3, <1>4 DEF StationNext

\* Guards are called in the reverse of the order in which they were armed, apart
\* from those of stations that run side by side and from those of the root, which
\* come last; and none is called twice.
THEOREM UndoneInReverse == StationSpec => UndoInReverse
<1>1. ASSUME StationInv, UndoInv, [StationNext]_stationVars, called' # called
      PROVE  LET g == called'[Len(called')]
             IN  /\ ~Called(g)
                 /\ \A h \in 1 .. Len(owner) :
                      Held(h) /\ h # g =>
                        /\ owner[g] = Root => owner[h] = Root
                        /\ (owner[g] = Root <=> owner[h] = Root) /\ ~Apart(owner[g], owner[h])
                             => h < g
  <2>1. PICK s \in Stations : /\ Rolling(s) /\ queue[s] = <<>> /\ done[s] = <<>> /\ guards[s] # <<>>
                              /\ called' = Append(called, guards[s][1])
    BY <1>1, WhoCalls DEF RollGuard
  <2>2. called'[Len(called')] = guards[s][1]
    <3>1. called \in Seq(1 .. MaxGuards) /\ guards[s] \in Seq(1 .. MaxGuards)
      BY <1>1 DEF StationInv, StationTypeOK
    <3>2. guards[s][1] \in 1 .. MaxGuards
      BY ONLY <2>1, <3>1, TailSeq
    <3> QED BY ONLY <2>1, <3>1, <3>2, ElemsAppend
  <2>3. ASSUME NEW t \in Stations, NEW k \in 1 .. Len(guards[t])
        PROVE  LET g == guards[s][1]
                   h == guards[t][k]
               IN  h # g => /\ owner[g] = s /\ owner[h] = t
                            /\ s = Root => t = Root
                            /\ (s = Root <=> t = Root) /\ ~Apart(s, t) => h < g
    BY <1>1, <2>1, CalledInOrder
  <2>4. ~Called(guards[s][1])
    <3>1. GuardInv(guards, owner, called) /\ guards[s] \in Seq(1 .. MaxGuards)
      BY <1>1 DEF UndoInv, StationInv, StationTypeOK
    <3>2. 1 \in 1 .. Len(guards[s])
      BY ONLY <2>1, <3>1, EmptySeq
    <3> QED BY ONLY <3>1, <3>2, s \in Stations DEF GuardInv, Called
  <2> QED BY <2>2, <2>3, <2>4 DEF Held
<1>2. StationInv /\ UndoInv /\ [StationNext]_stationVars =>
        [called' # called =>
           LET g == called'[Len(called')]
           IN  /\ ~Called(g)
               /\ \A h \in 1 .. Len(owner) :
                    Held(h) /\ h # g =>
                      /\ owner[g] = Root => owner[h] = Root
                      /\ (owner[g] = Root <=> owner[h] = Root) /\ ~Apart(owner[g], owner[h])
                           => h < g]_stationVars
  BY <1>1
<1> QED BY <1>2, StationCorrect, UndoCorrect, PTL DEF StationSpec, UndoInReverse

-----------------------------------------------------------------------------
(***************************************************************************)
(* Which guards are called: what broke, and what was let go at its end.    *)
(***************************************************************************)
\* What a parallel executor still has.
Standing(hm, l, y) == hm[y] \in Parallels /\ y \in Elems(l[hm[y]])

\* The guards of station s are to be called: something around it broke, and nothing
\* between the two was let go at its end, or can be any more.
Doomed(s, hm, l, br, er) ==
  \E x \in Above(hm, s) \cap br : \A y \in Above(hm, s) :
    y \in er \/ Standing(hm, l, y) => y \in Above(hm, x)

\* They are not to be called: something around it was let go in which nothing broke,
\* or the whole tree has come to its end.
Spared(s, hm, ph, br, er) ==
  \/ \E y \in Above(hm, s) \cap er : \A x \in Above(hm, s) \cap br : y \notin Above(hm, x)
  \/ ph = "dead" /\ Above(hm, s) \cap br = {}

GuardsExact(hm, gs, l, ph, o, cd, br, er) ==
  \A g \in 1 .. Len(o) :
    \/ g \in Elems(cd) /\ Doomed(o[g], hm, l, br, er)
    \/ g \notin Elems(cd) /\ (g \in Elems(gs[o[g]]) \/ Spared(o[g], hm, ph, br, er))

\* The step whose answer the container on top looks at, and what the answer means.
Answering(f, q, l) == IF f.at \in Parallels THEN l[f.at][f.i] ELSE q[f.at][1]

AnswerKept(st, r, q, l, br) ==
  r # None => LET x == Answering(st[1], q, l)
              IN  /\ st[1].at \in Stations \cup Parallels
                  /\ r = "Failed" => x \in br
                  /\ r = "Completed" => /\ x \in Stations => q[x] = <<>>
                                        /\ x \in Parallels => l[x] = <<>>

\* A parallel executor steps the step that it is at.
Listed(st, l) ==
  \A k \in 1 .. Len(st) - 1 : st[k].op = "step" /\ st[k + 1].at \in Parallels
                                => l[st[k + 1].at][st[k + 1].i] = st[k].at

\* What broke is gone, or whoever holds it breaks as well; it is not stepped again.
BrokenInv(st, r, hm, q, d, l, br) ==
  /\ \A x \in br : \/ x = Root
                   \/ hm[x] # None /\ x \notin Inside(hm[x], q, d, l)
                   \/ hm[x] \in Stations /\ hm[x] \in br
                   \/ r = "Failed" /\ x = Answering(st[1], q, l)
  /\ \A f \in Elems(st) : f.op = "step" => f.at \notin br

LetGoInv(hm, q, d, l, er) == \A y \in er : hm[y] # None /\ y \notin Inside(hm[y], q, d, l)

\* A step that is done did not break and has nothing left, but for what the user
\* has put into a parallel executor since.
DoneInv(q, d, l, br, w) ==
  \A s \in Stations : \A x \in Elems(d[s]) :
    /\ x \notin br
    /\ x \in Stations => q[x] = <<>>
    /\ x \in Parallels => \A y \in Elems(l[x]) : Fresh(w, y)

ListInv(l) == \A p \in Parallels : Distinct(l[p])

Emptied(s, q, d, gs) == q[s] = <<>> /\ d[s] = <<>> /\ gs[s] = <<>>

\* The phase tells what the user has called, and what became of the root.
PhaseInv(st, ph, q, d, gs, br) ==
  /\ ph \in {"live", "completed"} => Root \notin br
  /\ ph = "failed" => q[Root] # <<>>
  /\ ph = "undone" /\ st = <<>> => Emptied(Root, q, d, gs)
  /\ st # <<>> => \/ ph = "live" /\ st[Len(st)].op = "step"
                  \/ ph = "undone" /\ st[Len(st)].op = "roll"
                  \/ ph = "dead" /\ st[Len(st)].op = "kill"
  /\ ph = "dead" => Emptied(Root, q, d, gs) \/ Killed(st, Root)

\* A station is rolled back if its guards are to be called, or it never armed any;
\* then the step it begins with is empty when it is destroyed.
Rolled(st, s) == \E f \in Elems(st) : f.op = "roll" /\ f.at = s

RollAt(f, st, q, d, gs, l, er) ==
  f.op = "roll" /\ f.at \in Stations =>
    /\ Fresh(Paths, f.at) \/ Doomed(f.at, home, l, broken, er)
    /\ f.i = 1 /\ q[f.at] # <<>> =>
         LET h == q[f.at][1]
         IN  h \in Stations /\ q[h] = <<>> /\ ~Rolled(st, h) => Fresh(Paths, h) \/ Emptied(h, q, d, gs)

\* A station that is destroyed with steps left will roll itself back, and has to;
\* one without has called its guards, or need not.
KillAt(f, st, q, d, gs, l, er) ==
  f.op = "kill" =>
    /\ f.at \in Stations /\ ~Rolled(st, f.at) =>
         \/ Fresh(Paths, f.at)
         \/ q[f.at] # <<>> /\ Doomed(f.at, home, l, broken, er)
         \/ Emptied(f.at, q, d, gs)
         \/ q[f.at] = <<>> /\ Spared(f.at, home, phase, broken, er)
    /\ f.at \in Parallels => \/ Doomed(f.at, home, l, broken, er)
                             \/ \A y \in Elems(l[f.at]) : Fresh(Paths, y)

CallsExact(st, q, d, gs, l, er) ==
  \A f \in Elems(st) : RollAt(f, st, q, d, gs, l, er) /\ KillAt(f, st, q, d, gs, l, er)

ExactInv == /\ GuardsExact(home, guards, list, phase, owner, called, broken, erased)
            /\ AnswerKept(stack, ret, queue, list, broken)
            /\ Listed(stack, list)
            /\ BrokenInv(stack, ret, home, queue, done, list, broken)
            /\ LetGoInv(home, queue, done, list, erased)
            /\ DoneInv(queue, done, list, broken, Paths)
            /\ ListInv(list)
            /\ PhaseInv(stack, phase, queue, done, guards, broken)
            /\ CallsExact(stack, queue, done, guards, list, erased)
-----------------------------------------------------------------------------
\* The end of the stack stays what it is while the user waits.
SameEnd(st, st2) == st2 # <<>> => st2[Len(st2)].op = st[Len(st)].op

LEMMA PushMoves == ASSUME NEW st \in Seq(Frames), st # <<>>, NEW l, Listed(st, l),
                          NEW f \in Frames,
                          f.op = "step" /\ st[1].at \in Parallels => l[st[1].at][st[1].i] = f.at
                   PROVE  /\ <<f>> \o st \in Seq(Frames) /\ <<f>> \o st # <<>>
                          /\ Listed(<<f>> \o st, l) /\ SameEnd(st, <<f>> \o st)
<1>1. PICK new : new = <<f>> \o st
  OBVIOUS
<1>2. /\ new \in Seq(Frames) /\ Len(st) \in Nat /\ Len(st) > 0 /\ Len(new) = Len(st) + 1 /\ new[1] = f
      /\ \A k \in 2 .. Len(st) + 1 : new[k] = st[k - 1]
  BY ONLY <1>1, ConsSeq, EmptySeq, st \in Seq(Frames), f \in Frames, st # <<>>
<1>3. ASSUME NEW k \in 1 .. Len(new) - 1, new[k].op = "step", new[k + 1].at \in Parallels
      PROVE  l[new[k + 1].at][new[k + 1].i] = new[k].at
  <2>1. CASE k = 1
    <3>1. new[k + 1] = st[1] /\ new[k] = f
      BY ONLY <1>2, <2>1
    <3> QED BY ONLY <1>3, <3>1, f.op = "step" /\ st[1].at \in Parallels => l[st[1].at][st[1].i] = f.at
  <2>2. CASE k # 1
    <3>1. k - 1 \in 1 .. Len(st) - 1 /\ new[k + 1] = st[k - 1 + 1] /\ new[k] = st[k - 1]
      BY ONLY <1>2, <2>2, k \in 1 .. Len(new) - 1
    <3> QED BY ONLY <1>3, <3>1, Listed(st, l) DEF Listed
  <2> QED BY <2>1, <2>2
<1>4. new[Len(new)] = st[Len(st)] /\ new # <<>>
  BY ONLY <1>2
<1> QED BY ONLY <1>1, <1>2, <1>3, <1>4 DEF Listed, SameEnd

LEMMA PopMoves == ASSUME NEW st \in Seq(Frames), st # <<>>, NEW l, Listed(st, l)
                  PROVE  /\ Tail(st) \in Seq(Frames)
                         /\ Listed(Tail(st), l) /\ SameEnd(st, Tail(st))
                         /\ Tail(st) = <<>> => st[Len(st)] = st[1]
<1>1. PICK new : new = Tail(st)
  OBVIOUS
<1>2. /\ new \in Seq(Frames) /\ Len(st) \in Nat /\ Len(st) > 0 /\ Len(new) = Len(st) - 1
      /\ \A k \in 1 .. Len(new) : new[k] = st[k + 1]
  BY ONLY <1>1, TailSeq, st \in Seq(Frames), st # <<>>
<1>3. ASSUME NEW k \in 1 .. Len(new) - 1, new[k].op = "step", new[k + 1].at \in Parallels
      PROVE  l[new[k + 1].at][new[k + 1].i] = new[k].at
  <2>1. k + 1 \in 1 .. Len(st) - 1 /\ new[k] = st[k + 1] /\ new[k + 1] = st[k + 1 + 1]
    BY ONLY <1>2, k \in 1 .. Len(new) - 1
  <2> QED BY ONLY <1>3, <2>1, Listed(st, l) DEF Listed
<1>4. new # <<>> => new[Len(new)] = st[Len(st)]
  BY ONLY <1>2, EmptySeq
<1>5. new = <<>> => Len(st) = 1
  BY ONLY <1>2, EmptySeq
<1> QED BY ONLY <1>1, <1>2, <1>3, <1>4, <1>5 DEF Listed, SameEnd

LEMMA TurnMoves == ASSUME NEW st \in Seq(Frames), st # <<>>, NEW l, Listed(st, l),
                          NEW g \in Frames, g.op = st[1].op, g.at = st[1].at
                   PROVE  /\ <<g>> \o Tail(st) \in Seq(Frames) /\ <<g>> \o Tail(st) # <<>>
                          /\ (<<g>> \o Tail(st))[1] = g
                          /\ Listed(<<g>> \o Tail(st), l) /\ SameEnd(st, <<g>> \o Tail(st))
<1>1. PICK t \in Seq(Frames) : t = Tail(st)
  BY ONLY TailSeq, st \in Seq(Frames), st # <<>>
<1>2. /\ Len(st) \in Nat /\ Len(st) > 0 /\ Len(t) = Len(st) - 1
      /\ \A k \in 1 .. Len(t) : t[k] = st[k + 1]
  BY ONLY <1>1, TailSeq, st \in Seq(Frames), st # <<>>
<1>3. PICK new : new = <<g>> \o t
  OBVIOUS
<1>4. /\ new \in Seq(Frames) /\ Len(new) = Len(t) + 1 /\ new[1] = g
      /\ \A k \in 2 .. Len(t) + 1 : new[k] = t[k - 1]
  BY ONLY <1>3, ConsSeq, t \in Seq(Frames), g \in Frames
<1>5. Len(new) = Len(st) /\ \A k \in 2 .. Len(st) : new[k] = st[k]
  BY ONLY <1>2, <1>4
<1>6. ASSUME NEW k \in 1 .. Len(new) - 1, new[k].op = "step", new[k + 1].at \in Parallels
      PROVE  l[new[k + 1].at][new[k + 1].i] = new[k].at
  <2>1. k \in 1 .. Len(st) - 1 /\ new[k + 1] = st[k + 1] /\ (k = 1 \/ new[k] = st[k])
    BY ONLY <1>2, <1>5, k \in 1 .. Len(new) - 1
  <2>2. new[k].op = st[k].op /\ new[k].at = st[k].at
    BY ONLY <1>4, <2>1, g.op = st[1].op, g.at = st[1].at
  <2> QED BY ONLY <1>6, <2>1, <2>2, Listed(st, l) DEF Listed
<1>7. new[Len(new)].op = st[Len(st)].op
  <2>1. Len(st) = 1 \/ Len(st) \in 2 .. Len(st)
    BY ONLY <1>2
  <2> QED BY ONLY <1>4, <1>5, <2>1, g.op = st[1].op
<1>8. new # <<>>
  BY ONLY <1>2, <1>4, EmptySeq
<1> QED BY ONLY <1>1, <1>3, <1>4, <1>6, <1>7, <1>8 DEF Listed, SameEnd
-----------------------------------------------------------------------------
\* Undoing only takes away; what it lets go of a parallel executor had.
Shrinks(q, d, gs, l, q2, d2, gs2, l2) ==
  /\ \A s \in Stations : /\ Elems(q2[s]) \subseteq Elems(q[s]) /\ (q[s] = <<>> => q2[s] = <<>>)
                         /\ Elems(d2[s]) \subseteq Elems(d[s]) /\ (d[s] = <<>> => d2[s] = <<>>)
                         /\ gs[s] = <<>> => gs2[s] = <<>>
  /\ \A p \in Parallels : Elems(l2[p]) \subseteq Elems(l[p])

LetsGo(hm, l, er, er2) == er \subseteq er2 /\ \A y \in er2 : y \in er \/ Standing(hm, l, y)

LEMMA DoomedStays == ASSUME NEW hm, NEW l, NEW l2, NEW br, NEW br2, NEW er, NEW er2, br \subseteq br2,
                            LetsGo(hm, l, er, er2), \A p \in Parallels : Elems(l2[p]) \subseteq Elems(l[p])
                     PROVE  \A s : Doomed(s, hm, l, br, er) => Doomed(s, hm, l2, br2, er2)
  BY DEF Doomed, LetsGo, Standing

LEMMA SparedStays == ASSUME NEW hm, NEW ph, NEW br, NEW er, NEW er2, er \subseteq er2
                     PROVE  \A s : Spared(s, hm, ph, br, er) => Spared(s, hm, ph, br, er2)
  BY DEF Spared

\* The calls that go on, while one of them takes away.
LEMMA CallsGoOn ==
  ASSUME NEW st, NEW q, NEW d, NEW gs, NEW l, NEW er, CallsExact(st, q, d, gs, l, er),
         NEW st2, NEW q2, NEW d2, NEW gs2, NEW l2, NEW er2,
         Shrinks(q, d, gs, l, q2, d2, gs2, l2), LetsGo(home, l, er, er2),
         \A s \in Stations : q[s] # <<>> /\ q2[s] = <<>> => Rolled(st2, s),
         \A s \in Stations : Rolled(st, s) => Rolled(st2, s) \/ Emptied(s, q2, d2, gs2),
         \A s \in Stations : q2[s] # <<>> => q2[s][1] = q[s][1] \/ Fresh(Paths, q2[s][1]),
         \A f \in Elems(st2) : \/ f \in Elems(st)
                               \/ RollAt(f, st2, q2, d2, gs2, l2, er2) /\ KillAt(f, st2, q2, d2, gs2, l2, er2)
  PROVE  CallsExact(st2, q2, d2, gs2, l2, er2)
<1>1. /\ \A s : Doomed(s, home, l, broken, er) => Doomed(s, home, l2, broken, er2)
      /\ \A s : Spared(s, home, phase, broken, er) => Spared(s, home, phase, broken, er2)
  BY DoomedStays, SparedStays DEF LetsGo, Shrinks
<1>2. \A s \in Stations : /\ q2[s] # <<>> => q[s] # <<>>
                          /\ Emptied(s, q, d, gs) => Emptied(s, q2, d2, gs2)
  BY DEF Shrinks, Emptied
<1>3. ASSUME NEW f \in Elems(st), RollAt(f, st, q, d, gs, l, er) PROVE RollAt(f, st2, q2, d2, gs2, l2, er2)
  <2> SUFFICES ASSUME f.op = "roll", f.at \in Stations
               PROVE  /\ Fresh(Paths, f.at) \/ Doomed(f.at, home, l2, broken, er2)
                      /\ f.i = 1 /\ q2[f.at] # <<>> =>
                           LET h == q2[f.at][1]
                           IN  h \in Stations /\ q2[h] = <<>> /\ ~Rolled(st2, h)
                                 => Fresh(Paths, h) \/ Emptied(h, q2, d2, gs2)
    BY DEF RollAt
  <2>1. /\ Fresh(Paths, f.at) \/ Doomed(f.at, home, l, broken, er)
        /\ f.i = 1 /\ q[f.at] # <<>> =>
             (q[f.at][1] \in Stations /\ q[q[f.at][1]] = <<>> /\ ~Rolled(st, q[f.at][1])
                 => Fresh(Paths, q[f.at][1]) \/ Emptied(q[f.at][1], q, d, gs))
    BY <1>3 DEF RollAt
  <2>2. ASSUME f.i = 1, q2[f.at] # <<>>, NEW h, h = q2[f.at][1], h \in Stations, q2[h] = <<>>, ~Rolled(st2, h)
        PROVE  Fresh(Paths, h) \/ Emptied(h, q2, d2, gs2)
    BY <1>2, <2>1, <2>2
  <2> QED BY <1>1, <2>1, <2>2
<1>4. ASSUME NEW f \in Elems(st), KillAt(f, st, q, d, gs, l, er) PROVE KillAt(f, st2, q2, d2, gs2, l2, er2)
  <2> SUFFICES ASSUME f.op = "kill" PROVE KillAt(f, st2, q2, d2, gs2, l2, er2)
    BY DEF KillAt
  <2>1. ASSUME f.at \in Stations, ~Rolled(st2, f.at)
        PROVE  \/ Fresh(Paths, f.at)
               \/ q2[f.at] # <<>> /\ Doomed(f.at, home, l2, broken, er2)
               \/ Emptied(f.at, q2, d2, gs2)
               \/ q2[f.at] = <<>> /\ Spared(f.at, home, phase, broken, er2)
    <3>1. CASE Rolled(st, f.at)
      BY <2>1, <3>1
    <3>2. CASE ~Rolled(st, f.at)
      <4>1. \/ Fresh(Paths, f.at)
            \/ q[f.at] # <<>> /\ Doomed(f.at, home, l, broken, er)
            \/ Emptied(f.at, q, d, gs)
            \/ q[f.at] = <<>> /\ Spared(f.at, home, phase, broken, er)
        BY <1>4, <2>1, <3>2 DEF KillAt
      <4> QED BY <1>1, <1>2, <2>1, <4>1
    <3> QED BY <3>1, <3>2
  <2>2. ASSUME f.at \in Parallels
        PROVE  Doomed(f.at, home, l2, broken, er2) \/ \A y \in Elems(l2[f.at]) : Fresh(Paths, y)
    <3>1. Doomed(f.at, home, l, broken, er) \/ \A y \in Elems(l[f.at]) : Fresh(Paths, y)
      BY <1>4, <2>2 DEF KillAt
    <3>2. Elems(l2[f.at]) \subseteq Elems(l[f.at])
      BY <2>2 DEF Shrinks
    <3> QED BY ONLY <1>1, <3>1, <3>2
  <2> QED BY ONLY <2>1, <2>2 DEF KillAt
<1> QED BY <1>3, <1>4 DEF CallsExact

-----------------------------------------------------------------------------
LEMMA ExactKept == ASSUME UNCHANGED <<home, owner, broken, phase, ret>>,
                          GuardsExact(home, guards', list', phase, owner, called', broken, erased'),
                          AnswerKept(stack', ret, queue', list', broken),
                          Listed(stack', list'),
                          BrokenInv(stack', ret, home, queue', done', list', broken),
                          LetGoInv(home, queue', done', list', erased'),
                          DoneInv(queue', done', list', broken, Paths),
                          ListInv(list'),
                          PhaseInv(stack', phase, queue', done', guards', broken),
                          CallsExact(stack', queue', done', guards', list', erased')
                   PROVE  ExactInv'
<1>1. Paths' = Paths
  BY PathsKept
<1>2. CallsExact(stack, queue, done, guards, list, erased)'
  BY <1>1 DEF CallsExact, RollAt, KillAt
<1> QED BY <1>1, <1>2 DEF ExactInv

LEMMA GuardsStay == ASSUME NEW hm, NEW gs, NEW ph, NEW o, NEW cd, NEW br, NEW l, NEW er, NEW l2, NEW er2,
                           GuardsExact(hm, gs, l, ph, o, cd, br, er),
                           LetsGo(hm, l, er, er2), \A p \in Parallels : Elems(l2[p]) \subseteq Elems(l[p])
                    PROVE  GuardsExact(hm, gs, l2, ph, o, cd, br, er2)
<1>1. /\ \A s : Doomed(s, hm, l, br, er) => Doomed(s, hm, l2, br, er2)
      /\ \A s : Spared(s, hm, ph, br, er) => Spared(s, hm, ph, br, er2)
  BY DoomedStays, SparedStays DEF LetsGo
<1> QED BY <1>1 DEF GuardsExact

\* What an action has to show that undoes, or destroys.
LEMMA UndoExact ==
  ASSUME StationInv, UndoInv, ExactInv, stack # <<>>, Top.op # "step",
         UNCHANGED <<home, owner, broken, phase, ret>>,
         Shrinks(queue, done, guards, list, queue', done', guards', list'),
         LetsGo(home, list, erased, erased'),
         \A s \in Stations : queue[s] # <<>> /\ queue'[s] = <<>> => Rolled(stack', s),
         \A s \in Stations : Rolled(stack, s) => Rolled(stack', s) \/ Emptied(s, queue', done', guards'),
         \A s \in Stations : queue'[s] # <<>> => queue'[s][1] = queue[s][1] \/ Fresh(Paths, queue'[s][1]),
         \A f \in Elems(stack') :
            \/ f \in Elems(stack)
            \/ /\ f.op # "step" /\ RollAt(f, stack', queue', done', guards', list', erased')
               /\ KillAt(f, stack', queue', done', guards', list', erased'),
         Listed(stack', list'), SameEnd(stack, stack'),
         LetGoInv(home, queue', done', list', erased'), ListInv(list'),
         stack' = <<>> /\ phase = "undone" => Emptied(Root, queue', done', guards'),
         Killed(stack, Root) => Killed(stack', Root) \/ Emptied(Root, queue', done', guards'),
         GuardsExact(home, guards', list', phase, owner, called', broken, erased')
  PROVE  ExactInv'
<1>1. PICK st, q, d, gs, l, er : /\ st = stack' /\ q = queue' /\ d = done' /\ gs = guards' /\ l = list'
                                 /\ er = erased'
  OBVIOUS
<1>2. /\ Shrinks(queue, done, guards, list, q, d, gs, l) /\ LetsGo(home, list, erased, er)
      /\ \A s \in Stations : queue[s] # <<>> /\ q[s] = <<>> => Rolled(st, s)
      /\ \A s \in Stations : Rolled(stack, s) => Rolled(st, s) \/ Emptied(s, q, d, gs)
      /\ \A s \in Stations : q[s] # <<>> => q[s][1] = queue[s][1] \/ Fresh(Paths, q[s][1])
      /\ \A f \in Elems(st) : \/ f \in Elems(stack)
                              \/ /\ f.op # "step" /\ RollAt(f, st, q, d, gs, l, er)
                                 /\ KillAt(f, st, q, d, gs, l, er)
      /\ SameEnd(stack, st)
      /\ st = <<>> /\ phase = "undone" => Emptied(Root, q, d, gs)
      /\ Killed(stack, Root) => Killed(st, Root) \/ Emptied(Root, q, d, gs)
  BY <1>1
<1>3. /\ CallsExact(stack, queue, done, guards, list, erased)
      /\ BrokenInv(stack, ret, home, queue, done, list, broken)
      /\ DoneInv(queue, done, list, broken, Paths)
      /\ PhaseInv(stack, phase, queue, done, guards, broken)
  BY DEF ExactInv
<1>4. ret = None
  BY NoAnswer
<1>5. CallsExact(st, q, d, gs, l, er)
  BY ONLY <1>2, <1>3, CallsGoOn
<1>6. AnswerKept(st, ret, q, l, broken)
  BY ONLY <1>4 DEF AnswerKept
<1>7. \A c \in Stations \cup Parallels : Inside(c, q, d, l) \subseteq Inside(c, queue, done, list)
  BY ONLY <1>2 DEF Inside, Shrinks
<1>8. BrokenInv(st, ret, home, q, d, l, broken)
  <2>1. None # "Failed"
    BY StationAssumption
  <2>2. home \in [Steps -> Stations \cup Parallels \cup {None}] /\ broken \subseteq Steps
    BY UndoParts DEF StationTypeOK
  <2>3. \A f \in Elems(st) : f.op = "step" => f.at \notin broken
    BY ONLY <1>2, <1>3 DEF BrokenInv
  <2>4. \A x \in broken : x = Root \/ (home[x] # None /\ x \notin Inside(home[x], queue, done, list))
                            \/ (home[x] \in Stations /\ home[x] \in broken)
    BY ONLY <1>3, <1>4, <2>1 DEF BrokenInv
  <2>5. \A x \in broken : home[x] # None => home[x] \in Stations \cup Parallels
    BY ONLY <2>2
  <2> QED BY ONLY <1>7, <2>3, <2>4, <2>5 DEF BrokenInv
<1>9. DoneInv(q, d, l, broken, Paths)
  BY ONLY <1>2, <1>3 DEF DoneInv, Shrinks
<1>10. PhaseInv(st, phase, q, d, gs, broken)
  <2>1. Emptied(Root, queue, done, guards) => Emptied(Root, q, d, gs)
    BY ONLY <1>2, StationAssumption DEF Shrinks, Emptied
  <2>2. /\ phase \in {"live", "completed"} => Root \notin broken
        /\ phase # "failed"
        /\ \/ phase = "live" /\ stack[Len(stack)].op = "step"
           \/ phase = "undone" /\ stack[Len(stack)].op = "roll"
           \/ phase = "dead" /\ stack[Len(stack)].op = "kill"
        /\ phase = "dead" => Emptied(Root, queue, done, guards) \/ Killed(stack, Root)
    BY <1>3 DEF PhaseInv
  <2>3. st # <<>> => st[Len(st)].op = stack[Len(stack)].op
    BY ONLY <1>2 DEF SameEnd
  <2> QED BY ONLY <1>2, <2>1, <2>2, <2>3 DEF PhaseInv
<1> QED BY <1>1, <1>5, <1>6, <1>8, <1>9, <1>10, ExactKept

\* A call that returns, goes on, or makes another one, and takes nothing away.
LEMMA StillSame == /\ Shrinks(queue, done, guards, list, queue, done, guards, list)
                   /\ LetsGo(home, list, erased, erased)
  BY DEF Shrinks, LetsGo

LEMMA ReturnExact ==
  ASSUME StationInv, UndoInv, ExactInv, stack # <<>>, Top.op # "step", stack' = Pop,
         Top.op = "roll" /\ Top.at \in Stations => Emptied(Top.at, queue, done, guards),
         Top.op = "kill" /\ Top.at = Root => Emptied(Root, queue, done, guards),
         UNCHANGED <<tree, ret, phase, home, history>>
  PROVE  ExactInv'
<1>1. PICK st \in Seq(Frames) : st = Tail(stack) /\ Listed(st, list) /\ SameEnd(stack, st)
                                /\ (st = <<>> => stack[Len(stack)] = stack[1])
  BY UndoParts, PopMoves DEF ExactInv
<1>2. Elems(stack) = {stack[1]} \cup Elems(st)
  BY ONLY <1>1, UndoParts, ElemsTail, StationInv, UndoInv, stack # <<>>
<1>3. \A s \in Stations : Rolled(stack, s) => Rolled(st, s) \/ Emptied(s, queue, done, guards)
  BY <1>2 DEF Rolled
<1>4. Killed(stack, Root) => Killed(st, Root) \/ Emptied(Root, queue, done, guards)
  BY <1>2 DEF Killed
<1>5. st = <<>> /\ phase = "undone" => Emptied(Root, queue, done, guards)
  <2> SUFFICES ASSUME st = <<>>, phase = "undone" PROVE Emptied(Root, queue, done, guards)
    OBVIOUS
  <2>1. Top.op = "roll"
    BY <1>1 DEF ExactInv, PhaseInv
  <2>2. Top.at = Root
    <3>1. Len(stack) > 0 /\ StackInv(stack, home)
      BY UndoParts, OnTop DEF CallsInv
    <3> QED BY <1>1, <3>1 DEF StackInv, Nested
  <2> QED BY <2>1, <2>2, StationAssumption
<1>6. \A f \in Elems(st) : f \in Elems(stack)
  BY ONLY <1>2
<1>7. /\ stack' = st /\ queue' = queue /\ done' = done /\ guards' = guards /\ list' = list
      /\ called' = called /\ erased' = erased
  BY <1>1
<1>8. /\ LetGoInv(home, queue, done, list, erased) /\ ListInv(list)
      /\ GuardsExact(home, guards, list, phase, owner, called, broken, erased)
  BY DEF ExactInv
<1> QED BY <1>1, <1>3, <1>4, <1>5, <1>6, <1>7, <1>8, StillSame, UndoExact

LEMMA CallExact ==
  ASSUME StationInv, UndoInv, ExactInv, stack # <<>>, Top.op # "step",
         NEW g \in Frames, g.op = Top.op, g.at = Top.at,
         RollAt(g, stack', queue, done, guards, list, erased),
         KillAt(g, stack', queue, done, guards, list, erased),
         \/ stack' = SetTop(g)
         \/ \E f \in Frames : /\ stack' = <<f>> \o SetTop(g) /\ f.op # "step"
                              /\ RollAt(f, stack', queue, done, guards, list, erased)
                              /\ KillAt(f, stack', queue, done, guards, list, erased),
         UNCHANGED <<tree, ret, phase, home, history>>
  PROVE  ExactInv'
<1>1. PICK st \in Seq(Frames) : /\ st = SetTop(g) /\ st # <<>> /\ st[1] = g /\ Listed(st, list)
                                /\ SameEnd(stack, st)
  BY UndoParts, TurnMoves DEF ExactInv
<1>2. Elems(stack) = {stack[1]} \cup Elems(Tail(stack)) /\ Elems(st) = {g} \cup Elems(Tail(stack))
  BY ONLY <1>1, UndoParts, StackElems, StationInv, UndoInv, stack # <<>>, g \in Frames DEF SetTop
<1>3. PICK st2 \in Seq(Frames) :
        /\ st2 = stack' /\ st2 # <<>> /\ Listed(st2, list) /\ SameEnd(stack, st2)
        /\ Elems(st) \subseteq Elems(st2)
        /\ \A f \in Elems(st2) : \/ f \in Elems(st)
                                 \/ /\ f.op # "step" /\ RollAt(f, stack', queue, done, guards, list, erased)
                                    /\ KillAt(f, stack', queue, done, guards, list, erased)
  <2>1. CASE stack' = SetTop(g)
    BY <1>1, <2>1
  <2>2. ASSUME NEW f \in Frames, stack' = <<f>> \o SetTop(g), f.op # "step",
               RollAt(f, stack', queue, done, guards, list, erased),
               KillAt(f, stack', queue, done, guards, list, erased)
        PROVE  /\ stack' \in Seq(Frames) /\ stack' # <<>> /\ Listed(stack', list) /\ SameEnd(stack, stack')
               /\ Elems(st) \subseteq Elems(stack')
               /\ \A h \in Elems(stack') : h \in Elems(st) \/ h = f
    <3>1. PICK new : new = stack' /\ new = <<f>> \o st
      BY <1>1, <2>2
    <3>2. new \in Seq(Frames) /\ new # <<>> /\ Listed(new, list) /\ SameEnd(st, new)
      BY ONLY <1>1, <3>1, <2>2, f \in Frames, st \in Seq(Frames), PushMoves
    <3>3. Elems(new) = {f} \cup Elems(st)
      BY ONLY <3>1, f \in Frames, st \in Seq(Frames), StackElems
    <3>4. SameEnd(stack, new)
      BY ONLY <1>1, <3>2 DEF SameEnd
    <3> QED BY ONLY <3>1, <3>2, <3>3, <3>4
  <2> QED BY <2>1, <2>2
<1>4. \A s \in Stations : Rolled(stack, s) => Rolled(st2, s)
  BY <1>2, <1>3 DEF Rolled
<1>5. Killed(stack, Root) => Killed(st2, Root)
  BY <1>2, <1>3 DEF Killed
<1>6. \A f \in Elems(st2) : \/ f \in Elems(stack)
                            \/ /\ f.op # "step" /\ RollAt(f, st2, queue, done, guards, list, erased)
                               /\ KillAt(f, st2, queue, done, guards, list, erased)
  BY <1>2, <1>3
<1>7. /\ stack' = st2 /\ queue' = queue /\ done' = done /\ guards' = guards /\ list' = list
      /\ called' = called /\ erased' = erased
  BY <1>3
<1>8. /\ LetGoInv(home, queue, done, list, erased) /\ ListInv(list)
      /\ GuardsExact(home, guards, list, phase, owner, called, broken, erased)
  BY DEF ExactInv
<1> QED BY <1>3, <1>4, <1>5, <1>6, <1>7, <1>8, StillSame, UndoExact

-----------------------------------------------------------------------------
\* What holds of a container holds of what is in it.
LEMMA DoomedBelow == ASSUME NEW hm \in [Steps -> Steps \cup {None}], NEW x \in Steps, hm[x] # None,
                            NEW l, NEW br, NEW er, Doomed(hm[x], hm, l, br, er),
                            x \notin er, ~Standing(hm, l, x)
                     PROVE  Doomed(x, hm, l, br, er)
<1>1. Above(hm, x) = {x} \cup Above(hm, hm[x])
  BY AboveHome
<1> QED BY <1>1 DEF Doomed

LEMMA SparedBelow == ASSUME NEW hm \in [Steps -> Steps \cup {None}], NEW x \in Steps, hm[x] # None,
                            NEW ph, NEW br, NEW er, Spared(hm[x], hm, ph, br, er), x \notin br
                     PROVE  Spared(x, hm, ph, br, er)
<1>1. Above(hm, x) = {x} \cup Above(hm, hm[x])
  BY AboveHome
<1> QED BY <1>1 DEF Spared

LEMMA FreshBelow == ASSUME StationInv, UndoInv, NEW x \in Steps, home[x] # None, Fresh(Paths, home[x])
                    PROVE  Fresh(Paths, x)
<1>1. home \in [Steps -> Steps \cup {None}] /\ StationTypeOK
  BY UndoParts
<1>2. ASSUME NEW g \in DOMAIN Paths, x \in Paths[g] PROVE FALSE
  <2>1. PICK o \in Steps : Paths[g] = Above(home, o)
    BY <1>1, PathFacts
  <2>2. home[x] \in Paths[g]
    BY ONLY <1>1, <1>2, <2>1, home[x] # None, AboveClosed DEF Closed
  <2> QED BY <2>2, Fresh(Paths, home[x]) DEF Fresh
<1> QED BY ONLY <1>2 DEF Fresh

\* What was let go without having broken spares what is in it.
LEMMA SparedSelf == ASSUME NEW hm \in [Steps -> Steps \cup {None}], Acyclic(hm), NEW x \in Steps,
                           NEW ph, NEW br, NEW er, x \in er, x \notin br
                    PROVE  Spared(x, hm, ph, br, er)
<1>1. x \in Above(hm, x)
  BY AboveClosed
<1>2. ASSUME NEW z \in Above(hm, x) \cap br, x \in Above(hm, z) PROVE FALSE
  <2>1. z # x
    BY <1>2
  <2>2. hm[x] # None /\ z \in Above(hm, hm[x])
    BY <2>1, AboveHome
  <2>3. x \in Above(hm, hm[x])
    BY <1>2, <2>2, AboveTrans
  <2> QED BY <2>2, <2>3 DEF Acyclic
<1> QED BY <1>1, <1>2 DEF Spared

\* The call on top.
LEMMA TopExact == ASSUME StationInv, UndoInv, ExactInv, stack # <<>>
                  PROVE  /\ stack \in Seq(Frames) /\ Top \in Frames /\ Top \in Elems(stack)
                         /\ RollAt(Top, stack, queue, done, guards, list, erased)
                         /\ KillAt(Top, stack, queue, done, guards, list, erased)
                         /\ Top.op = "kill" => ~Rolled(stack, Top.at)
                         /\ Ending(Top, queue) /\ Bare(Top, guards)
<1>1. /\ stack \in Seq(Frames) /\ CallsInv(stack, ret, queue, list, home) /\ StationTypeOK
      /\ TakenOut(stack, home, queue, done, guards, list)
  BY UndoParts
<1>2. Top \in Frames /\ Top \in Elems(stack) /\ Len(stack) > 0
  BY <1>1, OnTop, ElemsTail
<1>3. Ending(Top, queue) /\ Bare(Top, guards)
  BY <1>1, <1>2 DEF CallsInv, KillInv, TakenOut
<1>4. ASSUME Top.op = "kill", NEW f \in Elems(stack), f.op = "roll", f.at = Top.at PROVE FALSE
  <2>1. PICK k \in 1 .. Len(stack) : f = stack[k]
    BY DEF Elems
  <2>2. k # 1
    BY <1>4, <2>1
  <2>3. k \in 2 .. Len(stack)
    BY ONLY <1>1, <2>2, k \in 1 .. Len(stack), EmptySeq
  <2>4. stack[1].op = "roll"
    <3>1. StackInv(stack, home) /\ stack[k].at = stack[1].at
      BY <1>1, <1>4, <2>1 DEF CallsInv
    <3> QED BY ONLY <1>1, <2>3, <3>1, Others
  <2> QED BY <1>4, <2>4
<1>5. CallsExact(stack, queue, done, guards, list, erased)
  BY DEF ExactInv
<1>6. /\ RollAt(Top, stack, queue, done, guards, list, erased)
      /\ KillAt(Top, stack, queue, done, guards, list, erased)
  BY ONLY <1>2, <1>5 DEF CallsExact
<1>7. Top.op = "kill" => ~Rolled(stack, Top.at)
  BY ONLY <1>4 DEF Rolled
<1> QED BY ONLY <1>1, <1>2, <1>3, <1>6, <1>7

\* What is in a container has not been let go.
LEMMA NotLetGo == ASSUME StationInv, UndoInv, ExactInv, NEW x \in Steps, home[x] # None,
                         x \in Inside(home[x], queue, done, list)
                  PROVE  x \notin erased
  BY DEF ExactInv, LetGoInv

\* A member of a station is undone, or is destroyed, when the station is.
LEMMA MemberExact == ASSUME StationInv, UndoInv, ExactInv, NEW c \in Stations, NEW x \in Steps,
                            home[x] = c, x \in Elems(queue[c]) \cup Elems(done[c]),
                            Fresh(Paths, c) \/ Doomed(c, home, list, broken, erased)
                     PROVE  Fresh(Paths, x) \/ Doomed(x, home, list, broken, erased)
<1>1. home \in [Steps -> Steps \cup {None}] /\ c # None /\ c \notin Parallels
  BY UndoParts, StationAssumption
<1>2. x \notin erased
  BY <1>1, NotLetGo DEF Inside
<1>3. ~Standing(home, list, x)
  BY <1>1 DEF Standing
<1>4. CASE Fresh(Paths, c)
  BY <1>1, <1>4, FreshBelow
<1>5. CASE Doomed(c, home, list, broken, erased)
  <2>1. Doomed(x, home, list, broken, erased)
    BY ONLY <1>1, <1>2, <1>3, <1>5, home[x] = c, x \in Steps, DoomedBelow
  <2> QED BY <2>1
<1> QED BY <1>4, <1>5

\* So are the steps of a parallel executor in it.
LEMMA MembersFresh == ASSUME StationInv, UndoInv, NEW x \in Parallels, Fresh(Paths, x)
                      PROVE  \A y \in Elems(list[x]) : Fresh(Paths, y)
<1>1. list \in [Parallels -> Seq(Steps)] /\ Housed(list, home)
  BY UndoParts
<1>2. ASSUME NEW y \in Elems(list[x]) PROVE y \in Steps /\ home[y] = x
  <2>1. PICK k \in 1 .. Len(list[x]) : y = list[x][k]
    BY DEF Elems
  <2> QED BY ONLY <1>1, <2>1, x \in Parallels, k \in 1 .. Len(list[x]), InHoused
<1>3. x # None
  BY StationAssumption
<1> QED BY <1>2, <1>3, FreshBelow
-----------------------------------------------------------------------------
\* A call is made that undoes or destroys, and no guard is called or dropped.
LEMMA MoreExact ==
  ASSUME StationInv, UndoInv, ExactInv, stack # <<>>, Top.op # "step",
         UNCHANGED <<guards, called, home, owner, broken, phase, ret>>,
         stack' # <<>>, Elems(stack) \subseteq Elems(stack'),
         SameEnd(stack, stack'), Listed(stack', list'),
         Shrinks(queue, done, guards, list, queue', done', guards', list'),
         LetsGo(home, list, erased, erased'),
         \A s \in Stations : queue[s] # <<>> /\ queue'[s] = <<>> => Rolled(stack, s),
         \A s \in Stations : queue'[s] # <<>> => queue'[s][1] = queue[s][1] \/ Fresh(Paths, queue'[s][1]),
         \A f \in Elems(stack') :
            \/ f \in Elems(stack)
            \/ /\ f.op # "step" /\ RollAt(f, stack', queue', done', guards', list', erased')
               /\ KillAt(f, stack', queue', done', guards', list', erased'),
         LetGoInv(home, queue', done', list', erased'), ListInv(list')
  PROVE  ExactInv'
<1>1. \A s : Rolled(stack, s) => Rolled(stack', s)
  BY DEF Rolled
<1>2. Killed(stack, Root) => Killed(stack', Root)
  BY DEF Killed
<1>3. GuardsExact(home, guards', list', phase, owner, called', broken, erased')
  <2>1. GuardsExact(home, guards, list, phase, owner, called, broken, erased)
    BY DEF ExactInv
  <2>2. PICK l, er : l = list' /\ er = erased'
    OBVIOUS
  <2>3. LetsGo(home, list, erased, er) /\ \A p \in Parallels : Elems(l[p]) \subseteq Elems(list[p])
    BY <2>2 DEF Shrinks
  <2>4. GuardsExact(home, guards, l, phase, owner, called, broken, er)
    BY ONLY <2>1, <2>3, GuardsStay
  <2> QED BY <2>2, <2>4
<1> QED BY <1>1, <1>2, <1>3, UndoExact

LEMMA PlainReturnExact == ASSUME StationInv, UndoInv, ExactInv, RollNothing \/ RollEnd \/ KillLeaf
                          PROVE  ExactInv'
<1>1. /\ stack # <<>> /\ Top.op # "step" /\ stack' = Pop
      /\ UNCHANGED <<tree, ret, phase, home, history>>
  BY DEF RollNothing, RollEnd, KillLeaf, Rolling
<1>2. Top.op = "roll" /\ Top.at \in Stations => Emptied(Top.at, queue, done, guards)
  BY StationAssumption DEF RollNothing, RollEnd, KillLeaf, Rolling, Emptied
<1>3. Top.op = "kill" /\ Top.at = Root => Emptied(Root, queue, done, guards)
  BY StationAssumption DEF RollNothing, RollEnd, KillLeaf, Rolling
<1> QED BY <1>1, <1>2, <1>3, ReturnExact

-----------------------------------------------------------------------------
LEMMA RollHeadExact == ASSUME StationInv, UndoInv, ExactInv, RollHead PROVE ExactInv'
<1>1. /\ stack # <<>> /\ Top.op = "roll" /\ Top.at \in Stations /\ Top.i = 0
      /\ UNCHANGED <<tree, ret, phase, home, history>>
  BY DEF RollHead
<1>2. PICK c \in Stations : c = Top.at
  BY <1>1
<1>3. PICK g : g = [Top EXCEPT !.i = 1]
  OBVIOUS
<1>4. PICK x : x = queue[c][1]
  OBVIOUS
<1>5. PICK st : st = stack'
  OBVIOUS
<1>6. st = IF queue[c] = <<>> THEN SetTop(g) ELSE <<Frame("roll", x)>> \o SetTop(g)
  BY <1>2, <1>3, <1>4, <1>5 DEF RollHead
<1>7. /\ stack \in Seq(Frames) /\ Top \in Frames
      /\ RollAt(Top, stack, queue, done, guards, list, erased)
  BY <1>1, TopExact
<1>8. g \in Frames /\ g.op = "roll" /\ g.at = c /\ g.i = 1
  BY <1>1, <1>2, <1>3, <1>7 DEF Frames
<1>9. Fresh(Paths, c) \/ Doomed(c, home, list, broken, erased)
  BY <1>1, <1>2, <1>7 DEF RollAt
<1>10. KillAt(g, st, queue, done, guards, list, erased)
  BY <1>8 DEF KillAt
<1>11. ASSUME queue[c] # <<>>
       PROVE  /\ Frame("roll", x) \in Frames /\ Frame("roll", x).op = "roll" /\ Frame("roll", x).at = x
              /\ RollAt(Frame("roll", x), st, queue, done, guards, list, erased)
              /\ KillAt(Frame("roll", x), st, queue, done, guards, list, erased)
              /\ Rolled(st, x)
  <2>1. x \in Steps /\ home[x] = c /\ queue[c] \in Seq(Steps)
    BY <1>4, <1>11, StationHas
  <2>2. /\ Frame("roll", x) \in Frames /\ Frame("roll", x).op = "roll" /\ Frame("roll", x).at = x
        /\ Frame("roll", x).i = 0
    BY <2>1, FrameType
  <2>3. x \in Elems(queue[c])
    BY ONLY <1>4, <1>11, <2>1, ElemsTail
  <2>4. Fresh(Paths, x) \/ Doomed(x, home, list, broken, erased)
    BY <1>9, <2>1, <2>3, MemberExact
  <2>5. Rolled(st, x)
    <3>1. PICK rest \in Seq(Frames) : rest = SetTop(g)
      BY <1>1, <1>8, OnTop, UndoParts
    <3>2. st = <<Frame("roll", x)>> \o rest
      BY <1>6, <1>11, <3>1
    <3>3. Frame("roll", x) \in Elems(st)
      BY ONLY <2>2, <3>2, rest \in Seq(Frames), StackElems
    <3> QED BY <2>2, <3>3 DEF Rolled
  <2> QED BY <2>2, <2>4, <2>5 DEF RollAt, KillAt
<1>12. RollAt(g, st, queue, done, guards, list, erased)
  BY <1>4, <1>8, <1>9, <1>11 DEF RollAt
<1>13. \/ stack' = SetTop(g)
       \/ \E f \in Frames : /\ stack' = <<f>> \o SetTop(g) /\ f.op # "step"
                            /\ RollAt(f, stack', queue, done, guards, list, erased)
                            /\ KillAt(f, stack', queue, done, guards, list, erased)
  <2>1. CASE queue[c] = <<>>
    BY <1>5, <1>6, <2>1
  <2>2. CASE queue[c] # <<>>
    <3>1. stack' = <<Frame("roll", x)>> \o SetTop(g)
      BY <1>5, <1>6, <2>2
    <3> QED BY <1>5, <1>11, <2>2, <3>1
  <2> QED BY <2>1, <2>2
<1> QED BY <1>1, <1>2, <1>5, <1>8, <1>10, <1>12, <1>13, CallExact

LEMMA KillStationExact == ASSUME StationInv, UndoInv, ExactInv, KillStation PROVE ExactInv'
<1>1. /\ stack # <<>> /\ Top.op = "kill" /\ Top.at \in Stations /\ Top.i = 0
      /\ UNCHANGED <<tree, ret, phase, home, history>>
  BY DEF KillStation
<1>2. PICK c \in Stations : c = Top.at
  BY <1>1
<1>3. PICK g : g = [Top EXCEPT !.i = 1]
  OBVIOUS
<1>4. PICK st : st = stack'
  OBVIOUS
<1>5. st = IF queue[c] = <<>> THEN SetTop(g) ELSE <<Frame("roll", c)>> \o SetTop(g)
  BY <1>2, <1>3, <1>4 DEF KillStation
<1>6. /\ stack \in Seq(Frames) /\ Top \in Frames /\ ~Rolled(stack, c) /\ c \notin Parallels /\ c \in Steps
      /\ KillAt(Top, stack, queue, done, guards, list, erased)
  BY <1>1, <1>2, TopExact, StationAssumption DEF Steps
<1>7. g \in Frames /\ g.op = "kill" /\ g.at = c
  BY <1>1, <1>2, <1>3, <1>6 DEF Frames
<1>8. \/ Fresh(Paths, c)
      \/ queue[c] # <<>> /\ Doomed(c, home, list, broken, erased)
      \/ Emptied(c, queue, done, guards)
      \/ queue[c] = <<>> /\ Spared(c, home, phase, broken, erased)
  BY <1>1, <1>2, <1>6 DEF KillAt
<1>9. KillAt(g, st, queue, done, guards, list, erased) /\ RollAt(g, st, queue, done, guards, list, erased)
  BY <1>6, <1>7, <1>8 DEF KillAt, RollAt
<1>10. ASSUME queue[c] # <<>>
       PROVE  /\ Frame("roll", c) \in Frames /\ Frame("roll", c).op = "roll"
              /\ RollAt(Frame("roll", c), st, queue, done, guards, list, erased)
              /\ KillAt(Frame("roll", c), st, queue, done, guards, list, erased)
  <2>1. /\ Frame("roll", c) \in Frames /\ Frame("roll", c).op = "roll" /\ Frame("roll", c).at = c
        /\ Frame("roll", c).i = 0
    BY <1>6, FrameType
  <2>2. Fresh(Paths, c) \/ Doomed(c, home, list, broken, erased)
    BY <1>8, <1>10 DEF Emptied
  <2> QED BY <2>1, <2>2 DEF RollAt, KillAt
<1>11. \/ stack' = SetTop(g)
       \/ \E f \in Frames : /\ stack' = <<f>> \o SetTop(g) /\ f.op # "step"
                            /\ RollAt(f, stack', queue, done, guards, list, erased)
                            /\ KillAt(f, stack', queue, done, guards, list, erased)
  <2>1. CASE queue[c] = <<>>
    BY <1>4, <1>5, <2>1
  <2>2. CASE queue[c] # <<>>
    <3>1. stack' = <<Frame("roll", c)>> \o SetTop(g)
      BY <1>4, <1>5, <2>2
    <3> QED BY <1>4, <1>10, <2>2, <3>1
  <2> QED BY <2>1, <2>2
<1> QED BY <1>1, <1>2, <1>4, <1>7, <1>9, <1>11, CallExact

\* The stack with one call more, that does not step.
LEMMA PushedExact == ASSUME NEW st \in Seq(Frames), st # <<>>, NEW l, Listed(st, l),
                            NEW f \in Frames, f.op # "step", NEW new, new = <<f>> \o st
                     PROVE  /\ new \in Seq(Frames) /\ new # <<>> /\ Listed(new, l) /\ SameEnd(st, new)
                            /\ Elems(new) = {f} \cup Elems(st)
  BY PushMoves, StackElems

\* The step a station began with has been rolled back by now.
LEMMA HeadRolled == ASSUME NEW f, NEW st, NEW q, NEW d, NEW gs, NEW l, NEW er,
                           RollAt(f, st, q, d, gs, l, er), f.op = "roll", NEW c \in Stations, f.at = c,
                           f.i = 1, q[c] # <<>>, NEW x \in Stations, x = q[c][1], q[x] = <<>>, ~Rolled(st, x)
                    PROVE  Fresh(Paths, x) \/ Emptied(x, q, d, gs)
  BY DEF RollAt

LEMMA RollDropExact == ASSUME StationInv, UndoInv, ExactInv, RollDrop PROVE ExactInv'
<1>1. PICK c \in Stations : /\ Rolling(c) /\ queue[c] # <<>>
                            /\ queue' = [queue EXCEPT ![c] = Tail(@)]
                            /\ stack' = <<Frame("kill", queue[c][1])>> \o stack
                            /\ UNCHANGED <<done, guards, list, ret, phase, home, history>>
  BY DEF RollDrop
<1>2. stack # <<>> /\ c = Top.at /\ Top.op = "roll" /\ Top.i = 1
  BY <1>1 DEF Rolling
<1>3. PICK q, st, x : q = queue' /\ st = stack' /\ x = queue[c][1]
  OBVIOUS
<1>4. /\ home \in [Steps -> Stations \cup Parallels \cup {None}] /\ home \in [Steps -> Steps \cup {None}]
      /\ queue \in [Stations -> Seq(Steps)] /\ c \notin Parallels /\ c # None /\ Acyclic(home)
  BY UndoParts, StationAssumption DEF UndoOrder, TreeInv
<1>5. /\ queue[c] \in Seq(Steps) /\ Ordered(queue[c], done[c], Paths) /\ x \in Steps /\ home[x] = c
  BY <1>1, <1>3, StationHas
<1>6. q[c] = Tail(queue[c]) /\ \A s \in Stations : s # c => q[s] = queue[s]
  BY <1>1, <1>3, <1>4
<1>7. /\ Tail(queue[c]) \in Seq(Steps) /\ Elems(queue[c]) = {x} \cup Elems(Tail(queue[c]))
  BY ONLY <1>1, <1>3, <1>5, ElemsTail
<1>8. /\ stack \in Seq(Frames) /\ Top \in Elems(stack)
      /\ RollAt(Top, stack, queue, done, guards, list, erased)
  BY <1>2, TopExact
<1>9. Frame("kill", x) \in Frames /\ Frame("kill", x).op = "kill" /\ Frame("kill", x).at = x
  BY <1>5, FrameType
<1>10. Listed(stack, list) /\ LetGoInv(home, queue, done, list, erased) /\ ListInv(list)
  BY DEF ExactInv
<1>11. /\ st # <<>> /\ Listed(st, list) /\ SameEnd(stack, st)
       /\ Elems(st) = {Frame("kill", x)} \cup Elems(stack)
  <2>1. st = <<Frame("kill", x)>> \o stack
    BY <1>1, <1>3
  <2>2. "kill" # "step"
    OBVIOUS
  <2> QED BY ONLY <1>2, <1>8, <1>9, <1>10, <2>1, <2>2, PushedExact
<1>12. Shrinks(queue, done, guards, list, q, done, guards, list) /\ LetsGo(home, list, erased, erased)
  <2>1. queue[c] # <<>> /\ Elems(q[c]) \subseteq Elems(queue[c])
    BY <1>1, <1>6, <1>7
  <2> QED BY ONLY <1>6, <2>1 DEF Shrinks, LetsGo
<1>13. \A s \in Stations : queue[s] # <<>> /\ q[s] = <<>> => Rolled(stack, s)
  BY <1>2, <1>6, <1>8 DEF Rolled
<1>14. \A s \in Stations : q[s] # <<>> => q[s][1] = queue[s][1] \/ Fresh(Paths, q[s][1])
  <2>1. ASSUME q[c] # <<>> PROVE Fresh(Paths, q[c][1])
    <3>1. q[c] \in Seq(Steps) /\ q[c] # <<>>
      BY <1>6, <1>7, <2>1
    <3>2. q[c][1] \in Elems(q[c])
      BY ONLY <3>1, ElemsTail
    <3> QED BY <1>1, <1>5, <1>6, <3>2 DEF Ordered
  <2> QED BY <1>6, <2>1
<1>15. LetGoInv(home, q, done, list, erased)
  <2>1. \A s \in Stations \cup Parallels : Inside(s, q, done, list) \subseteq Inside(s, queue, done, list)
    BY <1>12 DEF Inside, Shrinks
  <2>2. \A y \in erased : home[y] # None => home[y] \in Stations \cup Parallels
    BY <1>4, UndoParts DEF StationTypeOK
  <2> QED BY ONLY <1>10, <2>1, <2>2 DEF LetGoInv
<1>16. Fresh(Paths, x) \/ Doomed(x, home, list, broken, erased)
  <2>1. Fresh(Paths, c) \/ Doomed(c, home, list, broken, erased)
    BY <1>2, <1>8 DEF RollAt
  <2> QED BY <1>5, <1>7, <2>1, MemberExact
<1>17. KillAt(Frame("kill", x), st, q, done, guards, list, erased)
  <2>1. ASSUME x \in Stations, ~Rolled(st, x)
        PROVE  \/ Fresh(Paths, x)
               \/ q[x] # <<>> /\ Doomed(x, home, list, broken, erased)
               \/ Emptied(x, q, done, guards)
    <3>1. x # c
      BY <1>4, <1>5, AboveClosed DEF Acyclic
    <3>2. q[x] = queue[x]
      BY <1>6, <2>1, <3>1
    <3>3. ~Rolled(stack, x)
      BY <1>11, <2>1 DEF Rolled
    <3>4. ASSUME queue[x] = <<>> PROVE Fresh(Paths, x) \/ Emptied(x, queue, done, guards)
      <4>1. PICK f : f = Top
        OBVIOUS
      <4>2. /\ f.op = "roll" /\ f.at = c /\ f.i = 1 /\ queue[c] # <<>> /\ x = queue[c][1]
            /\ RollAt(f, stack, queue, done, guards, list, erased)
        BY <1>1, <1>2, <1>3, <1>8, <4>1
      <4> QED BY ONLY <2>1, <3>3, <3>4, <4>2, c \in Stations, HeadRolled
    <3> QED BY <1>16, <3>2, <3>4 DEF Emptied
  <2>2. ASSUME x \in Parallels
        PROVE  Doomed(x, home, list, broken, erased) \/ \A y \in Elems(list[x]) : Fresh(Paths, y)
    BY <1>16, <2>2, MembersFresh
  <2> QED BY <1>9, <2>1, <2>2 DEF KillAt
<1>18. \A f \in Elems(st) : \/ f \in Elems(stack)
                            \/ /\ f.op # "step" /\ RollAt(f, st, q, done, guards, list, erased)
                               /\ KillAt(f, st, q, done, guards, list, erased)
  BY <1>9, <1>11, <1>17 DEF RollAt
<1>19. /\ queue' = q /\ stack' = st /\ done' = done /\ guards' = guards /\ list' = list /\ erased' = erased
       /\ UNCHANGED <<guards, called, home, owner, broken, phase, ret>>
  BY <1>1, <1>3
<1> QED BY <1>2, <1>10, <1>11, <1>12, <1>13, <1>14, <1>15, <1>18, <1>19, MoreExact

-----------------------------------------------------------------------------
\* A station takes out the latest of the steps that are done.
LEMMA DoneOut == ASSUME StationInv, UndoInv, ExactInv, NEW c \in Stations, queue[c] = <<>>, done[c] # <<>>,
                        NEW d, d = [done EXCEPT ![c] = Tail(@)], NEW x, x = done[c][1]
                 PROVE  /\ x \in Steps /\ home[x] = c /\ x \in Elems(done[c]) /\ x # c
                        /\ Shrinks(queue, done, guards, list, queue, d, guards, list)
                        /\ LetGoInv(home, queue, d, list, erased)
<1>1. /\ home \in [Steps -> Stations \cup Parallels \cup {None}] /\ home \in [Steps -> Steps \cup {None}]
      /\ done \in [Stations -> Seq(Steps)] /\ c # None /\ Acyclic(home) /\ StationTypeOK
  BY UndoParts, StationAssumption DEF UndoOrder, TreeInv
<1>2. done[c] \in Seq(Steps) /\ x \in Steps /\ home[x] = c
  BY StationHas
<1>3. Elems(done[c]) = {x} \cup Elems(Tail(done[c]))
  BY ONLY <1>2, done[c] # <<>>, x = done[c][1], ElemsTail
<1>4. x # c
  BY <1>1, <1>2, AboveClosed DEF Acyclic
<1>5. d[c] = Tail(done[c]) /\ \A s \in Stations : s # c => d[s] = done[s]
  BY <1>1
<1>6. Shrinks(queue, done, guards, list, queue, d, guards, list)
  <2>1. done[c] # <<>> /\ Elems(d[c]) \subseteq Elems(done[c])
    BY <1>3, <1>5
  <2> QED BY ONLY <1>5, <2>1 DEF Shrinks
<1>7. LetGoInv(home, queue, d, list, erased)
  <2>1. \A s \in Stations \cup Parallels : Inside(s, queue, d, list) \subseteq Inside(s, queue, done, list)
    BY <1>6 DEF Inside, Shrinks
  <2>2. \A y \in erased : home[y] # None => home[y] \in Stations \cup Parallels
    BY <1>1 DEF StationTypeOK
  <2>3. LetGoInv(home, queue, done, list, erased)
    BY DEF ExactInv
  <2> QED BY ONLY <2>1, <2>2, <2>3 DEF LetGoInv
<1> QED BY <1>2, <1>3, <1>4, <1>6, <1>7

LEMMA RollDoneExact == ASSUME StationInv, UndoInv, ExactInv, RollDone PROVE ExactInv'
<1>1. PICK c \in Stations :
         /\ Rolling(c) /\ queue[c] = <<>> /\ done[c] # <<>>
         /\ done' = [done EXCEPT ![c] = Tail(@)]
         /\ stack' = <<Frame("roll", done[c][1]), Frame("kill", done[c][1])>> \o stack
         /\ UNCHANGED <<queue, guards, list, ret, phase, home, history>>
  BY DEF RollDone
<1>2. stack # <<>> /\ c = Top.at /\ Top.op = "roll"
  BY <1>1 DEF Rolling
<1>3. PICK d, st, x : d = done' /\ st = stack' /\ x = done[c][1]
  OBVIOUS
<1>4. /\ x \in Steps /\ home[x] = c /\ x \in Elems(done[c])
      /\ Shrinks(queue, done, guards, list, queue, d, guards, list)
      /\ LetGoInv(home, queue, d, list, erased)
  BY <1>1, <1>3, DoneOut
<1>5. /\ stack \in Seq(Frames) /\ RollAt(Top, stack, queue, done, guards, list, erased)
  BY <1>2, TopExact
<1>6. /\ Frame("kill", x) \in Frames /\ Frame("kill", x).op = "kill" /\ Frame("kill", x).at = x
      /\ Frame("roll", x) \in Frames /\ Frame("roll", x).op = "roll" /\ Frame("roll", x).at = x
      /\ Frame("roll", x).i = 0
  BY <1>4, FrameType
<1>7. Listed(stack, list) /\ ListInv(list)
  BY DEF ExactInv
<1>8. PICK under \in Seq(Frames) : /\ under = <<Frame("kill", x)>> \o stack
                                   /\ under # <<>> /\ Listed(under, list) /\ SameEnd(stack, under)
                                   /\ Elems(under) = {Frame("kill", x)} \cup Elems(stack)
  <2>1. "kill" # "step"
    OBVIOUS
  <2> QED BY ONLY <1>2, <1>5, <1>6, <1>7, <2>1, PushedExact
<1>9. /\ st # <<>> /\ Listed(st, list) /\ SameEnd(stack, st)
      /\ Elems(st) = {Frame("roll", x), Frame("kill", x)} \cup Elems(stack)
  <2>1. st = <<Frame("roll", x)>> \o under
    <3>1. st = <<Frame("roll", x), Frame("kill", x)>> \o stack
      BY <1>1, <1>3
    <3> QED BY ONLY <1>5, <1>6, <1>8, <3>1
  <2>2. "roll" # "step"
    OBVIOUS
  <2>3. st # <<>> /\ Listed(st, list) /\ SameEnd(under, st) /\ Elems(st) = {Frame("roll", x)} \cup Elems(under)
    BY ONLY <1>6, <1>8, <2>1, <2>2, under \in Seq(Frames), PushedExact
  <2> QED BY ONLY <1>8, <2>3 DEF SameEnd
<1>10. Fresh(Paths, x) \/ Doomed(x, home, list, broken, erased)
  <2>1. Fresh(Paths, c) \/ Doomed(c, home, list, broken, erased)
    BY <1>2, <1>5 DEF RollAt
  <2> QED BY <1>4, <2>1, MemberExact
<1>11. Rolled(st, x)
  BY <1>6, <1>9 DEF Rolled
<1>12. KillAt(Frame("kill", x), st, queue, d, guards, list, erased)
  BY <1>6, <1>10, <1>11, MembersFresh DEF KillAt
<1>13. RollAt(Frame("roll", x), st, queue, d, guards, list, erased)
  BY <1>6, <1>10 DEF RollAt
<1>14. \A f \in Elems(st) : \/ f \in Elems(stack)
                            \/ /\ f.op # "step" /\ RollAt(f, st, queue, d, guards, list, erased)
                               /\ KillAt(f, st, queue, d, guards, list, erased)
  <2>1. RollAt(Frame("kill", x), st, queue, d, guards, list, erased)
    BY <1>6 DEF RollAt
  <2>2. KillAt(Frame("roll", x), st, queue, d, guards, list, erased)
    BY <1>6 DEF KillAt
  <2> QED BY <1>6, <1>9, <1>12, <1>13, <2>1, <2>2
<1>15. LetsGo(home, list, erased, erased)
  BY DEF LetsGo
<1>16. /\ queue' = queue /\ stack' = st /\ done' = d /\ guards' = guards /\ list' = list /\ erased' = erased
       /\ UNCHANGED <<guards, called, home, owner, broken, phase, ret>>
  BY <1>1, <1>3
<1> QED BY <1>2, <1>4, <1>7, <1>9, <1>14, <1>15, <1>16, MoreExact

LEMMA KillQueueExact == ASSUME StationInv, UndoInv, ExactInv, KillQueue PROVE ExactInv'
<1>1. PICK c \in Stations : c = Top.at
  BY DEF KillQueue
<1>2. /\ stack # <<>> /\ Top.op = "kill" /\ Top.i = 2
      /\ UNCHANGED <<queue, guards, list, ret, phase, home, history>>
  BY DEF KillQueue
<1>3. /\ stack \in Seq(Frames) /\ ~Rolled(stack, c) /\ Ending(Top, queue) /\ Bare(Top, guards)
      /\ KillAt(Top, stack, queue, done, guards, list, erased)
  BY <1>1, <1>2, TopExact
<1>4. queue[c] = <<>> /\ guards[c] = <<>>
  BY <1>1, <1>2, <1>3 DEF Ending, Bare
<1>5. CASE done[c] = <<>>
  <2>1. Emptied(c, queue, done, guards)
    BY <1>4, <1>5 DEF Emptied
  <2>2. stack' = Pop /\ UNCHANGED done
    BY <1>1, <1>5 DEF KillQueue
  <2> QED BY <1>1, <1>2, <2>1, <2>2, ReturnExact
<1>6. CASE done[c] # <<>>
  <2>1. PICK d, st, x : d = done' /\ st = stack' /\ x = done[c][1]
    OBVIOUS
  <2>2. st = <<Frame("kill", x)>> \o stack /\ d = [done EXCEPT ![c] = Tail(@)]
    BY <1>1, <1>6, <2>1 DEF KillQueue
  <2>3. /\ x \in Steps /\ home[x] = c /\ x \in Elems(done[c]) /\ x # c
        /\ Shrinks(queue, done, guards, list, queue, d, guards, list)
        /\ LetGoInv(home, queue, d, list, erased)
    BY <1>4, <1>6, <2>1, <2>2, DoneOut, ZenonT(30)
  <2>4. Frame("kill", x) \in Frames /\ Frame("kill", x).op = "kill" /\ Frame("kill", x).at = x
    BY <2>3, FrameType
  <2>5. Listed(stack, list) /\ ListInv(list) /\ DoneInv(queue, done, list, broken, Paths)
    BY DEF ExactInv
  <2>6. /\ st # <<>> /\ Listed(st, list) /\ SameEnd(stack, st)
        /\ Elems(st) = {Frame("kill", x)} \cup Elems(stack)
    <3>1. "kill" # "step"
      OBVIOUS
    <3> QED BY ONLY <1>2, <1>3, <2>2, <2>4, <2>5, <3>1, PushedExact
  <2>7. /\ x \notin broken /\ (x \in Stations => queue[x] = <<>>)
        /\ x \in Parallels => \A y \in Elems(list[x]) : Fresh(Paths, y)
    BY <2>3, <2>5 DEF DoneInv
  <2>8. ASSUME x \in Stations
        PROVE  Fresh(Paths, x) \/ Spared(x, home, phase, broken, erased)
    <3>1. home \in [Steps -> Steps \cup {None}] /\ c # None
      BY UndoParts, StationAssumption
    <3>2. Fresh(Paths, c) \/ Spared(c, home, phase, broken, erased)
      BY <1>1, <1>2, <1>3, <1>4, <1>6 DEF KillAt, Emptied
    <3>3. CASE Fresh(Paths, c)
      BY <2>3, <3>1, <3>3, FreshBelow
    <3>4. CASE Spared(c, home, phase, broken, erased)
      <4>1. Spared(x, home, phase, broken, erased)
        BY ONLY <2>3, <2>7, <3>1, <3>4, SparedBelow
      <4> QED BY <4>1
    <3> QED BY <3>2, <3>3, <3>4
  <2>9. KillAt(Frame("kill", x), st, queue, d, guards, list, erased)
    BY <2>4, <2>7, <2>8 DEF KillAt
  <2>10. \A f \in Elems(st) : \/ f \in Elems(stack)
                              \/ /\ f.op # "step" /\ RollAt(f, st, queue, d, guards, list, erased)
                                 /\ KillAt(f, st, queue, d, guards, list, erased)
    BY <2>4, <2>6, <2>9 DEF RollAt
  <2>11. LetsGo(home, list, erased, erased)
    BY DEF LetsGo
  <2>12. /\ queue' = queue /\ stack' = st /\ done' = d /\ guards' = guards /\ list' = list /\ erased' = erased
         /\ UNCHANGED <<guards, called, home, owner, broken, phase, ret>>
    BY <1>2, <2>1
  <2> QED BY <1>2, <2>3, <2>5, <2>6, <2>10, <2>11, <2>12, MoreExact
<1> QED BY <1>5, <1>6

-----------------------------------------------------------------------------
\* A station has one guard fewer, or none.
LEMMA FewerGuards == ASSUME StationInv, UndoInv, ExactInv, NEW c \in Stations, guards[c] # <<>>,
                            NEW gs, \A s \in Stations : s # c => gs[s] = guards[s]
                     PROVE  /\ Shrinks(queue, done, guards, list, queue, done, gs, list)
                            /\ LetsGo(home, list, erased, erased)
                            /\ \A s \in Stations : Emptied(s, queue, done, guards) => Emptied(s, queue, done, gs)
  BY DEF Shrinks, LetsGo, Emptied

LEMMA RollGuardExact == ASSUME StationInv, UndoInv, ExactInv, RollGuard PROVE ExactInv'
<1>1. PICK c \in Stations : /\ Rolling(c) /\ guards[c] # <<>>
                            /\ guards' = [guards EXCEPT ![c] = Tail(@)]
                            /\ called' = Append(called, guards[c][1])
                            /\ UNCHANGED <<queue, done, list, stack, ret, phase, home, owner, broken, erased>>
  BY DEF RollGuard
<1>2. stack # <<>> /\ c = Top.at /\ Top.op = "roll"
  BY <1>1 DEF Rolling
<1>3. PICK gs, g, cd : gs = guards' /\ g = guards[c][1] /\ cd = called'
  OBVIOUS
<1>4. /\ guards \in [Stations -> Seq(1 .. MaxGuards)] /\ called \in Seq(1 .. MaxGuards) /\ StationTypeOK
      /\ GuardInv(guards, owner, called)
  BY UndoParts DEF StationTypeOK
<1>5. gs[c] = Tail(guards[c]) /\ \A s \in Stations : s # c => gs[s] = guards[s]
  BY <1>1, <1>3, <1>4
<1>6. /\ Shrinks(queue, done, guards, list, queue, done, gs, list) /\ LetsGo(home, list, erased, erased)
      /\ \A s \in Stations : Emptied(s, queue, done, guards) => Emptied(s, queue, done, gs)
  <2>1. guards[c] # <<>>
    BY <1>1
  <2> QED BY <1>5, <2>1, FewerGuards
<1>7. g \in 1 .. Len(owner) /\ owner[g] = c /\ g \in 1 .. MaxGuards
  <2>1. guards[c] \in Seq(1 .. MaxGuards) /\ guards[c] # <<>>
    BY <1>1, <1>4
  <2>2. guards[c][1] \in 1 .. MaxGuards
    BY ONLY <2>1, ElemsTail
  <2>3. 1 \in 1 .. Len(guards[c])
    BY ONLY <2>1, EmptySeq
  <2> QED BY <1>3, <1>4, <2>2, <2>3 DEF GuardInv
<1>8. /\ Elems(cd) = Elems(called) \cup {g}
      /\ Elems(guards[c]) = {g} \cup Elems(gs[c])
  <2>1. guards[c] \in Seq(1 .. MaxGuards) /\ guards[c] # <<>>
    BY <1>1, <1>4
  <2>2. cd = Append(called, g)
    BY <1>1, <1>3
  <2>3. Elems(cd) = Elems(called) \cup {g}
    <3>1. PICK S : S = 1 .. MaxGuards
      OBVIOUS
    <3>2. called \in Seq(S) /\ g \in S
      BY <1>4, <1>7, <3>1
    <3> QED BY ONLY <2>2, <3>2, ElemsAppend
  <2>4. Elems(guards[c]) = {g} \cup Elems(gs[c])
    BY ONLY <1>3, <1>5, <2>1, ElemsTail
  <2> QED BY <2>3, <2>4
<1>9. Doomed(c, home, list, broken, erased)
  <2>1. RollAt(Top, stack, queue, done, guards, list, erased)
    BY <1>2, TopExact
  <2>2. Fresh(Paths, c) \/ Doomed(c, home, list, broken, erased)
    BY <1>2, <2>1 DEF RollAt
  <2>3. c \in Paths[g] /\ g \in DOMAIN Paths
    <3>1. Paths[g] = Above(home, c) /\ g \in DOMAIN Paths
      BY <1>4, <1>7, PathFacts
    <3> QED BY <3>1, UndoParts, AboveClosed DEF Steps
  <2> QED BY <2>2, <2>3 DEF Fresh
<1>10. GuardsExact(home, gs, list, phase, owner, cd, broken, erased)
  <2>1. GuardsExact(home, guards, list, phase, owner, called, broken, erased)
    BY DEF ExactInv
  <2>2. ASSUME NEW h \in 1 .. Len(owner)
        PROVE  \/ h \in Elems(cd) /\ Doomed(owner[h], home, list, broken, erased)
               \/ h \notin Elems(cd) /\ (h \in Elems(gs[owner[h]]) \/ Spared(owner[h], home, phase, broken, erased))
    <3>1. CASE h = g
      BY ONLY <1>7, <1>8, <1>9, <3>1
    <3>2. CASE h # g
      <4>1. owner[h] \in Stations
        BY <1>4, PathFacts
      <4>2. h \in Elems(guards[owner[h]]) => h \in Elems(gs[owner[h]])
        BY ONLY <1>5, <1>8, <3>2, <4>1
      <4> QED BY ONLY <1>8, <2>1, <3>2, <4>2, h \in 1 .. Len(owner) DEF GuardsExact
    <3> QED BY <3>1, <3>2
  <2> QED BY ONLY <2>2 DEF GuardsExact
<1>11. /\ Listed(stack, list) /\ LetGoInv(home, queue, done, list, erased) /\ ListInv(list)
  BY DEF ExactInv
<1>12. SameEnd(stack, stack)
  BY DEF SameEnd
<1>13. /\ queue' = queue /\ stack' = stack /\ done' = done /\ guards' = gs /\ list' = list /\ called' = cd
       /\ erased' = erased /\ UNCHANGED <<home, owner, broken, phase, ret>>
  BY <1>1, <1>3
<1>14. \A s \in Stations : queue[s] # <<>> => queue[s][1] = queue[s][1] \/ Fresh(Paths, queue[s][1])
  OBVIOUS
<1> QED BY <1>2, <1>6, <1>10, <1>11, <1>12, <1>13, <1>14, UndoExact

LEMMA KillGuardsExact == ASSUME StationInv, UndoInv, ExactInv, KillGuards PROVE ExactInv'
<1>1. PICK c \in Stations : c = Top.at
  BY DEF KillGuards
<1>2. /\ stack # <<>> /\ Top.op = "kill" /\ Top.i = 1
      /\ guards' = [guards EXCEPT ![c] = <<>>]
      /\ UNCHANGED <<queue, done, list, ret, phase, home, history>>
  BY <1>1 DEF KillGuards
<1>3. PICK gs, f, st : gs = guards' /\ f = [Top EXCEPT !.i = 2] /\ st = stack'
  OBVIOUS
<1>4. st = SetTop(f)
  BY <1>3 DEF KillGuards
<1>5. /\ stack \in Seq(Frames) /\ Top \in Frames /\ ~Rolled(stack, c) /\ Ending(Top, queue)
      /\ KillAt(Top, stack, queue, done, guards, list, erased) /\ c \notin Parallels
  BY <1>1, <1>2, TopExact, StationAssumption
<1>6. f \in Frames /\ f.op = "kill" /\ f.at = c
  BY <1>1, <1>2, <1>3, <1>5 DEF Frames
<1>7. guards \in [Stations -> Seq(1 .. MaxGuards)] /\ StationTypeOK
  BY UndoParts DEF StationTypeOK
<1>8. gs[c] = <<>> /\ \A s \in Stations : s # c => gs[s] = guards[s]
  BY <1>2, <1>3, <1>7
<1>9. queue[c] = <<>>
  BY <1>1, <1>2, <1>5 DEF Ending
<1>10. Fresh(Paths, c) \/ Emptied(c, queue, done, guards) \/ Spared(c, home, phase, broken, erased)
  BY <1>1, <1>2, <1>5, <1>9 DEF KillAt
<1>11. /\ Shrinks(queue, done, guards, list, queue, done, gs, list) /\ LetsGo(home, list, erased, erased)
       /\ \A s \in Stations : Emptied(s, queue, done, guards) => Emptied(s, queue, done, gs)
  BY <1>8 DEF Shrinks, LetsGo, Emptied
<1>12. /\ st # <<>> /\ Listed(st, list) /\ SameEnd(stack, st)
       /\ Elems(st) = {f} \cup Elems(Tail(stack)) /\ Elems(stack) = {Top} \cup Elems(Tail(stack))
  <2>1. Listed(stack, list)
    BY DEF ExactInv
  <2>2. /\ f.op = stack[1].op /\ f.at = stack[1].at /\ stack # <<>> /\ st = <<f>> \o Tail(stack)
    BY <1>1, <1>2, <1>4, <1>6
  <2>3. st # <<>> /\ Listed(st, list) /\ SameEnd(stack, st)
    BY ONLY <1>5, <1>6, <2>1, <2>2, TurnMoves
  <2>4. Elems(st) = {f} \cup Elems(Tail(stack)) /\ Elems(stack) = {stack[1]} \cup Elems(Tail(stack))
    BY ONLY <1>5, <1>6, <2>2, StackElems
  <2> QED BY <2>3, <2>4
<1>13. \A s : Rolled(st, s) <=> Rolled(stack, s)
  BY <1>2, <1>6, <1>12 DEF Rolled
<1>14. Killed(stack, Root) => Killed(st, Root)
  BY <1>1, <1>2, <1>6, <1>12 DEF Killed
<1>15. KillAt(f, st, queue, done, gs, list, erased)
  BY <1>5, <1>6, <1>9, <1>10, <1>11 DEF KillAt
<1>16. \A h \in Elems(st) : \/ h \in Elems(stack)
                            \/ /\ h.op # "step" /\ RollAt(h, st, queue, done, gs, list, erased)
                               /\ KillAt(h, st, queue, done, gs, list, erased)
  BY <1>6, <1>12, <1>15 DEF RollAt
<1>17. GuardsExact(home, gs, list, phase, owner, called, broken, erased)
  <2>1. GuardsExact(home, guards, list, phase, owner, called, broken, erased)
    BY DEF ExactInv
  <2>2. ASSUME NEW h \in 1 .. Len(owner), h \in Elems(guards[owner[h]])
        PROVE  h \in Elems(gs[owner[h]]) \/ Spared(owner[h], home, phase, broken, erased)
    <3>1. owner[h] \in Stations
      BY <1>7, PathFacts
    <3>2. CASE owner[h] # c
      BY <1>8, <2>2, <3>1, <3>2
    <3>3. CASE owner[h] = c
      <4>1. c \in Paths[h] /\ h \in DOMAIN Paths
        <5>1. Paths[h] = Above(home, c) /\ h \in DOMAIN Paths
          BY <1>7, <3>3, PathFacts
        <5> QED BY <5>1, UndoParts, AboveClosed DEF Steps
      <4>2. ~Fresh(Paths, c)
        BY <4>1 DEF Fresh
      <4>3. ~Emptied(c, queue, done, guards)
        BY <2>2, <3>3, NoElems DEF Emptied
      <4> QED BY <1>10, <3>3, <4>2, <4>3
    <3> QED BY <3>2, <3>3
  <2> QED BY ONLY <2>1, <2>2 DEF GuardsExact
<1>18. LetGoInv(home, queue, done, list, erased) /\ ListInv(list)
  BY DEF ExactInv
<1>19. /\ queue' = queue /\ stack' = st /\ done' = done /\ guards' = gs /\ list' = list /\ called' = called
       /\ erased' = erased /\ UNCHANGED <<home, owner, broken, phase, ret>>
  BY <1>2, <1>3
<1> QED BY <1>2, <1>11, <1>12, <1>13, <1>14, <1>16, <1>17, <1>18, <1>19, UndoExact

-----------------------------------------------------------------------------
\* The parallel executor on top lets a step go; none below is the same one.
LEMMA ListedSpends == ASSUME NEW st \in Seq(Frames), NEW hm, StackInv(st, hm), st[1].op # "roll",
                             NEW l, NEW l2, Listed(st, l),
                             \A p \in Parallels : p # st[1].at => l2[p] = l[p]
                      PROVE  Listed(st, l2)
<1>1. ASSUME NEW k \in 1 .. Len(st) - 1, st[k].op = "step", st[k + 1].at \in Parallels
      PROVE  l2[st[k + 1].at][st[k + 1].i] = st[k].at
  <2>1. k + 1 \in 2 .. Len(st)
    BY ONLY EmptySeq, st \in Seq(Frames), k \in 1 .. Len(st) - 1
  <2>2. st[k + 1].at # st[1].at
    BY ONLY <2>1, st \in Seq(Frames), StackInv(st, hm), st[1].op # "roll", Others
  <2> QED BY <1>1, <2>2 DEF Listed
<1> QED BY ONLY <1>1 DEF Listed

\* What a parallel executor lets go without its being broken, and what it has, did
\* not break.
LEMMA ListedWhole == ASSUME StationInv, UndoInv, ExactInv, ret = None, NEW p \in Parallels, NEW x \in Steps,
                            home[x] = p, x \in Elems(list[p])
                     PROVE  x \notin broken /\ x \notin erased
<1>1. p # None /\ p \notin Stations /\ home[Root] = None /\ None # "Failed"
  BY UndoParts, StationAssumption DEF CallsInv, StackInv, Nested
<1>2. x \in Inside(p, queue, done, list)
  BY DEF Inside
<1>3. x \notin erased
  BY <1>1, <1>2, NotLetGo
<1>4. BrokenInv(stack, ret, home, queue, done, list, broken)
  BY DEF ExactInv
<1>5. x \notin broken
  BY <1>1, <1>2, <1>4 DEF BrokenInv
<1> QED BY <1>3, <1>5

LEMMA KillParallelExact == ASSUME StationInv, UndoInv, ExactInv, KillParallel PROVE ExactInv'
<1>1. PICK p \in Parallels : p = Top.at
  BY DEF KillParallel
<1>2. /\ stack # <<>> /\ Top.op = "kill"
      /\ UNCHANGED <<queue, done, guards, ret, phase, home, owner, called, broken>>
  BY DEF KillParallel
<1>3. /\ stack \in Seq(Frames) /\ KillAt(Top, stack, queue, done, guards, list, erased)
      /\ p \notin Stations /\ p # None /\ p # Root
  BY <1>2, TopExact, StationAssumption
<1>4. CASE list[p] = <<>>
  <2>1. stack' = Pop /\ UNCHANGED <<list, erased>>
    BY <1>1, <1>4 DEF KillParallel
  <2> QED BY <1>1, <1>2, <1>3, <2>1, ReturnExact
<1>5. CASE list[p] # <<>>
  <2>1. PICK st, l, er, x : st = stack' /\ l = list' /\ er = erased' /\ x = list[p][1]
    OBVIOUS
  <2>2. /\ st = <<Frame("kill", x)>> \o stack
        /\ l = [list EXCEPT ![p] = Tail(@)]
        /\ er = erased \cup {y \in Stations : y = x /\ queue[y] = <<>>}
    BY <1>1, <1>5, <2>1 DEF KillParallel
  <2>3. /\ home \in [Steps -> Steps \cup {None}] /\ Acyclic(home) /\ StationTypeOK
        /\ home \in [Steps -> Stations \cup Parallels \cup {None}]
        /\ list \in [Parallels -> Seq(Steps)] /\ Housed(list, home) /\ StackInv(stack, home)
    BY UndoParts DEF UndoOrder, TreeInv, CallsInv
  <2>4. x \in Steps /\ home[x] = p /\ list[p] \in Seq(Steps)
    BY ONLY <1>5, <2>1, <2>3, p \in Parallels, InHoused
  <2>5. /\ Listed(stack, list) /\ ListInv(list) /\ LetGoInv(home, queue, done, list, erased)
    BY DEF ExactInv
  <2>6. l[p] = Tail(list[p]) /\ \A b \in Parallels : b # p => l[b] = list[b]
    BY <2>2, <2>3
  <2>7. /\ Elems(list[p]) = {x} \cup Elems(l[p]) /\ x \notin Elems(l[p])
        /\ Distinct(l[p])
    <3>1. Distinct(list[p])
      BY <2>5 DEF ListInv
    <3> QED BY ONLY <1>5, <2>1, <2>4, <2>6, <3>1, ElemsTail, TailDistinct
  <2>8. x \notin broken /\ x \notin erased
    <3>1. ret = None
      BY <1>2, NoAnswer
    <3> QED BY <2>4, <2>7, <3>1, ListedWhole
  <2>9. /\ Shrinks(queue, done, guards, list, queue, done, guards, l)
        /\ \A b \in Parallels : Elems(l[b]) \subseteq Elems(list[b])
    BY <2>6, <2>7 DEF Shrinks
  <2>10. LetsGo(home, list, erased, er)
    BY <2>2, <2>4, <2>7 DEF LetsGo, Standing
  <2>11. Frame("kill", x) \in Frames /\ Frame("kill", x).op = "kill" /\ Frame("kill", x).at = x
    BY <2>4, FrameType
  <2>12. /\ st # <<>> /\ Listed(st, l) /\ SameEnd(stack, st)
         /\ Elems(st) = {Frame("kill", x)} \cup Elems(stack)
    <3>1. "kill" # "step" /\ "kill" # "roll" /\ \A b \in Parallels : b # stack[1].at => l[b] = list[b]
      BY <1>1, <2>6
    <3>2. Listed(stack, l) /\ stack[1].op = "kill"
      BY <1>2, <1>3, <2>3, <2>5, <3>1, ListedSpends
    <3> QED BY ONLY <1>2, <1>3, <2>2, <2>11, <3>1, <3>2, PushedExact
  <2>13. ListInv(l)
    BY <2>5, <2>6, <2>7 DEF ListInv
  <2>14. LetGoInv(home, queue, done, l, er)
    <3>1. ASSUME NEW y \in er PROVE home[y] # None /\ y \notin Inside(home[y], queue, done, l)
      <4>1. CASE y \in erased
        <5>1. home[y] # None /\ y \notin Inside(home[y], queue, done, list)
          BY <2>5, <4>1 DEF LetGoInv
        <5>2. home[y] \in Stations \cup Parallels
          BY <2>3, <4>1, <5>1 DEF StationTypeOK
        <5> QED BY ONLY <2>9, <5>1, <5>2 DEF Inside
      <4>2. CASE y \notin erased
        <5>1. y = x
          BY <2>2, <4>2
        <5> QED BY <1>3, <2>4, <2>7, <5>1 DEF Inside
      <4> QED BY <4>1, <4>2
    <3> QED BY ONLY <3>1 DEF LetGoInv
  <2>15. \/ x \in er
         \/ Doomed(x, home, l, broken, er)
         \/ Fresh(Paths, x)
    <3>1. Doomed(p, home, list, broken, erased) \/ \A y \in Elems(list[p]) : Fresh(Paths, y)
      BY <1>1, <1>2, <1>3 DEF KillAt
    <3>2. ASSUME x \notin er, Doomed(p, home, list, broken, erased) PROVE Doomed(x, home, l, broken, er)
      <4>1. Doomed(p, home, l, broken, er)
        BY ONLY <2>9, <2>10, <3>2, DoomedStays
      <4>2. ~Standing(home, l, x)
        BY <2>4, <2>7 DEF Standing
      <4> QED BY ONLY <1>3, <2>3, <2>4, <3>2, <4>1, <4>2, DoomedBelow
    <3> QED BY <2>7, <3>1, <3>2
  <2>16. KillAt(Frame("kill", x), st, queue, done, guards, l, er)
    <3>1. ASSUME x \in Stations
          PROVE  \/ Fresh(Paths, x)
                 \/ queue[x] # <<>> /\ Doomed(x, home, l, broken, er)
                 \/ queue[x] = <<>> /\ Spared(x, home, phase, broken, er)
      <4>1. CASE queue[x] = <<>>
        <5>1. x \in er
          BY <2>2, <3>1, <4>1
        <5>2. Spared(x, home, phase, broken, er)
          BY ONLY <2>3, <2>4, <2>8, <5>1, SparedSelf
        <5> QED BY <4>1, <5>2
      <4>2. CASE queue[x] # <<>>
        <5>1. x \notin er
          BY <2>2, <2>8, <4>2
        <5> QED BY <2>15, <4>2, <5>1
      <4> QED BY <4>1, <4>2
    <3>2. ASSUME x \in Parallels
          PROVE  Doomed(x, home, l, broken, er) \/ \A y \in Elems(l[x]) : Fresh(Paths, y)
      <4>1. x \notin er
        BY <2>2, <2>8, <3>2, StationAssumption
      <4>2. CASE Fresh(Paths, x)
        BY <2>9, <3>2, <4>2, MembersFresh
      <4> QED BY <2>15, <4>1, <4>2
    <3> QED BY <2>11, <3>1, <3>2 DEF KillAt
  <2>17. \A f \in Elems(st) : \/ f \in Elems(stack)
                              \/ /\ f.op # "step" /\ RollAt(f, st, queue, done, guards, l, er)
                                 /\ KillAt(f, st, queue, done, guards, l, er)
    BY <2>11, <2>12, <2>16 DEF RollAt
  <2>18. /\ queue' = queue /\ stack' = st /\ done' = done /\ guards' = guards /\ list' = l /\ erased' = er
         /\ UNCHANGED <<guards, called, home, owner, broken, phase, ret>>
    BY <1>2, <2>1
  <2> QED BY <1>2, <2>9, <2>10, <2>12, <2>13, <2>14, <2>17, <2>18, MoreExact
<1> QED BY <1>4, <1>5

-----------------------------------------------------------------------------
\* While something is stepped nothing is undone, and what is stepped is whole.
LEMMA StepLive == ASSUME StationInv, UndoInv, ExactInv, stack # <<>>, Top.op = "step"
                  PROVE  /\ phase = "live" /\ Root \notin broken
                         /\ stack \in Seq(Frames) /\ Top \in Frames /\ Top \in Elems(stack)
                         /\ \A f \in Elems(stack) : f.op = "step" /\ f.at \notin broken
                         /\ stack[Len(stack)].op = "step" /\ stack[Len(stack)].at = Root
<1>1. /\ stack \in Seq(Frames) /\ StackInv(stack, home) /\ StationTypeOK
  BY UndoParts DEF CallsInv
<1>2. Top \in Frames /\ Top \in Elems(stack) /\ Len(stack) \in Nat /\ Len(stack) > 0
  BY <1>1, OnTop, ElemsTail
<1>3. \A f \in Elems(stack) : f.op = "step"
  BY <1>1, StepsOnly
<1>4. stack[Len(stack)] \in Elems(stack) /\ stack[Len(stack)].at = Root
  BY <1>1, <1>2 DEF Elems, StackInv, Nested
<1>5. PhaseInv(stack, phase, queue, done, guards, broken) /\ BrokenInv(stack, ret, home, queue, done, list, broken)
  BY DEF ExactInv
<1>6. \A f \in Elems(stack) : f.at \notin broken
  BY <1>3, <1>5 DEF BrokenInv
<1>7. stack[Len(stack)].op = "step"
  BY <1>3, <1>4
<1>8. phase = "live" /\ Root \notin broken
  BY <1>5, <1>7 DEF PhaseInv
<1> QED BY <1>1, <1>2, <1>3, <1>4, <1>6, <1>7, <1>8

LEMMA StepsCallNothing == ASSUME NEW st, \A f \in Elems(st) : f.op = "step",
                                 NEW q, NEW d, NEW gs, NEW l, NEW er
                          PROVE  CallsExact(st, q, d, gs, l, er)
  BY DEF CallsExact, RollAt, KillAt

\* What an action of Step has to show that lets nothing go.
LEMMA StepKept ==
  ASSUME StationInv, UndoInv, ExactInv, phase = "live", ret # "Failed",
         UNCHANGED <<tree, history, home, phase>>, ret' = None,
         stack' # <<>>, stack'[Len(stack')].op = "step", Listed(stack', list),
         \A f \in Elems(stack') : f.op = "step" /\ f.at \notin broken
  PROVE  ExactInv'
<1>1. PICK st : st = stack'
  OBVIOUS
<1>2. Paths' = Paths
  BY PathsKept
<1>3. CallsExact(st, queue, done, guards, list, erased)
  BY <1>1, StepsCallNothing
<1>4. AnswerKept(st, None, queue, list, broken)
  BY DEF AnswerKept
<1>5. BrokenInv(st, None, home, queue, done, list, broken)
  <2>1. BrokenInv(stack, ret, home, queue, done, list, broken)
    BY DEF ExactInv
  <2>2. \A f \in Elems(st) : f.op = "step" => f.at \notin broken
    BY <1>1
  <2> QED BY ONLY <2>1, <2>2, ret # "Failed" DEF BrokenInv
<1>6. PhaseInv(st, "live", queue, done, guards, broken)
  <2>1. PhaseInv(stack, phase, queue, done, guards, broken)
    BY DEF ExactInv
  <2> QED BY <1>1, <2>1 DEF PhaseInv
<1>7. /\ GuardsExact(home, guards, list, phase, owner, called, broken, erased)
      /\ LetGoInv(home, queue, done, list, erased) /\ DoneInv(queue, done, list, broken, Paths) /\ ListInv(list)
  BY DEF ExactInv
<1>8. CallsExact(stack, queue, done, guards, list, erased)'
  <2>1. /\ stack' = st /\ queue' = queue /\ done' = done /\ guards' = guards /\ list' = list /\ erased' = erased
        /\ home' = home /\ broken' = broken /\ phase' = phase
    BY <1>1
  <2> QED BY <1>2, <1>3, <2>1 DEF CallsExact, RollAt, KillAt
<1> QED BY <1>1, <1>2, <1>4, <1>5, <1>6, <1>7, <1>8 DEF ExactInv

\* A container steps a step of its own.
LEMMA StepCallExact ==
  ASSUME StationInv, UndoInv, ExactInv, stack # <<>>, Top.op = "step", ret = None,
         NEW g \in Frames, g.op = "step", g.at = Top.at,
         NEW x \in Steps, x \notin broken, g.at \in Parallels => list[g.at][g.i] = x,
         stack' = <<Frame("step", x)>> \o SetTop(g),
         UNCHANGED <<tree, ret, phase, home, history>>
  PROVE  ExactInv'
<1>1. /\ phase = "live" /\ stack \in Seq(Frames) /\ Top \in Elems(stack)
      /\ \A f \in Elems(stack) : f.op = "step" /\ f.at \notin broken
      /\ stack[Len(stack)].op = "step"
  BY StepLive
<1>2. Listed(stack, list)
  BY DEF ExactInv
<1>3. PICK turned \in Seq(Frames) : turned = SetTop(g) /\ turned # <<>> /\ turned[1] = g
                                    /\ Listed(turned, list) /\ SameEnd(stack, turned)
                                    /\ Elems(turned) = {g} \cup Elems(Tail(stack))
                                    /\ Elems(stack) = {stack[1]} \cup Elems(Tail(stack))
  <2>1. g.op = stack[1].op /\ g.at = stack[1].at
    OBVIOUS
  <2>2. PICK turned : turned = <<g>> \o Tail(stack)
    OBVIOUS
  <2>3. /\ turned \in Seq(Frames) /\ turned # <<>> /\ turned[1] = g
        /\ Listed(turned, list) /\ SameEnd(stack, turned)
    BY ONLY <1>1, <1>2, <2>1, <2>2, stack # <<>>, g \in Frames, TurnMoves
  <2>4. /\ Elems(turned) = {g} \cup Elems(Tail(stack))
        /\ Elems(stack) = {stack[1]} \cup Elems(Tail(stack))
    BY ONLY <1>1, <2>2, stack # <<>>, g \in Frames, StackElems
  <2> QED BY <2>2, <2>3, <2>4
<1>4. Frame("step", x) \in Frames /\ Frame("step", x).op = "step" /\ Frame("step", x).at = x
  BY FrameType
<1>5. PICK st : st = stack' /\ st = <<Frame("step", x)>> \o turned
  BY <1>3
<1>6. st \in Seq(Frames) /\ st # <<>> /\ Listed(st, list) /\ SameEnd(turned, st)
  <2>1. turned[1].at \in Parallels => list[turned[1].at][turned[1].i] = Frame("step", x).at
    BY <1>3, <1>4
  <2> QED BY ONLY <1>3, <1>4, <1>5, <2>1, turned \in Seq(Frames), PushMoves
<1>7. Elems(st) = {Frame("step", x)} \cup Elems(turned)
  BY ONLY <1>4, <1>5, turned \in Seq(Frames), StackElems
<1>8. st[Len(st)].op = "step"
  BY <1>1, <1>3, <1>6 DEF SameEnd
<1>9. \A f \in Elems(st) : f.op = "step" /\ f.at \notin broken
  BY <1>1, <1>3, <1>4, <1>7
<1>10. ret # "Failed" /\ ret' = None
  BY StationAssumption
<1> QED BY <1>1, <1>5, <1>6, <1>8, <1>9, <1>10, StepKept

-----------------------------------------------------------------------------
\* While something is stepped, whatever is in a call is in its container, too: in
\* a station it comes first, in a parallel executor where that is at.
LEMMA StackStays == ASSUME StationInv, UndoInv, ExactInv, stack # <<>>, Top.op = "step", NEW y \in OnStack(stack)
                    PROVE  y = Root \/ (home[y] # None /\ y \in Inside(home[y], queue, done, list))
<1>1. /\ stack \in Seq(Frames) /\ \A f \in Elems(stack) : f.op = "step"
  BY StepLive
<1>2. /\ StackInv(stack, home) /\ ChildInv(stack, ret, queue, list) /\ ActiveInv(stack, home, queue, done, Paths)
      /\ home \in [Steps -> Stations \cup Parallels \cup {None}]
      /\ queue \in [Stations -> Seq(Steps)] /\ list \in [Parallels -> Seq(Steps)]
  BY UndoParts DEF CallsInv, UndoOrder
<1>3. Listed(stack, list) /\ home[Root] = None
  BY <1>2 DEF ExactInv, StackInv, Nested
<1>4. PICK k \in 1 .. Len(stack) : y = stack[k].at
  BY DEF OnStack, Elems
<1>5. Len(stack) \in Nat /\ stack[k] \in Elems(stack) /\ stack[k] \in Frames /\ stack[k].op = "step" /\ y \in Steps
  <2>1. Len(stack) \in Nat /\ stack[k] \in Elems(stack)
    BY <1>1, EmptySeq DEF Elems
  <2>2. stack[k] \in Frames /\ stack[k].at \in Steps
    <3>1. stack[k] \in Frames
      BY ONLY <1>1, k \in 1 .. Len(stack), EmptySeq
    <3> QED BY <3>1 DEF Frames
  <2> QED BY <1>1, <1>4, <2>1, <2>2
<1>6. CASE k = Len(stack)
  BY <1>2, <1>4, <1>5, <1>6 DEF StackInv, Nested
<1>7. CASE k # Len(stack)
  <2>1. k \in 1 .. Len(stack) - 1 /\ k + 1 \in 1 .. Len(stack) /\ k + 1 - 1 = k /\ k + 1 # 1
    BY ONLY <1>5, <1>7, k \in 1 .. Len(stack)
  <2>2. home[y] = stack[k + 1].at
    BY <1>2, <1>4, <1>5, <2>1 DEF StackInv, Nested, UndoneFirst
  <2>3. stack[k + 1] \in Elems(stack) /\ stack[k + 1].op = "step" /\ stack[k + 1].at \in Steps
    <3>1. stack[k + 1] \in Elems(stack) /\ stack[k + 1] \in Frames
      BY ONLY <1>1, <2>1, EmptySeq DEF Elems
    <3> QED BY <1>1, <3>1 DEF Frames
  <2>4. home[y] # None
    BY <2>2, <2>3, NoneIsNoStep
  <2>5. home[y] \in Stations \cup Parallels
    BY <1>2, <1>5, <2>4
  <2>6. CASE home[y] \in Stations
    <3>1. queue[home[y]] # <<>> /\ queue[home[y]][1] = y
      BY <1>2, <1>4, <1>5, <2>6 DEF ActiveInv, ActiveAt
    <3>2. queue[home[y]] \in Seq(Steps) /\ home[y] \notin Parallels
      BY <1>2, <2>6, StationAssumption
    <3>3. y \in Elems(queue[home[y]])
      BY ONLY <3>1, <3>2, ElemsTail
    <3> QED BY <2>4, <3>2, <3>3 DEF Inside
  <2>7. CASE home[y] \in Parallels
    <3>1. PICK p \in Parallels : p = home[y]
      BY <2>7
    <3>2. stack[k + 1].i \in 1 .. Len(list[p])
      <4>1. Waiting(stack, k + 1, ret)
        BY <1>5, <2>1, <2>3 DEF Waiting
      <4> QED BY <1>2, <2>1, <2>2, <3>1, <4>1 DEF ChildInv, HasStep
    <3>3. list[p][stack[k + 1].i] = y
      BY <1>3, <1>4, <1>5, <2>1, <2>2, <3>1 DEF Listed
    <3> QED BY <2>4, <3>1, <3>2, <3>3 DEF Inside, Elems
  <2> QED BY <2>5, <2>6, <2>7
<1> QED BY <1>6, <1>7

\* What fails while it is stepped is in nothing that was let go, so what is spared
\* stays so.
LEMMA FailureSpares ==
  ASSUME StationInv, UndoInv, ExactInv, stack # <<>>, Top.op = "step", NEW s, Spared(s, home, phase, broken, erased)
  PROVE  Spared(s, home, phase, broken \cup {Top.at}, erased)
<1>1. /\ phase = "live" /\ stack \in Seq(Frames)
  BY StepLive
<1>2. PICK y \in Above(home, s) \cap erased : \A x \in Above(home, s) \cap broken : y \notin Above(home, x)
  BY <1>1 DEF Spared
<1>3. y \notin Above(home, Top.at)
  <2>1. OnStack(stack) = Above(home, stack[1].at) /\ home[Root] = None
    <3>1. StackInv(stack, home) /\ CallersAbove(stack, home)
      BY UndoParts DEF CallsInv, UndoOrder
    <3> QED BY <1>1, <3>1, OnStackAbove DEF StackInv, Nested
  <2>2. home[y] # None /\ y \notin Inside(home[y], queue, done, list)
    BY <1>2 DEF ExactInv, LetGoInv
  <2> QED BY <2>1, <2>2, StackStays
<1> QED BY <1>2, <1>3 DEF Spared

\* A step returns; q and d are what the stations have by then.
LEMMA StepReturnExact ==
  ASSUME StationInv, UndoInv, ExactInv, stack # <<>>, Top.op = "step", NEW r \in Status, Return(r),
         NEW q, NEW d, q = queue', d = done',
         UNCHANGED <<guards, list, home, owner, called, erased>>,
         \A s \in Stations : s # Top.at => q[s] = queue[s],
         r = "Failed" => d = done /\ (Top.at \in Stations => q[Top.at] # <<>>),
         r = "Completed" => /\ Top.at \in Stations => q[Top.at] = <<>>
                            /\ Top.at \in Parallels => list[Top.at] = <<>>,
         \A x \in broken : \/ x = Root
                           \/ home[x] # None /\ x \notin Inside(home[x], q, d, list)
                           \/ home[x] \in Stations /\ home[x] \in broken
                           \/ home[x] \in Stations /\ home[x] = Top.at /\ r = "Failed",
         LetGoInv(home, q, d, list, erased), DoneInv(q, d, list, broken, Paths)
  PROVE  ExactInv'
<1>1. /\ phase = "live" /\ Root \notin broken
      /\ stack \in Seq(Frames) /\ Top \in Frames /\ Top \in Elems(stack)
      /\ \A f \in Elems(stack) : f.op = "step" /\ f.at \notin broken
      /\ stack[Len(stack)].op = "step" /\ stack[Len(stack)].at = Root
  BY StepLive
<1>2. /\ StackInv(stack, home) /\ ActiveInv(stack, home, queue, done, Paths) /\ StationTypeOK
      /\ home \in [Steps -> Stations \cup Parallels \cup {None}] /\ Acyclic(home)
      /\ home \in [Steps -> Steps \cup {None}]
  BY UndoParts DEF CallsInv, UndoOrder, TreeInv
<1>3. /\ GuardsExact(home, guards, list, phase, owner, called, broken, erased)
      /\ Listed(stack, list) /\ ListInv(list)
      /\ home[Root] = None
  BY <1>2 DEF ExactInv, StackInv, Nested
<1>4. PICK t, st, br, rt, ph : t = Top.at /\ st = stack' /\ br = broken' /\ rt = ret' /\ ph = phase'
  OBVIOUS
<1>5. /\ st = Tail(stack) /\ br = IF r = "Failed" THEN broken \cup {t} ELSE broken
      /\ Len(stack) = 1 => rt = None /\ ph = CASE r = "Failed" -> "failed"
                                              [] r = "Completed" -> "completed"
                                              [] OTHER -> phase
      /\ Len(stack) # 1 => rt = r /\ ph = phase
  BY <1>4 DEF Return
<1>6. t \in Steps /\ Len(stack) \in Nat /\ Len(stack) > 0
  <2>1. Top.at \in Steps
    BY <1>1 DEF Frames
  <2>2. Len(stack) \in Nat /\ Len(stack) > 0
    BY ONLY <1>1, stack # <<>>, EmptySeq
  <2> QED BY <1>4, <2>1, <2>2
<1>7. /\ st \in Seq(Frames) /\ Listed(st, list) /\ SameEnd(stack, st)
      /\ st = <<>> <=> Len(stack) = 1
  <2>1. st \in Seq(Frames) /\ Listed(st, list) /\ SameEnd(stack, st)
    BY ONLY <1>1, <1>3, <1>5, stack # <<>>, PopMoves
  <2>2. Len(st) = Len(stack) - 1
    BY ONLY <1>1, <1>5, stack # <<>>, TailSeq
  <2>3. st = <<>> <=> Len(st) = 0
    BY ONLY <2>1, EmptySeq
  <2> QED BY ONLY <1>6, <2>1, <2>2, <2>3
<1>8. \A f \in Elems(st) : f \in Elems(stack) /\ f.op = "step" /\ f.at # t
  <2>1. ASSUME NEW f \in Elems(st) PROVE f \in Elems(stack) /\ f.at # t
    <3>1. PICK k \in 1 .. Len(st) : f = st[k]
      BY DEF Elems
    <3>2. k + 1 \in 2 .. Len(stack) /\ f = stack[k + 1]
      BY ONLY <1>1, <1>5, <3>1, k \in 1 .. Len(st), stack # <<>>, TailSeq
    <3>3. k + 1 \in 1 .. Len(stack)
      BY ONLY <1>6, <3>2
    <3>4. stack[k + 1].at = stack[1].at => stack[1].op = "roll"
      BY ONLY <1>1, <1>2, <3>2, Others
    <3> QED BY <1>4, <3>2, <3>3, <3>4 DEF Elems
  <2> QED BY <1>1, <2>1
<1>9. t = Root => Len(stack) = 1
  <2>1. ASSUME Len(stack) # 1 PROVE t # Root
    <3>1. Len(stack) \in 2 .. Len(stack)
      <4>1. PICK n \in Nat : n = Len(stack) /\ n > 0 /\ n # 1
        BY <1>6, <2>1
      <4>2. n \in 2 .. n
        BY ONLY <4>1
      <4> QED BY ONLY <4>1, <4>2
    <3>2. stack[Len(stack)].at = stack[1].at => stack[1].op = "roll"
      BY ONLY <1>1, <1>2, <3>1, Others
    <3> QED BY <1>1, <1>4, <3>2
  <2> QED BY <2>1
<1>10. st # <<>> =>
         /\ st[1].at \in Stations \cup Parallels /\ home[t] = st[1].at
         /\ Answering(st[1], q, list) = t
  <2> SUFFICES ASSUME st # <<>>
               PROVE  /\ st[1].at \in Stations \cup Parallels /\ home[t] = st[1].at
                      /\ Answering(st[1], q, list) = t
    OBVIOUS
  <2>1. st[1] = stack[1 + 1] /\ 1 \in 1 .. Len(stack) - 1
    <3>1. Len(st) \in Nat /\ Len(st) > 0 /\ Len(st) = Len(stack) - 1
      BY ONLY <1>1, <1>5, <1>7, stack # <<>>, st # <<>>, TailSeq, EmptySeq
    <3> QED BY ONLY <1>1, <1>5, <1>6, <3>1, stack # <<>>, TailSeq
  <2>2. home[t] = st[1].at
    BY <1>2, <1>4, <2>1 DEF StackInv, Nested, UndoneFirst
  <2>3. st[1] \in Elems(st) /\ st[1] \in Frames
    BY ONLY <1>7, st # <<>>, ElemsTail
  <2>4. st[1].at \in Stations \cup Parallels
    <3>1. st[1].at # None
      BY <2>3, NoneIsNoStep DEF Frames
    <3> QED BY <1>2, <1>6, <2>2, <3>1
  <2>5. Answering(st[1], q, list) = t
    <3>1. CASE st[1].at \in Parallels
      BY <1>1, <1>3, <1>4, <2>1, <3>1 DEF Answering, Listed
    <3>2. CASE st[1].at \in Stations
      <4>1. st[1].at # t /\ st[1].at \notin Parallels
        BY <1>8, <2>3, <3>2, StationAssumption
      <4>2. queue[home[t]][1] = t
        BY <1>1, <1>2, <1>4, <2>2, <3>2 DEF ActiveInv, ActiveAt
      <4>3. q[st[1].at] = queue[st[1].at]
        BY <1>4, <3>2, <4>1
      <4> QED BY <2>2, <4>1, <4>2, <4>3 DEF Answering
    <3> QED BY <2>4, <3>1, <3>2
  <2> QED BY <2>2, <2>4, <2>5
<1>11. GuardsExact(home, guards, list, ph, owner, called, br, erased)
  <2>1. \A s : Doomed(s, home, list, broken, erased) => Doomed(s, home, list, br, erased)
    <3>1. broken \subseteq br /\ LetsGo(home, list, erased, erased)
      BY <1>5 DEF LetsGo
    <3> QED BY ONLY <3>1, DoomedStays
  <2>2. ASSUME NEW s, Spared(s, home, phase, broken, erased) PROVE Spared(s, home, ph, br, erased)
    <3>1. Spared(s, home, phase, br, erased)
      BY <1>4, <1>5, <2>2, FailureSpares
    <3> QED BY <1>1, <3>1 DEF Spared
  <2> QED BY ONLY <1>3, <2>1, <2>2 DEF GuardsExact
<1>12. AnswerKept(st, rt, q, list, br)
  <2> SUFFICES ASSUME rt # None PROVE AnswerKept(st, rt, q, list, br)
    BY DEF AnswerKept
  <2>1. rt = r /\ st # <<>>
    BY <1>5, <1>7
  <2>2. r = "Failed" => t \in br
    BY <1>5
  <2> QED BY <1>4, <1>10, <2>1, <2>2 DEF AnswerKept
<1>13. BrokenInv(st, rt, home, q, d, list, br)
  <2>1. ASSUME NEW x \in br
        PROVE  \/ x = Root
               \/ home[x] # None /\ x \notin Inside(home[x], q, d, list)
               \/ home[x] \in Stations /\ home[x] \in br
               \/ rt = "Failed" /\ x = Answering(st[1], q, list)
    <3>1. CASE x \in broken
      BY <1>4, <1>5, <3>1
    <3>2. CASE x \notin broken
      <4>1. x = t /\ r = "Failed"
        BY <1>5, <3>2
      <4>2. Len(stack) = 1 => t = Root
        BY <1>1, <1>4
      <4> QED BY <1>5, <1>7, <1>10, <4>1, <4>2
    <3> QED BY <3>1, <3>2
  <2>2. \A f \in Elems(st) : f.op = "step" => f.at \notin br
    BY <1>1, <1>5, <1>8
  <2> QED BY ONLY <2>1, <2>2 DEF BrokenInv
<1>14. DoneInv(q, d, list, br, Paths)
  <2>1. CASE r # "Failed"
    BY <1>5, <2>1
  <2>2. CASE r = "Failed"
    <3>1. d = done
      BY <2>2
    <3>2. \A s \in Stations : t \notin Elems(done[s])
      <4>1. ASSUME NEW s \in Stations, t \in Elems(done[s]) PROVE FALSE
        <5>1. home[t] = s
          <6>1. PICK k \in 1 .. Len(done[s]) : t = done[s][k]
            BY <4>1 DEF Elems
          <6>2. done \in [Stations -> Seq(Steps)] /\ Housed(done, home)
            BY UndoParts
          <6> QED BY ONLY <6>1, <6>2, k \in 1 .. Len(done[s]), s \in Stations, InHoused
        <5> QED BY <1>1, <1>2, <1>4, <4>1, <5>1 DEF ActiveInv, ActiveAt, Latest
      <4> QED BY <4>1
    <3> QED BY <1>5, <3>1, <3>2 DEF DoneInv
  <2> QED BY <2>1, <2>2
<1>15. PhaseInv(st, ph, q, done, guards, br) /\ PhaseInv(st, ph, q, d, guards, br)
  <2>1. CASE Len(stack) = 1
    <3>1. st = <<>> /\ t = Root /\ Root \in Stations
      BY <1>1, <1>4, <1>7, <2>1, StationAssumption
    <3>2. ph = IF r = "Failed" THEN "failed" ELSE IF r = "Completed" THEN "completed" ELSE "live"
      BY <1>1, <1>5, <2>1
    <3>3. r # "Failed" => br = broken
      BY <1>5
    <3>4. r = "Failed" => q[Root] # <<>>
      BY <1>4, <3>1
    <3> QED BY ONLY <1>1, <3>1, <3>2, <3>3, <3>4 DEF PhaseInv
  <2>2. CASE Len(stack) # 1
    <3>1. st # <<>> /\ ph = "live" /\ Root \notin br
      BY <1>1, <1>5, <1>7, <1>9, <2>2
    <3>2. st[Len(st)].op = "step"
      BY <1>1, <1>7, <3>1 DEF SameEnd
    <3> QED BY ONLY <3>1, <3>2 DEF PhaseInv
  <2> QED BY <2>1, <2>2
<1>16. CallsExact(stack, queue, done, guards, list, erased)'
  <2>1. \A f \in Elems(stack') : f.op = "step"
    BY <1>4, <1>8
  <2> QED BY <2>1 DEF CallsExact, RollAt, KillAt
<1>17. Paths' = Paths
  BY PathsKept
<1> QED BY <1>3, <1>4, <1>7, <1>11, <1>12, <1>13, <1>14, <1>15, <1>16, <1>17 DEF ExactInv

-----------------------------------------------------------------------------
\* While something is stepped, the container above looks at answers, and no other.
LEMMA StepParts == ASSUME StationInv, UndoInv, ExactInv
                   PROVE  /\ AnswerKept(stack, ret, queue, list, broken)
                          /\ LetGoInv(home, queue, done, list, erased)
                          /\ DoneInv(queue, done, list, broken, Paths)
                          /\ BrokenInv(stack, ret, home, queue, done, list, broken)
                          /\ Listed(stack, list) /\ ListInv(list)
                          /\ GuardsExact(home, guards, list, phase, owner, called, broken, erased)
                          /\ None \notin Status /\ None # "Failed"
                          /\ ret \in Status \cup {None}
  BY UndoParts, StationAssumption DEF ExactInv, Status, StationTypeOK

\* An answer that is returned with nothing changed.
LEMMA PlainAnswerExact ==
  ASSUME StationInv, UndoInv, ExactInv, stack # <<>>, Top.op = "step", ret # "Failed",
         NEW r \in Status, Return(r), UNCHANGED <<tree, home, owner, called, erased>>,
         r = "Failed" => Top.at \notin Stations,
         r = "Completed" => /\ Top.at \in Stations => queue[Top.at] = <<>>
                            /\ Top.at \in Parallels => list[Top.at] = <<>>
  PROVE  ExactInv'
<1>1. PICK q, d : q = queue' /\ d = done' /\ q = queue /\ d = done
  OBVIOUS
<1>2. \A x \in broken : \/ x = Root
                        \/ home[x] # None /\ x \notin Inside(home[x], q, d, list)
                        \/ home[x] \in Stations /\ home[x] \in broken
                        \/ home[x] \in Stations /\ home[x] = Top.at /\ r = "Failed"
  BY <1>1, StepParts DEF BrokenInv
<1>3. LetGoInv(home, q, d, list, erased) /\ DoneInv(q, d, list, broken, Paths)
  BY <1>1, StepParts
<1>4. UNCHANGED <<guards, list, home, owner, called, erased>>
  OBVIOUS
<1>5. /\ \A s \in Stations : s # Top.at => q[s] = queue[s]
      /\ r = "Failed" => d = done /\ (Top.at \in Stations => q[Top.at] # <<>>)
      /\ r = "Completed" => /\ Top.at \in Stations => q[Top.at] = <<>>
                            /\ Top.at \in Parallels => list[Top.at] = <<>>
  BY <1>1
<1>6. q = queue' /\ d = done'
  BY <1>1
<1> QED BY <1>2, <1>3, <1>4, <1>5, <1>6, StepReturnExact

LEMMA LeafStepExact == ASSUME StationInv, UndoInv, ExactInv, NEW r \in Status, LeafStep(r) PROVE ExactInv'
<1>1. /\ stack # <<>> /\ Top.op = "step" /\ Top.at \in Leaves /\ Return(r)
      /\ UNCHANGED <<tree, home, owner, called, erased>>
  BY DEF LeafStep
<1>2. Top.at \notin Stations /\ Top.at \notin Parallels
  BY <1>1, StationAssumption
<1>3. ret # "Failed"
  BY <1>2, StepParts DEF AnswerKept
<1> QED BY <1>1, <1>2, <1>3, PlainAnswerExact

LEMMA QueueStepExact == ASSUME StationInv, UndoInv, ExactInv, QueueStep PROVE ExactInv'
<1>1. PICK c \in Stations : c = Top.at
  BY DEF QueueStep
<1>2. /\ stack # <<>> /\ Top.op = "step" /\ ret = None /\ UNCHANGED <<tree, home, owner, called, erased>>
      /\ c \notin Parallels /\ ret # "Failed" /\ home[Root] = None /\ c # None
  BY StepParts, UndoParts, StationAssumption DEF QueueStep, CallsInv, StackInv, Nested
<1>3. CASE queue[c] = <<>>
  <2>1. Return("Completed") /\ "Completed" \in Status
    BY <1>1, <1>3 DEF QueueStep, Status
  <2> QED BY <1>1, <1>2, <1>3, <2>1, PlainAnswerExact
<1>4. CASE queue[c] # <<>>
  <2>1. PICK x : x = queue[c][1]
    OBVIOUS
  <2>2. stack' = <<Frame("step", x)>> \o stack /\ UNCHANGED <<ret, phase, broken>>
    BY <1>1, <1>4, <2>1 DEF QueueStep
  <2>3. x \in Steps /\ home[x] = c /\ queue[c] \in Seq(Steps)
    BY <1>4, <2>1, StationHas
  <2>4. x \in Inside(c, queue, done, list)
    <3>1. x \in Elems(queue[c])
      BY ONLY <1>4, <2>1, <2>3, ElemsTail
    <3> QED BY <1>2, <3>1 DEF Inside
  <2>5. /\ stack \in Seq(Frames) /\ Top \in Frames /\ c \notin broken
    BY <1>1, <1>2, StepLive
  <2>6. x \notin broken
    BY <1>2, <2>3, <2>4, <2>5, StepParts DEF BrokenInv
  <2>7. stack = SetTop(Top)
    BY ONLY <1>2, <2>5
  <2> QED BY <1>1, <1>2, <2>2, <2>3, <2>5, <2>6, <2>7, StepCallExact
<1> QED BY <1>3, <1>4

LEMMA ParallelStepExact == ASSUME StationInv, UndoInv, ExactInv, ParallelStep PROVE ExactInv'
<1>1. PICK p \in Parallels : p = Top.at
  BY DEF ParallelStep
<1>2. /\ stack # <<>> /\ Top.op = "step" /\ ret = None /\ UNCHANGED <<tree, home, owner, called, erased>>
      /\ p \notin Stations /\ ret # "Failed"
  BY StepParts, StationAssumption DEF ParallelStep
<1>3. PICK n : n = IF Top.i = 0 THEN 1 ELSE Top.i
  OBVIOUS
<1>4. IF n <= Len(list[p])
      THEN /\ stack' = <<Frame("step", list[p][n])>> \o SetTop([Top EXCEPT !.i = n])
           /\ UNCHANGED <<ret, phase, broken>>
      ELSE Return(IF Top.i = 0 THEN "Completed"
                  ELSE IF Top.busy > 0 THEN "Busy" ELSE "Idle")
  BY <1>1, <1>3 DEF ParallelStep
<1>5. stack \in Seq(Frames) /\ Top \in Frames /\ Top.i \in Nat
  <2>1. stack \in Seq(Frames) /\ Top \in Frames
    BY <1>2, StepLive
  <2> QED BY <2>1 DEF Frames
<1>6. /\ list \in [Parallels -> Seq(Steps)] /\ Housed(list, home) /\ list[p] \in Seq(Steps)
  BY UndoParts
<1>7. CASE n <= Len(list[p])
  <2>1. PICK x, g : x = list[p][n] /\ g = [Top EXCEPT !.i = n]
    OBVIOUS
  <2>2. n \in 1 .. Len(list[p])
    BY ONLY <1>3, <1>5, <1>6, <1>7, EmptySeq
  <2>3. x \in Steps /\ home[x] = p /\ x \in Elems(list[p])
    BY <1>6, <2>1, <2>2, InHoused DEF Elems
  <2>4. g \in Frames /\ g.op = "step" /\ g.at = p /\ g.i = n
    <3>1. n \in Nat
      BY <1>3, <1>5
    <3> QED BY <1>1, <1>2, <1>5, <2>1, <3>1 DEF Frames
  <2>5. x \notin broken
    BY <1>2, <2>3, ListedWhole
  <2>6. stack' = <<Frame("step", x)>> \o SetTop(g) /\ UNCHANGED <<ret, phase, broken>>
    BY <1>4, <1>7, <2>1
  <2> QED BY <1>1, <1>2, <2>1, <2>3, <2>4, <2>5, <2>6, StepCallExact
<1>8. CASE ~(n <= Len(list[p]))
  <2>1. PICK r : r = IF Top.i = 0 THEN "Completed" ELSE IF Top.busy > 0 THEN "Busy" ELSE "Idle"
    OBVIOUS
  <2>2. Return(r) /\ r \in Status /\ r # "Failed"
    BY <1>4, <1>8, <2>1 DEF Status
  <2>3. r = "Completed" => list[p] = <<>>
    <3>1. r = "Completed" => n = 1
      BY <1>3, <2>1
    <3>2. n = 1 => Len(list[p]) = 0
      BY ONLY <1>6, <1>8, EmptySeq
    <3> QED BY ONLY <1>6, <3>1, <3>2, EmptySeq
  <2> QED BY <1>1, <1>2, <2>2, <2>3, PlainAnswerExact
<1> QED BY <1>7, <1>8

LEMMA ParallelWaitExact == ASSUME StationInv, UndoInv, ExactInv, ParallelWait PROVE ExactInv'
<1>1. /\ stack # <<>> /\ Top.op = "step" /\ ret \in {"Busy", "Idle"} /\ ret' = None
      /\ UNCHANGED <<tree, phase, home, history>>
  BY DEF ParallelWait
<1>2. PICK g, st : /\ g = [Top EXCEPT !.i = @ + 1, !.busy = IF ret = "Busy" THEN @ + 1 ELSE @]
                   /\ st = stack' /\ st = SetTop(g)
  BY DEF ParallelWait
<1>3. /\ stack \in Seq(Frames) /\ Top \in Frames /\ Top \in Elems(stack) /\ phase = "live"
      /\ \A f \in Elems(stack) : f.op = "step" /\ f.at \notin broken
      /\ stack[Len(stack)].op = "step" /\ Listed(stack, list)
  BY <1>1, StepLive, StepParts
<1>4. g \in Frames /\ g.op = Top.op /\ g.at = Top.at
  <2>1. Top.i + 1 \in Nat /\ (IF ret = "Busy" THEN Top.busy + 1 ELSE Top.busy) \in Nat
    BY <1>3 DEF Frames
  <2> QED BY <1>2, <1>3, <2>1 DEF Frames
<1>5. /\ st # <<>> /\ Listed(st, list) /\ SameEnd(stack, st)
      /\ Elems(st) = {g} \cup Elems(Tail(stack)) /\ Elems(stack) = {stack[1]} \cup Elems(Tail(stack))
  <2>1. g.op = stack[1].op /\ g.at = stack[1].at /\ st = <<g>> \o Tail(stack)
    BY <1>2, <1>4
  <2>2. st # <<>> /\ Listed(st, list) /\ SameEnd(stack, st)
    BY ONLY <1>1, <1>3, <1>4, <2>1, TurnMoves
  <2>3. Elems(st) = {g} \cup Elems(Tail(stack)) /\ Elems(stack) = {stack[1]} \cup Elems(Tail(stack))
    BY ONLY <1>1, <1>3, <1>4, <2>1, StackElems
  <2> QED BY ONLY <2>2, <2>3
<1>6. \A f \in Elems(st) : f.op = "step" /\ f.at \notin broken
  BY <1>3, <1>4, <1>5
<1>7. st[Len(st)].op = "step" /\ ret # "Failed"
  BY <1>1, <1>3, <1>5 DEF SameEnd
<1> QED BY <1>1, <1>2, <1>3, <1>5, <1>6, <1>7, StepKept

-----------------------------------------------------------------------------
LEMMA QueueReturnExact == ASSUME StationInv, UndoInv, ExactInv, QueueReturn PROVE ExactInv'
<1>1. PICK c \in Stations : c = Top.at
  BY DEF QueueReturn
<1>2. /\ stack # <<>> /\ Top.op = "step" /\ ret \in Status /\ ret # None
      /\ UNCHANGED <<guards, list, home, owner, called, erased>>
      /\ c \notin Parallels /\ c # None
  BY StepParts, StationAssumption DEF QueueReturn
<1>3. queue[c] # <<>>
  <2>1. 1 \in 1 .. Len(stack) /\ Waiting(stack, 1, ret)
    BY <1>2, UndoParts, OnTop DEF Waiting
  <2> QED BY <1>1, <2>1, UndoParts DEF CallsInv, ChildInv, HasStep
<1>4. PICK x : x = queue[c][1]
  OBVIOUS
<1>5. /\ queue[c] \in Seq(Steps) /\ done[c] \in Seq(Steps) /\ x \in Steps /\ home[x] = c
      /\ queue \in [Stations -> Seq(Steps)] /\ done \in [Stations -> Seq(Steps)]
      /\ home[Root] = None /\ home \in [Steps -> Steps \cup {None}] /\ Acyclic(home)
      /\ home \in [Steps -> Stations \cup Parallels \cup {None}]
  BY <1>3, <1>4, StationHas, UndoParts DEF CallsInv, StackInv, Nested, UndoOrder, TreeInv
<1>6. /\ AnswerKept(stack, ret, queue, list, broken)
      /\ BrokenInv(stack, ret, home, queue, done, list, broken)
      /\ LetGoInv(home, queue, done, list, erased) /\ DoneInv(queue, done, list, broken, Paths)
  BY StepParts
<1>7. Answering(stack[1], queue, list) = x
  BY <1>1, <1>2, <1>4 DEF Answering
<1>8. CASE ret # "Completed"
  <2>1. Return(ret) /\ UNCHANGED <<queue, done>>
    BY <1>8 DEF QueueReturn
  <2>2. \A y \in broken : \/ y = Root
                          \/ home[y] # None /\ y \notin Inside(home[y], queue, done, list)
                          \/ home[y] \in Stations /\ home[y] \in broken
                          \/ home[y] \in Stations /\ home[y] = Top.at /\ ret = "Failed"
    BY <1>1, <1>5, <1>6, <1>7 DEF BrokenInv
  <2>3. PICK q, d : q = queue /\ d = done /\ q = queue' /\ d = done'
    BY <2>1
  <2>4. /\ ret = "Failed" => d = done /\ (Top.at \in Stations => q[Top.at] # <<>>)
        /\ ret = "Completed" => /\ Top.at \in Stations => q[Top.at] = <<>>
                                /\ Top.at \in Parallels => list[Top.at] = <<>>
        /\ \A s \in Stations : s # Top.at => q[s] = queue[s]
    BY <1>1, <1>3, <1>8, <2>3
  <2> QED BY <1>2, <1>6, <2>1, <2>2, <2>3, <2>4, StepReturnExact
<1>9. CASE ret = "Completed"
  <2>1. PICK q, d : q = queue' /\ d = done'
    OBVIOUS
  <2>2. /\ Return("Busy") /\ "Busy" \in Status /\ "Busy" # "Failed" /\ "Busy" # "Completed"
        /\ q = [queue EXCEPT ![c] = Tail(@)]
        /\ d = [done EXCEPT ![c] = <<x>> \o @]
    BY <1>1, <1>4, <1>9, <2>1 DEF QueueReturn, Status
  <2>3. /\ \A s \in Stations : s # c => q[s] = queue[s] /\ d[s] = done[s]
        /\ q[c] = Tail(queue[c]) /\ d[c] = <<x>> \o done[c]
    BY <1>5, <2>2
  <2>4. /\ Elems(queue[c]) = {x} \cup Elems(q[c])
        /\ Elems(d[c]) = {x} \cup Elems(done[c])
    BY ONLY <1>3, <1>4, <1>5, <2>3, ElemsTail, ElemsCons
  <2>5. \A b \in Stations \cup Parallels : Inside(b, q, d, list) = Inside(b, queue, done, list)
    BY ONLY <2>3, <2>4, StationAssumption DEF Inside
  <2>6. /\ \A y \in erased : home[y] # None => home[y] \in Stations \cup Parallels
        /\ \A y \in broken : home[y] # None => home[y] \in Stations \cup Parallels
    BY <1>5, UndoParts DEF StationTypeOK
  <2>7. LetGoInv(home, q, d, list, erased)
    BY ONLY <1>6, <2>5, <2>6 DEF LetGoInv
  <2>8. \A y \in broken : \/ y = Root
                          \/ home[y] # None /\ y \notin Inside(home[y], q, d, list)
                          \/ home[y] \in Stations /\ home[y] \in broken
                          \/ home[y] \in Stations /\ home[y] = Top.at /\ "Busy" = "Failed"
    BY <1>6, <1>9, <2>5, <2>6 DEF BrokenInv
  <2>9. x \notin broken
    <3>1. x \in Inside(c, queue, done, list)
      BY <1>2, <2>4 DEF Inside
    <3>2. c \notin broken
      BY <1>1, <1>2, StepLive
    <3> QED BY <1>2, <1>5, <1>6, <1>9, <3>1, <3>2 DEF BrokenInv
  <2>10. x # c
    BY <1>2, <1>5, AboveClosed DEF Acyclic
  <2>11. DoneInv(q, d, list, broken, Paths)
    <3>1. ASSUME NEW s \in Stations, NEW y \in Elems(d[s])
          PROVE  /\ y \notin broken /\ (y \in Stations => q[y] = <<>>)
                 /\ y \in Parallels => \A z \in Elems(list[y]) : Fresh(Paths, z)
      <4>1. CASE y \in Elems(done[s])
        <5>1. /\ y \notin broken /\ (y \in Stations => queue[y] = <<>>)
              /\ y \in Parallels => \A z \in Elems(list[y]) : Fresh(Paths, z)
          BY <1>6, <4>1 DEF DoneInv
        <5> QED BY <1>3, <2>3, <5>1
      <4>2. CASE y \notin Elems(done[s])
        <5>1. y = x
          BY <2>3, <2>4, <3>1, <4>2
        <5>2. (x \in Stations => queue[x] = <<>>) /\ (x \in Parallels => list[x] = <<>>)
          BY <1>2, <1>6, <1>7, <1>9 DEF AnswerKept
        <5>3. x \in Parallels => Elems(list[x]) = {}
          BY <5>2, NoElems
        <5> QED BY <2>3, <2>9, <2>10, <5>1, <5>2, <5>3
      <4> QED BY <4>1, <4>2
    <3> QED BY ONLY <3>1 DEF DoneInv
  <2>12. \A s \in Stations : s # Top.at => q[s] = queue[s]
    BY <1>1, <2>3
  <2> QED BY <1>2, <2>1, <2>2, <2>7, <2>8, <2>11, <2>12, StepReturnExact
<1> QED BY <1>8, <1>9

\* A list that has no step twice, without its n-th.
LEMMA EraseDistinct == ASSUME NEW q \in Seq(Steps), NEW n \in 1 .. Len(q), Distinct(q),
                              NEW less, less = SubSeq(q, 1, n - 1) \o SubSeq(q, n + 1, Len(q))
                       PROVE  Elems(less) \subseteq Elems(q) /\ q[n] \notin Elems(less) /\ Distinct(less)
<1> DEFINE before == SubSeq(q, 1, n - 1)
           after  == SubSeq(q, n + 1, Len(q))
<1>1. n \in 1 .. Len(q) /\ Len(q) \in Nat /\ q \in Seq(Steps)
  BY EmptySeq
<1>2. before \in Seq(Steps) /\ Len(before) = n - 1 /\ \A k \in 1 .. Len(before) : before[k] = q[k]
  BY ONLY <1>1
<1>3. after \in Seq(Steps) /\ Len(after) = Len(q) - n /\ \A k \in 1 .. Len(after) : after[k] = q[k + n]
  BY ONLY <1>1
<1>4. less = before \o after
  OBVIOUS
<1> HIDE DEF before, after
<1>5. /\ Len(less) = Len(before) + Len(after)
      /\ \A k \in 1 .. Len(before) + Len(after) :
             less[k] = IF k <= Len(before) THEN before[k] ELSE after[k - Len(before)]
  BY ONLY <1>2, <1>3, <1>4, ConcatSeq
<1>6. ASSUME NEW k \in 1 .. Len(less)
      PROVE  \E m \in 1 .. Len(q) : /\ m # n /\ less[k] = q[m]
                                    /\ m = IF k <= n - 1 THEN k ELSE k + 1
  <2>1. k \in 1 .. Len(before) + Len(after) /\ k \in Nat
    BY ONLY <1>2, <1>3, <1>5, k \in 1 .. Len(less)
  <2>2. CASE k <= n - 1
    <3>1. k \in 1 .. Len(before) /\ k \in 1 .. Len(q) /\ k # n
      BY ONLY <1>1, <1>2, <2>1, <2>2
    <3> QED BY <1>2, <1>5, <2>1, <2>2, <3>1
  <2>3. CASE ~(k <= n - 1)
    <3>1. k - Len(before) \in 1 .. Len(after) /\ k + 1 \in 1 .. Len(q) /\ k + 1 # n
          /\ k - Len(before) + n = k + 1 /\ ~(k <= Len(before))
      BY ONLY <1>1, <1>2, <1>3, <2>1, <2>3
    <3>2. less[k] = after[k - Len(before)] /\ after[k - Len(before)] = q[k - Len(before) + n]
      BY ONLY <1>3, <1>5, <2>1, <3>1
    <3> QED BY ONLY <2>3, <3>1, <3>2
  <2> QED BY <2>2, <2>3
<1>7. Elems(less) \subseteq Elems(q)
  BY ONLY <1>6 DEF Elems
<1>8. q[n] \notin Elems(less)
  BY ONLY <1>1, <1>6, Distinct(q) DEF Elems, Distinct
<1>9. ASSUME NEW i \in 1 .. Len(less), NEW j \in 1 .. Len(less), less[i] = less[j] PROVE i = j
  <2>1. PICK a \in 1 .. Len(q) : a # n /\ less[i] = q[a] /\ a = IF i <= n - 1 THEN i ELSE i + 1
    BY ONLY <1>6, i \in 1 .. Len(less)
  <2>2. PICK b \in 1 .. Len(q) : b # n /\ less[j] = q[b] /\ b = IF j <= n - 1 THEN j ELSE j + 1
    BY ONLY <1>6, j \in 1 .. Len(less)
  <2>3. a = b
    BY ONLY <1>9, <2>1, <2>2, Distinct(q) DEF Distinct
  <2>4. Len(less) \in Nat
    BY ONLY <1>1, <1>2, <1>3, <1>5
  <2> QED BY ONLY <1>1, <2>1, <2>2, <2>3, <2>4, i \in 1 .. Len(less), j \in 1 .. Len(less)
<1> QED BY ONLY <1>7, <1>8, <1>9 DEF Distinct

-----------------------------------------------------------------------------
LEMMA ParallelEraseExact == ASSUME StationInv, UndoInv, ExactInv, ParallelErase PROVE ExactInv'
<1>1. PICK p \in Parallels : p = Top.at
  BY DEF ParallelErase
<1>2. PICK x, st, l, er : x = list[Top.at][Top.i] /\ st = stack' /\ l = list' /\ er = erased'
  BY SMTT(20)
<1>3. /\ stack # <<>> /\ Top.op = "step" /\ ret \in {"Failed", "Completed"} /\ ret # None /\ ret' = None
      /\ UNCHANGED <<queue, done, guards, phase, home, owner, called, broken>>
      /\ st = (IF ret = "Failed" THEN <<Frame("roll", x)>> ELSE <<>>) \o (<<Frame("kill", x)>> \o stack)
      /\ er = IF ret = "Completed" THEN erased \cup {x} ELSE erased
  BY <1>2, StationAssumption DEF ParallelErase
<1>4. PICK n \in 1 .. Len(list[p]) : n = Top.i
  <2>1. 1 \in 1 .. Len(stack) /\ Waiting(stack, 1, ret)
    BY <1>3, UndoParts, OnTop DEF Waiting
  <2> QED BY <1>1, <2>1, UndoParts DEF CallsInv, ChildInv, HasStep
<1>5. /\ list \in [Parallels -> Seq(Steps)] /\ list[p] \in Seq(Steps) /\ Housed(list, home)
      /\ home[Root] = None /\ home \in [Steps -> Steps \cup {None}] /\ Acyclic(home)
      /\ home \in [Steps -> Stations \cup Parallels \cup {None}] /\ StackInv(stack, home)
      /\ p # None /\ p \notin Stations /\ StationTypeOK
  BY UndoParts, StationAssumption DEF CallsInv, StackInv, Nested, UndoOrder, TreeInv
<1>6. x = list[p][n] /\ x \in Steps /\ home[x] = p /\ x \in Elems(list[p]) /\ x # p
  <2>1. x = list[p][n] /\ x \in Elems(list[p])
    BY <1>1, <1>2, <1>4 DEF Elems
  <2>2. x \in Steps /\ home[x] = p
    BY ONLY <1>5, <2>1, p \in Parallels, n \in 1 .. Len(list[p]), InHoused
  <2> QED BY <1>5, <2>1, <2>2, AboveClosed DEF Acyclic
<1>7. /\ AnswerKept(stack, ret, queue, list, broken)
      /\ BrokenInv(stack, ret, home, queue, done, list, broken)
      /\ LetGoInv(home, queue, done, list, erased) /\ DoneInv(queue, done, list, broken, Paths)
      /\ Listed(stack, list) /\ ListInv(list)
      /\ GuardsExact(home, guards, list, phase, owner, called, broken, erased)
  BY StepParts
<1>8. Answering(stack[1], queue, list) = x
  BY <1>1, <1>2 DEF Answering
<1>9. /\ \A b \in Parallels : b # p => l[b] = list[b]
      /\ Elems(l[p]) \subseteq Elems(list[p]) /\ x \notin Elems(l[p]) /\ Distinct(l[p])
  <2>1. list' = [list EXCEPT ![p] = SubSeq(@, 1, n - 1) \o SubSeq(@, n + 1, Len(@))]
    BY <1>1, <1>4 DEF ParallelErase, Erased
  <2>2. /\ l[p] = SubSeq(list[p], 1, n - 1) \o SubSeq(list[p], n + 1, Len(list[p]))
        /\ \A b \in Parallels : b # p => l[b] = list[b]
    BY <1>2, <1>5, <2>1
  <2>3. Distinct(list[p])
    BY <1>7 DEF ListInv
  <2>4. Elems(l[p]) \subseteq Elems(list[p]) /\ list[p][n] \notin Elems(l[p]) /\ Distinct(l[p])
    BY ONLY <1>5, <2>2, <2>3, n \in 1 .. Len(list[p]), EraseDistinct
  <2> QED BY ONLY <1>6, <2>2, <2>4, SMTT(20)
<1>10. /\ phase = "live" /\ Root \notin broken /\ stack \in Seq(Frames)
       /\ \A f \in Elems(stack) : f.op = "step" /\ f.at \notin broken
       /\ stack[Len(stack)].op = "step"
  BY <1>3, StepLive
<1>11. \A op \in {"roll", "kill"} :
         /\ Frame(op, x) \in Frames /\ Frame(op, x).at = x /\ Frame(op, x).op = op /\ Frame(op, x).i = 0
         /\ op # "step"
  BY <1>6, FrameType
<1>12. PICK under \in Seq(Frames) :
         /\ under = <<Frame("kill", x)>> \o stack /\ under # <<>> /\ Listed(under, l) /\ SameEnd(stack, under)
         /\ Elems(under) = {Frame("kill", x)} \cup Elems(stack)
  <2>1. stack[1].op # "roll" /\ \A b \in Parallels : b # stack[1].at => l[b] = list[b]
    BY <1>1, <1>3, <1>9
  <2>2. Listed(stack, l)
    <3>1. stack \in Seq(Frames) /\ StackInv(stack, home) /\ Listed(stack, list)
      BY <1>5, <1>7, <1>10
    <3> QED BY ONLY <2>1, <3>1, ListedSpends
  <2> QED BY ONLY <1>3, <1>10, <1>11, <2>2, PushedExact
<1>13. /\ st # <<>> /\ Listed(st, l) /\ SameEnd(stack, st)
       /\ \A f \in Elems(st) : f \in Elems(stack) \/ f = Frame("kill", x) \/ f = Frame("roll", x)
       /\ Frame("roll", x) \in Elems(st) <=> ret = "Failed"
  <2>1. Frame("roll", x) \notin Elems(under)
    BY <1>10, <1>11, <1>12
  <2>2. CASE ret = "Failed"
    <3>1. st = <<Frame("roll", x)>> \o under
      BY <1>3, <1>12, <2>2
    <3>2. /\ st # <<>> /\ Listed(st, l) /\ SameEnd(under, st)
          /\ Elems(st) = {Frame("roll", x)} \cup Elems(under)
      BY ONLY <1>11, <1>12, <3>1, under \in Seq(Frames), PushedExact
    <3>3. SameEnd(stack, st)
      BY ONLY <1>12, <3>2 DEF SameEnd
    <3> QED BY <1>12, <2>2, <3>2, <3>3
  <2>3. CASE ret # "Failed"
    <3>1. st = <<>> \o under
      BY <1>3, <1>12, <2>3
    <3>2. st = under
      BY ONLY <3>1, under \in Seq(Frames)
    <3> QED BY <1>12, <2>1, <2>3, <3>2
  <2> QED BY <2>2, <2>3
<1>14. /\ \A b \in Parallels : Elems(l[b]) \subseteq Elems(list[b])
       /\ LetsGo(home, list, erased, er)
  BY <1>3, <1>6, <1>9 DEF LetsGo, Standing
<1>15. GuardsExact(home, guards, l, phase, owner, called, broken, er)
  BY ONLY <1>7, <1>14, GuardsStay
<1>16. /\ \A c \in Stations \cup Parallels : Inside(c, queue, done, l) \subseteq Inside(c, queue, done, list)
       /\ x \notin Inside(p, queue, done, l)
  BY <1>9, <1>14 DEF Inside
<1>17. /\ \A y \in erased : home[y] # None => home[y] \in Stations \cup Parallels
       /\ \A y \in broken : home[y] # None => home[y] \in Stations \cup Parallels
  BY <1>5 DEF StationTypeOK
<1>18. LetGoInv(home, queue, done, l, er)
  <2>1. \A y \in erased : home[y] # None /\ y \notin Inside(home[y], queue, done, l)
    BY ONLY <1>7, <1>16, <1>17 DEF LetGoInv
  <2> QED BY <1>3, <1>5, <1>6, <1>16, <2>1 DEF LetGoInv
<1>19. BrokenInv(st, None, home, queue, done, l, broken)
  <2>1. ASSUME NEW y \in broken
        PROVE  \/ y = Root
               \/ home[y] # None /\ y \notin Inside(home[y], queue, done, l)
               \/ home[y] \in Stations /\ home[y] \in broken
    <3>1. \/ y = Root
          \/ home[y] # None /\ y \notin Inside(home[y], queue, done, list)
          \/ home[y] \in Stations /\ home[y] \in broken
          \/ y = x
      BY <1>7, <1>8 DEF BrokenInv
    <3> QED BY <1>5, <1>6, <1>16, <1>17, <3>1
  <2>2. \A f \in Elems(st) : f.op = "step" => f.at \notin broken
    BY <1>10, <1>11, <1>13
  <2> QED BY ONLY <2>1, <2>2 DEF BrokenInv
<1>20. DoneInv(queue, done, l, broken, Paths)
  BY ONLY <1>7, <1>14 DEF DoneInv
<1>21. ListInv(l)
  BY <1>7, <1>9 DEF ListInv
<1>22. PhaseInv(st, phase, queue, done, guards, broken)
  <2>1. st[Len(st)].op = "step"
    BY <1>10, <1>13 DEF SameEnd
  <2> QED BY <1>10, <1>13, <2>1 DEF PhaseInv
<1>23. x \notin broken \/ ret = "Failed"
  <2>1. x \in Inside(p, queue, done, list)
    BY <1>6 DEF Inside
  <2> QED BY <1>3, <1>5, <1>6, <1>7, <2>1 DEF BrokenInv
<1>24. CallsExact(st, queue, done, guards, l, er)
  <2>1. ASSUME ret = "Failed" PROVE Doomed(x, home, l, broken, er) /\ Rolled(st, x)
    <3>1. x \in broken
      BY <1>3, <1>7, <1>8, <2>1 DEF AnswerKept
    <3>2. Doomed(x, home, l, broken, er)
      BY <1>5, <1>6, <3>1, AboveClosed DEF Doomed
    <3>3. Rolled(st, x)
      BY <1>11, <1>13, <2>1 DEF Rolled
    <3> QED BY <3>2, <3>3
  <2>2. ASSUME ret # "Failed"
        PROVE  /\ x \in Stations => queue[x] = <<>> /\ Spared(x, home, phase, broken, er)
               /\ x \in Parallels => Elems(l[x]) = {}
    <3>1. (x \in Stations => queue[x] = <<>>) /\ (x \in Parallels => list[x] = <<>>)
      BY <1>3, <1>7, <1>8, <2>2 DEF AnswerKept
    <3>2. x \in er /\ x \notin broken
      BY <1>3, <1>23, <2>2
    <3>3. Spared(x, home, phase, broken, er)
      BY ONLY <1>5, <1>6, <3>2, SparedSelf
    <3>4. x \in Parallels => Elems(list[x]) = {}
      BY <3>1, NoElems
    <3> QED BY <1>6, <1>9, <3>1, <3>3, <3>4
  <2>3. KillAt(Frame("kill", x), st, queue, done, guards, l, er)
    <3>1. CASE ret = "Failed"
      BY <1>11, <2>1, <3>1 DEF KillAt
    <3>2. CASE ret # "Failed"
      BY <1>11, <2>2, <3>2 DEF KillAt
    <3> QED BY <3>1, <3>2
  <2>4. ret = "Failed" => RollAt(Frame("roll", x), st, queue, done, guards, l, er)
    BY <1>11, <2>1 DEF RollAt
  <2>5. /\ RollAt(Frame("kill", x), st, queue, done, guards, l, er)
        /\ KillAt(Frame("roll", x), st, queue, done, guards, l, er)
        /\ \A f \in Elems(stack) : RollAt(f, st, queue, done, guards, l, er) /\ KillAt(f, st, queue, done, guards, l, er)
    BY <1>10, <1>11 DEF RollAt, KillAt
  <2> QED BY <1>13, <2>3, <2>4, <2>5 DEF CallsExact
<1>25. CallsExact(stack, queue, done, guards, list, erased)'
  <2>1. Paths' = Paths
    BY <1>3, PathsKept
  <2>2. /\ stack' = st /\ queue' = queue /\ done' = done /\ guards' = guards /\ list' = l /\ erased' = er
        /\ home' = home /\ broken' = broken /\ phase' = phase
    BY <1>2, <1>3
  <2> QED BY <1>24, <2>1, <2>2 DEF CallsExact, RollAt, KillAt
<1>26. Paths' = Paths /\ AnswerKept(st, None, queue, l, broken)
  BY <1>3, PathsKept DEF AnswerKept
<1> QED BY <1>2, <1>3, <1>13, <1>15, <1>18, <1>19, <1>20, <1>21, <1>22, <1>25, <1>26 DEF ExactInv

-----------------------------------------------------------------------------
(***************************************************************************)
(* The user's calls.                                                       *)
(***************************************************************************)
LEMMA RootFacts == ASSUME StationInv, UndoInv
                   PROVE  /\ home[Root] = None /\ Root \in Steps /\ Above(home, Root) = {Root}
                          /\ stack = <<>> => ret = None
<1>1. /\ home \in [Steps -> Steps \cup {None}] /\ home[Root] = None /\ AnswerInv(stack, ret)
  BY UndoParts DEF CallsInv, StackInv, Nested
<1>2. Root \in Steps
  BY StationAssumption DEF Steps
<1>3. Len(<<>>) = 0 /\ ~(0 > 0)
  OBVIOUS
<1> QED BY <1>1, <1>2, <1>3, AboveHome DEF AnswerInv

\* The stack of a single call.
LEMMA OneCall == ASSUME NEW f
                 PROVE  /\ Len(<<f>>) = 1 /\ <<f>>[1] = f /\ Elems(<<f>>) = {f} /\ <<f>> # <<>>
                        /\ \A l : Listed(<<f>>, l)
<1>1. Len(<<f>>) = 1 /\ <<f>>[1] = f /\ <<f>> # <<>> /\ 1 .. 1 = {1} /\ 1 .. 1 - 1 = {}
  OBVIOUS
<1> QED BY ONLY <1>1 DEF Elems, Listed

LEMMA CallStepExact == ASSUME StationInv, UndoInv, ExactInv, CallStep PROVE ExactInv'
<1>1. /\ stack = <<>> /\ phase = "live" /\ stack' = <<Frame("step", Root)>>
      /\ UNCHANGED <<tree, history, home, phase, ret>>
  BY DEF CallStep
<1>2. ret = None /\ ret # "Failed" /\ Root \in Steps
  BY <1>1, RootFacts, StationAssumption
<1>3. Frame("step", Root).op = "step" /\ Frame("step", Root).at = Root
  BY <1>2, FrameType
<1>4. Root \notin broken
  BY <1>1 DEF ExactInv, PhaseInv
<1>5. stack' # <<>> /\ Len(stack') = 1 /\ stack'[1] = Frame("step", Root)
      /\ Elems(stack') = {Frame("step", Root)} /\ Listed(stack', list)
  BY <1>1, OneCall
<1> QED BY <1>1, <1>2, <1>3, <1>4, <1>5, StepKept

\* The root is given up, or goes out of scope: what the actions have in common.
LEMMA RootEndsExact ==
  ASSUME StationInv, UndoInv, ExactInv, stack = <<>>, NEW f \in Frames, stack' = <<f>>,
         f.at = Root, f.i = 0, broken \subseteq broken', broken' \subseteq broken \cup {Root},
         \/ f.op = "roll" /\ phase' = "undone" /\ Root \in broken' /\ phase # "dead"
         \/ f.op = "kill" /\ phase' = "dead" /\ phase # "dead"
            /\ \/ Root \in broken' /\ queue[Root] # <<>>
               \/ broken' = broken /\ queue[Root] = <<>>,
         UNCHANGED <<tree, ret, home, owner, called, erased>>
  PROVE  ExactInv'
<1>1. PICK st, br, ph : st = stack' /\ br = broken' /\ ph = phase'
  OBVIOUS
<1>2. /\ queue' = queue /\ done' = done /\ guards' = guards /\ list' = list /\ ret' = ret /\ home' = home
      /\ owner' = owner /\ called' = called /\ erased' = erased /\ Paths' = Paths
  BY PathsKept
<1>3. /\ GuardsExact(home, guards, list, phase, owner, called, broken, erased)
      /\ BrokenInv(stack, ret, home, queue, done, list, broken)
      /\ LetGoInv(home, queue, done, list, erased) /\ DoneInv(queue, done, list, broken, Paths) /\ ListInv(list)
      /\ PhaseInv(stack, phase, queue, done, guards, broken)
  BY DEF ExactInv
<1>4. /\ home[Root] = None /\ Root \in Steps /\ Above(home, Root) = {Root} /\ ret = None
      /\ home \in [Steps -> Steps \cup {None}] /\ Housed(done, home)
      /\ done \in [Stations -> Seq(Steps)] /\ StationTypeOK
  BY RootFacts, UndoParts
<1>5. /\ st = <<f>> /\ Len(st) = 1 /\ st[1] = f /\ Elems(st) = {f} /\ st # <<>> /\ Listed(st, list)
  BY <1>1, OneCall
<1>6. broken \subseteq br /\ br \subseteq broken \cup {Root}
  BY <1>1
<1>7. \A s : Doomed(s, home, list, broken, erased) => Doomed(s, home, list, br, erased)
  BY ONLY <1>6, StillSame, DoomedStays DEF Shrinks
<1>8. Root \notin erased /\ \A y \in Steps : Root \in Above(home, y) /\ y \in erased => y \notin Above(home, Root)
  BY <1>3, <1>4 DEF LetGoInv
<1>9. ASSUME NEW s \in Steps, Spared(s, home, phase, broken, erased), phase # "dead"
      PROVE  Spared(s, home, ph, br, erased)
  <2>1. PICK y \in Above(home, s) \cap erased : \A x \in Above(home, s) \cap broken : y \notin Above(home, x)
    BY <1>9 DEF Spared
  <2>2. y \notin Above(home, Root)
    BY <1>4, <1>8, <2>1
  <2> QED BY <1>6, <2>1, <2>2 DEF Spared
<1>10. phase # "dead"
  OBVIOUS
<1>11. GuardsExact(home, guards, list, ph, owner, called, br, erased)
  <2>1. \A g \in 1 .. Len(owner) : owner[g] \in Steps
    BY <1>4, PathFacts
  <2> QED BY ONLY <1>3, <1>7, <1>9, <1>10, <2>1 DEF GuardsExact
<1>12. AnswerKept(st, ret, queue, list, br)
  BY <1>4 DEF AnswerKept
<1>13. BrokenInv(st, ret, home, queue, done, list, br)
  <2>1. f.op # "step"
    OBVIOUS
  <2>2. None # "Failed"
    BY StationAssumption
  <2> QED BY ONLY <1>3, <1>4, <1>5, <1>6, <2>1, <2>2 DEF BrokenInv
<1>14. DoneInv(queue, done, list, br, Paths)
  <2>1. \A s \in Stations : \A x \in Elems(done[s]) : x # Root
    BY <1>4, InHoused, NoneIsNoStep DEF Steps, Elems
  <2> QED BY ONLY <1>3, <1>6, <2>1 DEF DoneInv
<1>15. f.op = "kill" => Killed(st, Root)
  BY <1>5 DEF Killed
<1>16. PhaseInv(st, ph, queue, done, guards, br)
  BY <1>1, <1>5, <1>15 DEF PhaseInv
<1>17. Root \in br => Doomed(Root, home, list, br, erased)
  BY <1>4 DEF Doomed
<1>18. ASSUME f.op = "roll" PROVE CallsExact(st, queue, done, guards, list, erased)'
  BY <1>1, <1>2, <1>4, <1>5, <1>17, <1>18 DEF CallsExact, RollAt, KillAt
<1>19. ASSUME f.op = "kill" PROVE CallsExact(st, queue, done, guards, list, erased)'
  <2>1. CASE queue[Root] # <<>>
    BY <1>1, <1>2, <1>4, <1>5, <1>17, <1>19, <2>1, StationAssumption DEF CallsExact, RollAt, KillAt
  <2>2. CASE queue[Root] = <<>>
    <3>1. Emptied(Root, queue, done, guards) \/ Spared(Root, home, ph, br, erased)
      BY <1>1, <1>3, <1>4, <1>19, <2>2, StationAssumption DEF PhaseInv, Spared, StationTypeOK
    <3> QED BY <1>1, <1>2, <1>4, <1>5, <1>19, <2>2, <3>1, StationAssumption DEF CallsExact, RollAt, KillAt
  <2> QED BY <2>1, <2>2
<1>20. CallsExact(stack, queue, done, guards, list, erased)'
  BY <1>1, <1>18, <1>19 DEF CallsExact, RollAt, KillAt
<1> QED BY <1>1, <1>2, <1>3, <1>5, <1>11, <1>12, <1>13, <1>14, <1>16, <1>20 DEF ExactInv

LEMMA CallRollbackExact == ASSUME StationInv, UndoInv, ExactInv, CallRollback PROVE ExactInv'
<1>1. /\ stack = <<>> /\ stack' = <<Frame("roll", Root)>> /\ phase' = "undone" /\ phase # "dead"
      /\ broken' = broken \cup {Root}
      /\ UNCHANGED <<tree, ret, home, owner, called, erased>>
  BY DEF CallRollback
<1>2. /\ Frame("roll", Root) \in Frames /\ Frame("roll", Root).op = "roll" /\ Frame("roll", Root).at = Root
      /\ Frame("roll", Root).i = 0
  BY RootFacts, FrameType
<1> QED BY <1>1, <1>2, RootEndsExact

LEMMA DestroyExact == ASSUME StationInv, UndoInv, ExactInv, Destroy PROVE ExactInv'
<1>1. /\ stack = <<>> /\ stack' = <<Frame("kill", Root)>> /\ phase' = "dead" /\ phase # "dead"
      /\ broken' = IF queue[Root] = <<>> THEN broken ELSE broken \cup {Root}
      /\ UNCHANGED <<tree, ret, home, owner, called, erased>>
  BY DEF Destroy
<1>2. /\ Frame("kill", Root) \in Frames /\ Frame("kill", Root).op = "kill" /\ Frame("kill", Root).at = Root
      /\ Frame("kill", Root).i = 0
  BY RootFacts, FrameType
<1> QED BY <1>1, <1>2, RootEndsExact

-----------------------------------------------------------------------------
\* What the user adds.
LEMMA HandExact == ASSUME StationInv, UndoInv, ExactInv, NEW s \in Stations, InHand(s)
                   PROVE  /\ phase = "live" /\ Root \notin broken /\ Uses(stack, s)
                          /\ \A f \in Elems(stack) : f.op = "step"
                          /\ stack # <<>> => stack[Len(stack)].op = "step"
                          /\ ret = None
                          /\ Root \in Above(home, s)
<1>1. /\ Uses(stack, s) /\ Root \in Above(home, s)
      /\ \A f \in Elems(stack) : f.op = "step"
  BY InHandFacts
<1>2. CASE stack = <<>>
  <2>1. phase = "live"
    BY <1>2 DEF InHand
  <2> QED BY <1>1, <1>2, <2>1, RootFacts DEF ExactInv, PhaseInv
<1>3. CASE stack # <<>>
  <2>1. Top.op = "step" /\ Top.at \in Leaves
    BY <1>3, StationAssumption DEF InHand
  <2>2. phase = "live" /\ Root \notin broken /\ stack[Len(stack)].op = "step"
    BY <1>3, <2>1, StepLive
  <2>3. Top.at \notin Stations \cup Parallels
    BY <2>1, StationAssumption
  <2>4. ret = None
    BY <2>3 DEF ExactInv, AnswerKept
  <2> QED BY <1>1, <1>3, <2>2, <2>4
<1> QED BY <1>2, <1>3

\* Nobody has anything in hand inside of what is done.
LEMMA DoneOutOfHand == ASSUME StationInv, UndoInv, NEW s \in Stations, Uses(stack, s),
                              NEW t \in Stations, NEW x \in Elems(done[t])
                       PROVE  x \notin Above(home, s)
<1>1. /\ UndoOrder(stack, home, queue, done, Paths, owner) /\ stack \in Seq(Frames)
      /\ StackInv(stack, home) /\ Housed(done, home) /\ done \in [Stations -> Seq(Steps)]
  BY UndoParts DEF CallsInv
<1>2. home[x] = t /\ t # None
  <2>1. \A k \in 1 .. Len(done[t]) : home[done[t][k]] = t
    BY ONLY <1>1, t \in Stations, InHoused
  <2> QED BY <2>1, StationAssumption DEF Elems
<1>3. ASSUME x \in Above(home, s) PROVE FALSE
  <2>1. x \in OnStack(stack)
    BY ONLY <1>1, <1>2, <1>3, Uses(stack, s), s \in Stations, InUse
  <2>2. PICK f \in Elems(stack) : f.at = x
    BY ONLY <2>1 DEF OnStack
  <2>3. ActiveAt(f, t, queue, done, Paths)
    BY <1>1, <1>2, <2>2 DEF UndoOrder, ActiveInv
  <2> QED BY <2>2, <2>3 DEF ActiveAt, Latest
<1> QED BY <1>3

LEMMA GuardExact == ASSUME StationInv, UndoInv, ExactInv, NEW s \in Stations, Guard(s) PROVE ExactInv'
<1>1. /\ InHand(s) /\ Len(owner) < MaxGuards
      /\ guards' = [guards EXCEPT ![s] = <<Len(owner) + 1>> \o @]
      /\ owner' = Append(owner, s)
      /\ UNCHANGED <<queue, done, list, stack, home, called, ret, phase, broken, erased>>
  BY DEF Guard
<1>2. /\ phase = "live" /\ Root \notin broken /\ Uses(stack, s)
      /\ \A f \in Elems(stack) : f.op = "step"
      /\ stack # <<>> => stack[Len(stack)].op = "step"
  BY <1>1, HandExact
<1>3. /\ GuardInv(guards, owner, called) /\ Housed(list, home) /\ list \in [Parallels -> Seq(Steps)]
      /\ home \in [Steps -> Steps \cup {None}]
      /\ guards \in [Stations -> Seq(1 .. MaxGuards)] /\ owner \in Seq(Stations) /\ StationTypeOK
  BY UndoParts DEF StationTypeOK
<1>4. /\ GuardsExact(home, guards, list, phase, owner, called, broken, erased)
      /\ AnswerKept(stack, ret, queue, list, broken) /\ Listed(stack, list)
      /\ BrokenInv(stack, ret, home, queue, done, list, broken)
      /\ LetGoInv(home, queue, done, list, erased) /\ DoneInv(queue, done, list, broken, Paths) /\ ListInv(list)
      /\ PhaseInv(stack, phase, queue, done, guards, broken)
  BY DEF ExactInv
<1>5. PICK n \in Nat : n = Len(owner) /\ DOMAIN Paths = 1 .. n
  BY <1>3, PathFacts
<1>6. PICK gs, o, w : gs = guards' /\ o = owner' /\ w = Paths'
  OBVIOUS
<1>7. /\ o = Append(owner, s) /\ Len(o) = n + 1 /\ o[n + 1] = s
      /\ \A g \in 1 .. n : o[g] = owner[g]
  BY ONLY <1>1, <1>3, <1>5, <1>6, s \in Stations, ElemsAppend
<1>8. \A g \in 1 .. n + 1 : g \in 1 .. n \/ g = n + 1
  BY ONLY n \in Nat
<1>9. /\ n + 1 \in Elems(gs[s]) /\ \A t \in Stations : Elems(guards[t]) \subseteq Elems(gs[t])
  <2>1. gs[s] = <<n + 1>> \o guards[s] /\ \A t \in Stations : t # s => gs[t] = guards[t]
    BY <1>1, <1>3, <1>5, <1>6
  <2>2. n + 1 \in 1 .. MaxGuards
    <3>1. MaxGuards \in Nat /\ n < MaxGuards
      BY StationAssumption, <1>1, <1>5
    <3> QED BY ONLY <3>1, n \in Nat
  <2>3. guards[s] \in Seq(1 .. MaxGuards)
    BY <1>3
  <2>4. Elems(<<n + 1>> \o guards[s]) = {n + 1} \cup Elems(guards[s])
    BY ONLY <2>2, <2>3, ElemsCons
  <2> QED BY ONLY <2>1, <2>4
<1>10. n + 1 \notin Elems(called)
  <2>1. \A m \in 1 .. Len(called) : called[m] \in 1 .. n
    BY ONLY <1>3, <1>5 DEF GuardInv
  <2>2. n + 1 \notin 1 .. n
    BY ONLY n \in Nat
  <2> QED BY ONLY <2>1, <2>2 DEF Elems
<1>11. GuardsExact(home, gs, list, phase, o, called, broken, erased)
  <2>1. ASSUME NEW g \in 1 .. Len(o)
        PROVE  \/ g \in Elems(called) /\ Doomed(o[g], home, list, broken, erased)
               \/ /\ g \notin Elems(called)
                  /\ g \in Elems(gs[o[g]]) \/ Spared(o[g], home, phase, broken, erased)
    <3>1. CASE g = n + 1
      BY ONLY <1>7, <1>9, <1>10, <3>1
    <3>2. CASE g # n + 1
      <4>1. g \in 1 .. n /\ o[g] = owner[g] /\ owner[g] \in Stations
        BY <1>3, <1>5, <1>7, <1>8, <3>2, PathFacts
      <4> QED BY ONLY <1>4, <1>5, <1>9, <4>1 DEF GuardsExact
    <3> QED BY <3>1, <3>2
  <2> QED BY ONLY <2>1 DEF GuardsExact
<1>12. DoneInv(queue, done, list, broken, w)
  <2>1. w = [g \in 1 .. n + 1 |-> Above(home, o[g])]
    <3>1. Paths' = [g \in 1 .. Len(owner') |-> Above(home', owner'[g])]
      BY DEF Paths, Up, Above, Closed
    <3> QED BY ONLY <1>1, <1>6, <1>7, <3>1
  <2>2. Paths = [g \in 1 .. n |-> Above(home, owner[g])]
    BY ONLY <1>5, UpIsAbove DEF Paths
  <2>3. DOMAIN w = 1 .. n + 1 /\ (\A g \in 1 .. n : w[g] = Paths[g]) /\ w[n + 1] = Above(home, s)
    <3>1. \A g \in 1 .. n : g \in 1 .. n + 1
      BY ONLY n \in Nat
    <3>2. n + 1 \in 1 .. n + 1
      BY ONLY n \in Nat
    <3> QED BY ONLY <1>7, <2>1, <2>2, <3>1, <3>2
  <2>4. ASSUME NEW t \in Stations, NEW x \in Elems(done[t]), x \in Parallels, NEW y \in Elems(list[x])
        PROVE  Fresh(w, y)
    <3>1. Fresh(Paths, y)
      BY <1>4, <2>4 DEF DoneInv
    <3>2. x \notin Above(home, s)
      BY <1>2, DoneOutOfHand
    <3>3. home[y] = x /\ x # None
      <4>1. \A k \in 1 .. Len(list[x]) : home[list[x][k]] = x
        BY ONLY <1>3, x \in Parallels, <2>4, InHoused
      <4> QED BY <2>4, <4>1, StationAssumption DEF Elems
    <3>4. s \in Steps
      BY DEF Steps
    <3>5. y \notin Above(home, s)
      BY <1>3, <3>2, <3>3, <3>4, AboveClosed DEF Closed
    <3> QED BY ONLY <1>5, <1>8, <2>3, <3>1, <3>5 DEF Fresh
  <2> QED BY ONLY <1>4, <2>4 DEF DoneInv
<1>13. PhaseInv(stack, phase, queue, done, gs, broken)
  BY <1>2 DEF PhaseInv
<1>14. CallsExact(stack, queue, done, guards, list, erased)'
  BY <1>1, <1>2 DEF CallsExact, RollAt, KillAt
<1> QED BY <1>1, <1>4, <1>6, <1>11, <1>12, <1>13, <1>14 DEF ExactInv

-----------------------------------------------------------------------------
LEMMA AppendDistinct == ASSUME NEW S, NEW s \in Seq(S), NEW e \in S, Distinct(s), e \notin Elems(s)
                        PROVE  Distinct(Append(s, e))
<1> DEFINE t == Append(s, e)
<1>1. /\ Len(s) \in Nat /\ Len(t) = Len(s) + 1 /\ t[Len(s) + 1] = e
      /\ \A k \in 1 .. Len(s) : t[k] = s[k]
  BY ONLY ElemsAppend, s \in Seq(S), e \in S
<1> HIDE DEF t
<1>2. \A k \in 1 .. Len(t) : k = Len(s) + 1 \/ (k \in 1 .. Len(s) /\ t[k] \in Elems(s))
  BY ONLY <1>1 DEF Elems
<1>3. \A i, j \in 1 .. Len(t) : t[i] = t[j] => i = j
  BY ONLY <1>1, <1>2, Distinct(s), e \notin Elems(s) DEF Distinct
<1> QED BY <1>3 DEF Distinct, t

\* A spare step is in nothing in which a guard was armed; putting it somewhere
\* moves nothing else.
LEMMA SpareFresh == ASSUME StationInv, UndoInv, NEW x \in Steps, Spare(x)
                    PROVE  Fresh(Paths, x)
<1>1. /\ home \in [Steps -> Steps \cup {None}] /\ StationTypeOK /\ ArmedInv(Paths)
      /\ home[Root] = None /\ home[x] = None /\ x # Root
  BY UndoParts, RootFacts DEF UndoOrder, Spare
<1>2. ASSUME NEW g \in DOMAIN Paths, x \in Paths[g] PROVE FALSE
  <2>1. PICK o \in Steps : Paths[g] = Above(home, o)
    BY <1>1, PathFacts
  <2>2. Root \in Above(home, o) /\ x \in Above(home, o)
    BY <1>1, <1>2, <2>1 DEF ArmedInv
  <2>3. x = Root
    BY ONLY <1>1, <2>2, o \in Steps, OneEnd
  <2> QED BY <1>1, <2>3
<1> QED BY ONLY <1>2 DEF Fresh

LEMMA HousedExact ==
  ASSUME StationInv, UndoInv, ExactInv, NEW x \in Steps, Spare(x), NEW c \in Stations \cup Parallels,
         home' = [home EXCEPT ![x] = c], x \notin Up(c),
         queue' = IF c \in Stations THEN [queue EXCEPT ![c] = Append(@, x)] ELSE queue,
         list' = IF c \in Parallels THEN [list EXCEPT ![c] = Append(@, x)] ELSE list,
         c \in Stations => \A t \in Stations : c \notin Elems(done[t]),
         c \in Parallels => stack = <<>>,
         phase = "live", ret = None, \A f \in Elems(stack) : f.op = "step",
         UNCHANGED <<done, guards, stack, ret, phase, history>>
  PROVE  ExactInv'
<1>1. /\ home \in [Steps -> Stations \cup Parallels \cup {None}]
      /\ home \in [Steps -> Steps \cup {None}] /\ Housed(list, home)
      /\ queue \in [Stations -> Seq(Steps)] /\ list \in [Parallels -> Seq(Steps)]
      /\ stack \in Seq(Frames) /\ StationTypeOK
  BY UndoParts
<1>2. /\ GuardsExact(home, guards, list, phase, owner, called, broken, erased)
      /\ Listed(stack, list)
      /\ BrokenInv(stack, ret, home, queue, done, list, broken)
      /\ LetGoInv(home, queue, done, list, erased) /\ DoneInv(queue, done, list, broken, Paths) /\ ListInv(list)
      /\ PhaseInv(stack, phase, queue, done, guards, broken)
  BY DEF ExactInv
<1>3. PICK hm, q2, l2 : hm = home' /\ q2 = queue' /\ l2 = list'
  OBVIOUS
<1>4. /\ x # Root /\ home[x] = None /\ hm[x] = c /\ \A y \in Steps : y # x => hm[y] = home[y]
      /\ hm \in [Steps -> Steps \cup {None}] /\ x \notin Above(home, c) /\ c \in Steps
  BY <1>1, <1>3, UpIsAbove DEF Spare, Steps
<1>5. Stations \cap Parallels = {} /\ None \notin Stations \cup Parallels /\ Root \in Stations /\ None # "Failed"
  BY StationAssumption
<1>6. Fresh(Paths, x)
  BY SpareFresh
<1>7. /\ \A b \in Stations : b # c => q2[b] = queue[b]
      /\ \A b \in Parallels : b # c => l2[b] = list[b]
      /\ c \in Stations => q2[c] = Append(queue[c], x) /\ l2 = list
      /\ c \in Parallels => l2[c] = Append(list[c], x) /\ q2 = queue
  BY <1>1, <1>3, <1>5
<1>8. /\ \A b \in Stations : Elems(q2[b]) \subseteq Elems(queue[b]) \cup {x}
      /\ \A b \in Parallels : Elems(l2[b]) \subseteq Elems(list[b]) \cup {x}
  <2>1. c \in Stations => Elems(q2[c]) = Elems(queue[c]) \cup {x}
    <3>1. c \in Stations => queue[c] \in Seq(Steps)
      BY <1>1
    <3>2. c \in Stations => Elems(Append(queue[c], x)) = Elems(queue[c]) \cup {x}
      BY ONLY <3>1, x \in Steps, ElemsAppend
    <3> QED BY ONLY <1>7, <3>2
  <2>2. c \in Parallels => Elems(l2[c]) = Elems(list[c]) \cup {x}
    <3>1. c \in Parallels => list[c] \in Seq(Steps)
      BY <1>1
    <3>2. c \in Parallels => Elems(Append(list[c], x)) = Elems(list[c]) \cup {x}
      BY ONLY <3>1, x \in Steps, ElemsAppend
    <3> QED BY ONLY <1>7, <3>2
  <2> QED BY ONLY <1>7, <2>1, <2>2
\* The guards see what they saw.
<1>9. \A g \in 1 .. Len(owner) : owner[g] \in Steps /\ x \notin Above(home, owner[g])
  BY <1>1, <1>6, PathFacts DEF Fresh
<1>10. \A z \in Steps : x \notin Above(home, z) => Above(hm, z) = Above(home, z)
  <2>1. PutIn(home, hm, x, c)
    BY ONLY <1>4 DEF PutIn
  <2>2. home \in [Steps -> Steps \cup {None}] /\ c \in Steps /\ hm \in [Steps -> Steps \cup {None}]
    BY ONLY <1>1, <1>4
  <2>3. \A z \in Steps : /\ x \notin Above(home, z) => Above(hm, z) = Above(home, z)
                         /\ Above(home, z) \subseteq Above(hm, z)
    BY ONLY <2>1, <2>2, x \in Steps, HousesAbove
  <2> QED BY ONLY <2>3
<1>11. Paths' = Paths
  <2>1. Paths' = [g \in 1 .. Len(owner) |-> Above(hm, owner[g])]
    <3>1. Paths' = [g \in 1 .. Len(owner') |-> Above(home', owner'[g])]
      BY DEF Paths, Up, Above, Closed
    <3>2. owner' = owner
      OBVIOUS
    <3> QED BY ONLY <1>3, <3>1, <3>2
  <2>2. Paths = [g \in 1 .. Len(owner) |-> Above(home, owner[g])]
    BY ONLY UpIsAbove DEF Paths
  <2> QED BY ONLY <1>9, <1>10, <2>1, <2>2
<1>12. ASSUME NEW s \in Steps, x \notin Above(home, s)
       PROVE  /\ Doomed(s, home, list, broken, erased) => Doomed(s, hm, l2, broken, erased)
              /\ Spared(s, home, phase, broken, erased) => Spared(s, hm, phase, broken, erased)
  <2>1. /\ Above(hm, s) = Above(home, s) /\ Above(home, s) \subseteq Steps
        /\ \A z \in Above(home, s) : Above(hm, z) = Above(home, z) /\ hm[z] = home[z] /\ z # x
    <3>1. Above(home, s) \subseteq Steps
      BY <1>1, AboveClosed
    <3>2. \A z \in Above(home, s) : x \notin Above(home, z)
      BY <1>1, <1>12, AboveTrans
    <3> QED BY ONLY <1>4, <1>10, <1>12, <3>1, <3>2
  <2>2. \A z \in Above(home, s) : Standing(hm, l2, z) => Standing(home, list, z)
    BY ONLY <1>8, <2>1 DEF Standing
  <2> QED BY ONLY <2>1, <2>2 DEF Doomed, Spared
<1>13. GuardsExact(hm, guards, l2, phase, owner, called, broken, erased)
  BY ONLY <1>2, <1>9, <1>12 DEF GuardsExact
\* Only c has more than it had, and that is new.
<1>14. \A b \in Stations \cup Parallels : Inside(b, q2, done, l2) \subseteq Inside(b, queue, done, list) \cup {x}
  BY ONLY <1>5, <1>8 DEF Inside
<1>15. x \notin broken /\ x \notin erased /\ broken \subseteq Steps /\ erased \subseteq Steps
  <2>1. x \notin broken
    BY <1>2, <1>4, <1>5 DEF BrokenInv
  <2>2. x \notin erased
    BY <1>2, <1>4 DEF LetGoInv
  <2> QED BY <1>1, <2>1, <2>2 DEF StationTypeOK
<1>16. \A y \in Steps : y # x => /\ hm[y] = home[y]
                                 /\ home[y] # None => home[y] \in Stations \cup Parallels
  BY <1>1, <1>4
<1>17. BrokenInv(stack, ret, hm, q2, done, l2, broken)
  <2>1. ASSUME NEW y \in broken
        PROVE  \/ y = Root
               \/ hm[y] # None /\ y \notin Inside(hm[y], q2, done, l2)
               \/ hm[y] \in Stations /\ hm[y] \in broken
    <3>1. \/ y = Root
          \/ home[y] # None /\ y \notin Inside(home[y], queue, done, list)
          \/ home[y] \in Stations /\ home[y] \in broken
      BY <1>2, <1>5 DEF BrokenInv
    <3> QED BY ONLY <1>14, <1>15, <1>16, <3>1, y \in broken
  <2> QED BY ONLY <1>2, <2>1 DEF BrokenInv
<1>18. LetGoInv(hm, q2, done, l2, erased)
  <2> SUFFICES ASSUME NEW y \in erased PROVE hm[y] # None /\ y \notin Inside(hm[y], q2, done, l2)
    BY DEF LetGoInv
  <2>1. home[y] # None /\ y \notin Inside(home[y], queue, done, list)
    BY <1>2 DEF LetGoInv
  <2> QED BY ONLY <1>14, <1>15, <1>16, <2>1, y \in erased
<1>19. DoneInv(q2, done, l2, broken, Paths)
  <2>1. ASSUME NEW t \in Stations, NEW y \in Elems(done[t])
        PROVE  /\ y \notin broken
               /\ y \in Stations => q2[y] = <<>>
               /\ y \in Parallels => \A z \in Elems(l2[y]) : Fresh(Paths, z)
    <3>1. /\ y \notin broken
          /\ y \in Stations => queue[y] = <<>>
          /\ y \in Parallels => \A z \in Elems(list[y]) : Fresh(Paths, z)
      BY ONLY <1>2, t \in Stations, y \in Elems(done[t]) DEF DoneInv
    <3>2. y \in Stations => y # c
      OBVIOUS
    <3>3. y \in Stations => q2[y] = queue[y]
      BY ONLY <1>7, <3>2, c \in Stations \cup Parallels
    <3> QED BY ONLY <1>6, <1>8, <3>1, <3>3
  <2> QED BY ONLY <2>1 DEF DoneInv
<1>20. ListInv(l2)
  <2> SUFFICES ASSUME NEW p \in Parallels PROVE Distinct(l2[p])
    BY DEF ListInv
  <2>1. Distinct(list[p]) /\ list[p] \in Seq(Steps)
    BY <1>1, <1>2 DEF ListInv
  <2>2. CASE p = c
    <3>1. x \notin Elems(list[p])
      <4>1. \A k \in 1 .. Len(list[p]) : home[list[p][k]] = p
        BY <1>1 DEF Housed
      <4> QED BY <1>4, <1>5, <4>1 DEF Elems
    <3>2. l2[p] = Append(list[p], x)
      BY <1>7, <2>2
    <3> QED BY ONLY <2>1, <3>1, <3>2, x \in Steps, AppendDistinct
  <2>3. CASE p # c
    BY <1>7, <2>1, <2>3
  <2> QED BY <2>2, <2>3
<1>21. PhaseInv(stack, phase, q2, done, guards, broken)
  BY <1>2 DEF PhaseInv
<1>22. Listed(stack, l2)
  <2>1. CASE c \in Stations
    BY <1>2, <1>7, <2>1
  <2>2. CASE c \in Parallels
    <3>1. Len(<<>>) = 0 /\ 1 .. 0 - 1 = {}
      OBVIOUS
    <3>2. Listed(<<>>, l2)
      BY ONLY <3>1 DEF Listed
    <3> QED BY <2>2, <3>2
  <2> QED BY <2>1, <2>2
<1>23. AnswerKept(stack, ret, q2, l2, broken)
  BY DEF AnswerKept
<1>24. CallsExact(stack, queue, done, guards, list, erased)'
  <2>1. stack' = stack
    OBVIOUS
  <2> QED BY <2>1 DEF CallsExact, RollAt, KillAt
<1> QED BY <1>3, <1>11, <1>13, <1>17, <1>18, <1>19, <1>20, <1>21, <1>22, <1>23, <1>24 DEF ExactInv

LEMMA SubStepExact == ASSUME StationInv, UndoInv, ExactInv, NEW s \in Stations, NEW x \in Steps, SubStep(s, x)
                      PROVE  ExactInv'
<1>1. /\ InHand(s) /\ Spare(x)
      /\ queue' = [queue EXCEPT ![s] = Append(@, x)] /\ home' = [home EXCEPT ![x] = s]
      /\ UNCHANGED <<done, guards, list, stack, ret, phase, history>>
  BY DEF SubStep
<1>2. /\ phase = "live" /\ Uses(stack, s) /\ ret = None /\ Root \in Above(home, s)
      /\ \A f \in Elems(stack) : f.op = "step"
  BY <1>1, HandExact
<1>3. s \notin Parallels /\ s \in Steps /\ Root \in Steps
  BY StationAssumption DEF Steps
<1>4. x \notin Up(s)
  <2>1. home \in [Steps -> Steps \cup {None}] /\ home[Root] = None
    BY UndoParts, RootFacts
  <2>2. x # Root /\ home[x] = None
    BY <1>1 DEF Spare
  <2>3. x \notin Above(home, s)
    BY ONLY <1>2, <1>3, <2>1, <2>2, OneEnd
  <2> QED BY <2>3, UpIsAbove
<1>5. \A t \in Stations : s \notin Elems(done[t])
  <2>1. s \in Above(home, s)
    BY <1>3, UndoParts, AboveClosed
  <2> QED BY <1>2, <2>1, DoneOutOfHand
<1> QED BY <1>1, <1>2, <1>3, <1>4, <1>5, HousedExact

LEMMA AddStepExact == ASSUME StationInv, UndoInv, ExactInv, NEW p \in Parallels, NEW x \in Steps, AddStep(p, x)
                      PROVE  ExactInv'
<1>1. /\ stack = <<>> /\ phase = "live" /\ Spare(x) /\ x \notin Up(p)
      /\ list' = [list EXCEPT ![p] = Append(@, x)] /\ home' = [home EXCEPT ![x] = p]
      /\ UNCHANGED <<queue, done, guards, stack, ret, phase, history>>
  BY DEF AddStep
<1>2. p \notin Stations
  BY StationAssumption
<1>3. ret = None /\ Elems(stack) = {}
  BY <1>1, RootFacts, NoElems
<1> QED BY <1>1, <1>2, <1>3, HousedExact

-----------------------------------------------------------------------------
LEMMA ExactStarts == StationInit => ExactInv
<1> SUFFICES ASSUME StationInit PROVE ExactInv
  OBVIOUS
<1> USE DEF StationInit
<1>1. Len(<<>>) = 0 /\ 1 .. 0 = {} /\ 1 .. 0 - 1 = {} /\ Elems(<<>>) = {}
  BY NoElems
<1>2. /\ stack = <<>> /\ ret = None /\ phase = "live" /\ owner = <<>> /\ called = <<>>
      /\ broken = {} /\ erased = {}
      /\ \A s \in Stations : done[s] = <<>>
      /\ \A p \in Parallels : list[p] = <<>>
  OBVIOUS
<1>3. GuardsExact(home, guards, list, phase, owner, called, broken, erased)
  BY ONLY <1>1, <1>2 DEF GuardsExact
<1>4. AnswerKept(stack, ret, queue, list, broken) /\ Listed(stack, list)
  BY ONLY <1>1, <1>2 DEF AnswerKept, Listed
<1>5. /\ BrokenInv(stack, ret, home, queue, done, list, broken)
      /\ LetGoInv(home, queue, done, list, erased)
  BY ONLY <1>1, <1>2 DEF BrokenInv, LetGoInv
<1>6. DoneInv(queue, done, list, broken, Paths) /\ ListInv(list)
  BY ONLY <1>1, <1>2 DEF DoneInv, ListInv, Distinct
<1>7. PhaseInv(stack, phase, queue, done, guards, broken)
  BY ONLY <1>1, <1>2 DEF PhaseInv
<1>8. CallsExact(stack, queue, done, guards, list, erased)
  BY ONLY <1>1, <1>2 DEF CallsExact
<1> QED BY <1>3, <1>4, <1>5, <1>6, <1>7, <1>8 DEF ExactInv

LEMMA ExactUnchanged == ASSUME ExactInv, UNCHANGED stationVars PROVE ExactInv'
<1>1. /\ UNCHANGED <<queue, done, guards, list, stack, ret, phase, home, owner, called, broken, erased>>
      /\ Paths' = Paths
  BY PathsKept DEF stationVars
<1>2. CallsExact(stack, queue, done, guards, list, erased)'
  BY <1>1 DEF ExactInv, CallsExact, RollAt, KillAt
<1> QED BY <1>1, <1>2 DEF ExactInv

LEMMA ExactStepsKeep == ASSUME StationInv, UndoInv, ExactInv, [StationNext]_stationVars PROVE ExactInv'
<1>1. CASE UserStep
  BY <1>1, GuardExact, SubStepExact, AddStepExact, CallStepExact, CallRollbackExact, DestroyExact
     DEF UserStep
<1>2. CASE Stepping
  BY <1>2, LeafStepExact, QueueStepExact, QueueReturnExact, ParallelStepExact,
     ParallelWaitExact, ParallelEraseExact DEF Stepping
<1>3. CASE Undoing
  BY <1>3, PlainReturnExact, RollHeadExact, RollDropExact, RollDoneExact, RollGuardExact,
     KillParallelExact, KillStationExact, KillGuardsExact, KillQueueExact DEF Undoing
<1>4. CASE Done \/ UNCHANGED stationVars
  BY <1>4, ExactUnchanged DEF Done
<1> QED BY <1>1, <1>2, <1>3, <1>4 DEF StationNext

LEMMA ExactCorrect == StationSpec => []ExactInv
<1>1. ExactInv /\ UndoInv /\ StationInv /\ [StationNext]_stationVars => ExactInv'
  BY ExactStepsKeep
<1> QED BY ExactStarts, <1>1, StationCorrect, UndoCorrect, PTL DEF StationSpec

\* When the root has nothing and no call is left, nothing that it ever held has a
\* guard: what does was not taken out, so its container is not empty either.
LEMMA NothingHeld == ASSUME StationInv, UndoInv, stack = <<>>, Emptied(Root, queue, done, guards),
                            NEW s \in Stations, Root \in Above(home, s)
                     PROVE  guards[s] = <<>>
<1> DEFINE A == {y \in Steps : Full(y, queue, done, guards, list)}
<1>1. /\ home \in [Steps -> Stations \cup Parallels \cup {None}]
      /\ TakenOut(stack, home, queue, done, guards, list)
  BY UndoParts
<1>2. ASSUME NEW y \in A, home[y] # None PROVE home[y] \in A
  <2>1. ~Killed(stack, y)
    BY NoElems DEF Killed
  <2>2. y \in Inside(home[y], queue, done, list) /\ home[y] \in Stations \cup Parallels
    BY <1>1, <1>2, <2>1 DEF TakenOut
  <2>3. Stations \cap Parallels = {} /\ Stations \cup Parallels \subseteq Steps
    BY StationAssumption DEF Steps
  <2> QED BY ONLY <2>2, <2>3, NoElems DEF Inside, Full
<1>3. A \in SUBSET Steps /\ Closed(home, A)
  BY <1>2 DEF Closed
<1>4. Root \notin A
  BY StationAssumption DEF Full, Emptied
<1>5. s \in Steps
  BY DEF Steps
<1> HIDE DEF A
<1>6. s \notin A
  BY <1>3, <1>4, AboveLeast
<1> QED BY <1>5, <1>6 DEF A, Full

\* When the root is gone, the guards that have been called are exactly those of
\* stations in something that broke, except those a parallel executor let go at
\* their end, whatever the tree is and on whatever path each part was destroyed:
\* RollbackStation, ~StepCtrlImpl, ~QueueImpl and ParallelStepExcutor::Step
\* (UndoIsExact).
THEOREM UndoneExactly == StationSpec => []UndoIsExact
<1>1. ASSUME StationInv, UndoInv, ExactInv PROVE UndoIsExact
  <2> SUFFICES ASSUME phase = "dead", stack = <<>>, NEW g \in 1 .. Len(owner)
               PROVE  Called(g) <=> \E x \in Up(owner[g]) \cap broken :
                                      \A y \in Up(owner[g]) \cap erased : y \in Up(x)
    BY DEF UndoIsExact
  <2> DEFINE s == owner[g]
  <2>1. s \in Stations /\ Root \in Above(home, s)
    BY <1>1, UndoParts, PathFacts DEF UndoOrder, ArmedInv
  <2>2. Emptied(Root, queue, done, guards)
    BY <1>1, NoElems DEF ExactInv, PhaseInv, Killed
  <2>3. Elems(guards[s]) = {}
    BY <1>1, <2>1, <2>2, NothingHeld, NoElems
  <2>4. Called(g) <=> g \in Elems(called)
    BY DEF Called, Elems
  <2>5. \/ g \in Elems(called) /\ Doomed(s, home, list, broken, erased)
        \/ g \notin Elems(called) /\ Spared(s, home, phase, broken, erased)
    BY <1>1, <2>3 DEF ExactInv, GuardsExact
  <2> HIDE DEF s
  <2>6. Doomed(s, home, list, broken, erased) =>
          \E x \in Up(s) \cap broken : \A y \in Up(s) \cap erased : y \in Up(x)
    BY ONLY UpIsAbove DEF Doomed
  <2>7. Spared(s, home, phase, broken, erased) =>
          ~ \E x \in Up(s) \cap broken : \A y \in Up(s) \cap erased : y \in Up(x)
    BY ONLY UpIsAbove DEF Spared
  <2> QED BY <2>4, <2>5, <2>6, <2>7 DEF s
<1> QED BY <1>1, StationCorrect, UndoCorrect, ExactCorrect, PTL

HIDE DEF tree, history, Enter, Top, Pop, At, SetTop
-----------------------------------------------------------------------------
(***************************************************************************)
(* AsyncPool.  The invariants the runs check are not inductive alone.      *)
(* IInv adds what ties a thread's local variables, the mutex and the set   *)
(* of sleepers to the statement the thread stands at; it is checked by TLC *)
(* as well.                                                                *)
(***************************************************************************)
\* Workers and clients stand at statements of their own code.
PCInv == /\ \A w \in Workers : pc[w] \in WorkerPC
         /\ \A c \in Clients : pc[c] \in ClientPC
         /\ \A c \in Clients : pc[c] \in {"stopping", "joining"} => c = Owner

\* The holder of mutex_ is in a critical section, and no one else is.
MutexInv == \A s \in Threads : pc[s] \in {"push", "pop"} <=> mutex = s

\* The wait set of condition_ is the set of workers inside wait.
SleepInv == \A w \in Workers : w \in sleepers <=> pc[w] = "sleep"

\* A thread has a task to add only up to the push of AddTask, and a worker has
\* one in hand exactly while it is inside Work.
LocalInv == /\ \A s \in Threads : sub[s] # NoTask <=> pc[s] \in {"lockpush", "push"}
            /\ \A w \in Workers :
                 hand[w] # NoTask <=> pc[w] \in {"work", "publish"} \cup InAddTask

\* Whatever is in the pool or done was created, and a result is stored only
\* by the worker that is about to publish it.
IssuedInv == /\ written \subseteq issued
             /\ \A s \in Threads : sub[s] # NoTask => sub[s] \in issued
             /\ \A w \in Workers : hand[w] # NoTask => hand[w] \in issued
             /\ \A i \in 1 .. Len(tasks) : tasks[i] \in issued
             /\ \A w \in Workers : hand[w] # NoTask =>
                                     (hand[w] \in written <=> pc[w] = "publish")

\* While the pool is being ended, or is not there, no client is inside Run.
DownInv == /\ pc[Owner] \in {"stopping", "joining"} =>
                up /\ \A c \in Clients \ {Owner} : pc[c] = "idle"
           /\ ~up => /\ \A c \in Clients : pc[c] = "idle"
                     /\ \A w \in Workers : pc[w] = "off"
                     /\ tasks = <<>>

\* A future is held only of a created task, and by its creator up to the push.
HeldInv == /\ held \subseteq issued
           /\ \A s \in Threads : sub[s] # NoTask => sub[s] \in held

PoolInv == /\ TypeOK /\ PCInv /\ MutexInv /\ SleepInv /\ LocalInv /\ IssuedInv
           /\ DownInv /\ WorkedAtMostOnce /\ ReadyHasResult

IInv == PoolInv /\ HeldInv
-----------------------------------------------------------------------------
USE ThreadAssumption, TaskAssumption DEF Threads
USE DEF IInv, PoolInv, InAddTask, ClientPC, WorkerPC, Goto, Acquire, Release, poolVars,
        promiseVars, Added, Queued, Taken

-----------------------------------------------------------------------------
(***************************************************************************)
(* The steps of the pool, those first that move no task and change nothing *)
(* a user can see.                                                         *)
(***************************************************************************)
LocalSteps == \/ \E s \in Threads : LockPush(s) \/ NotifyOne(s)
              \/ \E w \in Workers : \/ TestRunning(w) \/ CheckEmpty(w) \/ Sleep(w)
                                    \/ SpuriousWake(w) \/ LockPop(w) \/ WriteResult(w)
              \/ Startup \/ BeginShutdown \/ NotifyAll

LEMMA LocalStepsAreSilent ==
  LocalSteps => UNCHANGED <<tasks, sub, hand, issued, held, ready>>
BY DEF LocalSteps, LockPush, NotifyOne, TestRunning, CheckEmpty, Sleep, SpuriousWake,
       LockPop, WriteResult, Startup, BeginShutdown, NotifyAll

LEMMA NextCases ==
  Next => \/ LocalSteps \/ Join
          \/ \E s \in Threads : Push(s) \/ \E t \in Tasks : BeginRun(s, t)
          \/ \E w \in Workers : PopTask(w) \/ SetReady(w)
          \/ \E t \in Tasks : DropFuture(t)
BY DEF Next, ClientStep, WorkerStep, OwnerStep, LocalSteps

-----------------------------------------------------------------------------
LEMMA BeginRunStep ==
  ASSUME NEW s \in Threads, NEW t \in Tasks, IInv, BeginRun(s, t)
  PROVE  PoolInv'
<1>1. TypeOK' /\ PCInv' /\ MutexInv' /\ SleepInv' /\ IssuedInv' /\
      DownInv' /\ ReadyHasResult'
  BY DEF TypeOK, PCInv, MutexInv, SleepInv, IssuedInv, DownInv, ReadyHasResult,
      BeginRun, MayRun
<1>2. LocalInv'
  BY DEF TypeOK, LocalInv, BeginRun, MayRun
<1>3. WorkedAtMostOnce'
  BY DEF IssuedInv, WorkedAtMostOnce, BeginRun, MayRun
<1>4. QED BY <1>1, <1>2, <1>3 DEF PoolInv

LEMMA LockPushStep ==
  ASSUME NEW s \in Threads, IInv, LockPush(s)
  PROVE  PoolInv'
<1>1. TypeOK' /\ PCInv' /\ SleepInv' /\ LocalInv' /\ IssuedInv' /\
      DownInv' /\ WorkedAtMostOnce' /\ ReadyHasResult'
  BY DEF TypeOK, PCInv, SleepInv, LocalInv, IssuedInv, DownInv,
      WorkedAtMostOnce, ReadyHasResult, LockPush
<1>2. MutexInv'
  BY DEF TypeOK, MutexInv, LockPush
<1>3. QED BY <1>1, <1>2 DEF PoolInv

LEMMA PushStep ==
  ASSUME NEW s \in Threads, IInv, Push(s)
  PROVE  PoolInv'
<1>1. PCInv' /\ SleepInv' /\ DownInv' /\ ReadyHasResult'
  BY DEF PCInv, SleepInv, DownInv, ReadyHasResult, Push
<1>2. TypeOK'
  BY DEF TypeOK, LocalInv, Push
<1>3. MutexInv'
  BY DEF TypeOK, MutexInv, Push
<1>4. LocalInv'
  BY DEF TypeOK, LocalInv, Push
<1>5. IssuedInv'
  BY DEF LocalInv, IssuedInv, Push
<1>6. WorkedAtMostOnce'
  BY SMTT(30) DEF TypeOK, PCInv, WorkedAtMostOnce, Push
<1>7. QED BY <1>1, <1>2, <1>3, <1>4, <1>5, <1>6 DEF PoolInv

LEMMA NotifyOneStep ==
  ASSUME NEW s \in Threads, IInv, NotifyOne(s)
  PROVE  PoolInv'
<1>1. TypeOK' /\ WorkedAtMostOnce'
  BY DEF TypeOK, WorkedAtMostOnce, NotifyOne, Caller
<1>2. PCInv'
  BY DEF TypeOK, PCInv, NotifyOne, Caller
<1>3. MutexInv'
  BY DEF TypeOK, MutexInv, SleepInv, NotifyOne, Caller
<1>4. SleepInv'
  BY DEF TypeOK, SleepInv, NotifyOne, Caller
<1>5. LocalInv'
  BY DEF TypeOK, SleepInv, LocalInv, NotifyOne, Caller
<1>6. IssuedInv'
  BY DEF TypeOK, SleepInv, IssuedInv, NotifyOne, Caller
<1>7. DownInv'
  BY DEF TypeOK, DownInv, NotifyOne, Caller
<1>8. ReadyHasResult'
  BY DEF TypeOK, SleepInv, ReadyHasResult, NotifyOne, Caller
<1>9. QED BY <1>1, <1>2, <1>3, <1>4, <1>5, <1>6, <1>7, <1>8 DEF PoolInv

LEMMA DropFutureStep ==
  ASSUME NEW t \in Tasks, IInv, DropFuture(t)
  PROVE  PoolInv'
<1>1. TypeOK' /\ PCInv' /\ MutexInv' /\ SleepInv' /\ LocalInv' /\
      IssuedInv' /\ DownInv' /\ WorkedAtMostOnce' /\ ReadyHasResult'
  BY DEF TypeOK, PCInv, MutexInv, SleepInv, LocalInv, IssuedInv, DownInv,
      WorkedAtMostOnce, ReadyHasResult, DropFuture
<1>2. QED BY <1>1 DEF PoolInv

LEMMA TestRunningStep ==
  ASSUME NEW w \in Workers, IInv, TestRunning(w)
  PROVE  PoolInv'
<1>1. TypeOK' /\ PCInv' /\ MutexInv' /\ SleepInv' /\ LocalInv' /\
      IssuedInv' /\ DownInv' /\ WorkedAtMostOnce' /\ ReadyHasResult'
  BY DEF TypeOK, PCInv, MutexInv, SleepInv, LocalInv, IssuedInv, DownInv,
      WorkedAtMostOnce, ReadyHasResult, TestRunning
<1>2. QED BY <1>1 DEF PoolInv

LEMMA CheckEmptyStep ==
  ASSUME NEW w \in Workers, IInv, CheckEmpty(w)
  PROVE  PoolInv'
<1>1. TypeOK' /\ PCInv' /\ MutexInv' /\ SleepInv' /\ LocalInv' /\
      IssuedInv' /\ DownInv' /\ WorkedAtMostOnce' /\ ReadyHasResult'
  BY DEF TypeOK, PCInv, MutexInv, SleepInv, LocalInv, IssuedInv, DownInv,
      WorkedAtMostOnce, ReadyHasResult, CheckEmpty
<1>2. QED BY <1>1 DEF PoolInv

LEMMA SleepStep ==
  ASSUME NEW w \in Workers, IInv, Sleep(w)
  PROVE  PoolInv'
<1>1. TypeOK' /\ PCInv' /\ MutexInv' /\ LocalInv' /\ IssuedInv' /\
      DownInv' /\ WorkedAtMostOnce' /\ ReadyHasResult'
  BY DEF TypeOK, PCInv, MutexInv, LocalInv, IssuedInv, DownInv,
      WorkedAtMostOnce, ReadyHasResult, Sleep
<1>2. SleepInv'
  BY DEF TypeOK, SleepInv, Sleep
<1>3. QED BY <1>1, <1>2 DEF PoolInv

LEMMA SpuriousWakeStep ==
  ASSUME NEW w \in Workers, IInv, SpuriousWake(w)
  PROVE  PoolInv'
<1>1. TypeOK' /\ PCInv' /\ WorkedAtMostOnce'
  BY DEF TypeOK, PCInv, WorkedAtMostOnce, SpuriousWake
<1>2. MutexInv'
  BY DEF MutexInv, SleepInv, SpuriousWake
<1>3. SleepInv'
  BY DEF TypeOK, SleepInv, SpuriousWake
<1>4. LocalInv'
  BY DEF SleepInv, LocalInv, SpuriousWake
<1>5. IssuedInv'
  BY DEF SleepInv, IssuedInv, SpuriousWake
<1>6. DownInv'
  BY DEF SleepInv, DownInv, SpuriousWake
<1>7. ReadyHasResult'
  BY DEF SleepInv, ReadyHasResult, SpuriousWake
<1>8. QED BY <1>1, <1>2, <1>3, <1>4, <1>5, <1>6, <1>7 DEF PoolInv

LEMMA LockPopStep ==
  ASSUME NEW w \in Workers, IInv, LockPop(w)
  PROVE  PoolInv'
<1>1. TypeOK' /\ PCInv' /\ SleepInv' /\ LocalInv' /\ IssuedInv' /\
      DownInv' /\ WorkedAtMostOnce' /\ ReadyHasResult'
  BY DEF TypeOK, PCInv, SleepInv, LocalInv, IssuedInv, DownInv,
      WorkedAtMostOnce, ReadyHasResult, LockPop
<1>2. MutexInv'
  BY DEF TypeOK, MutexInv, LockPop
<1>3. QED BY <1>1, <1>2 DEF PoolInv

\* The empty queue, and what is left of a queue behind its place i.
LEMMA EmptyQueue == <<>> \in Seq(Tasks) /\ Len(<<>>) = 0
OBVIOUS

LEMMA RestOfQueue ==
  ASSUME NEW S, NEW q \in Seq(S), NEW i \in 1 .. Len(q)
  PROVE  LET rest == SubSeq(q, i + 1, Len(q))
         IN  /\ rest \in Seq(S)
             /\ Len(rest) = Len(q) - i
             /\ \A j \in 1 .. Len(rest) : i + j \in 1 .. Len(q) /\ rest[j] = q[i + j]
OBVIOUS

LEMMA PopTaskStep ==
  ASSUME NEW w \in Workers, IInv, PopTask(w)
  PROVE  PoolInv'
<1>1. MutexInv' /\ SleepInv' /\ DownInv' /\ ReadyHasResult'
  BY EmptyQueue
     DEF TypeOK, MutexInv, SleepInv, DownInv, ReadyHasResult, PopTask, FirstLive
<1>2. LocalInv'
  BY DEF TypeOK, PCInv, LocalInv, PopTask, FirstLive
<1>3. w \in Threads /\ pc[w] = "pop" /\ hand[w] = NoTask
  BY DEF LocalInv, PopTask
<1>4. ASSUME tasks' = <<>>, pc' = [pc EXCEPT ![w] = "loop"], UNCHANGED hand
      PROVE  TypeOK' /\ PCInv' /\ IssuedInv' /\ WorkedAtMostOnce'
  <2>1. TypeOK' /\ PCInv'
    BY <1>4, EmptyQueue DEF TypeOK, PCInv, PopTask
  <2>2. IssuedInv' /\ WorkedAtMostOnce'
    BY <1>3, <1>4, EmptyQueue DEF TypeOK, IssuedInv, WorkedAtMostOnce, PopTask
  <2>3. QED BY <2>1, <2>2
<1>5. ASSUME NEW i \in 1 .. Len(tasks),
             hand' = [hand EXCEPT ![w] = tasks[i]],
             tasks' = SubSeq(tasks, i + 1, Len(tasks)),
             pc' = [pc EXCEPT ![w] = "work"]
      PROVE  TypeOK' /\ PCInv' /\ IssuedInv' /\ WorkedAtMostOnce'
  <2>1. /\ tasks' \in Seq(Tasks) /\ Len(tasks') = Len(tasks) - i
        /\ \A j \in 1 .. Len(tasks') :
             i + j \in 1 .. Len(tasks) /\ tasks'[j] = tasks[i + j]
    BY <1>5, RestOfQueue DEF TypeOK
  <2>2. tasks[i] \in Tasks /\ tasks[i] \in issued /\ tasks[i] \notin written
    BY <1>5 DEF TypeOK, IssuedInv, WorkedAtMostOnce
  <2>3. TypeOK' /\ PCInv'
    BY <1>5, <2>1, <2>2 DEF TypeOK, PCInv, PopTask
  <2>4. IssuedInv'
    BY <1>3, <1>5, <2>1, <2>2 DEF TypeOK, IssuedInv, PopTask
  <2>5. \A j \in 1 .. Len(tasks') : tasks'[j] # tasks[i]
    <3>1. SUFFICES ASSUME NEW j \in 1 .. Len(tasks') PROVE tasks[i + j] # tasks[i]
      BY <2>1
    <3>2. i + j \in 1 .. Len(tasks) /\ i + j # i
      BY <1>5, <2>1
    <3>3. QED BY <1>5, <3>2 DEF WorkedAtMostOnce
  <2>6. \A t \in Tasks : Queued(t)' => Queued(t) /\ t # tasks[i]
    <3>1. SUFFICES ASSUME NEW t \in Tasks, NEW j \in 1 .. Len(tasks'), tasks'[j] = t
                   PROVE  Queued(t) /\ t # tasks[i]
      OBVIOUS
    <3>2. i + j \in 1 .. Len(tasks) /\ tasks[i + j] = t
      BY <2>1, <3>1
    <3>3. QED BY <2>5, <3>1, <3>2
  <2>7. \A j, k \in 1 .. Len(tasks') : tasks'[j] = tasks'[k] => j = k
    <3>1. SUFFICES ASSUME NEW j \in 1 .. Len(tasks'), NEW k \in 1 .. Len(tasks'),
                          tasks'[j] = tasks'[k]
                   PROVE  j = k
      OBVIOUS
    <3>2. i + j \in 1 .. Len(tasks) /\ i + k \in 1 .. Len(tasks)
          /\ tasks[i + j] = tasks[i + k]
      BY <2>1, <3>1
    <3>3. i + j = i + k
      BY <3>2 DEF WorkedAtMostOnce
    <3>4. i \in Nat /\ j \in Nat /\ k \in Nat
      OBVIOUS
    <3>5. QED BY <3>3, <3>4
  <2>8. \A t \in Tasks : Taken(t)' => Taken(t) \/ t = tasks[i]
    BY <1>5 DEF TypeOK
  <2>9. /\ Queued(tasks[i]) /\ ~Added(tasks[i]) /\ ~Taken(tasks[i])
        /\ tasks[i] \notin ready
    BY <1>5, <2>2 DEF WorkedAtMostOnce, ReadyHasResult
  <2>10. \A w1, w2 \in Workers : hand'[w1] = hand'[w2] /\ hand'[w1] # NoTask => w1 = w2
    BY <1>5, <2>9 DEF TypeOK, WorkedAtMostOnce
  <2>11. WorkedAtMostOnce'
    <3>1. UNCHANGED <<sub, written, ready>>
      BY DEF PopTask
    <3>2. \A t \in Tasks : Added(t)' <=> Added(t)
      BY <3>1
    <3>3. \A t \in Tasks : /\ Added(t)' => ~Queued(t)' /\ ~Taken(t)' /\ t \notin written'
                           /\ Queued(t)' => ~Taken(t)' /\ t \notin written'
                           /\ t \in ready' => ~Taken(t)'
      BY <2>6, <2>8, <2>9, <3>1, <3>2 DEF WorkedAtMostOnce
    <3>4. QED BY <2>7, <2>10, <3>1, <3>3 DEF WorkedAtMostOnce
  <2>12. QED BY <2>3, <2>4, <2>11
<1>6. QED BY <1>1, <1>2, <1>4, <1>5 DEF PopTask, PoolInv

LEMMA WriteResultStep ==
  ASSUME NEW w \in Workers, IInv, WriteResult(w)
  PROVE  PoolInv'
<1>1. PCInv' /\ MutexInv' /\ SleepInv' /\ LocalInv' /\ DownInv' /\
      WorkedAtMostOnce'
  BY DEF PCInv, MutexInv, SleepInv, LocalInv, DownInv, WorkedAtMostOnce,
      WriteResult
<1>2. TypeOK'
  BY DEF TypeOK, LocalInv, WriteResult
<1>3. IssuedInv'
  BY DEF TypeOK, LocalInv, IssuedInv, WorkedAtMostOnce, WriteResult
<1>4. ReadyHasResult'
  BY DEF TypeOK, ReadyHasResult, WriteResult
<1>5. QED BY <1>1, <1>2, <1>3, <1>4 DEF PoolInv

LEMMA SetReadyStep ==
  ASSUME NEW w \in Workers, IInv, SetReady(w)
  PROVE  PoolInv'
<1>1. PCInv' /\ MutexInv' /\ SleepInv' /\ DownInv'
  BY DEF PCInv, MutexInv, SleepInv, DownInv, SetReady
<1>2. TypeOK'
  BY DEF TypeOK, LocalInv, SetReady
<1>3. LocalInv'
  BY DEF TypeOK, LocalInv, SetReady
<1>4. IssuedInv'
  BY DEF TypeOK, IssuedInv, SetReady
<1>5. WorkedAtMostOnce'
  BY DEF TypeOK, WorkedAtMostOnce, SetReady
<1>6. ReadyHasResult'
  BY DEF LocalInv, IssuedInv, ReadyHasResult, SetReady
<1>7. QED BY <1>1, <1>2, <1>3, <1>4, <1>5, <1>6 DEF PoolInv

LEMMA StartupStep ==
  ASSUME IInv, Startup
  PROVE  PoolInv'
<1>1. TypeOK' /\ PCInv' /\ DownInv' /\ WorkedAtMostOnce'
  BY DEF TypeOK, PCInv, DownInv, WorkedAtMostOnce, Startup
<1>2. MutexInv'
  BY DEF MutexInv, DownInv, Startup
<1>3. SleepInv'
  BY DEF SleepInv, DownInv, Startup
<1>4. LocalInv'
  BY DEF LocalInv, DownInv, Startup
<1>5. IssuedInv'
  BY DEF IssuedInv, DownInv, Startup
<1>6. ReadyHasResult'
  BY DEF DownInv, ReadyHasResult, Startup
<1>7. QED BY <1>1, <1>2, <1>3, <1>4, <1>5, <1>6 DEF PoolInv

LEMMA BeginShutdownStep ==
  ASSUME IInv, BeginShutdown
  PROVE  PoolInv'
<1>1. PCInv' /\ MutexInv' /\ SleepInv' /\ LocalInv' /\ IssuedInv' /\
      DownInv' /\ WorkedAtMostOnce' /\ ReadyHasResult'
  BY DEF PCInv, MutexInv, SleepInv, LocalInv, IssuedInv, DownInv,
      WorkedAtMostOnce, ReadyHasResult, BeginShutdown
<1>2. TypeOK'
  BY DEF TypeOK, BeginShutdown
<1>3. QED BY <1>1, <1>2 DEF PoolInv

LEMMA NotifyAllStep ==
  ASSUME IInv, NotifyAll
  PROVE  PoolInv'
<1>1. TypeOK' /\ SleepInv' /\ WorkedAtMostOnce'
  BY DEF TypeOK, SleepInv, WorkedAtMostOnce, NotifyAll
<1>2. PCInv'
  BY DEF TypeOK, PCInv, NotifyAll
<1>3. MutexInv'
  BY DEF TypeOK, MutexInv, SleepInv, NotifyAll
<1>4. LocalInv'
  BY DEF TypeOK, SleepInv, LocalInv, NotifyAll
<1>5. IssuedInv'
  BY DEF SleepInv, IssuedInv, NotifyAll
<1>6. DownInv'
  BY DEF TypeOK, DownInv, NotifyAll
<1>7. ReadyHasResult'
  BY DEF SleepInv, ReadyHasResult, NotifyAll
<1>8. QED BY <1>1, <1>2, <1>3, <1>4, <1>5, <1>6, <1>7 DEF PoolInv

LEMMA JoinStep ==
  ASSUME IInv, Join
  PROVE  PoolInv'
<1>1. PCInv' /\ MutexInv' /\ SleepInv' /\ LocalInv' /\ IssuedInv' /\
      WorkedAtMostOnce' /\ ReadyHasResult'
  BY DEF PCInv, MutexInv, SleepInv, LocalInv, IssuedInv, WorkedAtMostOnce,
      ReadyHasResult, Join
<1>2. TypeOK'
  BY EmptyQueue DEF TypeOK, Join
<1>3. DownInv'
  BY DEF TypeOK, DownInv, Join
<1>4. QED BY <1>1, <1>2, <1>3 DEF PoolInv

LEMMA HeldStep == IInv /\ [Next]_vars => HeldInv'
<1>1. SUFFICES ASSUME IInv, [Next]_vars PROVE HeldInv'
  OBVIOUS
<1>2. CASE LocalSteps \/ Join \/ UNCHANGED vars
  BY <1>1, <1>2, LocalStepsAreSilent DEF HeldInv, Join, vars
<1>3. ASSUME NEW s \in Threads, NEW t \in Tasks, BeginRun(s, t) PROVE HeldInv'
  BY <1>1, <1>3 DEF TypeOK, HeldInv, BeginRun
<1>4. ASSUME NEW s \in Threads, Push(s) PROVE HeldInv'
  BY <1>1, <1>4 DEF TypeOK, HeldInv, Push
<1>5. ASSUME NEW w \in Workers, PopTask(w) \/ SetReady(w) PROVE HeldInv'
  BY <1>1, <1>5 DEF HeldInv, PopTask, SetReady
<1>6. ASSUME NEW t \in Tasks, DropFuture(t) PROVE HeldInv'
  BY <1>1, <1>6 DEF HeldInv, DropFuture
<1>7. QED BY <1>1, <1>2, <1>3, <1>4, <1>5, <1>6, NextCases

-----------------------------------------------------------------------------
LEMMA InitIInv == Init => IInv
<1>1. SUFFICES ASSUME Init PROVE IInv
  OBVIOUS
<1>2. TypeOK /\ PCInv /\ MutexInv /\ SleepInv /\ LocalInv
  BY <1>1, EmptyQueue DEF Init, TypeOK, PCInv, MutexInv, SleepInv, LocalInv
<1>3. IssuedInv /\ DownInv /\ WorkedAtMostOnce /\ ReadyHasResult /\ HeldInv
  BY <1>1, EmptyQueue
     DEF Init, IssuedInv, DownInv, WorkedAtMostOnce, ReadyHasResult, HeldInv
<1>4. QED BY <1>2, <1>3

LEMMA NextIInv == IInv /\ [Next]_vars => IInv'
<1>1. SUFFICES ASSUME IInv, [Next]_vars PROVE IInv'
  OBVIOUS
<1>2. ASSUME NEW s \in Threads, ClientStep(s) PROVE PoolInv'
  BY <1>1, <1>2, BeginRunStep, LockPushStep, PushStep, NotifyOneStep DEF ClientStep
<1>3. ASSUME NEW w \in Workers, WorkerStep(w) PROVE PoolInv'
  BY <1>1, <1>3, TestRunningStep, CheckEmptyStep, SleepStep, SpuriousWakeStep,
     LockPopStep, PopTaskStep, WriteResultStep, SetReadyStep DEF WorkerStep
<1>4. ASSUME OwnerStep PROVE PoolInv'
  BY <1>1, <1>4, StartupStep, BeginShutdownStep, NotifyAllStep, JoinStep DEF OwnerStep
<1>5. ASSUME NEW t \in Tasks, DropFuture(t) PROVE PoolInv'
  BY <1>1, <1>5, DropFutureStep
<1>6. ASSUME UNCHANGED vars PROVE PoolInv'
  BY <1>1, <1>6 DEF vars, TypeOK, PCInv, MutexInv, SleepInv, LocalInv, IssuedInv,
     DownInv, WorkedAtMostOnce, ReadyHasResult
<1>7. HeldInv'
  BY <1>1, HeldStep
<1>8. QED BY <1>1, <1>2, <1>3, <1>4, <1>5, <1>6, <1>7 DEF Next

\* The strengthened invariant holds of every reachable state.
THEOREM Invariance == Spec => []IInv
BY InitIInv, NextIInv, PTL DEF Spec

\* Every variable has its type in every state of every pool.
THEOREM TypeCorrect == Spec => []TypeOK
<1>1. IInv => TypeOK
  OBVIOUS
<1>2. QED BY <1>1, Invariance, PTL

\* No task is worked twice, whatever the number of threads.
THEOREM AtMostOnce == Spec => []WorkedAtMostOnce
<1>1. IInv => WorkedAtMostOnce
  OBVIOUS
<1>2. QED BY <1>1, Invariance, PTL

\* A ready future always has a complete result.
THEOREM ReadyIsComplete == Spec => []ReadyHasResult
<1>1. IInv => ReadyHasResult
  OBVIOUS
<1>2. QED BY <1>1, Invariance, PTL

\* Nothing of the pool is in use once Shutdown has returned.
THEOREM QuiescenceAfterShutdown == Spec => []QuiescentWhenDown
<1>1. IInv => QuiescentWhenDown
  <2>1. SUFFICES ASSUME IInv, ~up PROVE QuiescentWhenDown
    BY DEF QuiescentWhenDown
  <2>2. /\ \A c \in Clients : pc[c] = "idle"
        /\ \A w \in Workers : pc[w] = "off"
        /\ tasks = <<>>
    BY <2>1 DEF DownInv
  <2>3. /\ \A s \in Threads : sub[s] = NoTask
        /\ \A w \in Workers : hand[w] = NoTask
    BY <2>1, <2>2 DEF LocalInv
  <2>4. sleepers = {} /\ mutex = NoThread
    BY <2>1, <2>2 DEF TypeOK, SleepInv, MutexInv
  <2>5. QED BY <2>2, <2>3, <2>4 DEF QuiescentWhenDown
<1>2. QED BY <1>1, Invariance, PTL
InPool(t) == Added(t) \/ Queued(t) \/ Taken(t)

LEMMA NotLostStep ==
  ASSUME IInv, [Next]_vars, NEW t \in Tasks, InPool(t), ~InPool(t)'
  PROVE  t \in ready' \/ IsAbandoned(t) \/ (up /\ ~up')
<1>1. CASE LocalSteps \/ (\E u \in Tasks : DropFuture(u)) \/ UNCHANGED vars
  <2>1. UNCHANGED <<tasks, sub, hand>>
    BY <1>1, LocalStepsAreSilent DEF DropFuture, vars
  <2>2. QED BY <2>1 DEF InPool
<1>2. CASE Join
  BY <1>2 DEF Join, DownInv
<1>3. ASSUME NEW s \in Threads, NEW u \in Tasks, BeginRun(s, u) PROVE FALSE
  <2>1. sub[s] = NoTask /\ UNCHANGED <<tasks, hand>>
    BY <1>3 DEF BeginRun, MayRun, LocalInv
  <2>2. Added(t) => Added(t)'
    BY <1>3, <2>1 DEF BeginRun, TypeOK
  <2>3. QED BY <2>1, <2>2 DEF InPool
<1>4. ASSUME NEW s \in Threads, Push(s) PROVE FALSE
  <2>1. /\ tasks \in Seq(Tasks) /\ sub[s] \in Tasks /\ UNCHANGED hand
        /\ tasks' = Append(tasks, sub[s]) /\ sub' = [sub EXCEPT ![s] = NoTask]
    BY <1>4 DEF Push, LocalInv, TypeOK
  <2>2. /\ tasks'[Len(tasks) + 1] = sub[s] /\ Len(tasks) + 1 \in 1 .. Len(tasks')
        /\ \A i \in 1 .. Len(tasks) : i \in 1 .. Len(tasks') /\ tasks'[i] = tasks[i]
    BY <2>1
  <2>3. (Added(t) => Added(t)' \/ Queued(t)') /\ (Queued(t) => Queued(t)')
    BY <2>1, <2>2 DEF TypeOK
  <2>4. QED BY <2>1, <2>3 DEF InPool
<1>5. ASSUME NEW w \in Workers, PopTask(w) PROVE IsAbandoned(t)
  <2>1. /\ UNCHANGED sub /\ w \in Threads /\ hand[w] = NoTask /\ tasks \in Seq(Tasks)
        /\ hand \in [Workers -> Tasks \cup {NoTask}]
    BY <1>5 DEF PopTask, LocalInv, TypeOK
  <2>2. Taken(t) => Taken(t)'
    BY <1>5, <2>1 DEF PopTask
  <2>3. PICK k \in 1 .. Len(tasks) : tasks[k] = t
    BY <2>1, <2>2 DEF InPool
  <2>4. ASSUME NEW i \in 1 .. Len(tasks), FirstLive(i),
               hand' = [hand EXCEPT ![w] = tasks[i]],
               tasks' = SubSeq(tasks, i + 1, Len(tasks))
        PROVE  k < i
    <3>1. k # i
      BY <2>1, <2>3, <2>4 DEF InPool
    <3>2. SUFFICES ASSUME k > i PROVE FALSE
      BY <3>1, <2>1
    <3>3. /\ Len(tasks') = Len(tasks) - i
          /\ \A j \in 1 .. Len(tasks') : tasks'[j] = tasks[i + j]
      BY <2>1, <2>4, RestOfQueue
    <3>4. k - i \in 1 .. Len(tasks') /\ i + (k - i) = k
      BY <2>1, <3>2, <3>3
    <3>5. QED BY <2>3, <3>3, <3>4 DEF InPool
  <2>5. QED BY <1>5, <2>3, <2>4 DEF PopTask, FirstLive
<1>6. ASSUME NEW w \in Workers, SetReady(w) PROVE t \in ready'
  BY <1>6 DEF SetReady, InPool, TypeOK
<1>7. QED BY <1>1, <1>2, <1>3, <1>4, <1>5, <1>6, NextCases

\* No task disappears from the pool, except in the three ways TasksAreNotLost names.
THEOREM NothingIsLost == Spec => TasksAreNotLost
<1>1. IInv /\ [Next]_vars =>
        [\A t \in Tasks : InPool(t) /\ ~InPool(t)' =>
                            t \in ready' \/ IsAbandoned(t) \/ (up /\ ~up')]_vars
  BY NotLostStep
<1>2. QED BY <1>1, Invariance, PTL DEF Spec, TasksAreNotLost, InPool
-----------------------------------------------------------------------------
LEMMA ServiceInit == Init => Service!Init
BY DEF Init, Service!Init

\* Each step of a pool that satisfies IInv is a step of the service, or none.
LEMMA ServiceStep == IInv /\ [Next]_vars => [Service!Next]_(Service!vars)
<1>1. SUFFICES ASSUME IInv, [Next]_vars PROVE Service!Next \/ UNCHANGED Service!vars
  OBVIOUS
<1> DEFINE adding == {sub[s] : s \in Threads}
           active == {hand[w] : w \in Workers} \ {NoTask}
<1>2. CASE LocalSteps \/ UNCHANGED vars
  <2>1. UNCHANGED <<tasks, sub, hand, issued, held, ready>>
    BY <1>2, LocalStepsAreSilent DEF vars
  <2>2. QED BY <2>1 DEF Service!vars
<1>3. CASE Join
  <2>1. active = {}
    BY <1>1, <1>3 DEF Join, LocalInv
  <2>2. Service!Close
    BY <1>3, <2>1 DEF Join, Service!Close
  <2>3. QED BY <2>2 DEF Service!Next
<1>4. ASSUME NEW s \in Threads, NEW t \in Tasks, BeginRun(s, t) PROVE Service!Want(t)
  <2>1. sub[s] = NoTask /\ sub' = [sub EXCEPT ![s] = t] /\ sub \in [Threads -> Tasks \cup {NoTask}]
    BY <1>1, <1>4 DEF BeginRun, MayRun, LocalInv, TypeOK
  <2>2. (issued \ adding)' = issued \ adding
    BY <1>1, <1>4, <2>1 DEF BeginRun, TypeOK
  <2>3. t \notin held
    BY <1>1, <1>4 DEF BeginRun, HeldInv
  <2>4. QED BY <1>4, <2>2, <2>3 DEF BeginRun, Service!Want
<1>5. ASSUME NEW s \in Threads, Push(s) PROVE \E t \in Tasks : Service!Accept(t)
  <2>1. sub[s] \in Tasks /\ sub[s] \in issued /\ sub' = [sub EXCEPT ![s] = NoTask]
    BY <1>1, <1>5 DEF Push, LocalInv, TypeOK, IssuedInv
  <2>2. (issued \ adding)' = (issued \ adding) \cup {sub[s]}
    <3>1. \A s2 \in Threads : s2 # s => sub[s2] # sub[s]
      BY <1>1, <2>1 DEF WorkedAtMostOnce, TypeOK
    <3>2. sub \in [Threads -> Tasks \cup {NoTask}] /\ issued \subseteq Tasks
          /\ issued' = issued
      BY <1>1, <1>5 DEF TypeOK, Push
    <3>3. sub[s] \notin adding'
      BY <2>1, <3>1, <3>2, TaskAssumption
    <3>4. \A t \in Tasks \ {sub[s]} : t \in adding' <=> t \in adding
      BY <2>1, <3>2, TaskAssumption
    <3>5. QED BY <2>1, <3>2, <3>3, <3>4
  <2>3. sub[s] \in held
    BY <1>1, <2>1 DEF HeldInv
  <2>4. sub[s] \in held \ (issued \ adding)
    BY <2>3
  <2>5. /\ tasks' = Append(tasks, sub[s])
        /\ active' = active /\ ready' = ready /\ held' = held
    BY <1>5 DEF Push
  <2>6. Service!Accept(sub[s])
    BY <2>2, <2>4, <2>5, Zenon DEF Service!Accept
  <2>7. QED BY <2>1, <2>6, Zenon DEF Service!Accept
<1>6. ASSUME NEW w \in Workers, PopTask(w)
      PROVE  Service!Discard \/ \E i \in 1 .. Len(tasks) : Service!Take(i)
  <2>1. hand[w] = NoTask /\ hand \in [Workers -> Tasks \cup {NoTask}]
    BY <1>1, <1>6 DEF PopTask, LocalInv, TypeOK
  <2>2. ASSUME NEW i \in 1 .. Len(tasks), FirstLive(i),
               hand' = [hand EXCEPT ![w] = tasks[i]],
               tasks' = SubSeq(tasks, i + 1, Len(tasks))
        PROVE  Service!Take(i)
    <3>1. tasks[i] # NoTask
      BY <1>1, <2>2 DEF TypeOK
    <3>2. active' = active \cup {tasks[i]}
      <4>1. /\ hand'[w] = tasks[i]
            /\ \A w2 \in Workers \ {w} : hand'[w2] = hand[w2]
        BY <2>1, <2>2
      <4>2. active' = {hand'[w2] : w2 \in Workers} \ {NoTask}
        OBVIOUS
      <4>3. ASSUME NEW x \in active' PROVE x \in active \cup {tasks[i]}
        BY <4>1, <4>2, <4>3
      <4>4. ASSUME NEW x \in active \cup {tasks[i]} PROVE x \in active'
        BY <2>1, <3>1, <4>1, <4>2, <4>4
      <4>5. QED BY <4>3, <4>4
    <3>3. UNCHANGED <<ready, issued \ adding, held>>
      BY <1>6 DEF PopTask
    <3>4. /\ ~Service!Abandoned(tasks[i])
          /\ \A j \in 1 .. i - 1 : Service!Abandoned(tasks[j])
      BY <2>2 DEF FirstLive, IsAbandoned, Service!Abandoned
    <3>5. QED BY <2>2, <3>2, <3>3, <3>4, Zenon DEF Service!Take
  <2>3. ASSUME \A i \in 1 .. Len(tasks) : IsAbandoned(tasks[i]),
               tasks' = <<>>, UNCHANGED hand
        PROVE  Service!Discard
    BY <1>6, <2>3 DEF PopTask, IsAbandoned, Service!Discard, Service!Abandoned
  <2>4. QED BY <1>6, <2>2, <2>3 DEF PopTask
<1>7. ASSUME NEW w \in Workers, SetReady(w) PROVE \E t \in Tasks : Service!Finish(t)
  <2>1. hand[w] \in Tasks /\ hand' = [hand EXCEPT ![w] = NoTask]
    BY <1>1, <1>7 DEF SetReady, LocalInv, TypeOK
  <2>2. active' = active \ {hand[w]}
    <3>1. /\ hand'[w] = NoTask
          /\ \A w2 \in Workers \ {w} : hand'[w2] = hand[w2] /\ hand[w2] # hand[w]
      BY <1>1, <2>1, TaskAssumption DEF TypeOK, WorkedAtMostOnce
    <3>2. active' = {hand'[w2] : w2 \in Workers} \ {NoTask}
      OBVIOUS
    <3>3. ASSUME NEW x \in active' PROVE x \in active \ {hand[w]}
      BY <3>1, <3>2, <3>3
    <3>4. ASSUME NEW x \in active \ {hand[w]} PROVE x \in active'
      BY <3>1, <3>2, <3>4
    <3>5. QED BY <3>3, <3>4
  <2>3. hand[w] \in active
    BY <2>1, TaskAssumption
  <2>4. /\ ready' = ready \cup {hand[w]}
        /\ UNCHANGED <<tasks, issued \ adding, held>>
    BY <1>7 DEF SetReady
  <2>5. Service!Finish(hand[w])
    BY <2>2, <2>3, <2>4, Zenon DEF Service!Finish
  <2>6. QED BY <2>1, <2>5, Zenon DEF Service!Finish
<1>8. ASSUME NEW t \in Tasks, DropFuture(t) PROVE Service!Forget(t)
  BY <1>1, <1>8 DEF DropFuture, HeldInv, Service!Forget
<1>9. QED BY <1>1, <1>2, <1>3, <1>4, <1>5, <1>6, <1>7, <1>8, NextCases DEF Service!Next

\* The pool implements the abstract task service, for any number of threads.
THEOREM ImplementsService == Spec => ServiceSpec
BY ServiceInit, ServiceStep, Invariance, PTL DEF Spec, ServiceSpec, Service!Spec
=============================================================================
