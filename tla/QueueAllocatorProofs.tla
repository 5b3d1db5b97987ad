------------------------ MODULE QueueAllocatorProofs ------------------------
(***************************************************************************)
(* A pipe that one thread writes and reads: for a ring of any size and     *)
(* messages of any sizes and number, the two counters agree; if the        *)
(* messages have one size, they come out whole and in order.               *)
(***************************************************************************)
EXTENDS QueueAllocator, Integers, NaturalsInduction, WellFoundedInduction, TLAPS

OneThread == \E w : Writers = {w} /\ Readers = {w}

IsSeq(s) == s \in Seq({s[i] : i \in DOMAIN s})

CountType ==
  /\ count \in Nat /\ total \in Nat
  /\ DOMAIN pc = Threads
  /\ DOMAIN loaded = Threads
  /\ IsSeq(sent) /\ IsSeq(got)

\* Where thread w stands, the two counters and the messages written and read
\* are so far apart: write_end and read_end change one after the other.
CountInv(w) ==
  /\ Len(sent) = Len(got) + (IF pc[w] = "withdraw" THEN total - 1 ELSE total)
  /\ pc[w] \in {"advance", "wstore"} => total = count + 1
  /\ pc[w] \in {"retreat", "rstore"} => count = total + 1
  /\ pc[w] \notin {"advance", "wstore", "retreat", "rstore"} => count = total
  /\ pc[w] \in {"rlock", "rtest", "rbegin", "use", "withdraw"} => total > 0
  /\ pc[w] \in {"wstore", "rstore"} => loaded[w] = count

IInv == /\ OneThread
        /\ CountType
        /\ \A w \in Threads : CountInv(w)
        /\ halted # "no data"

-----------------------------------------------------------------------------
LEMMA Appended ==
  ASSUME NEW s, IsSeq(s), NEW e
  PROVE  IsSeq(Append(s, e)) /\ Len(s) \in Nat /\ Len(Append(s, e)) = Len(s) + 1
<1> DEFINE S == {s[i] : i \in DOMAIN s} \cup {e}
           t == Append(s, e)
<1>1. s \in Seq(S)
  <2>1. DOMAIN s = 1 .. Len(s) /\ Len(s) \in Nat /\ s \in Seq({s[i] : i \in DOMAIN s})
    BY DEF IsSeq
  <2>2. \A i \in 1 .. Len(s) : s[i] \in S
    BY <2>1
  <2> HIDE DEF S
  <2> QED
    BY <2>1, <2>2
<1> HIDE DEF S
<1>2. t \in Seq(S) /\ Len(t) = Len(s) + 1 /\ Len(s) \in Nat
  BY <1>1, e \in S DEF S
<1>3. IsSeq(t)
  <2> HIDE DEF t
  <2>1. DOMAIN t = 1 .. Len(t) /\ \A i \in 1 .. Len(t) : t[i] \in {t[j] : j \in DOMAIN t}
    BY <1>2
  <2> QED
    BY <1>2, <2>1 DEF IsSeq
<1> QED
  BY <1>2, <1>3

\* One thread: what holds of it holds of all.
LEMMA TheThread == ASSUME OneThread, NEW t \in Threads PROVE Threads = {t}
  BY DEF OneThread, Threads

LEMMA InitInv == OneThread /\ Init => IInv
<1> SUFFICES ASSUME OneThread, Init PROVE IInv
  OBVIOUS
<1>1. IsSeq(<<>>) /\ Len(<<>>) = 0
  BY DEF IsSeq
<1>2. ASSUME NEW w \in Threads PROVE CountInv(w)
  BY <1>1 DEF Init, CountInv
<1> QED
  BY <1>1, <1>2, PipeAssumption DEF Init, IInv, CountType

-----------------------------------------------------------------------------
(* Thread t takes a step.                                                  *)

\* There is only thread t: what is right for it is right for all.
LEMMA Stepped ==
  ASSUME IInv, NEW t \in Threads, CountInv(t)',
         DOMAIN pc' = Threads, DOMAIN loaded' = Threads,
         count' \in Nat, total' \in Nat, IsSeq(sent'), IsSeq(got'), halted' # "no data"
  PROVE  IInv'
<1>1. Threads = {t} /\ OneThread
  BY TheThread DEF IInv
<1> QED
  BY <1>1 DEF IInv, CountType

\* What the invariant says of t, with the lengths as numbers.
LEMMA Standing ==
  ASSUME IInv, NEW t \in Threads
  PROVE  /\ CountInv(t) /\ CountType
         /\ Len(sent) \in Nat /\ Len(got) \in Nat
BY Appended DEF IInv, CountType

\* Between two of its changes both counters count the same messages.
LEMMA AtRest ==
  ASSUME NEW t, CountInv(t), pc[t] \in {"idle", "announce", "rtest", "use"}
  PROVE  count = total /\ Len(sent) = Len(got) + total
BY DEF CountInv

LEMMA WriteKeeps ==
  ASSUME IInv, NEW t \in Threads,
         \/ \E sz \in Sizes : Write(t, sz)
         \/ LoadReadPos(t) \/ WriteBegin(t) \/ Fill(t) \/ Announce(t)
         \/ AdvanceWrite(t) \/ StoreWritten(t)
  PROVE  IInv'
<1> USE DEF At, Goto, Load, ring, observed
<1>0. /\ CountInv(t) /\ CountType
      /\ Len(sent) \in Nat /\ Len(got) \in Nat
  BY Standing
<1>data. halted # "no data"
  BY DEF IInv
<1>1. CASE \E sz \in Sizes : Write(t, sz)
  <2>1. /\ pc[t] = "idle"
        /\ UNCHANGED <<count, total, loaded, halted, sent, got>>
    BY <1>1 DEF Write
  <2>2. pc'[t] = "wload" /\ DOMAIN pc' = Threads /\ DOMAIN loaded' = Threads
    BY <1>0, <1>1 DEF Write, CountType
  <2>3. CountInv(t)' /\ count' \in Nat /\ total' \in Nat
    BY <1>0, <2>1, <2>2 DEF CountInv, CountType
  <2> QED
    BY <1>0, <1>data, <2>1, <2>2, <2>3, Stepped DEF CountType
<1>2. CASE LoadReadPos(t)
  <2>1. /\ pc[t] = "wload"
        /\ UNCHANGED <<count, total, halted, sent, got>>
    BY <1>2 DEF LoadReadPos
  <2>2. pc'[t] = "wbegin" /\ DOMAIN pc' = Threads /\ DOMAIN loaded' = Threads
    BY <1>0, <1>2 DEF LoadReadPos, CountType
  <2>3. CountInv(t)' /\ count' \in Nat /\ total' \in Nat
    BY <1>0, <2>1, <2>2 DEF CountInv, CountType
  <2> QED
    BY <1>0, <1>data, <2>1, <2>2, <2>3, Stepped DEF CountType
<1>3. CASE WriteBegin(t)
  <2>1. /\ pc[t] = "wbegin" /\ halted' # "no data"
        /\ UNCHANGED <<count, total, loaded, sent, got>>
    BY <1>data, <1>3 DEF WriteBegin
  <2>2. pc'[t] \in {"wbegin", "fill"} /\ DOMAIN pc' = Threads
    BY <1>0, <1>3 DEF WriteBegin, CountType
  <2>3. CountInv(t)' /\ count' \in Nat /\ total' \in Nat
    BY <1>0, <2>1, <2>2 DEF CountInv, CountType
  <2> QED
    BY <1>0, <1>data, <2>1, <2>2, <2>3, Stepped DEF CountType
<1>4. CASE Fill(t)
  <2>1. /\ pc[t] = "fill"
        /\ UNCHANGED <<count, total, loaded, halted, sent, got>>
    BY <1>4 DEF Fill
  <2>2. pc'[t] = "announce" /\ DOMAIN pc' = Threads /\ DOMAIN loaded' = Threads
    BY <1>0, <1>4 DEF Fill, CountType
  <2>3. CountInv(t)' /\ count' \in Nat /\ total' \in Nat
    BY <1>0, <2>1, <2>2 DEF CountInv, CountType
  <2> QED
    BY <1>0, <1>data, <2>1, <2>2, <2>3, Stepped DEF CountType
<1>5. CASE Announce(t)
  <2>1. /\ pc[t] = "announce"
        /\ total' = total + 1
        /\ UNCHANGED <<count, loaded, halted, got>>
    BY <1>5 DEF Announce
  <2>2. pc'[t] = "advance" /\ DOMAIN pc' = Threads /\ DOMAIN loaded' = Threads
    BY <1>0, <1>5 DEF Announce, CountType
  <2>3. IsSeq(sent') /\ Len(sent') = Len(sent) + 1
    BY <1>0, <1>5, Appended DEF Announce, CountType
  <2>4. CountInv(t)' /\ count' \in Nat /\ total' \in Nat
    <3>1. Len(sent) = Len(got) + total /\ count = total
      BY <1>0, <2>1, AtRest
    <3>2. /\ Len(sent') = Len(got') + total'
          /\ total' = count' + 1 /\ total' \in Nat /\ count' \in Nat
      BY <1>0, <3>1, <2>1, <2>3 DEF CountType
    <3> QED
      BY <3>2, <2>2 DEF CountInv
  <2> QED
    BY <1>0, <1>data, <2>1, <2>2, <2>3, <2>4, Stepped DEF CountType
<1>6. CASE AdvanceWrite(t)
  <2>1. /\ pc[t] = "advance"
        /\ UNCHANGED <<count, total, halted, sent, got>>
    BY <1>6 DEF AdvanceWrite
  <2>2. pc'[t] = "wstore" /\ DOMAIN pc' = Threads /\ DOMAIN loaded' = Threads /\ loaded'[t] = count
    BY <1>0, <1>6 DEF AdvanceWrite, CountType
  <2>3. CountInv(t)' /\ count' \in Nat /\ total' \in Nat
    BY <1>0, <2>1, <2>2 DEF CountInv, CountType
  <2> QED
    BY <1>0, <1>data, <2>1, <2>2, <2>3, Stepped DEF CountType
<1>7. CASE StoreWritten(t)
  <2>1. /\ pc[t] = "wstore"
        /\ count' = loaded[t] + 1
        /\ UNCHANGED <<total, loaded, halted, sent, got>>
    BY <1>7 DEF StoreWritten
  <2>2. pc'[t] = "idle" /\ DOMAIN pc' = Threads /\ DOMAIN loaded' = Threads
    BY <1>0, <1>7 DEF StoreWritten, CountType
  <2>3. CountInv(t)' /\ count' \in Nat /\ total' \in Nat
    BY <1>0, <2>1, <2>2 DEF CountInv, CountType
  <2> QED
    BY <1>0, <1>data, <2>1, <2>2, <2>3, Stepped DEF CountType
<1> QED
  BY <1>1, <1>2, <1>3, <1>4, <1>5, <1>6, <1>7

LEMMA ReadKeeps ==
  ASSUME IInv, NEW t \in Threads,
         \/ Read(t) \/ LockRead(t) \/ TestRing(t) \/ ReadBegin(t) \/ Use(t)
         \/ Withdraw(t) \/ AdvanceRead(t) \/ StoreRead(t)
  PROVE  IInv'
<1> USE DEF At, Goto, Load, ring, observed
<1>0. /\ CountInv(t) /\ CountType
      /\ Len(sent) \in Nat /\ Len(got) \in Nat
  BY Standing
<1>data. halted # "no data"
  BY DEF IInv
<1>1. CASE Read(t)
  <2>1. /\ pc[t] = "idle"
        /\ total # 0
        /\ UNCHANGED <<count, total, loaded, halted, sent, got>>
    BY <1>1 DEF Read
  <2>2. pc'[t] = "rlock" /\ DOMAIN pc' = Threads /\ DOMAIN loaded' = Threads
    BY <1>0, <1>1 DEF Read, CountType
  <2>3. CountInv(t)' /\ count' \in Nat /\ total' \in Nat
    <3>1. Len(sent) = Len(got) + total /\ count = total
      BY <1>0, <2>1, AtRest
    <3>2. /\ Len(sent') = Len(got') + total'
          /\ count' = total' /\ total' > 0 /\ total' \in Nat
      BY <1>0, <3>1, <2>1 DEF CountType
    <3> QED
      BY <3>2, <2>2 DEF CountInv
  <2> QED
    BY <1>0, <1>data, <2>1, <2>2, <2>3, Stepped DEF CountType
<1>2. CASE LockRead(t)
  <2>1. /\ pc[t] = "rlock"
        /\ UNCHANGED <<count, total, loaded, halted, sent, got>>
    BY <1>2 DEF LockRead
  <2>2. pc'[t] = "rtest" /\ DOMAIN pc' = Threads /\ DOMAIN loaded' = Threads
    BY <1>0, <1>2 DEF LockRead, CountType
  <2>3. CountInv(t)' /\ count' \in Nat /\ total' \in Nat
    BY <1>0, <2>1, <2>2 DEF CountInv, CountType
  <2> QED
    BY <1>0, <1>data, <2>1, <2>2, <2>3, Stepped DEF CountType
<1>3. CASE TestRing(t)
  <2>1. pc[t] = "rtest" /\ UNCHANGED <<count, total, loaded, sent, got>>
    BY <1>3 DEF TestRing
  <2>2. count # 0
    <3>1. count = total /\ total > 0
      BY <1>0, <2>1 DEF CountInv
    <3> QED
      BY <1>0, <3>1 DEF CountType
  <2>3. pc'[t] = "rbegin" /\ DOMAIN pc' = Threads /\ UNCHANGED halted
    BY <1>0, <1>3, <2>2 DEF TestRing, CountType
  <2>4. CountInv(t)' /\ count' \in Nat /\ total' \in Nat
    BY <1>0, <2>1, <2>3 DEF CountInv, CountType
  <2> QED
    BY <1>0, <1>data, <2>1, <2>3, <2>4, Stepped DEF CountType
<1>4. CASE ReadBegin(t)
  <2>1. /\ pc[t] = "rbegin"
        /\ UNCHANGED <<count, total, loaded, halted, sent, got>>
    BY <1>4 DEF ReadBegin
  <2>2. pc'[t] = "use" /\ DOMAIN pc' = Threads /\ DOMAIN loaded' = Threads
    BY <1>0, <1>4 DEF ReadBegin, CountType
  <2>3. CountInv(t)' /\ count' \in Nat /\ total' \in Nat
    BY <1>0, <2>1, <2>2 DEF CountInv, CountType
  <2> QED
    BY <1>0, <1>data, <2>1, <2>2, <2>3, Stepped DEF CountType
<1>5. CASE Use(t)
  <2>1. /\ pc[t] = "use"
        /\ UNCHANGED <<count, total, loaded, halted, sent>>
    BY <1>5 DEF Use
  <2>2. pc'[t] = "withdraw" /\ DOMAIN pc' = Threads /\ DOMAIN loaded' = Threads
    BY <1>0, <1>5 DEF Use, CountType
  <2>3. IsSeq(got') /\ Len(got') = Len(got) + 1
    BY <1>0, <1>5, Appended DEF Use, CountType
  <2>4. CountInv(t)' /\ count' \in Nat /\ total' \in Nat
    <3>1. Len(sent) = Len(got) + total /\ count = total /\ total > 0
      BY <1>0, <2>1, AtRest DEF CountInv
    <3>2. /\ Len(sent') = Len(got') + (total' - 1)
          /\ count' = total' /\ total' > 0 /\ total' \in Nat
      BY <1>0, <3>1, <2>1, <2>3 DEF CountType
    <3> QED
      BY <3>2, <2>2 DEF CountInv
  <2> QED
    BY <1>0, <1>data, <2>1, <2>2, <2>3, <2>4, Stepped DEF CountType
<1>6. CASE Withdraw(t)
  <2>1. /\ pc[t] = "withdraw"
        /\ total' = total - 1
        /\ UNCHANGED <<count, loaded, halted, sent, got>>
    BY <1>6 DEF Withdraw
  <2>2. pc'[t] = "retreat" /\ DOMAIN pc' = Threads /\ DOMAIN loaded' = Threads
    BY <1>0, <1>6 DEF Withdraw, CountType
  <2>3. CountInv(t)' /\ count' \in Nat /\ total' \in Nat
    <3>1. Len(sent) = Len(got) + (total - 1) /\ count = total /\ total > 0
      BY <1>0, <2>1 DEF CountInv
    <3>2. /\ Len(sent') = Len(got') + total'
          /\ count' = total' + 1 /\ total' \in Nat /\ count' \in Nat
      BY <1>0, <3>1, <2>1 DEF CountType
    <3> QED
      BY <3>2, <2>2 DEF CountInv
  <2> QED
    BY <1>0, <1>data, <2>1, <2>2, <2>3, Stepped DEF CountType
<1>7. CASE AdvanceRead(t)
  <2>1. /\ pc[t] = "retreat"
        /\ UNCHANGED <<count, total, halted, sent, got>>
    BY <1>7 DEF AdvanceRead
  <2>2. pc'[t] = "rstore" /\ DOMAIN pc' = Threads /\ DOMAIN loaded' = Threads /\ loaded'[t] = count
    BY <1>0, <1>7 DEF AdvanceRead, CountType
  <2>3. CountInv(t)' /\ count' \in Nat /\ total' \in Nat
    BY <1>0, <2>1, <2>2 DEF CountInv, CountType
  <2> QED
    BY <1>0, <1>data, <2>1, <2>2, <2>3, Stepped DEF CountType
<1>8. CASE StoreRead(t)
  <2>1. /\ pc[t] = "rstore"
        /\ count' = loaded[t] - 1
        /\ UNCHANGED <<total, loaded, halted, sent, got>>
    BY <1>8 DEF StoreRead
  <2>2. pc'[t] = "idle" /\ DOMAIN pc' = Threads /\ DOMAIN loaded' = Threads
    BY <1>0, <1>8 DEF StoreRead, CountType
  <2>3. CountInv(t)' /\ count' \in Nat /\ total' \in Nat
    <3>1. Len(sent) = Len(got) + total /\ count = total + 1 /\ loaded[t] = count
      BY <1>0, <2>1 DEF CountInv
    <3>2. /\ Len(sent') = Len(got') + total'
          /\ count' = total' /\ total' \in Nat
      BY <1>0, <3>1, <2>1 DEF CountType
    <3> QED
      BY <3>2, <2>2 DEF CountInv
  <2> QED
    BY <1>0, <1>data, <2>1, <2>2, <2>3, Stepped DEF CountType
<1> QED
  BY <1>1, <1>2, <1>3, <1>4, <1>5, <1>6, <1>7, <1>8

LEMMA StepInv == IInv /\ [Next]_vars => IInv'
<1> SUFFICES ASSUME IInv, [Next]_vars PROVE IInv'
  OBVIOUS
<1>1. CASE UNCHANGED vars \/ Rest
  BY <1>1 DEF vars, Rest, IInv, CountType, CountInv
<1>2. CASE \E t \in Threads : Step(t)
  BY <1>2, WriteKeeps, ReadKeeps DEF Step
<1> QED
  BY <1>1, <1>2 DEF Next

\* A thread that writes and reads in turn finds both counters at the number of
\* messages in the pipe whenever it is between two calls (write_end, read_end).
THEOREM CountsOfOneThread == OneThread => (Spec => []CountsAgree)
<1>1. IInv => CountsAgree
  <2> SUFFICES ASSUME IInv, \A t \in Threads : pc[t] = "idle"
               PROVE  count = total /\ total = Len(sent) - Len(got)
    BY DEF CountsAgree
  <2>1. PICK w : w \in Threads
    BY DEF IInv, OneThread, Threads
  <2>2. CountInv(w) /\ Len(got) \in Nat /\ total \in Nat /\ pc[w] = "idle"
    BY <2>1, Appended DEF IInv, CountType
  <2> QED
    BY <2>2 DEF CountInv
<1> QED
  BY <1>1, InitInv, StepInv, PTL DEF Spec

-----------------------------------------------------------------------------
(* Messages of one size: the ring is a circle of k slots, and the records  *)
(* that are in it lie in consecutive ones from the reader's to the         *)
(* writer's.                                                               *)

\* k records of s words and their sizes fit into the ring, and no more.
Fits(s, k) ==
  /\ s \in Nat \ {0} /\ Sizes = {s}
  /\ k \in Nat
  /\ Cap(s) * k <= Block /\ Block < Cap(s) * k + Cap(s)

Place(s, i) == Cap(s) * i

HasSize(s, i) == pool[Place(s, i)] = Word("size", s)

\* Slot i holds message n.
Holds(s, i, n) ==
  HasSize(s, i) /\ \A j \in 1 .. s : pool[Place(s, i) + j] = Word("data", n)

Marked(p) == p = Block \/ pool[p] = Word("size", 0)

\* The m messages from f on lie between the reader at slot b and the writer at
\* slot a, or from the reader to the mark and from the front to the writer.
Flat(s, a, b, f, m) ==
  b <= a /\ m = a - b /\ \A i \in b .. a - 1 : Holds(s, i, f + (i - b))

Wrapped(s, k, a, b, f, m) ==
  /\ a <= b /\ m = (k - b) + a
  /\ Marked(Place(s, k))
  /\ \A i \in b .. k - 1 : Holds(s, i, f + (i - b))
  /\ \A i \in 0 .. a - 1 : Holds(s, i, f + (k - b) + i)

Circle(s, k, a, b, f, m) ==
  /\ a \in 0 .. k /\ b \in 0 .. k /\ f \in Nat /\ m \in Nat
  /\ wpos = Place(s, a) /\ rpos = Place(s, b)
  /\ DOMAIN pool = 0 .. Block - 1
  /\ Flat(s, a, b, f, m) \/ Wrapped(s, k, a, b, f, m)

\* The first message that is in the ring, and how many are: one that is announced
\* is not yet entered, one that was read not yet taken out.
First(t) == IF pc[t] \in {"withdraw", "retreat"} THEN Len(got) ELSE Len(got) + 1
Held(t) == IF pc[t] = "advance" THEN Len(sent) - Len(got) - 1
           ELSE IF pc[t] \in {"withdraw", "retreat"} THEN Len(sent) - Len(got) + 1
           ELSE Len(sent) - Len(got)

\* Where thread t stands, slot a is being written or slot b read.
SlotsInUse(t, s, k, a, b, f, m) ==
  /\ pc[t] = "wbegin" => loaded[t] = rpos
  /\ pc[t] \in {"wload", "wbegin", "fill", "announce", "advance"} => size[t] = s
  /\ pc[t] \in {"fill", "announce", "advance"} =>
       a < k /\ HasSize(s, a) /\ (a = b => m = 0)
  /\ pc[t] \in {"announce", "advance"} => Holds(s, a, f + m)
  /\ pc[t] \in {"use", "withdraw", "retreat"} => b < k /\ size[t] = s

RingInv(t, s, k, a, b, f, m) ==
  /\ f = First(t) /\ m = Held(t)
  /\ Circle(s, k, a, b, f, m)
  /\ SlotsInUse(t, s, k, a, b, f, m)

Whole(s) ==
  /\ \A n \in 1 .. Len(sent) : sent[n] = s
  /\ \A n \in 1 .. Len(got) : got[n] = [size |-> s, words |-> {Word("data", n)}]

FifoInv ==
  /\ DOMAIN size = Threads
  /\ \E s, k : /\ Fits(s, k) /\ Whole(s)
               /\ \A t \in Threads : \E a, b, f, m : RingInv(t, s, k, a, b, f, m)

\* Where the slots are.
LEMMA Places ==
  ASSUME NEW s, NEW k, Fits(s, k)
  PROVE  /\ s \in Nat /\ s > 0 /\ k \in Nat /\ Block \in Nat
         /\ Place(s, 0) = 0
         /\ \A i \in 0 .. k : /\ Place(s, i) \in Nat
                              /\ Place(s, i + 1) = Place(s, i) + s + 1
         /\ \A i, j \in 0 .. k : i < j => Place(s, i) + s + 1 <= Place(s, j)
         /\ Place(s, k) <= Block /\ Block < Place(s, k) + s + 1
<1>1. s \in Nat /\ s > 0 /\ k \in Nat /\ Block \in Nat
  BY BlockAssumption DEF Fits
<1> DEFINE c == s + 1
<1>2. c \in Nat /\ c > 0
  BY <1>1
<1>3. Place(s, k) <= Block /\ Block < Place(s, k) + c
  BY DEF Fits, Place, Cap
<1>4. \A i : Place(s, i) = c * i
  BY DEF Place, Cap
<1> HIDE DEF c
<1>5. ASSUME NEW i \in Nat PROVE Place(s, i) \in Nat /\ Place(s, i + 1) = Place(s, i) + c
  BY <1>2, <1>4
<1>6. ASSUME NEW i \in Nat, NEW j \in Nat, i < j PROVE Place(s, i) + c <= Place(s, j)
  <2>1. PICK d \in Nat : j = i + 1 + d
    <3>1. j - i - 1 \in Nat /\ j = i + 1 + (j - i - 1)
      BY <1>6
    <3> QED
      BY <3>1
  <2>2. c * j = c * i + c + c * d /\ c * d \in Nat /\ c * i \in Nat
    BY <1>2, <2>1
  <2> QED
    BY <1>2, <1>4, <2>2
<1>7. \A i \in 0 .. k : i \in Nat
  BY <1>1
<1>8. Place(s, 0) = 0
  BY <1>2, <1>4
<1>9. \A i \in Nat : Place(s, i) \in Nat /\ Place(s, i) + c = Place(s, i) + s + 1
  BY <1>1, <1>5 DEF c
<1>a. \A i \in 0 .. k : /\ Place(s, i) \in Nat
                        /\ Place(s, i + 1) = Place(s, i) + s + 1
  BY <1>5, <1>7, <1>9
<1>b. \A i, j \in 0 .. k : i < j => Place(s, i) + s + 1 <= Place(s, j)
  BY <1>6, <1>7, <1>9
<1> QED
  BY <1>1, <1>3, <1>8, <1>9, <1>a, <1>b

\* There is such a number of slots.
LEMMA SlotsFit ==
  ASSUME NEW s \in Nat \ {0}, Sizes = {s}
  PROVE  \E k : Fits(s, k)
<1> DEFINE c == Cap(s)
           T == {i \in Nat : Block < c * i + c}
<1>1. Block \in Nat /\ c \in Nat /\ c > 0
  BY BlockAssumption DEF Cap
<1> HIDE DEF c
<1>2. Block \in T
  <2>1. c * Block >= Block
    <3>1. PICK d \in Nat : c = d + 1
      <4>1. c - 1 \in Nat /\ c = c - 1 + 1
        BY <1>1
      <4> QED
        BY <4>1
    <3>2. c * Block = d * Block + Block /\ d * Block \in Nat
      BY <1>1, <3>1
    <3> QED
      BY <1>1, <3>2
  <2> QED
    BY <1>1, <2>1
<1>3. PICK k \in T : \A y \in T : ~(<<y, k>> \in OpToRel(<, Nat))
  <2>1. T \in SUBSET Nat /\ T # {}
    BY <1>2
  <2> QED
    BY <2>1, NatLessThanWellFounded, WFMin
<1>4. k \in Nat /\ Block < c * k + c
  BY <1>3
<1>5. c * k <= Block
  <2>1. CASE k = 0
    BY <1>1, <2>1
  <2>2. CASE k # 0
    <3>1. k - 1 \in Nat /\ k - 1 < k /\ c * (k - 1) + c = c * k /\ c * k \in Nat
      BY <1>1, <1>4, <2>2
    <3>2. k - 1 \notin T
      BY <1>3, <1>4, <3>1 DEF OpToRel
    <3> QED
      BY <1>1, <3>1, <3>2
  <2> QED
    BY <2>1, <2>2
<1>6. Fits(s, k)
  BY <1>4, <1>5 DEF Fits, c
<1> QED
  BY <1>6

\* A slot that nothing is written into holds what it held.
LEMMA HoldsStays ==
  ASSUME NEW s \in Nat, NEW i, NEW n, Place(s, i) \in Nat, Holds(s, i, n),
         \A x \in Place(s, i) .. Place(s, i) + s : pool'[x] = pool[x]
  PROVE  Holds(s, i, n)'
<1> DEFINE p == Place(s, i)
<1>1. p \in p .. p + s /\ \A j \in 1 .. s : p + j \in p .. p + s
  OBVIOUS
<1> QED
  BY <1>1 DEF Holds, HasSize, Place

\* Writing into a free slot takes nothing from the others.
LEMMA SlotWritten ==
  ASSUME NEW s, NEW k, Fits(s, k), NEW a, NEW b, NEW f, NEW m, Circle(s, k, a, b, f, m),
         a < k, a = b => m = 0, UNCHANGED <<wpos, rpos>>, DOMAIN pool' = DOMAIN pool,
         \A x \in DOMAIN pool \ (Place(s, a) .. Place(s, a) + s) : pool'[x] = pool[x]
  PROVE  Circle(s, k, a, b, f, m)'
<1>1. /\ s \in Nat /\ s > 0 /\ k \in Nat /\ Block \in Nat
      /\ \A i \in 0 .. k : Place(s, i) \in Nat
      /\ \A i, j \in 0 .. k : i < j => Place(s, i) + s + 1 <= Place(s, j)
      /\ Place(s, k) <= Block
  BY Places
<1>2. /\ a \in 0 .. k /\ b \in 0 .. k /\ f \in Nat /\ m \in Nat
      /\ wpos = Place(s, a) /\ rpos = Place(s, b)
      /\ DOMAIN pool = 0 .. Block - 1
  BY DEF Circle
<1>3. ASSUME NEW i \in 0 .. k - 1, i # a, NEW n, Holds(s, i, n) PROVE Holds(s, i, n)'
  <2>1. i \in 0 .. k /\ k \in 0 .. k /\ i < k
    BY <1>1
  <2>2. \/ Place(s, i) + s + 1 <= Place(s, a)
        \/ Place(s, a) + s + 1 <= Place(s, i)
    <3>1. i < a \/ a < i
      BY <1>1, <1>2, <1>3
    <3> QED
      BY <1>1, <1>2, <2>1, <3>1
  <2>3. Place(s, i) \in Nat /\ Place(s, a) \in Nat /\ Place(s, i) + s + 1 <= Block
    BY <1>1, <1>2, <2>1, SMTT(30)
  <2>4. \A x \in Place(s, i) .. Place(s, i) + s :
          x \in 0 .. Block - 1 /\ x \notin Place(s, a) .. Place(s, a) + s
    BY <1>1, <2>2, <2>3
  <2>5. \A x \in Place(s, i) .. Place(s, i) + s : pool'[x] = pool[x]
    BY <1>2, <2>4
  <2> QED
    BY <1>1, <1>3, <2>3, <2>5, HoldsStays
<1>4. CASE Flat(s, a, b, f, m)
  <2>1. \A i \in b .. a - 1 : i \in 0 .. k - 1 /\ i # a
    BY <1>1, <1>2
  <2>2. Flat(s, a, b, f, m)'
    BY <1>3, <1>4, <2>1 DEF Flat
  <2> QED
    BY <1>2, <2>2 DEF Circle
<1>5. CASE Wrapped(s, k, a, b, f, m)
  <2>1. a <= b /\ m = (k - b) + a
    BY <1>5 DEF Wrapped
  <2>2. a < b
    BY <1>1, <1>2, <2>1
  <2>3. \A i \in b .. k - 1 : i \in 0 .. k - 1 /\ i # a
    BY <1>1, <1>2, <2>2
  <2>4. \A i \in 0 .. a - 1 : i \in 0 .. k - 1 /\ i # a
    BY <1>1, <1>2
  <2>5. Marked(Place(s, k))'
    <3>1. Place(s, a) + s + 1 <= Place(s, k) /\ Place(s, a) \in Nat /\ Place(s, k) \in Nat
      BY <1>1, <1>2
    <3>2. Place(s, k) # Block =>
            Place(s, k) \in 0 .. Block - 1 /\ Place(s, k) \notin Place(s, a) .. Place(s, a) + s
      BY <1>1, <3>1
    <3>3. Place(s, k) # Block => pool'[Place(s, k)] = pool[Place(s, k)]
      BY <1>2, <3>2
    <3> QED
      BY <1>5, <3>3 DEF Wrapped, Marked, Place
  <2>6. Wrapped(s, k, a, b, f, m)'
    BY <1>3, <1>5, <2>3, <2>4, <2>5 DEF Wrapped
  <2> QED
    BY <1>2, <2>6 DEF Circle
<1> QED
  BY <1>4, <1>5 DEF Circle

\* The writer leaves the end of the ring for its front, which is free.
LEMMA Jumped ==
  ASSUME NEW s, NEW k, Fits(s, k), NEW a, NEW b, NEW f, NEW m, Circle(s, k, a, b, f, m),
         a = k, b # 0, a = b => m = 0, wpos' = 0, UNCHANGED rpos, DOMAIN pool' = DOMAIN pool,
         Marked(Place(s, k))',
         \A x \in DOMAIN pool \ {Place(s, k), 0} : pool'[x] = pool[x]
  PROVE  Circle(s, k, 0, b, f, m)' /\ b > 0
<1>1. /\ s \in Nat /\ s > 0 /\ k \in Nat /\ Block \in Nat
      /\ Place(s, 0) = 0
      /\ \A i \in 0 .. k : Place(s, i) \in Nat
      /\ \A i, j \in 0 .. k : i < j => Place(s, i) + s + 1 <= Place(s, j)
      /\ Place(s, k) <= Block
  BY Places
<1>2. /\ a \in 0 .. k /\ b \in 0 .. k /\ f \in Nat /\ m \in Nat
      /\ rpos = Place(s, b)
      /\ DOMAIN pool = 0 .. Block - 1
  BY DEF Circle
<1>3. b > 0 /\ 0 \in 0 .. k
  BY <1>1, <1>2
<1>4. Flat(s, a, b, f, m)
  <2>1. Wrapped(s, k, a, b, f, m) => a <= b /\ m = (k - b) + a
    BY DEF Wrapped
  <2>2. ~Wrapped(s, k, a, b, f, m)
    BY <1>1, <1>2, <1>3, <2>1
  <2> QED
    BY <2>2 DEF Circle
<1>5. m = k - b /\ \A i \in b .. k - 1 : Holds(s, i, f + (i - b))
  BY <1>4 DEF Flat
<1>6. ASSUME NEW i \in b .. k - 1 PROVE Holds(s, i, f + (i - b))'
  <2>1. i \in 0 .. k /\ k \in 0 .. k /\ 0 < i /\ i < k
    BY <1>1, <1>2, <1>3
  <2>2. Place(s, i) \in Nat /\ Place(s, i) > 0 /\ Place(s, i) + s + 1 <= Place(s, k)
    BY <1>1, <1>3, <2>1
  <2>3. \A x \in Place(s, i) .. Place(s, i) + s :
          x \in 0 .. Block - 1 /\ x # 0 /\ x # Place(s, k)
    BY <1>1, <2>1, <2>2
  <2>4. \A x \in Place(s, i) .. Place(s, i) + s : pool'[x] = pool[x]
    BY <1>2, <2>3
  <2> QED
    BY <1>1, <1>5, <2>2, <2>4, HoldsStays
<1>7. \A i \in 0 .. 0 - 1 : FALSE
  OBVIOUS
<1>8. 0 <= b /\ m = (k - b) + 0
  BY <1>1, <1>2, <1>5
<1>9. Wrapped(s, k, 0, b, f, m)'
  BY <1>6, <1>7, <1>8 DEF Wrapped, Place
<1>a. wpos' = Place(s, 0) /\ rpos' = Place(s, b) /\ DOMAIN pool' = 0 .. Block - 1
  BY <1>1, <1>2
<1> QED
  BY <1>2, <1>3, <1>9, <1>a DEF Circle, Place

\* The writer moves on behind the record it has written.
LEMMA Entered ==
  ASSUME NEW s, NEW k, Fits(s, k), NEW a, NEW b, NEW f, NEW m, Circle(s, k, a, b, f, m),
         a < k, a = b => m = 0, Holds(s, a, f + m),
         wpos' = Place(s, a + 1), UNCHANGED <<rpos, pool>>
  PROVE  Circle(s, k, a + 1, b, f, m + 1)'
<1>1. k \in Nat
  BY DEF Fits
<1>2. /\ a \in 0 .. k /\ b \in 0 .. k /\ f \in Nat /\ m \in Nat
      /\ rpos = Place(s, b)
      /\ DOMAIN pool = 0 .. Block - 1
  BY DEF Circle
<1>3. a + 1 \in 0 .. k /\ m + 1 \in Nat
  BY <1>1, <1>2
<1>4. \A i, n : Holds(s, i, n)' <=> Holds(s, i, n)
  BY DEF Holds, HasSize, Place
<1>5. CASE Flat(s, a, b, f, m)
  <2>1. b <= a /\ m = a - b /\ \A i \in b .. a - 1 : Holds(s, i, f + (i - b))
    BY <1>5 DEF Flat
  <2>2. b <= a + 1 /\ m + 1 = a + 1 - b
    BY <1>2, <2>1
  <2>3. f + m = f + (a - b)
    BY <2>1
  <2>4. \A i \in b .. a + 1 - 1 : i \in b .. a - 1 \/ i = a
    BY <1>2
  <2>5. \A i \in b .. a + 1 - 1 : Holds(s, i, f + (i - b))
    BY <2>1, <2>3, <2>4
  <2>6. Flat(s, a + 1, b, f, m + 1)'
    BY <1>2, <1>4, <2>2, <2>5 DEF Flat
  <2> QED
    BY <1>2, <1>3, <2>6 DEF Circle, Place
<1>6. CASE Wrapped(s, k, a, b, f, m)
  <2>1. /\ a <= b /\ m = (k - b) + a
        /\ \A i \in b .. k - 1 : Holds(s, i, f + (i - b))
        /\ \A i \in 0 .. a - 1 : Holds(s, i, f + (k - b) + i)
    BY <1>6 DEF Wrapped
  <2>2. a + 1 <= b /\ m + 1 = (k - b) + (a + 1)
    BY <1>1, <1>2, <2>1
  <2>3. f + m = f + (k - b) + a
    BY <1>1, <1>2, <2>1
  <2>4. \A i \in 0 .. a + 1 - 1 : i \in 0 .. a - 1 \/ i = a
    BY <1>2
  <2>5. \A i \in 0 .. a + 1 - 1 : Holds(s, i, f + (k - b) + i)
    BY <2>1, <2>3, <2>4
  <2>6. Marked(Place(s, k))'
    BY <1>6 DEF Wrapped, Marked, Place
  <2>7. Wrapped(s, k, a + 1, b, f, m + 1)'
    BY <1>2, <1>4, <2>1, <2>2, <2>5, <2>6 DEF Wrapped
  <2> QED
    BY <1>2, <1>3, <2>7 DEF Circle, Place
<1> QED
  BY <1>5, <1>6 DEF Circle

\* The record the reader is at is the first message.
LEMMA FirstHeld ==
  ASSUME NEW s, NEW k, Fits(s, k), NEW a, NEW b, NEW f, NEW m, Circle(s, k, a, b, f, m),
         m > 0, b < k
  PROVE  Holds(s, b, f)
<1>1. k \in Nat /\ a \in 0 .. k /\ b \in 0 .. k /\ f \in Nat
  BY DEF Fits, Circle
<1>2. f + (b - b) = f
  BY <1>1
<1>3. CASE Flat(s, a, b, f, m)
  <2>1. b <= a /\ m = a - b /\ \A i \in b .. a - 1 : Holds(s, i, f + (i - b))
    BY <1>3 DEF Flat
  <2>2. b \in b .. a - 1
    BY <1>1, <2>1
  <2> QED
    BY <1>2, <2>1, <2>2
<1>4. CASE Wrapped(s, k, a, b, f, m)
  <2>1. \A i \in b .. k - 1 : Holds(s, i, f + (i - b))
    BY <1>4 DEF Wrapped
  <2>2. b \in b .. k - 1
    BY <1>1
  <2> QED
    BY <1>2, <2>1, <2>2
<1> QED
  BY <1>3, <1>4 DEF Circle

\* The reader moves on behind the record it has read.
LEMMA TakenOut ==
  ASSUME NEW s, NEW k, Fits(s, k), NEW a, NEW b, NEW f, NEW m, Circle(s, k, a, b, f, m),
         b < k, m > 0,
         rpos' = Place(s, b + 1), UNCHANGED <<wpos, pool>>
  PROVE  Circle(s, k, a, b + 1, f + 1, m - 1)'
<1>1. k \in Nat
  BY DEF Fits
<1>2. /\ a \in 0 .. k /\ b \in 0 .. k /\ f \in Nat /\ m \in Nat
      /\ wpos = Place(s, a)
      /\ DOMAIN pool = 0 .. Block - 1
  BY DEF Circle
<1>3. b + 1 \in 0 .. k /\ m - 1 \in Nat /\ f + 1 \in Nat
  BY <1>1, <1>2
<1>4. \A i, n : Holds(s, i, n)' <=> Holds(s, i, n)
  BY DEF Holds, HasSize, Place
<1>5. \A i \in Nat : f + 1 + (i - (b + 1)) = f + (i - b)
  BY <1>2
<1>6. CASE Flat(s, a, b, f, m)
  <2>1. b <= a /\ m = a - b /\ \A i \in b .. a - 1 : Holds(s, i, f + (i - b))
    BY <1>6 DEF Flat
  <2>2. b + 1 <= a /\ m - 1 = a - (b + 1)
    BY <1>2, <2>1
  <2>3. \A i \in b + 1 .. a - 1 : i \in b .. a - 1 /\ i \in Nat
    BY <1>2
  <2>4. \A i \in b + 1 .. a - 1 : Holds(s, i, f + 1 + (i - (b + 1)))
    BY <1>5, <2>1, <2>3
  <2>5. Flat(s, a, b + 1, f + 1, m - 1)'
    BY <1>4, <2>2, <2>4 DEF Flat
  <2> QED
    BY <1>2, <1>3, <2>5 DEF Circle, Place
<1>7. CASE Wrapped(s, k, a, b, f, m)
  <2>1. /\ a <= b /\ m = (k - b) + a
        /\ \A i \in b .. k - 1 : Holds(s, i, f + (i - b))
        /\ \A i \in 0 .. a - 1 : Holds(s, i, f + (k - b) + i)
    BY <1>7 DEF Wrapped
  <2>2. a <= b + 1 /\ m - 1 = (k - (b + 1)) + a
    BY <1>1, <1>2, <2>1
  <2>3. \A i \in b + 1 .. k - 1 : i \in b .. k - 1 /\ i \in Nat
    BY <1>1, <1>2
  <2>4. \A i \in b + 1 .. k - 1 : Holds(s, i, f + 1 + (i - (b + 1)))
    BY <1>5, <2>1, <2>3
  <2>5. f + 1 + (k - (b + 1)) = f + (k - b)
    BY <1>1, <1>5
  <2>6. \A i \in 0 .. a - 1 : Holds(s, i, f + 1 + (k - (b + 1)) + i)
    BY <2>1, <2>5
  <2>7. Marked(Place(s, k))'
    BY <1>7 DEF Wrapped, Marked, Place
  <2>8. Wrapped(s, k, a, b + 1, f + 1, m - 1)'
    BY <1>4, <2>2, <2>4, <2>6, <2>7 DEF Wrapped
  <2> QED
    BY <1>2, <1>3, <2>8 DEF Circle, Place
<1> QED
  BY <1>6, <1>7 DEF Circle

\* A reader at the end of the ring finds the mark, and its message at the front.
LEMMA Rewound ==
  ASSUME NEW s, NEW k, Fits(s, k), NEW a, NEW b, NEW f, NEW m, Circle(s, k, a, b, f, m),
         b = k, m > 0
  PROVE  /\ Marked(Place(s, k)) /\ k > 0 /\ Holds(s, 0, f)
         /\ rpos' = 0 /\ UNCHANGED <<wpos, pool>> => Circle(s, k, a, 0, f, m)'
<1>1. k \in Nat /\ Place(s, 0) = 0
  BY Places
<1>2. /\ a \in 0 .. k /\ b \in 0 .. k /\ f \in Nat /\ m \in Nat
      /\ wpos = Place(s, a)
      /\ DOMAIN pool = 0 .. Block - 1
  BY DEF Circle
<1>3. Wrapped(s, k, a, b, f, m)
  <2>1. Flat(s, a, b, f, m) => m = a - b
    BY DEF Flat
  <2>2. ~Flat(s, a, b, f, m)
    BY <1>1, <1>2, <2>1
  <2> QED
    BY <2>2 DEF Circle
<1>4. /\ m = (k - b) + a /\ Marked(Place(s, k))
      /\ \A i \in 0 .. a - 1 : Holds(s, i, f + (k - b) + i)
  BY <1>3 DEF Wrapped
<1>5. m = a /\ a > 0 /\ k > 0 /\ 0 \in 0 .. k /\ 0 <= a /\ m = a - 0
  BY <1>1, <1>2, <1>4
<1>6. ASSUME rpos' = 0, UNCHANGED <<wpos, pool>> PROVE Circle(s, k, a, 0, f, m)'
  <2>1. \A i, n : Holds(s, i, n)' <=> Holds(s, i, n)
    BY <1>6 DEF Holds, HasSize, Place
  <2>2. \A i \in 0 .. a - 1 : f + (i - 0) = f + (k - b) + i
    BY <1>1, <1>2
  <2>3. \A i \in 0 .. a - 1 : Holds(s, i, f + (i - 0))
    BY <1>4, <2>2
  <2>4. Flat(s, a, 0, f, m)'
    BY <1>5, <2>1, <2>3 DEF Flat
  <2> QED
    BY <1>1, <1>2, <1>5, <1>6, <2>4 DEF Circle, Place
<1>7. Holds(s, 0, f)
  <2>1. 0 \in 0 .. a - 1 /\ f + (k - b) + 0 = f
    BY <1>1, <1>2, <1>5
  <2> QED
    BY <1>4, <2>1
<1> QED
  BY <1>4, <1>5, <1>6, <1>7

LEMMA SlotInPool ==
  ASSUME NEW s, NEW k, Fits(s, k), NEW i \in 0 .. k, i < k, DOMAIN pool = 0 .. Block - 1
  PROVE  Place(s, i) \in DOMAIN pool /\ Place(s, i) # Block
<1>1. /\ k \in 0 .. k /\ Place(s, i) \in Nat /\ Block \in Nat /\ s \in Nat
      /\ Place(s, k) \in Nat /\ Place(s, i) + s + 1 <= Place(s, k) /\ Place(s, k) <= Block
  <2>1. k \in Nat
    BY Places
  <2>2. k \in 0 .. k
    BY <2>1
  <2> QED
    BY <2>2, Places
<1> QED
  BY <1>1

\* There is only thread t.
LEMMA RingStepped ==
  ASSUME IInv, NEW t \in Threads, DOMAIN size' = Threads, NEW s, NEW k, Fits(s, k), Whole(s)',
         NEW a, NEW b, NEW f, NEW m, RingInv(t, s, k, a, b, f, m)'
  PROVE  FifoInv'
<1>1. Threads = {t}
  BY TheThread DEF IInv
<1> QED
  BY <1>1 DEF FifoInv

\* A step that leaves the ring and the messages alone.
LEMMA RingSame ==
  ASSUME NEW t, NEW s, NEW k, NEW a, NEW b, NEW f, NEW m, RingInv(t, s, k, a, b, f, m),
         UNCHANGED <<pool, wpos, rpos, sent, got>>,
         \/ pc[t] = "withdraw" /\ pc'[t] = "retreat"
         \/ /\ pc[t] \notin {"advance", "withdraw", "retreat"}
            /\ pc'[t] \notin {"advance", "withdraw", "retreat"},
         SlotsInUse(t, s, k, a, b, f, m)'
  PROVE  RingInv(t, s, k, a, b, f, m)'
<1>1. First(t)' = First(t) /\ Held(t)' = Held(t)
  BY DEF First, Held
<1>2. Circle(s, k, a, b, f, m)'
  BY DEF RingInv, Circle, Flat, Wrapped, Holds, HasSize, Marked, Place
<1> QED
  BY <1>1, <1>2 DEF RingInv

\* What is read as a size where one was written.
LEMMA SizeIs ==
  ASSUME NEW i \in DOMAIN pool, NEW n, pool[i] = Word("size", n)
  PROVE  SizeAt(i) = n
BY DEF SizeAt, Word

LEMMA SizeWritten ==
  ASSUME NEW p, NEW i, NEW n
  PROVE  /\ DOMAIN WithSize(p, i, n) = DOMAIN p
         /\ \A x \in DOMAIN p \ {i} : WithSize(p, i, n)[x] = p[x]
         /\ i \in DOMAIN p => WithSize(p, i, n)[i] = Word("size", n)
BY DEF WithSize

LEMMA WriteBeginRing ==
  ASSUME IInv, NEW t \in Threads, WriteBegin(t), DOMAIN size = Threads, NEW s, NEW k, Fits(s, k),
         NEW a, NEW b, NEW f, NEW m, RingInv(t, s, k, a, b, f, m)
  PROVE  \E c : RingInv(t, s, k, c, b, f, m)'
<1> USE DEF At, Goto, Load, ring, observed
<1>1. /\ s \in Nat /\ s > 0 /\ k \in Nat /\ Block \in Nat
      /\ Place(s, 0) = 0
      /\ \A i \in 0 .. k : Place(s, i) \in Nat
      /\ \A i, j \in 0 .. k : i < j => Place(s, i) + s + 1 <= Place(s, j)
      /\ Place(s, k) <= Block /\ Block < Place(s, k) + s + 1
  BY Places
<1>2. /\ Circle(s, k, a, b, f, m)
      /\ a \in 0 .. k /\ b \in 0 .. k /\ f \in Nat /\ m \in Nat
      /\ wpos = Place(s, a) /\ rpos = Place(s, b)
      /\ DOMAIN pool = 0 .. Block - 1
  BY DEF RingInv, Circle
<1>3. /\ pc[t] = "wbegin" /\ loaded[t] = rpos /\ size[t] = s /\ f = First(t) /\ m = Held(t)
      /\ DOMAIN pc = Threads
      /\ UNCHANGED <<rpos, sent, got, size, loaded>>
  BY DEF WriteBegin, RingInv, SlotsInUse, IInv, CountType
<1>4. count = 0 => m = 0
  <2>1. CountInv(t) /\ Len(sent) \in Nat /\ Len(got) \in Nat /\ total \in Nat
    BY Standing DEF CountType
  <2>2. m = Len(sent) - Len(got)
    BY <1>3 DEF Held
  <2>3. Len(sent) = Len(got) + total /\ count = total
    BY <1>3, <2>1 DEF CountInv
  <2> QED
    BY <2>1, <2>2, <2>3
<1>5. CASE Refused(rpos, Cap(s))
  <2>1. UNCHANGED <<pool, wpos, pc>>
    BY <1>3, <1>5 DEF WriteBegin
  <2>2. SlotsInUse(t, s, k, a, b, f, m)'
    BY <1>3, <2>1 DEF SlotsInUse
  <2> QED
    BY <1>3, <2>1, <2>2, RingSame
<1>6. CASE ~Refused(rpos, Cap(s))
  <2> DEFINE jump == Jumps(rpos, Cap(s))
             at == IF jump THEN 0 ELSE wpos
             mid == IF jump THEN WithSize(pool, wpos, 0) ELSE pool
  <2>1. pool' = WithSize(mid, at, s) /\ wpos' = at /\ pc'[t] = "fill"
    BY <1>3, <1>6 DEF WriteBegin
  <2>2. First(t)' = First(t) /\ Held(t)' = Held(t)
    BY <1>3, <2>1 DEF First, Held
  <2>3. wpos # rpos \/ count = 0
    BY <1>6 DEF Refused
  <2>4. a = b => m = 0
    BY <1>2, <1>4, <2>3
  <2>5. CASE jump
    <3>1. wpos >= rpos /\ wpos <= Block /\ Block - wpos < s + 1
      BY <2>5 DEF Jumps, Short, Cap
    <3>2. a = k
      <4>1. k \in 0 .. k
        BY <1>1
      <4>2. a < k => wpos + s + 1 <= Place(s, k)
        BY <1>1, <1>2, <4>1
      <4>3. ~(a < k)
        BY <1>1, <1>2, <3>1, <4>2, <4>1, SMTT(30)
      <4> QED
        BY <1>1, <1>2, <4>3
    <3>3. b # 0
      <4>1. ~(rpos < s + 1)
        BY <1>6, <2>5 DEF Refused, Jumps, Cap
      <4> QED
        BY <1>1, <1>2, <4>1
    <3>4. pool' = WithSize(WithSize(pool, wpos, 0), 0, s) /\ wpos' = 0
      BY <2>1, <2>5
    <3>5. /\ DOMAIN pool' = DOMAIN pool
          /\ \A x \in DOMAIN pool \ {wpos, 0} : pool'[x] = pool[x]
          /\ wpos \in DOMAIN pool /\ wpos # 0 => pool'[wpos] = Word("size", 0)
          /\ 0 \in DOMAIN pool => pool'[0] = Word("size", s)
      BY <3>4, SizeWritten
    <3>6. 0 < k /\ 0 \in 0 .. k /\ k \in 0 .. k
      BY <1>1, <1>2, <3>2, <3>3
    <3>7. s + 1 <= Place(s, k) /\ Place(s, k) \in Nat /\ 0 \in 0 .. Block - 1
      <4>1. Place(s, 0) + s + 1 <= Place(s, k) /\ Place(s, k) \in Nat
        BY <1>1, <3>6
      <4> QED
        BY <1>1, <4>1
    <3>8. Marked(Place(s, k))'
      <4>1. Place(s, k) = wpos
        BY <1>2, <3>2
      <4>2. wpos = Block \/ (wpos \in DOMAIN pool /\ wpos # 0)
        BY <1>1, <1>2, <3>7, <4>1
      <4>3. wpos = Block \/ pool'[wpos] = Word("size", 0)
        BY <3>5, <4>2
      <4>4. Place(s, k) = Block \/ pool'[Place(s, k)] = Word("size", 0)
        BY <4>1, <4>3
      <4> QED
        BY <4>4 DEF Marked, Place
    <3>9. \A x \in DOMAIN pool \ {Place(s, k), 0} : pool'[x] = pool[x]
      BY <1>2, <3>2, <3>5
    <3>a. Circle(s, k, 0, b, f, m)' /\ b > 0
      BY <1>2, <1>3, <2>4, <3>2, <3>3, <3>4, <3>5, <3>8, <3>9, Jumped
    <3>b. HasSize(s, 0)'
      <4>1. pool'[Place(s, 0)] = Word("size", s)
        BY <1>1, <1>2, <3>5, <3>7
      <4> QED
        BY <4>1 DEF HasSize, Place
    <3>c. 0 # b
      BY <3>3
    <3>d. SlotsInUse(t, s, k, 0, b, f, m)'
      BY <1>3, <2>1, <3>6, <3>b, <3>c DEF SlotsInUse
    <3> QED
      BY <1>3, <2>2, <3>a, <3>d DEF RingInv
  <2>6. CASE ~jump
    <3>1. pool' = WithSize(pool, wpos, s) /\ UNCHANGED wpos
      BY <2>1, <2>6
    <3>2. a < k
      <4>1. CASE a < b
        BY <1>1, <1>2, <4>1
      <4>2. CASE ~(a < b)
        <5>1. k \in 0 .. k /\ (a = b \/ b < a)
          BY <1>1, <1>2, <4>2
        <5>2. wpos >= rpos
          BY <1>1, <1>2, <5>1
        <5>3. ~(wpos <= Block /\ Block - wpos < s + 1)
          BY <2>6, <5>2 DEF Jumps, Short, Cap
        <5>4. a # k
          BY <1>1, <1>2, <5>1, <5>3
        <5> QED
          BY <1>1, <1>2, <5>4
      <4> QED
        BY <4>1, <4>2
    <3>3. /\ DOMAIN pool' = DOMAIN pool
          /\ \A x \in DOMAIN pool \ {wpos} : pool'[x] = pool[x]
          /\ wpos \in DOMAIN pool => pool'[wpos] = Word("size", s)
      BY <3>1, SizeWritten
    <3>4. Place(s, a) \in Nat /\ Place(s, a) + s + 1 <= Place(s, k) /\ Place(s, k) \in Nat
      <4>1. k \in 0 .. k
        BY <1>1
      <4> QED
        BY <1>1, <1>2, <3>2, <4>1
    <3>5. /\ wpos \in Place(s, a) .. Place(s, a) + s
          /\ Place(s, a) \in 0 .. Block - 1
      BY <1>1, <1>2, <3>4
    <3>6. Circle(s, k, a, b, f, m)'
      BY <1>2, <1>3, <2>4, <3>1, <3>2, <3>3, <3>5, SlotWritten
    <3>7. HasSize(s, a)'
      <4>1. pool'[Place(s, a)] = Word("size", s)
        BY <1>2, <3>3, <3>5
      <4> QED
        BY <4>1 DEF HasSize, Place
    <3>8. SlotsInUse(t, s, k, a, b, f, m)'
      BY <1>3, <2>1, <2>4, <3>2, <3>7 DEF SlotsInUse
    <3> QED
      BY <1>3, <2>2, <3>6, <3>8 DEF RingInv
  <2> QED
    BY <2>5, <2>6
<1> QED
  BY <1>5, <1>6

LEMMA AppendIs ==
  ASSUME NEW q, IsSeq(q), NEW e
  PROVE  \A n \in 1 .. Len(q) + 1 : Append(q, e)[n] = IF n = Len(q) + 1 THEN e ELSE q[n]
<1> DEFINE S == {q[i] : i \in DOMAIN q} \cup {e}
<1>1. q \in Seq(S)
  <2>1. DOMAIN q = 1 .. Len(q) /\ Len(q) \in Nat /\ q \in Seq({q[i] : i \in DOMAIN q})
    BY DEF IsSeq
  <2>2. \A i \in 1 .. Len(q) : q[i] \in S
    BY <2>1
  <2> HIDE DEF S
  <2> QED
    BY <2>1, <2>2
<1>2. e \in S
  OBVIOUS
<1> HIDE DEF S
<1> QED
  BY <1>1, <1>2

LEMMA FillRing ==
  ASSUME IInv, NEW t \in Threads, Fill(t), NEW s, NEW k, Fits(s, k),
         NEW a, NEW b, NEW f, NEW m, RingInv(t, s, k, a, b, f, m)
  PROVE  RingInv(t, s, k, a, b, f, m)'
<1> USE DEF At, Goto, Load, ring, observed
<1>1. /\ s \in Nat /\ s > 0 /\ k \in Nat /\ Block \in Nat
      /\ \A i \in 0 .. k : Place(s, i) \in Nat
      /\ \A i, j \in 0 .. k : i < j => Place(s, i) + s + 1 <= Place(s, j)
      /\ Place(s, k) <= Block
  BY Places
<1>2. /\ Circle(s, k, a, b, f, m)
      /\ a \in 0 .. k /\ b \in 0 .. k /\ f \in Nat /\ m \in Nat
      /\ wpos = Place(s, a)
      /\ DOMAIN pool = 0 .. Block - 1
  BY DEF RingInv, Circle
<1>3. /\ pc[t] = "fill" /\ size[t] = s /\ f = First(t) /\ m = Held(t)
      /\ DOMAIN pc = Threads
      /\ a < k /\ HasSize(s, a) /\ (a = b => m = 0)
      /\ UNCHANGED <<wpos, rpos, sent, got, size, loaded>>
  BY DEF Fill, RingInv, SlotsInUse, IInv, CountType
<1>4. pc'[t] = "announce"
  BY <1>3 DEF Fill
<1>5. First(t)' = First(t) /\ Held(t)' = Held(t)
  BY <1>3, <1>4 DEF First, Held
<1>6. f + m = Len(sent) + 1
  <2>1. Len(sent) \in Nat /\ Len(got) \in Nat
    BY Standing
  <2>2. f = Len(got) + 1 /\ m = Len(sent) - Len(got)
    BY <1>3 DEF First, Held
  <2> QED
    BY <2>1, <2>2
<1> DEFINE d == Word("data", Len(sent) + 1)
<1>7. pool' = [i \in DOMAIN pool |-> IF i \in wpos + 1 .. wpos + s THEN d ELSE pool[i]]
  BY <1>3 DEF Fill
<1> HIDE DEF d
<1>8. DOMAIN pool' = DOMAIN pool
      /\ \A i \in DOMAIN pool : pool'[i] = IF i \in wpos + 1 .. wpos + s THEN d ELSE pool[i]
  BY <1>7
<1>9. Place(s, a) \in Nat /\ Place(s, a) + s + 1 <= Block
  <2>1. k \in 0 .. k /\ Place(s, k) \in Nat
    BY <1>1
  <2>2. Place(s, a) \in Nat /\ Place(s, a) + s + 1 <= Place(s, k)
    BY <1>1, <1>2, <1>3, <2>1
  <2> QED
    BY <1>1, <2>1, <2>2
<1>a. \A x \in DOMAIN pool \ (Place(s, a) .. Place(s, a) + s) : pool'[x] = pool[x]
  <2>1. \A x : x \in wpos + 1 .. wpos + s => x \in Place(s, a) .. Place(s, a) + s
    BY <1>1, <1>2, <1>9
  <2> QED
    BY <1>8, <2>1
<1>b. Circle(s, k, a, b, f, m)'
  BY <1>2, <1>3, <1>8, <1>a, SlotWritten
<1>c. HasSize(s, a)'
  <2>1. Place(s, a) \in DOMAIN pool /\ Place(s, a) \notin wpos + 1 .. wpos + s
    BY <1>1, <1>2, <1>9
  <2>2. pool'[Place(s, a)] = pool[Place(s, a)]
    BY <1>8, <2>1
  <2> QED
    BY <1>3, <2>2 DEF HasSize, Place
<1>d. Holds(s, a, f + m)'
  <2>1. \A j \in 1 .. s : Place(s, a) + j \in DOMAIN pool /\ Place(s, a) + j \in wpos + 1 .. wpos + s
    BY <1>1, <1>2, <1>9, SMTT(30)
  <2>2. \A j \in 1 .. s : pool'[Place(s, a) + j] = d
    BY <1>8, <2>1
  <2>3. d = Word("data", f + m)
    BY <1>6 DEF d
  <2> QED
    BY <1>c, <2>2, <2>3 DEF Holds, Place
<1>e. SlotsInUse(t, s, k, a, b, f, m)'
  BY <1>3, <1>4, <1>c, <1>d DEF SlotsInUse
<1> QED
  BY <1>3, <1>5, <1>b, <1>e DEF RingInv

LEMMA AnnounceRing ==
  ASSUME IInv, NEW t \in Threads, Announce(t), NEW s, NEW k, Fits(s, k), Whole(s),
         NEW a, NEW b, NEW f, NEW m, RingInv(t, s, k, a, b, f, m)
  PROVE  RingInv(t, s, k, a, b, f, m)' /\ Whole(s)'
<1> USE DEF At, Goto, Load, ring, observed
<1>1. /\ pc[t] = "announce" /\ size[t] = s /\ f = First(t) /\ m = Held(t)
      /\ Circle(s, k, a, b, f, m)
      /\ a < k /\ HasSize(s, a) /\ (a = b => m = 0) /\ Holds(s, a, f + m)
      /\ DOMAIN pc = Threads
      /\ UNCHANGED <<pool, wpos, rpos, got, size, loaded>>
  BY DEF Announce, RingInv, SlotsInUse, IInv, CountType
<1>2. pc'[t] = "advance" /\ sent' = Append(sent, s)
  BY <1>1 DEF Announce
<1>3. IsSeq(sent) /\ Len(sent) \in Nat /\ Len(got) \in Nat /\ Len(sent') = Len(sent) + 1
  BY <1>2, Standing, Appended DEF CountType
<1>4. First(t)' = First(t) /\ Held(t)' = Held(t)
  <2>1. First(t) = Len(got) + 1 /\ First(t)' = Len(got) + 1
    BY <1>1, <1>2 DEF First
  <2>2. Held(t) = Len(sent) - Len(got) /\ Held(t)' = Len(sent') - Len(got) - 1
    BY <1>1, <1>2 DEF Held
  <2> QED
    BY <1>3, <2>1, <2>2
<1>5. Circle(s, k, a, b, f, m)' /\ HasSize(s, a)' /\ Holds(s, a, f + m)'
  BY <1>1 DEF Circle, Flat, Wrapped, Holds, HasSize, Marked, Place
<1>6. SlotsInUse(t, s, k, a, b, f, m)'
  BY <1>1, <1>2, <1>5 DEF SlotsInUse
<1>7. RingInv(t, s, k, a, b, f, m)'
  BY <1>1, <1>4, <1>5, <1>6 DEF RingInv
<1>8. \A n \in 1 .. Len(sent') : sent'[n] = s
  <2>1. \A n \in 1 .. Len(sent) + 1 : n = Len(sent) + 1 \/ n \in 1 .. Len(sent)
    BY <1>3
  <2> QED
    BY <1>2, <1>3, <2>1, AppendIs DEF Whole
<1>9. Whole(s)'
  BY <1>1, <1>8 DEF Whole
<1> QED
  BY <1>7, <1>9

LEMMA AdvanceWriteRing ==
  ASSUME IInv, NEW t \in Threads, AdvanceWrite(t), NEW s, NEW k, Fits(s, k),
         NEW a, NEW b, NEW f, NEW m, RingInv(t, s, k, a, b, f, m)
  PROVE  RingInv(t, s, k, a + 1, b, f, m + 1)'
<1> USE DEF At, Goto, Load, ring, observed
<1>1. /\ pc[t] = "advance" /\ size[t] = s /\ f = First(t) /\ m = Held(t)
      /\ Circle(s, k, a, b, f, m) /\ wpos = Place(s, a)
      /\ a < k /\ HasSize(s, a) /\ (a = b => m = 0) /\ Holds(s, a, f + m)
      /\ DOMAIN pc = Threads
      /\ UNCHANGED <<pool, rpos, sent, got, size>>
  BY DEF AdvanceWrite, RingInv, SlotsInUse, IInv, CountType, Circle
<1>2. pc'[t] = "wstore" /\ wpos' = wpos + Cap(SizeAt(wpos))
  BY <1>1 DEF AdvanceWrite
<1>3. /\ s \in Nat /\ Place(s, a) \in DOMAIN pool
      /\ Place(s, a) \in Nat
      /\ Place(s, a + 1) = Place(s, a) + s + 1
  <2>1. a \in 0 .. k /\ DOMAIN pool = 0 .. Block - 1
    BY <1>1 DEF Circle
  <2> QED
    BY <1>1, <2>1, SlotInPool, Places
<1>4. wpos' = Place(s, a + 1)
  <2>1. SizeAt(wpos) = s
    BY <1>1, <1>3, SizeIs DEF HasSize
  <2> QED
    BY <1>1, <1>2, <1>3, <2>1 DEF Cap
<1>5. Circle(s, k, a + 1, b, f, m + 1)'
  BY <1>1, <1>4, Entered
<1>6. f = First(t)' /\ m + 1 = Held(t)'
  <2>1. Len(sent) \in Nat /\ Len(got) \in Nat
    BY Standing
  <2>2. First(t) = Len(got) + 1 /\ First(t)' = Len(got) + 1
    BY <1>1, <1>2 DEF First
  <2>3. Held(t) = Len(sent) - Len(got) - 1 /\ Held(t)' = Len(sent) - Len(got)
    BY <1>1, <1>2 DEF Held
  <2> QED
    BY <1>1, <2>1, <2>2, <2>3
<1>7. SlotsInUse(t, s, k, a + 1, b, f, m + 1)'
  BY <1>2 DEF SlotsInUse
<1> QED
  BY <1>5, <1>6, <1>7 DEF RingInv

LEMMA ReadBeginRing ==
  ASSUME IInv, NEW t \in Threads, ReadBegin(t), DOMAIN size = Threads, NEW s, NEW k, Fits(s, k),
         NEW a, NEW b, NEW f, NEW m, RingInv(t, s, k, a, b, f, m)
  PROVE  \E c : RingInv(t, s, k, a, c, f, m)'
<1> USE DEF At, Goto, Load, ring, observed
<1>1. /\ pc[t] = "rbegin" /\ f = First(t) /\ m = Held(t)
      /\ Circle(s, k, a, b, f, m) /\ rpos = Place(s, b)
      /\ b \in 0 .. k /\ m \in Nat
      /\ DOMAIN pool = 0 .. Block - 1
      /\ DOMAIN pc = Threads
      /\ UNCHANGED <<pool, wpos, sent, got>>
  BY DEF ReadBegin, RingInv, IInv, CountType, Circle
<1> DEFINE at == IF rpos = Block \/ SizeAt(rpos) = 0 THEN 0 ELSE rpos
<1>2. pc'[t] = "use" /\ rpos' = at /\ size'[t] = SizeAt(at)
  BY <1>1 DEF ReadBegin
<1>3. First(t)' = First(t) /\ Held(t)' = Held(t)
  BY <1>1, <1>2 DEF First, Held
<1>4. m > 0
  <2>1. CountInv(t) /\ Len(sent) \in Nat /\ Len(got) \in Nat /\ total \in Nat
    BY Standing DEF CountType
  <2>2. m = Len(sent) - Len(got)
    BY <1>1 DEF Held
  <2>3. Len(sent) = Len(got) + total /\ total > 0
    BY <1>1, <2>1 DEF CountInv
  <2> QED
    BY <2>1, <2>2, <2>3
<1>5. s \in Nat /\ s > 0 /\ k \in Nat /\ Place(s, 0) = 0
  BY Places
<1> HIDE DEF at
<1>6. ASSUME NEW c \in 0 .. k, c < k, Holds(s, c, f), at = Place(s, c), Circle(s, k, a, c, f, m)'
      PROVE  RingInv(t, s, k, a, c, f, m)'
  <2>1. SizeAt(at) = s
    BY <1>1, <1>6, SlotInPool, SizeIs DEF Holds, HasSize
  <2>2. SlotsInUse(t, s, k, a, c, f, m)'
    BY <1>2, <1>6, <2>1 DEF SlotsInUse
  <2> QED
    BY <1>1, <1>3, <1>6, <2>2 DEF RingInv
<1>7. CASE b = k
  <2>1. Marked(Place(s, k)) /\ k > 0 /\ Holds(s, 0, f)
    BY <1>1, <1>4, <1>7, Rewound
  <2>2. rpos = Block \/ SizeAt(rpos) = 0
    <3>1. k \in 0 .. k
      BY <1>5
    <3>2. Place(s, k) \in Nat /\ Place(s, k) <= Block /\ Block \in Nat
      BY <3>1, Places
    <3>3. rpos # Block => rpos \in DOMAIN pool /\ pool[rpos] = Word("size", 0)
      <4>1. rpos # Block => rpos \in 0 .. Block - 1
        BY <1>1, <1>7, <3>2
      <4> QED
        BY <1>1, <1>7, <2>1, <4>1 DEF Marked
    <3> QED
      BY <3>3, SizeIs
  <2>3. at = 0
    BY <2>2 DEF at
  <2>4. Circle(s, k, a, 0, f, m)'
    BY <1>1, <1>2, <1>4, <1>7, <2>3, Rewound
  <2>5. 0 \in 0 .. k /\ 0 < k
    BY <1>5, <2>1
  <2> QED
    BY <1>5, <1>6, <2>1, <2>3, <2>4, <2>5
<1>8. CASE b # k
  <2>1. b < k
    BY <1>1, <1>5, <1>8
  <2>2. Holds(s, b, f)
    BY <1>1, <1>4, <2>1, FirstHeld
  <2>3. rpos \in DOMAIN pool /\ rpos # Block
    BY <1>1, <2>1, SlotInPool
  <2>4. SizeAt(rpos) = s
    BY <1>1, <2>2, <2>3, SizeIs DEF Holds, HasSize
  <2>5. at = rpos
    BY <1>5, <2>3, <2>4 DEF at
  <2>6. Circle(s, k, a, b, f, m)'
    BY <1>1, <1>2, <2>5 DEF Circle, Flat, Wrapped, Holds, HasSize, Marked, Place
  <2> QED
    BY <1>1, <1>6, <2>1, <2>2, <2>5, <2>6
<1> QED
  BY <1>7, <1>8

\* What the reader uses is the whole message, and nothing else.
LEMMA UseRing ==
  ASSUME IInv, NEW t \in Threads, Use(t), NEW s, NEW k, Fits(s, k), Whole(s),
         NEW a, NEW b, NEW f, NEW m, RingInv(t, s, k, a, b, f, m)
  PROVE  RingInv(t, s, k, a, b, f, m)' /\ Whole(s)'
<1> USE DEF At, Goto, Load, ring, observed
<1>1. /\ pc[t] = "use" /\ size[t] = s /\ f = First(t) /\ m = Held(t)
      /\ Circle(s, k, a, b, f, m) /\ rpos = Place(s, b) /\ b < k
      /\ b \in 0 .. k /\ m \in Nat /\ DOMAIN pool = 0 .. Block - 1
      /\ DOMAIN pc = Threads
      /\ UNCHANGED <<pool, wpos, rpos, sent, size>>
  BY DEF Use, RingInv, SlotsInUse, IInv, CountType, Circle
<1> DEFINE words == {pool[i] : i \in DOMAIN pool \cap (rpos + 1 .. rpos + s)}
<1>2. pc'[t] = "withdraw" /\ got' = Append(got, [size |-> s, words |-> words])
  BY <1>1 DEF Use
<1>3. /\ IsSeq(got) /\ Len(sent) \in Nat /\ Len(got) \in Nat /\ Len(got') = Len(got) + 1
      /\ Len(sent) = Len(got) + total /\ total > 0 /\ total \in Nat
  <2>1. CountInv(t) /\ IsSeq(got) /\ Len(sent) \in Nat /\ Len(got) \in Nat /\ total \in Nat
    BY Standing DEF CountType
  <2> QED
    BY <1>1, <1>2, <2>1, Appended DEF CountInv
<1>4. f = Len(got) + 1 /\ First(t)' = Len(got') /\ First(t)' = First(t)
  <2>1. First(t) = Len(got) + 1 /\ First(t)' = Len(got')
    BY <1>1, <1>2 DEF First
  <2> QED
    BY <1>1, <1>3, <2>1
<1>5. Held(t)' = Held(t) /\ m > 0
  <2>1. Held(t) = Len(sent) - Len(got) /\ Held(t)' = Len(sent) - Len(got') + 1
    BY <1>1, <1>2 DEF Held
  <2> QED
    BY <1>1, <1>3, <2>1
<1>6. /\ s \in Nat /\ s > 0 /\ k \in 0 .. k /\ Place(s, b) \in Nat /\ Place(s, k) \in Nat
      /\ Place(s, b) + s + 1 <= Place(s, k) /\ Place(s, k) <= Block /\ Block \in Nat
  <2>1. k \in Nat
    BY Places
  <2>2. k \in 0 .. k
    BY <2>1
  <2> QED
    BY <1>1, <2>2, Places
<1>7. words = {Word("data", f)}
  <2>1. Holds(s, b, f)
    BY <1>1, <1>5, FirstHeld
  <2>2. \A i \in rpos + 1 .. rpos + s : i - rpos \in 1 .. s /\ i = Place(s, b) + (i - rpos)
    BY <1>1, <1>6
  <2>3. \A i \in rpos + 1 .. rpos + s : pool[i] = Word("data", f)
    BY <2>1, <2>2 DEF Holds
  <2>4. rpos + 1 \in DOMAIN pool \cap (rpos + 1 .. rpos + s)
    BY <1>1, <1>6
  <2> QED
    BY <2>3, <2>4
<1> HIDE DEF words
<1>8. Circle(s, k, a, b, f, m)'
  BY <1>1 DEF Circle, Flat, Wrapped, Holds, HasSize, Marked, Place
<1>9. SlotsInUse(t, s, k, a, b, f, m)'
  BY <1>1, <1>2 DEF SlotsInUse
<1>a. RingInv(t, s, k, a, b, f, m)'
  BY <1>1, <1>4, <1>5, <1>8, <1>9 DEF RingInv
<1>b. \A n \in 1 .. Len(got') : got'[n] = [size |-> s, words |-> {Word("data", n)}]
  <2>1. \A n \in 1 .. Len(got') : n = f \/ n \in 1 .. Len(got)
    BY <1>3, <1>4
  <2>2. \A n \in 1 .. Len(got') :
          got'[n] = IF n = f THEN [size |-> s, words |-> words] ELSE got[n]
    BY <1>2, <1>3, <1>4, AppendIs
  <2>3. f \notin 1 .. Len(got)
    BY <1>3, <1>4
  <2> QED
    BY <1>7, <2>1, <2>2, <2>3 DEF Whole
<1>c. Whole(s)'
  BY <1>1, <1>b DEF Whole
<1> QED
  BY <1>a, <1>c

LEMMA AdvanceReadRing ==
  ASSUME IInv, NEW t \in Threads, AdvanceRead(t), NEW s, NEW k, Fits(s, k),
         NEW a, NEW b, NEW f, NEW m, RingInv(t, s, k, a, b, f, m)
  PROVE  RingInv(t, s, k, a, b + 1, f + 1, m - 1)'
<1> USE DEF At, Goto, Load, ring, observed
<1>1. /\ pc[t] = "retreat" /\ f = First(t) /\ m = Held(t)
      /\ Circle(s, k, a, b, f, m) /\ rpos = Place(s, b) /\ b < k
      /\ b \in 0 .. k /\ DOMAIN pool = 0 .. Block - 1
      /\ DOMAIN pc = Threads
      /\ UNCHANGED <<pool, wpos, sent, got, size>>
  BY DEF AdvanceRead, RingInv, SlotsInUse, IInv, CountType, Circle
<1>2. pc'[t] = "rstore" /\ rpos' = rpos + Cap(SizeAt(rpos))
  BY <1>1 DEF AdvanceRead
<1>3. /\ m > 0 /\ f + 1 = First(t)' /\ m - 1 = Held(t)'
  <2>1. CountInv(t) /\ Len(sent) \in Nat /\ Len(got) \in Nat /\ total \in Nat
    BY Standing DEF CountType
  <2>2. Len(sent) = Len(got) + total
    BY <1>1, <2>1 DEF CountInv
  <2>3. First(t) = Len(got) /\ First(t)' = Len(got) + 1
    BY <1>1, <1>2 DEF First
  <2>4. Held(t) = Len(sent) - Len(got) + 1 /\ Held(t)' = Len(sent) - Len(got)
    BY <1>1, <1>2 DEF Held
  <2> QED
    BY <1>1, <2>1, <2>2, <2>3, <2>4
<1>4. rpos' = Place(s, b + 1)
  <2>1. Holds(s, b, f) /\ Place(s, b) \in DOMAIN pool
    BY <1>1, <1>3, FirstHeld, SlotInPool
  <2>2. SizeAt(rpos) = s
    BY <1>1, <2>1, SizeIs DEF Holds, HasSize
  <2>3. s \in Nat /\ Place(s, b) \in Nat /\ Place(s, b + 1) = Place(s, b) + s + 1
    BY <1>1, Places
  <2> QED
    BY <1>1, <1>2, <2>2, <2>3 DEF Cap
<1>5. Circle(s, k, a, b + 1, f + 1, m - 1)'
  BY <1>1, <1>3, <1>4, TakenOut
<1>6. SlotsInUse(t, s, k, a, b + 1, f + 1, m - 1)'
  BY <1>2 DEF SlotsInUse
<1> QED
  BY <1>3, <1>5, <1>6 DEF RingInv

\* The steps that move neither side of the ring.
LEMMA OtherRing ==
  ASSUME IInv, NEW t \in Threads, DOMAIN size = Threads, NEW s, NEW k, Fits(s, k),
         NEW a, NEW b, NEW f, NEW m, RingInv(t, s, k, a, b, f, m),
         \/ \E sz \in Sizes : Write(t, sz)
         \/ LoadReadPos(t) \/ StoreWritten(t) \/ Read(t) \/ LockRead(t) \/ TestRing(t)
         \/ Withdraw(t) \/ StoreRead(t)
  PROVE  RingInv(t, s, k, a, b, f, m)' /\ DOMAIN size' = Threads /\ UNCHANGED <<sent, got>>
<1> USE DEF At, Goto, Load, ring, observed
<1>0. DOMAIN pc = Threads /\ DOMAIN loaded = Threads /\ Sizes = {s}
      /\ SlotsInUse(t, s, k, a, b, f, m)
  BY DEF IInv, CountType, Fits, RingInv
<1>1. CASE \E sz \in Sizes : Write(t, sz)
  <2>1. /\ pc[t] = "idle" /\ pc'[t] = "wload" /\ size'[t] = s /\ DOMAIN size' = Threads
        /\ UNCHANGED <<pool, wpos, rpos, sent, got>>
    BY <1>0, <1>1 DEF Write
  <2>2. SlotsInUse(t, s, k, a, b, f, m)'
    BY <2>1 DEF SlotsInUse
  <2> QED
    BY <2>1, <2>2, RingSame
<1>2. CASE LoadReadPos(t)
  <2>1. /\ pc[t] = "wload" /\ pc'[t] = "wbegin" /\ loaded'[t] = rpos
        /\ UNCHANGED <<pool, wpos, rpos, size, sent, got>>
    BY <1>0, <1>2 DEF LoadReadPos
  <2>2. SlotsInUse(t, s, k, a, b, f, m)'
    BY <1>0, <2>1 DEF SlotsInUse
  <2> QED
    BY <2>1, <2>2, RingSame
<1>3. CASE StoreWritten(t) \/ StoreRead(t) \/ Read(t) \/ LockRead(t) \/ TestRing(t)
  <2>1. /\ pc[t] \in {"wstore", "rstore", "idle", "rlock", "rtest"}
        /\ pc'[t] \in {"idle", "rlock", "rtest", "rbegin"}
        /\ UNCHANGED <<pool, wpos, rpos, size, sent, got>>
    BY <1>0, <1>3 DEF StoreWritten, StoreRead, Read, LockRead, TestRing
  <2>2. SlotsInUse(t, s, k, a, b, f, m)'
    BY <2>1 DEF SlotsInUse
  <2> QED
    BY <2>1, <2>2, RingSame
<1>4. CASE Withdraw(t)
  <2>1. /\ pc[t] = "withdraw" /\ pc'[t] = "retreat"
        /\ UNCHANGED <<pool, wpos, rpos, size, sent, got>>
    BY <1>0, <1>4 DEF Withdraw
  <2>2. SlotsInUse(t, s, k, a, b, f, m)'
    BY <1>0, <2>1 DEF SlotsInUse
  <2> QED
    BY <2>1, <2>2, RingSame
<1> QED
  BY <1>1, <1>2, <1>3, <1>4

LEMMA FifoKeeps == ASSUME IInv, FifoInv, NEW t \in Threads, Step(t) PROVE FifoInv'
<1>1. DOMAIN size = Threads
  BY DEF FifoInv
<1>2. PICK s, k : /\ Fits(s, k) /\ Whole(s)
                  /\ \A th \in Threads : \E a, b, f, m : RingInv(th, s, k, a, b, f, m)
  BY DEF FifoInv
<1>3. PICK a, b, f, m : RingInv(t, s, k, a, b, f, m)
  BY <1>2
<1>4. UNCHANGED <<sent, got>> => Whole(s)'
  BY <1>2 DEF Whole
<1>5. CASE WriteBegin(t)
  <2>1. UNCHANGED <<size, sent, got>>
    BY <1>5 DEF WriteBegin, observed
  <2> QED
    BY <1>1, <1>2, <1>3, <1>4, <1>5, <2>1, WriteBeginRing, RingStepped
<1>6. CASE Fill(t)
  <2>1. UNCHANGED <<size, sent, got>>
    BY <1>6 DEF Fill, observed
  <2> QED
    BY <1>1, <1>2, <1>3, <1>4, <1>6, <2>1, FillRing, RingStepped
<1>7. CASE Announce(t)
  <2>1. UNCHANGED size
    BY <1>7 DEF Announce
  <2> QED
    BY <1>1, <1>2, <1>3, <1>7, <2>1, AnnounceRing, RingStepped
<1>8. CASE AdvanceWrite(t)
  <2>1. UNCHANGED <<size, sent, got>>
    BY <1>8 DEF AdvanceWrite, observed
  <2> QED
    BY <1>1, <1>2, <1>3, <1>4, <1>8, <2>1, AdvanceWriteRing, RingStepped
<1>9. CASE ReadBegin(t)
  <2>1. UNCHANGED <<sent, got>> /\ DOMAIN size' = Threads
    BY <1>1, <1>9 DEF ReadBegin, observed
  <2> QED
    BY <1>1, <1>2, <1>3, <1>4, <1>9, <2>1, ReadBeginRing, RingStepped
<1>a. CASE Use(t)
  <2>1. UNCHANGED size
    BY <1>a DEF Use
  <2> QED
    BY <1>1, <1>2, <1>3, <1>a, <2>1, UseRing, RingStepped
<1>b. CASE AdvanceRead(t)
  <2>1. UNCHANGED <<size, sent, got>>
    BY <1>b DEF AdvanceRead, observed
  <2> QED
    BY <1>1, <1>2, <1>3, <1>4, <1>b, <2>1, AdvanceReadRing, RingStepped
<1>c. CASE \/ \E sz \in Sizes : Write(t, sz)
           \/ LoadReadPos(t) \/ StoreWritten(t) \/ Read(t) \/ LockRead(t) \/ TestRing(t)
           \/ Withdraw(t) \/ StoreRead(t)
  BY <1>1, <1>2, <1>3, <1>4, <1>c, OtherRing, RingStepped
<1> QED
  BY <1>5, <1>6, <1>7, <1>8, <1>9, <1>a, <1>b, <1>c DEF Step

\* Messages of one size.
OneSize == \E s \in Nat \ {0} : Sizes = {s}

LEMMA InitFifo == OneSize /\ Init => FifoInv
<1> SUFFICES ASSUME OneSize, Init PROVE FifoInv
  OBVIOUS
<1>1. PICK s, k : Fits(s, k)
  BY SlotsFit DEF OneSize
<1>2. k \in Nat /\ Place(s, 0) = 0
  BY <1>1, Places
<1>3. /\ DOMAIN size = Threads /\ DOMAIN pool = 0 .. Block - 1 /\ wpos = 0 /\ rpos = 0
      /\ sent = <<>> /\ got = <<>>
  BY DEF Init
<1>4. Len(sent) = 0 /\ Len(got) = 0 /\ \A i \in 0 .. 0 - 1 : FALSE
  BY <1>3
<1>5. Circle(s, k, 0, 0, 1, 0)
  <2>1. 0 \in 0 .. k /\ 0 = 0 - 0 /\ 0 <= 0
    BY <1>2
  <2>2. Flat(s, 0, 0, 1, 0)
    BY <1>4, <2>1 DEF Flat
  <2> QED
    BY <1>2, <1>3, <2>1, <2>2 DEF Circle
<1>6. ASSUME NEW t \in Threads PROVE RingInv(t, s, k, 0, 0, 1, 0)
  <2>1. pc[t] = "idle"
    BY DEF Init
  <2>2. First(t) = Len(got) + 1 /\ Held(t) = Len(sent) - Len(got)
    BY <2>1 DEF First, Held
  <2>3. First(t) = 1 /\ Held(t) = 0
    BY <1>4, <2>2
  <2>4. SlotsInUse(t, s, k, 0, 0, 1, 0)
    BY <2>1 DEF SlotsInUse
  <2> QED
    BY <1>5, <2>3, <2>4 DEF RingInv
<1>7. Whole(s)
  BY <1>4 DEF Whole
<1> QED
  BY <1>1, <1>3, <1>6, <1>7 DEF FifoInv

LEMMA StepFifo == IInv /\ FifoInv /\ [Next]_vars => FifoInv'
<1> SUFFICES ASSUME IInv, FifoInv, [Next]_vars PROVE FifoInv'
  OBVIOUS
<1>1. CASE UNCHANGED vars \/ Rest
  <2>1. UNCHANGED <<pool, wpos, rpos, pc, size, loaded, sent, got>>
    BY <1>1 DEF vars, Rest
  <2>2. \A s : Whole(s)' <=> Whole(s)
    BY <2>1 DEF Whole
  <2>3. ASSUME NEW t, NEW s, NEW k, NEW a, NEW b, NEW f, NEW m, RingInv(t, s, k, a, b, f, m)
        PROVE  RingInv(t, s, k, a, b, f, m)'
    <3>1. First(t)' = First(t) /\ Held(t)' = Held(t)
      BY <2>1 DEF First, Held
    <3>2. Circle(s, k, a, b, f, m)'
      BY <2>1, <2>3 DEF RingInv, Circle, Flat, Wrapped, Holds, HasSize, Marked, Place
    <3>3. SlotsInUse(t, s, k, a, b, f, m)'
      BY <2>1, <2>3 DEF RingInv, SlotsInUse, Holds, HasSize, Place
    <3> QED
      BY <2>3, <3>1, <3>2, <3>3 DEF RingInv
  <2> QED
    BY <2>1, <2>2, <2>3 DEF FifoInv
<1>2. CASE \E t \in Threads : Step(t)
  BY <1>2, FifoKeeps
<1> QED
  BY <1>1, <1>2 DEF Next

LEMMA InvFifo == ASSUME IInv, FifoInv PROVE PipeIsFifo
<1>1. PICK t : t \in Threads
  BY DEF IInv, OneThread, Threads
<1>2. PICK s, k, a, b, f, m : Whole(s) /\ RingInv(t, s, k, a, b, f, m)
  BY <1>1 DEF FifoInv
<1>3. Len(sent) \in Nat /\ Len(got) \in Nat /\ total \in Nat /\ CountInv(t)
  BY <1>1, Standing DEF CountType
<1>4. Len(got) <= Len(sent)
  <2>1. pc[t] = "withdraw" => total - 1 >= 0
    BY <1>3 DEF CountInv
  <2>2. Len(sent) = Len(got) + total \/ (total - 1 >= 0 /\ Len(sent) = Len(got) + (total - 1))
    BY <1>3, <2>1 DEF CountInv
  <2> QED
    BY <1>3, <2>2
<1>5. 1 .. Len(got) \subseteq 1 .. Len(sent)
  BY <1>3, <1>4
<1>6. \A n \in 1 .. Len(got) :
        got[n] = [size |-> s, words |-> {Word("data", n)}] /\ sent[n] = s
  BY <1>2, <1>5 DEF Whole
<1> QED
  BY <1>4, <1>6 DEF PipeIsFifo

\* A thread that writes and reads in turn messages of one size gets them out whole
\* and in the order in which it wrote them, however often the ring goes round
\* (write_begin, write_end, read_begin, read_end).  Of mixed sizes it does not.
THEOREM FifoOfOneThread == OneThread /\ OneSize => (Spec => []PipeIsFifo)
<1>1. IInv /\ FifoInv => PipeIsFifo
  BY InvFifo
<1> QED
  BY <1>1, InitInv, StepInv, InitFifo, StepFifo, PTL DEF Spec
=============================================================================
