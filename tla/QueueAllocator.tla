--------------------------- MODULE QueueAllocator ---------------------------
(***************************************************************************)
(* The pipe between threads of small-idea/lua_script_function/src/         *)
(* queue_allocator.{h,cpp}; utility/src/data_pipe.h and ring_buffer.h are  *)
(* the same code as templates.  Writers and readers exclude their own kind *)
(* by _w_lock and _r_lock, but a writer and a reader meet in the same ring *)
(* (queue_buffer), whose members are plain size_t: every load and store of *)
(* one the other side uses is a step of its own.                           *)
(*                                                                         *)
(* Positions and sizes count words of sizeof(size_t); a record is a word   *)
(* with its size and that many words of data, all of them showing which    *)
(* message they belong to.  There is a single buf_node: next_node(true)    *)
(* clears _w_buf->next and fails the assertion on it, so a second one is   *)
(* never linked, and next_node(false) fails the assertion that there is    *)
(* one.  A failed assertion halts the program.                             *)
(***************************************************************************)
EXTENDS Naturals, Sequences

CONSTANTS Writers, Readers,  \* the threads that write, and that read
          Block,             \* _block, the capacity of the ring
          Sizes,             \* the sizes of messages
          MaxSent,           \* bound on the messages written
          None               \* no thread, no failed assertion

ASSUME BlockAssumption == Block \in Nat
ASSUME PipeAssumption == None \notin {"no room", "no data"}

Threads  == Writers \cup Readers
Messages == 1 .. MaxSent

VARIABLES
  pool,            \* _pool: each word a size, data of a message, or never written
  wpos, rpos,      \* _w_pos, _r_pos
  count,           \* queue_buffer::_count
  total,           \* queue_allocator::_count, atomic
  wlock, rlock,    \* the holder of _w_lock and _r_lock
  pc,              \* the next step of each thread
  size,            \* the local sz of each thread
  loaded,          \* what a thread has loaded and not yet used
  halted,          \* the assertion that failed
  sent,            \* the sizes of the messages written so far
  got              \* what was read: [size, words]

vars == <<pool, wpos, rpos, count, total, wlock, rlock, pc, size, loaded,
          halted, sent, got>>
ring    == <<pool, wpos, rpos, count>>
observed == <<sent, got>>

Word(kind, n) == [kind |-> kind, n |-> n]

Init == /\ pool = [i \in 0 .. Block - 1 |-> Word("raw", 0)]
        /\ wpos = 0 /\ rpos = 0 /\ count = 0 /\ total = 0
        /\ wlock = None /\ rlock = None
        /\ pc = [t \in Threads |-> "idle"]
        /\ size = [t \in Threads |-> 0]
        /\ loaded = [t \in Threads |-> 0]
        /\ halted = None
        /\ sent = <<>> /\ got = <<>>

At(t, at)     == halted = None /\ pc[t] = at
Goto(t, at)   == pc' = [pc EXCEPT ![t] = at]
Load(t, x)    == loaded' = [loaded EXCEPT ![t] = x]
-----------------------------------------------------------------------------
(***************************************************************************)
(* Writing.                                                                *)
(***************************************************************************)
\* write(sz) takes the lock; a size of zero or above the block is refused.
Write(t, sz) == /\ At(t, "idle") /\ t \in Writers
                /\ Len(sent) < MaxSent
                /\ sz > 0 /\ sz <= Block
                /\ wlock = None /\ wlock' = t
                /\ size' = [size EXCEPT ![t] = sz]
                /\ Goto(t, "wload")
                /\ UNCHANGED <<ring, total, rlock, loaded, halted, observed>>

LoadReadPos(t) == /\ At(t, "wload")
                  /\ Load(t, rpos)
                  /\ Goto(t, "wbegin")
                  /\ UNCHANGED <<ring, total, wlock, rlock, size, halted, observed>>

\* Words that a record of sz words takes.
Cap(sz) == sz + 1

\* _capacity - _w_pos < cap, where a difference below zero is a huge size_t.
Short(cap) == wpos <= Block /\ Block - wpos < cap

\* What queue_buffer::write_begin refuses, having loaded _r_pos as rp.
Refused(rp, cap) == \/ wpos = rp /\ count # 0
                    \/ wpos < rp /\ rp - wpos > cap
                    \/ wpos >= rp /\ Short(cap) /\ rp < cap

Jumps(rp, cap) == wpos >= rp /\ Short(cap)

\* The words p with a size stored at i, as far as i is inside the pool.
WithSize(p, i, sz) == IF i \in DOMAIN p THEN [p EXCEPT ![i] = Word("size", sz)] ELSE p

\* Mutant: no mark is left at the end of the ring.
WriteBeginNoMark(t) ==
  /\ At(t, "wbegin")
  /\ LET rp == loaded[t]
         at == IF Jumps(rp, Cap(size[t])) THEN 0 ELSE wpos
     IN  IF Refused(rp, Cap(size[t]))
         THEN halted' = "no room" /\ UNCHANGED <<pool, wpos, pc>>
         ELSE /\ pool' = WithSize(pool, at, size[t])
              /\ wpos' = at
              /\ Goto(t, "fill") /\ UNCHANGED halted
  /\ UNCHANGED <<rpos, count, total, wlock, rlock, size, loaded, observed>>

\* Mutant: write_begin does not jump to the front.
WriteBeginNoJump(t) ==
  /\ At(t, "wbegin")
  /\ IF Refused(loaded[t], Cap(size[t]))
     THEN halted' = "no room" /\ UNCHANGED <<pool, pc>>
     ELSE /\ pool' = WithSize(pool, wpos, size[t])
          /\ Goto(t, "fill") /\ UNCHANGED halted
  /\ UNCHANGED <<wpos, rpos, count, total, wlock, rlock, size, loaded, observed>>

\* write_begin: a mark where the ring is left, and the size of the record.  When
\* it refuses, next_node(true) fails its assertion.
WriteBegin(t) ==
  /\ At(t, "wbegin")
  /\ LET rp   == loaded[t]
         jump == Jumps(rp, Cap(size[t]))
         at   == IF jump THEN 0 ELSE wpos
     IN  IF Refused(rp, Cap(size[t]))
         THEN halted' = "no room" /\ UNCHANGED <<pool, wpos, pc>>
         ELSE /\ pool' = WithSize(IF jump THEN WithSize(pool, wpos, 0) ELSE pool, at, size[t])
              /\ wpos' = at
              /\ Goto(t, "fill") /\ UNCHANGED halted
  /\ UNCHANGED <<rpos, count, total, wlock, rlock, size, loaded, observed>>

\* The caller fills the buffer it got.
Fill(t) == /\ At(t, "fill")
           /\ pool' = [i \in DOMAIN pool |->
                         IF i \in wpos + 1 .. wpos + size[t] 
                         THEN Word("data", Len(sent) + 1) ELSE pool[i]]
           /\ Goto(t, "announce")
           /\ UNCHANGED <<wpos, rpos, count, total, wlock, rlock, size, loaded, halted,
                          observed>>

\* What is read as a size at the place i; anything else there is a number that
\* stands for no size.
SizeAt(i) == IF i \in DOMAIN pool /\ pool[i].kind = "size" THEN pool[i].n ELSE Block + 1

\* write_end: the message is announced ...
Announce(t) == /\ At(t, "announce")
               /\ total' = total + 1
               /\ sent' = Append(sent, size[t])
               /\ Goto(t, "advance")
               /\ UNCHANGED <<ring, wlock, rlock, size, loaded, halted, got>>

\* ... and then entered in the ring: _w_pos, the load and the store of ++_count.
AdvanceWrite(t) == /\ At(t, "advance")
                   /\ wpos' = wpos + Cap(SizeAt(wpos))
                   /\ Load(t, count)
                   /\ Goto(t, "wstore")
                   /\ UNCHANGED <<pool, rpos, count, total, wlock, rlock, size, halted,
                                  observed>>

StoreWritten(t) == /\ At(t, "wstore")
                   /\ count' = loaded[t] + 1
                   /\ wlock' = None
                   /\ Goto(t, "idle")
                   /\ UNCHANGED <<pool, wpos, rpos, total, rlock, size, loaded, halted,
                                  observed>>
-----------------------------------------------------------------------------
(***************************************************************************)
(* Reading.                                                                *)
(***************************************************************************)
\* read() looks at _count before it takes the lock.
Read(t) == /\ At(t, "idle") /\ t \in Readers
           /\ total # 0
           /\ Goto(t, "rlock")
           /\ UNCHANGED <<ring, total, wlock, rlock, size, loaded, halted, observed>>

LockRead(t) == /\ At(t, "rlock")
               /\ rlock = None /\ rlock' = t
               /\ Goto(t, "rtest")
               /\ UNCHANGED <<ring, total, wlock, size, loaded, halted, observed>>

\* An empty ring sends the reader to the next node, which there is not.
TestRing(t) == /\ At(t, "rtest")
               /\ IF count = 0
                  THEN halted' = "no data" /\ UNCHANGED pc
                  ELSE Goto(t, "rbegin") /\ UNCHANGED halted
               /\ UNCHANGED <<ring, total, wlock, rlock, size, loaded, observed>>

\* read_begin: at the end of the ring, or at the mark, back to the front.
ReadBegin(t) == /\ At(t, "rbegin")
                /\ LET at == IF rpos = Block \/ SizeAt(rpos) = 0 THEN 0 ELSE rpos
                   IN  /\ rpos' = at
                       /\ size' = [size EXCEPT ![t] = SizeAt(at)]
                /\ Goto(t, "use")
                /\ UNCHANGED <<pool, wpos, count, total, wlock, rlock, loaded, halted,
                               observed>>

\* The caller reads what it got.
Use(t) == /\ At(t, "use")
          /\ got' = Append(got, [size  |-> size[t],
                                 words |-> {pool[i] : i \in DOMAIN pool \cap
                                                              (rpos + 1 .. rpos + size[t])}])
          /\ Goto(t, "withdraw")
          /\ UNCHANGED <<ring, total, wlock, rlock, size, loaded, halted, sent>>

\* read_end: first _count of the pipe, then the ring, then the lock.
Withdraw(t) == /\ At(t, "withdraw")
               /\ total' = total - 1
               /\ Goto(t, "retreat")
               /\ UNCHANGED <<ring, wlock, rlock, size, loaded, halted, observed>>

AdvanceRead(t) == /\ At(t, "retreat")
                  /\ rpos' = rpos + Cap(SizeAt(rpos))
                  /\ Load(t, count)
                  /\ Goto(t, "rstore")
                  /\ UNCHANGED <<pool, wpos, count, total, wlock, rlock, size, halted,
                                 observed>>

\* Mutant: the ring keeps counting the record.
StoreReadForgets(t) ==
  /\ At(t, "rstore")
  /\ rlock' = None
  /\ Goto(t, "idle")
  /\ UNCHANGED <<pool, wpos, rpos, count, total, wlock, size, loaded, halted, observed>>

StoreRead(t) == /\ At(t, "rstore")
                /\ count' = loaded[t] - 1
                /\ rlock' = None
                /\ Goto(t, "idle")
                /\ UNCHANGED <<pool, wpos, rpos, total, wlock, size, loaded, halted,
                               observed>>
-----------------------------------------------------------------------------
Step(t) == \/ \E sz \in Sizes : Write(t, sz)
           \/ LoadReadPos(t) \/ WriteBegin(t) \/ Fill(t) \/ Announce(t)
           \/ AdvanceWrite(t) \/ StoreWritten(t)
           \/ Read(t) \/ LockRead(t) \/ TestRing(t) \/ ReadBegin(t) \/ Use(t)
           \/ Withdraw(t) \/ AdvanceRead(t) \/ StoreRead(t)

\* The program has stopped, or has nothing to do within the bound.
Rest == /\ halted # None \/ (Len(sent) = MaxSent /\ total = 0 /\
                             \A t \in Threads : pc[t] = "idle")
        /\ UNCHANGED vars

Next == (\E t \in Threads : Step(t)) \/ Rest

Spec == Init /\ [][Next]_vars
-----------------------------------------------------------------------------
PCs == {"idle", "wload", "wbegin", "fill", "announce", "advance", "wstore", "rlock",
        "rtest", "rbegin", "use", "withdraw", "retreat", "rstore"}

TypeOK == /\ DOMAIN pool = 0 .. Block - 1
          /\ \A i \in DOMAIN pool : \/ pool[i].kind = "size" /\ pool[i].n \in Sizes \cup {0}
                                    \/ pool[i].kind = "data" /\ pool[i].n \in Messages
                                    \/ pool[i] = Word("raw", 0)
          /\ wpos \in 0 .. Block /\ rpos \in 0 .. Block
          /\ count \in 0 .. MaxSent /\ total \in 0 .. MaxSent
          /\ wlock \in Writers \cup {None} /\ rlock \in Readers \cup {None}
          /\ pc \in [Threads -> PCs]
          /\ size \in [Threads -> Sizes \cup {0}]
          /\ loaded \in [Threads -> Nat]
          /\ halted \in {None, "no room", "no data"}

\* The messages come out whole and in the order in which they were written: the
\* mark at the end of the ring, the jump to the front and the positions of the
\* two sides agree, and nothing is written over a record before it is read.
PipeIsFifo == /\ Len(got) <= Len(sent)
              /\ \A n \in 1 .. Len(got) : got[n] = [size |-> sent[n], words |-> {Word("data", n)}]

\* assert(_r_buf != _w_buf) in next_node: a reader that saw a message counted
\* finds one in the ring.
ReaderFindsData == halted # "no data"

\* With no operation in progress both counters are the number of messages that
\* are in the pipe.
CountsAgree == (\A t \in Threads : pc[t] = "idle") =>
                 count = total /\ total = Len(sent) - Len(got)
=============================================================================
