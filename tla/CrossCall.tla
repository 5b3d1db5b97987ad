----------------------------- MODULE CrossCall ------------------------------
(***************************************************************************)
(* Calls between a C# program and a C++ library through one shared buffer  *)
(* (gcf/test/gcf/src/gcf/cross_call, test_dll, test_cs): the stations and  *)
(* swap buffers of both sides and the code gcf generates for requesters    *)
(* and processors.  Everything runs on one thread: a responder runs inside *)
(* the call of the other side and may call back before it answers, so that *)
(* calls nest and each overwrites the buffer.  The unit is a word of four  *)
(* bytes; word 0 is the header.                                            *)
(***************************************************************************)
EXTENDS Naturals, Sequences, SequencesExt

CONSTANTS Modules,   \* [module -> side it is processed on]
          Messages,  \* [params, ret: the pieces of the parameters and of the answer]
          Size,      \* words of the buffer
          MaxCalls,  \* bound on the calls made
          MaxDepth   \* bound on the calls in progress at a time

VARIABLES
  mem,      \* the words of the buffer behind the header
  ds,       \* the header: end of the data
  station,  \* [side -> [mode, rp, wp]]
  procs,    \* [side -> modules registered]
  stack,    \* the calls in progress, the innermost last
  calls,    \* calls made
  last      \* the call that returned last, and what its requester read

vars == <<mem, ds, station, procs, stack, calls, last>>

Sides == {"cpp", "cs"}

Other(s) == IF s = "cpp" THEN "cs" ELSE "cpp"

\* A piece is what one Write puts into the stream and one Read takes out: a
\* number, a flag, the length of an array or of a text ("plain"), or the content
\* of a text behind its length, without a NUL in it ("text") or with one ("nul").
Piece == [words : Nat, kind : {"plain", "text", "nul"}]
Formed(pieces) ==
  /\ pieces \in Seq(Piece)
  /\ \A i \in DOMAIN pieces :
       IF pieces[i].kind = "plain" THEN pieces[i].words > 0
       ELSE i > 1 /\ pieces[i - 1].kind = "plain"

ASSUME CrossAssumption ==
  /\ Modules \in [DOMAIN Modules -> Sides]
  /\ Size \in Nat /\ Size > 4
  /\ \A msg \in Messages : Formed(msg.params) /\ Formed(msg.ret)

Junk == <<"junk">>
NoAnswer == [served |-> FALSE]

\* Both sides register their processors right after Startup.
Init == /\ mem = [i \in 1 .. Size - 1 |-> Junk]
        /\ ds = 0
        /\ station = [s \in Sides |-> [mode |-> "read", rp |-> 0, wp |-> 0]]
        /\ procs = [s \in Sides |-> {m \in DOMAIN Modules : Modules[m] = s}]
        /\ stack = <<>> /\ calls = 0
        /\ last = NoAnswer
-----------------------------------------------------------------------------
(* The swap buffer *)

\* What a side sees: the shared words, the header, and its own station.
View(s) == [mem |-> mem, ds |-> ds, st |-> station[s]]

StartRead(v) == [v EXCEPT !.st = [mode |-> "read", rp |-> 1, wp |-> Size]]

\* The C# side prepares the header for a reader meanwhile.
StartWrite(v, s) == [v EXCEPT !.st = [mode |-> "write", rp |-> Size, wp |-> 1],
                              !.ds = IF s = "cs" THEN 1 ELSE @]

\* Mutant: the end of the data is not noted.
EndupSilent(v, s) == [v EXCEPT !.st.wp = Size]

\* Endup; a C# reader stays where it is.
Endup(v, s) == IF v.st.mode = "write"
               THEN [v EXCEPT !.ds = v.st.wp, !.st.wp = Size]
               ELSE IF s = "cpp" THEN [v EXCEPT !.st.rp = Size] ELSE v

\* Write of one piece.  On the C++ side what does not fit is left out, and nobody
\* asks; the C# side ends the program instead.  (A struct gives up its other
\* members behind the first that fails; its reader does not get that far.)
Put(v, words) ==
  IF v.st.mode # "write" \/ v.st.wp + Len(words) > Size THEN v
  ELSE [v EXCEPT !.mem = [i \in 1 .. Size - 1 |-> IF i - v.st.wp + 1 \in DOMAIN words
                                                  THEN words[i - v.st.wp + 1] ELSE @[i]],
                 !.st.wp = @ + Len(words)]

PutAll(v, fields) ==
  LET put[k \in 0 .. Len(fields)] ==
        IF k = 0 THEN v ELSE Put(put[k - 1], fields[k])
  IN  put[Len(fields)]

\* How many words a read of piece p takes.  ReadBytes, by which C# reads a text,
\* is content with those that are left.
Reach(v, s, p) == IF s = "cs" /\ p.kind # "plain" /\ v.st.rp + p.words > Size
                  THEN Size - v.st.rp ELSE p.words

\* A C++ reader stops at the end of the data, a C# reader at that of the buffer.
Readable(v, s, p) ==
  v.st.mode = "read" /\ v.st.rp + Reach(v, s, p) <= (IF s = "cpp" THEN v.ds ELSE Size)

\* Read of one piece.  A variable that a C++ reader does not read holds anything.
\* C++ appends a text as a C string: what follows a NUL is gone (here the NUL
\* comes first).
Get(v, s, p) ==
  IF ~Readable(v, s, p) THEN [j \in 1 .. p.words |-> Junk]
  ELSE IF s = "cpp" /\ p.kind = "nul" THEN <<>>
  ELSE [j \in 1 .. Reach(v, s, p) |-> v.mem[v.st.rp + j - 1]]
Skip(v, s, p) == IF Readable(v, s, p) THEN [v EXCEPT !.st.rp = @ + Reach(v, s, p)] ELSE v

\* The pieces one after the other: what is read of each, what is seen afterwards,
\* and whether none of them was refused.
GetAll(v, s, pieces) ==
  LET seen[k \in 0 .. Len(pieces)] ==
        IF k = 0 THEN v ELSE Skip(seen[k - 1], s, pieces[k])
  IN  [got |-> [k \in DOMAIN pieces |-> Get(seen[k - 1], s, pieces[k])],
       v   |-> seen[Len(pieces)],
       ok  |-> \A k \in DOMAIN pieces : Readable(seen[k - 1], s, pieces[k])]
-----------------------------------------------------------------------------
(* The generated code *)

\* Module, hash code and message go before the parameters.
Word == [words |-> 1, kind |-> "plain"]
RequestPieces(msg) == <<Word, Word, Word>> \o msg.params

\* What call c writes, every word of it its own.
Fields(tag, c, pieces) == [i \in DOMAIN pieces |-> [j \in 1 .. pieces[i].words |-> <<tag, c, i, j>>]]
Request(c, msg) == Fields("param", c, RequestPieces(msg))
Answer(c, msg)  == Fields("ret", c, msg.ret)

\* How many words the first k fields take.
WordsOf(fields) ==
  LET sum[k \in 0 .. Len(fields)] ==
        IF k = 0 THEN 0 ELSE sum[k - 1] + Len(fields[k])
  IN  sum
Fits(fields) == 1 + WordsOf(fields)[Len(fields)] <= Size

\* Who runs: the C# program, or the responder of the innermost call.
Running == IF stack = <<>> THEN "cs" ELSE Last(stack).side

See(s, v, o, w) == /\ mem' = w.mem /\ ds' = w.ds
                   /\ station' = [station EXCEPT ![s] = v.st, ![o] = w.st]

\* The other side's eye on what one side left in the buffer.
Handed(v, o) == [mem |-> v.mem, ds |-> v.ds, st |-> station[o]]

\* Back in the requester: EndCall goes on to read, and the answer is taken.
Taken(msg, v, s) == GetAll(StartRead(v), s, msg.ret)

\* What a side writes or reads past the end of its stream ends the program where
\* that side is C#: a C# writer goes on only with what fits, a C# reader only if
\* nothing but a text ran short.
GoesOn(s, fields, o, read) == (s = "cs" => Fits(fields)) /\ (o = "cs" => read.ok)

\* A call: BeginCall, the fields, EndCall, and on the other side OnCall up to
\* the responder.
Call(m, msg) ==
  LET s == Running
      o == Other(s)
      c == calls + 1
      sent == Endup(PutAll(StartWrite(View(s), s), Request(c, msg)), s)
      read == GetAll(StartRead(Handed(sent, o)), o, RequestPieces(msg))
  IN /\ Modules[m] = o /\ m \in procs[o]
     /\ calls < MaxCalls /\ Len(stack) < MaxDepth
     /\ GoesOn(s, Request(c, msg), o, read)
     /\ calls' = c
     /\ See(s, sent, o, read.v)
     /\ stack' = Append(stack, [side |-> o, call |-> c, msg |-> msg, got |-> read.got])
     /\ UNCHANGED <<procs, last>>

\* A call to a module that is not registered: OnCall finds no processor and
\* returns; the requester reads what is in the buffer, whatever it takes for the
\* length of a text there.  (Where that ends a C# program nothing more happens.)
CallNobody(m, msg) ==
  LET s == Running
      o == Other(s)
      c == calls + 1
      sent == Endup(PutAll(StartWrite(View(s), s), Request(c, msg)), s)
      seen == Endup(GetAll(StartRead(Handed(sent, o)), o, <<Word>>).v, o)
      back == Taken(msg, [seen EXCEPT !.st = sent.st], s)
  IN /\ Modules[m] = o /\ m \notin procs[o]
     /\ calls < MaxCalls
     /\ s = "cs" => Fits(Request(c, msg))
     /\ calls' = c
     /\ See(o, seen, s, back.v)
     /\ last' = NoAnswer
     /\ UNCHANGED <<procs, stack>>

\* Mutant: Ret does not turn the buffer round to writing.
RepliedReading(f, v) == IF f.msg.ret = <<>> THEN v ELSE PutAll(v, Answer(f.call, f.msg))

\* The responder is done: the processor writes the answer, if there is one.
Replied(f, v) == IF f.msg.ret = <<>> THEN v
                 ELSE PutAll(StartWrite(v, f.side), Answer(f.call, f.msg))

Return ==
  LET f == Last(stack)
      o == f.side
      s == Other(o)
      sent == Endup(Replied(f, View(o)), o)
      back == Taken(f.msg, Handed(sent, s), s)
  IN /\ stack # <<>>
     /\ GoesOn(o, Answer(f.call, f.msg), s, back)
     /\ See(o, sent, s, back.v)
     /\ last' = [served |-> TRUE, side |-> s, call |-> f.call, msg |-> f.msg, got |-> back.got]
     /\ stack' = Front(stack)
     /\ UNCHANGED <<procs, calls>>

\* Register and Unregister, by whoever runs on that side.  A processor that is
\* running is kept alive by OnCall.
Register(m)   == /\ Modules[m] = Running
                 /\ procs' = [procs EXCEPT ![Running] = @ \cup {m}]
                 /\ UNCHANGED <<mem, ds, station, stack, calls, last>>
Unregister(m) == /\ Modules[m] = Running
                 /\ procs' = [procs EXCEPT ![Running] = @ \ {m}]
                 /\ UNCHANGED <<mem, ds, station, stack, calls, last>>

Next == \/ \E m \in DOMAIN Modules, msg \in Messages : Call(m, msg) \/ CallNobody(m, msg)
        \/ Return
        \/ \E m \in DOMAIN Modules : Register(m) \/ Unregister(m)

Spec == Init /\ [][Next]_vars
-----------------------------------------------------------------------------
\* What side o got is what was sent, piece by piece, but for two kinds of text:
\* one behind which nothing comes and which did not fit, read by C#, and one with
\* a NUL in it, read by C++.
Came(got, want, pieces, o) ==
  /\ DOMAIN got = DOMAIN want
  /\ \A i \in DOMAIN want :
       \/ got[i] = want[i]
       \/ o = "cs" /\ i = Len(want) /\ pieces[i].kind # "plain" /\ ~Fits(want)
       \/ o = "cpp" /\ pieces[i].kind = "nul"

\* A responder runs with the parameters its own requester passed, whatever the
\* calls around it left in the buffer; where the request did not fit, all but the
\* text at its end (Came).
ParamsAreOwn == \A i \in DOMAIN stack :
                  LET f == stack[i]
                  IN  Came(f.got, Request(f.call, f.msg), RequestPieces(f.msg), f.side)

\* A requester gets what the responder of its own call returned, whatever calls
\* that one made in between, if there was a responder (Came as above).
AnswerIsOwn == last.served => Came(last.got, Answer(last.call, last.msg), last.msg.ret, last.side)

\* The interface's claim, "the parameters passed by the call, and the passing of
\* its return value" (ICrossCall.cs): a call that goes on passes everything.
TextsArrive ==
  /\ \A i \in DOMAIN stack : stack[i].got = Request(stack[i].call, stack[i].msg)
  /\ last.served => last.got = Answer(last.call, last.msg)
=============================================================================
