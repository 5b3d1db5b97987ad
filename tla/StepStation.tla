----------------------------- MODULE StepStation -----------------------------
(***************************************************************************)
(* The step executors of utility/src/step_excutor.{h,cpp}: a tree of       *)
(* stations (a queue of steps and a stack of guards), parallel executors   *)
(* and functions, stepped, rolled back and destroyed by recursive virtual  *)
(* calls.  `stack' is the C++ call stack of these calls, the innermost     *)
(* first, and `ret' the status the last Step returned to its caller.       *)
(*                                                                         *)
(* Guards are numbered in the order they are armed.  The station a         *)
(* function with a StepCtrl runs in (InnerStation1/2) holds that function  *)
(* as its first step, Body[s].  Whoever is stepped belongs to exactly one  *)
(* container, which destroys it; guards do not call back into the tree.    *)
(***************************************************************************)
EXTENDS Integers, Sequences, FiniteSets

CONSTANTS Stations,   \* QueueImpl + GuardImpl behind one StepCtrlImpl
          Parallels,  \* ParallelStepExcutor
          Leaves,     \* ExcutorImpl: a function, perhaps behind a future
          Root,       \* the station the user steps
          Body,       \* the function of each station that is made of one
          None,
          MaxGuards,  \* bound on the guards armed
          MaxWaits    \* bound on the Busy and Idle answers of functions

ASSUME StationAssumption ==
  /\ Root \in Stations
  /\ Body \in [DOMAIN Body -> Leaves] /\ DOMAIN Body \subseteq Stations
  /\ \A s, t \in DOMAIN Body : Body[s] = Body[t] => s = t
  /\ Stations \cap (Parallels \cup Leaves) = {} /\ Parallels \cap Leaves = {}
  /\ None \notin Stations \cup Parallels \cup Leaves
  /\ None \notin {"Busy", "Idle", "Failed", "Completed"}
  /\ MaxGuards \in Nat /\ MaxWaits \in Nat

Steps  == Stations \cup Parallels \cup Leaves
Status == {"Busy", "Idle", "Failed", "Completed"}

VARIABLES
  queue,   \* QueueImpl::head_ .. tail_ of each station
  done,    \* QueueImpl::step_: the completed steps, the latest first
  guards,  \* GuardImpl::head_: the latest first
  list,    \* ParallelStepExcutor::steps_
  stack,   \* calls of Step, Rollback and destructors that have not returned
  ret,     \* the status returned, until the caller has looked at it
  phase,   \* what became of the root station
  waits,   \* how often a function answered Busy or Idle
  home,    \* the container each step was put in
  owner,   \* the station of each guard, in the order they were armed
  called,  \* the guards called, in that order
  broken,  \* steps that failed; the root, too, when it is given up
  erased   \* steps with nothing left to do that a parallel executor let go

stationVars == <<queue, done, guards, list, stack, ret, phase, waits, home,
                 owner, called, broken, erased>>
tree    == <<queue, done, guards, list>>
history == <<owner, called, broken, erased>>

Frame(op, x) == [op |-> op, at |-> x, i |-> 0, busy |-> 0]
Enter(f)     == <<f>> \o stack
Top          == stack[1]
Pop          == Tail(stack)
At(op, kind) == stack # <<>> /\ Top.op = op /\ Top.at \in kind
SetTop(f)    == <<f>> \o Tail(stack)

StationInit == /\ queue = [s \in Stations |-> IF s \in DOMAIN Body THEN <<Body[s]>> ELSE <<>>]
               /\ done = [s \in Stations |-> <<>>]
               /\ guards = [s \in Stations |-> <<>>]
               /\ list = [p \in Parallels |-> <<>>]
               /\ stack = <<>>
               /\ ret = None
               /\ phase = "live"
               /\ waits = 0
               /\ home = [x \in Steps |-> IF \E s \in DOMAIN Body : Body[s] = x
                                          THEN CHOOSE s \in DOMAIN Body : Body[s] = x
                                          ELSE None]
               /\ owner = <<>>
               /\ called = <<>>
               /\ broken = {}
               /\ erased = {}

\* x and the containers around it, up to the root or to a spare step: the least
\* set that has x and, with a step, its container.
Up(x) == {y \in Steps : \A above \in SUBSET Steps :
                          x \in above /\ (\A z \in above : home[z] \in above \cup {None})
                            => y \in above}

Spare(x) == x # Root /\ home[x] = None

\* What container c has now, and the steps that were taken out to be destroyed.
Elems(seq) == {seq[k] : k \in 1 .. Len(seq)}
Holds(c)   == IF c \in Parallels THEN Elems(list[c]) ELSE Elems(queue[c]) \cup Elems(done[c])
Gone(x)    == home[x] # None /\ x \notin Holds(home[x])
-----------------------------------------------------------------------------
(***************************************************************************)
(* The user's code, outside of Step (nothing is on the stack) or in a      *)
(* function with a StepCtrl.                                               *)
(***************************************************************************)
\* The station whose StepCtrl the running code may use.
InHand(s) == \/ s = Root /\ stack = <<>> /\ phase = "live"
             \/ s \in DOMAIN Body /\ At("step", {Body[s]})

SubStep(s, x) == /\ InHand(s)
                 /\ Spare(x)
                 /\ queue' = [queue EXCEPT ![s] = Append(@, x)]
                 /\ home' = [home EXCEPT ![x] = s]
                 /\ UNCHANGED <<done, guards, list, stack, ret, phase, waits, history>>

Guard(s) == /\ InHand(s)
            /\ Len(owner) < MaxGuards
            /\ guards' = [guards EXCEPT ![s] = <<Len(owner) + 1>> \o @]
            /\ owner' = Append(owner, s)
            /\ UNCHANGED <<queue, done, list, stack, ret, phase, waits, home,
                           called, broken, erased>>

\* A parallel executor is filled by the user, before or after it is put in place.
AddStep(p, x) == /\ stack = <<>> /\ phase = "live"
                 /\ Spare(x) /\ x \notin Up(p) /\ ~Gone(p)
                 /\ list' = [list EXCEPT ![p] = Append(@, x)]
                 /\ home' = [home EXCEPT ![x] = p]
                 /\ UNCHANGED <<queue, done, guards, stack, ret, phase, waits, history>>

CallStep == /\ stack = <<>> /\ phase = "live"
            /\ stack' = <<Frame("step", Root)>>
            /\ UNCHANGED <<tree, ret, phase, waits, home, history>>

\* After a failure the user rolls back, or gives the station up at any time.
CallRollback == /\ stack = <<>> /\ phase \in {"live", "failed"}
                /\ stack' = <<Frame("roll", Root)>>
                /\ phase' = "undone"
                /\ broken' = broken \cup {Root}
                /\ UNCHANGED <<tree, ret, waits, home, owner, called, erased>>

\* The station goes out of scope; before its end this counts as an error.
Destroy == /\ stack = <<>> /\ phase # "dead"
           /\ stack' = <<Frame("kill", Root)>>
           /\ phase' = "dead"
           /\ broken' = IF queue[Root] = <<>> THEN broken ELSE broken \cup {Root}
           /\ UNCHANGED <<tree, ret, waits, home, owner, called, erased>>
-----------------------------------------------------------------------------
(***************************************************************************)
(* Step.                                                                   *)
(***************************************************************************)
\* Return status r from the call on top, remembering what failed.
Return(r) == /\ stack' = Pop
             /\ broken' = IF r = "Failed" THEN broken \cup {Top.at} ELSE broken
             /\ IF Len(stack) = 1
                THEN /\ ret' = None
                     /\ phase' = CASE r = "Failed" -> "failed"
                                   [] r = "Completed" -> "completed"
                                   [] OTHER -> phase
                ELSE ret' = r /\ UNCHANGED phase

\* A function runs to its end and answers; one behind a future that is not
\* ready answers Idle.
LeafStep(r) == /\ At("step", Leaves)
               /\ r \in {"Busy", "Idle"} => waits < MaxWaits
               /\ waits' = IF r \in {"Busy", "Idle"} THEN waits + 1 ELSE waits
               /\ Return(r)
               /\ UNCHANGED <<tree, home, owner, called, erased>>

\* QueueImpl::Step: nothing is left, or the first step is stepped ...
QueueStep == /\ At("step", Stations) /\ ret = None
             /\ IF queue[Top.at] = <<>>
                THEN Return("Completed")
                ELSE /\ stack' = Enter(Frame("step", queue[Top.at][1]))
                     /\ UNCHANGED <<ret, phase, broken>>
             /\ UNCHANGED <<tree, waits, home, owner, called, erased>>

\* Mutant: a completed step stays at the head of the queue.
QueueReturnKeepsHead ==
  /\ At("step", Stations) /\ ret # None
  /\ Return(IF ret = "Completed" THEN "Busy" ELSE ret)
  /\ UNCHANGED <<tree, waits, home, owner, called, erased>>

\* Mutant: the completed step is destroyed at once, with its guards.
QueueReturnForgets ==
  /\ At("step", Stations) /\ ret # None
  /\ IF ret = "Completed"
     THEN /\ queue' = [queue EXCEPT ![Top.at] = Tail(@)]
          /\ Return("Busy")
     ELSE Return(ret) /\ UNCHANGED queue
  /\ UNCHANGED <<done, guards, list, waits, home, owner, called, erased>>

\* Mutant: completed steps are kept in the order they ran.
QueueReturnAppends ==
  /\ At("step", Stations) /\ ret # None
  /\ IF ret = "Completed"
     THEN /\ done' = [done EXCEPT ![Top.at] = Append(@, queue[Top.at][1])]
          /\ queue' = [queue EXCEPT ![Top.at] = Tail(@)]
          /\ Return("Busy")
     ELSE Return(ret) /\ UNCHANGED <<queue, done>>
  /\ UNCHANGED <<guards, list, waits, home, owner, called, erased>>

\* ... and moves to step_ when it has completed.
QueueReturn ==
  /\ At("step", Stations) /\ ret # None
  /\ IF ret = "Completed"
     THEN /\ done' = [done EXCEPT ![Top.at] = <<queue[Top.at][1]>> \o @]
          /\ queue' = [queue EXCEPT ![Top.at] = Tail(@)]
          /\ Return("Busy")
     ELSE Return(ret) /\ UNCHANGED <<queue, done>>
  /\ UNCHANGED <<guards, list, waits, home, owner, called, erased>>

\* ParallelStepExcutor::Step: every step once, in order.
ParallelStep ==
  /\ At("step", Parallels) /\ ret = None
  /\ LET p == Top.at
         n == IF Top.i = 0 THEN 1 ELSE Top.i
     IN  IF n <= Len(list[p])
         THEN /\ stack' = <<Frame("step", list[p][n])>> \o SetTop([Top EXCEPT !.i = n])
              /\ UNCHANGED <<ret, phase, broken>>
         ELSE Return(IF Top.i = 0 THEN "Completed"
                     ELSE IF Top.busy > 0 THEN "Busy" ELSE "Idle")
  /\ UNCHANGED <<tree, waits, home, owner, called, erased>>

ParallelWait == /\ At("step", Parallels) /\ ret \in {"Busy", "Idle"}
                /\ stack' = SetTop([Top EXCEPT !.i = @ + 1,
                                      !.busy = IF ret = "Busy" THEN @ + 1 ELSE @])
                /\ ret' = None
                /\ UNCHANGED <<tree, phase, waits, home, history>>

Erased(p, n) == [list EXCEPT ![p] = SubSeq(@, 1, n - 1) \o SubSeq(@, n + 1, Len(@))]

\* A failed or completed step leaves the list; a failed one is rolled back first.
ParallelErase ==
  /\ At("step", Parallels) /\ ret \in {"Failed", "Completed"}
  /\ LET x == list[Top.at][Top.i]
     IN  /\ stack' = (IF ret = "Failed" THEN <<Frame("roll", x)>> ELSE <<>>)
                       \o Enter(Frame("kill", x))
         /\ list' = Erased(Top.at, Top.i)
         /\ erased' = IF ret = "Completed" THEN erased \cup {x} ELSE erased
  /\ ret' = None
  /\ UNCHANGED <<queue, done, guards, phase, waits, home, owner, called, broken>>
-----------------------------------------------------------------------------
(***************************************************************************)
(* Rollback.                                                               *)
(***************************************************************************)
\* A function and a parallel executor have nothing to undo.
RollNothing == /\ At("roll", Leaves \cup Parallels)
               /\ stack' = Pop
               /\ UNCHANGED <<tree, ret, phase, waits, home, history>>

\* Mutant: head_ is not tested for null.
RollHeadUntested ==
  /\ At("roll", Stations) /\ Top.i = 0
  /\ LET head == IF queue[Top.at] = <<>> THEN None ELSE queue[Top.at][1]
     IN  stack' = <<Frame("roll", head)>> \o SetTop([Top EXCEPT !.i = 1])
  /\ UNCHANGED <<tree, ret, phase, waits, home, history>>

\* QueueImpl::Rollback: first the step that was under way ...
RollHead == /\ At("roll", Stations) /\ Top.i = 0
            /\ LET rest == SetTop([Top EXCEPT !.i = 1])
               IN  stack' = IF queue[Top.at] = <<>> THEN rest
                            ELSE <<Frame("roll", queue[Top.at][1])>> \o rest
            /\ UNCHANGED <<tree, ret, phase, waits, home, history>>

Rolling(s) == At("roll", {s}) /\ Top.i = 1

\* ... then it and the steps never begun are destroyed ...
RollDrop == \E s \in Stations :
              /\ Rolling(s) /\ queue[s] # <<>>
              /\ queue' = [queue EXCEPT ![s] = Tail(@)]
              /\ stack' = Enter(Frame("kill", queue[s][1]))
              /\ UNCHANGED <<done, guards, list, ret, phase, waits, home, history>>

\* ... then the completed steps are undone and destroyed, the latest first ...
RollDone == \E s \in Stations :
              /\ Rolling(s) /\ queue[s] = <<>> /\ done[s] # <<>>
              /\ done' = [done EXCEPT ![s] = Tail(@)]
              /\ stack' = <<Frame("roll", done[s][1]), Frame("kill", done[s][1])>> \o stack
              /\ UNCHANGED <<queue, guards, list, ret, phase, waits, home, history>>

\* ... and last, GuardImpl::Rollback calls the guards, the latest first.
RollGuard == \E s \in Stations :
  /\ Rolling(s) /\ queue[s] = <<>> /\ done[s] = <<>> /\ guards[s] # <<>>
  /\ guards' = [guards EXCEPT ![s] = Tail(@)]
  /\ called' = Append(called, guards[s][1])
  /\ UNCHANGED <<queue, done, list, stack, ret, phase, waits, home, owner, broken, erased>>

RollEnd == \E s \in Stations :
             /\ Rolling(s) /\ queue[s] = <<>> /\ done[s] = <<>> /\ guards[s] = <<>>
             /\ stack' = Pop
             /\ UNCHANGED <<tree, ret, phase, waits, home, history>>
-----------------------------------------------------------------------------
(***************************************************************************)
(* Destruction.                                                            *)
(***************************************************************************)
KillLeaf == /\ At("kill", Leaves)
            /\ stack' = Pop
            /\ UNCHANGED <<tree, ret, phase, waits, home, history>>

\* The vector releases its steps, each of which may be the last reference.
KillParallel ==
  /\ At("kill", Parallels)
  /\ LET p == Top.at
     IN  IF list[p] = <<>>
         THEN stack' = Pop /\ UNCHANGED <<list, erased>>
         ELSE /\ stack' = Enter(Frame("kill", list[p][1]))
              /\ list' = [list EXCEPT ![p] = Tail(@)]
              /\ erased' = erased \cup {x \in Stations : x = list[p][1] /\ queue[x] = <<>>}
  /\ UNCHANGED <<queue, done, guards, ret, phase, waits, home, owner, called, broken>>

\* Mutant: a station that has not come to its end is destroyed as it is.
KillStationSilently ==
  /\ At("kill", Stations) /\ Top.i = 0
  /\ stack' = SetTop([Top EXCEPT !.i = 1])
  /\ UNCHANGED <<tree, ret, phase, waits, home, history>>

\* ~StepCtrlImpl rolls back what has not come to its end.
KillStation == /\ At("kill", Stations) /\ Top.i = 0
               /\ LET rest == SetTop([Top EXCEPT !.i = 1])
                  IN  stack' = IF queue[Top.at] = <<>> THEN rest
                               ELSE <<Frame("roll", Top.at)>> \o rest
               /\ UNCHANGED <<tree, ret, phase, waits, home, history>>

\* ~GuardImpl drops the guards that are left, uncalled.
KillGuards == /\ At("kill", Stations) /\ Top.i = 1
              /\ guards' = [guards EXCEPT ![Top.at] = <<>>]
              /\ stack' = SetTop([Top EXCEPT !.i = 2])
              /\ UNCHANGED <<queue, done, list, ret, phase, waits, home, history>>

\* ~QueueImpl destroys the completed steps.
KillQueue == /\ At("kill", Stations) /\ Top.i = 2
             /\ LET s == Top.at
                IN  IF done[s] = <<>>
                    THEN stack' = Pop /\ UNCHANGED done
                    ELSE /\ stack' = Enter(Frame("kill", done[s][1]))
                         /\ done' = [done EXCEPT ![s] = Tail(@)]
             /\ UNCHANGED <<queue, guards, list, ret, phase, waits, home, history>>
-----------------------------------------------------------------------------
UserStep == \/ \E s \in Stations : Guard(s) \/ \E x \in Steps : SubStep(s, x)
            \/ \E p \in Parallels, x \in Steps : AddStep(p, x)
            \/ CallStep \/ CallRollback \/ Destroy

Stepping == \/ \E r \in Status : LeafStep(r)
            \/ QueueStep \/ QueueReturn \/ ParallelStep \/ ParallelWait \/ ParallelErase

Undoing == \/ RollNothing \/ RollHead \/ RollDrop \/ RollDone \/ RollGuard \/ RollEnd
           \/ KillLeaf \/ KillParallel \/ KillStation \/ KillGuards \/ KillQueue

Done == phase = "dead" /\ stack = <<>> /\ UNCHANGED stationVars

StationNext == UserStep \/ Stepping \/ Undoing \/ Done

StationSpec == StationInit /\ [][StationNext]_stationVars

\* StepEnd: as long as the station has not stopped its user steps it again, and
\* calls in progress proceed.  Nobody has to add anything, or to give up.
FairStationSpec == /\ StationSpec
                   /\ WF_stationVars(CallStep) /\ WF_stationVars(Stepping)
                   /\ WF_stationVars(Undoing)
-----------------------------------------------------------------------------
(***************************************************************************)
(* Properties.                                                             *)
(***************************************************************************)
Frames == [op : {"step", "roll", "kill"}, at : Steps, i : Nat, busy : Nat]

StationTypeOK == /\ queue \in [Stations -> Seq(Steps)]
                 /\ done \in [Stations -> Seq(Steps)]
                 /\ guards \in [Stations -> Seq(1 .. MaxGuards)]
                 /\ list \in [Parallels -> Seq(Steps)]
                 /\ stack \in Seq(Frames)
                 /\ ret \in Status \cup {None}
                 /\ phase \in {"live", "failed", "completed", "undone", "dead"}
                 /\ waits \in 0 .. MaxWaits
                 /\ home \in [Steps -> Steps \cup {None}]
                 /\ owner \in Seq(Stations) /\ Len(owner) <= MaxGuards
                 /\ called \in Seq(1 .. MaxGuards)
                 /\ broken \subseteq Steps
                 /\ erased \subseteq Steps

Called(g) == \E k \in 1 .. Len(called) : called[k] = g

\* When the root is gone, the guards that have been called are exactly those of
\* stations in something that broke, except those a parallel executor let go at
\* their end: nothing that succeeded is undone, nothing that failed is left half
\* done, on whatever path it was destroyed.
UndoIsExact ==
  phase = "dead" /\ stack = <<>> =>
    \A g \in 1 .. Len(owner) :
      LET above == Up(owner[g])
      IN  Called(g) <=> \E x \in above \cap broken : \A y \in above \cap erased : y \in Up(x)

\* Stations that run side by side in a parallel executor.
Apart(s, t) == \E p \in Up(s) \cap Up(t) \cap Parallels :
                 \A x \in Steps : home[x] = p => ~(x \in Up(s) /\ x \in Up(t))

\* Guards are called in the reverse of the order in which they were armed: when
\* one is called, none that a step armed later is still waiting for its turn, and
\* none is called again.  The user may arm guards of the root later than its
\* steps did theirs; they are called last all the same.
Held(g) == \E s \in Stations : \E k \in 1 .. Len(guards[s]) : guards[s][k] = g

UndoInReverse ==
  [][called' # called =>
       LET g == called'[Len(called')]
       IN  /\ ~Called(g)
           /\ \A h \in 1 .. Len(owner) :
                Held(h) /\ h # g =>
                  /\ owner[g] = Root => owner[h] = Root
                  /\ (owner[g] = Root <=> owner[h] = Root) /\ ~Apart(owner[g], owner[h])
                       => h < g]_stationVars

\* The assertion of ~QueueImpl: the queue of a station that is destroyed is
\* empty by then; nor is a step destroyed, or rolled back, by two calls at once.
DestroyedIsEmpty ==
  /\ At("kill", Stations) /\ Top.i = 2 => queue[Top.at] = <<>>
  /\ \A i, j \in 1 .. Len(stack) :
       stack[i].op = stack[j].op /\ stack[i].at = stack[j].at => i = j

\* A station that is stepped again and again comes to an end, if no function
\* waits for ever (StepEnd returns).
StepEndReturns == stack # <<>> ~> phase # "live"
=============================================================================
