------------------------------ MODULE AsyncPool ------------------------------
(***************************************************************************)
(* The thread pool of utility/src/async.cpp and the promise a task keeps   *)
(* (utility/src/future.h).                                                 *)
(*                                                                         *)
(* Threads are the pool's workers and the clients; the Owner is the client *)
(* that calls Startup and Shutdown.  A task that is being worked may call  *)
(* Async::Run itself, so a worker can stand in AddTask too.  pc[s] is the  *)
(* next statement of thread s.  The mutex and the condition variable are   *)
(* the C++ ones: `sleepers' are the threads inside condition_.wait, a      *)
(* notification that finds no sleeper is lost, and a sleeper may wake      *)
(* spuriously.  running_ and tasks_.empty() are read without the mutex, as *)
(* the code does; both are single loads, so a read sees the value before   *)
(* or after a concurrent write.                                            *)
(***************************************************************************)
EXTENDS Naturals, Sequences, FiniteSets

CONSTANTS Workers,   \* the threads Create starts
          Clients,   \* the other threads that call Async::Run
          Owner,     \* the client that calls Startup and Shutdown
          Tasks,     \* the tasks that may ever be run
          Expected,  \* those made by ExpectRun
          NoTask,    \* the null AsyncTaskPtr
          NoThread   \* the owner of a free mutex

Threads == Workers \cup Clients

ASSUME ThreadAssumption == /\ Owner \in Clients
                           /\ Workers \cap Clients = {}
                           /\ NoThread \notin Threads
ASSUME TaskAssumption == Expected \subseteq Tasks /\ NoTask \notin Tasks

VARIABLES
  up,        \* s_TaskPool # nullptr
  running,   \* running_
  mutex,     \* the thread holding mutex_
  tasks,     \* tasks_
  sleepers,  \* the threads inside condition_.wait
  pc,        \* the statement each thread executes next
  sub,       \* the task a thread inside AddTask is adding
  hand,      \* the local `task' of DoThreadWork
  issued,    \* tasks that have been created by Run or ExpectRun
  held,      \* tasks of which some Future is still alive
  written,   \* tasks whose result_ has been assigned
  ready      \* tasks whose ready_ is true

vars == <<up, running, mutex, tasks, sleepers, pc, sub, hand,
          issued, held, written, ready>>
poolVars    == <<up, running>>
promiseVars == <<issued, held, written, ready>>

InAddTask == {"lockpush", "push", "notify"}
ClientPC  == {"idle", "stopping", "joining"} \cup InAddTask
WorkerPC  == {"off", "loop", "check", "lockwait", "sleep", "woken", "lockpop",
              "pop", "work", "publish"} \cup InAddTask

Goto(s, at) == pc' = [pc EXCEPT ![s] = at]

Acquire(s) == mutex = NoThread /\ mutex' = s
Release(s) == mutex = s /\ mutex' = NoThread

Init == /\ up = FALSE
        /\ running = FALSE
        /\ mutex = NoThread
        /\ tasks = <<>>
        /\ sleepers = {}
        /\ pc = [s \in Threads |-> IF s \in Workers THEN "off" ELSE "idle"]
        /\ sub = [s \in Threads |-> NoTask]
        /\ hand = [w \in Workers |-> NoTask]
        /\ issued = {}
        /\ held = {}
        /\ written = {}
        /\ ready = {}
-----------------------------------------------------------------------------
(***************************************************************************)
(* Async::Run and Async::ExpectRun, from a client or from a task that a    *)
(* worker is working.                                                      *)
(***************************************************************************)

\* Run asserts that there is a pool.  A client does not call it while the
\* owner is inside Shutdown; a task cannot know and may.
MayRun(s) == \/ s \in Clients /\ pc[s] = "idle" /\ up
                /\ pc[Owner] \notin {"stopping", "joining"}
             \/ s \in Workers /\ pc[s] = "work"

\* The task is created and its future taken, before it is queued.
BeginRun(s, t) == /\ MayRun(s)
                  /\ t \notin issued
                  /\ issued' = issued \cup {t}
                  /\ held' = held \cup {t}
                  /\ sub' = [sub EXCEPT ![s] = t]
                  /\ Goto(s, "lockpush")
                  /\ UNCHANGED <<poolVars, mutex, tasks, sleepers, hand, written, ready>>

LockPush(s) == /\ pc[s] = "lockpush"
               /\ Acquire(s)
               /\ Goto(s, "push")
               /\ UNCHANGED <<poolVars, tasks, sleepers, sub, hand, promiseVars>>

Push(s) == /\ pc[s] = "push"
           /\ tasks' = Append(tasks, sub[s])
           /\ sub' = [sub EXCEPT ![s] = NoTask]
           /\ Release(s)
           /\ Goto(s, "notify")
           /\ UNCHANGED <<poolVars, sleepers, hand, promiseVars>>

\* Where Run returns to.
Caller(s) == IF s \in Workers THEN "work" ELSE "idle"

\* notify_one wakes some sleeper, when there is one.
NotifyOne(s) ==
  /\ pc[s] = "notify"
  /\ \/ /\ sleepers = {}
        /\ Goto(s, Caller(s))
        /\ UNCHANGED sleepers
     \/ \E w \in sleepers :
          /\ sleepers' = sleepers \ {w}
          /\ pc' = [pc EXCEPT ![s] = Caller(s), ![w] = "woken"]
  /\ UNCHANGED <<poolVars, mutex, tasks, sub, hand, promiseVars>>

\* The last Future of a task whose Run has returned is destroyed.
DropFuture(t) == /\ t \in held
                 /\ \A s \in Threads : sub[s] # t
                 /\ held' = held \ {t}
                 /\ UNCHANGED <<poolVars, mutex, tasks, sleepers, pc, sub, hand,
                                issued, written, ready>>
-----------------------------------------------------------------------------
(***************************************************************************)
(* KGAsyncTaskPool::DoThreadWork.                                          *)
(***************************************************************************)

TestRunning(w) == /\ pc[w] = "loop"
                  /\ Goto(w, IF running THEN "check" ELSE "off")
                  /\ UNCHANGED <<poolVars, mutex, tasks, sleepers, sub, hand, promiseVars>>

\* Mutant: a worker always waits, whatever the queue holds.
CheckEmptyAlwaysWaits(w) ==
  /\ pc[w] = "check"
  /\ Goto(w, "lockwait")
  /\ UNCHANGED <<poolVars, mutex, tasks, sleepers, sub, hand, promiseVars>>

\* tasks_.empty() is read without the mutex.
CheckEmpty(w) == /\ pc[w] = "check"
                 /\ Goto(w, IF tasks = <<>> THEN "lockwait" ELSE "lockpop")
                 /\ UNCHANGED <<poolVars, mutex, tasks, sleepers, sub, hand, promiseVars>>

\* The mutex is taken and given up again by wait, which has no predicate.
Sleep(w) == /\ pc[w] = "lockwait"
            /\ mutex = NoThread
            /\ sleepers' = sleepers \cup {w}
            /\ Goto(w, "sleep")
            /\ UNCHANGED <<poolVars, mutex, tasks, sub, hand, promiseVars>>

SpuriousWake(w) == /\ w \in sleepers
                   /\ sleepers' = sleepers \ {w}
                   /\ Goto(w, "woken")
                   /\ UNCHANGED <<poolVars, mutex, tasks, sub, hand, promiseVars>>

LockPop(w) == /\ pc[w] \in {"woken", "lockpop"}
              /\ Acquire(w)
              /\ Goto(w, "pop")
              /\ UNCHANGED <<poolVars, tasks, sleepers, sub, hand, promiseVars>>

IsAbandoned(t) == t \in Expected /\ t \notin held

\* The oldest task that PopTask does not throw away is at place i.
FirstLive(i) == /\ ~IsAbandoned(tasks[i])
                /\ \A j \in 1 .. i - 1 : IsAbandoned(tasks[j])

\* Mutant: the loop lacks its break, and every live task but the last is dropped.
PopTaskNoBreak(w) ==
  /\ pc[w] = "pop"
  /\ tasks # <<>>
  /\ hand' = [hand EXCEPT ![w] = tasks[Len(tasks)]]
  /\ tasks' = <<>>
  /\ Release(w)
  /\ Goto(w, "work")
  /\ UNCHANGED <<poolVars, sleepers, sub, promiseVars>>

\* Mutant: the task is read from the front and left there.
PopTaskKeepsFront(w) ==
  /\ pc[w] = "pop"
  /\ tasks # <<>>
  /\ hand' = [hand EXCEPT ![w] = Head(tasks)]
  /\ Release(w)
  /\ Goto(w, "work")
  /\ UNCHANGED <<poolVars, tasks, sleepers, sub, promiseVars>>

\* Mutant: the newest task is taken, a stack instead of a queue.
PopTaskNewest(w) ==
  /\ pc[w] = "pop"
  /\ tasks # <<>>
  /\ hand' = [hand EXCEPT ![w] = tasks[Len(tasks)]]
  /\ tasks' = SubSeq(tasks, 1, Len(tasks) - 1)
  /\ Release(w)
  /\ Goto(w, "work")
  /\ UNCHANGED <<poolVars, sleepers, sub, promiseVars>>

\* Mutant: DoThreadWork does not test the task PopTask returned.
PopTaskUntested(w) ==
  /\ pc[w] = "pop"
  /\ tasks = <<>>
  /\ Release(w)
  /\ Goto(w, "work")
  /\ UNCHANGED <<poolVars, tasks, hand, sleepers, sub, promiseVars>>

\* PopTask: abandoned tasks are thrown away up to the first that is not.
PopTask(w) ==
  /\ pc[w] = "pop"
  /\ \/ \E i \in 1 .. Len(tasks) :
          /\ FirstLive(i)
          /\ hand' = [hand EXCEPT ![w] = tasks[i]]
          /\ tasks' = SubSeq(tasks, i + 1, Len(tasks))
          /\ Goto(w, "work")
     \/ /\ \A i \in 1 .. Len(tasks) : IsAbandoned(tasks[i])
        /\ tasks' = <<>>
        /\ Goto(w, "loop")
        /\ UNCHANGED hand
  /\ Release(w)
  /\ UNCHANGED <<poolVars, sleepers, sub, promiseVars>>

\* Mutant: SetValue sets ready_ before it stores the result.
WriteResultLate(w) == /\ pc[w] = "work"
                      /\ ready' = ready \cup {hand[w]}
                      /\ Goto(w, "publish")
                      /\ UNCHANGED <<poolVars, mutex, tasks, sleepers, sub, hand,
                                     issued, held, written>>

\* Work: the function returns and SetValue stores the result ...
WriteResult(w) == /\ pc[w] = "work"
                  /\ written' = written \cup {hand[w]}
                  /\ Goto(w, "publish")
                  /\ UNCHANGED <<poolVars, mutex, tasks, sleepers, sub, hand,
                                 issued, held, ready>>

\* ... and then sets ready_; the task pointer dies at the end of the round.
SetReady(w) == /\ pc[w] = "publish"
               /\ ready' = ready \cup {hand[w]}
               /\ hand' = [hand EXCEPT ![w] = NoTask]
               /\ Goto(w, "loop")
               /\ UNCHANGED <<poolVars, mutex, tasks, sleepers, sub, issued, held, written>>
-----------------------------------------------------------------------------
(***************************************************************************)
(* Async::Startup and Async::Shutdown.                                     *)
(***************************************************************************)

Startup == /\ pc[Owner] = "idle"
           /\ ~up
           /\ up' = TRUE
           /\ running' = TRUE
           /\ pc' = [s \in Threads |-> IF s \in Workers THEN "loop" ELSE pc[s]]
           /\ UNCHANGED <<mutex, tasks, sleepers, sub, hand, promiseVars>>

\* Destory clears running_ ...
BeginShutdown == /\ up
                 /\ \A c \in Clients : pc[c] = "idle"
                 /\ running' = FALSE
                 /\ Goto(Owner, "stopping")
                 /\ UNCHANGED <<up, mutex, tasks, sleepers, sub, hand, promiseVars>>

\* ... wakes every sleeper, without holding the mutex ...
NotifyAll == /\ pc[Owner] = "stopping"
             /\ sleepers' = {}
             /\ pc' = [s \in Threads |-> IF s = Owner THEN "joining"
                                         ELSE IF s \in sleepers THEN "woken"
                                         ELSE pc[s]]
             /\ UNCHANGED <<poolVars, mutex, tasks, sub, hand, promiseVars>>

\* Mutant: the first thread is joined and the others are forgotten.
JoinOne == /\ pc[Owner] = "joining"
           /\ \E w \in Workers : pc[w] = "off"
           /\ tasks' = <<>>
           /\ up' = FALSE
           /\ Goto(Owner, "idle")
           /\ UNCHANGED <<running, mutex, sleepers, sub, hand, promiseVars>>

\* ... and, all workers having ended, drops what is still queued.
Join == /\ pc[Owner] = "joining"
        /\ \A w \in Workers : pc[w] = "off"
        /\ tasks' = <<>>
        /\ up' = FALSE
        /\ Goto(Owner, "idle")
        /\ UNCHANGED <<running, mutex, sleepers, sub, hand, promiseVars>>
-----------------------------------------------------------------------------
ClientStep(s) == \/ \E t \in Tasks : BeginRun(s, t)
                 \/ LockPush(s) \/ Push(s) \/ NotifyOne(s)

WorkerStep(w) == \/ TestRunning(w) \/ CheckEmpty(w) \/ Sleep(w) \/ SpuriousWake(w)
                 \/ LockPop(w) \/ PopTask(w) \/ WriteResult(w) \/ SetReady(w)

OwnerStep == Startup \/ BeginShutdown \/ NotifyAll \/ Join

Next == \/ \E s \in Threads : ClientStep(s)
        \/ \E w \in Workers : WorkerStep(w)
        \/ OwnerStep
        \/ \E t \in Tasks : DropFuture(t)

Spec == Init /\ [][Next]_vars

(***************************************************************************)
(* Every thread keeps executing, a task that is worked returns, and a      *)
(* thread waiting for the mutex gets it when it is free again and again.   *)
(* Nobody has to call Run, Startup or Shutdown, to drop a future, or to    *)
(* wake without a reason.                                                  *)
(***************************************************************************)
Fairness ==
  /\ \A s \in Threads : /\ SF_vars(LockPush(s))
                        /\ WF_vars(Push(s) \/ NotifyOne(s))
  /\ \A w \in Workers : /\ SF_vars(Sleep(w) \/ LockPop(w))
                        /\ WF_vars(TestRunning(w) \/ CheckEmpty(w) \/ PopTask(w))
                        /\ WF_vars(WriteResult(w) \/ SetReady(w))
  /\ WF_vars(NotifyAll \/ Join)

FairSpec == Spec /\ Fairness
-----------------------------------------------------------------------------
(***************************************************************************)
(* Properties.                                                             *)
(***************************************************************************)
TypeOK == /\ up \in BOOLEAN
          /\ running \in BOOLEAN
          /\ mutex \in Threads \cup {NoThread}
          /\ tasks \in Seq(Tasks)
          /\ sleepers \subseteq Workers
          /\ pc \in [Threads -> ClientPC \cup WorkerPC]
          /\ sub \in [Threads -> Tasks \cup {NoTask}]
          /\ hand \in [Workers -> Tasks \cup {NoTask}]
          /\ issued \subseteq Tasks
          /\ held \subseteq Tasks
          /\ written \subseteq Tasks
          /\ ready \subseteq Tasks

Added(t)  == \E s \in Threads : sub[s] = t
Queued(t) == \E i \in 1 .. Len(tasks) : tasks[i] = t
Taken(t)  == \E w \in Workers : hand[w] = t

\* A task is in one place at a time -- with one thread adding it, at one place
\* of the queue, or with one worker -- and nowhere once its future is ready, so
\* no interleaving of AddTask and PopTask works a task twice.
WorkedAtMostOnce ==
  /\ \A s1, s2 \in Threads : sub[s1] = sub[s2] /\ sub[s1] # NoTask => s1 = s2
  /\ \A i, j \in 1 .. Len(tasks) : tasks[i] = tasks[j] => i = j
  /\ \A w1, w2 \in Workers : hand[w1] = hand[w2] /\ hand[w1] # NoTask => w1 = w2
  /\ \A t \in Tasks : /\ Added(t) => ~Queued(t) /\ ~Taken(t) /\ t \notin written
                      /\ Queued(t) => ~Taken(t) /\ t \notin written
                      /\ t \in ready => ~Taken(t)

\* Whoever sees ready_ set, on any thread, finds the result of the finished
\* task behind it: IsReady followed by GetValue never reads a half-made value.
ReadyHasResult == /\ ready \subseteq written
                  /\ \A t \in written \ ready :
                       \E w \in Workers : hand[w] = t /\ pc[w] = "publish"

\* A task leaves the pool by becoming ready; or abandoned, as an expected task
\* whose last future is gone; or with the pool itself, when Shutdown returns.
TasksAreNotLost ==
  [][\A t \in Tasks :
       LET InPool == Added(t) \/ Queued(t) \/ Taken(t)
       IN  InPool /\ ~InPool' => t \in ready' \/ IsAbandoned(t) \/ (up /\ ~up')]_vars

\* When Shutdown has returned no worker is left, and nothing it was doing: the
\* pool object that is deleted next is not referred to by any thread.
QuiescentWhenDown ==
  ~up => /\ \A w \in Workers : pc[w] = "off" /\ hand[w] = NoTask
         /\ tasks = <<>> /\ sleepers = {} /\ mutex = NoThread
         /\ \A s \in Threads : sub[s] = NoTask

\* The pool implements the task service its interface promises.
Service == INSTANCE TaskService WITH
             backlog  <- tasks,
             active   <- {hand[w] : w \in Workers} \ {NoTask},
             finished <- ready,
             accepted <- issued \ {sub[s] : s \in Threads},
             wanted   <- held
ServiceSpec == Service!Spec

\* A worker that is awake, or is going to test the queue again, before it sleeps.
Awake(w) == pc[w] \in WorkerPC \ {"off", "lockwait", "sleep"}

\* As long as one worker has not decided to sleep, a queued task is taken (or
\* thrown away) however many are queued behind it, unless the pool is stopped.
AwakePoolDrains ==
  \A t \in Tasks : (Queued(t) /\ \E w \in Workers : Awake(w)) ~> (~Queued(t) \/ ~running)

\* "End the thread pool" (async.h): a Shutdown that has begun returns.
ShutdownReturns == pc[Owner] = "stopping" ~> ~up
=============================================================================
