----------------------------- MODULE MCAsyncPool -----------------------------
(***************************************************************************)
(* Instances of AsyncPool: a plain and an expected task, and a third one   *)
(* so that two tasks can be queued while one is worked.                    *)
(***************************************************************************)
EXTENDS AsyncPool, TLC

CONSTANTS w1, w2, owner, client, t1, t2, t3

OneWorker   == {w1}
TwoWorkers  == {w1, w2}
OwnerOnly   == {owner}
TwoClients  == {owner, client}
TwoTasks    == {t1, t2}
ThreeTasks  == {t1, t2, t3}
LastExpected == {t2}
Symmetric   == Permutations(TwoWorkers)

\* A notification that finds a worker asleep is enough: a queued task is taken, or
\* thrown away with the pool, though all slept or were on their way into the
\* wait, and though only one task is popped under that wake-up (AddTask, the
\* loop of DoThreadWork).  What is left out is the notification that finds nobody.
NotifiedPoolDrains ==
  \A t \in Tasks :
    (Queued(t) /\ sleepers # {} /\ \E s \in Threads : pc[s] = "notify")
      ~> (~Queued(t) \/ ~running)

\* "Runs an asynchronous task" (async.h:104): a queued task is taken, or thrown
\* away with the pool, also if a worker was on its way into the wait when
\* AddTask notified.  It is not (async.cpp:61, :94).
QueuedIsTaken == \A t \in Tasks : Queued(t) ~> (~Queued(t) \/ ~running)
==============================================================================
