----------------------------- MODULE TaskService -----------------------------
(***************************************************************************)
(* What the pool of utility/src/async.h promises its users, with no thread,*)
(* lock or condition variable in sight: a task that was run is taken at    *)
(* most once, in the order of the calls; only an expected task whose       *)
(* future nobody holds any more is passed over; a future becomes ready     *)
(* when, and only when, its task has been worked to the end.               *)
(***************************************************************************)
EXTENDS Naturals, Sequences

CONSTANTS Tasks,      \* the tasks clients may ever run
          Expected    \* those created by ExpectRun, which may be abandoned

VARIABLES backlog,    \* accepted tasks, the oldest first
          active,     \* tasks some thread has taken and not yet finished
          finished,   \* tasks whose future is ready
          accepted,   \* every task the service ever accepted
          wanted      \* tasks whose future is still held

vars == <<backlog, active, finished, accepted, wanted>>

Abandoned(t) == t \in Expected /\ t \notin wanted

Init == /\ backlog = <<>>
        /\ active = {}
        /\ finished = {}
        /\ accepted = {}
        /\ wanted = {}

\* A client asks for a task and holds its future before the task is accepted.
Want(t) == /\ t \notin accepted \cup wanted
           /\ wanted' = wanted \cup {t}
           /\ UNCHANGED <<backlog, active, finished, accepted>>

Accept(t) == /\ t \in wanted \ accepted
             /\ accepted' = accepted \cup {t}
             /\ backlog' = Append(backlog, t)
             /\ UNCHANGED <<active, finished, wanted>>

Forget(t) == /\ t \in wanted \cap accepted
             /\ wanted' = wanted \ {t}
             /\ UNCHANGED <<backlog, active, finished, accepted>>

\* The oldest task that is not abandoned is taken; what was older is gone.
Take(i) == /\ ~Abandoned(backlog[i])
           /\ \A j \in 1 .. i - 1 : Abandoned(backlog[j])
           /\ active' = active \cup {backlog[i]}
           /\ backlog' = SubSeq(backlog, i + 1, Len(backlog))
           /\ UNCHANGED <<finished, accepted, wanted>>

Discard == /\ \A j \in 1 .. Len(backlog) : Abandoned(backlog[j])
           /\ backlog' = <<>>
           /\ UNCHANGED <<active, finished, accepted, wanted>>

Finish(t) == /\ t \in active
             /\ active' = active \ {t}
             /\ finished' = finished \cup {t}
             /\ UNCHANGED <<backlog, accepted, wanted>>

\* Closing drops the backlog, and only when no task is being worked.
Close == /\ active = {}
         /\ backlog' = <<>>
         /\ UNCHANGED <<active, finished, accepted, wanted>>

Next == \/ \E t \in Tasks : Want(t) \/ Accept(t) \/ Forget(t) \/ Finish(t)
        \/ \E i \in 1 .. Len(backlog) : Take(i)
        \/ Discard
        \/ Close

Spec == Init /\ [][Next]_vars
==============================================================================
