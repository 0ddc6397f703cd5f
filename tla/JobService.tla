------------------------------ MODULE JobService ------------------------------
(***************************************************************************)
(* What a pool of workers promises its callers, with no thread, lock or    *)
(* condition variable in sight: submitted jobs are started in the order of *)
(* their submission, at most Capacity of them at a time; once the service  *)
(* is closed nothing more is started, and what is left is discarded only   *)
(* after the last running job has returned.  WorkerPool implements this.   *)
(***************************************************************************)
EXTENDS Naturals, Sequences, FiniteSets

CONSTANTS Jobs,      \* the jobs that may be submitted
          Capacity   \* how many may run at once

VARIABLES queue,     \* submitted and not started, oldest first
          running,   \* started and not returned
          closed,    \* the service starts nothing any more
          crashed    \* the process has died

svars == <<queue, running, closed, crashed>>

Init == queue = <<>> /\ running = {} /\ closed = FALSE /\ crashed = FALSE

\* After the closure only a job that is still running can submit another one.
Submit(j) ==
  /\ ~crashed
  /\ closed => running # {}
  /\ queue' = Append(queue, j)
  /\ UNCHANGED <<running, closed, crashed>>

Start ==
  /\ ~crashed /\ ~closed
  /\ queue # <<>>
  /\ Cardinality(running) < Capacity
  /\ running' = running \union {Head(queue)}
  /\ queue' = Tail(queue)
  /\ UNCHANGED <<closed, crashed>>

Return(j) ==
  /\ ~crashed
  /\ j \in running
  /\ running' = running \ {j}
  /\ UNCHANGED <<queue, closed, crashed>>

Close ==
  /\ ~crashed /\ ~closed
  /\ closed' = TRUE
  /\ UNCHANGED <<queue, running, crashed>>

Discard ==
  /\ ~crashed /\ closed
  /\ running = {}
  /\ queue' = <<>>
  /\ UNCHANGED <<running, closed, crashed>>

Crash ==
  /\ ~crashed
  /\ crashed' = TRUE
  /\ running' = {}
  /\ UNCHANGED <<queue, closed>>

Next ==
  \/ \E j \in Jobs : Submit(j) \/ Return(j)
  \/ Start \/ Close \/ Discard \/ Crash

\* Safety alone, and with the promise that a free place is not left unused
\* for ever while a job waits.
SafeSpec == Init /\ [][Next]_svars
Spec == SafeSpec /\ WF_svars(Start)
===============================================================================
