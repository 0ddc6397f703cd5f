------------------------------ MODULE WorkerPool ------------------------------
(***************************************************************************)
(* The worker pool of src/thread/worker_pool: a fixed set of threads that  *)
(* take jobs from one queue under _mtx and sleep on _cv when it is empty,  *)
(* addJob called by outside threads and by running jobs, and a destructor  *)
(* that stops, wakes and joins the threads and drops what is still queued. *)
(*                                                                         *)
(* A critical section of _mtx is one step: nothing inside one blocks       *)
(* except cv.wait, which releases the mutex and blocks atomically.         *)
(* Everything the code does outside the mutex (the loop test, notify_one,  *)
(* notify_all, the jobs, the joins) is a step of its own.                  *)
(***************************************************************************)
EXTENDS Naturals, Sequences, FiniteSets, SequencesExt

CONSTANTS Workers,   \* the threads of _workers
          Callers,   \* the outside threads that call addJob
          Jobs,      \* one element for each call of addJob
          Throwing,  \* the jobs that end with an exception
          NoJob      \* what a worker runs when it runs nothing

ASSUME WorkersAssumption ==
  /\ Workers # {}
  /\ IsFiniteSet(Workers)
  /\ IsFiniteSet(Callers)
  /\ Workers \intersect Callers = {}

ASSUME JobsAssumption ==
  /\ NoJob \notin Jobs
  /\ Throwing \subseteq Jobs

VARIABLES _jobs,     \* the queue
          _stop,     \* set by the destructor
          pc,        \* where each worker is in loop()
          job,       \* the local variable action of each worker
          adding,    \* threads inside addJob, past the push, before notify_one
          life,      \* progress of the destructor, or of the process's end
          accepted,  \* history: every job pushed, in order
          started    \* history: every job taken, in order

vars == <<_jobs, _stop, pc, job, adding, life, accepted, started>>

(***************************************************************************)
(* new    not yet spawned by the constructor                               *)
(* head   at the test of while (!_stop), which reads _stop unlocked        *)
(* lock   about to acquire _mtx, on entry or on return from the wait       *)
(* wait   blocked in _cv.wait                                              *)
(* run    in action()                                                      *)
(* exit   loop() has returned                                              *)
(* dead   the process has been terminated                                  *)
(***************************************************************************)
PC == {"new", "head", "lock", "wait", "run", "exit", "dead"}

Life == {"alive", "stopping", "joining", "joined", "destroyed", "terminated"}

TypeOK ==
  /\ _jobs \in Seq(Jobs)
  /\ _stop \in BOOLEAN
  /\ pc \in [Workers -> PC]
  /\ job \in [Workers -> Jobs \union {NoJob}]
  /\ \A w \in Workers : job[w] # NoJob <=> pc[w] = "run"
  /\ adding \subseteq (Workers \union Callers)
  /\ life \in Life
  /\ accepted \in Seq(Jobs)
  /\ started \in Seq(Jobs)

Init ==
  /\ _jobs = <<>>
  /\ _stop = FALSE
  /\ pc = [w \in Workers |-> "new"]
  /\ job = [w \in Workers |-> NoJob]
  /\ adding = {}
  /\ life = "alive"
  /\ accepted = <<>>
  /\ started = <<>>

At(l) == {w \in Workers : pc[w] = l}
Constructed == At("new") = {}

\* The process ends: every thread disappears where it stands.
Terminate ==
  /\ pc' = [w \in Workers |-> "dead"]
  /\ job' = [w \in Workers |-> NoJob]
  /\ adding' = {}
  /\ life' = "terminated"
  /\ UNCHANGED <<_jobs, _stop, accepted, started>>

-------------------------------------------------------------------------------
(***************************************************************************)
(* The constructor.  A std::thread that cannot be created throws out of it *)
(* while the threads before it are joinable, which ends the process.       *)
(***************************************************************************)
Spawn(w) ==
  /\ pc[w] = "new"
  /\ pc' = [pc EXCEPT ![w] = "head"]
  /\ UNCHANGED <<_jobs, _stop, job, adding, life, accepted, started>>

SpawnFails(w) == pc[w] = "new" /\ Terminate

-------------------------------------------------------------------------------
(***************************************************************************)
(* loop().                                                                 *)
(***************************************************************************)
\* _stop is read without the mutex: once it is set the read may see either
\* value.
LoopTest(w) ==
  /\ pc[w] = "head"
  /\ \/ pc' = [pc EXCEPT ![w] = "lock"]
     \/ _stop /\ pc' = [pc EXCEPT ![w] = "exit"]
  /\ UNCHANGED <<_jobs, _stop, job, adding, life, accepted, started>>

MutantWaitPredicate == _jobs # <<>>
WaitPredicate == _stop \/ _jobs # <<>>

LeaveTest == _stop \/ _jobs = <<>>

Wait(w) ==
  /\ pc[w] = "lock"
  /\ ~WaitPredicate
  /\ pc' = [pc EXCEPT ![w] = "wait"]
  /\ UNCHANGED <<_jobs, _stop, job, adding, life, accepted, started>>

Leave(w) ==
  /\ pc[w] = "lock"
  /\ WaitPredicate /\ LeaveTest
  /\ pc' = [pc EXCEPT ![w] = "exit"]
  /\ UNCHANGED <<_jobs, _stop, job, adding, life, accepted, started>>

\* A plausible slip: the job is taken from the wrong end.
MutantTake(w) ==
  /\ pc[w] = "lock"
  /\ WaitPredicate /\ ~LeaveTest
  /\ pc' = [pc EXCEPT ![w] = "run"]
  /\ job' = [job EXCEPT ![w] = Last(_jobs)]
  /\ _jobs' = Front(_jobs)
  /\ started' = Append(started, Last(_jobs))
  /\ UNCHANGED <<_stop, adding, life, accepted>>

Take(w) ==
  /\ pc[w] = "lock"
  /\ WaitPredicate /\ ~LeaveTest
  /\ pc' = [pc EXCEPT ![w] = "run"]
  /\ job' = [job EXCEPT ![w] = Head(_jobs)]
  /\ _jobs' = Tail(_jobs)
  /\ started' = Append(started, Head(_jobs))
  /\ UNCHANGED <<_stop, adding, life, accepted>>

\* The standard lets a wait return with nobody having notified.
SpuriousWakeup(w) ==
  /\ pc[w] = "wait"
  /\ pc' = [pc EXCEPT ![w] = "lock"]
  /\ UNCHANGED <<_jobs, _stop, job, adding, life, accepted, started>>

\* A plausible slip: the function just run is kept for the next turn.
MutantReturn(w) ==
  /\ pc[w] = "run"
  /\ w \notin adding
  /\ job[w] \notin Throwing
  /\ pc' = [pc EXCEPT ![w] = "head"]
  /\ UNCHANGED <<_jobs, _stop, job, adding, life, accepted, started>>

Return(w) ==
  /\ pc[w] = "run"
  /\ w \notin adding
  /\ job[w] \notin Throwing
  /\ pc' = [pc EXCEPT ![w] = "head"]
  /\ job' = [job EXCEPT ![w] = NoJob]
  /\ UNCHANGED <<_jobs, _stop, adding, life, accepted, started>>

\* Nothing in loop() catches: the exception leaves the thread function.
Throw(w) ==
  /\ pc[w] = "run"
  /\ w \notin adding
  /\ job[w] \in Throwing
  /\ Terminate

-------------------------------------------------------------------------------
(***************************************************************************)
(* addJob, both overloads: push under the mutex, then notify_one after the *)
(* mutex is released.  It is called by an outside thread while the pool is *)
(* alive or by a job that is running, even while the destructor joins.     *)
(***************************************************************************)
MayAdd(t) ==
  /\ t \notin adding
  /\ \/ t \in Callers /\ life = "alive" /\ Constructed
     \/ t \in At("run")

AddJob(t, j) ==
  /\ MayAdd(t)
  /\ j \notin Range(accepted)
  /\ _jobs' = Append(_jobs, j)
  /\ accepted' = Append(accepted, j)
  /\ adding' = adding \union {t}
  /\ UNCHANGED <<_stop, pc, job, life, started>>

\* A plausible slip: a notification only when the queue was empty before.
MutantNotifyOne(t) ==
  /\ t \in adding
  /\ adding' = adding \ {t}
  /\ \/ Len(_jobs) > 1 /\ UNCHANGED pc
     \/ /\ Len(_jobs) <= 1
        /\ \/ At("wait") = {} /\ UNCHANGED pc
           \/ \E w \in At("wait") : pc' = [pc EXCEPT ![w] = "lock"]
  /\ UNCHANGED <<_jobs, _stop, job, life, accepted, started>>

\* A plausible slip: no notification at all.
MutantNotifyNobody(t) ==
  /\ t \in adding
  /\ adding' = adding \ {t}
  /\ UNCHANGED <<_jobs, _stop, pc, job, life, accepted, started>>

NotifyOne(t) ==
  /\ t \in adding
  /\ adding' = adding \ {t}
  /\ \/ At("wait") = {} /\ UNCHANGED pc
     \/ \E w \in At("wait") : pc' = [pc EXCEPT ![w] = "lock"]
  /\ UNCHANGED <<_jobs, _stop, job, life, accepted, started>>

-------------------------------------------------------------------------------
(***************************************************************************)
(* The destructor.  Its caller guarantees that no outside thread is inside *)
(* addJob; it cannot guarantee that for the jobs.                          *)
(***************************************************************************)
DtorStop ==
  /\ life = "alive"
  /\ Constructed
  /\ adding \intersect Callers = {}
  /\ _stop' = TRUE
  /\ life' = "stopping"
  /\ UNCHANGED <<_jobs, pc, job, adding, accepted, started>>

\* A plausible slip: notify_one where every worker must be woken.
MutantDtorNotifyAll ==
  /\ life = "stopping"
  /\ life' = "joining"
  /\ \/ At("wait") = {} /\ UNCHANGED pc
     \/ \E w \in At("wait") : pc' = [pc EXCEPT ![w] = "lock"]
  /\ UNCHANGED <<_jobs, _stop, job, adding, accepted, started>>

DtorNotifyAll ==
  /\ life = "stopping"
  /\ life' = "joining"
  /\ pc' = [w \in Workers |-> IF pc[w] = "wait" THEN "lock" ELSE pc[w]]
  /\ UNCHANGED <<_jobs, _stop, job, adding, accepted, started>>

\* The joins, one after the other, are over when every loop() has returned.
DtorJoin ==
  /\ life = "joining"
  /\ At("exit") = Workers
  /\ life' = "joined"
  /\ UNCHANGED <<_jobs, _stop, pc, job, adding, accepted, started>>

DtorDrain ==
  /\ life = "joined"
  /\ _jobs' = <<>>
  /\ life' = "destroyed"
  /\ UNCHANGED <<_stop, pc, job, adding, accepted, started>>

\* The end of the object or of the process is not a deadlock.
Over == life \in {"destroyed", "terminated"} /\ UNCHANGED vars

-------------------------------------------------------------------------------
WorkerStep(w) ==
  \/ LoopTest(w) \/ Wait(w) \/ Leave(w) \/ Take(w)
  \/ Return(w) \/ Throw(w)

DtorStep == DtorNotifyAll \/ DtorJoin \/ DtorDrain

Next ==
  \/ \E w \in Workers : \/ Spawn(w) \/ SpawnFails(w)
                        \/ WorkerStep(w) \/ SpuriousWakeup(w)
  \/ \E t \in Workers \union Callers : \/ \E j \in Jobs : AddJob(t, j)
                                       \/ NotifyOne(t)
  \/ DtorStop \/ DtorStep
  \/ Over

\* Every thread that can go on does (jobs return or throw, a begun destructor
\* proceeds, a begun addJob notifies); nobody is obliged to add a job or to
\* destroy the pool.
Fairness ==
  /\ \A w \in Workers : WF_vars(Spawn(w)) /\ WF_vars(WorkerStep(w))
  /\ \A t \in Workers \union Callers : WF_vars(NotifyOne(t))
  /\ WF_vars(DtorStep)

SafeSpec == Init /\ [][Next]_vars
Spec == SafeSpec /\ Fairness

-------------------------------------------------------------------------------
(***************************************************************************)
(* Safety.                                                                 *)
(***************************************************************************)
\* Until the destructor drops the rest of the queue, the jobs taken and the
\* jobs queued are exactly the jobs accepted, in the order of the pushes:
\* loop() takes each job once, loses none and overtakes none, whatever the
\* interleaving of the workers (worker_pool.cpp:25-26, 58).
HandOutIsFifo == life # "destroyed" => accepted = started \o _jobs

\* notify_one is called after the mutex is released (worker_pool.cpp:60), so
\* a worker that is still busy can take the job first and the notification can
\* find nobody.  Still, while a worker sleeps, every queued job has a worker on
\* its way to the queue or an addJob that has yet to notify: no wakeup is lost
\* and no worker sleeps over work that nobody is coming for.
WakeupsCoverJobs ==
  ~_stop /\ At("wait") # {} =>
    Len(_jobs) <= Cardinality(At("head") \union At("lock")) + Cardinality(adding)

\* Once notify_all has been called nobody sleeps and nobody can go to sleep
\* again, so every join returns (worker_pool.cpp:20, 39-45).
NobodySleepsThroughStop ==
  life \in {"joining", "joined", "destroyed"} => At("wait") = {}

\* When the destructor returns no thread is left that could touch the pool:
\* every worker has left loop(), no job runs, and no addJob called by a job
\* still has to notify (worker_pool.cpp:41-51).
NoThreadOutlivesPool ==
  life \in {"joined", "destroyed"} =>
    At("exit") = Workers /\ adding = {}

\* The destructor neither hangs on a sleeping worker nor leaves one behind.
ShutdownIsSafe == NobodySleepsThroughStop /\ NoThreadOutlivesPool

(***************************************************************************)
(* Liveness.                                                               *)
(***************************************************************************)
\* A queued job is started, unless the pool is stopped or the process ends.
QueuedJobIsServed ==
  \A j \in Jobs :
    (j \in Range(accepted)) ~> (j \in Range(started) \/ life # "alive")

\* A destructor that has begun returns, unless a job ends the process.
DestructorReturns ==
  (life = "stopping") ~> (life \in {"destroyed", "terminated"})

(***************************************************************************)
(* The pool implements the abstract service: a job is running while a      *)
(* worker is in action().                                                  *)
(***************************************************************************)
Service == INSTANCE JobService WITH
  Capacity <- Cardinality(Workers),
  queue <- _jobs,
  running <- {job[w] : w \in At("run")},
  closed <- _stop,
  crashed <- (life = "terminated")

\* Every step of the pool is a step of the service or invisible to its
\* callers, and a free worker does not leave a queued job waiting for ever.
ImplementsService == Service!Spec
===============================================================================
