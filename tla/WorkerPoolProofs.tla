--------------------------- MODULE WorkerPoolProofs ---------------------------
(***************************************************************************)
(* Proofs that the safety properties of WorkerPool hold for any number of  *)
(* workers, callers and jobs.                                              *)
(***************************************************************************)
EXTENDS WorkerPool, FiniteSetTheorems, SequenceTheorems, TLAPS

(***************************************************************************)
(* Type correctness.                                                       *)
(***************************************************************************)
\* Every step of the pool keeps the types of its state.
LEMMA TypeStep == TypeOK /\ [Next]_vars => TypeOK'
<1> SUFFICES ASSUME TypeOK, [Next]_vars PROVE TypeOK'
  OBVIOUS
<1> USE DEF TypeOK, PC, Life
<1>1. CASE UNCHANGED vars
  BY <1>1 DEF vars
<1>2. ASSUME NEW w \in Workers,
             Spawn(w) \/ LoopTest(w) \/ Wait(w) \/ Leave(w) \/ SpuriousWakeup(w)
      PROVE  TypeOK'
  BY <1>2 DEF Spawn, LoopTest, Wait, Leave, SpuriousWakeup
<1>3. ASSUME NEW w \in Workers, SpawnFails(w) \/ Throw(w)
      PROVE  TypeOK'
  BY <1>3 DEF SpawnFails, Throw, Terminate
<1>4. ASSUME NEW w \in Workers, Take(w)
      PROVE  TypeOK'
  <2>1. Head(_jobs) \in Jobs /\ Tail(_jobs) \in Seq(Jobs) /\ Head(_jobs) # NoJob
    BY <1>4, JobsAssumption DEF Take, LeaveTest
  <2>2. started' \in Seq(Jobs)
    BY <1>4, <2>1 DEF Take
  <2> QED
    BY <1>4, <2>1, <2>2 DEF Take
<1>5. ASSUME NEW w \in Workers, Return(w)
      PROVE  TypeOK'
  BY <1>5 DEF Return
<1>6. ASSUME NEW t \in Workers \union Callers, NEW j \in Jobs, AddJob(t, j)
      PROVE  TypeOK'
  BY <1>6 DEF AddJob
<1>7. ASSUME NEW t \in Workers \union Callers, NotifyOne(t)
      PROVE  TypeOK'
  BY <1>7 DEF NotifyOne, At
<1>8. CASE DtorStop \/ DtorStep
  <2>1. CASE DtorStop
    BY <2>1 DEF DtorStop
  <2>2. CASE DtorNotifyAll
    BY <2>2 DEF DtorNotifyAll
  <2>3. CASE DtorJoin
    BY <2>3 DEF DtorJoin
  <2>4. CASE DtorDrain
    BY <2>4, EmptySeq DEF DtorDrain
  <2> QED
    BY <1>8, <2>1, <2>2, <2>3, <2>4 DEF DtorStep
<1>9. CASE Over
  BY <1>9 DEF Over, vars
<1> QED
  BY <1>1, <1>2, <1>3, <1>4, <1>5, <1>6, <1>7, <1>8, <1>9 DEF Next, WorkerStep

\* In every reachable state the members of the pool (worker_pool.hpp:47-52),
\* the places of its threads and the histories have the types declared.
THEOREM TypeCorrect == SafeSpec => []TypeOK
<1>1. Init => TypeOK
  BY EmptySeq DEF Init, TypeOK, PC, Life
<1> QED
  BY <1>1, TypeStep, PTL DEF SafeSpec

(***************************************************************************)
(* Order of the jobs.                                                      *)
(***************************************************************************)
\* Moving the head of the second sequence to the end of the first one leaves
\* their concatenation as it is.
LEMMA MoveHead ==
  ASSUME NEW S, NEW s \in Seq(S), NEW t \in Seq(S), t # <<>>
  PROVE  Append(s, Head(t)) \o Tail(t) = s \o t
<1>1. Append(s, Head(t)) \o Tail(t) \in Seq(S) /\ s \o t \in Seq(S)
  OBVIOUS
<1>2. Len(Append(s, Head(t)) \o Tail(t)) = Len(s \o t)
  OBVIOUS
<1>3. \A i \in 1..Len(s \o t) : (Append(s, Head(t)) \o Tail(t))[i] = (s \o t)[i]
  OBVIOUS
<1> QED
  BY <1>1, <1>2, <1>3, SeqEqual

\* Appending to the second of two sequences appends to their concatenation.
LEMMA AppendConcat ==
  ASSUME NEW S, NEW s \in Seq(S), NEW t \in Seq(S), NEW e \in S
  PROVE  s \o Append(t, e) = Append(s \o t, e)
<1>1. s \o Append(t, e) \in Seq(S) /\ Append(s \o t, e) \in Seq(S)
  OBVIOUS
<1>2. Len(s \o Append(t, e)) = Len(Append(s \o t, e))
  OBVIOUS
<1>3. \A i \in 1..Len(s \o Append(t, e)) :
        (s \o Append(t, e))[i] = Append(s \o t, e)[i]
  OBVIOUS
<1> QED
  BY <1>1, <1>2, <1>3, SeqEqual

(***************************************************************************)
(* Shutdown.  That no thread outlives the pool is not inductive by itself: *)
(* an addJob that has yet to notify must be known to belong to a running   *)
(* job or, while the pool is alive, to an outside caller.                  *)
(***************************************************************************)
AddersAreAlive ==
  \A t \in adding : \/ t \in Workers /\ pc[t] = "run"
                    \/ t \in Callers /\ life = "alive"

StoppedBeforeJoin ==
  life \in {"stopping", "joining", "joined", "destroyed"} => _stop = TRUE

ShutdownInv ==
  /\ StoppedBeforeJoin
  /\ AddersAreAlive
  /\ NobodySleepsThroughStop
  /\ NoThreadOutlivesPool

\* Every step of the pool keeps the shutdown invariant.
LEMMA ShutdownStep == TypeOK /\ ShutdownInv /\ [Next]_vars => ShutdownInv'
<1> SUFFICES ASSUME TypeOK, ShutdownInv, [Next]_vars PROVE ShutdownInv'
  OBVIOUS
<1> USE DEF TypeOK, PC, Life, ShutdownInv, StoppedBeforeJoin, AddersAreAlive,
            NobodySleepsThroughStop, NoThreadOutlivesPool, At
<1>1. CASE UNCHANGED vars \/ Over
  BY <1>1 DEF vars, Over
<1>2. ASSUME NEW w \in Workers, Spawn(w) \/ LoopTest(w) \/ Leave(w) \/ SpuriousWakeup(w)
      PROVE  ShutdownInv'
  BY <1>2 DEF Spawn, LoopTest, Leave, SpuriousWakeup
<1>3. ASSUME NEW w \in Workers, Wait(w)
      PROVE  ShutdownInv'
  BY <1>3 DEF Wait, WaitPredicate
<1>4. ASSUME NEW w \in Workers, SpawnFails(w) \/ Throw(w)
      PROVE  ShutdownInv'
  BY <1>4 DEF SpawnFails, Throw, Terminate
<1>5. ASSUME NEW w \in Workers, Take(w) \/ Return(w)
      PROVE  ShutdownInv'
  BY <1>5 DEF Take, Return
<1>6. ASSUME NEW t \in Workers \union Callers, NEW j \in Jobs, AddJob(t, j)
      PROVE  ShutdownInv'
  BY <1>6 DEF AddJob, MayAdd
<1>7. ASSUME NEW t \in Workers \union Callers, NotifyOne(t)
      PROVE  ShutdownInv'
  BY <1>7 DEF NotifyOne
<1>8. CASE DtorStop
  BY <1>8 DEF DtorStop
<1>9. CASE DtorNotifyAll
  BY <1>9 DEF DtorNotifyAll
<1>10. CASE DtorJoin
  BY <1>10 DEF DtorJoin
<1>11. CASE DtorDrain
  BY <1>11 DEF DtorDrain
<1> QED
  BY <1>1, <1>2, <1>3, <1>4, <1>5, <1>6, <1>7, <1>8, <1>9, <1>10, <1>11
     DEF Next, WorkerStep, DtorStep

\* The shutdown invariant holds in every reachable state.
LEMMA ShutdownInvariant == SafeSpec => []ShutdownInv
<1>1. Init => ShutdownInv
  BY DEF Init, ShutdownInv, StoppedBeforeJoin, AddersAreAlive,
         NobodySleepsThroughStop, NoThreadOutlivesPool
<1> QED
  BY <1>1, ShutdownStep, TypeCorrect, PTL DEF SafeSpec

\* After notify_all no worker is asleep or can fall asleep again, for any
\* number of workers (worker_pool.cpp:20, 39).
THEOREM StopWakesEverybody == SafeSpec => []NobodySleepsThroughStop
<1>1. ShutdownInv => NobodySleepsThroughStop
  BY DEF ShutdownInv
<1> QED
  BY <1>1, ShutdownInvariant, PTL

\* Once the destructor has joined its threads nobody is left that could use
\* the pool (worker_pool.cpp:41-51), jobs that call addJob included.
THEOREM DestructionIsSafe == SafeSpec => []NoThreadOutlivesPool
<1>1. ShutdownInv => NoThreadOutlivesPool
  BY DEF ShutdownInv
<1> QED
  BY <1>1, ShutdownInvariant, PTL

\* The destructor neither hangs on a sleeping worker nor leaves one behind, for
\* any number of workers (worker_pool.cpp:32-52).
THEOREM ShutdownCorrect == SafeSpec => []ShutdownIsSafe
<1> QED
  BY StopWakesEverybody, DestructionIsSafe, PTL DEF ShutdownIsSafe

\* Jobs are handed out once each and in the order in which addJob pushed them
\* (worker_pool.cpp:25-26, 58), for any number of workers and callers.
THEOREM FifoCorrect == SafeSpec => []HandOutIsFifo
<1>1. Init => HandOutIsFifo
  BY DEF Init, HandOutIsFifo
<1>2. TypeOK /\ ShutdownInv /\ HandOutIsFifo /\ [Next]_vars => HandOutIsFifo'
  <2> SUFFICES ASSUME TypeOK, ShutdownInv, HandOutIsFifo, [Next]_vars,
                      life' # "destroyed"
               PROVE  accepted' = started' \o _jobs'
    BY DEF HandOutIsFifo
  <2>1. ASSUME UNCHANGED <<_jobs, accepted, started>>, life # "destroyed"
        PROVE  accepted' = started' \o _jobs'
    BY <2>1 DEF HandOutIsFifo
  <2>2. CASE UNCHANGED vars \/ Over
    BY <2>2, <2>1 DEF Over, vars
  <2>3. ASSUME NEW w \in Workers,
               \/ Spawn(w) \/ LoopTest(w) \/ Wait(w) \/ Leave(w)
               \/ SpuriousWakeup(w) \/ Return(w)
        PROVE  accepted' = started' \o _jobs'
    BY <2>3, <2>1 DEF Spawn, LoopTest, Wait, Leave, SpuriousWakeup, Return
  <2>4. ASSUME NEW w \in Workers, SpawnFails(w) \/ Throw(w)
        PROVE  accepted' = started' \o _jobs'
    <3>1. life # "destroyed"
      BY <2>4 DEF SpawnFails, Throw, ShutdownInv, NoThreadOutlivesPool, At
    <3> QED
      BY <2>4, <2>1, <3>1 DEF SpawnFails, Throw, Terminate
  <2>5. ASSUME NEW w \in Workers, Take(w)
        PROVE  accepted' = started' \o _jobs'
    <3>1. _jobs # <<>> /\ life # "destroyed"
      BY <2>5 DEF Take, LeaveTest
    <3>2. accepted = started \o _jobs
      BY <3>1 DEF HandOutIsFifo
    <3>3. Append(started, Head(_jobs)) \o Tail(_jobs) = started \o _jobs
      BY <3>1, MoveHead DEF TypeOK
    <3> QED
      BY <2>5, <3>2, <3>3 DEF Take
  <2>6. ASSUME NEW t \in Workers \union Callers, NEW j \in Jobs, AddJob(t, j)
        PROVE  accepted' = started' \o _jobs'
    <3>1. life # "destroyed"
      BY <2>6 DEF AddJob, MayAdd, ShutdownInv, NoThreadOutlivesPool, At
    <3>2. accepted = started \o _jobs
      BY <3>1 DEF HandOutIsFifo
    <3>3. started \in Seq(Jobs) /\ _jobs \in Seq(Jobs)
      BY DEF TypeOK
    <3>4. started \o Append(_jobs, j) = Append(started \o _jobs, j)
      BY <3>3, AppendConcat
    <3>5. /\ accepted' = Append(accepted, j)
          /\ _jobs' = Append(_jobs, j)
          /\ started' = started
      BY <2>6 DEF AddJob
    <3> QED
      BY <3>2, <3>4, <3>5
  <2>7. ASSUME NEW t \in Workers \union Callers, NotifyOne(t)
        PROVE  accepted' = started' \o _jobs'
    BY <2>7, <2>1 DEF NotifyOne
  <2>8. CASE DtorStop \/ DtorNotifyAll \/ DtorJoin
    BY <2>8, <2>1 DEF DtorStop, DtorNotifyAll, DtorJoin
  <2>9. CASE DtorDrain
    BY <2>9 DEF DtorDrain
  <2> QED
    BY <2>2, <2>3, <2>4, <2>5, <2>6, <2>7, <2>8, <2>9 DEF Next, WorkerStep, DtorStep
<1> QED
  BY <1>1, <1>2, TypeCorrect, ShutdownInvariant, PTL DEF SafeSpec

(***************************************************************************)
(* Wakeups.                                                                *)
(***************************************************************************)
Awake == At("head") \union At("lock")

\* The workers on their way to the queue and the calls of addJob in progress
\* can be counted.
LEMMA Countable ==
  ASSUME TypeOK
  PROVE  /\ IsFiniteSet(Awake) /\ Cardinality(Awake) \in Nat
         /\ IsFiniteSet(adding) /\ Cardinality(adding) \in Nat
<1>1. IsFiniteSet(Awake)
  BY FS_Subset, WorkersAssumption DEF Awake, At
<1>2. IsFiniteSet(Workers \union Callers)
  BY FS_Union, WorkersAssumption
<1>3. IsFiniteSet(adding)
  BY <1>2, FS_Subset DEF TypeOK
<1> QED
  BY <1>1, <1>3, FS_CardinalityType

\* No wakeup is lost although notify_one is called outside the mutex
\* (worker_pool.cpp:60): as long as a worker sleeps, every queued job has a
\* worker coming for it or a notification still to be sent, for any number of
\* workers and callers.
THEOREM NoLostWakeup == SafeSpec => []WakeupsCoverJobs
<1>1. Init => WakeupsCoverJobs
  BY DEF Init, WakeupsCoverJobs, At
<1>2. TypeOK /\ TypeOK' /\ WakeupsCoverJobs /\ [Next]_vars => WakeupsCoverJobs'
  <2> DEFINE Covered == Len(_jobs) <= Cardinality(Awake) + Cardinality(adding)
  <2> SUFFICES ASSUME TypeOK, TypeOK', WakeupsCoverJobs, [Next]_vars,
                      ~_stop', At("wait")' # {}
               PROVE  Covered'
    BY DEF WakeupsCoverJobs, Awake
  <2>1. /\ IsFiniteSet(Awake) /\ Cardinality(Awake) \in Nat
        /\ IsFiniteSet(adding) /\ Cardinality(adding) \in Nat
        /\ Len(_jobs) \in Nat
    BY Countable DEF TypeOK
  <2>2. /\ Cardinality(Awake') \in Nat /\ Cardinality(adding') \in Nat
    <3>1. (IsFiniteSet(Awake) /\ IsFiniteSet(adding))'
      BY FS_Subset, FS_Union, WorkersAssumption DEF Awake, At, TypeOK
    <3> QED
      BY <3>1, FS_CardinalityType
  <2>3. ASSUME ~_stop, At("wait") # {} PROVE Covered
    BY <2>3 DEF WakeupsCoverJobs, Awake
  <2>4. CASE UNCHANGED vars \/ Over \/ DtorJoin
    <3>1. UNCHANGED <<_jobs, _stop, pc, adding>>
      BY <2>4 DEF Over, DtorJoin, vars
    <3> QED
      BY <3>1, <2>3 DEF Awake, At
  \* A worker that joins those on their way to the queue only helps.
  <2>5. ASSUME NEW w \in Workers, UNCHANGED <<_jobs, _stop, adding>>,
               At("wait") # {}, Awake' = Awake \union {w}
        PROVE  Covered'
    <3>0. Cardinality(Awake \union {w}) =
            IF w \in Awake THEN Cardinality(Awake) ELSE Cardinality(Awake) + 1
      BY <2>1, FS_AddElement
    <3>1. Cardinality(Awake') >= Cardinality(Awake)
      BY <3>0, <2>1, <2>5
    <3>2. Covered
      BY <2>3, <2>5
    <3> HIDE DEF Awake
    <3> QED
      BY <3>1, <3>2, <2>1, <2>2, <2>5
  <2>6. ASSUME NEW w \in Workers, Spawn(w)
        PROVE  Covered'
    <3>1. At("wait") # {} /\ Awake' = Awake \union {w}
      BY <2>6 DEF Spawn, Awake, At, TypeOK
    <3> QED
      BY <3>1, <2>5, <2>6 DEF Spawn
  <2>7. ASSUME NEW w \in Workers, LoopTest(w)
        PROVE  Covered'
    <3>1. At("wait") # {} /\ Awake' = Awake \union {w}
      BY <2>7 DEF LoopTest, Awake, At, TypeOK
    <3> QED
      BY <3>1, <2>5, <2>7 DEF LoopTest
  <2>8. ASSUME NEW w \in Workers, Wait(w)
        PROVE  Covered'
    <3>1. Len(_jobs') = 0
      BY <2>8, EmptySeq DEF Wait, WaitPredicate
    <3> HIDE DEF Awake
    <3> QED
      BY <3>1, <2>2
  <2>9. ASSUME NEW w \in Workers PROVE ~Leave(w)
    BY DEF Leave, WaitPredicate, LeaveTest
  <2>10. ASSUME NEW w \in Workers, Take(w)
         PROVE  Covered'
    <3>1. /\ At("wait") # {} /\ ~_stop
          /\ w \in Awake /\ Awake' = Awake \ {w}
          /\ _jobs # <<>> /\ _jobs' = Tail(_jobs) /\ adding' = adding
      BY <2>10 DEF Take, LeaveTest, Awake, At, TypeOK
    <3>2. Cardinality(Awake') = Cardinality(Awake) - 1
      BY <3>1, <2>1, FS_RemoveElement
    <3>3. Len(_jobs') = Len(_jobs) - 1
      BY <3>1 DEF TypeOK
    <3>4. Covered
      BY <3>1, <2>3
    <3> HIDE DEF Awake
    <3> QED
      BY <3>1, <3>2, <3>3, <3>4, <2>1, <2>2
  <2>11. ASSUME NEW w \in Workers, SpuriousWakeup(w)
         PROVE  Covered'
    <3>1. At("wait") # {} /\ Awake' = Awake \union {w}
      BY <2>11 DEF SpuriousWakeup, Awake, At, TypeOK
    <3> QED
      BY <3>1, <2>5, <2>11 DEF SpuriousWakeup
  <2>12. ASSUME NEW w \in Workers, Return(w)
         PROVE  Covered'
    <3>1. At("wait") # {} /\ Awake' = Awake \union {w}
      BY <2>12 DEF Return, Awake, At, TypeOK
    <3> QED
      BY <3>1, <2>5, <2>12 DEF Return
  <2>13. ASSUME NEW w \in Workers PROVE ~SpawnFails(w) /\ ~Throw(w)
    BY DEF SpawnFails, Throw, Terminate, At
  <2>14. ASSUME NEW t \in Workers \union Callers, NEW j \in Jobs, AddJob(t, j)
         PROVE  Covered'
    <3>1. /\ At("wait") # {} /\ ~_stop /\ Awake' = Awake
          /\ t \notin adding /\ adding' = adding \union {t}
      BY <2>14 DEF AddJob, MayAdd, Awake, At
    <3>2. Cardinality(adding') = Cardinality(adding) + 1
      BY <3>1, <2>1, FS_AddElement
    <3>3. Len(_jobs') = Len(_jobs) + 1
      BY <2>14 DEF AddJob, TypeOK
    <3>4. Covered
      BY <3>1, <2>3
    <3> HIDE DEF Awake
    <3> QED
      BY <3>1, <3>2, <3>3, <3>4, <2>1, <2>2
  <2>15. ASSUME NEW t \in Workers \union Callers, NotifyOne(t)
         PROVE  Covered'
    <3>1. PICK w \in At("wait") : pc' = [pc EXCEPT ![w] = "lock"]
      BY <2>15 DEF NotifyOne, At
    <3>2. /\ At("wait") # {} /\ ~_stop
          /\ w \notin Awake /\ Awake' = Awake \union {w}
          /\ t \in adding /\ adding' = adding \ {t} /\ _jobs' = _jobs
      BY <2>15, <3>1 DEF NotifyOne, Awake, At, TypeOK
    <3>3. Cardinality(Awake') = Cardinality(Awake) + 1
      BY <3>2, <2>1, FS_AddElement
    <3>4. Cardinality(adding') = Cardinality(adding) - 1
      BY <3>2, <2>1, FS_RemoveElement
    <3>5. Covered
      BY <3>2, <2>3
    <3> HIDE DEF Awake
    <3> QED
      BY <3>2, <3>3, <3>4, <3>5, <2>1, <2>2
  <2>16. ~DtorStop /\ ~DtorNotifyAll
    BY DEF DtorStop, DtorNotifyAll, At, TypeOK
  <2>17. CASE DtorDrain
    BY <2>17, <2>2 DEF DtorDrain
  <2> QED
    BY <2>4, <2>6, <2>7, <2>8, <2>9, <2>10, <2>11, <2>12, <2>13, <2>14, <2>15,
       <2>16, <2>17 DEF Next, WorkerStep, DtorStep
<1> QED
  BY <1>1, <1>2, TypeCorrect, PTL DEF SafeSpec

(***************************************************************************)
(* The refinement of JobService.  A job that returns must leave no other   *)
(* worker running it, so the invariant says that a job is pushed once and  *)
(* taken by one worker; and a process that has ended stays ended.          *)
(***************************************************************************)
PushedOnce == \A i, k \in DOMAIN accepted : accepted[i] = accepted[k] => i = k

OneWorkerPerJob ==
  /\ \A w \in Workers : pc[w] = "run" => job[w] \in Range(started)
  /\ \A v, w \in Workers : pc[v] = "run" /\ pc[w] = "run" /\ job[v] = job[w] => v = w

LifeInv ==
  /\ life = "terminated" => \A w \in Workers : pc[w] = "dead"
  /\ life = "alive" => _stop = FALSE

LEMMA PushedOnceStep == TypeOK /\ PushedOnce /\ [Next]_vars => PushedOnce'
<1> SUFFICES ASSUME TypeOK, PushedOnce, [Next]_vars PROVE PushedOnce'
  OBVIOUS
<1>1. CASE accepted' = accepted
  BY <1>1 DEF PushedOnce
<1>2. ASSUME NEW t, NEW j \in Jobs, AddJob(t, j) PROVE PushedOnce'
  <2>1. accepted' = Append(accepted, j) /\ accepted \in Seq(Jobs)
        /\ \A i \in DOMAIN accepted : accepted[i] # j
    BY <1>2 DEF AddJob, TypeOK, Range
  <2>2. /\ DOMAIN accepted = 1..Len(accepted) /\ Len(accepted) \in Nat
        /\ DOMAIN accepted' = 1..(Len(accepted) + 1)
        /\ \A i \in 1..Len(accepted) : accepted'[i] = accepted[i]
        /\ accepted'[Len(accepted) + 1] = j
    BY <2>1
  <2> QED BY <2>1, <2>2 DEF PushedOnce
<1>3. accepted' = accepted \/ \E t \in Workers \union Callers : \E j \in Jobs : AddJob(t, j)
  BY DEF Next, WorkerStep, DtorStep, Spawn, SpawnFails, Terminate, LoopTest, Wait, Leave,
     Take, SpuriousWakeup, Return, Throw, NotifyOne, DtorStop, DtorNotifyAll, DtorJoin,
     DtorDrain, Over, vars
<1> QED BY <1>1, <1>2, <1>3

\* The job at the head of the queue has not been taken before.
LEMMA HeadIsNew ==
  ASSUME TypeOK, PushedOnce, accepted = started \o _jobs, _jobs # <<>>
  PROVE  Head(_jobs) \notin Range(started)
<1>1. started \in Seq(Jobs) /\ _jobs \in Seq(Jobs)
  BY DEF TypeOK
<1>2. /\ Len(started) \in Nat /\ Len(_jobs) \in Nat /\ Len(_jobs) >= 1
      /\ DOMAIN started = 1..Len(started) /\ Head(_jobs) = _jobs[1]
  BY <1>1
<1>3. /\ DOMAIN accepted = 1..(Len(started) + Len(_jobs))
      /\ accepted[Len(started) + 1] = _jobs[1]
      /\ \A i \in 1..Len(started) : accepted[i] = started[i]
  BY <1>1, <1>2
<1>4. ASSUME NEW i \in 1..Len(started), started[i] = _jobs[1] PROVE FALSE
  <2>1. /\ i \in DOMAIN accepted /\ Len(started) + 1 \in DOMAIN accepted
        /\ i # Len(started) + 1
    BY <1>2, <1>3
  <2>2. accepted[i] = accepted[Len(started) + 1]
    BY <1>3, <1>4
  <2> QED BY <2>1, <2>2 DEF PushedOnce
<1> QED BY <1>2, <1>4 DEF Range

LEMMA OneWorkerStep ==
  TypeOK /\ ShutdownInv /\ PushedOnce /\ HandOutIsFifo /\ OneWorkerPerJob /\ [Next]_vars
    => OneWorkerPerJob'
<1> SUFFICES ASSUME TypeOK, ShutdownInv, PushedOnce, HandOutIsFifo, OneWorkerPerJob, [Next]_vars
             PROVE  OneWorkerPerJob'
  OBVIOUS
<1>1. ASSUME NEW w \in Workers, Take(w) PROVE OneWorkerPerJob'
  <2>1. /\ _jobs # <<>> /\ pc[w] = "lock"
        /\ pc' = [pc EXCEPT ![w] = "run"] /\ job' = [job EXCEPT ![w] = Head(_jobs)]
        /\ started' = Append(started, Head(_jobs))
    BY <1>1 DEF Take, LeaveTest
  <2>2. life # "destroyed"
    BY <2>1 DEF ShutdownInv, NoThreadOutlivesPool, At
  <2>3. Head(_jobs) \notin Range(started)
    BY <2>1, <2>2, HeadIsNew DEF HandOutIsFifo
  <2>4. /\ pc'[w] = "run" /\ job'[w] = Head(_jobs)
        /\ \A v \in Workers : v # w => pc'[v] = pc[v] /\ job'[v] = job[v]
    BY <2>1 DEF TypeOK
  <2>5. Range(started') = Range(started) \union {Head(_jobs)}
    <3>1. started \in Seq(Jobs) /\ Head(_jobs) \in Jobs
      BY <2>1 DEF TypeOK
    <3>2. /\ DOMAIN started = 1..Len(started) /\ Len(started) \in Nat
          /\ DOMAIN started' = 1..(Len(started) + 1)
          /\ \A i \in 1..Len(started) : started'[i] = started[i]
          /\ started'[Len(started) + 1] = Head(_jobs)
      BY <2>1, <3>1
    <3> QED BY <3>2 DEF Range
  <2> QED BY <2>3, <2>4, <2>5 DEF OneWorkerPerJob
<1>2. ASSUME started' = started,
             \A w \in Workers : pc'[w] = "run" => pc[w] = "run" /\ job'[w] = job[w]
      PROVE  OneWorkerPerJob'
  BY <1>2 DEF OneWorkerPerJob
<1>3. ASSUME NEW w \in Workers,
             \/ Spawn(w) \/ LoopTest(w) \/ Wait(w) \/ Leave(w) \/ SpuriousWakeup(w) \/ Return(w)
      PROVE  OneWorkerPerJob'
  BY <1>2, <1>3 DEF Spawn, LoopTest, Wait, Leave, SpuriousWakeup, Return, TypeOK
<1>4. ASSUME NEW w \in Workers, SpawnFails(w) \/ Throw(w) PROVE OneWorkerPerJob'
  BY <1>2, <1>4 DEF SpawnFails, Throw, Terminate
<1>5. ASSUME NEW t, NotifyOne(t) \/ \E j \in Jobs : AddJob(t, j) PROVE OneWorkerPerJob'
  BY <1>2, <1>5 DEF NotifyOne, AddJob, TypeOK
<1>6. CASE DtorStop \/ DtorStep \/ Over \/ UNCHANGED vars
  BY <1>2, <1>6 DEF DtorStop, DtorStep, DtorNotifyAll, DtorJoin, DtorDrain, Over, vars
<1> QED BY <1>1, <1>3, <1>4, <1>5, <1>6 DEF Next, WorkerStep

LEMMA LifeStep == TypeOK /\ LifeInv /\ [Next]_vars => LifeInv'
<1> SUFFICES ASSUME TypeOK, LifeInv, [Next]_vars PROVE LifeInv'
  OBVIOUS
<1> USE DEF LifeInv
<1>1. ASSUME NEW w \in Workers,
             \/ Spawn(w) \/ LoopTest(w) \/ Wait(w) \/ Leave(w) \/ SpuriousWakeup(w)
             \/ Take(w) \/ Return(w)
      PROVE  LifeInv'
  <2>1. pc[w] # "dead" /\ life' = life /\ _stop' = _stop
    BY <1>1 DEF Spawn, LoopTest, Wait, Leave, SpuriousWakeup, Take, Return
  <2> QED BY <2>1
<1>2. ASSUME NEW w \in Workers, SpawnFails(w) \/ Throw(w) PROVE LifeInv'
  BY <1>2 DEF SpawnFails, Throw, Terminate
<1>3. ASSUME NEW t, NotifyOne(t) PROVE LifeInv'
  BY <1>3 DEF NotifyOne, At, TypeOK
<1>4. ASSUME NEW t, NEW j, AddJob(t, j) PROVE LifeInv'
  BY <1>4 DEF AddJob
<1>5. CASE DtorStop \/ DtorStep \/ Over \/ UNCHANGED vars
  BY <1>5 DEF DtorStop, DtorStep, DtorNotifyAll, DtorJoin, DtorDrain, Over, vars
<1> QED BY <1>1, <1>2, <1>3, <1>4, <1>5 DEF Next, WorkerStep

\* A worker that runs nothing leaves a place free.
LEMMA PlaceIsFree ==
  ASSUME NEW w \in Workers, pc[w] # "run"
  PROVE  Cardinality({job[v] : v \in At("run")}) < Cardinality(Workers)
<1>1. IsFiniteSet(Workers) /\ Cardinality(Workers) \in Nat
  BY WorkersAssumption, FS_CardinalityType
<1>2. IsFiniteSet(Workers \ {w}) /\ Cardinality(Workers \ {w}) = Cardinality(Workers) - 1
  BY <1>1, FS_RemoveElement
<1>3. At("run") \subseteq Workers \ {w}
  BY DEF At
<1>4. IsFiniteSet(At("run")) /\ Cardinality(At("run")) <= Cardinality(Workers \ {w})
  BY <1>2, <1>3, FS_Subset
<1> DEFINE f == [v \in At("run") |-> job[v]]
<1>5. f \in Surjection(At("run"), {job[v] : v \in At("run")})
  BY DEF Surjection
<1>6. /\ IsFiniteSet({job[v] : v \in At("run")})
      /\ Cardinality({job[v] : v \in At("run")}) <= Cardinality(At("run"))
  <2> HIDE DEF f
  <2> QED BY <1>4, <1>5, FS_Surjection
<1>7. Cardinality(At("run")) \in Nat /\ Cardinality({job[v] : v \in At("run")}) \in Nat
  BY <1>4, <1>6, FS_CardinalityType
<1> QED BY <1>1, <1>2, <1>4, <1>6, <1>7

Running == {job[w] : w \in At("run")}

\* What the service sees is unchanged when the queue, _stop and the life of the
\* process are, and the same workers run the same jobs.
LEMMA Invisible ==
  ASSUME _jobs' = _jobs, _stop' = _stop, (life' = "terminated") = (life = "terminated"),
         \A w \in Workers : (pc'[w] = "run" <=> pc[w] = "run") /\ (pc[w] = "run" => job'[w] = job[w])
  PROVE  UNCHANGED Service!svars
<1>1. Running' = Running
  BY DEF Running, At
<1> QED BY <1>1 DEF Service!svars, Running

\* Every step of the pool is a step of the service or invisible.
LEMMA Simulates ==
  ASSUME TypeOK, ShutdownInv, LifeInv, OneWorkerPerJob, [Next]_vars
  PROVE  [Service!Next]_(Service!svars)
<1>1. CASE UNCHANGED vars \/ Over
  BY <1>1, Invisible DEF vars, Over
<1>2. ASSUME NEW w \in Workers, Spawn(w) \/ LoopTest(w) \/ Wait(w) \/ Leave(w) \/ SpuriousWakeup(w)
      PROVE  UNCHANGED Service!svars
  <2>1. /\ _jobs' = _jobs /\ _stop' = _stop /\ life' = life /\ job' = job
        /\ \A v \in Workers : pc'[v] = "run" <=> pc[v] = "run"
    BY <1>2 DEF Spawn, LoopTest, Wait, Leave, SpuriousWakeup, TypeOK
  <2> QED BY <2>1, Invisible
<1>3. ASSUME NEW w \in Workers, SpawnFails(w) \/ Throw(w)
      PROVE  Service!Crash
  <2>1. /\ life # "terminated" /\ life' = "terminated"
        /\ _jobs' = _jobs /\ _stop' = _stop
        /\ \A v \in Workers : pc'[v] = "dead"
    BY <1>3 DEF SpawnFails, Throw, Terminate, LifeInv
  <2>2. {job[v] : v \in At("run")}' = {}
    BY <2>1 DEF At
  <2> QED BY <2>1, <2>2 DEF Service!Crash
<1>4. ASSUME NEW w \in Workers, Take(w)
      PROVE  Service!Start
  <2>1. /\ _jobs # <<>> /\ ~_stop /\ _stop' = _stop /\ life' = life /\ _jobs' = Tail(_jobs)
        /\ pc[w] = "lock" /\ life # "terminated"
        /\ pc' = [pc EXCEPT ![w] = "run"] /\ job' = [job EXCEPT ![w] = Head(_jobs)]
    BY <1>4 DEF Take, LeaveTest, LifeInv
  <2>2. Running' = Running \union {Head(_jobs)}
    <3>1. /\ pc'[w] = "run" /\ job'[w] = Head(_jobs)
          /\ \A v \in Workers : v # w => pc'[v] = pc[v] /\ job'[v] = job[v]
      BY <2>1 DEF TypeOK
    <3> QED BY <2>1, <3>1 DEF Running, At
  <2>3. Cardinality(Running) < Cardinality(Workers)
    BY <2>1, PlaceIsFree DEF Running
  <2>4. Service!Cardinality(Running) = Cardinality(Running)
    BY Zenon DEF Service!Cardinality, Cardinality
  <2> QED BY <2>1, <2>2, <2>3, <2>4 DEF Service!Start, Running
<1>5. ASSUME NEW w \in Workers, Return(w)
      PROVE  \E j \in Jobs : Service!Return(j)
  <2>1. /\ _stop' = _stop /\ life' = life /\ _jobs' = _jobs
        /\ pc[w] = "run" /\ life # "terminated"
        /\ pc' = [pc EXCEPT ![w] = "head"] /\ job' = [job EXCEPT ![w] = NoJob]
    BY <1>5 DEF Return, LifeInv
  <2>2. job[w] \in Jobs
    BY <2>1 DEF TypeOK
  <2>3. Running' = Running \ {job[w]} /\ job[w] \in Running
    <3>1. /\ pc'[w] = "head"
          /\ \A v \in Workers : v # w => pc'[v] = pc[v] /\ job'[v] = job[v]
      BY <2>1 DEF TypeOK
    <3>2. \A v \in At("run") : v # w => job[v] # job[w]
      BY <2>1 DEF OneWorkerPerJob, At
    <3> QED BY <2>1, <3>1, <3>2 DEF Running, At
  <2>4. PICK j \in Jobs : j = job[w]
    BY <2>2
  <2>5. Service!Return(j)
    BY <2>1, <2>3, <2>4 DEF Service!Return, Running
  <2> QED BY <2>5
<1>6. ASSUME NEW t \in Workers \union Callers, NEW j \in Jobs, AddJob(t, j)
      PROVE  Service!Submit(j)
  <2>1. /\ _jobs' = Append(_jobs, j) /\ UNCHANGED <<_stop, pc, job, life>>
        /\ \/ life = "alive"
           \/ t \in At("run")
    BY <1>6 DEF AddJob, MayAdd
  <2>2. life # "terminated" /\ (_stop => Running # {})
    BY <2>1 DEF LifeInv, At, Running
  <2>3. Running' = Running
    BY <2>1 DEF Running, At
  <2> QED BY <2>1, <2>2, <2>3 DEF Service!Submit, Running
<1>7. ASSUME NEW t \in Workers \union Callers, NotifyOne(t)
      PROVE  UNCHANGED Service!svars
  <2>1. /\ _jobs' = _jobs /\ _stop' = _stop /\ life' = life /\ job' = job
        /\ \A v \in Workers : pc'[v] = "run" <=> pc[v] = "run"
    BY <1>7 DEF NotifyOne, At, TypeOK
  <2> QED BY <2>1, Invisible
<1>8. CASE DtorStop
  <2>1. /\ life = "alive" /\ _stop = FALSE /\ _stop' = TRUE /\ life' = "stopping"
        /\ UNCHANGED <<_jobs, pc, job>>
    BY <1>8 DEF DtorStop, LifeInv
  <2>2. Running' = Running
    BY <2>1 DEF Running, At
  <2>3. Service!Close
    BY <2>1, <2>2 DEF Service!Close, Running
  <2> QED BY <2>3 DEF Service!Next
<1>9. CASE DtorNotifyAll \/ DtorJoin
  <2>1. /\ _jobs' = _jobs /\ _stop' = _stop /\ job' = job
        /\ life # "terminated" /\ life' # "terminated"
        /\ \A v \in Workers : pc'[v] = "run" <=> pc[v] = "run"
    BY <1>9 DEF DtorNotifyAll, DtorJoin, TypeOK
  <2> QED BY <2>1, Invisible
<1>10. CASE DtorDrain
  <2>1. /\ life = "joined" /\ life' = "destroyed" /\ _jobs' = <<>>
        /\ UNCHANGED <<_stop, pc, job>>
    BY <1>10 DEF DtorDrain
  <2>2. Running = {} /\ Running' = {} /\ _stop
    BY <2>1 DEF ShutdownInv, NoThreadOutlivesPool, StoppedBeforeJoin, Running, At
  <2>3. Service!Discard
    BY <2>1, <2>2 DEF Service!Discard, Running
  <2> QED BY <2>3 DEF Service!Next
<1> QED
  BY <1>1, <1>2, <1>3, <1>4, <1>5, <1>6, <1>7, <1>8, <1>9, <1>10
     DEF Next, WorkerStep, DtorStep, Service!Next

\* The pool implements the abstract service, for any number of workers and
\* callers: jobs start in the order of addJob, at most one per worker at a
\* time, none once _stop is set, and the rest of the queue is dropped only
\* after the last job has returned.  (That a free worker does start a queued
\* job is the fair part of Service!Spec, which TLC checks.)
THEOREM RefinesService == SafeSpec => Service!SafeSpec
<1>1. Init => Service!Init
  <2> SUFFICES ASSUME Init PROVE Service!Init
    OBVIOUS
  <2>1. {job[w] : w \in At("run")} = {}
    BY DEF Init, At
  <2>2. (life = "terminated") = FALSE
    BY DEF Init
  <2> QED BY <2>1, <2>2 DEF Init, Service!Init
<1>2. Init => PushedOnce /\ OneWorkerPerJob /\ LifeInv
  BY DEF Init, PushedOnce, OneWorkerPerJob, LifeInv
<1>3. SafeSpec => [](PushedOnce /\ OneWorkerPerJob /\ LifeInv)
  BY <1>2, PushedOnceStep, OneWorkerStep, LifeStep, TypeCorrect, ShutdownInvariant, FifoCorrect,
     PTL DEF SafeSpec
<1>4. TypeOK /\ ShutdownInv /\ LifeInv /\ OneWorkerPerJob /\ [Next]_vars
        => [Service!Next]_(Service!svars)
  BY Simulates
<1> QED
  BY <1>1, <1>3, <1>4, TypeCorrect, ShutdownInvariant, PTL DEF SafeSpec, Service!SafeSpec
===============================================================================
