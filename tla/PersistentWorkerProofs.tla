------------------------ MODULE PersistentWorkerProofs ------------------------
(***************************************************************************)
(* Proofs of the safety of PersistentWorker for any set of names and any   *)
(* number of registrations.                                                *)
(***************************************************************************)
EXTENDS PersistentWorker, TLAPS

\* What is registered is made of versions.
LEMMA RegisteredType == PersistentTypeOK => Registered \subseteq Versions
  BY DEF PersistentTypeOK, Registered, Range, NoTask

\* Every step keeps the types of the state.
LEMMA TypeStep == PersistentTypeOK /\ [PersistentNext]_persistentVars => PersistentTypeOK'
<1> SUFFICES ASSUME PersistentTypeOK, [PersistentNext]_persistentVars PROVE PersistentTypeOK'
  OBVIOUS
<1> USE VersionsAssumption, RegisteredType DEF PersistentTypeOK, Versions, NoTask
<1>1. CASE UNCHANGED persistentVars
  BY <1>1 DEF persistentVars
<1>2. ASSUME NEW n \in Names, addTask(n) PROVE PersistentTypeOK'
  <2>1. fresh \in Versions /\ fresh' \in 1..(MaxVersions + 1)
    BY <1>2 DEF addTask
  <2>2. _tasks' \in [Names -> Versions \union {NoTask}]
    BY <1>2, <2>1 DEF addTask
  <2>3. gone' \subseteq Versions
    BY <1>2 DEF addTask
  <2>4. place' \in {"lock", "wait", "pass", "call", "exit"} /\ (place' = "call" <=> place = "call")
          /\ (place' = "pass" <=> place = "pass")
    BY <1>2 DEF addTask, Wake
  <2>5. UNCHANGED <<_running, copy, cur, phase, late>>
    BY <1>2 DEF addTask
  <2> QED BY <2>1, <2>2, <2>3, <2>4, <2>5
<1>3. ASSUME NEW n \in Names, removeTask(n) PROVE PersistentTypeOK'
  BY <1>3 DEF removeTask
<1>4. CASE Sleep \/ Quit \/ SpuriousReturn
  BY <1>4 DEF Sleep, Quit, SpuriousReturn
<1>5. CASE Snapshot
  BY <1>5 DEF Snapshot
<1>6. ASSUME NEW v \in Versions, RunTask(v) PROVE PersistentTypeOK'
  <2>1. late' \in [Versions -> Nat]
    BY <1>6 DEF RunTask
  <2> QED BY <1>6, <2>1 DEF RunTask
<1>7. CASE Finish \/ EndPass
  BY <1>7 DEF Finish, EndPass
<1>8. CASE DtorEndRunning \/ DtorJoinThread \/ Destroyed
  BY <1>8 DEF DtorEndRunning, DtorJoinThread, Destroyed, persistentVars
<1>9. CASE DtorNotify
  BY <1>9 DEF DtorNotify, Wake
<1> QED BY <1>1, <1>2, <1>3, <1>4, <1>5, <1>6, <1>7, <1>8, <1>9 DEF PersistentNext, LoopStep

\* The worker's state keeps its types; in particular a task is current exactly
\* while the thread calls it, and nothing is left of the copy outside a pass.
THEOREM TypeCorrect == PersistentSafeSpec => []PersistentTypeOK
<1>1. PersistentInit => PersistentTypeOK
  BY VersionsAssumption DEF PersistentInit, PersistentTypeOK, Versions, NoTask
<1> QED BY <1>1, TypeStep, PTL DEF PersistentSafeSpec

-------------------------------------------------------------------------------
(***************************************************************************)
(* Shutdown.                                                               *)
(***************************************************************************)
\* The thread sleeps only over an empty map and never after the notification
\* of the destructor; a destroyed worker has left its loop.
ShutdownInv ==
  /\ _running <=> phase = "alive"
  /\ place = "wait" => Registered = {} /\ phase \in {"alive", "stopping"}
  /\ phase = "destroyed" => place = "exit"

\* Every step keeps it.
LEMMA ShutdownStep == PersistentTypeOK /\ ShutdownInv /\ [PersistentNext]_persistentVars => ShutdownInv'
<1> SUFFICES ASSUME PersistentTypeOK, ShutdownInv, [PersistentNext]_persistentVars PROVE ShutdownInv'
  OBVIOUS
<1> USE DEF PersistentTypeOK, ShutdownInv
<1>0. _tasks' = _tasks => Registered' = Registered
  BY DEF Registered
<1>1. CASE UNCHANGED persistentVars
  BY <1>0, <1>1 DEF persistentVars
<1>2. ASSUME NEW n \in Names, addTask(n) PROVE ShutdownInv'
  BY <1>2 DEF addTask, Wake, MayCall
<1>3. ASSUME NEW n \in Names, removeTask(n) PROVE ShutdownInv'
  <2>1. place # "wait"
    BY <1>3 DEF removeTask, Registered, Range
  <2> QED BY <1>3, <2>1 DEF removeTask, MayCall
<1>4. CASE Sleep
  BY <1>0, <1>4 DEF Sleep, MayProceed
<1>5. CASE Quit \/ SpuriousReturn \/ Snapshot \/ Finish \/ EndPass
  BY <1>0, <1>5 DEF Quit, SpuriousReturn, Snapshot, Finish, EndPass
<1>6. ASSUME NEW v \in Versions, RunTask(v) PROVE ShutdownInv'
  BY <1>0, <1>6 DEF RunTask
<1>7. CASE DtorEndRunning \/ DtorNotify \/ DtorJoinThread \/ Destroyed
  BY <1>0, <1>7 DEF DtorEndRunning, DtorNotify, DtorJoinThread, Destroyed, persistentVars, Wake
<1> QED BY <1>1, <1>2, <1>3, <1>4, <1>5, <1>6, <1>7 DEF PersistentNext, LoopStep

\* It holds in every reachable state.
LEMMA ShutdownInvariant == PersistentSafeSpec => []ShutdownInv
<1>1. PersistentInit => ShutdownInv
  BY DEF PersistentInit, ShutdownInv
<1> QED BY <1>1, TypeCorrect, ShutdownStep, PTL DEF PersistentSafeSpec

\* Neither an addTask nor the destructor can leave the thread asleep
\* (persistent_worker.cpp:12-14, 22-23, 41).
THEOREM WakesForWork == PersistentSafeSpec => []SleepsOnlyWhenIdle
<1>1. ShutdownInv => SleepsOnlyWhenIdle
  BY DEF ShutdownInv, SleepsOnlyWhenIdle
<1> QED BY <1>1, ShutdownInvariant, PTL

-------------------------------------------------------------------------------
(***************************************************************************)
(* Late runs.  Versions are used once, so what is gone is not registered   *)
(* again; a pass can only hold what was registered when it began.          *)
(***************************************************************************)
\* Versions registered, copied or gone have been given out.
OldVersions == \A v \in Registered \union gone \union copy : v < fresh

\* No version is registered under two names.
OneNameEach ==
  \A m, n \in Names : _tasks[m] = _tasks[n] /\ _tasks[m] # NoTask => m = n

\* While the worker runs nothing registered is gone.
GoneIsNotRegistered == _running => Registered \intersect gone = {}

\* A late run is the last one: only what is gone has run late, and what has
\* run late is no longer in the copy.
LateIsLast ==
  \A v \in Versions : /\ v \notin gone => late[v] = 0
                      /\ v \in copy => late[v] = 0
                      /\ late[v] <= 1

LateInv == OldVersions /\ OneNameEach /\ GoneIsNotRegistered /\ LateIsLast

\* Every step keeps it.
LEMMA LateStep == PersistentTypeOK /\ LateInv /\ [PersistentNext]_persistentVars => LateInv'
<1> SUFFICES ASSUME PersistentTypeOK, LateInv, [PersistentNext]_persistentVars PROVE LateInv'
  OBVIOUS
<1> USE VersionsAssumption DEF LateInv
<1>0. _tasks' = _tasks => Registered' = Registered
  BY DEF Registered
<1>1. CASE UNCHANGED persistentVars
  BY <1>0, <1>1 DEF persistentVars, OldVersions, OneNameEach, GoneIsNotRegistered, LateIsLast
<1>2. ASSUME NEW n \in Names, addTask(n) PROVE LateInv'
  <2>1. fresh \in Versions /\ fresh \in Nat /\ fresh # NoTask
    BY <1>2 DEF addTask, PersistentTypeOK, Versions, NoTask
  <2>2. /\ _tasks' = [_tasks EXCEPT ![n] = fresh]
        /\ gone' = gone \union ({_tasks[n]} \ {NoTask})
        /\ fresh' = fresh + 1 /\ UNCHANGED <<_running, copy, late>>
    BY <1>2 DEF addTask
  <2>3. Registered' = (Registered \ {_tasks[n]}) \union {fresh}
    BY <2>1, <2>2 DEF Registered, Range, PersistentTypeOK, OneNameEach
  <2>4. _tasks[n] # NoTask => _tasks[n] \in Registered
    BY DEF Registered, Range, PersistentTypeOK
  <2>5. OldVersions'
    <3>0. Registered \union gone \union copy \subseteq Versions
      BY RegisteredType DEF PersistentTypeOK
    <3>1. \A v \in Registered \union gone \union copy : v \in Nat /\ v < fresh
      BY <3>0 DEF OldVersions, Versions
    <3>2. (Registered \union gone \union copy)'
            \subseteq Registered \union gone \union copy \union {fresh}
      BY <2>2, <2>3, <2>4
    <3>3. \A v \in (Registered \union gone \union copy)' : v < fresh + 1
      BY <2>1, <3>1, <3>2
    <3> QED BY <2>2, <3>3 DEF OldVersions
  <2>6. OneNameEach'
    <3>1. \A m \in Names : _tasks[m] # fresh
      BY <2>1 DEF OldVersions, Registered, Range, PersistentTypeOK
    <3> QED BY <2>1, <2>2, <3>1 DEF OneNameEach, PersistentTypeOK
  <2>7. GoneIsNotRegistered'
    <3>1. fresh \notin gone /\ fresh # _tasks[n]
      BY <2>1, <2>4 DEF OldVersions
    <3> QED BY <2>2, <2>3, <3>1 DEF GoneIsNotRegistered
  <2>8. LateIsLast'
    BY <2>2 DEF LateIsLast
  <2> QED BY <2>5, <2>6, <2>7, <2>8
<1>3. ASSUME NEW n \in Names, removeTask(n) PROVE LateInv'
  <2>1. /\ _tasks' = [_tasks EXCEPT ![n] = NoTask] /\ _tasks[n] # NoTask
        /\ gone' = gone \union {_tasks[n]}
        /\ UNCHANGED <<_running, copy, late, fresh>>
    BY <1>3 DEF removeTask
  <2>2. Registered' = Registered \ {_tasks[n]}
    BY <2>1 DEF Registered, Range, PersistentTypeOK, OneNameEach
  <2>3. _tasks[n] \in Registered
    BY <2>1 DEF Registered, Range, PersistentTypeOK
  <2>4. OldVersions'
    BY <2>1, <2>2, <2>3 DEF OldVersions
  <2>5. OneNameEach'
    BY <2>1 DEF OneNameEach, PersistentTypeOK
  <2>6. GoneIsNotRegistered' /\ LateIsLast'
    BY <2>1, <2>2 DEF GoneIsNotRegistered, LateIsLast
  <2> QED BY <2>4, <2>5, <2>6
<1>4. CASE Snapshot
  <2>1. copy' = Registered /\ _running /\ UNCHANGED <<_running, _tasks, fresh, gone, late>>
    BY <1>4 DEF Snapshot
  <2> QED BY <1>0, <2>1 DEF OldVersions, OneNameEach, GoneIsNotRegistered, LateIsLast
<1>5. ASSUME NEW v \in Versions, RunTask(v) PROVE LateInv'
  <2>1. /\ v \in copy /\ copy' = copy \ {v}
        /\ late' = [late EXCEPT ![v] = IF v \in gone THEN @ + 1 ELSE @]
        /\ UNCHANGED <<_running, _tasks, fresh, gone>>
    BY <1>5 DEF RunTask
  <2>2. LateIsLast'
    BY <2>1 DEF LateIsLast, PersistentTypeOK
  <2> QED BY <1>0, <2>1, <2>2 DEF OldVersions, OneNameEach, GoneIsNotRegistered
<1>6. CASE DtorEndRunning
  <2>1. ~_running' /\ gone' = gone \union Registered /\ UNCHANGED <<_tasks, copy, fresh, late>>
    BY <1>6 DEF DtorEndRunning
  <2> QED BY <1>0, <2>1 DEF OldVersions, OneNameEach, GoneIsNotRegistered, LateIsLast
<1>7. CASE Sleep \/ Quit \/ SpuriousReturn \/ Finish \/ EndPass \/ DtorNotify \/ DtorJoinThread \/ Destroyed
  <2>1. UNCHANGED <<_running, _tasks, copy, fresh, gone, late>>
    BY <1>7 DEF Sleep, Quit, SpuriousReturn, Finish, EndPass, DtorNotify, DtorJoinThread, Destroyed, persistentVars
  <2> QED BY <1>0, <2>1 DEF OldVersions, OneNameEach, GoneIsNotRegistered, LateIsLast
<1> QED BY <1>1, <1>2, <1>3, <1>4, <1>5, <1>6, <1>7 DEF PersistentNext, LoopStep

\* A task that was removed, replaced or stopped is started at most once more,
\* for any number of names and registrations (persistent_worker.cpp:46-53).
THEOREM LateRunsAreBounded == PersistentSafeSpec => []AtMostOneLateRun
<1>1. PersistentInit => LateInv
  BY DEF PersistentInit, LateInv, OldVersions, OneNameEach, GoneIsNotRegistered, LateIsLast,
         Registered, Range
<1>2. LateInv => AtMostOneLateRun
  BY DEF LateInv, LateIsLast, AtMostOneLateRun
<1> QED BY <1>1, <1>2, TypeCorrect, LateStep, PTL DEF PersistentSafeSpec
===============================================================================
