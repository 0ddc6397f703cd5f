--------------------------- MODULE PersistentWorker ---------------------------
(***************************************************************************)
(* The persistent worker of src/thread/persistent_worker: one thread that  *)
(* runs every registered task over and over.  Each pass runs a copy of the *)
(* map of tasks taken under _mtx, so tasks can be added, replaced and      *)
(* removed, by outside threads and by the tasks themselves, while a pass   *)
(* is under way.                                                           *)
(*                                                                         *)
(* A registered function is a version: a fresh number for each addTask.    *)
(* A critical section of _mtx is one step, as in WorkerPool.               *)
(***************************************************************************)
EXTENDS Naturals, FiniteSets, Functions

CONSTANTS Names,        \* names under which tasks are registered
          MaxVersions   \* bound on the number of calls of addTask

ASSUME VersionsAssumption == MaxVersions \in Nat

Versions == 1..MaxVersions
NoTask == 0

VARIABLES _running,  \* cleared by the destructor
          _tasks,    \* the version registered under each name, or NoTask
          place,        \* where the thread is in loop()
          copy,      \* versions of the copied map that the pass has yet to run
          cur,       \* the version being run, or NoTask
          phase,      \* progress of the destructor
          fresh,     \* the next version
          gone,      \* history: versions removed, replaced or stopped
          late       \* history: how often each version was started once gone

persistentVars == <<_running, _tasks, place, copy, cur, phase, fresh, gone, late>>

(***************************************************************************)
(* lock   about to acquire _mtx at the top of the loop or after the wait   *)
(* wait   blocked in _cv.wait                                              *)
(* pass   between two tasks of the copy                                    *)
(* call   in element.second()                                              *)
(* exit   loop() has returned                                              *)
(***************************************************************************)
PersistentTypeOK ==
  /\ _running \in BOOLEAN
  /\ _tasks \in [Names -> Versions \union {NoTask}]
  /\ place \in {"lock", "wait", "pass", "call", "exit"}
  /\ copy \subseteq Versions
  /\ cur \in Versions \union {NoTask}
  /\ cur # NoTask <=> place = "call"
  /\ copy # {} => place \in {"pass", "call"}
  /\ phase \in {"alive", "stopping", "joining", "destroyed"}
  /\ fresh \in 1..(MaxVersions + 1)
  /\ gone \subseteq Versions
  /\ late \in [Versions -> Nat]

Registered == Range(_tasks) \ {NoTask}

PersistentInit ==
  /\ _running = TRUE
  /\ _tasks = [n \in Names |-> NoTask]
  /\ place = "lock"
  /\ copy = {}
  /\ cur = NoTask
  /\ phase = "alive"
  /\ fresh = 1
  /\ gone = {}
  /\ late = [v \in Versions |-> 0]

-------------------------------------------------------------------------------
(***************************************************************************)
(* addTask and removeTask, called by an outside thread while the worker is *)
(* alive or by the task that is running.                                   *)
(***************************************************************************)
MayCall == phase = "alive" \/ place = "call"

\* A plausible slip: no notification.
MutantWake == UNCHANGED place

\* notify_one: the worker's thread is the only one that ever waits.
Wake == place' = IF place = "wait" THEN "lock" ELSE place

addTask(n) ==
  /\ MayCall
  /\ fresh <= MaxVersions
  /\ _tasks' = [_tasks EXCEPT ![n] = fresh]
  /\ gone' = gone \union ({_tasks[n]} \ {NoTask})
  /\ fresh' = fresh + 1
  /\ Wake
  /\ UNCHANGED <<_running, copy, cur, phase, late>>

\* A plausible slip: a removal that leaves the map as it is.
MutantRemoveTask(n) ==
  /\ MayCall
  /\ _tasks[n] # NoTask
  /\ gone' = gone \union {_tasks[n]}
  /\ UNCHANGED <<_running, _tasks, place, copy, cur, phase, fresh, late>>

\* Erasing a name that is not registered changes nothing.
removeTask(n) ==
  /\ MayCall
  /\ _tasks[n] # NoTask
  /\ _tasks' = [_tasks EXCEPT ![n] = NoTask]
  /\ gone' = gone \union {_tasks[n]}
  /\ UNCHANGED <<_running, place, copy, cur, phase, fresh, late>>

-------------------------------------------------------------------------------
(***************************************************************************)
(* loop().                                                                 *)
(***************************************************************************)
MutantMayProceed == Registered # {}
MayProceed == ~_running \/ Registered # {}

Sleep ==
  /\ place = "lock"
  /\ ~MayProceed
  /\ place' = "wait"
  /\ UNCHANGED <<_running, _tasks, copy, cur, phase, fresh, gone, late>>

SpuriousReturn ==
  /\ place = "wait"
  /\ place' = "lock"
  /\ UNCHANGED <<_running, _tasks, copy, cur, phase, fresh, gone, late>>

Quit ==
  /\ place = "lock"
  /\ MayProceed /\ ~_running
  /\ place' = "exit"
  /\ UNCHANGED <<_running, _tasks, copy, cur, phase, fresh, gone, late>>

Snapshot ==
  /\ place = "lock"
  /\ MayProceed /\ _running
  /\ copy' = Registered
  /\ place' = "pass"
  /\ UNCHANGED <<_running, _tasks, cur, phase, fresh, gone, late>>

\* The map is unordered: the pass takes its tasks in any order.
RunTask(v) ==
  /\ place = "pass"
  /\ v \in copy
  /\ copy' = copy \ {v}
  /\ cur' = v
  /\ late' = [late EXCEPT ![v] = IF v \in gone THEN @ + 1 ELSE @]
  /\ place' = "call"
  /\ UNCHANGED <<_running, _tasks, phase, fresh, gone>>

\* A plausible slip: an exception that is not caught ends the thread.
MutantFinish ==
  /\ place = "call"
  /\ cur' = NoTask
  /\ place' \in {"pass", "exit"}
  /\ UNCHANGED <<_running, _tasks, copy, phase, fresh, gone, late>>

\* A task returns or throws: both catch clauses go on with the next one.
Finish ==
  /\ place = "call"
  /\ cur' = NoTask
  /\ place' = "pass"
  /\ UNCHANGED <<_running, _tasks, copy, phase, fresh, gone, late>>

\* A plausible slip: the thread stops in the middle of a pass.
MutantEndPass ==
  /\ place = "pass"
  /\ copy = {} \/ ~_running
  /\ place' = IF _running THEN "lock" ELSE "exit"
  /\ UNCHANGED <<_running, _tasks, copy, cur, phase, fresh, gone, late>>

EndPass ==
  /\ place = "pass"
  /\ copy = {}
  /\ place' = IF _running THEN "lock" ELSE "exit"
  /\ UNCHANGED <<_running, _tasks, copy, cur, phase, fresh, gone, late>>

LoopStep ==
  \/ Sleep \/ Quit \/ Snapshot \/ Finish \/ EndPass
  \/ \E v \in Versions : RunTask(v)

-------------------------------------------------------------------------------
(***************************************************************************)
(* The destructor.                                                         *)
(***************************************************************************)
DtorEndRunning ==
  /\ phase = "alive"
  /\ _running' = FALSE
  /\ gone' = gone \union Registered
  /\ phase' = "stopping"
  /\ UNCHANGED <<_tasks, place, copy, cur, fresh, late>>

DtorNotify ==
  /\ phase = "stopping"
  /\ phase' = "joining"
  /\ Wake
  /\ UNCHANGED <<_running, _tasks, copy, cur, fresh, gone, late>>

DtorJoinThread ==
  /\ phase = "joining"
  /\ place = "exit"
  /\ phase' = "destroyed"
  /\ UNCHANGED <<_running, _tasks, place, copy, cur, fresh, gone, late>>

Destroyed == phase = "destroyed" /\ UNCHANGED persistentVars

-------------------------------------------------------------------------------
PersistentNext ==
  \/ \E n \in Names : addTask(n) \/ removeTask(n)
  \/ LoopStep \/ SpuriousReturn
  \/ DtorEndRunning \/ DtorNotify \/ DtorJoinThread
  \/ Destroyed

\* The thread goes on whenever it can (tasks return or throw) and a begun
\* destructor proceeds; nobody has to add, remove or destroy anything.
PersistentFairness == WF_persistentVars(LoopStep) /\ WF_persistentVars(DtorNotify \/ DtorJoinThread)

PersistentSafeSpec == PersistentInit /\ [][PersistentNext]_persistentVars
PersistentSpec == PersistentSafeSpec /\ PersistentFairness

-------------------------------------------------------------------------------
(***************************************************************************)
(* Properties.                                                             *)
(***************************************************************************)
\* The pass works on a copy taken before the removal (persistent_worker.cpp:46)
\* so removeTask, a replacement or the destructor can return and the old
\* function still be started afterwards; but at most once.
AtMostOneLateRun == \A v \in Versions : late[v] <= 1

\* The thread sleeps only while there is nothing to run, and the destructor's
\* notification cannot be missed between the test of the predicate and the
\* wait (persistent_worker.cpp:12-14, 22-23, 41).
SleepsOnlyWhenIdle ==
  place = "wait" => Registered = {} /\ (_running \/ phase = "stopping")

\* A registered task is run again and again until it is removed, replaced or
\* the worker is destroyed: from any state in which it is registered a run of
\* it follows, whatever the other tasks do (throwing included).
RegisteredTaskRuns ==
  \A v \in Versions : (v \in Registered) ~> (cur = v \/ v \in gone \/ ~_running)

\* A destructor that has begun returns, also when it was called while the
\* thread slept, was between two passes, or ran a task that adds tasks.
WorkerIsDestroyed == (phase = "stopping") ~> (phase = "destroyed")
===============================================================================
