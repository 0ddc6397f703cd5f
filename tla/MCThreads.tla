------------------------------- MODULE MCThreads ------------------------------
(***************************************************************************)
(* Small instances of the two classes of src/thread that run the work of   *)
(* others: the pool of workers and the persistent worker.  They share no   *)
(* state, so every behaviour exercises one of them and the other stays as  *)
(* it was constructed.                                                     *)
(***************************************************************************)
EXTENDS WorkerPool, PersistentWorker

VARIABLE part          \* the part that this behaviour exercises

threadVars == <<part, vars, persistentVars>>

ThreadsInit == part \in {"pool", "persistent"} /\ Init /\ PersistentInit

ThreadsNext ==
  /\ UNCHANGED part
  /\ \/ part = "pool" /\ Next /\ UNCHANGED persistentVars
     \/ part = "persistent" /\ PersistentNext /\ UNCHANGED vars

\* What is exercised is scheduled fairly.
ThreadsFairness ==
  \/ part = "pool" /\ Fairness
  \/ part = "persistent" /\ PersistentFairness

ThreadsSpec == ThreadsInit /\ [][ThreadsNext]_threadVars /\ ThreadsFairness
===============================================================================
