------------------------------- MODULE Singleton ------------------------------
(***************************************************************************)
(* Singleton (src/design_patterns/singleton) used by several threads.      *)
(* instantiate() tests _instance, constructs and assigns without a lock.   *)
(* An object is the number of its construction and 0 is nullptr.           *)
(***************************************************************************)
EXTENDS Naturals

CONSTANTS Users,       \* threads
          MaxObjects   \* bound on the constructions

VARIABLES _instance,
          made,        \* number of constructions
          fresh,       \* what a thread has constructed and not assigned yet
          userPc,      \* where a thread is in instantiate()
          held,        \* the pointers that instance() has handed out
          overlapped   \* history: two threads were in instantiate() at a time

vars == <<_instance, made, fresh, userPc, held, overlapped>>

Init ==
  /\ _instance = 0 /\ made = 0
  /\ fresh = [u \in Users |-> 0]
  /\ userPc = [u \in Users |-> "idle"]
  /\ held = {} /\ overlapped = FALSE

Enter(u) ==
  /\ userPc[u] = "idle"
  /\ userPc' = [userPc EXCEPT ![u] = "construct"]
  /\ overlapped' = (overlapped \/ \E v \in Users : userPc[v] # "idle")
  /\ UNCHANGED <<_instance, made, fresh, held>>

\* A plausible slip: nothing is tested and the new object takes the place.
MutantInstantiate(u) == Enter(u)

\* instantiate() throws when there is an instance.
instantiate(u) == _instance = 0 /\ Enter(u)

construct(u) ==
  /\ userPc[u] = "construct" /\ made < MaxObjects
  /\ made' = made + 1
  /\ fresh' = [fresh EXCEPT ![u] = made + 1]
  /\ userPc' = [userPc EXCEPT ![u] = "assign"]
  /\ UNCHANGED <<_instance, held, overlapped>>

constructThrows(u) ==
  /\ userPc[u] = "construct"
  /\ userPc' = [userPc EXCEPT ![u] = "idle"]
  /\ UNCHANGED <<_instance, made, fresh, held, overlapped>>

\* The assignment to the unique_ptr destroys what it held.
assign(u) ==
  /\ userPc[u] = "assign"
  /\ _instance' = fresh[u]
  /\ fresh' = [fresh EXCEPT ![u] = 0]
  /\ userPc' = [userPc EXCEPT ![u] = "idle"]
  /\ UNCHANGED <<made, held, overlapped>>

\* instance() throws when there is none.
instance ==
  /\ _instance # 0
  /\ held' = held \union {_instance}
  /\ UNCHANGED <<_instance, made, fresh, userPc, overlapped>>

\* The program that calls reset() forgets the pointers it was given.
reset ==
  /\ _instance' = 0 /\ held' = {}
  /\ UNCHANGED <<made, fresh, userPc, overlapped>>

Next ==
  \/ \E u \in Users : instantiate(u) \/ construct(u) \/ constructThrows(u) \/ assign(u)
  \/ instance \/ reset

Spec == Init /\ [][Next]_vars

\* All pointers that instance() has handed out since the last reset() are one
\* and point to the object that still exists, unless two threads were inside
\* instantiate() together: then the second assignment destroys the object the
\* first one made, and pointers to it dangle (singleton.hpp:47-67).
OneInstanceHandedOut == ~overlapped => held \subseteq {_instance}
===============================================================================
