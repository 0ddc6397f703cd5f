------------------------------- MODULE Observer -------------------------------
(***************************************************************************)
(* Observer (src/design_patterns/observer): callbacks in vectors, one per  *)
(* event, that may subscribe and notify in turn.  A callback is its number *)
(* in the order of the subscriptions.                                      *)
(***************************************************************************)
EXTENDS Naturals, Sequences, SequencesExt, FiniteSetsExt

CONSTANTS Events,
          MaxSubscriptions,  \* bound on the callbacks subscribed
          MaxNesting         \* bound on the notifications under way

VARIABLES _events,     \* the vector of each event; <<>> where there is none
          loops,       \* the loops of notify() under way, innermost last: the
                       \* event, the size its vector had, the callbacks called
          moved        \* a vector was reallocated under a loop

vars == <<_events, loops, moved>>

Init ==
  /\ _events = [e \in Events |-> <<>>]
  /\ loops = <<>>
  /\ moved = FALSE

Subscribed == MapThenSumSet(LAMBDA e : Len(_events[e]), Events)

\* push_back on a vector whose size has reached its capacity: 1, 2, 4...
Reallocates(size) == \E k \in 0..size : size = 2 ^ k

\* Without a reallocation the end that a running loop keeps is formally invalid
\* as well; in libstdc++ it is a pointer to where the newcomer now stands, and
\* the loop ends there.
subscribe(event) ==
  /\ Subscribed < MaxSubscriptions
  /\ _events' = [_events EXCEPT ![event] = Append(@, Subscribed + 1)]
  /\ moved' = (/\ Reallocates(Len(_events[event]))
               /\ \E i \in DOMAIN loops : loops[i].event = event)
  /\ UNCHANGED loops

notify(event) ==
  /\ Len(loops) < MaxNesting
  /\ loops' = IF _events[event] = <<>> THEN loops
              ELSE Append(loops, [event |-> event, size |-> Len(_events[event]),
                                  called |-> <<Head(_events[event])>>])
  /\ UNCHANGED <<_events, moved>>

\* A plausible slip: the loop asks the vector for its size every time.
MutantBound(loop) == Len(_events[loop.event])

\* The range-based for takes the end of the vector once.
Bound(loop) == loop.size

callbackReturns ==
  /\ loops # <<>>
  /\ LET loop == Last(loops)
         next == Len(loop.called) + 1
     IN  loops' = IF next > Bound(loop) THEN Front(loops)
                  ELSE [loops EXCEPT ![Len(loops)].called =
                                       Append(@, _events[loop.event][next])]
  /\ UNCHANGED <<_events, moved>>

callbackThrows ==
  /\ loops # <<>>
  /\ loops' = Front(loops)
  /\ UNCHANGED <<_events, moved>>

\* After a reallocation the loop reads freed memory: nothing is said of what
\* follows.
Next ==
  /\ ~moved
  /\ \/ \E event \in Events : subscribe(event) \/ notify(event)
     \/ callbackReturns \/ callbackThrows

Spec == Init /\ [][Next]_vars

\* A notification calls, once each and in their order, only callbacks that were
\* subscribed before it began, although callbacks subscribe to the same event
\* and notify it again: one that subscribes a newcomer every time does not keep
\* the loop from ending (observer.hpp:31-50).
NewcomersWait ==
  \A i \in DOMAIN loops :
    IsPrefix(loops[i].called, SubSeq(_events[loops[i].event], 1, loops[i].size))
===============================================================================
