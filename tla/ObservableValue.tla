---------------------------- MODULE ObservableValue ---------------------------
(***************************************************************************)
(* ObservableValue (src/bonus/observable_value) with observers that call   *)
(* back into it from update().  Observers are numbered in the order of the *)
(* std::set of pointers that notify() walks through.                       *)
(***************************************************************************)
EXTENDS Naturals, Sequences, SequencesExt, FiniteSetsExt

CONSTANTS Observers,   \* a set of positive numbers
          Contents,    \* the values of a TType
          MaxNesting   \* bound on the notifications under way

VARIABLES _value, _subscriber,
          walks,       \* the loops of notify() under way, innermost last: the
                       \* observer each has called
          shown,       \* the value an observer was last shown
          aborted,     \* an update() has thrown since _value last changed
                       \* outside a notification
          dangling     \* an observer that a loop stands at was erased

vars == <<_value, _subscriber, walks, shown, aborted, dangling>>

Init ==
  /\ _value \in Contents
  /\ _subscriber = {}
  /\ walks = <<>>
  /\ shown = [o \in Observers |-> _value]
  /\ aborted = FALSE /\ dangling = FALSE

\* The loop goes on behind observer o: it shows the next subscriber the value,
\* by reference, or is over.
Walk(outer, o, subscribers, value) ==
  LET rest == {p \in subscribers : p > o}
  IN  /\ walks' = IF rest = {} THEN outer ELSE Append(outer, Min(rest))
      /\ shown' = IF rest = {} THEN shown ELSE [shown EXCEPT ![Min(rest)] = value]

\* A plausible slip: a change made by an observer is not announced again.
MutantSet(value) ==
  /\ Len(walks) < MaxNesting
  /\ _value' = value
  /\ IF value = _value \/ walks # <<>>
     THEN UNCHANGED <<walks, shown, aborted>>
     ELSE /\ Walk(walks, 0, _subscriber, value)
          /\ aborted' = FALSE
  /\ UNCHANGED <<_subscriber, dangling>>

\* set() and operator=, from the program or from an update().
set(value) ==
  /\ Len(walks) < MaxNesting
  /\ _value' = value
  /\ IF value = _value
     THEN UNCHANGED <<walks, shown, aborted>>
     ELSE /\ Walk(walks, 0, _subscriber, value)
          /\ aborted' = (aborted /\ walks # <<>>)
  /\ UNCHANGED <<_subscriber, dangling>>

\* Who subscribes knows the value of that moment.
subscribe(o) ==
  /\ _subscriber' = _subscriber \union {o}
  /\ shown' = IF o \in _subscriber THEN shown ELSE [shown EXCEPT ![o] = _value]
  /\ UNCHANGED <<_value, walks, aborted, dangling>>

unsubscribe(o) ==
  /\ _subscriber' = _subscriber \ {o}
  /\ dangling' = (o \in ToSet(walks))
  /\ UNCHANGED <<_value, walks, shown, aborted>>

updateReturns ==
  /\ walks # <<>>
  /\ Walk(Front(walks), Last(walks), _subscriber, _value)
  /\ UNCHANGED <<_value, _subscriber, aborted, dangling>>

\* The exception leaves notify(); the update() that called set(), if any, may
\* catch it or throw in turn.
updateThrows ==
  /\ walks # <<>>
  /\ walks' = Front(walks)
  /\ aborted' = TRUE
  /\ UNCHANGED <<_value, _subscriber, shown, dangling>>

\* Incrementing the iterator of an erased observer is undefined: nothing is
\* said of what follows.
Next ==
  /\ ~dangling
  /\ \/ \E value \in Contents : set(value)
     \/ \E o \in Observers : subscribe(o) \/ unsubscribe(o)
     \/ updateReturns \/ updateThrows

Spec == Init /\ [][Next]_vars

\* When no notification is under way every subscriber has been shown the value
\* last, however the updates nested sets, subscriptions and unsubscriptions of
\* others; an update() that throws is what leaves some behind, until the next
\* change (observable_value.hpp:44-51, 86-93).
SubscribersAreCurrent ==
  walks = <<>> /\ ~aborted /\ ~dangling => \A o \in _subscriber : shown[o] = _value
===============================================================================
