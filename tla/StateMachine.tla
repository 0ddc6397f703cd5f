----------------------------- MODULE StateMachine -----------------------------
(***************************************************************************)
(* StateMachine (src/design_patterns/state_machine).  The lambdas of       *)
(* transitions and actions call back into the machine and may throw.       *)
(***************************************************************************)
EXTENDS Naturals, Sequences, FiniteSets, SequencesExt

CONSTANTS TState,
          MaxLambdas,  \* bound on the lambdas under way
          MaxEntries   \* bound on the entries of the two maps

VARIABLES _currentS, _states, _actions, _transitions,
          lambdas,     \* the lambdas under way, innermost last: the pair of a
                       \* transition, or a state twice for its action
          overtaken,   \* a transition has ended inside one that is under way
          replaced     \* a lambda was replaced while it was running

vars == <<_currentS, _states, _actions, _transitions, lambdas, overtaken, replaced>>

Moving(i) == lambdas[i].moves

\* _currentS is indeterminate until the first state is added.
Init ==
  /\ _currentS \in TState
  /\ _states = {} /\ _actions = {} /\ _transitions = {}
  /\ lambdas = <<>>
  /\ overtaken = FALSE /\ replaced = FALSE

addState(state) ==
  /\ _currentS' = IF _states = {} THEN state ELSE _currentS
  /\ _states' = _states \union {state}
  /\ UNCHANGED <<_actions, _transitions, lambdas, overtaken, replaced>>

Room == Cardinality(_transitions) + Cardinality(_actions) < MaxEntries

\* Both tests look at the start; an unknown final state is accepted.
addTransition(start, final) ==
  /\ start \in _states /\ Room
  /\ _transitions' = _transitions \union {<<start, final>>}
  /\ replaced' = \E i \in DOMAIN lambdas : Moving(i) /\ lambdas[i].pair = <<start, final>>
  /\ UNCHANGED <<_currentS, _states, _actions, lambdas, overtaken>>

addAction(state) ==
  /\ Room
  /\ _actions' = _actions \union {state}
  /\ replaced' = \E i \in DOMAIN lambdas : ~Moving(i) /\ lambdas[i].pair = <<state, state>>
  /\ UNCHANGED <<_currentS, _states, _transitions, lambdas, overtaken>>

Run(pair, moves) ==
  /\ Len(lambdas) < MaxLambdas
  /\ lambdas' = Append(lambdas, [pair |-> pair, moves |-> moves])
  /\ UNCHANGED <<_currentS, _states, _actions, _transitions, overtaken, replaced>>

\* A plausible slip: any transition to the state will do.
MutantTransitionTo(state) ==
  \E pair \in _transitions : pair[2] = state /\ Run(pair, TRUE)

\* transitionTo throws where there is no transition; else the lambda is run
\* first and _currentS is set when it has returned.
transitionTo(state) ==
  <<_currentS, state>> \in _transitions /\ Run(<<_currentS, state>>, TRUE)

update == _currentS \in _actions /\ Run(<<_currentS, _currentS>>, FALSE)

\* A transition is under way around the innermost lambda.
Outer == \E i \in 1..(Len(lambdas) - 1) : Moving(i)

lambdaReturns ==
  /\ lambdas # <<>>
  /\ LET ended == Last(lambdas) IN
       /\ _currentS' = IF ended.moves THEN ended.pair[2] ELSE _currentS
       /\ overtaken' = (Outer /\ (overtaken \/ ended.moves))
  /\ lambdas' = Front(lambdas)
  /\ UNCHANGED <<_states, _actions, _transitions, replaced>>

lambdaThrows ==
  /\ lambdas # <<>>
  /\ lambdas' = Front(lambdas)
  /\ overtaken' = (Outer /\ overtaken)
  /\ UNCHANGED <<_currentS, _states, _actions, _transitions, replaced>>

Next ==
  /\ ~replaced
  /\ \/ \E state \in TState :
          addState(state) \/ addAction(state) \/ transitionTo(state)
     \/ \E start, final \in TState : addTransition(start, final)
     \/ update \/ lambdaReturns \/ lambdaThrows

Spec == Init /\ [][Next]_vars

\* Once the machine has its first state it moves only along a transition that
\* was added, from the state it is in; a lambda that runs another transition
\* is what breaks it, because the outer one ends by setting its own target.
\* Targets that were never added with addState are reached all the same
\* (state_machine.hpp:65-88).
MovesFollowTransitions ==
  [][_currentS' # _currentS =>
       \/ _states = {}
       \/ <<_currentS, _currentS'>> \in _transitions
       \/ overtaken]_vars
===============================================================================
