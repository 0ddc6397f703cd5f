----------------------------- MODULE ToolboxProofs ----------------------------
(***************************************************************************)
(* Proofs about the parts of the toolbox, the ring buffer among them, for  *)
(* every value of their constants.  Each part has its inductive invariant. *)
(***************************************************************************)
EXTENDS Toolbox, Integers, SequenceTheorems, WellFoundedInduction, TLAPS

\* What is left of a sequence without its last element, and that element.
LEMMA FrontAndLast ==
  ASSUME NEW S, NEW s \in Seq(S), s # <<>>
  PROVE  LET front == SubSeq(s, 1, Len(s) - 1)
         IN  /\ Len(s) \in Nat \ {0}
             /\ front \in Seq(S) /\ Len(front) = Len(s) - 1
             /\ \A i \in 1..(Len(s) - 1) : front[i] = s[i]
             /\ s[Len(s)] \in S
<1>1. Len(s) \in Nat \ {0} /\ s[Len(s)] \in S
  OBVIOUS
<1>2. Len(s) - 1 \in 0..Len(s)
  BY <1>1
<1>3. /\ SubSeq(s, 1, Len(s) - 1) \in Seq(S) /\ Len(SubSeq(s, 1, Len(s) - 1)) = Len(s) - 1
      /\ \A i \in 1..(Len(s) - 1) : SubSeq(s, 1, Len(s) - 1)[i] = s[i]
  <2> DEFINE n == Len(s) - 1
  <2>1. 1 \in 1..(n + 1) /\ n \in 0..Len(s) /\ n + 1 = Len(s)
    BY <1>1
  <2>2. \A i \in 1..n : i \in 1..Len(s)
    BY <2>1
  <2>3. SubSeq(s, 1, n) = [i \in 1..n |-> s[i]]
    BY <2>1, <1>1
  <2> HIDE DEF n
  <2>4. [i \in 1..n |-> s[i]] \in Seq(S) /\ Len([i \in 1..n |-> s[i]]) = n
    BY <2>1, <2>2
  <2> QED BY <2>3, <2>4 DEF n
<1> QED BY <1>1, <1>3

\* What a sequence becomes with one more element.
LEMMA Appended ==
  ASSUME NEW S, NEW s \in Seq(S), NEW e \in S
  PROVE  /\ Len(s) \in Nat /\ Append(s, e) \in Seq(S)
         /\ Len(Append(s, e)) = Len(s) + 1
         /\ \A i \in 1..Len(s) : Append(s, e)[i] = s[i]
         /\ Append(s, e)[Len(s) + 1] = e
OBVIOUS

(***************************************************************************)
(* Singleton.                                                              *)
(***************************************************************************)
\* As long as instantiate() is called by one thread at a time: who is inside
\* finds no instance and nothing handed out, and what was handed out is the
\* instance that exists.
SingleInv ==
  /\ userPc \in [Users -> {"idle", "construct", "assign"}]
  /\ overlapped \in BOOLEAN
  /\ ~overlapped =>
       /\ held \subseteq {_instance} \ {0}
       /\ \A u \in Users : userPc[u] # "idle" =>
            /\ _instance = 0
            /\ \A v \in Users \ {u} : userPc[v] = "idle"

\* The invariant holds initially and is kept by every step.
LEMMA SingleStep ==
  /\ Single!Init => SingleInv
  /\ SingleInv /\ [Single!Next]_(Single!vars) => SingleInv'
<1>1. Single!Init => SingleInv
  BY DEF Single!Init, SingleInv
<1>2. ASSUME SingleInv, [Single!Next]_(Single!vars) PROVE SingleInv'
  <2> USE <1>2 DEF SingleInv
  <2>1. ASSUME NEW u \in Users, Single!instantiate(u) PROVE SingleInv'
    BY <2>1 DEF Single!instantiate, Single!Enter
  <2>2. ASSUME NEW u \in Users, Single!construct(u) PROVE SingleInv'
    BY <2>2 DEF Single!construct
  <2>3. ASSUME NEW u \in Users, Single!constructThrows(u) PROVE SingleInv'
    BY <2>3 DEF Single!constructThrows
  <2>4. ASSUME NEW u \in Users, Single!assign(u) PROVE SingleInv'
    BY <2>4 DEF Single!assign
  <2>5. CASE Single!instance
    BY <2>5 DEF Single!instance
  <2>6. CASE Single!reset
    BY <2>6 DEF Single!reset
  <2>7. CASE UNCHANGED Single!vars
    BY <2>7 DEF Single!vars
  <2> QED BY <1>2, <2>1, <2>2, <2>3, <2>4, <2>5, <2>6, <2>7 DEF Single!Next
<1> QED BY <1>1, <1>2

\* Pointers handed out by instance() stay valid until reset(), for any set of
\* threads of which no two are in instantiate() at a time.
THEOREM SingletonCorrect == Single!Spec => []OneInstanceHandedOut
<1>1. SingleInv => OneInstanceHandedOut
  BY DEF SingleInv, OneInstanceHandedOut, Single!OneInstanceHandedOut
<1> QED BY <1>1, SingleStep, PTL DEF Single!Spec

-------------------------------------------------------------------------------
(***************************************************************************)
(* LogFile.                                                                *)
(***************************************************************************)
\* As long as no two threads have met in _logFile: between close and open the
\* stream is closed and one thread is at work, and the name and the stream
\* agree whenever nobody is changing them and the last change did not fail.
LogInv ==
  /\ _logFilename \in Names
  /\ logPc \in [LogThreads -> {"idle", "write", "close", "open"}]
  /\ failbit \in BOOLEAN /\ failed \in BOOLEAN
  /\ logRace = "none" =>
       /\ \A t \in LogThreads : logPc[t] = "open" =>
            /\ _logFile = Closed
            /\ \A u \in LogThreads \ {t} : logPc[u] # "open"
       /\ ~failed /\ (\A t \in LogThreads : logPc[t] \in {"idle", "write"})
            => _logFile = _logFilename /\ ~failbit

\* A step on the stream that leaves no race behind was made by a thread that
\* nobody else met there.
LEMMA NoRaceNoMeeting ==
  ASSUME NEW t \in LogThreads, Log!Race(t), logRace' = "none"
  PROVE  logRace = "none"
         /\ \A u \in LogThreads \ {t} : logPc[u] \notin {"write", "close", "open"}
BY DEF Log!Race, Log!Meets

\* The invariant holds initially and is kept by every step.
LEMMA LogStep ==
  /\ Log!Init => LogInv
  /\ LogInv /\ [Log!Next]_(Log!vars) => LogInv'
<1>1. Log!Init => LogInv
  BY DEF Log!Init, LogInv
<1>2. ASSUME LogInv, [Log!Next]_(Log!vars) PROVE LogInv'
  <2> USE <1>2 DEF LogInv, Log!Goto
  <2>1. ASSUME NEW level \in Levels, Log!setLogLevel(level) PROVE LogInv'
    BY <2>1 DEF Log!setLogLevel
  <2>2. ASSUME NEW t \in LogThreads, NEW level \in Levels, Log!log(t, level) PROVE LogInv'
    BY <2>2 DEF Log!log
  <2>3. ASSUME NEW t \in LogThreads, Log!logWrite(t) PROVE LogInv'
    BY <2>3, NoRaceNoMeeting, NamesAssumption DEF Log!logWrite
  <2>4. ASSUME NEW t \in LogThreads, NEW name \in Names, Log!setOutputFile(t, name)
        PROVE  LogInv'
    BY <2>4 DEF Log!setOutputFile
  <2>5. ASSUME NEW t \in LogThreads, NEW before \in BOOLEAN, Log!setOutputFileThrows(t, before)
        PROVE  LogInv'
    BY <2>5 DEF Log!setOutputFileThrows
  <2>6. ASSUME NEW t \in LogThreads, Log!CloseFile(t) PROVE LogInv'
    BY <2>6, NoRaceNoMeeting DEF Log!CloseFile
  <2>7. ASSUME NEW t \in LogThreads, Log!OpenFile(t) PROVE LogInv'
    BY <2>7, NoRaceNoMeeting DEF Log!OpenFile
  <2>8. CASE UNCHANGED Log!vars
    BY <2>8 DEF Log!vars
  <2> QED BY <1>2, <2>1, <2>2, <2>3, <2>4, <2>5, <2>6, <2>7, <2>8 DEF Log!Next
<1> QED BY <1>1, <1>2

\* Whenever no setOutputFile() is under way, log() writes to the file that is
\* named and the stream can write, unless the last change failed or two of any
\* number of threads have met in the stream.
THEOREM LogFileCorrect == Log!Spec => []FileIsNamed
<1>1. LogInv => FileIsNamed
  BY DEF LogInv, FileIsNamed, Log!FileIsNamed
<1> QED BY <1>1, LogStep, PTL DEF Log!Spec

-------------------------------------------------------------------------------
(***************************************************************************)
(* Chronometre.                                                            *)
(***************************************************************************)
Timestamps == [call : {"start", "end"}, number : Nat]

Odd(n) == n % 2 = 1

\* Odd and even numbers take turns.
LEMMA Parity ==
  ASSUME NEW n \in Nat
  PROVE  /\ ~Odd(0) /\ (Odd(n + 1) <=> ~Odd(n)) /\ (n % 2 = 0 <=> ~Odd(n))
         /\ n > 0 => (Odd(n - 1) <=> ~Odd(n))
  BY Z3 DEF Odd

\* While the calls come in pairs so do the timestamps, from the first one on.
Paired(stamps) ==
  \A i \in 1..Len(stamps) :
    /\ Odd(i) => stamps[i].call = "start"
    /\ ~Odd(i) => /\ stamps[i].call = "end"
                  /\ stamps[i].number = stamps[i - 1].number

ChronoInv ==
  /\ _timestamps \in Seq(Timestamps)
  /\ ~misused => Paired(_timestamps)

\* A list is paired as far as it goes.
LEMMA PairedFront ==
  ASSUME NEW s \in Seq(Timestamps), Paired(s), NEW n \in Nat, n <= Len(s)
  PROVE  Paired(SubSeq(s, 1, n))
<1>1. /\ Len(SubSeq(s, 1, n)) = n
      /\ \A i \in 1..n : SubSeq(s, 1, n)[i] = s[i]
  OBVIOUS
<1>2. Odd(1)
  BY DEF Odd
<1> QED BY <1>1, <1>2 DEF Paired

\* An even number of paired timestamps may be followed by a start, an odd
\* number, which ends in a start, by its end.
LEMMA PairedAppend ==
  ASSUME NEW s \in Seq(Timestamps), Paired(s), NEW n \in Nat
  PROVE  /\ ~Odd(Len(s)) => Paired(Append(s, [call |-> "start", number |-> n]))
         /\ Odd(Len(s)) /\ n = s[Len(s)].number
              => Paired(Append(s, [call |-> "end", number |-> n]))
         /\ s # <<>> => (s[Len(s)].call = "start" <=> Odd(Len(s)))
<1> DEFINE A == Append(s, [call |-> "start", number |-> n])
           E == Append(s, [call |-> "end", number |-> n])
<1>1. /\ Len(s) \in Nat /\ Len(A) = Len(s) + 1 /\ Len(E) = Len(s) + 1
      /\ \A i \in 1..Len(s) : A[i] = s[i] /\ E[i] = s[i]
      /\ A[Len(s) + 1] = [call |-> "start", number |-> n]
      /\ E[Len(s) + 1] = [call |-> "end", number |-> n]
  OBVIOUS
<1>0. Odd(1) /\ (Odd(Len(s) + 1) <=> ~Odd(Len(s)))
  BY <1>1, Parity DEF Odd
<1> HIDE DEF A, E
<1>2. ~Odd(Len(s)) => Paired(A)
  <2> SUFFICES ASSUME ~Odd(Len(s)), NEW i \in 1..(Len(s) + 1)
               PROVE  /\ Odd(i) => A[i].call = "start"
                      /\ ~Odd(i) => A[i].call = "end" /\ A[i].number = A[i - 1].number
    BY <1>1 DEF Paired
  <2>1. CASE i = Len(s) + 1
    BY <2>1, <1>0, <1>1
  <2>2. CASE i \in 1..Len(s)
    <3>1. A[i] = s[i] /\ (i = 1 \/ i - 1 \in 1..Len(s))
      BY <1>1, <2>2
    <3>2. ~Odd(i) => A[i - 1] = s[i - 1]
      BY <1>0, <1>1, <3>1
    <3>3. /\ Odd(i) => s[i].call = "start"
          /\ ~Odd(i) => s[i].call = "end" /\ s[i].number = s[i - 1].number
      BY <2>2 DEF Paired
    <3> QED BY <3>1, <3>2, <3>3
  <2> QED BY <2>1, <2>2, <1>1
<1>3. Odd(Len(s)) /\ n = s[Len(s)].number => Paired(E)
  BY <1>1, <1>0 DEF Paired
<1>4. s # <<>> => (s[Len(s)].call = "start" <=> Odd(Len(s)))
  <2>1. s # <<>> => Len(s) \in 1..Len(s)
    OBVIOUS
  <2> QED BY <2>1 DEF Paired
<1> QED BY <1>2, <1>3, <1>4 DEF A, E

\* The invariant holds initially and is kept by every step.
LEMMA ChronoStep ==
  /\ Chrono!Init => ChronoInv
  /\ ChronoInv /\ [Chrono!Next]_(Chrono!vars) => ChronoInv'
<1>1. Chrono!Init => ChronoInv
  BY DEF Chrono!Init, ChronoInv, Paired
<1>2. ASSUME ChronoInv, [Chrono!Next]_(Chrono!vars) PROVE ChronoInv'
  <2> DEFINE s == _timestamps
  <2> SUFFICES /\ s' \in Seq(Timestamps)
               /\ ~misused' => Paired(s')
    BY DEF ChronoInv
  <2>0. /\ s \in Seq(Timestamps) /\ Len(s) \in Nat
        /\ ~misused => Paired(s)
    BY <1>2 DEF ChronoInv
  <2>a. s # <<>> => /\ s[Len(s)] \in Timestamps
                    /\ s[Len(s)].number \in Nat
                    /\ s[Len(s)].call \in {"start", "end"}
    <3>1. s # <<>> => s[Len(s)] \in Timestamps
      BY <2>0
    <3> QED BY <3>1 DEF Timestamps
  <2>b. s = <<>> => ~Odd(Len(s))
    BY Parity
  <2>1. CASE Chrono!start
    <3>1. /\ s' = Append(s, [call |-> "start", number |-> Len(s)])
          /\ ~misused' => ~misused /\ ~(s # <<>> /\ s[Len(s)].call = "start")
      BY <2>1 DEF Chrono!start, Chrono!createTimestamp, Chrono!Running, Chrono!Last
    <3>2. s' \in Seq(Timestamps)
      BY <2>0, <3>1 DEF Timestamps
    <3> QED BY <2>0, <2>a, <2>b, <3>1, <3>2, PairedAppend
  <2>2. CASE Chrono!end
    <3>1. /\ s # <<>> /\ s' = Append(s, [call |-> "end", number |-> s[Len(s)].number])
          /\ ~misused' => ~misused /\ s[Len(s)].call = "start"
      BY <2>2 DEF Chrono!end, Chrono!createTimestamp, Chrono!Running, Chrono!Last
    <3>2. s' \in Seq(Timestamps)
      BY <2>0, <2>a, <3>1 DEF Timestamps
    <3> QED BY <2>0, <2>a, <3>1, <3>2, PairedAppend
  <2>3. CASE Chrono!popLastChrono
    <3>1. Len(s) > 1 /\ s' = SubSeq(s, 1, Len(s) - 2) /\ (~misused' => ~misused)
      BY <2>3 DEF Chrono!popLastChrono
    <3>2. Len(s) - 2 \in Nat /\ Len(s) - 2 <= Len(s) /\ s' \in Seq(Timestamps)
      BY <2>0, <3>1
    <3> QED BY <2>0, <3>1, <3>2, PairedFront
  <2>4. CASE UNCHANGED Chrono!vars
    BY <2>0, <2>4 DEF Chrono!vars
  <2> QED BY <1>2, <2>1, <2>2, <2>3, <2>4 DEF Chrono!Next
<1> QED BY <1>1, <1>2

\* Calls that come in pairs are measured in pairs, whatever was measured and
\* removed before.
THEOREM ChronometreCorrect == Chrono!Spec => []ElapsedIsPaired
<1>1. ASSUME ChronoInv PROVE ElapsedIsPaired
  <2> DEFINE s == _timestamps
  <2> SUFFICES ASSUME ~misused, s # <<>>
               PROVE  /\ ~Odd(Len(s)) <=> s[Len(s)].call # "start"
                      /\ ~Odd(Len(s)) => /\ s[Len(s) - 1].call = "start"
                                         /\ s[Len(s)].call = "end"
                                         /\ s[Len(s) - 1].number = s[Len(s)].number
    <3>1. Len(s) \in Nat
      BY <1>1 DEF ChronoInv
    <3>2. Len(s) % 2 = 0 <=> ~Odd(Len(s))
      BY <3>1, Parity
    <3> HIDE DEF s
    <3> QED BY <3>2 DEF s, ElapsedIsPaired, Chrono!ElapsedIsPaired, Chrono!Available,
                    Chrono!getTime, Chrono!Running, Chrono!Last
  <2>1. Paired(s) /\ s \in Seq(Timestamps)
    BY <1>1 DEF ChronoInv
  <2>2. Len(s) \in 1..Len(s) /\ (~Odd(Len(s)) => Len(s) - 1 \in 1..Len(s) /\ Odd(Len(s) - 1))
    <3>1. Len(s) \in Nat /\ Len(s) > 0
      BY <2>1
    <3>2. ~Odd(Len(s)) => Odd(Len(s) - 1) /\ ~Odd(0)
      BY <3>1, Parity
    <3> QED BY <3>1, <3>2
  <2> QED BY <2>1, <2>2 DEF Paired
<1> QED BY <1>1, ChronoStep, PTL DEF Chrono!Spec

-------------------------------------------------------------------------------
(***************************************************************************)
(* StateMachine.                                                           *)
(***************************************************************************)
Lambdas == [pair : TState \X TState, moves : BOOLEAN]

\* A transition under way is one that was added, and it began in the state the
\* machine is in, unless another one has ended inside it.
MachineInv ==
  /\ _currentS \in TState
  /\ lambdas \in Seq(Lambdas)
  /\ _transitions # {} => _states # {}
  /\ \A i \in 1..Len(lambdas) : lambdas[i].moves =>
       /\ lambdas[i].pair \in _transitions
       /\ lambdas[i].pair[1] = _currentS \/ overtaken

\* What ends is the last lambda; the others stay where they are.
LEMMA LambdaEnds ==
  ASSUME MachineInv, lambdas # <<>>
  PROVE  /\ Len(lambdas) \in Nat /\ Len(lambdas) > 0
         /\ Machine!Front(lambdas) \in Seq(Lambdas)
         /\ Len(Machine!Front(lambdas)) = Len(lambdas) - 1
         /\ \A i \in 1..(Len(lambdas) - 1) : Machine!Front(lambdas)[i] = lambdas[i]
         /\ Machine!Last(lambdas) = lambdas[Len(lambdas)]
         /\ lambdas[Len(lambdas)] \in Lambdas
BY FrontAndLast DEF MachineInv, Machine!Front, Machine!Last

\* The invariant holds initially and is kept by every step.
LEMMA MachineStep ==
  /\ Machine!Init => MachineInv
  /\ MachineInv /\ [Machine!Next]_(Machine!vars) => MachineInv'
<1>1. Machine!Init => MachineInv
  BY DEF Machine!Init, MachineInv
<1>2. ASSUME MachineInv, [Machine!Next]_(Machine!vars) PROVE MachineInv'
  <2> USE <1>2
  <2>1. ASSUME NEW state \in TState, Machine!addState(state) PROVE MachineInv'
    BY <2>1 DEF Machine!addState, MachineInv
  <2>2. ASSUME NEW start \in TState, NEW final \in TState, Machine!addTransition(start, final)
        PROVE  MachineInv'
    BY <2>2 DEF Machine!addTransition, MachineInv
  <2>3. ASSUME NEW state \in TState, Machine!addAction(state) PROVE MachineInv'
    BY <2>3 DEF Machine!addAction, MachineInv
  <2>4. ASSUME NEW state \in TState, Machine!transitionTo(state) PROVE MachineInv'
    <3> DEFINE e == [pair |-> <<_currentS, state>>, moves |-> TRUE]
    <3>1. e \in Lambdas /\ lambdas \in Seq(Lambdas)
      BY DEF MachineInv, Lambdas
    <3>2. lambdas' = Append(lambdas, e)
      BY <2>4 DEF Machine!transitionTo, Machine!Run
    <3>3. /\ lambdas' \in Seq(Lambdas) /\ Len(lambdas') = Len(lambdas) + 1
          /\ Len(lambdas) \in Nat /\ lambdas'[Len(lambdas) + 1] = e
          /\ \A i \in 1..Len(lambdas) : lambdas'[i] = lambdas[i]
      BY <3>1, <3>2, Appended
    <3>4. e.pair \in _transitions /\ e.pair[1] = _currentS
      BY <2>4 DEF Machine!transitionTo
    <3> HIDE DEF e
    <3> QED BY <2>4, <3>3, <3>4 DEF Machine!transitionTo, Machine!Run, MachineInv
  <2>5. CASE Machine!update
    BY <2>5 DEF Machine!update, Machine!Run, MachineInv, Lambdas
  <2>6. CASE Machine!lambdaReturns
    <3> DEFINE ended == lambdas[Len(lambdas)]
    <3>1. /\ lambdas # <<>> /\ lambdas' = Machine!Front(lambdas)
          /\ _currentS' = IF ended.moves THEN ended.pair[2] ELSE _currentS
          /\ UNCHANGED <<_states, _transitions>>
          /\ (\E i \in 1..(Len(lambdas) - 1) : lambdas[i].moves) /\ (overtaken \/ ended.moves)
               => overtaken'
      BY <2>6, LambdaEnds DEF Machine!lambdaReturns, Machine!Outer, Machine!Moving
    <3>2. _currentS' \in TState
      BY <3>1, LambdaEnds DEF MachineInv, Lambdas
    <3> QED BY <3>1, <3>2, LambdaEnds DEF MachineInv
  <2>7. CASE Machine!lambdaThrows
    <3>1. /\ lambdas # <<>> /\ lambdas' = Machine!Front(lambdas)
          /\ UNCHANGED <<_currentS, _states, _transitions>>
          /\ (\E i \in 1..(Len(lambdas) - 1) : lambdas[i].moves) /\ overtaken => overtaken'
      BY <2>7 DEF Machine!lambdaThrows, Machine!Outer, Machine!Moving
    <3> QED BY <3>1, LambdaEnds DEF MachineInv
  <2>8. CASE UNCHANGED Machine!vars
    BY <2>8 DEF Machine!vars, MachineInv
  <2> QED BY <2>1, <2>2, <2>3, <2>4, <2>5, <2>6, <2>7, <2>8 DEF Machine!Next
<1> QED BY <1>1, <1>2

\* Every change of state of a machine that has one follows a transition, unless
\* lambdas have nested transitions.
THEOREM MachineCorrect == Machine!Spec => MovesFollowTransitions
<1> DEFINE Follows ==
      _currentS' # _currentS =>
        _states = {} \/ <<_currentS, _currentS'>> \in _transitions \/ overtaken
<1>1. ASSUME MachineInv, [Machine!Next]_(Machine!vars) PROVE [Follows]_(Machine!vars)
  <2> SUFFICES ASSUME _currentS' # _currentS, _states # {} PROVE Follows
    OBVIOUS
  <2>1. Machine!lambdaReturns
    BY <1>1 DEF Machine!Next, Machine!vars, Machine!addState, Machine!addTransition,
                Machine!addAction, Machine!transitionTo, Machine!update, Machine!Run,
                Machine!lambdaThrows
  <2> DEFINE ended == lambdas[Len(lambdas)]
  <2>2. /\ ended \in Lambdas /\ ended.moves /\ _currentS' = ended.pair[2]
        /\ Len(lambdas) \in 1..Len(lambdas)
    BY <1>1, <2>1, LambdaEnds DEF Machine!lambdaReturns
  <2>3. ended.pair \in _transitions /\ (ended.pair[1] = _currentS \/ overtaken)
    BY <1>1, <2>2 DEF MachineInv
  <2> QED BY <2>2, <2>3 DEF Lambdas
<1> QED BY <1>1, MachineStep, PTL
        DEF Machine!Spec, MovesFollowTransitions, Machine!MovesFollowTransitions

-------------------------------------------------------------------------------
(***************************************************************************)
(* ObservableValue.                                                        *)
(***************************************************************************)
\* Whoever has not been shown the value is still to be reached by one of the
\* loops under way, unless an update() has thrown.
ObservableInv ==
  /\ _subscriber \subseteq Observers
  /\ walks \in Seq(Observers)
  /\ DOMAIN shown = Observers
  /\ ~aborted => \A o \in _subscriber :
       shown[o] = _value \/ \E i \in 1..Len(walks) : walks[i] < o

\* The first observer that is left exists.
LEMMA FirstOne ==
  ASSUME NEW S \in SUBSET Nat, S # {}
  PROVE  /\ Observable!Min(S) \in S
         /\ \A o \in S : Observable!Min(S) <= o
<1>1. PICK x \in S : \A y \in S : ~(<<y, x>> \in OpToRel(<, Nat))
  BY WFMin, NatLessThanWellFounded
<1>2. \A y \in S : x <= y
  <2> SUFFICES ASSUME NEW y \in S, ~(x <= y) PROVE FALSE
    OBVIOUS
  <2>1. y < x /\ <<y, x>> \in Nat \X Nat
    OBVIOUS
  <2>2. <<y, x>> \in OpToRel(<, Nat)
    BY <2>1 DEF OpToRel
  <2> QED BY <1>1, <2>2
<1> QED BY <1>2 DEF Observable!Min

\* Where a loop goes on behind observer o, every subscriber behind o has been
\* shown the value or is still to come.
LEMMA WalkReaches ==
  ASSUME ObservableInv, NEW outer \in Seq(Observers), NEW o \in Nat, NEW value,
         Observable!Walk(outer, o, _subscriber, value)
  PROVE  /\ walks' \in Seq(Observers) /\ DOMAIN shown' = Observers
         /\ \A p \in _subscriber : shown[p] = value => shown'[p] = value
         /\ \A i \in 1..Len(outer) : i \in 1..Len(walks') /\ walks'[i] = outer[i]
         /\ \A p \in _subscriber : p > o =>
              shown'[p] = value \/ \E i \in 1..Len(walks') : walks'[i] < p
<1> DEFINE rest == {p \in _subscriber : p > o}
           first == Observable!Min(rest)
<1>1. /\ walks' = IF rest = {} THEN outer ELSE Append(outer, first)
      /\ shown' = IF rest = {} THEN shown ELSE [shown EXCEPT ![first] = value]
  BY DEF Observable!Walk
<1>2. _subscriber \subseteq Observers /\ Observers \subseteq Nat /\ DOMAIN shown = Observers
  BY ObserversAssumption DEF ObservableInv
<1>3. CASE rest = {}
  BY <1>1, <1>2, <1>3
<1>4. CASE rest # {}
  <2>1. first \in rest /\ \A p \in rest : first <= p
    BY <1>2, <1>4, FirstOne
  <2>2. /\ walks' \in Seq(Observers) /\ Len(outer) \in Nat
        /\ Len(walks') = Len(outer) + 1 /\ walks'[Len(outer) + 1] = first
        /\ \A i \in 1..Len(outer) : walks'[i] = outer[i]
    <3>1. first \in Observers /\ walks' = Append(outer, first)
      BY <1>1, <1>2, <1>4, <2>1
    <3> HIDE DEF first
    <3> QED BY <3>1, Appended
  <2>3. /\ DOMAIN shown' = Observers /\ shown'[first] = value
        /\ \A p \in Observers \ {first} : shown'[p] = shown[p]
    BY <1>1, <1>2, <1>4, <2>1
  <2>4. ASSUME NEW p \in _subscriber, p > o, p # first
        PROVE  \E i \in 1..Len(walks') : walks'[i] < p
    <3>1. first < p
      <4>1. p \in rest /\ p \in Nat /\ first \in Nat
        BY <1>2, <2>1, <2>4
      <4>2. first <= p
        BY <2>1, <4>1
      <4> HIDE DEF first
      <4> QED BY <2>4, <4>1, <4>2
    <3>2. Len(outer) + 1 \in 1..Len(walks')
      BY <2>2
    <3> QED BY <2>2, <3>1, <3>2
  <2> HIDE DEF first, rest
  <2>5. \A p \in _subscriber : shown[p] = value => shown'[p] = value
    BY <1>2, <2>3
  <2>6. \A i \in 1..Len(outer) : i \in 1..Len(walks') /\ walks'[i] = outer[i]
    BY <2>2
  <2> QED BY <2>2, <2>3, <2>4, <2>5, <2>6
<1> QED BY <1>3, <1>4

\* The invariant holds initially and is kept by every step.
LEMMA ObservableStep ==
  /\ Observable!Init => ObservableInv
  /\ ObservableInv /\ [Observable!Next]_(Observable!vars) => ObservableInv'
<1>1. Observable!Init => ObservableInv
  BY DEF Observable!Init, ObservableInv
<1>2. ASSUME ObservableInv, [Observable!Next]_(Observable!vars) PROVE ObservableInv'
  <2> USE <1>2
  <2>0. _subscriber \subseteq Observers /\ Observers \subseteq Nat \ {0} /\ walks \in Seq(Observers)
    BY ObserversAssumption DEF ObservableInv
  <2>1. ASSUME NEW value \in Contents, Observable!set(value) PROVE ObservableInv'
    <3>1. CASE value = _value
      BY <2>1, <3>1 DEF Observable!set, ObservableInv
    <3>2. CASE value # _value
      <4>1. Observable!Walk(walks, 0, _subscriber, value)
        BY <2>1, <3>2 DEF Observable!set
      <4>2. \A p \in _subscriber : p > 0
        BY <2>0
      <4>3. \A p \in _subscriber :
              shown'[p] = value \/ \E i \in 1..Len(walks') : walks'[i] < p
        BY <2>0, <4>1, <4>2, WalkReaches
      <4> QED BY <2>0, <2>1, <4>1, <4>3, WalkReaches DEF Observable!set, ObservableInv
    <3> QED BY <3>1, <3>2
  <2>2. ASSUME NEW o \in Observers, Observable!subscribe(o) PROVE ObservableInv'
    BY <2>2 DEF Observable!subscribe, ObservableInv
  <2>3. ASSUME NEW o \in Observers, Observable!unsubscribe(o) PROVE ObservableInv'
    BY <2>3 DEF Observable!unsubscribe, ObservableInv
  <2>4. CASE Observable!updateReturns
    <3> DEFINE front == SubSeq(walks, 1, Len(walks) - 1)
               last == walks[Len(walks)]
    <3>1. /\ walks # <<>> /\ Observable!Walk(front, last, _subscriber, _value)
          /\ UNCHANGED <<_value, _subscriber, aborted>>
      BY <2>4 DEF Observable!updateReturns, Observable!Front, Observable!Last
    <3>2. /\ front \in Seq(Observers) /\ last \in Nat /\ Len(front) = Len(walks) - 1
          /\ Len(walks) \in Nat \ {0}
          /\ \A i \in 1..(Len(walks) - 1) : front[i] = walks[i]
      BY <2>0, <3>1, FrontAndLast
    <3> HIDE DEF front
    <3>3. /\ walks' \in Seq(Observers) /\ DOMAIN shown' = Observers
          /\ \A p \in _subscriber : shown[p] = _value => shown'[p] = _value
          /\ \A i \in 1..Len(front) : i \in 1..Len(walks') /\ walks'[i] = front[i]
          /\ \A p \in _subscriber : p > last =>
               shown'[p] = _value \/ \E i \in 1..Len(walks') : walks'[i] < p
      BY <3>1, <3>2, WalkReaches
    <3>4. ASSUME ~aborted, NEW p \in _subscriber, shown'[p] # _value
          PROVE  \E i \in 1..Len(walks') : walks'[i] < p
      <4>1. PICK i \in 1..Len(walks) : walks[i] < p
        BY <3>3, <3>4 DEF ObservableInv
      <4>2. CASE i = Len(walks)
        BY <2>0, <3>2, <3>3, <3>4, <4>1, <4>2
      <4>3. CASE i # Len(walks)
        <5>1. i \in 1..(Len(walks) - 1) /\ i \in 1..Len(front)
          BY <3>2, <4>3
        <5> QED BY <3>2, <3>3, <4>1, <5>1
      <4> QED BY <4>2, <4>3
    <3> QED BY <3>1, <3>3, <3>4, <2>0 DEF ObservableInv
  <2>5. CASE Observable!updateThrows
    BY <2>0, <2>5, FrontAndLast DEF Observable!updateThrows, Observable!Front, ObservableInv
  <2>6. CASE UNCHANGED Observable!vars
    BY <2>6 DEF Observable!vars, ObservableInv
  <2> QED BY <2>1, <2>2, <2>3, <2>4, <2>5, <2>6 DEF Observable!Next
<1> QED BY <1>1, <1>2

\* When the notifications are over every subscriber knows the value, for any
\* set of observers and however deep the updates nest.
THEOREM ObservableCorrect == Observable!Spec => []SubscribersAreCurrent
<1>1. ObservableInv => SubscribersAreCurrent
  BY DEF ObservableInv, SubscribersAreCurrent, Observable!SubscribersAreCurrent
<1> QED BY <1>1, ObservableStep, PTL DEF Observable!Spec

-------------------------------------------------------------------------------
(***************************************************************************)
(* Observer.                                                               *)
(***************************************************************************)
Loops(S) == [event : Events, size : Nat, called : Seq(S)]

\* A loop has called a part of the vector it walks through, from the front and
\* no further than the vector went when the loop began.
FollowsVector(loop, vector) ==
  /\ Len(loop.called) <= loop.size /\ loop.size <= Len(vector)
  /\ \A k \in 1..Len(loop.called) : loop.called[k] = vector[k]

\* S stands for the callbacks.
EventBooks(S) ==
  /\ _events \in [Events -> Seq(S)]
  /\ loops \in Seq(Loops(S))
  /\ \A i \in 1..Len(loops) : FollowsVector(loops[i], _events[loops[i].event])

EventInv == \E S : EventBooks(S)

\* A loop goes on along a vector that grows.
LEMMA VectorGrows ==
  ASSUME NEW S, NEW x, NEW loop \in Loops(S), NEW vector \in Seq(S), FollowsVector(loop, vector)
  PROVE  FollowsVector(loop, Append(vector, x))
<1>1. Len(vector) \in Nat /\ Len(Append(vector, x)) = Len(vector) + 1
      /\ \A k \in 1..Len(vector) : Append(vector, x)[k] = vector[k]
  OBVIOUS
<1>2. loop.size \in Nat /\ loop.called \in Seq(S) /\ Len(loop.called) \in Nat
  BY DEF Loops
<1>3. loop.size <= Len(vector) + 1
  BY <1>1, <1>2 DEF FollowsVector
<1>4. \A k \in 1..Len(loop.called) : k \in 1..Len(vector)
  BY <1>1, <1>2 DEF FollowsVector
<1> QED BY <1>1, <1>3, <1>4 DEF FollowsVector

\* What has been called is a prefix of what was there.
LEMMA FollowsPrefix ==
  ASSUME NEW S, NEW loop \in Loops(S), NEW vector \in Seq(S), FollowsVector(loop, vector)
  PROVE  Event!IsPrefix(loop.called, SubSeq(vector, 1, loop.size))
<1> DEFINE c == loop.called
           v == SubSeq(vector, 1, loop.size)
<1>1. /\ loop.size \in Nat /\ c \in Seq(S) /\ Len(c) \in Nat /\ Len(vector) \in Nat
      /\ Len(c) <= loop.size /\ loop.size <= Len(vector)
      /\ \A k \in 1..Len(c) : c[k] = vector[k]
  BY DEF Loops, FollowsVector
<1>2. Len(v) = loop.size /\ \A k \in 1..loop.size : v[k] = vector[k]
  BY <1>1
<1> HIDE DEF c, v
<1>3. SubSeq(c, 1, Len(c)) = [k \in 1..Len(c) |-> c[k]]
  BY <1>1
<1>4. SubSeq(v, 1, Len(c)) = [k \in 1..Len(c) |-> v[k]]
  BY <1>1
<1>5. \A k \in 1..Len(c) : v[k] = c[k]
  <2>1. \A k \in 1..Len(c) : k \in 1..loop.size
    BY <1>1
  <2> QED BY <1>1, <1>2, <2>1
<1> QED BY <1>1, <1>2, <1>3, <1>4, <1>5 DEF Event!IsPrefix, c, v

\* The invariant holds initially and is kept by every step.
LEMMA EventStep ==
  /\ Event!Init => EventInv
  /\ EventInv /\ [Event!Next]_(Event!vars) => EventInv'
<1>1. ASSUME Event!Init PROVE EventInv
  <2>1. EventBooks({})
    BY <1>1 DEF Event!Init, EventBooks
  <2> QED BY <2>1 DEF EventInv
<1>2. ASSUME EventInv, [Event!Next]_(Event!vars) PROVE EventInv'
  <2>0. PICK S : EventBooks(S)
    BY <1>2 DEF EventInv
  <2>a. /\ _events \in [Events -> Seq(S)] /\ loops \in Seq(Loops(S)) /\ Len(loops) \in Nat
        /\ \A i \in 1..Len(loops) : /\ loops[i] \in Loops(S) /\ loops[i].event \in Events
                                    /\ _events[loops[i].event] \in Seq(S)
                                    /\ FollowsVector(loops[i], _events[loops[i].event])
    <3>1. _events \in [Events -> Seq(S)] /\ loops \in Seq(Loops(S)) /\ Len(loops) \in Nat
      BY <2>0 DEF EventBooks
    <3>2. \A i \in 1..Len(loops) : loops[i] \in Loops(S)
      BY <3>1
    <3>3. \A i \in 1..Len(loops) : loops[i].event \in Events
      BY <3>2 DEF Loops
    <3> QED BY <2>0, <3>1, <3>2, <3>3 DEF EventBooks
  <2>1. ASSUME NEW event \in Events, Event!subscribe(event) PROVE EventInv'
    <3>0. PICK x, T : x = Event!Subscribed + 1 /\ T = S \union {x}
      OBVIOUS
    <3>1. _events' = [_events EXCEPT ![event] = Append(@, x)] /\ loops' = loops
      BY <2>1, <3>0 DEF Event!subscribe
    <3>2. \A v \in Seq(S) : v \in Seq(T) /\ Append(v, x) \in Seq(T)
      BY <3>0
    <3>3. _events' \in [Events -> Seq(T)]
      BY <2>a, <3>1, <3>2
    <3>4. Loops(S) \subseteq Loops(T)
      BY <3>2 DEF Loops
    <3>5. loops' \in Seq(Loops(T))
      BY <2>a, <3>1, <3>4
    <3>6. ASSUME NEW i \in 1..Len(loops)
          PROVE  FollowsVector(loops[i], _events'[loops[i].event])
      BY <2>a, <3>1, VectorGrows
    <3>7. EventBooks(T)'
      BY <3>1, <3>3, <3>5, <3>6 DEF EventBooks
    <3> QED BY <3>7 DEF EventInv
  <2>2. ASSUME NEW event \in Events, Event!notify(event) PROVE EventInv'
    <3> DEFINE v == _events[event]
               e == [event |-> event, size |-> Len(v), called |-> <<Head(v)>>]
    <3>1. _events' = _events /\ loops' = IF v = <<>> THEN loops ELSE Append(loops, e)
      BY <2>2 DEF Event!notify
    <3>2. CASE v = <<>>
      BY <2>0, <3>1, <3>2 DEF EventBooks, EventInv
    <3>3. CASE v # <<>>
      <4>1. v \in Seq(S) /\ Len(v) \in Nat /\ Len(v) >= 1 /\ Head(v) \in S /\ Head(v) = v[1]
        BY <2>a, <3>3
      <4>2. /\ e \in Loops(S) /\ e.event = event
            /\ e.called = <<v[1]>> /\ e.size = Len(v)
        BY <4>1 DEF Loops
      <4> HIDE DEF e
      <4>3. FollowsVector(e, v)
        BY <4>1, <4>2 DEF FollowsVector
      <4>4. /\ loops' \in Seq(Loops(S)) /\ Len(loops') = Len(loops) + 1
            /\ \A i \in 1..Len(loops) : loops'[i] = loops[i]
            /\ loops'[Len(loops) + 1] = e
        BY <2>a, <3>1, <3>3, <4>2, Appended
      <4>5. ASSUME NEW i \in 1..(Len(loops) + 1)
            PROVE  FollowsVector(loops'[i], _events[loops'[i].event])
        <5>1. CASE i \in 1..Len(loops)
          BY <2>a, <4>4, <5>1
        <5>2. CASE i = Len(loops) + 1
          BY <4>2, <4>3, <4>4, <5>2
        <5> QED BY <2>a, <5>1, <5>2
      <4>6. EventBooks(S)'
        BY <2>a, <3>1, <4>4, <4>5 DEF EventBooks
      <4> QED BY <4>6 DEF EventInv
    <3> QED BY <3>2, <3>3
  <2>3. ASSUME loops # <<>>, loops' = SubSeq(loops, 1, Len(loops) - 1), _events' = _events
        PROVE  EventInv'
    <3>1. /\ loops' \in Seq(Loops(S)) /\ Len(loops') = Len(loops) - 1
          /\ \A i \in 1..(Len(loops) - 1) : loops'[i] = loops[i] /\ i \in 1..Len(loops)
      BY <2>a, <2>3, FrontAndLast
    <3>2. EventBooks(S)'
      BY <2>a, <2>3, <3>1 DEF EventBooks
    <3> QED BY <3>2 DEF EventInv
  <2>4. CASE Event!callbackThrows
    BY <2>3, <2>4 DEF Event!callbackThrows, Event!Front
  <2>5. CASE Event!callbackReturns
    <3> DEFINE n == Len(loops)
               loop == loops[n]
               next == Len(loop.called) + 1
               v == _events[loop.event]
               e == [loop EXCEPT !.called = Append(@, v[next])]
    <3>1. /\ loops # <<>> /\ _events' = _events
          /\ loops' = IF next > loop.size THEN SubSeq(loops, 1, n - 1)
                      ELSE [loops EXCEPT ![n].called = Append(@, v[next])]
      BY <2>5 DEF Event!callbackReturns, Event!Bound, Event!Last, Event!Front
    <3>2. CASE next > loop.size
      BY <2>3, <3>1, <3>2
    <3>3. CASE ~(next > loop.size)
      <4>1. n \in 1..n /\ loop \in Loops(S) /\ FollowsVector(loop, v) /\ v \in Seq(S)
        BY <2>a, <3>1
      <4>2. loop.called \in Seq(S) /\ next \in Nat /\ loop.size \in Nat /\ Len(v) \in Nat
        BY <4>1 DEF Loops
      <4>3. next \in 1..Len(v) /\ v[next] \in S /\ next <= loop.size /\ loop.size <= Len(v)
        BY <3>3, <4>1, <4>2 DEF FollowsVector
      <4>4. /\ e \in Loops(S) /\ e.event = loop.event /\ e.size = loop.size
            /\ e.called = Append(loop.called, v[next])
        <5>1. Append(loop.called, v[next]) \in Seq(S)
          BY <4>2, <4>3
        <5> HIDE DEF v, next, loop
        <5> QED BY <4>1, <5>1 DEF Loops
      <4>5. loops' = [loops EXCEPT ![n] = e]
        BY <3>1, <3>3
      <4>6. /\ loops' \in Seq(Loops(S)) /\ Len(loops') = n /\ loops'[n] = e
            /\ \A i \in 1..n : i # n => loops'[i] = loops[i]
        <5> HIDE DEF e
        <5> QED BY <2>a, <4>1, <4>4, <4>5
      <4>7. FollowsVector(e, v)
        <5>1. /\ Len(e.called) = next /\ e.called[next] = v[next]
              /\ \A k \in 1..Len(loop.called) : e.called[k] = loop.called[k]
          <6> HIDE DEF e, v, loop
          <6> QED BY <4>2, <4>3, <4>4, Appended
        <5> HIDE DEF e, v, loop
        <5>2. \A k \in 1..next : k = next \/ k \in 1..Len(loop.called)
          BY <4>2
        <5> QED BY <4>1, <4>3, <4>4, <5>1, <5>2 DEF FollowsVector
      <4>8. ASSUME NEW i \in 1..n PROVE FollowsVector(loops'[i], _events[loops'[i].event])
        BY <2>a, <4>4, <4>6, <4>7
      <4>9. EventBooks(S)'
        BY <2>a, <3>1, <4>6, <4>8 DEF EventBooks
      <4> QED BY <4>9 DEF EventInv
    <3> QED BY <3>2, <3>3
  <2>6. CASE UNCHANGED Event!vars
    BY <2>0, <2>6 DEF Event!vars, EventBooks, EventInv
  <2> QED BY <1>2, <2>1, <2>2, <2>4, <2>5, <2>6 DEF Event!Next
<1> QED BY <1>1, <1>2

\* A notification calls only callbacks that were subscribed before it began, in
\* their order, for any events and however deep the notifications nest.
THEOREM ObserverCorrect == Event!Spec => []NewcomersWait
<1>1. ASSUME EventInv PROVE NewcomersWait
  <2>1. PICK S : EventBooks(S)
    BY <1>1 DEF EventInv
  <2>2. loops \in Seq(Loops(S)) /\ DOMAIN loops = 1..Len(loops)
    BY <2>1 DEF EventBooks
  <2>3. \A i \in DOMAIN loops : loops[i] \in Loops(S)
    BY <2>2
  <2>4. \A i \in DOMAIN loops : loops[i].event \in Events
    BY <2>3 DEF Loops
  <2> QED BY <2>1, <2>2, <2>3, <2>4, FollowsPrefix
          DEF EventBooks, NewcomersWait, Event!NewcomersWait
<1> QED BY <1>1, EventStep, PTL DEF Event!Spec

-------------------------------------------------------------------------------
(***************************************************************************)
(* DataBuffer.                                                             *)
(***************************************************************************)
SizeT == 0..(Width - 1)

\* A field is where operator<< has put it: a value in one cell, a string behind
\* its size.
Placed(f, b) ==
  /\ f.kind \in {"value", "string"} /\ f.at \in Nat /\ f.value \in Seq(SizeT)
  /\ f.kind = "value" => f.at + 1 <= Len(b) /\ f.value = <<b[f.at + 1]>>
  /\ f.kind = "string" => /\ f.at + 1 + Len(f.value) <= Len(b)
                          /\ b[f.at + 1] = Len(f.value)
                          /\ \A k \in 1..Len(f.value) : b[f.at + 1 + k] = f.value[k]

ReadBack == \A f \in fields : lastRead.kind = f.kind /\ lastRead.at = f.at
                                => lastRead.ok /\ lastRead.value = f.value

\* Fields stay where they were put, and the cursor is inside the buffer until a
\* string is read where none was written.
BufferInv ==
  /\ bytes \in Seq(SizeT) /\ Len(bytes) <= MaxBytes
  /\ ~wild => _cursor \in 0..Len(bytes)
  /\ \A f \in fields : Placed(f, bytes)
  /\ ReadBack

\* Remainders of the sums that the code takes: below twice the divisor.
LEMMA OneWrap ==
  ASSUME NEW n \in Nat, Width \in Nat, n < 2 * Width
  PROVE  /\ n < Width => n % Width = n
         /\ n >= Width => n % Width = n - Width
<1>1. \A w \in Nat, x \in Nat : x < w => x % w = x
  BY Z3
<1>2. \A w \in Nat, x \in Nat : w <= x /\ x < 2 * w => x % w = x - w
  BY Z3
<1> QED BY <1>1, <1>2

\* What is appended leaves the fields in their places.
LEMMA PlacedGrows ==
  ASSUME NEW b \in Seq(SizeT), NEW c \in Seq(SizeT), NEW f, Placed(f, b)
  PROVE  Placed(f, b \o c)
<1>1. /\ Len(b) \in Nat /\ Len(c) \in Nat /\ Len(b \o c) = Len(b) + Len(c)
      /\ \A i \in 1..Len(b) : (b \o c)[i] = b[i]
  OBVIOUS
<1>2. f.at \in Nat /\ f.value \in Seq(SizeT) /\ Len(f.value) \in Nat
  BY DEF Placed
<1>3. f.kind = "value" => f.at + 1 \in 1..Len(b)
  BY <1>1, <1>2 DEF Placed
<1>4. f.kind = "string" => f.at + 1 \in 1..Len(b) /\ \A k \in 1..Len(f.value) : f.at + 1 + k \in 1..Len(b)
  <2>1. f.kind = "string" => f.at + 1 + Len(f.value) <= Len(b)
    BY DEF Placed
  <2>2. PICK l \in Nat, m \in Nat, a \in Nat : l = Len(f.value) /\ m = Len(b) /\ a = f.at
    BY <1>1, <1>2
  <2>3. a + 1 + l <= m => a + 1 \in 1..m /\ \A k \in 1..l : a + 1 + k \in 1..m
    OBVIOUS
  <2> QED BY <2>1, <2>2, <2>3
<1> HIDE DEF SizeT
<1>5. f.kind = "value" => f.at + 1 <= Len(b \o c) /\ f.value = <<(b \o c)[f.at + 1]>>
  BY <1>1, <1>2, <1>3 DEF Placed
<1>6. f.kind = "string" => /\ f.at + 1 + Len(f.value) <= Len(b \o c)
                           /\ (b \o c)[f.at + 1] = Len(f.value)
                           /\ \A k \in 1..Len(f.value) : (b \o c)[f.at + 1 + k] = f.value[k]
  BY <1>1, <1>2, <1>4 DEF Placed
<1> QED BY <1>5, <1>6 DEF Placed

\* Where the elements of a concatenation are.
LEMMA Concat ==
  ASSUME NEW S, NEW b \in Seq(S), NEW c \in Seq(S)
  PROVE  /\ Len(b \o c) = Len(b) + Len(c)
         /\ \A i \in 1..Len(b) : (b \o c)[i] = b[i]
         /\ \A i \in 1..Len(c) : (b \o c)[Len(b) + i] = c[i]
OBVIOUS

\* operator<< puts a value at the end of the buffer.
LEMMA ValuePlaced ==
  ASSUME NEW b \in Seq(SizeT), NEW cell \in SizeT
  PROVE  Placed([kind |-> "value", at |-> Len(b), value |-> <<cell>>], b \o <<cell>>)
<1>1. Len(b) \in Nat /\ Len(b \o <<cell>>) = Len(b) + 1 /\ (b \o <<cell>>)[Len(b) + 1] = cell
  OBVIOUS
<1> QED BY <1>1 DEF Placed

\* operator<< puts a string at the end of the buffer, behind its size.
LEMMA StringPlaced ==
  ASSUME NEW b \in Seq(SizeT), NEW v \in Seq(SizeT), Len(v) \in SizeT
  PROVE  Placed([kind |-> "string", at |-> Len(b), value |-> v], b \o (<<Len(v)>> \o v))
<1> DEFINE c == <<Len(v)>> \o v
<1>0. Len(b) \in Nat /\ Len(v) \in Nat
  OBVIOUS
<1>a. c \in Seq(SizeT)
  BY <1>0
<1>1. /\ Len(c) = 1 + Len(v) /\ c[1] = Len(v)
      /\ \A k \in 1..Len(v) : c[1 + k] = v[k]
  BY <1>0
<1> HIDE DEF c
<1>2. Len(b \o c) = Len(b) + Len(c) /\ \A i \in 1..Len(c) : (b \o c)[Len(b) + i] = c[i]
  BY <1>a, Concat
<1>3. (b \o c)[Len(b) + 1] = Len(v)
  BY <1>0, <1>1, <1>2
<1>4. ASSUME NEW k \in 1..Len(v) PROVE (b \o c)[Len(b) + 1 + k] = v[k]
  <2>1. 1 + k \in 1..Len(c) /\ Len(b) + (1 + k) = Len(b) + 1 + k
    BY <1>0, <1>1
  <2> QED BY <1>1, <1>2, <2>1
<1>5. Len(b) + 1 + Len(v) <= Len(b \o c)
  BY <1>0, <1>1, <1>2
<1> QED BY <1>0, <1>3, <1>4, <1>5 DEF Placed, c

\* A part of a sequence that agrees with another sequence is that sequence.
LEMMA Slice ==
  ASSUME NEW S, NEW b \in Seq(S), NEW v \in Seq(S), NEW at \in Nat,
         at + Len(v) <= Len(b), \A k \in 1..Len(v) : b[at + k] = v[k]
  PROVE  SubSeq(b, at + 1, at + Len(v)) = v
<1>1. Len(v) \in Nat /\ Len(b) \in Nat /\ v = [k \in 1..Len(v) |-> v[k]]
  OBVIOUS
<1>2. PICK n \in Nat : n = Len(v)
  BY <1>1
<1>3. SubSeq(b, at + 1, at + n) = [k \in 1..(at + n - (at + 1) + 1) |-> b[k + (at + 1) - 1]]
  OBVIOUS
<1>4. at + n - (at + 1) + 1 = n /\ \A k \in 1..n : k + (at + 1) - 1 = at + k
  OBVIOUS
<1>5. SubSeq(b, at + 1, at + n) = [k \in 1..n |-> b[at + k]]
  BY <1>3, <1>4
<1>6. [k \in 1..n |-> b[at + k]] = [k \in 1..n |-> v[k]]
  BY <1>2
<1> QED BY <1>1, <1>2, <1>5, <1>6

\* What is within the buffer is not beyond it, and a sum of a size and a place in
\* the buffer that does not wrap is beyond it only if it is.
LEMMA NotBeyond ==
  ASSUME BufferInv, NEW n \in Nat, n < Width
  PROVE  Buffer!Beyond(n) <=> n > Len(bytes)
BY OneWrap, WidthAssumption DEF Buffer!Beyond, BufferInv

\* A call that reads nothing agrees with every field.
LEMMA NoReadAgrees ==
  ASSUME lastRead' = Buffer!NoRead, \A f \in fields' : Placed(f, bytes')
  PROVE  ReadBack'
<1>1. lastRead'.kind = "none"
  BY DEF Buffer!NoRead
<1>2. \A f \in fields' : f.kind # "none"
  BY DEF Placed
<1> QED BY <1>1, <1>2 DEF ReadBack

\* The invariant holds initially.
LEMMA BufferStarts == Buffer!Init => BufferInv
<1> SUFFICES ASSUME Buffer!Init PROVE BufferInv
  OBVIOUS
<1>1. bytes \in Seq(SizeT) /\ Len(bytes) = 0 /\ _cursor = 0 /\ fields = {}
  BY DEF Buffer!Init
<1> QED BY <1>1, WidthAssumption DEF BufferInv, ReadBack

\* A call that only appends, keeps the fields in their places and reads nothing.
LEMMA BufferAppends ==
  ASSUME BufferInv, ~wild, NEW c \in Seq(SizeT), Len(bytes) + Len(c) <= MaxBytes,
         bytes' = bytes \o c, lastRead' = Buffer!NoRead, UNCHANGED <<_cursor, wild>>,
         \A f \in fields' : f \in fields \/ Placed(f, bytes \o c)
  PROVE  BufferInv'
<1>1. /\ bytes \in Seq(SizeT) /\ Len(bytes) \in Nat /\ _cursor \in 0..Len(bytes)
      /\ \A f \in fields : Placed(f, bytes)
  BY DEF BufferInv
<1>2. /\ bytes' \in Seq(SizeT) /\ Len(bytes') = Len(bytes) + Len(c) /\ Len(c) \in Nat
  BY <1>1
<1>3. \A f \in fields' : Placed(f, bytes')
  BY <1>1, PlacedGrows
<1>4. _cursor' \in 0..Len(bytes')
  BY <1>1, <1>2
<1> QED BY <1>2, <1>3, <1>4, NoReadAgrees DEF BufferInv

\* A call that only moves the cursor.
LEMMA BufferMoves ==
  ASSUME BufferInv, NEW cursor \in 0..Len(bytes), Buffer!Moves(cursor)
  PROVE  BufferInv'
<1>1. bytes' = bytes /\ fields' = fields /\ lastRead' = Buffer!NoRead /\ _cursor' = cursor
  BY DEF Buffer!Moves
<1>2. ReadBack'
  BY <1>1, NoReadAgrees DEF BufferInv
<1> QED BY <1>1, <1>2 DEF BufferInv

\* A read that fails where no field of its kind begins.
LEMMA BufferRefuses ==
  ASSUME BufferInv, NEW kind, NEW cursor, Buffer!Read(kind, FALSE, <<>>, cursor),
         wild' \/ cursor \in 0..Len(bytes),
         \A f \in fields : ~(f.kind = kind /\ f.at = _cursor)
  PROVE  BufferInv'
<1>1. /\ bytes' = bytes /\ fields' = fields /\ _cursor' = cursor
      /\ lastRead'.kind = kind /\ lastRead'.at = _cursor
  BY DEF Buffer!Read
<1>2. ReadBack'
  BY <1>1 DEF ReadBack
<1> QED BY <1>1, <1>2 DEF BufferInv

\* A read that gives back the fields of its kind at the cursor.
LEMMA BufferReads ==
  ASSUME BufferInv, UNCHANGED <<bytes, fields>>, _cursor' \in 0..Len(bytes), lastRead'.ok,
         \A f \in fields : f.kind = lastRead'.kind /\ f.at = lastRead'.at
                             => lastRead'.value = f.value
  PROVE  BufferInv'
<1>1. ReadBack'
  BY DEF ReadBack
<1> QED BY <1>1 DEF BufferInv

\* Reading a string: the three outcomes of the test against the size.
LEMMA StringReads ==
  ASSUME BufferInv, ~wild, Buffer!readString
  PROVE  BufferInv'
<1>0. /\ bytes \in Seq(SizeT) /\ Len(bytes) \in Nat /\ Len(bytes) <= MaxBytes
      /\ _cursor \in 0..Len(bytes) /\ \A f \in fields : Placed(f, bytes)
      /\ Width \in Nat /\ MaxBytes \in Nat /\ MaxBytes + 1 < Width
  BY WidthAssumption DEF BufferInv
<1>a. _cursor \in Nat /\ 1 + _cursor \in Nat /\ 1 + _cursor < Width
  BY <1>0
<1>b. Buffer!Beyond(1 + _cursor) <=> 1 + _cursor > Len(bytes)
  BY <1>a, NotBeyond
<1> DEFINE size == bytes[_cursor + 1]
           begin == _cursor + 1
\* What a string at the cursor makes of the size that is read.
<1>c. ASSUME NEW f \in fields, f.kind = "string", f.at = _cursor
      PROVE  /\ f.value \in Seq(SizeT) /\ Len(f.value) \in Nat
             /\ begin + Len(f.value) <= Len(bytes) /\ size = Len(f.value)
             /\ \A k \in 1..Len(f.value) : bytes[begin + k] = f.value[k]
  <2>1. /\ f.value \in Seq(SizeT) /\ f.at + 1 + Len(f.value) <= Len(bytes)
        /\ bytes[f.at + 1] = Len(f.value)
        /\ \A k \in 1..Len(f.value) : bytes[f.at + 1 + k] = f.value[k]
    BY <1>0, <1>c DEF Placed
  <2> QED BY <1>c, <2>1
<1>1. CASE Buffer!Beyond(1 + _cursor)
  <2>1. Buffer!Read("string", FALSE, <<>>, _cursor) /\ UNCHANGED wild
    BY <1>1 DEF Buffer!readString
  <2>2. \A f \in fields : ~(f.kind = "string" /\ f.at = _cursor)
    <3> SUFFICES ASSUME NEW f \in fields, f.kind = "string", f.at = _cursor PROVE FALSE
      OBVIOUS
    <3>1. Len(f.value) \in Nat /\ begin + Len(f.value) <= Len(bytes)
      BY <1>c
    <3>2. PICK n \in Nat : n = Len(f.value)
      BY <3>1
    <3>3. PICK m \in Nat : m = Len(bytes)
      BY <1>0
    <3>4. _cursor + 1 + n <= m
      BY <3>1, <3>2, <3>3
    <3>5. 1 + _cursor <= Len(bytes)
      BY <1>a, <3>3, <3>4
    <3> QED BY <1>0, <1>1, <1>b, <3>5
  <2> QED BY <1>0, <2>1, <2>2, BufferRefuses
<1>2. CASE ~Buffer!Beyond(1 + _cursor)
  <2>0. /\ begin \in 1..Len(bytes) /\ size \in SizeT /\ size \in Nat /\ size < Width
        /\ size + begin \in Nat /\ size + begin = begin + size
    <3>1. begin \in 1..Len(bytes)
      BY <1>0, <1>2, <1>b
    <3>2. size \in SizeT
      BY <1>0, <3>1
    <3> QED BY <1>0, <3>1, <3>2 DEF SizeT
  <2>a. \/ /\ Buffer!Beyond(size + begin)
           /\ Buffer!Read("string", FALSE, <<>>, begin) /\ UNCHANGED wild
        \/ /\ ~Buffer!Beyond(size + begin) /\ size + begin < Width
           /\ Buffer!Read("string", TRUE, SubSeq(bytes, begin + 1, begin + size), begin + size)
           /\ UNCHANGED wild
        \/ /\ size + begin >= Width
           /\ Buffer!Read("string", FALSE, <<>>, (begin + size) % Width)
           /\ wild' = TRUE
    BY <1>2 DEF Buffer!readString
  <2>b. size + begin < Width => (Buffer!Beyond(size + begin) <=> size + begin > Len(bytes))
    BY <2>0, NotBeyond
  <2>1. CASE Buffer!Beyond(size + begin) /\ Buffer!Read("string", FALSE, <<>>, begin) /\ UNCHANGED wild
    <3>1. \A f \in fields : ~(f.kind = "string" /\ f.at = _cursor)
      <4> SUFFICES ASSUME NEW f \in fields, f.kind = "string", f.at = _cursor PROVE FALSE
        OBVIOUS
      <4>1. size + begin <= Len(bytes)
        BY <1>0, <1>c, <2>0
      <4> HIDE DEF size, begin
      <4> QED BY <1>0, <2>0, <2>b, <2>1, <4>1
    <3>2. begin \in 0..Len(bytes)
      BY <1>0, <2>0
    <3> HIDE DEF begin
    <3> QED BY <2>1, <3>1, <3>2, BufferRefuses
  <2>2. CASE /\ ~Buffer!Beyond(size + begin) /\ size + begin < Width
             /\ Buffer!Read("string", TRUE, SubSeq(bytes, begin + 1, begin + size), begin + size)
             /\ UNCHANGED wild
    <3>1. begin + size \in 0..Len(bytes)
      BY <1>0, <2>0, <2>b, <2>2
    <3>2. ASSUME NEW f \in fields, f.kind = "string", f.at = _cursor
          PROVE  SubSeq(bytes, begin + 1, begin + size) = f.value
      <4>1. /\ f.value \in Seq(SizeT) /\ begin \in Nat /\ begin + Len(f.value) <= Len(bytes)
            /\ size = Len(f.value)
            /\ \A k \in 1..Len(f.value) : bytes[begin + k] = f.value[k]
        BY <1>c, <2>0, <3>2
      <4> HIDE DEF begin, size
      <4> QED BY <1>0, <4>1, Slice
    <3> DEFINE value == SubSeq(bytes, begin + 1, begin + size)
    <3>3. \A f \in fields : f.kind = "string" /\ f.at = _cursor => value = f.value
      BY <3>2
    <3> HIDE DEF begin, size
    <3>4. /\ UNCHANGED <<bytes, fields>> /\ _cursor' = begin + size
          /\ lastRead' = [kind |-> "string", at |-> _cursor, ok |-> TRUE, value |-> value]
      BY <2>2 DEF Buffer!Read
    <3> HIDE DEF value
    <3> QED BY <3>1, <3>3, <3>4, BufferReads
  <2>3. CASE /\ size + begin >= Width
             /\ Buffer!Read("string", FALSE, <<>>, (begin + size) % Width)
             /\ wild' = TRUE
    <3>1. \A f \in fields : ~(f.kind = "string" /\ f.at = _cursor)
      <4> SUFFICES ASSUME NEW f \in fields, f.kind = "string", f.at = _cursor PROVE FALSE
        OBVIOUS
      <4>1. size + begin <= Len(bytes)
        BY <1>0, <1>c, <2>0
      <4> HIDE DEF size, begin
      <4> QED BY <1>0, <2>0, <2>3, <4>1
    <3> HIDE DEF begin, size
    <3> QED BY <2>3, <3>1, BufferRefuses
  <2> QED BY <2>a, <2>1, <2>2, <2>3
<1> QED BY <1>1, <1>2

\* The invariant is kept by every step.
LEMMA BufferStep == BufferInv /\ [Buffer!Next]_(Buffer!vars) => BufferInv'
<1> SUFFICES ASSUME BufferInv, [Buffer!Next]_(Buffer!vars) PROVE BufferInv'
  OBVIOUS
<1>0. CASE UNCHANGED Buffer!vars
  BY <1>0 DEF Buffer!vars, BufferInv, ReadBack
<1> SUFFICES ASSUME Buffer!Next PROVE BufferInv'
  BY <1>0
<1>a. /\ ~wild /\ bytes \in Seq(SizeT) /\ Len(bytes) \in Nat /\ Len(bytes) <= MaxBytes
      /\ _cursor \in 0..Len(bytes) /\ \A f \in fields : Placed(f, bytes)
      /\ Width \in Nat /\ MaxBytes \in Nat /\ MaxBytes + 1 < Width
      /\ Cells \subseteq SizeT /\ Strings \subseteq Seq(SizeT)
  BY WidthAssumption DEF BufferInv, Buffer!Next, SizeT
<1>1. ASSUME NEW cell \in Cells, Buffer!writeValue(cell) PROVE BufferInv'
  <2> DEFINE f == [kind |-> "value", at |-> Len(bytes), value |-> <<cell>>]
             c == <<cell>>
  <2>1. /\ Len(bytes) + Len(c) <= MaxBytes /\ bytes' = bytes \o c
        /\ fields' = fields \union {f} /\ lastRead' = Buffer!NoRead /\ UNCHANGED <<_cursor, wild>>
    BY <1>1 DEF Buffer!writeValue, Buffer!Write
  <2>2. c \in Seq(SizeT) /\ Placed(f, bytes \o c)
    BY <1>a, ValuePlaced
  <2> HIDE DEF c, f
  <2> QED BY <1>a, <2>1, <2>2, BufferAppends
<1>2. ASSUME NEW cell \in Cells, Buffer!append(<<cell>>) PROVE BufferInv'
  <2> DEFINE c == <<cell>>
  <2>1. /\ Len(bytes) + Len(c) <= MaxBytes /\ bytes' = bytes \o c
        /\ fields' = fields /\ lastRead' = Buffer!NoRead /\ UNCHANGED <<_cursor, wild>>
    BY <1>2 DEF Buffer!append
  <2>2. c \in Seq(SizeT)
    BY <1>a
  <2> HIDE DEF c
  <2> QED BY <1>a, <2>1, <2>2, BufferAppends
<1>3. ASSUME NEW string \in Strings, Buffer!writeString(string) PROVE BufferInv'
  <2> DEFINE f == [kind |-> "string", at |-> Len(bytes), value |-> string]
             c == <<Len(string)>> \o string
  <2>1. /\ Len(bytes) + Len(c) <= MaxBytes /\ bytes' = bytes \o c
        /\ fields' = fields \union {f} /\ lastRead' = Buffer!NoRead /\ UNCHANGED <<_cursor, wild>>
    BY <1>3 DEF Buffer!writeString, Buffer!Write
  <2>2. string \in Seq(SizeT) /\ Len(string) \in Nat /\ Len(c) = 1 + Len(string)
    BY <1>a
  <2>3. Len(string) \in SizeT /\ 0 \in SizeT
    BY <1>a, <2>1, <2>2 DEF SizeT
  <2>4. c \in Seq(SizeT)
    BY <2>2, <2>3
  <2>5. Placed(f, bytes \o c)
    BY <1>a, <2>2, <2>3, StringPlaced
  <2> HIDE DEF c, f
  <2> QED BY <1>a, <2>1, <2>4, <2>5, BufferAppends
<1>4. ASSUME NEW amount \in 1..MaxBytes, Buffer!increaseCursor(amount) PROVE BufferInv'
  <2>1. ~Buffer!Beyond(_cursor + amount) /\ Buffer!Moves((_cursor + amount) % Width)
    BY <1>4 DEF Buffer!increaseCursor
  <2>2. _cursor + amount \in Nat /\ _cursor + amount < 2 * Width
    BY <1>a
  <2>3. (_cursor + amount) % Width \in Nat
    BY <1>a, <2>2, OneWrap
  <2>4. (_cursor + amount) % Width \in 0..Len(bytes)
    BY <1>a, <2>1, <2>3 DEF Buffer!Beyond
  <2> QED BY <2>1, <2>4, BufferMoves
<1>5. ASSUME NEW amount \in 1..MaxBytes, Buffer!decreaseCursor(amount) PROVE BufferInv'
  <2>1. _cursor - amount \in 0..Len(bytes) /\ Buffer!Moves(_cursor - amount)
    BY <1>a, <1>5 DEF Buffer!decreaseCursor
  <2> QED BY <2>1, BufferMoves
<1>6. CASE Buffer!reset
  <2>1. 0 \in 0..Len(bytes) /\ Buffer!Moves(0)
    BY <1>a, <1>6 DEF Buffer!reset
  <2> QED BY <2>1, BufferMoves
<1>7. CASE Buffer!clear
  <2>1. /\ bytes' = <<>> /\ _cursor' = 0 /\ fields' = {}
    BY <1>7 DEF Buffer!clear
  <2>2. bytes' \in Seq(SizeT) /\ Len(bytes') = 0
    BY <2>1
  <2> QED BY <1>a, <2>1, <2>2 DEF BufferInv, ReadBack
<1>8. CASE Buffer!readValue
  <2>1. 1 + _cursor \in Nat /\ 1 + _cursor < Width /\ 1 + _cursor = _cursor + 1
    BY <1>a
  <2>2. Buffer!Beyond(1 + _cursor) <=> _cursor + 1 > Len(bytes)
    BY <2>1, NotBeyond
  <2>3. ASSUME NEW f \in fields, f.kind = "value", f.at = _cursor
        PROVE  _cursor + 1 <= Len(bytes) /\ f.value = <<bytes[_cursor + 1]>>
    BY <1>a, <2>3 DEF Placed
  <2>4. CASE Buffer!Beyond(1 + _cursor)
    <3>1. Buffer!Read("value", FALSE, <<>>, _cursor) /\ UNCHANGED wild
      BY <1>8, <2>4 DEF Buffer!readValue
    <3>2. \A f \in fields : ~(f.kind = "value" /\ f.at = _cursor)
      BY <1>a, <2>2, <2>3, <2>4
    <3> QED BY <1>a, <3>1, <3>2, BufferRefuses
  <2>5. CASE ~Buffer!Beyond(1 + _cursor)
    <3>1. Buffer!Read("value", TRUE, <<bytes[_cursor + 1]>>, _cursor + 1) /\ UNCHANGED wild
      BY <1>8, <2>5 DEF Buffer!readValue
    <3>2. _cursor + 1 \in 0..Len(bytes)
      BY <1>a, <2>2, <2>5
    <3> DEFINE value == <<bytes[_cursor + 1]>>
    <3>3. \A f \in fields : f.kind = "value" /\ f.at = _cursor => value = f.value
      BY <2>3
    <3>4. /\ UNCHANGED <<bytes, fields>> /\ _cursor' = _cursor + 1
          /\ lastRead' = [kind |-> "value", at |-> _cursor, ok |-> TRUE, value |-> value]
      BY <3>1 DEF Buffer!Read
    <3> HIDE DEF value
    <3> QED BY <3>2, <3>3, <3>4, BufferReads
  <2> QED BY <2>4, <2>5
<1>9. CASE Buffer!readString
  BY <1>a, <1>9, StringReads
<1> QED BY <1>1, <1>2, <1>3, <1>4, <1>5, <1>6, <1>7, <1>8, <1>9 DEF Buffer!Next

\* Typed reads give back what was written, for every width of size_t, every set
\* of strings and every bound on the buffer, and size() is the length of what is
\* left.
THEOREM DataBufferCorrect == Buffer!Spec => []ReadsBackWhatWasWritten
<1>1. ASSUME BufferInv PROVE ReadsBackWhatWasWritten
  <2>1. ASSUME ~wild PROVE Buffer!size = Len(Buffer!data)
    <3>1. /\ Len(bytes) \in Nat /\ _cursor \in 0..Len(bytes) /\ bytes \in Seq(SizeT)
          /\ Width \in Nat /\ Len(bytes) < Width
      BY <1>1, <2>1, WidthAssumption DEF BufferInv
    <3>2. /\ Len(bytes) + Width - _cursor \in Nat
          /\ Len(bytes) + Width - _cursor >= Width /\ Len(bytes) + Width - _cursor < 2 * Width
      BY <3>1
    <3>3. (Len(bytes) + Width - _cursor) % Width = (Len(bytes) + Width - _cursor) - Width
      BY <3>1, <3>2, OneWrap
    <3>4. Len(SubSeq(bytes, _cursor + 1, Len(bytes))) = Len(bytes) - _cursor
      BY <3>1
    <3> QED BY <3>1, <3>3, <3>4 DEF Buffer!size, Buffer!data
  <2> QED BY <1>1, <2>1 DEF BufferInv, ReadBack, ReadsBackWhatWasWritten,
                            Buffer!ReadsBackWhatWasWritten
<1> QED BY <1>1, BufferStarts, BufferStep, PTL DEF Buffer!Spec

-------------------------------------------------------------------------------
(***************************************************************************)
(* RingBuffer.                                                             *)
(***************************************************************************)
(***************************************************************************)
(* Remainders of the only numbers the code takes them of: below twice the  *)
(* divisor.                                                                *)
(***************************************************************************)
\* A number below the divisor is its own remainder.
LEMMA SmallRemainder ==
  \A c \in Nat, x \in Nat : c > 0 /\ x < c => x % c = x
  BY Z3

\* One wrap takes the divisor off once.
LEMMA WrappedRemainder ==
  \A c \in Nat, x \in Nat : c > 0 /\ c <= x /\ x < 2 * c => x % c = x - c
  BY Z3

\* Where an index comes to stand: it wraps at most once.
LEMMA AdvanceValue ==
  ASSUME NEW i \in Slots \union {0}, NEW n \in 0..Cap
  PROVE  /\ Cap > 0 => Advance(i, n) = IF i + n < Cap THEN i + n ELSE i + n - Cap
         /\ Cap = 0 => Advance(i, n) = 0
<1> USE CapAssumption DEF Slots
<1>1. ASSUME Cap > 0, n # 0, i + n < Cap PROVE Advance(i, n) = i + n
  BY <1>1, SmallRemainder DEF Advance
<1>2. ASSUME Cap > 0, n # 0, ~(i + n < Cap) PROVE Advance(i, n) = i + n - Cap
  <2>1. i + n \in Nat /\ Cap <= i + n /\ i + n < 2 * Cap
    BY <1>2
  <2>2. (i + n) % Cap = i + n - Cap
    BY <1>2, <2>1, WrappedRemainder
  <2> QED BY <1>2, <2>2 DEF Advance
<1>3. ASSUME n = 0 PROVE Advance(i, n) = i
  BY <1>3 DEF Advance
<1> QED BY <1>1, <1>2, <1>3

\* An index that is moved stays an index.
LEMMA AdvanceType ==
  ASSUME NEW i \in Slots \union {0}, NEW n \in 0..Cap
  PROVE  Advance(i, n) \in Slots \union {0}
  BY AdvanceValue, CapAssumption DEF Slots

\* Moving on twice is moving on once by the sum.
LEMMA AdvanceTwice ==
  ASSUME NEW i \in Slots \union {0}, NEW m \in 0..Cap, NEW n \in 0..Cap, m + n <= Cap
  PROVE  Advance(Advance(i, m), n) = Advance(i, m + n)
<1>1. m + n \in 0..Cap
  BY CapAssumption
<1>2. Advance(i, m) \in Slots \union {0}
  BY AdvanceType
<1>3. CASE Cap = 0
  BY <1>1, <1>2, <1>3, AdvanceValue
<1>4. CASE Cap > 0
  <2>1. Advance(i, m) = IF i + m < Cap THEN i + m ELSE i + m - Cap
    BY <1>4, AdvanceValue
  <2>2. Advance(Advance(i, m), n)
          = IF Advance(i, m) + n < Cap THEN Advance(i, m) + n ELSE Advance(i, m) + n - Cap
    BY <1>2, <1>4, AdvanceValue
  <2>3. Advance(i, m + n) = IF i + (m + n) < Cap THEN i + (m + n) ELSE i + (m + n) - Cap
    BY <1>1, <1>4, AdvanceValue
  <2> QED BY <1>4, <2>1, <2>2, <2>3, CapAssumption DEF Slots
<1> QED BY <1>3, <1>4, CapAssumption

\* A request is a sequence of bytes.
LEMMA RequestType ==
  ASSUME NEW bs \in Requests
  PROVE  bs \in Seq(Bytes) /\ Len(bs) \in 0..(Cap + 1) /\ bs \in [1..Len(bs) -> Bytes]
<1>1. PICK n \in 0..(Cap + 1) : bs \in [1..n -> Bytes]
  BY DEF Requests
<1>2. bs \in Seq(Bytes) /\ Len(bs) = n
  BY <1>1, CapAssumption
<1> QED BY <1>1, <1>2

-------------------------------------------------------------------------------
(***************************************************************************)
(* Type correctness and the indices.  IndicesAgree is inductive once the   *)
(* types are known: no other strengthening is needed.                      *)
(***************************************************************************)
\* The two kinds of step that move an index, and what they need.
StoreStep == \E bs \in Requests : Len(bs) <= capacityAvailable /\ Store(bs)
LoadStep == \E n \in 0..Cap : n <= _size /\ Load(n)
LookStep ==
  /\ \/ reply' = Refused
     \/ \E n \in 0.._size : reply' = Stored(n)
  /\ UNCHANGED <<_buffer, _head, _tail, _size>>

\* Every operation is one of four kinds of step.
LEMMA Kinds ==
  ASSUME TypeOK, Next
  PROVE  StoreStep \/ LoadStep \/ LookStep \/ clear
<1> USE DEF TypeOK
<1>1. ASSUME NEW bs \in Requests, push(bs) PROVE StoreStep \/ LookStep
  BY <1>1 DEF push, Refuse, StoreStep, LookStep
<1>2. ASSUME NEW bs \in Requests, pushInto(bs) PROVE StoreStep \/ LookStep
  BY <1>2 DEF pushInto, Refuse, StoreStep, LookStep
<1>3. ASSUME NEW n \in 0..(Cap + 1), pop(n) PROVE LoadStep \/ LookStep
  <2>1. CASE n <= _size /\ Load(n)
    <3>1. n \in 0..Cap
      BY <2>1, CapAssumption
    <3> QED BY <2>1, <3>1 DEF LoadStep
  <2> QED BY <1>3, <2>1 DEF pop, Refuse, LookStep
<1>4. ASSUME NEW n \in 0..(Cap + 1), peek(n) PROVE LookStep
  <2>1. CASE ~isEmpty /\ n <= _size /\ reply' = Stored(n) /\ UNCHANGED <<_buffer, _head, _tail, _size>>
    <3>1. n \in 0.._size
      BY <2>1, CapAssumption
    <3> QED BY <2>1, <3>1 DEF LookStep
  <2> QED BY <1>4, <2>1 DEF peek, Refuse, LookStep
<1> QED BY <1>1, <1>2, <1>3, <1>4 DEF Next

\* The bytes stored are a sequence of bytes of the length asked for.
LEMMA StoredType ==
  ASSUME TypeOK, NEW n \in 0.._size
  PROVE  Stored(n) \in Seq(Bytes) /\ Len(Stored(n)) = n
<1> USE DEF TypeOK
<1>1. n \in Nat /\ n <= Cap
  BY CapAssumption
<1>2. ASSUME NEW k \in 1..n PROVE _buffer[Advance(_tail, k - 1)] \in Bytes
  <2>1. k - 1 \in 0..Cap /\ Cap > 0
    BY <1>1, <1>2, CapAssumption
  <2>2. Advance(_tail, k - 1) \in Slots
    BY <2>1, AdvanceType, CapAssumption DEF Slots
  <2> QED BY <2>2
<1>3. Stored(n) \in [1..n -> Bytes]
  BY <1>2 DEF Stored
<1> QED BY <1>1, <1>3

\* Every step keeps the types of the state.
LEMMA TypeStep == TypeOK /\ [Next]_vars => TypeOK'
<1> SUFFICES ASSUME TypeOK, [Next]_vars PROVE TypeOK'
  OBVIOUS
<1> USE CapAssumption
<1>1. CASE UNCHANGED vars
  BY <1>1 DEF vars, TypeOK
<1>2. CASE StoreStep
  <2>1. PICK bs \in Requests : Len(bs) <= capacityAvailable /\ Store(bs)
    BY <1>2 DEF StoreStep
  <2>2. bs \in [1..Len(bs) -> Bytes] /\ Len(bs) \in 0..Cap /\ _size + Len(bs) <= Cap
    BY <2>1, RequestType DEF capacityAvailable, TypeOK
  <2>3. ASSUME NEW i \in Slots, Offset(i) < Len(bs) PROVE bs[Offset(i) + 1] \in Bytes
    <3>1. Cap > 0 /\ i + Cap - _head \in Nat
      BY DEF Slots, TypeOK
    <3>2. (i + Cap - _head) % Cap \in Nat
      BY <3>1
    <3> QED BY <2>2, <2>3, <3>2 DEF Offset
  <2>4. _buffer' \in [Slots -> Bytes]
    BY <2>1, <2>3 DEF Store, TypeOK
  <2>5. _head' \in Slots \union {0}
    BY <2>1, <2>2, AdvanceType DEF Store, TypeOK
  <2>6. _size' \in 0..Cap
    BY <2>1, <2>2 DEF Store, TypeOK
  <2>7. _tail' = _tail /\ reply' = <<>>
    BY <2>1 DEF Store
  <2> QED BY <2>4, <2>5, <2>6, <2>7 DEF TypeOK
<1>3. CASE LoadStep
  <2>1. PICK n \in 0..Cap : n <= _size /\ Load(n)
    BY <1>3 DEF LoadStep
  <2>2. reply' \in Seq(Bytes)
    BY <2>1, StoredType DEF Load, TypeOK
  <2>3. _tail' \in Slots \union {0}
    BY <2>1, AdvanceType DEF Load, TypeOK
  <2>4. _size' \in 0..Cap
    BY <2>1 DEF Load, TypeOK
  <2> QED BY <2>1, <2>2, <2>3, <2>4 DEF Load, TypeOK
<1>4. CASE LookStep
  BY <1>4, StoredType DEF LookStep, TypeOK
<1>5. CASE clear
  BY <1>5 DEF clear, TypeOK
<1> QED BY <1>1, <1>2, <1>3, <1>4, <1>5, Kinds

\* The indices, the size and the bytes keep their types: no read or write
\* leaves the buffer (ring_buffer.cpp:9-161).
THEOREM RingTypeCorrect == Spec => []TypeOK
<1>1. Init => TypeOK
  BY CapAssumption, BytesAssumption DEF Init, TypeOK, Slots
<1> QED BY <1>1, TypeStep, PTL DEF Spec

\* Every step keeps the write index where the read index and the size put it.
LEMMA IndicesStep == TypeOK /\ IndicesAgree /\ [Next]_vars => IndicesAgree'
<1> SUFFICES ASSUME TypeOK, IndicesAgree, [Next]_vars PROVE IndicesAgree'
  OBVIOUS
<1> USE CapAssumption DEF TypeOK, IndicesAgree
<1>1. CASE UNCHANGED vars
  BY <1>1 DEF vars, Advance
<1>2. CASE StoreStep
  <2>1. PICK bs \in Requests : Len(bs) <= capacityAvailable /\ Store(bs)
    BY <1>2 DEF StoreStep
  <2>2. Len(bs) \in 0..Cap /\ _size + Len(bs) <= Cap
    BY <2>1, RequestType DEF capacityAvailable
  <2>3. Advance(Advance(_tail, _size), Len(bs)) = Advance(_tail, _size + Len(bs))
    BY <2>2, AdvanceTwice
  <2>4. _head' = Advance(_head, Len(bs)) /\ _size' = _size + Len(bs) /\ _tail' = _tail
    BY <2>1 DEF Store
  <2> QED BY <2>3, <2>4 DEF Advance
<1>3. CASE LoadStep
  <2>1. PICK n \in 0..Cap : n <= _size /\ Load(n)
    BY <1>3 DEF LoadStep
  <2>2. PICK r \in 0..Cap : r = _size - n /\ n + r = _size /\ n + r <= Cap
    BY <2>1
  <2>3. Advance(Advance(_tail, n), _size - n) = Advance(_tail, _size)
    <3>1. Advance(Advance(_tail, n), r) = Advance(_tail, n + r)
      BY <2>2, AdvanceTwice
    <3> QED BY <2>2, <3>1, Zenon
  <2>4. _head' = _head /\ _size' = _size - n /\ _tail' = Advance(_tail, n)
    BY <2>1 DEF Load
  <2> QED BY <2>3, <2>4 DEF Advance
<1>4. CASE LookStep
  BY <1>4 DEF LookStep, Advance
<1>5. CASE clear
  BY <1>5 DEF clear, Advance
<1> QED BY <1>1, <1>2, <1>3, <1>4, <1>5, Kinds

\* _head, _tail and _size never drift apart, for any capacity, over any
\* sequence of operations (ring_buffer.cpp:9-161).
THEOREM IndicesCorrect == Spec => []IndicesAgree
<1>1. Init => IndicesAgree
  BY DEF Init, IndicesAgree, Advance
<1> QED BY <1>1, RingTypeCorrect, IndicesStep, PTL DEF Spec

-------------------------------------------------------------------------------
(***************************************************************************)
(* The refinement of BoundedFifo.                                          *)
(***************************************************************************)
\* How far behind _head a slot lies: the slot k places after _tail is before
\* _head by a whole turn if it is in use, and at or after it otherwise.
LEMMA OffsetValue ==
  ASSUME TypeOK, IndicesAgree, Cap > 0, NEW k \in 0..(Cap - 1)
  PROVE  Offset(Advance(_tail, k)) = IF k < _size THEN k - _size + Cap ELSE k - _size
<1> USE CapAssumption DEF TypeOK, Slots
<1>1. Advance(_tail, k) = IF _tail + k < Cap THEN _tail + k ELSE _tail + k - Cap
  BY AdvanceValue
<1>2. _head = IF _tail + _size < Cap THEN _tail + _size ELSE _tail + _size - Cap
  BY AdvanceValue DEF IndicesAgree
<1> DEFINE x == Advance(_tail, k) + Cap - _head
<1>3. x \in Nat /\ x < 2 * Cap
  BY <1>1, <1>2
<1>4. x % Cap = IF x < Cap THEN x ELSE x - Cap
  BY <1>3, SmallRemainder, WrappedRemainder
<1>5. (IF x < Cap THEN x ELSE x - Cap) = IF k < _size THEN k - _size + Cap ELSE k - _size
  BY <1>1, <1>2
<1> QED BY <1>4, <1>5 DEF Offset

\* A concatenation, element by element.
LEMMA ConcatValue ==
  ASSUME NEW S, NEW s \in Seq(S), NEW t \in Seq(S)
  PROVE  s \o t = [k \in 1..(Len(s) + Len(t)) |->
                     IF k <= Len(s) THEN s[k] ELSE t[k - Len(s)]]
<1> DEFINE f == [k \in 1..(Len(s) + Len(t)) |->
                   IF k <= Len(s) THEN s[k] ELSE t[k - Len(s)]]
<1>1. s \o t \in Seq(S) /\ Len(s \o t) = Len(s) + Len(t)
  BY ConcatProperties
<1>2. f \in [1..(Len(s) + Len(t)) -> S]
  OBVIOUS
<1>3. f \in Seq(S) /\ Len(f) = Len(s) + Len(t)
  <2> HIDE DEF f
  <2>1. Len(s) + Len(t) \in Nat
    OBVIOUS
  <2> QED BY <1>2, <2>1
<1>4. \A k \in 1..(Len(s) + Len(t)) : (s \o t)[k] = f[k]
  BY ConcatProperties
<1> HIDE DEF f
<1>5. s \o t = f
  BY <1>1, <1>3, <1>4, SeqEqual
<1> QED BY <1>5 DEF f

\* Storing appends to what is stored and disturbs none of it.
LEMMA StoreAppends ==
  ASSUME TypeOK, IndicesAgree, NEW bs \in Requests,
         Len(bs) <= capacityAvailable, Store(bs)
  PROVE  Stored(_size)' = Stored(_size) \o bs
<1> USE CapAssumption
<1>1. bs \in Seq(Bytes) /\ Len(bs) \in Nat /\ _size + Len(bs) <= Cap /\ _size \in 0..Cap
  BY RequestType DEF capacityAvailable, TypeOK
<1>2. Stored(_size) \in Seq(Bytes) /\ Len(Stored(_size)) = _size
  BY <1>1, StoredType
<1>3. Stored(_size)' = [k \in 1..(_size + Len(bs)) |-> _buffer'[Advance(_tail, k - 1)]]
  BY DEF Store, Stored, Advance
<1>4. ASSUME NEW k \in 1..(_size + Len(bs))
      PROVE  _buffer'[Advance(_tail, k - 1)]
               = IF k <= _size THEN Stored(_size)[k] ELSE bs[k - _size]
  <2>1. Cap > 0 /\ k - 1 \in 0..(Cap - 1) /\ k - 1 \in 0..Cap
    BY <1>1, <1>4
  <2> DEFINE s == Advance(_tail, k - 1)
  <2>2. s \in Slots
    BY <2>1, AdvanceType DEF Slots, TypeOK
  <2>3. Offset(s) = IF k - 1 < _size THEN k - 1 - _size + Cap ELSE k - 1 - _size
    BY <2>1, OffsetValue
  <2>4. _buffer'[s] = IF Offset(s) < Len(bs) THEN bs[Offset(s) + 1] ELSE _buffer[s]
    BY <2>2 DEF Store
  <2>5. CASE k <= _size
    <3>1. ~(Offset(s) < Len(bs))
      BY <1>1, <2>1, <2>3, <2>5
    <3>2. Stored(_size)[k] = _buffer[s]
      BY <1>1, <2>5 DEF Stored
    <3> QED BY <2>4, <2>5, <3>1, <3>2
  <2>6. CASE k > _size
    <3>1. Offset(s) + 1 = k - _size /\ Offset(s) < Len(bs)
      BY <1>1, <1>4, <2>3, <2>6
    <3> QED BY <1>1, <2>4, <2>6, <3>1
  <2> QED BY <1>1, <2>5, <2>6
<1>5. Stored(_size) \o bs
        = [k \in 1..(_size + Len(bs)) |-> IF k <= _size THEN Stored(_size)[k] ELSE bs[k - _size]]
  <2> DEFINE q == Stored(_size)
  <2> HIDE DEF q
  <2>1. q \o bs = [k \in 1..(Len(q) + Len(bs)) |->
                     IF k <= Len(q) THEN q[k] ELSE bs[k - Len(q)]]
    BY <1>1, <1>2, ConcatValue DEF q
  <2>2. Len(q) = _size
    BY <1>2 DEF q
  <2> QED BY <2>1, <2>2 DEF q
<1> QED BY <1>3, <1>4, <1>5

\* The first n bytes stored are the front of all of them.
LEMMA StoredFront ==
  ASSUME TypeOK, NEW n \in 0.._size
  PROVE  Stored(n) = SubSeq(Stored(_size), 1, n)
<1>1. Stored(_size) \in Seq(Bytes) /\ Len(Stored(_size)) = _size /\ n <= _size /\ n \in Nat /\ _size \in Nat
  BY StoredType, CapAssumption DEF TypeOK
<1>2. SubSeq(Stored(_size), 1, n) = [k \in 1..n |-> Stored(_size)[k]]
  BY <1>1
<1>3. \A k \in 1..n : Stored(_size)[k] = _buffer[Advance(_tail, k - 1)]
  BY <1>1 DEF Stored
<1> QED BY <1>2, <1>3 DEF Stored

\* Loading n bytes leaves the rest.
LEMMA LoadLeaves ==
  ASSUME TypeOK, NEW n \in 0.._size, Load(n)
  PROVE  Stored(_size)' = SubSeq(Stored(_size), n + 1, Len(Stored(_size)))
<1> USE CapAssumption
<1>1. Stored(_size) \in Seq(Bytes) /\ Len(Stored(_size)) = _size /\ n <= _size /\ n \in Nat /\ _size \in 0..Cap
  BY StoredType DEF TypeOK
<1>2. Stored(_size)' = [k \in 1..(_size - n) |-> _buffer[Advance(Advance(_tail, n), k - 1)]]
  BY DEF Load, Stored, Advance
<1>3. SubSeq(Stored(_size), n + 1, _size) = [k \in 1..(_size - n) |-> Stored(_size)[n + k]]
  BY <1>1
<1>4. ASSUME NEW k \in 1..(_size - n)
      PROVE  Stored(_size)[n + k] = _buffer[Advance(Advance(_tail, n), k - 1)]
  <2>1. n + k \in 1.._size /\ n \in 0..Cap /\ k - 1 \in 0..Cap /\ n + (k - 1) <= Cap
    BY <1>1
  <2>2. Advance(Advance(_tail, n), k - 1) = Advance(_tail, n + (k - 1))
    BY <2>1, AdvanceTwice DEF TypeOK
  <2>3. n + (k - 1) = (n + k) - 1
    BY <1>1
  <2> QED BY <2>1, <2>2, <2>3 DEF Stored
<1> QED BY <1>1, <1>2, <1>3, <1>4

\* A step of the ring is a step of the queue or invisible.
LEMMA FifoStep ==
  TypeOK /\ IndicesAgree /\ [Next]_vars => [Fifo!Next]_(Fifo!fvars)
<1> SUFFICES ASSUME TypeOK, IndicesAgree, [Next]_vars
             PROVE  Fifo!Next \/ UNCHANGED <<Stored(_size), reply>>
  BY DEF Fifo!fvars
<1> USE CapAssumption
<1>0. Len(Stored(_size)) = _size /\ _size \in 0..Cap
  BY StoredType DEF TypeOK
<1>a. Requests = Fifo!Requests
  BY DEF Requests, Fifo!Requests
<1>b. UNCHANGED <<_buffer, _head, _tail, _size>> => UNCHANGED Stored(_size)
  BY DEF Stored, Advance
<1>1. CASE UNCHANGED vars
  BY <1>1, <1>b DEF vars
<1>2. ASSUME NEW bs \in Requests, push(bs) \/ pushInto(bs) PROVE Fifo!Next
  <2>1. Len(bs) \in Nat
    BY RequestType
  <2>2. CASE Len(bs) <= capacityAvailable /\ Store(bs)
    <3>1. Stored(_size)' = Stored(_size) \o bs
      BY <2>2, StoreAppends
    <3>2. Fifo!Write(bs)
      BY <1>0, <2>1, <2>2, <3>1 DEF Fifo!Write, Store, capacityAvailable
    <3> QED BY <1>2, <1>a, <3>2 DEF Fifo!Next
  <2>3. CASE (isFull \/ Len(bs) > capacityAvailable) /\ Refuse
    <3>1. Fifo!Write(bs)
      BY <1>0, <1>b, <2>1, <2>3 DEF Fifo!Write, Fifo!Refuse, Refuse, isFull, capacityAvailable
    <3> QED BY <1>2, <1>a, <3>1 DEF Fifo!Next
  <2> QED BY <1>2, <2>2, <2>3 DEF push, pushInto
<1>3. ASSUME NEW n \in 0..(Cap + 1), pop(n) PROVE Fifo!Next
  <2>1. CASE n <= _size /\ Load(n)
    <3>1. n \in 0.._size
      BY <1>0, <2>1
    <3>2. Fifo!Read(n)
      BY <1>0, <2>1, <3>1, StoredFront, LoadLeaves DEF Fifo!Read, Load
    <3> QED BY <3>2 DEF Fifo!Next
  <2>2. CASE n > _size /\ Refuse
    <3>1. Fifo!Read(n)
      BY <1>0, <1>b, <2>2 DEF Fifo!Read, Fifo!Refuse, Refuse
    <3> QED BY <3>1 DEF Fifo!Next
  <2> QED BY <1>3, <2>1, <2>2 DEF pop
<1>4. ASSUME NEW n \in 0..(Cap + 1), peek(n) PROVE Fifo!Next
  <2>1. CASE n <= _size /\ reply' = Stored(n) /\ UNCHANGED <<_buffer, _head, _tail, _size>>
    <3>1. n \in 0.._size
      BY <1>0, <2>1
    <3>2. Fifo!Look(n)
      BY <1>0, <1>b, <2>1, <3>1, StoredFront DEF Fifo!Look
    <3> QED BY <3>2 DEF Fifo!Next
  <2>2. CASE (isEmpty \/ n > _size) /\ Refuse
    <3>1. _size = 0 => Stored(_size) = <<>>
      BY DEF Stored
    <3>2. Fifo!Look(n)
      BY <1>0, <1>b, <2>2, <3>1 DEF Fifo!Look, Fifo!Refuse, Refuse, isEmpty
    <3> QED BY <3>2 DEF Fifo!Next
  <2> QED BY <1>4, <2>1, <2>2 DEF peek
<1>5. CASE clear
  <2>1. Stored(_size)' = <<>>
    BY <1>5 DEF clear, Stored
  <2> QED BY <1>5, <2>1 DEF clear, Fifo!Clear, Fifo!Next
<1> QED BY <1>1, <1>2, <1>3, <1>4, <1>5 DEF Next

\* The ring buffer implements the bounded queue for every capacity: bytes come
\* out in the order they went in, and every transfer happens as a whole or is
\* refused with no effect (ring_buffer.cpp:9-161).
THEOREM RingImplementsFifo == Spec => ImplementsFifo
<1>1. Init => Fifo!Init
  BY DEF Init, Fifo!Init, Stored
<1> QED BY <1>1, FifoStep, RingTypeCorrect, IndicesCorrect, PTL DEF Spec, ImplementsFifo, Fifo!Spec
===============================================================================
