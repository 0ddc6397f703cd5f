-------------------------------- MODULE Toolbox -------------------------------
(***************************************************************************)
(* The parts of the library that keep to themselves: they share no state   *)
(* and do not call each other.  Each is an instance with variables of its  *)
(* own beside the ring buffer.                                             *)
(***************************************************************************)
EXTENDS RingBuffer

CONSTANTS LogThreads, Names, Levels, Closed,
          Observers, Contents, MaxNesting,
          Events, MaxSubscriptions,
          TState, MaxLambdas, MaxEntries,
          MaxTimestamps,
          Width, Cells, Strings, MaxBytes,
          Layout, Objects,
          Users, MaxObjects

\* The name of no file stands for a file that is closed.
ASSUME NamesAssumption == Closed \notin Names
\* notify() starts before the first observer.
ASSUME ObserversAssumption == Observers \subseteq Nat \ {0}
\* Everything that is written fits a size_t, and a vector is never so large
\* that the place behind its end is not a size_t.
ASSUME WidthAssumption ==
  /\ Width \in Nat /\ MaxBytes \in Nat /\ MaxBytes + 1 < Width
  /\ Cells \subseteq 0..(Width - 1)
  /\ Strings \subseteq Seq(0..(Width - 1))

VARIABLES _logFilename, _currentLevel, _logFile, failbit, logPc, failed, logRace,
          _value, _subscriber, walks, shown, aborted, dangling,
          _events, loops, moved,
          _currentS, _states, _actions, _transitions, lambdas, overtaken, replaced,
          _timestamps, misused,
          bytes, _cursor, fields, lastRead, wild,
          object, snapshot, snapCursor, saved, loaded,
          _instance, made, fresh, userPc, held, overlapped

Log == INSTANCE LogFile
Observable == INSTANCE ObservableValue
Event == INSTANCE Observer
Machine == INSTANCE StateMachine
Chrono == INSTANCE Chronometre
Buffer == INSTANCE DataBuffer
Snap == INSTANCE Memento
Single == INSTANCE Singleton

\* log() writes to the file that is named, see LogFile.
FileIsNamed == Log!FileIsNamed
\* Subscribers know the value after nested notifications, see ObservableValue.
SubscribersAreCurrent == Observable!SubscribersAreCurrent
\* Callbacks subscribed during a notification wait for the next, see Observer.
NewcomersWait == Event!NewcomersWait
\* The machine moves along its transitions, see StateMachine.
MovesFollowTransitions == Machine!MovesFollowTransitions
\* Paired calls measure what they enclose, see Chronometre.
ElapsedIsPaired == Chrono!ElapsedIsPaired
\* Typed reads give back what was written, see DataBuffer.
ReadsBackWhatWasWritten == Buffer!ReadsBackWhatWasWritten
\* A careful load restores what was saved, see Memento.
LoadRestores == Snap!LoadRestores
\* Pointers that were handed out stay valid, see Singleton.
OneInstanceHandedOut == Single!OneInstanceHandedOut
===============================================================================
