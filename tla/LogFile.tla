-------------------------------- MODULE LogFile -------------------------------
(***************************************************************************)
(* The log file of Logger (src/bonus/logger).  log() writes under          *)
(* _fileMutex; setOutputFile and setLogLevel take no lock.  A file is its  *)
(* name; the name made of the current time for "" is one of them.          *)
(***************************************************************************)
EXTENDS Naturals

CONSTANTS LogThreads, Names, Levels,
          Closed       \* _logFile is not open

VARIABLES _logFilename, _currentLevel,
          _logFile,    \* the file that is open, or Closed
          failbit,     \* the stream is in the failed state
          logPc,       \* where a thread is in log() or setOutputFile()
          failed,      \* the last setOutputFile() threw
          logRace      \* history: two threads have used _logFile at a time,
                       \* and whether the process has survived it

vars == <<_logFilename, _currentLevel, _logFile, failbit, logPc, failed, logRace>>

\* The logger has been constructed, by setOutputFile("").
Init ==
  /\ _logFilename \in Names /\ _logFile = _logFilename
  /\ _currentLevel = 0
  /\ failbit = FALSE /\ failed = FALSE /\ logRace = "none"
  /\ logPc = [t \in LogThreads |-> "idle"]

Goto(t, label) == logPc' = [logPc EXCEPT ![t] = label]

\* Somebody else is using _logFile: the step that t takes now is a data race,
\* which has its usual effect or ends the process.
Meets(t) == \E u \in LogThreads \ {t} : logPc[u] \in {"write", "close", "open"}
Race(t) ==
  logRace' \in IF Meets(t) THEN {"survived", "fatal"} ELSE {logRace}

-------------------------------------------------------------------------------
setLogLevel(level) ==
  /\ _currentLevel' = level
  /\ UNCHANGED <<_logFilename, _logFile, failbit, logPc, failed, logRace>>

\* log(): below the level it returns, else it waits for _fileMutex.
log(t, level) ==
  /\ logPc[t] = "idle" /\ level >= _currentLevel
  /\ \A u \in LogThreads : logPc[u] # "write"
  /\ Goto(t, "write")
  /\ UNCHANGED <<_logFilename, _currentLevel, _logFile, failbit, failed, logRace>>

\* Writing to a stream without a file sets its failbit; the line is lost.
logWrite(t) ==
  /\ logPc[t] = "write"
  /\ Race(t)
  /\ failbit' = (failbit \/ _logFile = Closed)
  /\ Goto(t, "idle")
  /\ UNCHANGED <<_logFilename, _currentLevel, _logFile, failed>>

\* setOutputFile(): the name is set before anything that can fail but getcwd.
setOutputFile(t, name) ==
  /\ logPc[t] = "idle"
  /\ _logFilename' = name
  /\ Goto(t, "close")
  /\ UNCHANGED <<_currentLevel, _logFile, failbit, failed, logRace>>

\* getcwd failed (before = TRUE) or the directory is missing and cannot be made.
setOutputFileThrows(t, before) ==
  /\ logPc[t] = IF before THEN "idle" ELSE "close"
  /\ failed' = (failed \/ ~before)
  /\ Goto(t, "idle")
  /\ UNCHANGED <<_logFilename, _currentLevel, _logFile, failbit, logRace>>

\* A plausible slip: the new file is opened over the old one.
MutantCloseFile(t) ==
  /\ logPc[t] = "close"
  /\ Race(t)
  /\ Goto(t, "open")
  /\ UNCHANGED <<_logFilename, _currentLevel, _logFile, failbit, failed>>

CloseFile(t) ==
  /\ logPc[t] = "close"
  /\ Race(t)
  /\ _logFile' = Closed
  /\ Goto(t, "open")
  /\ UNCHANGED <<_logFilename, _currentLevel, failbit, failed>>

\* ofstream::open fails on a stream that is open, which is_open() does not
\* notice, and clears the failed state when it succeeds.
OpenFile(t) ==
  /\ logPc[t] = "open"
  /\ Race(t)
  /\ \/ /\ _logFile = Closed
        /\ _logFile' = _logFilename
        /\ failbit' = FALSE /\ failed' = FALSE
     \/ /\ _logFile = Closed
        /\ failbit' = TRUE /\ failed' = TRUE
        /\ UNCHANGED _logFile
     \/ /\ _logFile # Closed
        /\ failbit' = TRUE /\ failed' = FALSE
        /\ UNCHANGED _logFile
  /\ Goto(t, "idle")
  /\ UNCHANGED <<_logFilename, _currentLevel>>

Next ==
  /\ logRace # "fatal"
  /\ \/ \E level \in Levels : setLogLevel(level)
     \/ \E t \in LogThreads :
          \/ \E level \in Levels : log(t, level)
          \/ \E name \in Names : setOutputFile(t, name)
          \/ \E before \in BOOLEAN : setOutputFileThrows(t, before)
          \/ logWrite(t) \/ CloseFile(t) \/ OpenFile(t)

Spec == Init /\ [][Next]_vars

-------------------------------------------------------------------------------
\* Whenever no setOutputFile() is under way, the file that log() writes to is
\* the one getOutputPathFile() names and the stream is able to write, unless the
\* last setOutputFile() threw half-way or two threads have met in _logFile; a
\* later call that succeeds repairs what a failed one left behind
\* (logger.cpp:43-76, 113-120).
FileIsNamed ==
  (\A t \in LogThreads : logPc[t] \in {"idle", "write"}) /\ ~failed /\ logRace = "none"
    => _logFile = _logFilename /\ ~failbit
===============================================================================
