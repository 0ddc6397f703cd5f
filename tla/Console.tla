------------------------------- MODULE Console --------------------------------
(***************************************************************************)
(* Output and input of several threads through ThreadSafeIOStream          *)
(* (src/thread/thread_safe_iostream) and Logger::logConsole (src/bonus/    *)
(* logger).  Every thread has its own thread_local stream and all share    *)
(* the logger's _writer; one static mutex guards std::cout and std::cin,   *)
(* and nothing guards a stream's _buffer.                                  *)
(*                                                                         *)
(* A piece of text is the thread that wrote it and NL a newline; prefixes, *)
(* levels and times are formatting and left out.  The statement a thread   *)
(* runs is the list of stream operations that are left of it.              *)
(***************************************************************************)
EXTENDS Naturals, Integers, Sequences, SequencesExt

CONSTANTS Threads, Writer, NL,
          MaxCalls     \* bound on the statements of all threads

ASSUME ConsoleAssumption == MaxCalls \in Nat /\ {Writer, NL} \cap Threads = {}

VARIABLES buffer,      \* _buffer of each stream
          holders,     \* who holds _mutex: one thread or nobody
          inside,      \* the threads in a section that _mutex guards
          todo,        \* the operations that are left of a thread's statement
          out,         \* what the thread has still to write to std::cout
          column,      \* whose text is on the last, unfinished line
          eof,         \* std::cin has ended
          calls,       \* number of statements begun
          owed,        \* history: pieces of text written by a thread, less
                       \* those of them that are on the console
          mixed,       \* history: a line has held text of two threads
          torn,        \* history: _mutex was released on an unfinished line
          race         \* history: two threads have used _writer at a time

vars == <<buffer, holders, inside, todo, out, column, eof, calls, owed, mixed,
          torn, race>>

Streams == Threads \union {Writer}
Op(name, s) == [name |-> name, on |-> s, text |-> <<>>]
Put(text, s) == [name |-> "insert", on |-> s, text |-> text]
HasLine(text) == NL \in ToSet(text)
TextIn(text) == Cardinality({i \in DOMAIN text : text[i] # NL})

Init ==
  /\ buffer = [s \in Streams |-> <<>>]
  /\ holders = {} /\ inside = {}
  /\ todo = [t \in Threads |-> <<>>]
  /\ out = [t \in Threads |-> <<>>]
  /\ column = {}
  /\ calls = 0
  /\ owed = [t \in Threads |-> 0]
  /\ eof = FALSE /\ mixed = FALSE /\ torn = FALSE /\ race = "none"

-------------------------------------------------------------------------------
(***************************************************************************)
(* The statements of the program.  A value is text, a line, or a newline   *)
(* with text after it.  logConsole inserts the pieces of the line one by   *)
(* one (its level and time are one piece here) and ends it with std::endl; *)
(* a message below the level does nothing.                                 *)
(***************************************************************************)
Values(t) == {<<t>>, <<t, NL>>, <<NL, t>>}

Begin(t, ops) ==
  /\ todo[t] = <<>> /\ calls < MaxCalls
  /\ calls' = calls + 1
  /\ todo' = [todo EXCEPT ![t] = ops]
  /\ UNCHANGED <<buffer, holders, inside, out, column, eof, owed, mixed, torn, race>>

write(t) == \E v \in Values(t) : Begin(t, <<Put(v, t)>>)
manipulate(t) == \E name \in {"endl", "flush"} : Begin(t, <<Op(name, t)>>)
read(t) == Begin(t, <<Op("read", t)>>)
prompt(t) == Begin(t, <<Op("ask", t), Op("read", t)>>)
setPrefix(t) == Begin(t, <<Op("prefix", t)>>)
logConsole(t) ==
  \E message \in Values(t) :
    Begin(t, <<Put(<<t>>, Writer), Put(message, Writer), Op("endl", Writer)>>)

-------------------------------------------------------------------------------
(***************************************************************************)
(* operator<<(value), before the lock: the value goes to _buffer, and only *)
(* if it then holds a newline is a copy of it printed.                     *)
(***************************************************************************)
stream(t) == Head(todo[t]).on
Doing(t, name) == todo[t] # <<>> /\ Head(todo[t]).name = name

Buffered(t, content) ==
  /\ buffer' = [buffer EXCEPT ![stream(t)] = content]
  /\ IF HasLine(content)
     THEN /\ todo' = [todo EXCEPT ![t] = <<Op("lines", stream(t))>> \o Tail(@)]
          /\ out' = [out EXCEPT ![t] = content]
     ELSE todo' = [todo EXCEPT ![t] = Tail(@)] /\ UNCHANGED out
  /\ owed' = [owed EXCEPT ![t] = @ + TextIn(Head(todo[t]).text)]
  /\ UNCHANGED <<holders, inside, column, eof, calls, mixed, torn>>

Shared(t) ==
  /\ stream(t) = Writer
  /\ \E u \in Threads \ {t} : todo[u] # <<>> /\ stream(u) = Writer

insert(t) ==
  /\ Doing(t, "insert") /\ ~Shared(t)
  /\ Buffered(t, buffer[stream(t)] \o Head(todo[t]).text)
  /\ UNCHANGED race

\* Two threads inside logConsole use one ostringstream: the piece
\* is appended, overwritten, or the process ends.
insertRaces(t) ==
  /\ Doing(t, "insert") /\ Shared(t)
  /\ \/ Buffered(t, buffer[stream(t)] \o Head(todo[t]).text)
     \/ Buffered(t, buffer[stream(t)])
  /\ race' \in {"survived", "fatal"}

-------------------------------------------------------------------------------
(***************************************************************************)
(* What is done under the mutex.  The statement first waits for it.  The   *)
(* buffer is emptied here: between the lock and the last piece only a race *)
(* on _writer could tell the difference.                                   *)
(***************************************************************************)
Locking == {"lines", "endl", "flush", "ask", "read", "prefix"}

Content(t) ==
  CASE Doing(t, "lines") -> out[t]
    [] Doing(t, "endl") -> Append(buffer[stream(t)], NL)
    [] Doing(t, "flush") -> buffer[stream(t)]
    [] Doing(t, "ask") -> <<t>>
    [] OTHER -> <<>>

\* A plausible slip: operator<<(value) prints its lines and keeps them.
MutantCleared(t) ==
  IF Head(todo[t]).name \in {"endl", "flush"}
  THEN [buffer EXCEPT ![stream(t)] = <<>>]
  ELSE buffer

Cleared(t) ==
  IF Head(todo[t]).name \in {"lines", "endl", "flush"}
  THEN [buffer EXCEPT ![stream(t)] = <<>>]
  ELSE buffer

\* A plausible slip: each stream has a mutex of its own.
MutantMayLock(t) == t \in Threads

MayLock(t) == holders = {}

lock(t) ==
  /\ todo[t] # <<>> /\ Head(todo[t]).name \in Locking
  /\ t \notin inside /\ MayLock(t)
  /\ holders' = holders \union {t} /\ inside' = inside \union {t}
  /\ out' = [out EXCEPT ![t] = Content(t)]
  /\ buffer' = Cleared(t)
  /\ owed' = IF Doing(t, "ask") THEN [owed EXCEPT ![t] = @ + 1] ELSE owed
  /\ UNCHANGED <<todo, column, eof, calls, mixed, torn, race>>

print(t) ==
  /\ t \in inside /\ out[t] # <<>>
  /\ LET p == Head(out[t]) IN
       IF p = NL
       THEN column' = {} /\ UNCHANGED <<mixed, owed>>
       ELSE /\ column' = column \union {p}
            /\ mixed' = (mixed \/ column \ {p} # {})
            /\ owed' = [owed EXCEPT ![p] = @ - 1]
  /\ out' = [out EXCEPT ![t] = Tail(@)]
  /\ UNCHANGED <<buffer, holders, inside, todo, eof, calls, torn, race>>

\* A plausible slip: the question and the reading are under one lock_guard,
\* and operator>> locks again.
MutantReleased(t) == IF Doing(t, "ask") THEN holders ELSE holders \ {t}

Released(t) == holders \ {t}

Leave(t) ==
  /\ t \in inside /\ out[t] = <<>>
  /\ holders' = Released(t) /\ inside' = inside \ {t}
  /\ todo' = [todo EXCEPT ![t] = Tail(@)]
  /\ torn' = (torn \/ column # {})
  /\ UNCHANGED <<buffer, out, column, eof, calls, owed, mixed, race>>

unlock(t) == ~Doing(t, "read") /\ Leave(t)

\* The user types a value; the mutex is held while the program waits for it.
readValue(t) == Doing(t, "read") /\ ~eof /\ Leave(t)

\* The user types something else, or the input ends: the loop complains and
\* tries again.
readInvalid(t) ==
  /\ Doing(t, "read") /\ t \in inside /\ out[t] = <<>>
  /\ out' = [out EXCEPT ![t] = <<t, NL>>]
  /\ owed' = [owed EXCEPT ![t] = @ + 1]
  /\ eof' \in {eof, TRUE}
  /\ UNCHANGED <<buffer, holders, inside, todo, column, calls, mixed, torn, race>>

-------------------------------------------------------------------------------
Call(t) == write(t) \/ manipulate(t) \/ read(t) \/ prompt(t) \/ setPrefix(t) \/ logConsole(t)
Go(t) == insert(t) \/ insertRaces(t) \/ lock(t) \/ print(t) \/ unlock(t)

Next ==
  /\ race # "fatal"
  /\ \E t \in Threads : Call(t) \/ Go(t) \/ readValue(t) \/ readInvalid(t)

\* A thread that is able to go on does, and the user sooner or later types what
\* is asked for; nobody has to begin a statement, and the mutex favours nobody.
Fairness ==
  \A t \in Threads : WF_vars(race # "fatal" /\ Go(t)) /\ SF_vars(race # "fatal" /\ readValue(t))

Spec == Init /\ [][Next]_vars /\ Fairness

-------------------------------------------------------------------------------
\* Threads that end what they write with a newline or std::endl, and do not log
\* to the console at the same time, never share a line of the console, although
\* a line is printed in several pieces (thread_safe_iostream.hpp:73-80, .cpp:
\* 14-16): what breaks it is text left at the end of a line - the rest after
\* the last newline, a flush, a question - or the unguarded _writer.
LinesAreWhole == mixed => torn \/ race # "none"

\* Without a race a thread's text is printed once or is still in the buffer of
\* its stream when its statement is over, no finished line is kept back, and
\* logConsole leaves nothing behind in _writer (thread_safe_iostream.hpp:65-86).
TextIsKept ==
  race = "none" =>
    /\ \A t \in Threads : todo[t] = <<>> =>
         owed[t] = TextIn(buffer[t]) /\ ~HasLine(buffer[t])
    /\ (\A t \in Threads : todo[t] = <<>>) => buffer[Writer] = <<>>

\* Every statement ends, however many threads wait for the mutex that a reader
\* holds while the user types, unless the input has ended: then operator>> never
\* leaves its loop and keeps the mutex (thread_safe_iostream.hpp:42-56, 94-98).
StatementsEnd ==
  \A t \in Threads : todo[t] # <<>> ~> (todo[t] = <<>> \/ eof \/ race = "fatal")
===============================================================================
