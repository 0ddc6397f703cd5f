----------------------------- MODULE ConsoleProofs ----------------------------
(***************************************************************************)
(* Proofs about Console, for any set of threads and any number of          *)
(* statements: lines are whole, and no text is lost or printed twice.      *)
(***************************************************************************)
EXTENDS Console, SequenceTheorems, FiniteSetTheorems, TLAPS

(***************************************************************************)
(* The inductive invariant.  It is claimed until two threads have met in   *)
(* _writer, after which nothing is said.                                   *)
(***************************************************************************)
\* Text that a thread has written itself.
Words(t) == Seq({t, NL})

\* The operations of a statement are all on the thread's own stream, or all on
\* the logger's, and then the last one is std::endl.
OwnOps(t) == [name : Locking \union {"insert"}, on : {t}, text : Words(t)]
LogOps(t) == [name : {"insert", "lines", "endl"}, on : {Writer}, text : Words(t)]
Statement(t, ops) ==
  \/ ops \in Seq(OwnOps(t))
  \/ ops \in Seq(LogOps(t)) /\ ops # <<>> /\ Last(ops).name = "endl"

\* t is inside logConsole.
Logging(t) == todo[t] # <<>> /\ stream(t) = Writer

\* A thread prints and keeps only what it has written.
TextInv ==
  /\ DOMAIN todo = Threads /\ DOMAIN out = Threads /\ DOMAIN buffer = Streams
  /\ \A t \in Threads : Statement(t, todo[t]) /\ out[t] \in Words(t) /\ buffer[t] \in Words(t)

\* One thread at a time is in a section, and only for an operation that locks.
MutexInv ==
  /\ holders = inside /\ inside \subseteq Threads
  /\ \A t, u \in inside : t = u
  /\ \A t \in inside : todo[t] # <<>> /\ Head(todo[t]).name \in Locking

\* The logger's stream is empty when nobody logs and when somebody prints it; a
\* thread that has inserted something, or that logs alone, finds its own text.
WriterInv ==
  /\ (\A t \in Threads : ~Logging(t)) => buffer[Writer] = <<>>
  /\ \A t \in Threads :
       Logging(t) /\ (Head(todo[t]).name # "insert" \/ \A u \in Threads \ {t} : ~Logging(u))
         => buffer[Writer] \in Words(t)
  /\ \A t \in inside : Logging(t) => buffer[Writer] = <<>>

\* The unfinished line belongs to whoever is in the section.
LineInv == torn \/ (~mixed /\ column \subseteq inside)

-------------------------------------------------------------------------------
\* An empty buffer holds nobody's text.
LEMMA NothingIsWords == \A t : <<>> \in Words(t)
BY DEF Words

\* A sequence with nothing behind its head has one element.
LEMMA OnlyElement ==
  ASSUME NEW S, NEW s \in Seq(S), s # <<>>, Tail(s) = <<>>
  PROVE  Head(s) = Last(s)
<1>1. Len(s) \in Nat /\ Head(s) = s[1] /\ Len(Tail(s)) = Len(s) - 1
  BY HeadTailProperties
<1>2. Len(s) = 1
  <2>1. Len(<<>>) = 0
    BY EmptySeq
  <2>2. Len(Tail(s)) = Len(<<>>)
    BY Zenon
  <2>3. Len(s) \in Nat /\ Len(s) - 1 = 0
    BY <1>1, <2>1, <2>2, Zenon
  <2> QED BY <2>3
<1> QED BY <1>1, <1>2 DEF Last

\* The first operation of a statement, and what is left behind it.
LEMMA StatementStep ==
  ASSUME NEW t \in Threads, NEW ops, Statement(t, ops), ops # <<>>
  PROVE  /\ Head(ops).text \in Words(t) /\ Head(ops).on \in {t, Writer}
         /\ Head(ops).on = Writer => Head(ops).name \in {"insert", "lines", "endl"}
         /\ Statement(t, Tail(ops))
         /\ Tail(ops) # <<>> => Head(Tail(ops)).on = Head(ops).on
         /\ Head(ops).on = Writer /\ Head(ops).name = "insert" => Tail(ops) # <<>>
<1>1. CASE ops \in Seq(OwnOps(t))
  <2>1. Head(ops) \in OwnOps(t) /\ Tail(ops) \in Seq(OwnOps(t))
        /\ (Tail(ops) # <<>> => Head(Tail(ops)) \in OwnOps(t))
    BY <1>1
  <2>2. Writer # t
    BY ConsoleAssumption
  <2> QED BY <2>1, <2>2 DEF OwnOps, Statement
<1>2. CASE ops \in Seq(LogOps(t)) /\ Last(ops).name = "endl"
  <2>1. Head(ops) \in LogOps(t) /\ Tail(ops) \in Seq(LogOps(t))
        /\ (Tail(ops) # <<>> => Head(Tail(ops)) \in LogOps(t))
    BY <1>2
  <2>2. Tail(ops) # <<>> => Last(Tail(ops)) = Last(ops)
    BY <1>2 DEF Last
  <2>3. Tail(ops) = <<>> => Head(ops) = Last(ops) /\ Tail(ops) \in Seq(OwnOps(t))
    <3>1. Tail(ops) = <<>> => Head(ops) = Last(ops)
      BY <1>2, OnlyElement
    <3>2. <<>> \in Seq(OwnOps(t))
      OBVIOUS
    <3> QED BY <3>1, <3>2
  <2>4. Statement(t, Tail(ops))
    BY <1>2, <2>1, <2>2, <2>3 DEF Statement
  <2> QED BY <1>2, <2>1, <2>3, <2>4 DEF LogOps
<1> QED BY <1>1, <1>2 DEF Statement

\* The lines that an insertion has finished are printed by the same statement.
LEMMA LinesFirst ==
  ASSUME NEW t \in Threads, NEW ops, Statement(t, ops), ops # <<>>, Head(ops).name = "insert"
  PROVE  Statement(t, <<Op("lines", Head(ops).on)>> \o Tail(ops))
<1> DEFINE e == Op("lines", Head(ops).on)
           s == <<e>> \o Tail(ops)
<1>0. <<>> \in Words(t)
  BY DEF Words
<1>1. CASE ops \in Seq(OwnOps(t))
  <2>1. Tail(ops) \in Seq(OwnOps(t)) /\ Head(ops) \in OwnOps(t)
    BY <1>1
  <2>2. e \in OwnOps(t)
    BY <1>0, <2>1 DEF OwnOps, Op, Locking
  <2> HIDE DEF e
  <2>3. s \in Seq(OwnOps(t))
    BY <2>1, <2>2
  <2>4. Statement(t, s)
    BY <2>3 DEF Statement
  <2> QED BY <2>4 DEF e
<1>2. CASE ops \in Seq(LogOps(t)) /\ Last(ops).name = "endl"
  <2>1. Tail(ops) \in Seq(LogOps(t)) /\ Head(ops) \in LogOps(t)
    BY <1>2
  <2>2. e \in LogOps(t)
    BY <1>0, <2>1 DEF LogOps, Op
  <2>3. Tail(ops) # <<>>
    <3>1. Tail(ops) = <<>> => Head(ops) = Last(ops)
      BY <1>2, OnlyElement
    <3> QED BY <1>2, <3>1
  <2> HIDE DEF e
  <2>4. s \in Seq(LogOps(t)) /\ s # <<>> /\ Last(s) = Last(Tail(ops))
    BY <2>1, <2>2, <2>3 DEF Last
  <2>5. Last(Tail(ops)) = Last(ops)
    BY <1>2, <2>3 DEF Last
  <2> HIDE DEF s
  <2>6. Statement(t, s)
    BY <1>2, <2>4, <2>5 DEF Statement
  <2> QED BY <2>6 DEF e, s
<1> QED BY <1>1, <1>2 DEF Statement

-------------------------------------------------------------------------------
\* A thread begins a statement.
LEMMA BeginStep ==
  ASSUME TextInv, MutexInv, WriterInv, LineInv, NEW t \in Threads, NEW ops,
         Begin(t, ops), Statement(t, ops), ops # <<>>,
         Head(ops).on = Writer => Head(ops).name = "insert"
  PROVE  TextInv' /\ MutexInv' /\ WriterInv' /\ LineInv'
<1>1. /\ todo[t] = <<>> /\ todo' = [todo EXCEPT ![t] = ops]
      /\ UNCHANGED <<buffer, holders, inside, out, column, mixed, torn>>
  BY DEF Begin
<1>2. /\ DOMAIN todo' = Threads /\ todo'[t] = ops
      /\ \A u \in Threads \ {t} : todo'[u] = todo[u]
  BY <1>1 DEF TextInv
<1>3. t \notin inside
  BY <1>1 DEF MutexInv
<1>4. TextInv'
  BY <1>1, <1>2 DEF TextInv
<1>5. MutexInv'
  BY <1>1, <1>2, <1>3 DEF MutexInv
<1>6. /\ ~Logging(t) /\ (Logging(t)' <=> Head(ops).on = Writer)
      /\ \A u \in Threads \ {t} : Logging(u)' <=> Logging(u)
  BY <1>1, <1>2 DEF Logging, stream
<1>7. WriterInv'
  <2>1. ASSUME \A u \in Threads : ~Logging(u)' PROVE buffer[Writer] = <<>>
    BY <1>6, <2>1 DEF WriterInv
  <2>2. ASSUME NEW u \in Threads, Logging(u)',
               \/ Head(todo'[u]).name # "insert"
               \/ \A v \in Threads \ {u} : ~Logging(v)'
        PROVE  buffer[Writer] \in Words(u)
    <3>1. CASE u = t
      <4>1. \A v \in Threads : ~Logging(v)
        BY <1>2, <1>6, <2>2, <3>1
      <4> QED BY <4>1, NothingIsWords DEF WriterInv
    <3>2. CASE u # t
      BY <1>2, <1>6, <2>2, <3>2 DEF WriterInv
    <3> QED BY <3>1, <3>2
  <2>3. ASSUME NEW u \in inside, Logging(u)' PROVE buffer[Writer] = <<>>
    BY <1>3, <1>6, <2>3 DEF WriterInv, MutexInv
  <2> QED BY <1>1, <2>1, <2>2, <2>3 DEF WriterInv
<1>8. LineInv'
  BY <1>1 DEF LineInv
<1> QED BY <1>4, <1>5, <1>7, <1>8

\* The statements of the program are statements.
LEMMA CallStep ==
  ASSUME TextInv, MutexInv, WriterInv, LineInv, NEW t \in Threads, Call(t)
  PROVE  TextInv' /\ MutexInv' /\ WriterInv' /\ LineInv'
<1>0. /\ <<>> \in Words(t) /\ <<t>> \in Words(t) /\ Writer # t
      /\ \A v \in Values(t) : v \in Words(t)
  BY ConsoleAssumption DEF Words, Values
<1>1. \A name \in Locking : Op(name, t) \in OwnOps(t) /\ Op(name, t).on = t
  BY <1>0 DEF OwnOps, Op
<1>2. \A v \in Words(t) : Put(v, t) \in OwnOps(t) /\ Put(v, t).on = t
  BY DEF OwnOps, Put
<1>3. ASSUME NEW e \in OwnOps(t), Begin(t, <<e>>)
      PROVE  TextInv' /\ MutexInv' /\ WriterInv' /\ LineInv'
  <2>1. <<e>> # <<>> /\ Head(<<e>>) = e /\ e.on # Writer /\ <<e>> \in Seq(OwnOps(t))
    BY <1>0, <1>3 DEF OwnOps
  <2> QED BY <1>3, <2>1, BeginStep DEF Statement
<1>4. CASE write(t)
  BY <1>0, <1>2, <1>3, <1>4 DEF write
<1>5. CASE manipulate(t)
  BY <1>1, <1>3, <1>5 DEF manipulate, Locking
<1>6. CASE read(t)
  BY <1>1, <1>3, <1>6 DEF read, Locking
<1>7. CASE setPrefix(t)
  BY <1>1, <1>3, <1>7 DEF setPrefix, Locking
<1>8. CASE prompt(t)
  <2> DEFINE a == Op("ask", t)
             r == Op("read", t)
  <2>1. a \in OwnOps(t) /\ r \in OwnOps(t) /\ a.on # Writer
    BY <1>0, <1>1 DEF Locking
  <2>2. Begin(t, <<a, r>>)
    BY <1>8 DEF prompt
  <2> HIDE DEF a, r
  <2>3. <<a, r>> # <<>> /\ Head(<<a, r>>) = a /\ <<a, r>> \in Seq(OwnOps(t))
    BY <2>1
  <2> QED BY <2>1, <2>2, <2>3, BeginStep DEF Statement
<1>9. CASE logConsole(t)
  <2>1. PICK message \in Values(t) :
          Begin(t, <<Put(<<t>>, Writer), Put(message, Writer), Op("endl", Writer)>>)
    BY <1>9 DEF logConsole
  <2> DEFINE a == Put(<<t>>, Writer)
             b == Put(message, Writer)
             c == Op("endl", Writer)
  <2>2. /\ a \in LogOps(t) /\ b \in LogOps(t) /\ c \in LogOps(t)
        /\ a.name = "insert" /\ c.name = "endl"
    BY <1>0 DEF LogOps, Put, Op
  <2> HIDE DEF a, b, c
  <2>3. /\ <<a, b, c>> # <<>> /\ Head(<<a, b, c>>) = a /\ Last(<<a, b, c>>) = c
        /\ <<a, b, c>> \in Seq(LogOps(t))
    BY <2>2 DEF Last
  <2>4. Begin(t, <<a, b, c>>)
    BY <2>1 DEF a, b, c
  <2>5. Statement(t, <<a, b, c>>)
    BY <2>2, <2>3 DEF Statement
  <2> QED BY <2>2, <2>3, <2>4, <2>5, BeginStep
<1> QED BY <1>4, <1>5, <1>6, <1>7, <1>8, <1>9 DEF Call

\* operator<<(value) puts its piece w into the buffer of a stream s that nobody
\* else is using, and goes on to print the buffer if it now holds a newline.
Inserted(t, s, w, content) ==
  /\ s = stream(t) /\ content = buffer[s] \o w /\ buffer[s] \in Words(t)
  /\ Logging(t) <=> s = Writer
  /\ s = Writer => \A u \in Threads \ {t} : ~Logging(u)
  /\ todo[t] # <<>> /\ Head(todo[t]).name = "insert" /\ t \notin inside
  /\ Statement(t, todo'[t])
  /\ IF HasLine(content) THEN /\ todo'[t] = <<Op("lines", s)>> \o Tail(todo[t])
                              /\ todo'[t] # <<>> /\ Head(todo'[t]) = Op("lines", s)
                              /\ out'[t] = content
                         ELSE todo'[t] = Tail(todo[t]) /\ out'[t] = out[t]
  /\ todo'[t] # <<>> => Head(todo'[t]).on = s
  /\ s = Writer => todo'[t] # <<>>
  /\ DOMAIN todo' = Threads /\ (\A u \in Threads \ {t} : todo'[u] = todo[u])
  /\ DOMAIN out' = Threads /\ (\A u \in Threads \ {t} : out'[u] = out[u])
  /\ DOMAIN buffer' = Streams /\ buffer'[s] = content
  /\ \A r \in Streams \ {s} : buffer'[r] = buffer[r]
  /\ owed' = [owed EXCEPT ![t] = @ + TextIn(w)]
  /\ UNCHANGED <<holders, inside, column, mixed, torn>>

\* Such a stream and such a piece exist for every insertion.
LEMMA Inserting ==
  ASSUME TextInv, MutexInv, WriterInv, NEW t \in Threads, insert(t)
  PROVE  \E s \in {t, Writer}, w \in Words(t), content \in Words(t) : Inserted(t, s, w, content)
<1> DEFINE s == stream(t)
           ops == todo[t]
           w == Head(ops).text
           content == buffer[s] \o w
           rest == IF HasLine(content) THEN <<Op("lines", s)>> \o Tail(ops) ELSE Tail(ops)
<1>1. /\ ops # <<>> /\ Head(ops).name = "insert" /\ ~Shared(t)
      /\ buffer' = [buffer EXCEPT ![s] = content]
      /\ todo' = [todo EXCEPT ![t] = rest]
      /\ out' = IF HasLine(content) THEN [out EXCEPT ![t] = content] ELSE out
      /\ owed' = [owed EXCEPT ![t] = @ + TextIn(w)]
      /\ UNCHANGED <<holders, inside, column, mixed, torn>>
  BY DEF insert, Doing, Buffered
<1>2. /\ Statement(t, ops) /\ s = Head(ops).on /\ Writer \notin Threads
      /\ Logging(t) <=> s = Writer
  BY <1>1, ConsoleAssumption DEF TextInv, stream, Logging
<1>3. s \in {t, Writer} /\ w \in Words(t)
  BY <1>1, <1>2, StatementStep
<1>4. s = Writer => \A u \in Threads \ {t} : ~Logging(u)
  BY <1>1 DEF Shared, Logging
<1>5. buffer[s] \in Words(t)
  BY <1>2, <1>3, <1>4 DEF TextInv, WriterInv
<1>6. content \in Words(t)
  BY <1>3, <1>5 DEF Words
<1>7. /\ Statement(t, rest) /\ (rest # <<>> => Head(rest).on = s)
      /\ s = Writer => rest # <<>>
      /\ HasLine(content) => rest # <<>> /\ Head(rest) = Op("lines", s)
  <2>1. /\ Statement(t, Tail(ops)) /\ (Tail(ops) # <<>> => Head(Tail(ops)).on = s)
        /\ s = Writer => Tail(ops) # <<>>
    BY <1>1, <1>2, StatementStep
  <2>2. /\ Statement(t, <<Op("lines", s)>> \o Tail(ops))
    BY <1>1, <1>2, LinesFirst
  <2>3. /\ <<Op("lines", s)>> \o Tail(ops) # <<>>
        /\ Head(<<Op("lines", s)>> \o Tail(ops)) = Op("lines", s)
    <3>1. PICK S : Tail(ops) \in Seq(S)
      BY <2>1 DEF Statement
    <3> DEFINE e == Op("lines", s)
    <3> HIDE DEF e
    <3>2. <<e>> \in Seq(S \union {e}) /\ Tail(ops) \in Seq(S \union {e})
      BY <3>1
    <3>3. <<e>> \o Tail(ops) # <<>> /\ Head(<<e>> \o Tail(ops)) = e
      BY <3>2
    <3> QED BY <3>3 DEF e
  <2>4. Op("lines", s).on = s
    BY DEF Op
  <2> HIDE DEF s, content
  <2> QED BY <2>1, <2>2, <2>3, <2>4
<1>8. t \notin inside
  BY <1>1 DEF MutexInv, Locking
<1> HIDE DEF s, w, content
<1>9. /\ DOMAIN todo' = Threads /\ todo'[t] = rest /\ (\A u \in Threads \ {t} : todo'[u] = todo[u])
      /\ DOMAIN buffer' = Streams /\ buffer'[s] = content
      /\ \A r \in Streams \ {s} : buffer'[r] = buffer[r]
  <2> HIDE DEF rest
  <2> QED BY <1>1, <1>3 DEF TextInv, Streams
<1>10. /\ DOMAIN out' = Threads /\ (\A u \in Threads \ {t} : out'[u] = out[u])
       /\ IF HasLine(content) THEN out'[t] = content ELSE out'[t] = out[t]
  BY <1>1 DEF TextInv
<1>11. s = stream(t) /\ content = buffer[s] \o w
  BY DEF s, content
<1>12. IF HasLine(content) THEN rest = <<Op("lines", s)>> \o Tail(ops) ELSE rest = Tail(ops)
  OBVIOUS
<1> HIDE DEF rest
<1>13. Inserted(t, s, w, content)
  BY <1>1, <1>2, <1>4, <1>5, <1>7, <1>8, <1>9, <1>10, <1>11, <1>12 DEF Inserted
<1> QED BY <1>3, <1>6, <1>13

\* operator<<(value) keeps the invariant.
LEMMA InsertStep ==
  ASSUME TextInv, MutexInv, WriterInv, LineInv, NEW t \in Threads, insert(t)
  PROVE  TextInv' /\ MutexInv' /\ WriterInv' /\ LineInv'
<1>0. PICK s \in {t, Writer}, w \in Words(t), content \in Words(t) : Inserted(t, s, w, content)
  BY Inserting
<1>1. /\ Logging(t) <=> s = Writer
      /\ s = Writer => \A u \in Threads \ {t} : ~Logging(u)
      /\ t \notin inside
      /\ Statement(t, todo'[t]) /\ out'[t] \in Words(t)
      /\ todo'[t] # <<>> => Head(todo'[t]).on = s
      /\ s = Writer => todo'[t] # <<>>
      /\ DOMAIN todo' = Threads /\ (\A u \in Threads \ {t} : todo'[u] = todo[u])
      /\ DOMAIN out' = Threads /\ (\A u \in Threads \ {t} : out'[u] = out[u])
      /\ DOMAIN buffer' = Streams /\ buffer'[s] = content
      /\ \A r \in Streams \ {s} : buffer'[r] = buffer[r]
      /\ UNCHANGED <<holders, inside, column, mixed, torn>>
  BY <1>0 DEF Inserted, TextInv
<1>2. Writer \notin Threads
  BY ConsoleAssumption
<1>3. TextInv'
  <2>1. ASSUME NEW u \in Threads PROVE Statement(u, todo'[u]) /\ out'[u] \in Words(u)
    BY <1>1 DEF TextInv
  <2>2. ASSUME NEW u \in Threads PROVE buffer'[u] \in Words(u)
    <3>1. CASE u = s
      BY <1>1, <1>2, <3>1
    <3>2. CASE u # s
      BY <1>1, <3>2 DEF TextInv, Streams
    <3> QED BY <3>1, <3>2
  <2> QED BY <1>1, <2>1, <2>2 DEF TextInv
<1>4. MutexInv'
  BY <1>1 DEF MutexInv
<1>5. /\ Logging(t)' <=> s = Writer
      /\ \A u \in Threads \ {t} : Logging(u)' <=> Logging(u)
  <2>1. Logging(t)' <=> todo'[t] # <<>> /\ Head(todo'[t]).on = Writer
    BY DEF Logging, stream
  <2> QED BY <1>1, <2>1 DEF Logging, stream
<1>6. WriterInv'
  <2>1. CASE s = Writer
    BY <1>1, <1>5, <2>1 DEF WriterInv, MutexInv
  <2>2. CASE s # Writer
    <3>1. buffer'[Writer] = buffer[Writer]
      BY <1>1, <2>2 DEF Streams
    <3>2. \A u \in Threads : Logging(u)' <=> Logging(u)
      BY <1>1, <1>5, <2>2
    <3>3. \A u \in Threads : Logging(u) => todo'[u] = todo[u]
      BY <1>1, <2>2
    <3> QED BY <1>1, <3>1, <3>2, <3>3 DEF WriterInv, MutexInv
  <2> QED BY <2>1, <2>2
<1>7. LineInv'
  BY <1>1 DEF LineInv
<1> QED BY <1>3, <1>4, <1>6, <1>7

\* A thread takes the mutex, and with it what it is going to print: all that was
\* in the buffer if the operation prints that.
Locked(t, s, name) ==
  /\ s = stream(t) /\ name = Head(todo[t]).name /\ name \in Locking
  /\ todo[t] # <<>> /\ inside = {} /\ inside' = {t} /\ holders' = {t}
  /\ Logging(t) <=> s = Writer
  /\ s = Writer => name \in {"lines", "endl"}
  /\ buffer[s] \in Words(t)
  /\ DOMAIN out' = Threads /\ out'[t] = Content(t) /\ (\A u \in Threads \ {t} : out'[u] = out[u])
  /\ DOMAIN buffer' = Streams
  /\ buffer'[s] = IF name \in {"lines", "endl", "flush"} THEN <<>> ELSE buffer[s]
  /\ \A r \in Streams \ {s} : buffer'[r] = buffer[r]
  /\ owed' = IF name = "ask" THEN [owed EXCEPT ![t] = @ + 1] ELSE owed
  /\ UNCHANGED <<todo, column, mixed, torn>>

\* So it is for every operation that locks.
LEMMA Locks ==
  ASSUME TextInv, MutexInv, WriterInv, NEW t \in Threads, lock(t)
  PROVE  \E s \in {t, Writer}, name \in Locking : Locked(t, s, name)
<1> DEFINE s == stream(t)
           name == Head(todo[t]).name
<1>1. /\ todo[t] # <<>> /\ name \in Locking /\ t \notin inside /\ holders = {}
      /\ holders' = holders \union {t} /\ inside' = inside \union {t}
      /\ out' = [out EXCEPT ![t] = Content(t)] /\ buffer' = Cleared(t)
      /\ owed' = IF name = "ask" THEN [owed EXCEPT ![t] = @ + 1] ELSE owed
      /\ UNCHANGED <<todo, column, mixed, torn>>
  BY DEF lock, MayLock, Doing
<1>2. inside = {} /\ inside' = {t} /\ holders' = {t}
  BY <1>1 DEF MutexInv
<1>3. /\ Statement(t, todo[t]) /\ s = Head(todo[t]).on /\ Writer \notin Threads
      /\ Logging(t) <=> s = Writer
  BY <1>1, ConsoleAssumption DEF TextInv, stream, Logging
<1>4. s \in {t, Writer} /\ (s = Writer => name \in {"lines", "endl"})
  BY <1>1, <1>3, StatementStep DEF Locking
<1>5. buffer[s] \in Words(t)
  BY <1>1, <1>3, <1>4 DEF TextInv, WriterInv
<1>6. buffer' = IF name \in {"lines", "endl", "flush"} THEN [buffer EXCEPT ![s] = <<>>] ELSE buffer
  BY <1>1 DEF Cleared
<1>7. s = stream(t) /\ name = Head(todo[t]).name
  OBVIOUS
<1> HIDE DEF s, name
<1>8. /\ DOMAIN out' = Threads /\ out'[t] = Content(t) /\ (\A u \in Threads \ {t} : out'[u] = out[u])
      /\ DOMAIN buffer' = Streams
      /\ buffer'[s] = IF name \in {"lines", "endl", "flush"} THEN <<>> ELSE buffer[s]
      /\ \A r \in Streams \ {s} : buffer'[r] = buffer[r]
  BY <1>1, <1>4, <1>6 DEF TextInv, Streams
<1>9. Locked(t, s, name)
  BY <1>1, <1>2, <1>3, <1>4, <1>5, <1>7, <1>8 DEF Locked
<1> QED BY <1>1, <1>4, <1>9

\* Taking the mutex keeps the invariant.
LEMMA LockStep ==
  ASSUME TextInv, MutexInv, WriterInv, LineInv, NEW t \in Threads, lock(t)
  PROVE  TextInv' /\ MutexInv' /\ WriterInv' /\ LineInv'
<1>0. PICK s \in {t, Writer}, name \in Locking : Locked(t, s, name)
  BY Locks
<1>1. /\ todo[t] # <<>> /\ name = Head(todo[t]).name
      /\ inside = {} /\ inside' = {t} /\ holders' = {t}
      /\ Logging(t) <=> s = Writer
      /\ DOMAIN out' = Threads /\ (\A u \in Threads \ {t} : out'[u] = out[u])
      /\ DOMAIN buffer' = Streams
      /\ \A r \in Streams : buffer'[r] = buffer[r] \/ buffer'[r] = <<>>
      /\ s = Writer => buffer'[Writer] = <<>>
      /\ s # Writer => buffer'[Writer] = buffer[Writer]
      /\ UNCHANGED <<todo, column, mixed, torn>>
  BY <1>0 DEF Locked, Streams
<1>2. out'[t] \in Words(t)
  <2>1. /\ <<>> \in Words(t) /\ <<t>> \in Words(t) /\ Append(buffer[s], NL) \in Words(t)
        /\ out[t] \in Words(t) /\ buffer[s] \in Words(t)
    BY <1>0 DEF Words, TextInv, Locked
  <2> QED BY <1>0, <2>1 DEF Locked, Content, Doing
<1>3. TextInv'
  BY <1>1, <1>2, NothingIsWords DEF TextInv, Streams
<1>4. MutexInv'
  BY <1>1 DEF MutexInv
<1>5. \A u \in Threads : Logging(u)' <=> Logging(u)
  BY <1>1 DEF Logging, stream
<1>6. WriterInv'
  <2>1. CASE s = Writer
    BY <1>1, <1>5, <2>1, NothingIsWords DEF WriterInv
  <2>2. CASE s # Writer
    BY <1>1, <1>5, <2>2 DEF WriterInv
  <2> QED BY <2>1, <2>2
<1>7. LineInv'
  BY <1>1 DEF LineInv
<1> QED BY <1>3, <1>4, <1>6, <1>7

\* A piece is printed: it is the thread's own.
LEMMA PrintStep ==
  ASSUME TextInv, MutexInv, WriterInv, LineInv, NEW t \in Threads, print(t)
  PROVE  TextInv' /\ MutexInv' /\ WriterInv' /\ LineInv'
<1>1. /\ t \in inside /\ out[t] # <<>> /\ out' = [out EXCEPT ![t] = Tail(@)]
      /\ UNCHANGED <<buffer, holders, inside, todo, torn>>
  BY DEF print
<1>2. Head(out[t]) \in {t, NL} /\ Tail(out[t]) \in Words(t)
  BY <1>1 DEF TextInv, Words
<1>3. TextInv'
  BY <1>1, <1>2 DEF TextInv
<1>4. MutexInv' /\ WriterInv'
  BY <1>1 DEF MutexInv, WriterInv, Logging, stream
<1>5. LineInv'
  <2> SUFFICES ASSUME ~torn PROVE ~mixed' /\ column' \subseteq inside
    BY <1>1 DEF LineInv
  <2>1. ~mixed /\ column \subseteq {t}
    BY <1>1 DEF LineInv, MutexInv
  <2>2. CASE Head(out[t]) = NL
    BY <2>1, <2>2 DEF print
  <2>3. CASE Head(out[t]) # NL
    BY <1>1, <1>2, <2>1, <2>3 DEF print
  <2> QED BY <2>2, <2>3
<1> QED BY <1>3, <1>4, <1>5

\* The mutex is released.
LEMMA LeaveStep ==
  ASSUME TextInv, MutexInv, WriterInv, LineInv, NEW t \in Threads, Leave(t)
  PROVE  TextInv' /\ MutexInv' /\ WriterInv' /\ LineInv'
<1>1. /\ t \in inside /\ holders' = holders \ {t} /\ inside' = inside \ {t}
      /\ todo' = [todo EXCEPT ![t] = Tail(@)]
      /\ torn' = (torn \/ column # {})
      /\ UNCHANGED <<buffer, out, column, mixed>>
  BY DEF Leave, Released
<1>2. inside' = {} /\ holders' = {} /\ todo[t] # <<>>
  BY <1>1 DEF MutexInv
<1>3. /\ DOMAIN todo' = Threads /\ todo'[t] = Tail(todo[t])
      /\ \A u \in Threads \ {t} : todo'[u] = todo[u]
  BY <1>1 DEF TextInv
<1>4. /\ Statement(t, Tail(todo[t]))
      /\ Tail(todo[t]) # <<>> => Head(Tail(todo[t])).on = stream(t)
  BY <1>2, StatementStep DEF TextInv, stream
<1>5. TextInv'
  BY <1>1, <1>3, <1>4 DEF TextInv
<1>6. MutexInv'
  BY <1>2 DEF MutexInv
<1>7. WriterInv'
  <2>1. CASE Logging(t)
    <3>1. buffer'[Writer] = <<>>
      BY <1>1, <2>1 DEF WriterInv
    <3> QED BY <3>1, NothingIsWords DEF WriterInv
  <2>2. CASE ~Logging(t)
    <3>1. ~Logging(t)'
      BY <1>2, <1>3, <1>4, <2>2 DEF Logging, stream
    <3>2. \A u \in Threads \ {t} : Logging(u)' <=> Logging(u)
      BY <1>3 DEF Logging, stream
    <3> QED BY <1>1, <1>2, <1>3, <2>2, <3>1, <3>2 DEF WriterInv
  <2> QED BY <2>1, <2>2
<1>8. LineInv'
  BY <1>1 DEF LineInv
<1> QED BY <1>5, <1>6, <1>7, <1>8

\* operator>> complains and tries again.
LEMMA InvalidStep ==
  ASSUME TextInv, MutexInv, WriterInv, LineInv, NEW t \in Threads, readInvalid(t)
  PROVE  TextInv' /\ MutexInv' /\ WriterInv' /\ LineInv'
<1>1. /\ out' = [out EXCEPT ![t] = <<t, NL>>]
      /\ UNCHANGED <<buffer, holders, inside, todo, column, mixed, torn>>
  BY DEF readInvalid
<1>2. <<t, NL>> \in Words(t)
  BY DEF Words
<1>3. TextInv'
  BY <1>1, <1>2 DEF TextInv
<1> QED BY <1>1, <1>3 DEF MutexInv, WriterInv, LineInv, Logging, stream

-------------------------------------------------------------------------------
(***************************************************************************)
(* Counting the pieces of a thread in a text.                              *)
(***************************************************************************)
Places(t, w) == {i \in 1..Len(w) : w[i] = t}
Pieces(t, w) == Cardinality(Places(t, w))

\* A text has finitely many pieces.
LEMMA PiecesCount ==
  ASSUME NEW S, NEW w \in Seq(S), NEW t
  PROVE  IsFiniteSet(Places(t, w)) /\ Pieces(t, w) \in Nat
<1>1. Len(w) \in Nat /\ Places(t, w) \in SUBSET (1..Len(w))
  BY DEF Places
<1>2. IsFiniteSet(1..Len(w))
  BY <1>1, FS_Interval
<1>3. IsFiniteSet(Places(t, w))
  BY <1>1, <1>2, FS_Subset
<1> QED BY <1>3, FS_CardinalityType DEF Pieces

\* The pieces of a text that is followed by another.
LEMMA PiecesJoined ==
  ASSUME NEW S, NEW v \in Seq(S), NEW w \in Seq(S), NEW t
  PROVE  Pieces(t, v \o w) = Pieces(t, v) + Pieces(t, w)
<1> DEFINE x == v \o w
           P == Places(t, v)
           Q == {k \in 1..Len(x) : k > Len(v) /\ x[k] = t}
           f == [i \in Places(t, w) |-> Len(v) + i]
<1>1. PICK m \in Nat, n \in Nat : m = Len(v) /\ n = Len(w)
  OBVIOUS
<1>2. /\ Len(x) = m + n
      /\ \A i \in 1..m : x[i] = v[i]
      /\ \A i \in 1..n : x[m + i] = w[i]
  BY <1>1
<1>3. x \in Seq(S)
  OBVIOUS
<1> HIDE DEF x
<1>4. Places(t, x) = P \union Q /\ P \cap Q = {}
  <2>1. \A k \in 1..(m + n) : k \in 1..m \/ k > m
    OBVIOUS
  <2>2. \A k \in 1..m : k \in 1..(m + n) /\ ~(k > m)
    OBVIOUS
  <2> QED BY <1>1, <1>2, <2>1, <2>2 DEF Places
<1>5. f \in Bijection(Places(t, w), Q)
  <2>1. ASSUME NEW i \in Places(t, w) PROVE f[i] \in Q
    <3>1. i \in 1..n /\ w[i] = t /\ f[i] = m + i
      BY <1>1 DEF Places
    <3>2. m + i \in 1..(m + n) /\ m + i > m
      BY <3>1
    <3> QED BY <1>1, <1>2, <3>1, <3>2
  <2>2. ASSUME NEW i \in Places(t, w), NEW j \in Places(t, w), f[i] = f[j] PROVE i = j
    <3>1. i \in 1..n /\ j \in 1..n /\ m + i = m + j
      BY <1>1, <2>2 DEF Places
    <3> QED BY <3>1
  <2>3. ASSUME NEW k \in Q PROVE \E i \in Places(t, w) : f[i] = k
    <3>1. k \in 1..(m + n) /\ k > m /\ x[k] = t
      BY <1>1, <1>2
    <3>2. k - m \in 1..n /\ m + (k - m) = k
      BY <3>1
    <3>3. k - m \in Places(t, w)
      BY <1>1, <1>2, <3>1, <3>2 DEF Places
    <3> QED BY <1>1, <3>2, <3>3
  <2>4. f \in [Places(t, w) -> Q]
    BY <2>1
  <2>5. \A i, j \in Places(t, w) : f[i] = f[j] => i = j
    BY <2>2
  <2> HIDE DEF f, Q
  <2>6. DOMAIN f = Places(t, w)
    BY <2>4
  <2> QED BY <2>3, <2>4, <2>5, <2>6 DEF Bijection, Injection, Surjection, IsInjective
<1>6. IsFiniteSet(P) /\ Pieces(t, v) \in Nat /\ IsFiniteSet(Places(t, w)) /\ Pieces(t, w) \in Nat
  BY PiecesCount
<1>7. IsFiniteSet(Q) /\ Cardinality(Q) = Pieces(t, w)
  BY <1>5, <1>6, FS_Bijection DEF Pieces, ExistsBijection
<1>8. Cardinality(P \union Q) = Cardinality(P) + Cardinality(Q) - Cardinality(P \cap Q)
  BY <1>6, <1>7, FS_Union
<1>9. Cardinality(P \cap Q) = 0
  BY <1>4, FS_EmptySet
<1> HIDE DEF Q, P
<1>10. Cardinality(P) = Pieces(t, v)
  BY DEF Pieces, P
<1>11. Pieces(t, x) = Pieces(t, v) + Pieces(t, w)
  BY <1>4, <1>6, <1>7, <1>8, <1>9, <1>10 DEF Pieces
<1> QED BY <1>11 DEF x

\* The pieces of a text that is empty, of one piece, or a line.
LEMMA PiecesOfOne ==
  /\ \A t : Pieces(t, <<>>) = 0
  /\ \A t : Pieces(t, <<t>>) = 1
  /\ \A t, p : p # t => Pieces(t, <<p>>) = 0
  /\ \A t \in Threads : Pieces(t, <<t, NL>>) = 1
<1>1. \A t : Places(t, <<>>) = {}
  BY DEF Places
<1>2. \A t : Places(t, <<t>>) = {1}
  BY DEF Places
<1>3. \A t, p : p # t => Places(t, <<p>>) = {}
  BY DEF Places
<1>4. \A t \in Threads : Places(t, <<t, NL>>) = {1}
  BY ConsoleAssumption DEF Places
<1> QED BY <1>1, <1>2, <1>3, <1>4, FS_EmptySet, FS_Singleton DEF Pieces

\* A newline at the end is nobody's, and what is printed first counts once.
LEMMA PiecesAtTheEnds ==
  ASSUME NEW t \in Threads, NEW w \in Words(t)
  PROVE  /\ Pieces(t, Append(w, NL)) = Pieces(t, w)
         /\ w # <<>> /\ Head(w) = NL => Pieces(t, Tail(w)) = Pieces(t, w)
         /\ w # <<>> /\ Head(w) # NL => Pieces(t, Tail(w)) = Pieces(t, w) - 1
<1>0. NL # t /\ w \in Seq({t, NL}) /\ <<NL>> \in Seq({t, NL}) /\ Pieces(t, w) \in Nat
  BY ConsoleAssumption, PiecesCount DEF Words
<1>1. Pieces(t, Append(w, NL)) = Pieces(t, w)
  <2>1. Append(w, NL) = w \o <<NL>>
    BY <1>0
  <2>2. Pieces(t, w \o <<NL>>) = Pieces(t, w) + Pieces(t, <<NL>>)
    BY <1>0, PiecesJoined
  <2>3. Pieces(t, <<NL>>) = 0
    BY <1>0, PiecesOfOne
  <2> QED BY <1>0, <2>1, <2>2, <2>3
<1>2. ASSUME w # <<>>
      PROVE  /\ Head(w) = NL => Pieces(t, Tail(w)) = Pieces(t, w)
             /\ Head(w) # NL => Pieces(t, Tail(w)) = Pieces(t, w) - 1
  <2>1. PICK p, q : /\ p = Head(w) /\ q = Tail(w) /\ p \in {t, NL} /\ q \in Seq({t, NL})
                    /\ w = <<p>> \o q /\ <<p>> \in Seq({t, NL})
    <3>1. PICK p, q : p = Head(w) /\ q = Tail(w)
      OBVIOUS
    <3>2. p \in {t, NL} /\ q \in Seq({t, NL}) /\ <<p>> \in Seq({t, NL})
      BY <1>0, <1>2, <3>1
    <3>3. w = <<p>> \o q
      <4>1. /\ Len(w) \in Nat \ {0} /\ p = w[1]
            /\ Len(q) = Len(w) - 1 /\ \A i \in 1..(Len(w) - 1) : q[i] = w[i + 1]
        BY <1>0, <1>2, <3>1
      <4>2. /\ <<p>> \o q \in Seq({t, NL}) /\ Len(<<p>> \o q) = 1 + Len(q)
            /\ \A i \in 1..(1 + Len(q)) : (<<p>> \o q)[i] = IF i = 1 THEN p ELSE q[i - 1]
        BY <3>2
      <4>3. ASSUME NEW i \in 1..Len(w) PROVE w[i] = (<<p>> \o q)[i]
        BY <4>1, <4>2
      <4>4. Len(w) = Len(<<p>> \o q)
        BY <4>1, <4>2
      <4> QED BY <1>0, <4>2, <4>3, <4>4, SeqEqual
    <3> QED BY <3>1, <3>2, <3>3
  <2>2. PICK a \in Nat, b \in Nat : a = Pieces(t, <<p>>) /\ b = Pieces(t, q)
    BY <2>1, PiecesCount
  <2>3. Pieces(t, w) = a + b
    <3>1. Pieces(t, <<p>> \o q) = Pieces(t, <<p>>) + Pieces(t, q)
      BY <2>1, PiecesJoined
    <3> QED BY <2>1, <2>2, <3>1
  <2>4. p = NL => a = 0
    BY <1>0, <2>2, PiecesOfOne
  <2>5. p = t => a = 1
    BY <2>2, PiecesOfOne
  <2>6. a = 0 => b = a + b
    OBVIOUS
  <2>7. a = 1 => b = (a + b) - 1
    OBVIOUS
  <2> QED BY <1>0, <2>1, <2>2, <2>3, <2>4, <2>5, <2>6, <2>7
<1> QED BY <1>1, <1>2

\* All the text that a thread has written is its own, and none of it another's.
LEMMA OwnText ==
  ASSUME NEW t \in Threads, NEW w \in Words(t)
  PROVE  /\ TextIn(w) = Pieces(t, w)
         /\ \A u \in Threads \ {t} : Pieces(u, w) = 0
<1>1. NL \notin Threads /\ w \in Seq({t, NL}) /\ DOMAIN w = 1..Len(w)
  BY ConsoleAssumption DEF Words
<1>2. \A i \in 1..Len(w) : w[i] \in {t, NL}
  BY <1>1
<1>3. {i \in DOMAIN w : w[i] # NL} = Places(t, w)
  BY <1>1, <1>2 DEF Places
<1>4. \A u \in Threads \ {t} : Places(u, w) = {}
  BY <1>1, <1>2 DEF Places
<1> QED BY <1>3, <1>4, FS_EmptySet DEF TextIn, Pieces

-------------------------------------------------------------------------------
(***************************************************************************)
(* The text of a thread is printed once, or kept.                          *)
(***************************************************************************)
\* Lines are printed at once: no other operation comes before.
LaterOps(ops) == \A i \in 2..Len(ops) : ops[i].name # "lines"
LaterInv == \A t \in Threads : LaterOps(todo[t])

\* One thread at most is inside logConsole and past an insertion.
Waits(t) == Logging(t) /\ Head(todo[t]).name # "insert"
AloneInv == \A t, u \in Threads : Waits(t) /\ Waits(u) => t = u

\* What operator<< has copied is still what the buffer holds when it gets the mutex.
CopyInv == \A t \in Threads : Doing(t, "lines") /\ t \notin inside => out[t] = buffer[stream(t)]

\* A finished line is in a thread's buffer only between the insertion and the lock.
FinishedInv ==
  \A t \in Threads : HasLine(buffer[t]) => Doing(t, "lines") /\ stream(t) = t /\ t \notin inside

\* The logger's stream holds text of those who are in logConsole.
Authors == {NL} \union {t \in Threads : Logging(t)}
AuthorInv == buffer[Writer] \in Seq(Authors)

\* A piece written and not printed is in one of the thread's two buffers, or is
\* being printed.
Printing(t) == IF t \in inside THEN Pieces(t, out[t]) ELSE 0
CountInv ==
  /\ DOMAIN owed = Threads
  /\ \A t \in Threads :
       owed[t] = Pieces(t, buffer[t]) + Pieces(t, buffer[Writer]) + Printing(t)

KeptInv == LaterInv /\ AloneInv /\ CopyInv /\ FinishedInv /\ AuthorInv /\ CountInv

\* What is left of a statement prints no lines first, whatever comes before it.
LEMMA LaterStep ==
  ASSUME NEW t \in Threads, NEW ops, Statement(t, ops), ops # <<>>, LaterOps(ops)
  PROVE  /\ LaterOps(Tail(ops))
         /\ Tail(ops) # <<>> => Head(Tail(ops)).name # "lines"
         /\ \A e : LaterOps(<<e>> \o Tail(ops))
<1>1. PICK S : ops \in Seq(S)
  BY DEF Statement
<1>2. PICK q : q = Tail(ops)
  OBVIOUS
<1>3. /\ Len(ops) \in Nat \ {0} /\ q \in Seq(S) /\ Len(q) = Len(ops) - 1
      /\ \A i \in 1..(Len(ops) - 1) : q[i] = ops[i + 1]
      /\ q # <<>> => Len(q) >= 1 /\ Head(q) = q[1]
  BY <1>1, <1>2
<1>4. \A i \in 1..Len(q) : i + 1 \in 2..Len(ops) /\ q[i] = ops[i + 1]
  BY <1>3
<1>5. \A i \in 1..Len(q) : q[i].name # "lines"
  BY <1>4 DEF LaterOps
<1>6. LaterOps(q) /\ (q # <<>> => Head(q).name # "lines")
  BY <1>3, <1>5 DEF LaterOps
<1>7. ASSUME NEW e PROVE LaterOps(<<e>> \o q)
  <2>1. <<e>> \in Seq(S \union {e}) /\ q \in Seq(S \union {e})
    BY <1>3
  <2>2. /\ Len(<<e>> \o q) = Len(q) + 1 /\ Len(q) \in Nat
        /\ \A i \in 2..(Len(q) + 1) : (<<e>> \o q)[i] = q[i - 1]
    BY <2>1
  <2>3. \A i \in 2..(Len(q) + 1) : i - 1 \in 1..Len(q)
    BY <2>2
  <2> QED BY <1>5, <2>2, <2>3 DEF LaterOps
<1> QED BY <1>2, <1>6, <1>7

\* A thread begins a statement: no text moves.
LEMMA BeginKeeps ==
  ASSUME TextInv, MutexInv, KeptInv, NEW t \in Threads, NEW ops,
         Begin(t, ops), ops # <<>>, LaterOps(ops), Head(ops).name # "lines",
         Head(ops).on = Writer => Head(ops).name = "insert"
  PROVE  KeptInv'
<1>1. /\ todo[t] = <<>> /\ todo' = [todo EXCEPT ![t] = ops]
      /\ UNCHANGED <<buffer, inside, out, owed>>
  BY DEF Begin
<1>2. todo'[t] = ops /\ \A u \in Threads \ {t} : todo'[u] = todo[u]
  BY <1>1 DEF TextInv
<1>3. LaterInv'
  BY <1>2 DEF KeptInv, LaterInv
<1>4. /\ ~Logging(t) /\ ~Waits(t)'
      /\ \A u \in Threads \ {t} : Logging(u)' = Logging(u) /\ Waits(u)' = Waits(u)
  BY <1>1, <1>2 DEF Waits, Logging, stream
<1>5. AloneInv'
  BY <1>4 DEF KeptInv, AloneInv
<1>6. CopyInv'
  BY <1>1, <1>2 DEF KeptInv, CopyInv, Doing, stream
<1>7. FinishedInv'
  BY <1>1, <1>2 DEF KeptInv, FinishedInv, Doing, stream
<1>8. AuthorInv'
  <2>1. Authors \subseteq Authors'
    BY <1>4 DEF Authors
  <2>2. Seq(Authors) \subseteq Seq(Authors')
    BY <2>1
  <2> QED BY <1>1, <2>2 DEF KeptInv, AuthorInv
<1>9. CountInv'
  BY <1>1 DEF KeptInv, CountInv, Printing
<1> QED BY <1>3, <1>5, <1>6, <1>7, <1>8, <1>9 DEF KeptInv

\* The statements of the program begin with an insertion or with something that locks.
LEMMA CallKeeps ==
  ASSUME TextInv, MutexInv, KeptInv, NEW t \in Threads, Call(t)
  PROVE  KeptInv'
<1>1. Writer # t
  BY ConsoleAssumption
<1>2. ASSUME NEW e, Begin(t, <<e>>), e.name # "lines", e.on = t PROVE KeptInv'
  <2>1. <<e>> # <<>> /\ Head(<<e>>) = e /\ LaterOps(<<e>>)
    BY DEF LaterOps
  <2> QED BY <1>1, <1>2, <2>1, BeginKeeps
<1>3. CASE write(t)
  BY <1>2, <1>3 DEF write, Put
<1>4. CASE manipulate(t) \/ read(t) \/ setPrefix(t)
  BY <1>2, <1>4 DEF manipulate, read, setPrefix, Op
<1>5. CASE prompt(t)
  <2>1. PICK a, b : a = Op("ask", t) /\ b = Op("read", t) /\ Begin(t, <<a, b>>)
    BY <1>5 DEF prompt
  <2>2. a.name = "ask" /\ a.on = t /\ b.name = "read"
    BY <2>1 DEF Op
  <2>3. <<a, b>> # <<>> /\ Head(<<a, b>>) = a /\ LaterOps(<<a, b>>)
    BY <2>2 DEF LaterOps
  <2> QED BY <1>1, <2>1, <2>2, <2>3, BeginKeeps
<1>6. CASE logConsole(t)
  <2>1. PICK message : Begin(t, <<Put(<<t>>, Writer), Put(message, Writer), Op("endl", Writer)>>)
    BY <1>6 DEF logConsole
  <2>2. PICK a, b, c : /\ a = Put(<<t>>, Writer) /\ b = Put(message, Writer)
                       /\ c = Op("endl", Writer) /\ Begin(t, <<a, b, c>>)
    BY <2>1
  <2>3. a.name = "insert" /\ b.name = "insert" /\ c.name = "endl"
    BY <2>2 DEF Op, Put
  <2>4. <<a, b, c>> # <<>> /\ Head(<<a, b, c>>) = a /\ LaterOps(<<a, b, c>>)
    BY <2>3 DEF LaterOps
  <2> QED BY <2>2, <2>3, <2>4, BeginKeeps
<1> QED BY <1>3, <1>4, <1>5, <1>6 DEF Call

\* The pieces in the buffers are counted whatever they are.
LEMMA BuffersCount ==
  ASSUME TextInv, AuthorInv, NEW t \in Threads
  PROVE  /\ Pieces(t, buffer[t]) \in Nat /\ Pieces(t, buffer[Writer]) \in Nat
         /\ Pieces(t, out[t]) \in Nat /\ Printing(t) \in Nat
<1>1. Pieces(t, buffer[t]) \in Nat
  BY PiecesCount DEF TextInv, Words
<1>2. Pieces(t, out[t]) \in Nat
  BY PiecesCount DEF TextInv, Words
<1>3. Pieces(t, buffer[Writer]) \in Nat
  BY PiecesCount DEF AuthorInv
<1> QED BY <1>1, <1>2, <1>3 DEF Printing

\* The piece is added to what is owed and to the buffer of the stream.
LEMMA InsertKeeps ==
  ASSUME TextInv, MutexInv, WriterInv, KeptInv, NEW t \in Threads, insert(t)
  PROVE  KeptInv'
<1>0. PICK s \in {t, Writer}, w \in Words(t), content \in Words(t) : Inserted(t, s, w, content)
  BY Inserting
<1>1. /\ s = stream(t) /\ content = buffer[s] \o w /\ buffer[s] \in Words(t)
      /\ Logging(t) <=> s = Writer
      /\ s = Writer => \A u \in Threads \ {t} : ~Logging(u)
      /\ todo[t] # <<>> /\ Head(todo[t]).name = "insert" /\ t \notin inside /\ inside' = inside
      /\ todo'[t] # <<>> => Head(todo'[t]).on = s
      /\ s = Writer => todo'[t] # <<>>
      /\ \A u \in Threads \ {t} : todo'[u] = todo[u] /\ out'[u] = out[u]
      /\ buffer'[s] = content /\ \A r \in Streams \ {s} : buffer'[r] = buffer[r]
      /\ owed' = [owed EXCEPT ![t] = @ + TextIn(w)]
  BY <1>0 DEF Inserted
<1>2. /\ HasLine(content) => /\ todo'[t] = <<Op("lines", s)>> \o Tail(todo[t])
                             /\ todo'[t] # <<>> /\ Head(todo'[t]) = Op("lines", s)
                             /\ out'[t] = content
      /\ ~HasLine(content) => todo'[t] = Tail(todo[t])
  BY <1>0 DEF Inserted
<1>3. Writer \notin Threads /\ Statement(t, todo[t])
  BY ConsoleAssumption DEF TextInv
<1>4. LaterOps(todo'[t]) /\ (~HasLine(content) /\ todo'[t] # <<>> => Head(todo'[t]).name # "lines")
  <2>1. PICK ops : ops = todo[t] /\ ops # <<>> /\ Statement(t, ops) /\ LaterOps(ops)
    BY <1>1, <1>3 DEF KeptInv, LaterInv
  <2>2. /\ LaterOps(Tail(ops)) /\ (Tail(ops) # <<>> => Head(Tail(ops)).name # "lines")
        /\ LaterOps(<<Op("lines", s)>> \o Tail(ops))
    BY <2>1, LaterStep
  <2> QED BY <1>2, <2>1, <2>2
<1>5. LaterInv'
  BY <1>1, <1>4 DEF KeptInv, LaterInv
<1>6. /\ Logging(t)' <=> s = Writer
      /\ \A u \in Threads \ {t} : Logging(u)' = Logging(u) /\ Waits(u)' = Waits(u)
  BY <1>1 DEF Logging, stream, Waits
<1>7. AloneInv'
  BY <1>1, <1>6 DEF KeptInv, AloneInv, Waits
<1>8. CopyInv'
  <2>1. ASSUME Doing(t, "lines")' PROVE out'[t] = buffer'[stream(t)']
    <3>1. HasLine(content)
      BY <1>4, <2>1 DEF Doing
    <3>2. stream(t)' = s
      BY <1>1, <1>2, <3>1 DEF stream
    <3> QED BY <1>1, <1>2, <3>1, <3>2
  <2>2. ASSUME NEW u \in Threads \ {t}, Doing(u, "lines"), u \notin inside
        PROVE  out'[u] = buffer'[stream(u)]
    <3>1. stream(u) \in {u, Writer} /\ (Logging(u) <=> stream(u) = Writer)
      BY <2>2, StatementStep DEF TextInv, Doing, stream, Logging
    <3>2. stream(u) # s /\ stream(u) \in Streams
      BY <1>1, <1>3, <3>1 DEF Streams
    <3> QED BY <1>1, <2>2, <3>2 DEF KeptInv, CopyInv
  <2>3. \A u \in Threads \ {t} : Doing(u, "lines")' = Doing(u, "lines") /\ stream(u)' = stream(u)
    BY <1>1 DEF Doing, stream
  <2> QED BY <1>1, <2>1, <2>2, <2>3 DEF CopyInv
<1>9. FinishedInv'
  <2>1. ASSUME HasLine(buffer'[t])
        PROVE  Doing(t, "lines")' /\ stream(t)' = t
    <3>1. s = t
      <4>1. ~Doing(t, "lines")
        BY <1>1 DEF Doing
      <4>2. ~HasLine(buffer[t])
        BY <4>1 DEF KeptInv, FinishedInv
      <4> QED BY <1>1, <1>3, <2>1, <4>2 DEF Streams
    <3>2. HasLine(content)
      BY <1>1, <2>1, <3>1
    <3>3. Op("lines", s).name = "lines" /\ Op("lines", s).on = s
      BY DEF Op
    <3> QED BY <1>2, <3>1, <3>2, <3>3 DEF Doing, stream
  <2>2. \A u \in Threads \ {t} : buffer'[u] = buffer[u]
    BY <1>1, <1>3 DEF Streams
  <2>3. \A u \in Threads \ {t} : Doing(u, "lines")' = Doing(u, "lines") /\ stream(u)' = stream(u)
    BY <1>1 DEF Doing, stream
  <2> QED BY <1>1, <2>1, <2>2, <2>3 DEF KeptInv, FinishedInv
<1>10. AuthorInv'
  <2>1. CASE s = Writer
    <3>1. {t, NL} \subseteq Authors'
      BY <1>6, <2>1 DEF Authors
    <3>2. Seq({t, NL}) \subseteq Seq(Authors')
      BY <3>1
    <3> QED BY <1>1, <2>1, <3>2 DEF AuthorInv, Words
  <2>2. CASE s # Writer
    <3>1. Authors' = Authors
      BY <1>1, <1>6, <2>2 DEF Authors
    <3>2. buffer'[Writer] = buffer[Writer]
      BY <1>1, <2>2 DEF Streams
    <3> QED BY <3>1, <3>2 DEF KeptInv, AuthorInv
  <2> QED BY <2>1, <2>2
<1>11. CountInv'
  <2>1. PICK n \in Nat : n = Pieces(t, w) /\ n = TextIn(w)
    BY OwnText, PiecesCount DEF Words
  <2>2. /\ DOMAIN owed' = Threads /\ owed'[t] = owed[t] + n
        /\ \A u \in Threads \ {t} : owed'[u] = owed[u]
    BY <1>1, <2>1 DEF KeptInv, CountInv
  <2>3. Pieces(t, content) = Pieces(t, buffer[s]) + n
    <3>1. buffer[s] \in Seq({t, NL}) /\ w \in Seq({t, NL})
      BY <1>1 DEF Words
    <3>2. Pieces(t, buffer[s] \o w) = Pieces(t, buffer[s]) + Pieces(t, w)
      BY <3>1, PiecesJoined
    <3> QED BY <1>1, <2>1, <3>2
  <2>4. \A u \in Threads \ {t} : Pieces(u, content) = 0 /\ Pieces(u, buffer[s]) = 0
    BY <1>1, OwnText
  <2>5. \A u \in Threads : Printing(u)' = Printing(u)
    BY <1>1 DEF Printing
  <2>6. owed'[t] = Pieces(t, buffer'[t]) + Pieces(t, buffer'[Writer]) + Printing(t)'
    <3>1. PICK a \in Nat, b \in Nat, c \in Nat :
            a = Pieces(t, buffer[t]) /\ b = Pieces(t, buffer[Writer]) /\ c = Printing(t)
      BY BuffersCount DEF KeptInv
    <3>2. owed'[t] = a + b + c + n
      BY <2>2, <3>1 DEF KeptInv, CountInv
    <3>3. CASE s = t
      <4>1. Pieces(t, buffer'[t]) = a + n /\ Pieces(t, buffer'[Writer]) = b
        BY <1>1, <1>3, <2>3, <3>1, <3>3 DEF Streams
      <4> QED BY <2>5, <3>1, <3>2, <4>1
    <3>4. CASE s = Writer
      <4>1. Pieces(t, buffer'[t]) = a /\ Pieces(t, buffer'[Writer]) = b + n
        BY <1>1, <1>3, <2>3, <3>1, <3>4 DEF Streams
      <4> QED BY <2>5, <3>1, <3>2, <4>1
    <3> QED BY <3>3, <3>4
  <2>7. ASSUME NEW u \in Threads \ {t}
        PROVE  owed'[u] = Pieces(u, buffer'[u]) + Pieces(u, buffer'[Writer]) + Printing(u)'
    <3>1. buffer'[u] = buffer[u]
      BY <1>1, <1>3 DEF Streams
    <3>2. Pieces(u, buffer'[Writer]) = Pieces(u, buffer[Writer])
      BY <1>1, <2>4 DEF Streams
    <3> QED BY <2>2, <2>5, <3>1, <3>2 DEF KeptInv, CountInv
  <2> QED BY <2>2, <2>6, <2>7 DEF CountInv
<1> QED BY <1>5, <1>7, <1>8, <1>9, <1>10, <1>11 DEF KeptInv

\* What the thread takes into the section, and what is left in the buffer, is what
\* was there, and the question that prompt() has asked.
LEMMA LockCounts ==
  ASSUME TextInv, KeptInv, NEW t \in Threads, NEW s \in {t, Writer}, NEW name \in Locking,
         Locked(t, s, name)
  PROVE  Pieces(t, buffer'[s]) + Pieces(t, out'[t])
           = Pieces(t, buffer[s]) + (IF name = "ask" THEN 1 ELSE 0)
<1>1. PICK w \in Words(t), n \in Nat : w = buffer[s] /\ n = Pieces(t, w)
  BY PiecesCount DEF Locked, Words
<1>2. /\ Pieces(t, <<>>) = 0 /\ Pieces(t, <<t>>) = 1 /\ Pieces(t, Append(w, NL)) = n
  BY <1>1, PiecesOfOne, PiecesAtTheEnds
<1>3. todo[t] # <<>> /\ Head(todo[t]).name = name /\ stream(t) = s /\ t \notin inside
  BY DEF Locked
<1>4. out'[t] = Content(t) /\ buffer'[s] = IF name \in {"lines", "endl", "flush"} THEN <<>> ELSE w
  BY <1>1 DEF Locked
<1>5. CASE name = "lines"
  <2>1. out'[t] = w
    BY <1>1, <1>3, <1>4, <1>5 DEF Content, Doing, KeptInv, CopyInv
  <2> QED BY <1>1, <1>2, <1>4, <1>5, <2>1
<1>6. CASE name = "endl"
  <2>1. out'[t] = Append(w, NL)
    BY <1>1, <1>3, <1>4, <1>6 DEF Content, Doing
  <2> QED BY <1>1, <1>2, <1>4, <1>6, <2>1
<1>7. CASE name = "flush"
  <2>1. out'[t] = w
    BY <1>1, <1>3, <1>4, <1>7 DEF Content, Doing
  <2> QED BY <1>1, <1>2, <1>4, <1>7, <2>1
<1>8. CASE name = "ask"
  <2>1. out'[t] = <<t>>
    BY <1>3, <1>4, <1>8 DEF Content, Doing
  <2> QED BY <1>1, <1>2, <1>4, <1>8, <2>1
<1>9. CASE name \in {"read", "prefix"}
  <2>1. out'[t] = <<>>
    BY <1>3, <1>4, <1>9 DEF Content, Doing
  <2> QED BY <1>1, <1>2, <1>4, <1>9, <2>1
<1> QED BY <1>5, <1>6, <1>7, <1>8, <1>9 DEF Locking

\* The text goes from the buffer into the section, and nobody else's was there.
LEMMA LockKeeps ==
  ASSUME TextInv, TextInv', MutexInv, WriterInv, KeptInv, NEW t \in Threads, lock(t)
  PROVE  KeptInv'
<1>0. PICK s \in {t, Writer}, name \in Locking : Locked(t, s, name)
  BY Locks
<1>1. /\ s = stream(t) /\ todo[t] # <<>> /\ name = Head(todo[t]).name /\ todo' = todo
      /\ inside = {} /\ inside' = {t}
      /\ Logging(t) <=> s = Writer
      /\ s = Writer => name \in {"lines", "endl"}
      /\ buffer[s] \in Words(t)
      /\ \A u \in Threads \ {t} : out'[u] = out[u]
      /\ buffer'[s] = IF name \in {"lines", "endl", "flush"} THEN <<>> ELSE buffer[s]
      /\ \A r \in Streams \ {s} : buffer'[r] = buffer[r]
      /\ owed' = IF name = "ask" THEN [owed EXCEPT ![t] = @ + 1] ELSE owed
  BY <1>0 DEF Locked
<1>2. Writer \notin Threads
  BY ConsoleAssumption
<1>3. \A u \in Threads \ {t} : buffer'[u] = buffer[u]
  BY <1>1, <1>2 DEF Streams
<1>4. LaterInv' /\ AloneInv' /\ Authors' = Authors
  BY <1>1 DEF KeptInv, LaterInv, AloneInv, Authors, Waits, Logging, stream
<1>5. CopyInv'
  <2>1. ASSUME NEW u \in Threads \ {t}, Doing(u, "lines")
        PROVE  out'[u] = buffer'[stream(u)]
    <3>1. stream(u) \in {u, Writer} /\ (Logging(u) <=> stream(u) = Writer)
      BY <2>1, StatementStep DEF TextInv, Doing, stream, Logging
    <3>2. stream(u) # s
      <4>1. ~(Waits(t) /\ Waits(u))
        BY DEF KeptInv, AloneInv
      <4> QED BY <1>1, <1>2, <2>1, <3>1, <4>1 DEF Waits, Doing
    <3>3. stream(u) \in Streams
      BY <3>1 DEF Streams
    <3> QED BY <1>1, <2>1, <3>2, <3>3 DEF KeptInv, CopyInv
  <2> QED BY <1>1, <2>1 DEF CopyInv, Doing, stream
<1>6. FinishedInv'
  <2>1. ~HasLine(<<>>)
    BY DEF HasLine, ToSet
  <2>2. ~HasLine(buffer'[t])
    <3>1. CASE HasLine(buffer[t])
      <4>1. s = t /\ name = "lines"
        BY <1>1, <3>1 DEF KeptInv, FinishedInv, Doing
      <4> QED BY <1>1, <2>1, <4>1
    <3>2. CASE ~HasLine(buffer[t])
      BY <1>1, <2>1, <3>2 DEF Streams
    <3> QED BY <3>1, <3>2
  <2> QED BY <1>1, <1>3, <2>2 DEF KeptInv, FinishedInv, Doing, stream
<1>7. AuthorInv'
  <2>1. buffer'[Writer] = buffer[Writer] \/ buffer'[Writer] = <<>>
    BY <1>1 DEF Streams
  <2>2. <<>> \in Seq(Authors) /\ buffer[Writer] \in Seq(Authors)
    BY DEF KeptInv, AuthorInv
  <2>3. buffer'[Writer] \in Seq(Authors)
    BY <2>1, <2>2
  <2> QED BY <1>4, <2>3 DEF AuthorInv
<1>8. CountInv'
  <2> DEFINE k == IF name = "ask" THEN 1 ELSE 0
  <2>1. /\ DOMAIN owed' = Threads /\ \A u \in Threads \ {t} : owed'[u] = owed[u]
        /\ owed'[t] = owed[t] + k
    <3>1. owed[t] \in Nat
      BY BuffersCount DEF KeptInv, CountInv
    <3> QED BY <1>1, <3>1 DEF KeptInv, CountInv
  <2>2. Pieces(t, buffer'[s]) + Pieces(t, out'[t]) = Pieces(t, buffer[s]) + k
    BY <1>0, LockCounts
  <2>3. k \in Nat
    OBVIOUS
  <2> HIDE DEF k
  <2>4. /\ Pieces(t, buffer'[t]) \in Nat /\ Pieces(t, buffer'[Writer]) \in Nat
        /\ Pieces(t, out'[t]) \in Nat
    <3>1. buffer'[t] \in Seq({t, NL}) /\ out'[t] \in Seq({t, NL}) /\ buffer'[Writer] \in Seq(Authors')
      BY <1>7 DEF TextInv, Words, AuthorInv
    <3> QED BY <3>1, PiecesCount
  <2>5. PICK a \in Nat, b \in Nat, d \in Nat, e \in Nat, c \in Nat :
          /\ a = Pieces(t, buffer[t]) /\ b = Pieces(t, buffer[Writer])
          /\ d = Pieces(t, buffer'[t]) /\ e = Pieces(t, buffer'[Writer]) /\ c = Pieces(t, out'[t])
    BY <2>4, BuffersCount DEF KeptInv
  <2>6. owed[t] = a + b + 0 /\ Printing(t)' = c
    BY <1>1, <2>5 DEF KeptInv, CountInv, Printing
  <2>7. owed'[t] = d + e + c
    <3>1. CASE s = t
      <4>1. e = b /\ d + c = a + k
        BY <1>1, <1>2, <2>2, <2>5, <3>1 DEF Streams
      <4> QED BY <2>1, <2>3, <2>5, <2>6, <4>1
    <3>2. CASE s = Writer
      <4>1. d = a /\ e + c = b + k
        BY <1>1, <1>2, <2>2, <2>5, <3>2 DEF Streams
      <4> QED BY <2>1, <2>3, <2>5, <2>6, <4>1
    <3> QED BY <3>1, <3>2
  <2>8. ASSUME NEW u \in Threads \ {t}
        PROVE  owed'[u] = Pieces(u, buffer'[u]) + Pieces(u, buffer'[Writer]) + Printing(u)'
    <3>1. Pieces(u, buffer'[Writer]) = Pieces(u, buffer[Writer])
      <4>1. CASE s = Writer
        <5>1. Pieces(u, buffer[s]) = 0 /\ Pieces(u, <<>>) = 0
          BY <1>1, OwnText, PiecesOfOne
        <5> QED BY <1>1, <4>1, <5>1
      <4>2. CASE s # Writer
        BY <1>1, <4>2 DEF Streams
      <4> QED BY <4>1, <4>2
    <3>2. Printing(u)' = 0 /\ Printing(u) = 0
      BY <1>1 DEF Printing
    <3> QED BY <1>3, <2>1, <3>1, <3>2 DEF KeptInv, CountInv
  <2> QED BY <2>1, <2>5, <2>6, <2>7, <2>8 DEF CountInv
<1> QED BY <1>4, <1>5, <1>6, <1>7, <1>8 DEF KeptInv

\* A piece that is printed is no longer owed.
LEMMA PrintKeeps ==
  ASSUME TextInv, MutexInv, KeptInv, NEW t \in Threads, print(t)
  PROVE  KeptInv'
<1>1. /\ t \in inside /\ out[t] # <<>> /\ out' = [out EXCEPT ![t] = Tail(@)]
      /\ UNCHANGED <<buffer, inside, todo>>
  BY DEF print
<1>2. \A u \in inside : u = t
  BY <1>1 DEF MutexInv
<1>3. out'[t] = Tail(out[t]) /\ \A u \in Threads \ {t} : out'[u] = out[u]
  BY <1>1 DEF TextInv
<1>4. LaterInv' /\ AloneInv' /\ FinishedInv' /\ AuthorInv'
  BY <1>1 DEF KeptInv, LaterInv, AloneInv, FinishedInv, AuthorInv, Authors, Waits, Logging,
              stream, Doing
<1>5. CopyInv'
  BY <1>1, <1>3 DEF KeptInv, CopyInv, stream, Doing
<1>6. CountInv'
  <2>1. PICK w \in Words(t) : w = out[t]
    BY DEF TextInv
  <2>2. Head(w) \in {t, NL} /\ NL # t /\ w # <<>>
    BY <1>1, <2>1, ConsoleAssumption DEF Words
  <2>3. PICK a \in Nat, b \in Nat, c \in Nat :
          a = Pieces(t, buffer[t]) /\ b = Pieces(t, buffer[Writer]) /\ c = Pieces(t, w)
    BY <2>1, BuffersCount DEF KeptInv
  <2>4. DOMAIN owed = Threads /\ owed[t] = a + b + c
    BY <1>1, <2>1, <2>3 DEF KeptInv, CountInv, Printing
  <2>5. \A u \in Threads \ {t} : Printing(u)' = 0 /\ Printing(u) = 0
    BY <1>1, <1>2 DEF Printing
  <2>6. /\ DOMAIN owed' = Threads /\ \A u \in Threads \ {t} : owed'[u] = owed[u]
        /\ owed'[t] = a + b + Pieces(t, Tail(w))
    <3>1. CASE Head(w) = NL
      <4>1. owed' = owed
        BY <2>1, <3>1 DEF print
      <4>2. Pieces(t, Tail(w)) = c
        BY <2>2, <2>3, <3>1, PiecesAtTheEnds
      <4> QED BY <2>4, <4>1, <4>2
    <3>2. CASE Head(w) = t
      <4>1. owed' = [owed EXCEPT ![t] = @ - 1]
        BY <2>1, <2>2, <3>2 DEF print
      <4>2. Pieces(t, Tail(w)) = c - 1
        BY <2>2, <2>3, <3>2, PiecesAtTheEnds
      <4> QED BY <2>3, <2>4, <4>1, <4>2
    <3> QED BY <2>2, <3>1, <3>2
  <2>7. Printing(t)' = Pieces(t, Tail(w))
    BY <1>1, <1>3, <2>1 DEF Printing
  <2> QED BY <1>1, <2>3, <2>5, <2>6, <2>7 DEF KeptInv, CountInv
<1> QED BY <1>4, <1>5, <1>6 DEF KeptInv

\* Nothing is left to print when the mutex is released.
LEMMA LeaveKeeps ==
  ASSUME TextInv, MutexInv, WriterInv, KeptInv, NEW t \in Threads, Leave(t)
  PROVE  KeptInv'
<1>1. /\ t \in inside /\ out[t] = <<>> /\ inside' = inside \ {t}
      /\ todo' = [todo EXCEPT ![t] = Tail(@)]
      /\ UNCHANGED <<buffer, out, owed>>
  BY DEF Leave
<1>2. inside' = {} /\ todo[t] # <<>> /\ Head(todo[t]).name \in Locking /\ \A u \in inside : u = t
  BY <1>1 DEF MutexInv
<1>3. todo'[t] = Tail(todo[t]) /\ \A u \in Threads \ {t} : todo'[u] = todo[u]
  BY <1>1 DEF TextInv
<1>4. /\ LaterOps(todo'[t]) /\ (todo'[t] # <<>> => Head(todo'[t]).name # "lines")
      /\ todo'[t] # <<>> => Head(todo'[t]).on = stream(t)
  <2>1. PICK ops : ops = todo[t] /\ ops # <<>> /\ Statement(t, ops) /\ LaterOps(ops)
    BY <1>2 DEF TextInv, KeptInv, LaterInv
  <2>2. /\ LaterOps(Tail(ops)) /\ (Tail(ops) # <<>> => Head(Tail(ops)).name # "lines")
    BY <2>1, LaterStep
  <2>3. Tail(ops) # <<>> => Head(Tail(ops)).on = Head(ops).on
    BY <2>1, StatementStep
  <2> QED BY <1>3, <2>1, <2>2, <2>3 DEF stream
<1>5. LaterInv'
  BY <1>3, <1>4 DEF KeptInv, LaterInv
<1>6. /\ Logging(t)' => Logging(t)
      /\ Waits(t)' => Waits(t)
      /\ \A u \in Threads \ {t} : Logging(u)' = Logging(u) /\ Waits(u)' = Waits(u)
  <2>1. Logging(t)' => Logging(t)
    BY <1>2, <1>4 DEF Logging, stream
  <2>2. Logging(t) => Waits(t)
    BY <1>2 DEF Waits, Locking
  <2>3. Waits(t)' => Logging(t)'
    BY DEF Waits
  <2> QED BY <1>3, <2>1, <2>2, <2>3 DEF Waits, Logging, stream
<1>7. AloneInv'
  BY <1>6 DEF KeptInv, AloneInv
<1>8. \A u \in Threads \ {t} : Doing(u, "lines")' = Doing(u, "lines") /\ stream(u)' = stream(u)
  BY <1>3 DEF Doing, stream
<1>9. CopyInv'
  <2>1. ~Doing(t, "lines")'
    BY <1>4 DEF Doing
  <2> QED BY <1>1, <1>2, <1>8, <2>1 DEF KeptInv, CopyInv
<1>10. FinishedInv'
  BY <1>1, <1>2, <1>8 DEF KeptInv, FinishedInv
<1>11. AuthorInv'
  <2>1. CASE Logging(t)
    <3>1. buffer'[Writer] = <<>>
      BY <1>1, <2>1 DEF WriterInv
    <3> QED BY <3>1 DEF AuthorInv
  <2>2. CASE ~Logging(t)
    <3>1. Authors' = Authors
      BY <1>6, <2>2 DEF Authors
    <3> QED BY <1>1, <3>1 DEF KeptInv, AuthorInv
  <2> QED BY <2>1, <2>2
<1>12. CountInv'
  <2>1. \A u \in Threads : Printing(u)' = 0 /\ Printing(u) = 0
    BY <1>1, <1>2, PiecesOfOne DEF Printing
  <2> QED BY <1>1, <2>1 DEF KeptInv, CountInv
<1> QED BY <1>5, <1>7, <1>9, <1>10, <1>11, <1>12 DEF KeptInv

\* The complaint of operator>> is owed and printed like other text.
LEMMA InvalidKeeps ==
  ASSUME TextInv, MutexInv, KeptInv, NEW t \in Threads, readInvalid(t)
  PROVE  KeptInv'
<1>1. /\ t \in inside /\ out[t] = <<>> /\ out' = [out EXCEPT ![t] = <<t, NL>>]
      /\ owed' = [owed EXCEPT ![t] = @ + 1]
      /\ UNCHANGED <<buffer, inside, todo>>
  BY DEF readInvalid
<1>2. \A u \in inside : u = t
  BY <1>1 DEF MutexInv
<1>3. out'[t] = <<t, NL>> /\ \A u \in Threads \ {t} : out'[u] = out[u]
  BY <1>1 DEF TextInv
<1>4. LaterInv' /\ AloneInv' /\ FinishedInv' /\ AuthorInv'
  BY <1>1 DEF KeptInv, LaterInv, AloneInv, FinishedInv, AuthorInv, Authors, Waits, Logging,
              stream, Doing
<1>5. CopyInv'
  BY <1>1, <1>3 DEF KeptInv, CopyInv, stream, Doing
<1>6. CountInv'
  <2>1. PICK a \in Nat, b \in Nat : a = Pieces(t, buffer[t]) /\ b = Pieces(t, buffer[Writer])
    BY BuffersCount DEF KeptInv
  <2>2. Printing(t) = 0 /\ Printing(t)' = 1
    <3>1. Pieces(t, <<t, NL>>) = 1 /\ Pieces(t, <<>>) = 0
      BY PiecesOfOne
    <3> QED BY <1>1, <1>3, <3>1 DEF Printing
  <2>3. DOMAIN owed = Threads /\ owed[t] = a + b + 0
    BY <2>1, <2>2 DEF KeptInv, CountInv
  <2>4. /\ DOMAIN owed' = Threads /\ \A u \in Threads \ {t} : owed'[u] = owed[u]
        /\ owed'[t] = a + b + 1
    BY <1>1, <2>1, <2>3
  <2>5. \A u \in Threads \ {t} : Printing(u)' = 0 /\ Printing(u) = 0
    BY <1>1, <1>2 DEF Printing
  <2> QED BY <1>1, <2>1, <2>2, <2>4, <2>5 DEF KeptInv, CountInv
<1> QED BY <1>4, <1>5, <1>6 DEF KeptInv

-------------------------------------------------------------------------------
ConsoleInv == race = "none" => TextInv /\ MutexInv /\ WriterInv /\ LineInv /\ KeptInv

\* The invariant holds initially.
LEMMA InitConsole == Init => ConsoleInv
<1> SUFFICES ASSUME Init PROVE ConsoleInv
  OBVIOUS
<1>1. \A t \in Threads : /\ todo[t] = <<>> /\ out[t] = <<>> /\ owed[t] = 0
                         /\ buffer[t] = <<>> /\ ~Logging(t) /\ t \notin inside
  BY DEF Init, Streams, Logging
<1>2. \A t \in Threads : Statement(t, todo[t]) /\ out[t] \in Words(t) /\ buffer[t] \in Words(t)
  <2>1. \A t \in Threads : Statement(t, <<>>)
    BY DEF Statement
  <2> QED BY <1>1, <2>1, NothingIsWords
<1>3. buffer[Writer] = <<>>
  BY DEF Init, Streams
<1>4. TextInv /\ WriterInv
  BY <1>1, <1>2, <1>3 DEF Init, TextInv, WriterInv
<1>5. ~HasLine(<<>>) /\ LaterOps(<<>>)
  BY DEF HasLine, ToSet, LaterOps
<1>6. CountInv
  BY <1>1, <1>3, PiecesOfOne DEF Init, CountInv, Printing
<1>7. LaterInv /\ AloneInv /\ CopyInv /\ FinishedInv /\ AuthorInv
  BY <1>1, <1>3, <1>5 DEF LaterInv, AloneInv, CopyInv, FinishedInv, AuthorInv, Waits, Doing
<1> QED BY <1>4, <1>6, <1>7 DEF Init, ConsoleInv, MutexInv, LineInv, KeptInv

\* The invariant is kept by every step.
LEMMA NextConsole == ConsoleInv /\ [Next]_vars => ConsoleInv'
<1> SUFFICES ASSUME ConsoleInv, [Next]_vars PROVE ConsoleInv'
  OBVIOUS
<1>1. CASE UNCHANGED vars
  BY <1>1 DEF vars, ConsoleInv, TextInv, MutexInv, WriterInv, LineInv, Logging, stream,
              KeptInv, LaterInv, AloneInv, CopyInv, FinishedInv, AuthorInv, Authors, CountInv,
              Printing, Waits, Doing
<1>2. ASSUME NEW t \in Threads, Call(t) \/ Go(t) \/ readValue(t) \/ readInvalid(t), race' = "none"
      PROVE  TextInv' /\ MutexInv' /\ WriterInv' /\ LineInv' /\ KeptInv'
  <2>1. race = "none" /\ ~insertRaces(t)
    BY <1>2 DEF Call, Go, write, manipulate, read, prompt, setPrefix, logConsole, Begin,
                insert, insertRaces, lock, print, unlock, readValue, Leave, readInvalid
  <2>2. TextInv /\ MutexInv /\ WriterInv /\ LineInv /\ KeptInv
    BY <2>1 DEF ConsoleInv
  <2>3. TextInv' /\ MutexInv' /\ WriterInv' /\ LineInv'
    BY <1>2, <2>1, <2>2, CallStep, InsertStep, LockStep, PrintStep, LeaveStep, InvalidStep
       DEF Go, unlock, readValue
  <2>4. KeptInv'
    BY <1>2, <2>1, <2>2, <2>3, CallKeeps, InsertKeeps, LockKeeps, PrintKeeps, LeaveKeeps,
       InvalidKeeps DEF Go, unlock, readValue
  <2> QED BY <2>3, <2>4
<1> QED BY <1>1, <1>2 DEF Next, ConsoleInv

\* Threads that finish their lines never share one, unless two of them have met
\* in the logger's stream: for any set of threads and any number of statements.
THEOREM ConsoleCorrect == Spec => []LinesAreWhole
<1>1. ConsoleInv => LinesAreWhole
  BY DEF ConsoleInv, LineInv, LinesAreWhole
<1> QED BY <1>1, InitConsole, NextConsole, PTL DEF Spec

\* No text is lost or printed twice, no finished line stays in a buffer behind the
\* statement that wrote it, and logConsole leaves the shared stream empty, until two
\* threads meet in it: for any set of threads and any number of statements.
THEOREM TextCorrect == Spec => []TextIsKept
<1>1. ASSUME ConsoleInv, race = "none" PROVE TextIsKept
  <2>1. TextInv /\ MutexInv /\ WriterInv /\ KeptInv
    BY <1>1 DEF ConsoleInv
  <2>2. ASSUME NEW t \in Threads, todo[t] = <<>>
        PROVE  owed[t] = TextIn(buffer[t]) /\ ~HasLine(buffer[t])
    <3>1. ~Logging(t) /\ ~Doing(t, "lines") /\ t \notin inside
      BY <2>1, <2>2 DEF Logging, Doing, MutexInv
    <3>2. ~HasLine(buffer[t])
      BY <2>1, <3>1 DEF KeptInv, FinishedInv
    <3>3. t \notin Authors /\ buffer[Writer] \in Seq(Authors)
      BY <2>1, <3>1, ConsoleAssumption DEF Authors, KeptInv, AuthorInv
    <3>4. Places(t, buffer[Writer]) = {}
      BY <3>3 DEF Places
    <3>5. Pieces(t, buffer[Writer]) = 0 /\ Printing(t) = 0
      BY <3>1, <3>4, FS_EmptySet DEF Pieces, Printing
    <3>6. PICK n \in Nat : n = Pieces(t, buffer[t]) /\ n = TextIn(buffer[t])
      BY <2>1, OwnText, BuffersCount DEF TextInv, KeptInv
    <3>7. owed[t] = n + 0 + 0
      <4>1. owed[t] = Pieces(t, buffer[t]) + Pieces(t, buffer[Writer]) + Printing(t)
        BY <2>1 DEF KeptInv, CountInv
      <4> QED BY <3>5, <3>6, <4>1
    <3>8. owed[t] = n
      BY <3>7
    <3> QED BY <3>2, <3>6, <3>8
  <2>3. ASSUME \A t \in Threads : todo[t] = <<>> PROVE buffer[Writer] = <<>>
    BY <2>1, <2>3 DEF WriterInv, Logging
  <2> QED BY <2>2, <2>3 DEF TextIsKept
<1>2. ConsoleInv => TextIsKept
  BY <1>1 DEF TextIsKept
<1> QED BY <1>2, InitConsole, NextConsole, PTL DEF Spec
===============================================================================
