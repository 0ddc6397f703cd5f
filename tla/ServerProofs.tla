----------------------------- MODULE ServerProofs -----------------------------
(***************************************************************************)
(* Safety of Server for every set of peers, every set of descriptors and   *)
(* every limit: the books agree with the kernel's table, ids name one peer *)
(* for ever, a reply reaches the peer its id was given to, a connected     *)
(* sender is named by its own id, and a stream that no read has cut is     *)
(* given to the callbacks whole and in order.                              *)
(***************************************************************************)
EXTENDS Server, FramingProofs, FiniteSetTheorems

-------------------------------------------------------------------------------
(***************************************************************************)
(* The inductive invariant.                                                *)
(***************************************************************************)
\* The books against the kernel's table of open descriptors.
BooksInv ==
  /\ \A fd \in DOMAIN _clients :
       _clients[fd] \in DOMAIN _clientsToFd /\ _clientsToFd[_clients[fd]] = fd
  /\ \A id \in DOMAIN _clientsToFd :
       _clientsToFd[id] \in DOMAIN _clients /\ _clients[_clientsToFd[id]] = id
  /\ DOMAIN _clients = DOMAIN table
  /\ _active = DOMAIN table \union ({_socket} \ {NoFd})
  /\ IsFiniteSet(DOMAIN _clients) /\ Cardinality(DOMAIN _clients) <= NB_CONNECTION
  /\ _socket \notin DOMAIN table
  /\ ~Listening => DOMAIN table = {}

\* An id names one peer and a peer has one id and at most one descriptor; a
\* peer that has had an id and is no longer connected does not come back.
IdentityInv ==
  /\ DOMAIN owner = 0..(_next_id - 1)
  /\ \A id \in DOMAIN owner : owner[id] \in Peers
  /\ \A i, j \in DOMAIN owner : owner[i] = owner[j] => i = j
  /\ \A fd, fe \in DOMAIN table : table[fd] = table[fe] => fd = fe
  /\ \A fd \in DOMAIN table :
       /\ _clients[fd] \in DOMAIN owner
       /\ owner[_clients[fd]] = table[fd]
       /\ state[table[fd]] \in {"up", "closed", "reset"}
  /\ \A id \in DOMAIN owner : owner[id] \in Range(table) \/ state[owner[id]] = "gone"

\* What a scan still has before it is active, and it receives from an open
\* connection.
ScanInv ==
  /\ pc \in {"scan", "recv", "parse"} => \A fd \in _readyRead : at <= fd => fd \in _active
  /\ pc \in {"recv", "parse"} => at \in DOMAIN table
  /\ pc \in {"dispatch", "callback"} => at >= 1

\* Only the connection that is being parsed has bytes in _partialMsgs.
ParseInv ==
  /\ pc = "parse" => at \in DOMAIN _partialMsgs
  /\ \A fd \in DOMAIN _partialMsgs :
       (pc = "parse" /\ fd = at) \/ _partialMsgs[fd] = <<>>

Said(m, p) == m \in Range(sent[p])

\* A frame begins with a unit of a peer that has been accepted and, if it is
\* still connected, is the one behind descriptor fd.
FrameOf(f, fd, p) ==
  /\ f # <<>> /\ Said(f[1].msg, p) /\ p \in Range(owner)
  /\ p \in Range(table) => fd \in DOMAIN table /\ table[fd] = p

\* A message is sent by one peer.
OneSender == \A p, q \in Peers, m \in Msgs : Said(m, p) /\ Said(m, q) => p = q

\* The units on a connection, received or not, are those of its peer's messages.
WireInv == \A p \in Peers : \A i \in DOMAIN wire[p] : Said(wire[p][i].msg, p)

BufferInv ==
  pc = "parse" =>
    \A i \in DOMAIN _partialMsgs[at] : Said(_partialMsgs[at][i].msg, table[at])

\* So are those of a queued frame, and of the one a callback runs with.
QueueInv ==
  \A i \in DOMAIN _msgs : \E p \in Peers : FrameOf(_msgs[i].frame, _msgs[i].fd, p)

ToldInv ==
  pc = "callback" =>
    /\ told.frame \in Seq(Units) /\ told.frame # <<>>
    /\ \E p \in Peers : /\ Said(told.frame[1].msg, p)
                        /\ p \in Range(owner)
                        /\ p \in Range(table) => owner[told.id] = p

ServerInv ==
  /\ TypeOK /\ BooksInv /\ IdentityInv /\ ScanInv /\ ParseInv
  /\ OneSender /\ WireInv /\ BufferInv /\ QueueInv /\ ToldInv
  /\ RepliesReachTheirClient

-------------------------------------------------------------------------------
(***************************************************************************)
(* Functions that change at one point.                                     *)
(***************************************************************************)
\* An entry is assigned.
LEMMA Assigned ==
  ASSUME NEW f, NEW x, NEW v
  PROVE  /\ DOMAIN With(f, x, v) = DOMAIN f \union {x}
         /\ With(f, x, v)[x] = v
         /\ \A y \in DOMAIN f \ {x} : With(f, x, v)[y] = f[y]
BY DEF With

\* An entry is erased.
LEMMA Erased ==
  ASSUME NEW f, NEW x
  PROVE  /\ DOMAIN Without(f, x) = DOMAIN f \ {x}
         /\ \A y \in DOMAIN f \ {x} : Without(f, x)[y] = f[y]
BY DEF Without, Restrict

LEMMA Nobody == DOMAIN Empty = {} /\ Range(Empty) = {}
BY DEF Empty, Range

\* Where the descriptors the kernel hands out lie.
LEMMA LowestFree ==
  ASSUME NEW fd \in Lowest(Free)
  PROVE  fd \in Fds /\ fd # NoFd /\ fd \in Nat /\ fd \notin DOMAIN table /\ fd # _socket
BY ServerAssumption DEF Lowest, Free, NoFd

-------------------------------------------------------------------------------
(***************************************************************************)
(* The steps that write the books, and what each makes of them.            *)
(***************************************************************************)
\* What stop() does, called by the program or by a start() that fails.
Halts ==
  /\ MayCall /\ Shutdown
  /\ _max_fd' \in {_max_fd} \union Lowest(Free)
  /\ errno' \in {errno, "other"}

LEMMA Halting == stop \/ startFails => Halts
BY DEF stop, startFails, Halts

entries == <<_socket, _active, _max_fd, _next_id, _clients, _clientsToFd, table, owner>>

\* What becomes of a peer while the books stay as they are.
Moves(q) ==
  \/ state'[q] = state[q]
  \/ state[q] = "new" /\ state'[q] = "up"
  \/ state[q] = "up" /\ state'[q] \in {"closed", "reset"}
  \/ InBacklog(q) /\ state'[q] = "gone"

LEMMA Bookkeeping ==
  ASSUME TypeOK, [Next]_vars
  PROVE  \/ UNCHANGED entries /\ \A q \in Peers : Moves(q)
         \/ start \/ Halts
         \/ \E p \in Peers : accept(p) /\ ~Full
         \/ recvEnd
         \/ \E id \in Ids : sendToFails(id)
<1>0. state \in [Peers -> {"new", "up", "closed", "reset", "gone"}]
  BY DEF TypeOK
<1> USE <1>0 DEF entries, books, kernel, history
<1>1. CASE PeerStep
  BY <1>1 DEF PeerStep, Knock, Send, Part, Moves
<1>2. CASE update \/ UpdateDispatches \/ Dead \/ UNCHANGED vars
  BY <1>2 DEF update, UpdateDispatches, dispatchSkip, dispatchCall, callbackExhausted,
              dispatchEnds, callbackReturns, callbackThrows, Dead, vars, Moves
<1>3. ASSUME NEW p \in Peers, (accept(p) /\ Full) \/ acceptFails(p)
      PROVE  UNCHANGED entries /\ \A q \in Peers : Moves(q)
  BY <1>3 DEF accept, acceptFails, Moves
<1>4. CASE UpdateReceives
  BY <1>3, <1>4 DEF UpdateReceives, selectInterrupted, selectTimeout, selectReady, scanEnds,
              receive, recvBytes, parseMessage, parseEnds, recvAgain, Moves
<1>5. CASE Sends
  BY <1>5 DEF Sends, sendTo, sendDies, Moves
<1> QED BY Halting, <1>1, <1>2, <1>4, <1>5 DEF Next

\* A new client is entered: a descriptor that was free and an id never given.
LEMMA Entered ==
  ASSUME NEW p \in Peers, accept(p), ~Full
  PROVE  \E fd \in Lowest(Free) :
           /\ table' = With(table, fd, p)
           /\ _active' = _active \union {fd}
           /\ _readyRead' = _readyRead \union {fd}
           /\ _clients' = With(_clients, fd, _next_id)
           /\ _clientsToFd' = With(_clientsToFd, _next_id, fd)
           /\ owner' = With(owner, _next_id, p)
           /\ _next_id' = _next_id + 1
           /\ _max_fd' = Highest(fd)
           /\ _socket' = _socket /\ state' = state /\ wire' = wire
BY DEF accept

\* A client is erased: its descriptor and its id go together.
Erasing(fd) ==
  /\ fd \in DOMAIN table
  /\ table' = Without(table, fd)
  /\ state' = [state EXCEPT ![table[fd]] = "gone"]
  /\ wire' = [wire EXCEPT ![table[fd]] = <<>>]
  /\ _clients' = Without(_clients, fd)
  /\ _clientsToFd' = Without(_clientsToFd, _clients[fd])
  /\ _active' = _active \ {fd}
  /\ UNCHANGED <<_max_fd, _next_id, _socket, owner>>

LEMMA ErasedBy ==
  ASSUME BooksInv, ScanInv
  PROVE  /\ recvEnd => Erasing(at)
         /\ \A id \in Ids : sendToFails(id) => Erasing(_clientsToFd[id])
BY DEF BooksInv, ScanInv, recvEnd, sendToFails, Erasing, CloseConnection, Forget, history

LEMMA BooksStep ==
  ASSUME TypeOK, BooksInv, IdentityInv, ScanInv, [Next]_vars
  PROVE  BooksInv'
<1>1. CASE UNCHANGED entries
  BY <1>1 DEF BooksInv, entries, Listening
<1>2. CASE start
  <2>1. DOMAIN table = {} /\ table' = table /\ _clients' = _clients
        /\ _clientsToFd' = _clientsToFd /\ _active' = {_socket'} /\ _socket' \in Lowest(Free)
    BY <1>2 DEF start, BooksInv, kernel
  <2>2. _socket' # NoFd
    BY <2>1, ServerAssumption DEF Lowest, Free, NoFd
  <2> QED BY <2>1, <2>2 DEF BooksInv, Listening
<1>3. CASE Halts
  <2>1. /\ _clients' = Empty /\ _clientsToFd' = Empty /\ _active' = {} /\ _socket' = NoFd
        /\ DOMAIN table' = {}
    BY <1>3 DEF Halts, Shutdown, ClearAll, BooksInv, Restrict
  <2>2. IsFiniteSet({}) /\ Cardinality({}) <= NB_CONNECTION
    BY FS_EmptySet, ServerAssumption
  <2> QED BY <2>1, <2>2, Nobody DEF BooksInv, Listening
<1>4. ASSUME NEW p \in Peers, accept(p), ~Full PROVE BooksInv'
  <2>1. PICK fd \in Lowest(Free) :
          /\ table' = With(table, fd, p)
          /\ _active' = _active \union {fd}
          /\ _clients' = With(_clients, fd, _next_id)
          /\ _clientsToFd' = With(_clientsToFd, _next_id, fd)
          /\ _socket' = _socket
    BY <1>4, Entered
  <2>2. fd \notin DOMAIN table /\ fd # _socket /\ fd # NoFd
    BY LowestFree
  <2>3. _next_id \notin DOMAIN _clientsToFd
    BY DEF BooksInv, IdentityInv, TypeOK, Ids
  <2>4. /\ DOMAIN table' = DOMAIN table \union {fd}
        /\ DOMAIN _clients' = DOMAIN _clients \union {fd} /\ _clients'[fd] = _next_id
        /\ \A fe \in DOMAIN _clients \ {fd} : _clients'[fe] = _clients[fe]
        /\ DOMAIN _clientsToFd' = DOMAIN _clientsToFd \union {_next_id}
        /\ _clientsToFd'[_next_id] = fd
        /\ \A id \in DOMAIN _clientsToFd \ {_next_id} : _clientsToFd'[id] = _clientsToFd[id]
    BY <2>1 DEF With
  <2>5. IsFiniteSet(DOMAIN _clients') /\ Cardinality(DOMAIN _clients') <= NB_CONNECTION
    <3>1. IsFiniteSet(DOMAIN _clients) /\ fd \notin DOMAIN _clients
          /\ Cardinality(DOMAIN _clients) < NB_CONNECTION
      <4>1. Cardinality(DOMAIN _clients) \in Nat
        BY FS_CardinalityType DEF BooksInv
      <4> QED BY <2>2, <1>4, <4>1, ServerAssumption DEF BooksInv, Full
    <3>2. Cardinality(DOMAIN _clients) \in Nat
      BY <3>1, FS_CardinalityType
    <3>3. /\ IsFiniteSet(DOMAIN _clients \union {fd})
          /\ Cardinality(DOMAIN _clients \union {fd}) = Cardinality(DOMAIN _clients) + 1
      BY <3>1, FS_AddElement
    <3> QED BY <2>4, <3>1, <3>2, <3>3, ServerAssumption
  <2>6. Listening' /\ _socket' \notin DOMAIN table'
    BY <1>4, <2>1, <2>2, <2>4, ServerAssumption
       DEF accept, BooksInv, Listening, Lowest, ToScan, TypeOK, NoFd
  <2> QED BY <2>1, <2>2, <2>3, <2>4, <2>5, <2>6 DEF BooksInv
<1>5. ASSUME NEW fd, Erasing(fd) PROVE BooksInv'
  <2>1. /\ fd \in DOMAIN _clients /\ _clients[fd] \in DOMAIN _clientsToFd
        /\ DOMAIN table' = DOMAIN table \ {fd}
        /\ DOMAIN _clients' = DOMAIN _clients \ {fd}
        /\ \A fe \in DOMAIN _clients \ {fd} : _clients'[fe] = _clients[fe]
        /\ DOMAIN _clientsToFd' = DOMAIN _clientsToFd \ {_clients[fd]}
        /\ \A id \in DOMAIN _clientsToFd \ {_clients[fd]} : _clientsToFd'[id] = _clientsToFd[id]
    BY <1>5 DEF Erasing, BooksInv, Without, Restrict
  <2>2. IsFiniteSet(DOMAIN _clients') /\ Cardinality(DOMAIN _clients') <= NB_CONNECTION
    <3>1. IsFiniteSet(DOMAIN _clients)
      BY DEF BooksInv
    <3>2. Cardinality(DOMAIN _clients) \in Nat
      BY <3>1, FS_CardinalityType
    <3>3. /\ IsFiniteSet(DOMAIN _clients \ {fd})
          /\ Cardinality(DOMAIN _clients \ {fd}) = Cardinality(DOMAIN _clients) - 1
      BY <2>1, <3>1, FS_RemoveElement
    <3> QED BY <2>1, <3>2, <3>3, ServerAssumption DEF BooksInv
  <2>3. fd # _socket /\ fd \in DOMAIN table
    BY <1>5 DEF Erasing, BooksInv
  <2> QED BY <1>5, <2>1, <2>2, <2>3 DEF BooksInv, Erasing, Listening
<1> QED BY <1>1, <1>2, <1>3, <1>4, <1>5, Bookkeeping, ErasedBy

\* Ids are given once and peers are accepted once.
LEMMA IdentityStep ==
  ASSUME TypeOK, BooksInv, IdentityInv, ScanInv, [Next]_vars
  PROVE  IdentityInv'
<1>1. ASSUME UNCHANGED entries, \A q \in Peers : Moves(q) PROVE IdentityInv'
  <2>1. \A fd \in DOMAIN table : table[fd] \in Peers /\ table[fd] \in Range(table)
    BY DEF TypeOK, Range
  <2>2. \A fd \in DOMAIN table : state'[table[fd]] \in {"up", "closed", "reset"}
    BY <1>1, <2>1 DEF IdentityInv, Moves, InBacklog
  <2>3. \A id \in DOMAIN owner : owner[id] \in Range(table) \/ state'[owner[id]] = "gone"
    BY <1>1 DEF IdentityInv, Moves, InBacklog
  <2> QED BY <1>1, <2>2, <2>3 DEF IdentityInv, entries
<1>2. CASE start
  BY <1>2 DEF start, kernel, IdentityInv
<1>3. CASE Halts
  <2>1. DOMAIN table' = {} /\ owner' = owner /\ _next_id' = _next_id
        /\ \A q \in Peers : state[q] # "new" => state'[q] = "gone"
    BY <1>3 DEF Halts, Shutdown, BooksInv, Restrict, history
  <2>2. \A id \in DOMAIN owner : state[owner[id]] # "new"
    <3> SUFFICES ASSUME NEW id \in DOMAIN owner, owner[id] \in Range(table)
                 PROVE  state[owner[id]] # "new"
      BY DEF IdentityInv
    <3> QED BY DEF IdentityInv, Range
  <2> QED BY <2>1, <2>2 DEF IdentityInv
<1>4. ASSUME NEW p \in Peers, accept(p), ~Full PROVE IdentityInv'
  <2>1. PICK fd \in Lowest(Free) :
          /\ table' = With(table, fd, p)
          /\ _clients' = With(_clients, fd, _next_id)
          /\ owner' = With(owner, _next_id, p)
          /\ _next_id' = _next_id + 1
          /\ state' = state
    BY <1>4, Entered
  <2>2. fd \notin DOMAIN table
    BY LowestFree
  <2>3. _next_id \in Nat /\ DOMAIN owner = 0..(_next_id - 1) /\ _next_id \notin DOMAIN owner
    BY DEF IdentityInv, TypeOK, Ids
  <2>4. /\ DOMAIN table' = DOMAIN table \union {fd} /\ table'[fd] = p
        /\ \A fe \in DOMAIN table : table'[fe] = table[fe]
        /\ DOMAIN _clients' = DOMAIN _clients \union {fd} /\ _clients'[fd] = _next_id
        /\ \A fe \in DOMAIN table : _clients'[fe] = _clients[fe]
        /\ DOMAIN owner' = DOMAIN owner \union {_next_id} /\ owner'[_next_id] = p
        /\ \A id \in DOMAIN owner : owner'[id] = owner[id]
    BY <2>1, <2>2, <2>3 DEF With, BooksInv
  <2>5. /\ p \notin Range(table) /\ state[p] \in {"up", "closed", "reset"}
        /\ \A id \in DOMAIN owner : owner[id] # p
        /\ \A fe \in DOMAIN table : table[fe] # p
    BY <1>4 DEF accept, InBacklog, IdentityInv, Range
  <2>6. DOMAIN owner' = 0..(_next_id' - 1)
    BY <2>1, <2>3, <2>4
  <2>7. \A id \in DOMAIN owner' : owner'[id] \in Range(table') \/ state'[owner'[id]] = "gone"
    <3>1. Range(table) \subseteq Range(table') /\ p \in Range(table')
      BY <2>2, <2>4 DEF Range
    <3> QED BY <3>1, <2>1, <2>4 DEF IdentityInv
  <2>8. \A i, j \in DOMAIN owner' : owner'[i] = owner'[j] => i = j
    BY <2>4, <2>5 DEF IdentityInv
  <2>9. \A fe, ff \in DOMAIN table' : table'[fe] = table'[ff] => fe = ff
    BY <2>4, <2>5 DEF IdentityInv
  <2>10. \A fe \in DOMAIN table' : /\ _clients'[fe] \in DOMAIN owner'
                                   /\ owner'[_clients'[fe]] = table'[fe]
                                   /\ state'[table'[fe]] \in {"up", "closed", "reset"}
    BY <2>1, <2>4, <2>5 DEF IdentityInv
  <2>11. \A id \in DOMAIN owner' : owner'[id] \in Peers
    BY <2>4 DEF IdentityInv
  <2> QED BY <2>6, <2>7, <2>8, <2>9, <2>10, <2>11 DEF IdentityInv
<1>5. ASSUME NEW fd, Erasing(fd) PROVE IdentityInv'
  <2>1. /\ fd \in DOMAIN table /\ owner' = owner /\ _next_id' = _next_id
        /\ DOMAIN table' = DOMAIN table \ {fd} /\ state' = [state EXCEPT ![table[fd]] = "gone"]
        /\ \A fe \in DOMAIN table' : table'[fe] = table[fe] /\ _clients'[fe] = _clients[fe]
    BY <1>5 DEF Erasing, BooksInv, Without, Restrict
  <2>2. state \in [Peers -> {"new", "up", "closed", "reset", "gone"}] /\ table[fd] \in Peers
    BY <2>1 DEF TypeOK, Range
  <2>3. \A fe \in DOMAIN table' : state'[table'[fe]] = state[table[fe]]
    BY <2>1, <2>2 DEF IdentityInv, TypeOK, Range
  <2>4. \A id \in DOMAIN owner : owner[id] \in Range(table') \/ state'[owner[id]] = "gone"
    BY <2>1, <2>2 DEF IdentityInv, Range
  <2>5. \A fe \in DOMAIN table' : /\ _clients'[fe] \in DOMAIN owner'
                                  /\ owner'[_clients'[fe]] = table'[fe]
                                  /\ state'[table'[fe]] \in {"up", "closed", "reset"}
    BY <2>1, <2>3 DEF IdentityInv
  <2>6. \A fe, ff \in DOMAIN table' : table'[fe] = table'[ff] => fe = ff
    BY <2>1 DEF IdentityInv
  <2> QED BY <2>1, <2>4, <2>5, <2>6 DEF IdentityInv
<1> QED BY <1>1, <1>2, <1>3, <1>4, <1>5, Bookkeeping, ErasedBy

-------------------------------------------------------------------------------
(***************************************************************************)
(* Types: of the books, of the control state and of the data.              *)
(***************************************************************************)
EntriesOK ==
  /\ _socket \in Fds \union {NoFd}
  /\ _max_fd \in Fds \union {NoFd}
  /\ _next_id \in Ids
  /\ \A fd \in _active : fd <= _max_fd
  /\ _active \subseteq Fds
  /\ DOMAIN _clients \subseteq Fds
  /\ \A fd \in DOMAIN _clients : _clients[fd] \in Ids
  /\ DOMAIN _clientsToFd \subseteq Ids
  /\ \A id \in DOMAIN _clientsToFd : _clientsToFd[id] \in Fds
  /\ DOMAIN table \subseteq Fds
  /\ \A fd \in DOMAIN table : table[fd] \in Peers
  /\ DOMAIN owner \subseteq Ids

ControlOK ==
  /\ _readyRead \subseteq Fds
  /\ pc \in {"idle", "select", "scan", "recv", "parse", "dispatch", "callback", "dead"}
  /\ at \in Nat
  /\ state \in [Peers -> {"new", "up", "closed", "reset", "gone"}]
  /\ cut \subseteq Peers
  /\ errno \in {"EINTR", "other"}
  /\ starts \in 0..MaxStarts /\ throws \in 0..MaxThrows

Mail == [frame : Seq(Units), fd : Fds, read : BOOLEAN]

DataOK ==
  /\ DOMAIN _partialMsgs \subseteq Fds
  /\ \A fd \in DOMAIN _partialMsgs : _partialMsgs[fd] \in Seq(Units)
  /\ _msgs \in Seq(Mail)
  /\ wire \in [Peers -> Seq(Units)]
  /\ sent \in [Peers -> Seq(Msgs)]

LEMMA Types == TypeOK <=> /\ EntriesOK /\ ControlOK /\ DataOK
                          /\ misdelivered \in BOOLEAN
<1>1. ASSUME NEW f, NEW S PROVE Range(f) \subseteq S <=> \A x \in DOMAIN f : f[x] \in S
  BY DEF Range
<1>2. /\ Range(_clients) \subseteq Ids <=> \A fd \in DOMAIN _clients : _clients[fd] \in Ids
      /\ Range(_clientsToFd) \subseteq Fds
         <=> \A id \in DOMAIN _clientsToFd : _clientsToFd[id] \in Fds
      /\ Range(_partialMsgs) \subseteq Seq(Units)
         <=> \A fd \in DOMAIN _partialMsgs : _partialMsgs[fd] \in Seq(Units)
      /\ Range(table) \subseteq Peers <=> \A fd \in DOMAIN table : table[fd] \in Peers
  BY <1>1, Zenon
<1> QED BY <1>2, Zenon DEF TypeOK, EntriesOK, ControlOK, DataOK, Mail

\* There are as many ids as peers at most: each is given to another peer.
LEMMA IdsSuffice ==
  ASSUME NEW n \in Nat, NEW f, DOMAIN f = 0..(n - 1),
         \A i \in DOMAIN f : f[i] \in Peers,
         \A i, j \in DOMAIN f : f[i] = f[j] => i = j
  PROVE  n \in Ids
<1> DEFINE g == [i \in 0..(n - 1) |-> f[i]]
<1>1. g \in Injection(0..(n - 1), Peers)
  BY DEF Injection, IsInjective
<1>2. IsFiniteSet(0..(n - 1)) /\ Cardinality(0..(n - 1)) = n
  BY FS_Interval
<1>3. IsFiniteSet(Peers)
  BY ServerAssumption
<1> HIDE DEF g
<1>4. Cardinality(0..(n - 1)) <= Cardinality(Peers)
  BY <1>1, <1>3, FS_Injection
<1>5. Cardinality(Peers) \in Nat
  BY <1>3, FS_CardinalityType
<1> QED BY <1>2, <1>4, <1>5 DEF Ids

LEMMA EntriesStep ==
  ASSUME TypeOK, BooksInv, IdentityInv, ScanInv, [Next]_vars
  PROVE  EntriesOK'
<1>0. EntriesOK
  BY Types
<1>1. CASE UNCHANGED entries
  BY <1>0, <1>1 DEF EntriesOK, entries
<1>2. CASE start
  <2>1. /\ _socket' \in Lowest(Free) /\ _max_fd' = _socket' /\ _active' = {_socket'}
        /\ UNCHANGED <<_next_id, _clients, _clientsToFd, table, owner>>
    BY <1>2 DEF start, kernel
  <2>2. _socket' \in Fds /\ _socket' \in Nat
    BY <2>1, LowestFree
  <2> QED BY <1>0, <2>1, <2>2 DEF EntriesOK
<1>3. CASE Halts
  <2>1. /\ _clients' = Empty /\ _clientsToFd' = Empty /\ _active' = {} /\ _socket' = NoFd
        /\ DOMAIN table' = {} /\ UNCHANGED <<_next_id, owner>>
        /\ _max_fd' \in {_max_fd} \union Lowest(Free)
    BY <1>3 DEF Halts, Shutdown, ClearAll, BooksInv, Restrict, history
  <2>2. \A fd \in Lowest(Free) : fd \in Fds
    BY LowestFree
  <2> QED BY <1>0, <2>1, <2>2, Nobody DEF EntriesOK
<1>4. ASSUME NEW p \in Peers, accept(p), ~Full PROVE EntriesOK'
  <2>1. PICK fd \in Lowest(Free) :
          /\ table' = With(table, fd, p)
          /\ _active' = _active \union {fd}
          /\ _clients' = With(_clients, fd, _next_id)
          /\ _clientsToFd' = With(_clientsToFd, _next_id, fd)
          /\ owner' = With(owner, _next_id, p)
          /\ _next_id' = _next_id + 1
          /\ _max_fd' = Highest(fd)
          /\ _socket' = _socket
    BY <1>4, Entered
  <2>2. fd \in Fds /\ fd \in Nat
    BY LowestFree
  <2>3. /\ DOMAIN table' = DOMAIN table \union {fd}
        /\ \A fe \in DOMAIN table' : table'[fe] \in {p, table[fe]} /\ (fe # fd => table'[fe] = table[fe])
        /\ table'[fd] = p
    BY <2>1 DEF With
  <2>4. /\ DOMAIN _clients' = DOMAIN _clients \union {fd}
        /\ \A fe \in DOMAIN _clients : fe # fd => _clients'[fe] = _clients[fe]
        /\ _clients'[fd] = _next_id
    BY <2>1 DEF With
  <2>5. /\ DOMAIN _clientsToFd' = DOMAIN _clientsToFd \union {_next_id}
        /\ \A id \in DOMAIN _clientsToFd : id # _next_id => _clientsToFd'[id] = _clientsToFd[id]
        /\ _clientsToFd'[_next_id] = fd
    BY <2>1 DEF With
  <2>6. /\ DOMAIN owner' = 0..(_next_id' - 1)
        /\ \A id \in DOMAIN owner' : owner'[id] \in Peers
        /\ \A i, j \in DOMAIN owner' : owner'[i] = owner'[j] => i = j
    BY IdentityStep DEF IdentityInv
  <2>7. _next_id \in Nat /\ _next_id + 1 \in Nat
    BY <1>0 DEF EntriesOK, Ids
  <2>8. _next_id' \in Ids
    BY <2>1, <2>6, <2>7, IdsSuffice
  <2>9. DOMAIN owner' \subseteq Ids
    <3>1. Cardinality(Peers) \in Nat
      BY FS_CardinalityType, ServerAssumption
    <3>2. _next_id' \in 0..Cardinality(Peers)
      BY <2>8 DEF Ids
    <3>3. 0..(_next_id' - 1) \subseteq 0..Cardinality(Peers)
      <4>1. \A c \in Nat : \A n \in 0..c : 0..(n - 1) \subseteq 0..c
        OBVIOUS
      <4> QED BY <3>1, <3>2, <4>1, Zenon
    <3> QED BY <2>6, <3>3 DEF Ids
  <2>10. _max_fd' \in Fds \union {NoFd} /\ \A fe \in _active' : fe <= _max_fd'
    BY <1>0, <2>1, <2>2, ServerAssumption DEF EntriesOK, Highest, NoFd
  <2> QED BY <1>0, <2>1, <2>2, <2>3, <2>4, <2>5, <2>8, <2>9, <2>10 DEF EntriesOK
<1>5. ASSUME NEW fd, Erasing(fd) PROVE EntriesOK'
  <2>1. /\ DOMAIN table' \subseteq DOMAIN table
        /\ \A fe \in DOMAIN table' : table'[fe] = table[fe]
        /\ DOMAIN _clients' \subseteq DOMAIN _clients
        /\ \A fe \in DOMAIN _clients' : _clients'[fe] = _clients[fe]
        /\ DOMAIN _clientsToFd' \subseteq DOMAIN _clientsToFd
        /\ \A id \in DOMAIN _clientsToFd' : _clientsToFd'[id] = _clientsToFd[id]
        /\ _active' \subseteq _active /\ UNCHANGED <<_max_fd, _next_id, _socket, owner>>
    BY <1>5 DEF Erasing, Without, Restrict
  <2> QED BY <1>0, <2>1 DEF EntriesOK
<1> QED BY <1>1, <1>2, <1>3, <1>4, <1>5, Bookkeeping, ErasedBy

\* The control state.
LEMMA ControlStep ==
  ASSUME TypeOK, BooksInv, ScanInv, [Next]_vars
  PROVE  ControlOK'
<1>0. ControlOK /\ EntriesOK
  BY Types
<1>1. _socket \in Nat /\ _socket + 1 \in Nat /\ at + 1 \in Nat /\ Fds \subseteq Nat
  BY <1>0, ServerAssumption DEF ControlOK, EntriesOK, NoFd
<1> USE DEF ControlOK
<1>2. CASE PeerStep
  BY <1>0, <1>2 DEF PeerStep, Knock, Send, Part, history
<1>3. CASE start \/ Halts
  <2>1. CASE start
    BY <1>0, <2>1, ServerAssumption DEF start, kernel
  <2>2. CASE Halts
    <3>1. state' \in [Peers -> {"new", "up", "closed", "reset", "gone"}]
      BY <1>0, <2>2 DEF Halts, Shutdown
    <3> QED BY <1>0, <2>2, <3>1 DEF Halts, Shutdown, history
  <2> QED BY <1>3, <2>1, <2>2
<1>4. CASE update \/ Dead \/ UNCHANGED vars
  BY <1>0, <1>4 DEF update, Dead, vars, kernel, history
<1>5. ASSUME NEW p \in Peers, accept(p) PROVE ControlOK'
  <2>1. CASE Full
    BY <1>0, <1>1, <1>5, <2>1 DEF accept
  <2>2. CASE ~Full
    <3>1. PICK fd \in Lowest(Free) : _readyRead' = _readyRead \union {fd} /\ state' = state
      BY <1>5, <2>2, Entered
    <3>2. fd \in Fds
      BY LowestFree
    <3> QED BY <1>0, <1>1, <1>5, <3>1, <3>2 DEF accept
  <2> QED BY <2>1, <2>2
<1>6. ASSUME NEW p \in Peers, acceptFails(p) PROVE ControlOK'
  BY <1>0, <1>1, <1>6 DEF acceptFails, history
<1>7. CASE selectInterrupted \/ selectTimeout \/ scanEnds \/ recvAgain
  <2>1. CASE selectInterrupted \/ selectTimeout \/ scanEnds
    BY <1>0, <2>1 DEF selectInterrupted, selectTimeout, scanEnds, kernel, history
  <2>2. CASE recvAgain
    BY <1>0, <1>1, <2>2 DEF recvAgain, kernel, history
  <2> QED BY <1>7, <2>1, <2>2
<1>8. CASE selectReady
  BY <1>0, <1>8 DEF selectReady, kernel, history, EntriesOK
<1>9. CASE receive
  BY <1>0, <1>1, <1>9 DEF receive, kernel, history, Lowest, ToScan
<1>10. CASE recvBytes
  <2>1. cut' = cut \/ cut' = cut \union {table[at]}
    BY <1>10 DEF recvBytes
  <2>2. table[at] \in Peers
    BY <1>0, <1>10 DEF recvBytes, ScanInv, EntriesOK
  <2> QED BY <1>0, <1>10, <2>1, <2>2 DEF recvBytes
<1>11. CASE parseMessage \/ parseEnds
  BY <1>0, <1>11 DEF parseMessage, parseEnds, kernel, history
<1>12. CASE recvEnd
  BY <1>0, <1>1, <1>12 DEF recvEnd, CloseConnection, history
<1>13. CASE UpdateDispatches
  <2>1. CASE dispatchSkip \/ callbackExhausted \/ dispatchEnds
    BY <1>0, <1>1, <2>1 DEF dispatchSkip, callbackExhausted, dispatchEnds, kernel, history
  <2>2. CASE dispatchCall
    BY <1>0, <2>2 DEF dispatchCall, kernel
  <2>3. CASE callbackReturns
    BY <1>0, <1>1, <2>3 DEF callbackReturns, kernel
  <2>4. CASE callbackThrows
    BY <1>0, <2>4, ServerAssumption DEF callbackThrows, kernel
  <2> QED BY <1>13, <2>1, <2>2, <2>3, <2>4 DEF UpdateDispatches
<1>14. CASE Sends
  BY <1>0, <1>14 DEF Sends, sendTo, sendToFails, sendDies, CloseConnection, kernel, history
<1> QED
  BY Halting, <1>2, <1>3, <1>4, <1>5, <1>6, <1>7, <1>8, <1>9, <1>10, <1>11, <1>12, <1>13, <1>14
  DEF Next, UpdateReceives

\* The scan never meets a descriptor that was closed behind its back.
LEMMA ScanStep ==
  ASSUME TypeOK, BooksInv, ScanInv, [Next]_vars
  PROVE  ScanInv'
<1>0. /\ _socket \in Nat /\ at \in Nat /\ _readyRead \subseteq Nat /\ _active \subseteq Nat
      /\ \A fd \in _active : fd <= _max_fd
  BY ServerAssumption DEF TypeOK, NoFd
<1> USE DEF ScanInv
<1>1. CASE PeerStep
  BY <1>1 DEF PeerStep, Knock, Send, Part, books
<1>2. CASE start \/ Halts
  <2>1. pc \in {"idle", "callback"} /\ pc' = pc /\ at' = at
    BY <1>2 DEF start, Halts, Shutdown, MayCall
  <2> QED BY <2>1
<1>3. CASE update \/ Dead \/ UNCHANGED vars
  BY <1>3 DEF update, Dead, vars, books, kernel
<1>4. CASE selectInterrupted \/ selectTimeout \/ scanEnds
  BY <1>4 DEF selectInterrupted, selectTimeout, scanEnds
<1>5. CASE selectReady
  <2>1. _readyRead' \subseteq _active /\ _active' = _active /\ pc' = "scan"
    BY <1>5 DEF selectReady, books
  <2> QED BY <2>1
<1>6. CASE receive
  <2>1. PICK fd \in Lowest(ToScan) \ {_socket} : at' = fd
    BY <1>6 DEF receive
  <2>2. pc = "scan" /\ fd \in _readyRead /\ at <= fd /\ fd # _socket
    BY <1>6, <2>1 DEF receive, Lowest, ToScan
  <2>3. fd \in _active /\ fd \in DOMAIN table
    BY <2>2 DEF BooksInv
  <2>4. pc' = "recv" /\ UNCHANGED <<_readyRead, _active, table>>
    BY <1>6 DEF receive, books, kernel
  <2>5. \A fe \in _readyRead : fd <= fe => at <= fe
    BY <1>0, <2>2
  <2> QED BY <2>1, <2>2, <2>3, <2>4, <2>5
<1>7. ASSUME NEW p \in Peers, accept(p) \/ acceptFails(p) PROVE ScanInv'
  <2>1. pc = "scan" /\ pc' = "scan" /\ at' = _socket + 1 /\ _socket \in Lowest(ToScan)
    BY <1>7 DEF accept, acceptFails
  <2>2. \A fe \in _readyRead : _socket + 1 <= fe => fe \in _active
    BY <1>0, <2>1 DEF Lowest, ToScan
  <2>3. CASE UNCHANGED <<_readyRead, _active>>
    BY <2>1, <2>2, <2>3
  <2>4. CASE accept(p) /\ ~Full
    <3>1. PICK fd \in Lowest(Free) : /\ _readyRead' = _readyRead \union {fd}
                                     /\ _active' = _active \union {fd}
      BY <2>4, Entered
    <3> QED BY <2>1, <2>2, <3>1
  <2> QED BY <1>7, <2>3, <2>4 DEF accept, acceptFails, books
<1>8. CASE recvBytes \/ parseMessage \/ parseEnds
  BY <1>8 DEF recvBytes, parseMessage, parseEnds, books, kernel
<1>9. CASE recvAgain
  <2>1. /\ pc = "recv" /\ pc' = "scan" /\ at' = at + 1
        /\ UNCHANGED <<_readyRead, _active>>
    BY <1>9 DEF recvAgain, books
  <2> QED BY <1>0, <2>1
<1>10. CASE recvEnd
  <2>1. /\ pc = "recv" /\ pc' = "scan" /\ at' = at + 1
        /\ _readyRead' = _readyRead /\ _active' = _active \ {at}
    BY <1>10 DEF recvEnd, Forget
  <2> QED BY <1>0, <2>1
<1>11. CASE dispatchSkip
  <2>1. pc = "dispatch" /\ pc' = pc /\ at' = at + 1
    BY <1>11 DEF dispatchSkip, Dispatching
  <2> QED BY <1>0, <2>1
<1>12. CASE dispatchCall
  <2>1. pc = "dispatch" /\ pc' = "callback" /\ at' = at
    BY <1>12 DEF dispatchCall, Dispatching
  <2> QED BY <2>1
<1>13. CASE callbackReturns
  <2>1. pc = "callback" /\ pc' = "dispatch" /\ at' = at + 1
    BY <1>13 DEF callbackReturns
  <2> QED BY <1>0, <2>1
<1>14. CASE callbackExhausted \/ dispatchEnds \/ callbackThrows
  <2>1. pc' = "idle"
    BY <1>14 DEF callbackExhausted, dispatchEnds, callbackThrows
  <2> QED BY <2>1
<1>15. CASE Sends
  <2>1. pc \in {"idle", "callback"} /\ (pc' = pc \/ pc' = "dead") /\ at' = at
    BY <1>15 DEF Sends, sendTo, sendToFails, sendDies, MayCall
  <2> QED BY <2>1
<1> QED
  BY <1>1, <1>2, <1>3, <1>4, <1>5, <1>6, <1>7, <1>8, <1>9, <1>10, <1>11, <1>12, <1>13,
     <1>14, <1>15, Halting
  DEF Next, UpdateReceives, UpdateDispatches

\* The steps that write _partialMsgs, and the pc they are at.
LEMMA Parsing ==
  ASSUME [Next]_vars
  PROVE  \/ recvBytes \/ parseMessage \/ parseEnds \/ recvEnd \/ Halts
         \/ \E id \in Ids : sendToFails(id)
         \/ /\ _partialMsgs' = _partialMsgs
            /\ pc = "parse" => pc' = "parse" /\ at' = at
            /\ pc' = "parse" => pc = "parse"
<1> USE DEF input
<1>1. CASE PeerStep
  BY <1>1 DEF PeerStep, Knock, Send, Part
<1>2. CASE start \/ update \/ Dead \/ UNCHANGED vars
  BY <1>2 DEF start, update, Dead, vars
<1>3. CASE UpdateReceives
  BY <1>3 DEF UpdateReceives, selectInterrupted, selectTimeout, selectReady, scanEnds,
              receive, accept, acceptFails, recvAgain
<1>4. CASE UpdateDispatches
  BY <1>4 DEF UpdateDispatches, dispatchSkip, dispatchCall, callbackExhausted,
              dispatchEnds, callbackReturns, callbackThrows, Dispatching
<1>5. CASE Sends
  BY <1>5 DEF Sends, sendTo, sendDies, MayCall
<1> QED BY Halting, <1>1, <1>2, <1>3, <1>4, <1>5 DEF Next

\* What the receiver and the parser make of _partialMsgs.
LEMMA Received ==
  ASSUME TypeOK, ScanInv, ParseInv, recvBytes
  PROVE  LET p == table[at] IN
         /\ p \in Peers /\ pc = "recv" /\ pc' = "parse" /\ at' = at
         /\ DOMAIN _partialMsgs' = DOMAIN _partialMsgs \union {at}
         /\ \A fd \in DOMAIN _partialMsgs : fd # at => _partialMsgs'[fd] = _partialMsgs[fd]
         /\ \E n \in 1..Len(wire[p]) : /\ _partialMsgs'[at] = Take(wire[p], n)
                                       /\ wire' = [wire EXCEPT ![p] = Drop(wire[p], n)]
                                       /\ cut' = IF BetweenMessages(p, n) THEN cut ELSE cut \union {p}
<1> DEFINE p == table[at]
<1>1. EntriesOK /\ DataOK /\ pc = "recv" /\ pc' = "parse" /\ at' = at
  BY Types DEF recvBytes
<1>2. at \in DOMAIN table /\ p \in Peers
  BY <1>1 DEF ScanInv, EntriesOK
<1>3. PICK n \in 1..Len(wire[p]) :
        /\ _partialMsgs' = With(_partialMsgs, at, Partial(at) \o Take(wire[p], n))
        /\ wire' = [wire EXCEPT ![p] = Drop(@, n)]
        /\ cut' = IF BetweenMessages(p, n) THEN cut ELSE cut \union {p}
  BY DEF recvBytes
<1>4. wire[p] \in Seq(Units) /\ wire' = [wire EXCEPT ![p] = Drop(wire[p], n)]
  BY <1>1, <1>2, <1>3 DEF DataOK
<1>5. Take(wire[p], n) \in Seq(Units)
  <2>1. n \in 0..Len(wire[p])
    BY <1>4
  <2> QED BY <1>4, <2>1, Divided
<1>6. Partial(at) = <<>>
  BY <1>1 DEF Partial, ParseInv
<1>7. Partial(at) \o Take(wire[p], n) = Take(wire[p], n)
  BY <1>5, <1>6, ConcatEmptySeq
<1>8. /\ DOMAIN _partialMsgs' = DOMAIN _partialMsgs \union {at}
      /\ _partialMsgs'[at] = Take(wire[p], n)
      /\ \A fd \in DOMAIN _partialMsgs : fd # at => _partialMsgs'[fd] = _partialMsgs[fd]
  BY <1>3, <1>7 DEF With
<1> QED BY <1>1, <1>2, <1>3, <1>4, <1>8

LEMMA Parsed ==
  ASSUME TypeOK, ScanInv, ParseInv, parseMessage
  PROVE  /\ pc = "parse" /\ pc' = pc /\ at' = at /\ at \in Fds
         /\ _partialMsgs[at] \in Seq(Units)
         /\ \E n \in 2..Len(_partialMsgs[at]) :
              /\ CompleteWith(_partialMsgs[at], n)
              /\ _msgs' = Append(_msgs, [frame |-> Take(_partialMsgs[at], n),
                                         fd |-> at, read |-> FALSE])
              /\ _partialMsgs' = [_partialMsgs EXCEPT ![at] = Drop(_partialMsgs[at], n)]
<1>1. EntriesOK /\ DataOK
  BY Types
<1>2. pc = "parse" /\ pc' = pc /\ at' = at
  BY DEF parseMessage
<1>3. at \in Fds /\ _partialMsgs[at] \in Seq(Units)
  BY <1>1, <1>2 DEF ParseInv, DataOK
<1>4. PICK n \in Header..Len(_partialMsgs[at]) :
        /\ CompleteWith(_partialMsgs[at], n)
        /\ _msgs' = Append(_msgs, [frame |-> Frame(n), fd |-> Receiver, read |-> FALSE])
        /\ _partialMsgs' = [_partialMsgs EXCEPT ![at] = Drop(@, n)]
  BY DEF parseMessage
<1>5. /\ _msgs' = Append(_msgs, [frame |-> Take(_partialMsgs[at], n),
                                 fd |-> at, read |-> FALSE])
      /\ _partialMsgs' = [_partialMsgs EXCEPT ![at] = Drop(_partialMsgs[at], n)]
  BY <1>2, <1>4 DEF Frame, Receiver, ParseInv
<1>6. n \in 2..Len(_partialMsgs[at])
  BY <1>4 DEF Header
<1> QED BY <1>2, <1>3, <1>4, <1>5, <1>6

\* Unparsed bytes are those of the connection being parsed.
LEMMA ParseStep ==
  ASSUME TypeOK, BooksInv, ScanInv, ParseInv, [Next]_vars
  PROVE  ParseInv'
<1>1. CASE recvBytes
  BY <1>1, Received DEF ParseInv
<1>2. CASE parseMessage
  <2>1. /\ pc = "parse" /\ pc' = pc /\ at' = at
        /\ DOMAIN _partialMsgs' = DOMAIN _partialMsgs
        /\ \A fd \in DOMAIN _partialMsgs : fd # at => _partialMsgs'[fd] = _partialMsgs[fd]
    BY <1>2 DEF parseMessage
  <2> QED BY <2>1 DEF ParseInv
<1>3. CASE parseEnds
  <2>1. /\ pc = "parse" /\ pc' = "recv" /\ at' = at
        /\ _partialMsgs' = [_partialMsgs EXCEPT ![at] = <<>>]
    BY <1>3 DEF parseEnds
  <2> QED BY <2>1 DEF ParseInv
<1>4. ASSUME NEW f, _partialMsgs' = Without(_partialMsgs, f), pc # "parse", pc' # "parse"
      PROVE  ParseInv'
  <2>1. /\ DOMAIN _partialMsgs' \subseteq DOMAIN _partialMsgs
        /\ \A fd \in DOMAIN _partialMsgs' : _partialMsgs'[fd] = _partialMsgs[fd]
    BY <1>4 DEF Without, Restrict
  <2> QED BY <1>4, <2>1 DEF ParseInv
<1>5. CASE Halts
  BY <1>5, Nobody DEF Halts, Shutdown, ClearAll, MayCall, ParseInv
<1>6. CASE recvEnd
  BY <1>4, <1>6 DEF recvEnd
<1>7. ASSUME NEW id \in Ids, sendToFails(id) PROVE ParseInv'
  BY <1>4, <1>7 DEF sendToFails, MayCall
<1>8. CASE /\ _partialMsgs' = _partialMsgs
           /\ pc = "parse" => pc' = "parse" /\ at' = at
           /\ pc' = "parse" => pc = "parse"
  BY <1>8 DEF ParseInv
<1> QED BY <1>1, <1>2, <1>3, <1>5, <1>6, <1>7, <1>8, Parsing

\* Reading moves a cursor and nothing else.
LEMMA Marked ==
  ASSUME _msgs \in Seq(Mail), MarkRead(TRUE)
  PROVE  /\ _msgs' \in Seq(Mail) /\ Len(_msgs') = Len(_msgs)
         /\ \A i \in 1..Len(_msgs) : /\ _msgs'[i].frame = _msgs[i].frame
                                     /\ _msgs'[i].fd = _msgs[i].fd
<1> DEFINE g == [i \in 1..Len(_msgs) |->
                   IF i = at THEN [_msgs[i] EXCEPT !.read = TRUE] ELSE _msgs[i]]
<1>1. DOMAIN _msgs = 1..Len(_msgs) /\ Len(_msgs) \in Nat
  OBVIOUS
<1>2. _msgs' = g
  BY <1>1 DEF MarkRead
<1>3. \A x \in Mail : /\ [x EXCEPT !.read = TRUE] \in Mail
                      /\ [x EXCEPT !.read = TRUE].frame = x.frame
                      /\ [x EXCEPT !.read = TRUE].fd = x.fd
  BY DEF Mail
<1>4. \A i \in 1..Len(_msgs) : _msgs[i] \in Mail
  OBVIOUS
<1>5. \A i \in 1..Len(_msgs) : /\ g[i] \in Mail
                               /\ g[i].frame = _msgs[i].frame
                               /\ g[i].fd = _msgs[i].fd
  BY <1>3, <1>4
<1>6. g \in [1..Len(_msgs) -> Mail]
  BY <1>5
<1> HIDE DEF g
<1>7. g \in Seq(Mail) /\ Len(g) = Len(_msgs)
  BY <1>1, <1>6
<1> QED BY <1>2, <1>5, <1>7

\* The steps that write _msgs.
LEMMA Queueing ==
  ASSUME [Next]_vars
  PROVE  \/ _msgs' = _msgs \/ parseMessage \/ Halts \/ dispatchEnds
         \/ MarkRead(TRUE) /\ (callbackReturns \/ callbackThrows)
<1> USE DEF input
<1>1. CASE PeerStep
  BY <1>1 DEF PeerStep, Knock, Send, Part
<1>2. CASE start \/ update \/ Dead \/ UNCHANGED vars
  BY <1>2 DEF start, update, Dead, vars
<1>3. CASE UpdateReceives
  BY <1>3 DEF UpdateReceives, selectInterrupted, selectTimeout, selectReady, scanEnds,
              receive, accept, acceptFails, recvAgain, recvBytes, parseEnds, recvEnd
<1>4. CASE UpdateDispatches
  BY <1>4 DEF UpdateDispatches, dispatchSkip, dispatchCall, callbackExhausted,
              callbackReturns, callbackThrows
<1>5. CASE Sends
  BY <1>5 DEF Sends, sendTo, sendToFails, sendDies
<1> QED BY Halting, <1>1, <1>2, <1>3, <1>4, <1>5 DEF Next

\* The steps that write wire or sent, and what they write.
LEMMA Traffic ==
  ASSUME TypeOK, BooksInv, ScanInv, ParseInv, [Next]_vars
  PROVE  \/ \E p \in Peers, m \in Msgs :
              /\ state[p] = "up" /\ \A q \in Peers : m \notin Range(sent[q])
              /\ sent' = [sent EXCEPT ![p] = Append(sent[p], m)]
              /\ wire' = [wire EXCEPT ![p] = wire[p] \o Bytes(m)]
              /\ UNCHANGED <<pc, at, _partialMsgs, _msgs, told, said, cut, entries, state>>
         \/ sent' = sent /\ wire' = wire
         \/ /\ sent' = sent
            /\ \E p \in Peers : \E n \in 0..Len(wire[p]) :
                 wire' = [wire EXCEPT ![p] = Take(wire[p], n)]
         \/ sent' = sent /\ recvBytes
         \/ sent' = sent /\ wire' = [p \in Peers |-> <<>>]
         \/ /\ sent' = sent
            /\ \E p \in Peers : wire' = [wire EXCEPT ![p] = <<>>]
<1>0. EntriesOK /\ DataOK
  BY Types
<1>1. sent \in [Peers -> Seq(Msgs)] /\ wire \in [Peers -> Seq(Units)]
  BY <1>0 DEF DataOK
<1>2. ASSUME NEW p \in Peers, NEW m \in Msgs, Send(p, m)
      PROVE  /\ state[p] = "up" /\ \A q \in Peers : m \notin Range(sent[q])
             /\ sent' = [sent EXCEPT ![p] = Append(sent[p], m)]
             /\ wire' = [wire EXCEPT ![p] = wire[p] \o Bytes(m)]
             /\ UNCHANGED <<pc, at, _partialMsgs, _msgs, told, said, cut, entries, state>>
  BY <1>1, <1>2 DEF Send, input, books, entries
<1>3. ASSUME NEW p \in Peers, Part(p)
      PROVE  /\ sent' = sent
             /\ \/ wire' = wire
                \/ \E n \in 0..Len(wire[p]) : wire' = [wire EXCEPT ![p] = Take(wire[p], n)]
  BY <1>1, <1>3 DEF Part, history
<1>4. ASSUME NEW p \in Peers, Knock(p) PROVE sent' = sent /\ wire' = wire
  BY <1>4 DEF Knock, history
<1>5. CASE PeerStep
  BY <1>2, <1>3, <1>4, <1>5, Zenon DEF PeerStep
<1>6. CASE start \/ update \/ Dead \/ UNCHANGED vars \/ UpdateDispatches
  <2>1. sent' = sent /\ wire' = wire
    BY <1>6 DEF start, update, Dead, vars, kernel, history, UpdateDispatches, dispatchSkip,
       dispatchCall, callbackExhausted, dispatchEnds, callbackReturns, callbackThrows
  <2> QED BY <2>1
<1>7. CASE Halts
  <2>1. sent' = sent /\ wire' = [p \in Peers |-> <<>>]
    BY <1>7 DEF Halts, Shutdown, history
  <2> QED BY <2>1
<1>8. ASSUME NEW fd, Erasing(fd), sent' = sent
      PROVE  \E p \in Peers : wire' = [wire EXCEPT ![p] = <<>>]
  <2>1. table[fd] \in Peers /\ wire' = [wire EXCEPT ![table[fd]] = <<>>]
    BY <1>0, <1>8 DEF Erasing, EntriesOK
  <2> QED BY <2>1
<1>9. CASE recvEnd
  <2>1. sent' = sent /\ Erasing(at)
    BY <1>9, ErasedBy DEF recvEnd, history
  <2> QED BY <1>8, <2>1
<1>10. CASE Sends
  <2>1. ASSUME NEW id \in Ids, sendToFails(id) PROVE sent' = sent /\ Erasing(_clientsToFd[id])
    BY <2>1, ErasedBy DEF sendToFails, history
  <2>2. ASSUME NEW id \in Ids, sendTo(id) \/ sendDies(id) PROVE sent' = sent /\ wire' = wire
    BY <2>2 DEF sendTo, sendDies, kernel, history
  <2> QED BY <1>8, <1>10, <2>1, <2>2, Zenon DEF Sends
<1>11. CASE recvBytes
  BY <1>11 DEF recvBytes
<1>12. ASSUME NEW p \in Peers, accept(p) \/ acceptFails(p)
       PROVE  sent' = sent /\ (wire' = wire \/ wire' = [wire EXCEPT ![p] = <<>>])
  BY <1>12 DEF accept, acceptFails, history
<1>13. CASE UpdateReceives
  <2>1. CASE \/ selectInterrupted \/ selectTimeout \/ selectReady \/ scanEnds \/ receive
             \/ parseMessage \/ parseEnds \/ recvAgain
    <3>1. sent' = sent /\ wire' = wire
      BY <2>1 DEF selectInterrupted, selectTimeout, selectReady, scanEnds, receive,
                  parseMessage, parseEnds, recvAgain, kernel, history
    <3> QED BY <3>1
  <2> QED BY <1>9, <1>11, <1>12, <1>13, <2>1, Zenon DEF UpdateReceives
<1> QED BY Halting, <1>5, <1>6, <1>7, <1>9, <1>10, <1>13 DEF Next

LEMMA DataStep ==
  ASSUME TypeOK, BooksInv, ScanInv, ParseInv, [Next]_vars
  PROVE  DataOK'
<1>0. EntriesOK /\ DataOK
  BY Types
<1>1. wire \in [Peers -> Seq(Units)] /\ sent \in [Peers -> Seq(Msgs)] /\ _msgs \in Seq(Mail)
      /\ <<>> \in Seq(Units)
  BY <1>0 DEF DataOK
<1>2. wire' \in [Peers -> Seq(Units)] /\ sent' \in [Peers -> Seq(Msgs)]
  <2>1. ASSUME NEW p \in Peers, NEW m \in Msgs,
               sent' = [sent EXCEPT ![p] = Append(sent[p], m)],
               wire' = [wire EXCEPT ![p] = wire[p] \o Bytes(m)]
        PROVE  <1>2!:
    <3>1. wire[p] \in Seq(Units) /\ sent[p] \in Seq(Msgs)
      BY <1>1
    <3>2. wire[p] \o Bytes(m) \in Seq(Units)
      BY <3>1, BytesOfMessage, ConcatProperties
    <3>3. Append(sent[p], m) \in Seq(Msgs)
      BY <3>1
    <3> QED BY <1>1, <2>1, <3>2, <3>3
  <2>2. ASSUME NEW p \in Peers, NEW n \in 0..Len(wire[p]), sent' = sent,
               wire' = [wire EXCEPT ![p] = Take(wire[p], n)]
        PROVE  <1>2!:
    <3>1. wire[p] \in Seq(Units)
      BY <1>1
    <3>2. Take(wire[p], n) \in Seq(Units)
      BY <3>1, Divided
    <3> QED BY <1>1, <2>2, <3>2
  <2>3. ASSUME sent' = sent, recvBytes
        PROVE  <1>2!:
    <3>1. PICK n \in 1..Len(wire[table[at]]) :
            wire' = [wire EXCEPT ![table[at]] = Drop(wire[table[at]], n)]
      BY <2>3, Received
    <3>2. table[at] \in Peers
      BY <2>3, Received
    <3>3. wire[table[at]] \in Seq(Units)
      BY <1>1, <3>2
    <3>4. n \in 0..Len(wire[table[at]])
      BY <3>3
    <3>5. Drop(wire[table[at]], n) \in Seq(Units)
      BY <3>3, <3>4, Divided
    <3> QED BY <1>1, <2>3, <3>1, <3>5
  <2>4. ASSUME sent' = sent, \/ wire' = wire
                             \/ wire' = [p \in Peers |-> <<>>]
                             \/ \E p \in Peers : wire' = [wire EXCEPT ![p] = <<>>]
        PROVE  <1>2!:
    BY <1>1, <2>4
  <2> QED BY <2>1, <2>2, <2>3, <2>4, Traffic, Zenon
<1>3. _msgs' \in Seq(Mail)
  <2>1. CASE parseMessage
    <3>1. PICK n \in 2..Len(_partialMsgs[at]) :
            _msgs' = Append(_msgs, [frame |-> Take(_partialMsgs[at], n),
                                    fd |-> at, read |-> FALSE])
      BY <2>1, Parsed
    <3>2. _partialMsgs[at] \in Seq(Units) /\ at \in Fds
      BY <2>1, Parsed
    <3>3. n \in 0..Len(_partialMsgs[at])
      BY <3>2
    <3>4. Take(_partialMsgs[at], n) \in Seq(Units)
      BY <3>2, <3>3, Divided
    <3>5. [frame |-> Take(_partialMsgs[at], n), fd |-> at, read |-> FALSE] \in Mail
      BY <3>2, <3>4 DEF Mail
    <3> QED BY <1>1, <3>1, <3>5, Appended
  <2>2. CASE Halts \/ dispatchEnds
    <3>1. _msgs' = <<>>
      BY <2>2 DEF Halts, Shutdown, dispatchEnds, ClearAll
    <3> QED BY <3>1
  <2>3. CASE MarkRead(TRUE)
    BY <1>1, <2>3, Marked
  <2> QED BY <1>1, <2>1, <2>2, <2>3, Queueing
<1>4. DOMAIN _partialMsgs' \subseteq Fds
      /\ \A fd \in DOMAIN _partialMsgs' : _partialMsgs'[fd] \in Seq(Units)
  <2>0. /\ DOMAIN _partialMsgs \subseteq Fds
        /\ \A fd \in DOMAIN _partialMsgs : _partialMsgs[fd] \in Seq(Units)
    BY <1>0 DEF DataOK
  <2>1. CASE recvBytes
    <3>1. PICK n \in 1..Len(wire[table[at]]) : _partialMsgs'[at] = Take(wire[table[at]], n)
      BY <2>1, Received
    <3>2. table[at] \in Peers /\ pc = "recv"
      BY <2>1, Received
    <3>3. wire[table[at]] \in Seq(Units)
      BY <1>1, <3>2
    <3>4. n \in 0..Len(wire[table[at]])
      BY <3>3
    <3>5. Take(wire[table[at]], n) \in Seq(Units)
      BY <3>3, <3>4, Divided
    <3>6. at \in Fds
      BY <1>0, <3>2 DEF ScanInv, EntriesOK
    <3>7. DOMAIN _partialMsgs' = DOMAIN _partialMsgs \union {at}
          /\ \A fd \in DOMAIN _partialMsgs : fd # at => _partialMsgs'[fd] = _partialMsgs[fd]
      BY <2>1, Received
    <3> QED BY <2>0, <3>1, <3>5, <3>6, <3>7
  <2>2. CASE parseMessage
    <3>1. PICK n \in 2..Len(_partialMsgs[at]) :
            _partialMsgs' = [_partialMsgs EXCEPT ![at] = Drop(_partialMsgs[at], n)]
      BY <2>2, Parsed
    <3>2. _partialMsgs[at] \in Seq(Units)
      BY <2>2, Parsed
    <3>3. n \in 0..Len(_partialMsgs[at])
      BY <3>2
    <3>4. Drop(_partialMsgs[at], n) \in Seq(Units)
      BY <3>2, <3>3, Divided
    <3> QED BY <2>0, <3>1, <3>4
  <2>3. CASE parseEnds
    <3>1. _partialMsgs' = [_partialMsgs EXCEPT ![at] = <<>>]
      BY <2>3 DEF parseEnds
    <3> QED BY <1>1, <2>0, <3>1
  <2>4. ASSUME NEW f, _partialMsgs' = Without(_partialMsgs, f)
        PROVE  <1>4!:
    BY <2>0, <2>4 DEF Without, Restrict
  <2>5. CASE Halts
    BY <2>5, Nobody DEF Halts, Shutdown, ClearAll
  <2>6. CASE recvEnd
    BY <2>4, <2>6 DEF recvEnd
  <2>7. ASSUME NEW id \in Ids, sendToFails(id) PROVE <1>4!:
    BY <2>4, <2>7 DEF sendToFails
  <2>8. CASE _partialMsgs' = _partialMsgs
    BY <2>0, <2>8
  <2> QED BY <2>1, <2>2, <2>3, <2>5, <2>6, <2>7, <2>8, Parsing
<1> QED BY <1>2, <1>3, <1>4 DEF DataOK

-------------------------------------------------------------------------------
(***************************************************************************)
(* Where units, frames and callbacks' arguments come from.                 *)
(***************************************************************************)
\* A peer that has an id keeps it, and does not change its descriptor.
Stays(p) ==
  /\ p \in Range(owner')
  /\ p \in Range(table') =>
       /\ p \in Range(table)
       /\ \A fd \in DOMAIN table : table[fd] = p => fd \in DOMAIN table' /\ table'[fd] = p

LEMMA Lasting ==
  ASSUME TypeOK, BooksInv, IdentityInv, ScanInv, [Next]_vars,
         NEW p, p \in Range(owner)
  PROVE  Stays(p)
<1> USE DEF Stays
<1>1. CASE UNCHANGED entries
  BY <1>1 DEF entries
<1>2. CASE start
  BY <1>2 DEF start, kernel
<1>3. CASE Halts
  <2>1. owner' = owner /\ DOMAIN table' = {}
    BY <1>3 DEF Halts, Shutdown, BooksInv, Restrict, history
  <2> QED BY <2>1 DEF Range
<1>4. ASSUME NEW q \in Peers, accept(q), ~Full PROVE Stays(p)
  <2>1. PICK fd \in Lowest(Free) : /\ table' = With(table, fd, q)
                                   /\ owner' = With(owner, _next_id, q)
    BY <1>4, Entered
  <2>2. fd \notin DOMAIN table
    BY LowestFree
  <2>3. _next_id \notin DOMAIN owner
    BY DEF IdentityInv, TypeOK, Ids
  <2>4. /\ DOMAIN table' = DOMAIN table \union {fd} /\ table'[fd] = q
        /\ \A fe \in DOMAIN table : table'[fe] = table[fe]
        /\ DOMAIN owner' = DOMAIN owner \union {_next_id}
        /\ \A id \in DOMAIN owner : owner'[id] = owner[id]
    BY <2>1, <2>2, <2>3 DEF With
  <2>5. p # q
    BY <1>4 DEF accept, InBacklog, IdentityInv, Range
  <2> QED BY <2>4, <2>5 DEF Range
<1>5. ASSUME NEW fd, Erasing(fd) PROVE Stays(p)
  <2>1. /\ owner' = owner /\ DOMAIN table' = DOMAIN table \ {fd}
        /\ \A fe \in DOMAIN table' : table'[fe] = table[fe]
    BY <1>5 DEF Erasing, Without, Restrict
  <2> QED BY <2>1 DEF Range, IdentityInv
<1> HIDE DEF Stays
<1> QED BY <1>1, <1>2, <1>3, <1>4, <1>5, Bookkeeping, ErasedBy

\* What was sent stays sent.
LEMMA StaysSaid ==
  ASSUME TypeOK, BooksInv, ScanInv, ParseInv, [Next]_vars,
         NEW p \in Peers, NEW m, m \in Range(sent[p])
  PROVE  m \in Range(sent'[p])
<1>0. DataOK
  BY Types
<1>1. sent \in [Peers -> Seq(Msgs)]
  BY <1>0 DEF DataOK
<1>2. CASE sent' = sent
  BY <1>2
<1>3. ASSUME NEW q \in Peers, NEW w \in Msgs, sent' = [sent EXCEPT ![q] = Append(sent[q], w)]
      PROVE  m \in Range(sent'[p])
  <2>1. PICK k \in DOMAIN sent[p] : sent[p][k] = m
    BY DEF Range
  <2>2. k \in DOMAIN sent'[p] /\ sent'[p][k] = m
    <3>1. CASE p # q
      BY <1>1, <1>3, <2>1, <3>1
    <3>2. CASE p = q
      <4>1. sent'[p] = Append(sent[p], w) /\ sent[p] \in Seq(Msgs)
        BY <1>1, <1>3, <3>2
      <4>2. DOMAIN sent[p] = 1..Len(sent[p]) /\ Len(sent[p]) \in Nat
        BY <4>1
      <4>3. DOMAIN sent'[p] = 1..(Len(sent[p]) + 1) /\ \A i \in 1..Len(sent[p]) : sent'[p][i] = sent[p][i]
        BY <4>1, <4>2
      <4> QED BY <2>1, <4>2, <4>3
    <3> QED BY <3>1, <3>2
  <2> QED BY <2>2 DEF Range
<1> QED BY <1>2, <1>3, Traffic, Zenon

LEMMA OneSenderStep ==
  ASSUME TypeOK, BooksInv, ScanInv, ParseInv, OneSender, [Next]_vars
  PROVE  OneSender'
<1>0. DataOK
  BY Types
<1>1. sent \in [Peers -> Seq(Msgs)]
  BY <1>0 DEF DataOK
<1>2. CASE sent' = sent
  BY <1>2 DEF OneSender, Said
<1>3. ASSUME NEW p \in Peers, NEW m \in Msgs, \A q \in Peers : m \notin Range(sent[q]),
             sent' = [sent EXCEPT ![p] = Append(sent[p], m)]
      PROVE  OneSender'
  <2>1. ASSUME NEW q \in Peers, NEW w \in Msgs, Said(w, q)'
        PROVE  Said(w, q) \/ (w = m /\ q = p)
    <3>1. PICK k \in DOMAIN sent'[q] : sent'[q][k] = w
      BY <2>1 DEF Said, Range
    <3>2. CASE q # p
      BY <1>1, <1>3, <2>1, <3>2 DEF Said
    <3>3. CASE q = p
      <4>1. sent'[q] = Append(sent[q], m) /\ sent[q] \in Seq(Msgs)
        BY <1>1, <1>3, <3>3
      <4>2. DOMAIN sent[q] = 1..Len(sent[q]) /\ Len(sent[q]) \in Nat
        BY <4>1
      <4>3. /\ DOMAIN sent'[q] = 1..(Len(sent[q]) + 1)
            /\ \A i \in 1..Len(sent[q]) : sent'[q][i] = sent[q][i]
            /\ sent'[q][Len(sent[q]) + 1] = m
        BY <4>1, <4>2
      <4>4. CASE k = Len(sent[q]) + 1
        BY <3>1, <3>3, <4>3, <4>4
      <4>5. CASE k # Len(sent[q]) + 1
        <5>1. k \in DOMAIN sent[q] /\ sent[q][k] = w
          BY <3>1, <4>2, <4>3, <4>5
        <5> QED BY <5>1 DEF Said, Range
      <4> QED BY <4>4, <4>5
    <3> QED BY <3>2, <3>3
  <2>2. \A q \in Peers : ~Said(m, q)
    BY <1>3 DEF Said
  <2> QED BY <2>1, <2>2 DEF OneSender
<1> QED BY <1>2, <1>3, Traffic, Zenon

LEMMA WireStep ==
  ASSUME TypeOK, BooksInv, ScanInv, ParseInv, WireInv, [Next]_vars
  PROVE  WireInv'
<1>0. DataOK
  BY Types
<1>1. wire \in [Peers -> Seq(Units)] /\ sent \in [Peers -> Seq(Msgs)]
  BY <1>0 DEF DataOK
<1>2. ASSUME NEW q \in Peers, wire'[q] = wire[q]
      PROVE  \A i \in DOMAIN wire'[q] : wire'[q][i].msg \in Range(sent'[q])
  BY <1>2, StaysSaid DEF WireInv, Said
<1>3. ASSUME NEW q \in Peers, wire'[q] = <<>>
      PROVE  \A i \in DOMAIN wire'[q] : wire'[q][i].msg \in Range(sent'[q])
  <2>1. DOMAIN wire'[q] = {}
    BY <1>3
  <2> QED BY <2>1
<1>4. ASSUME NEW q \in Peers, wire[q] \in Seq(Units), wire'[q] \in Seq(Units),
             \A i \in 1..Len(wire'[q]) : \E k \in 1..Len(wire[q]) : wire'[q][i] = wire[q][k]
      PROVE  \A i \in DOMAIN wire'[q] : wire'[q][i].msg \in Range(sent'[q])
  <2> SUFFICES ASSUME NEW i \in DOMAIN wire'[q]
               PROVE  wire'[q][i].msg \in Range(sent'[q])
    OBVIOUS
  <2>1. i \in 1..Len(wire'[q])
    BY <1>4
  <2>2. PICK k \in 1..Len(wire[q]) : wire'[q][i] = wire[q][k]
    BY <1>4, <2>1
  <2>3. k \in DOMAIN wire[q]
    BY <1>4
  <2>4. PICK w : w = wire[q][k].msg
    OBVIOUS
  <2>5. w \in Range(sent[q])
    BY <2>3, <2>4 DEF WireInv, Said
  <2>6. w \in Range(sent'[q])
    BY <2>5, StaysSaid
  <2> QED BY <2>2, <2>4, <2>6
<1>5. ASSUME NEW p \in Peers, NEW m \in Msgs,
             sent' = [sent EXCEPT ![p] = Append(sent[p], m)],
             wire' = [wire EXCEPT ![p] = wire[p] \o Bytes(m)]
      PROVE  WireInv'
  <2>1. \A q \in Peers : q # p => wire'[q] = wire[q]
    BY <1>1, <1>5
  <2>2. wire'[p] = wire[p] \o Bytes(m) /\ wire[p] \in Seq(Units) /\ sent[p] \in Seq(Msgs)
        /\ sent'[p] = Append(sent[p], m)
    BY <1>1, <1>5
  <2>3. m \in Range(sent'[p])
    <3>1. Len(sent[p]) + 1 \in DOMAIN sent'[p] /\ sent'[p][Len(sent[p]) + 1] = m
      BY <2>2
    <3> QED BY <3>1 DEF Range
  <2>4. /\ Bytes(m) \in Seq(Units) /\ Len(Bytes(m)) = Header + Size[m] /\ Header + Size[m] \in Nat
        /\ \A i \in 1..(Header + Size[m]) : Bytes(m)[i] = [msg |-> m, at |-> i]
    BY BytesOfMessage
  <2>5. /\ Len(wire'[p]) = Len(wire[p]) + Len(Bytes(m)) /\ wire'[p] \in Seq(Units)
        /\ \A i \in 1..Len(wire[p]) : wire'[p][i] = wire[p][i]
        /\ \A i \in 1..Len(Bytes(m)) : wire'[p][Len(wire[p]) + i] = Bytes(m)[i]
    <3>1. wire[p] \in Seq(Units) /\ Bytes(m) \in Seq(Units)
      BY <2>2, <2>4
    <3>2. LET u == wire[p] \o Bytes(m) IN
          /\ Len(u) = Len(wire[p]) + Len(Bytes(m)) /\ u \in Seq(Units)
          /\ \A i \in 1..Len(wire[p]) : u[i] = wire[p][i]
          /\ \A i \in 1..Len(Bytes(m)) : u[Len(wire[p]) + i] = Bytes(m)[i]
      BY <3>1, Joined
    <3> QED BY <2>2, <3>2, Zenon
  <2>6. ASSUME NEW i \in DOMAIN wire'[p] PROVE wire'[p][i].msg \in Range(sent'[p])
    <3>0. DOMAIN wire'[p] = 1..(Len(wire[p]) + Len(Bytes(m))) /\ DOMAIN wire[p] = 1..Len(wire[p])
          /\ Len(wire[p]) \in Nat /\ Len(Bytes(m)) \in Nat
      BY <2>2, <2>4, <2>5
    <3>1. CASE i \in 1..Len(wire[p])
      <4>1. PICK w : w = wire[p][i].msg
        OBVIOUS
      <4>2. w \in Range(sent[p])
        BY <3>0, <3>1, <4>1 DEF WireInv, Said
      <4>3. w \in Range(sent'[p])
        BY <4>2, StaysSaid
      <4> QED BY <2>5, <3>1, <4>1, <4>3
    <3>2. CASE i \notin 1..Len(wire[p])
      <4>1. PICK k \in 1..Len(Bytes(m)) : i = Len(wire[p]) + k
        <5>1. i - Len(wire[p]) \in 1..Len(Bytes(m)) /\ i = Len(wire[p]) + (i - Len(wire[p]))
          BY <3>0, <3>2
        <5> QED BY <5>1
      <4>2. wire'[p][i] = [msg |-> m, at |-> k]
        BY <2>4, <2>5, <4>1
      <4> QED BY <2>3, <4>2
    <3> QED BY <3>1, <3>2
  <2> QED BY <1>2, <2>1, <2>6 DEF WireInv, Said
<1>6. ASSUME NEW p \in Peers, NEW n \in 0..Len(wire[p]), sent' = sent,
             \/ wire' = [wire EXCEPT ![p] = Take(wire[p], n)]
             \/ wire' = [wire EXCEPT ![p] = Drop(wire[p], n)]
      PROVE  WireInv'
  <2>1. \A q \in Peers : q # p => wire'[q] = wire[q]
    BY <1>1, <1>6
  <2>2. wire[p] \in Seq(Units) /\ (wire'[p] = Take(wire[p], n) \/ wire'[p] = Drop(wire[p], n))
    BY <1>1, <1>6
  <2>3. /\ Take(wire[p], n) \in Seq(Units) /\ Len(Take(wire[p], n)) = n
        /\ \A i \in 1..n : Take(wire[p], n)[i] = wire[p][i]
        /\ Drop(wire[p], n) \in Seq(Units) /\ Len(Drop(wire[p], n)) = Len(wire[p]) - n
        /\ \A i \in 1..(Len(wire[p]) - n) : Drop(wire[p], n)[i] = wire[p][n + i]
    BY <2>2, Divided
  <2>4. \A i \in 1..Len(wire'[p]) : \E k \in 1..Len(wire[p]) : wire'[p][i] = wire[p][k]
    <3>0. Len(wire[p]) \in Nat
      BY <2>2
    <3>1. CASE wire'[p] = Take(wire[p], n)
      BY <2>3, <3>0, <3>1
    <3>2. CASE wire'[p] = Drop(wire[p], n)
      <4>1. \A i \in 1..(Len(wire[p]) - n) : n + i \in 1..Len(wire[p])
        BY <3>0
      <4> QED BY <2>3, <3>2, <4>1
    <3> QED BY <2>2, <3>1, <3>2
  <2>5. wire'[p] \in Seq(Units)
    BY <2>2, <2>3
  <2> QED BY <1>2, <1>4, <2>1, <2>2, <2>4, <2>5 DEF WireInv, Said
<1>7. ASSUME sent' = sent, recvBytes PROVE WireInv'
  <2>1. table[at] \in Peers /\ \E n \in 1..Len(wire[table[at]]) :
           wire' = [wire EXCEPT ![table[at]] = Drop(wire[table[at]], n)]
    BY <1>7, Received
  <2>2. PICK p \in Peers : p = table[at]
    BY <2>1
  <2>3. PICK n \in 1..Len(wire[p]) : wire' = [wire EXCEPT ![p] = Drop(wire[p], n)]
    BY <2>1, <2>2
  <2>4. n \in 0..Len(wire[p])
    BY <1>1
  <2> QED BY <1>6, <1>7, <2>3, <2>4
<1>8. CASE wire' = wire
  BY <1>2, <1>8 DEF WireInv, Said
<1>9. ASSUME wire' = [p \in Peers |-> <<>>] \/ \E p \in Peers : wire' = [wire EXCEPT ![p] = <<>>]
      PROVE  WireInv'
  <2>1. \A q \in Peers : wire'[q] = wire[q] \/ wire'[q] = <<>>
    BY <1>1, <1>9
  <2> QED BY <1>2, <1>3, <2>1 DEF WireInv, Said
<1> QED BY <1>5, <1>6, <1>7, <1>8, <1>9, Traffic, Zenon

LEMMA BufferStep ==
  ASSUME TypeOK, BooksInv, IdentityInv, ScanInv, ParseInv, WireInv, BufferInv, [Next]_vars
  PROVE  BufferInv'
<1>0. DataOK /\ EntriesOK
  BY Types
<1> SUFFICES ASSUME pc' = "parse", NEW i \in DOMAIN _partialMsgs'[at']
             PROVE  _partialMsgs'[at'][i].msg \in Range(sent'[table'[at']])
  BY DEF BufferInv, Said
<1>1. CASE recvBytes
  <2>1. /\ table[at] \in Peers /\ at' = at /\ table' = table
        /\ \E n \in 1..Len(wire[table[at]]) : _partialMsgs'[at] = Take(wire[table[at]], n)
    BY <1>1, Received DEF recvBytes
  <2>2. PICK p \in Peers : p = table[at]
    BY <2>1
  <2>3. PICK n \in 1..Len(wire[p]) : _partialMsgs'[at] = Take(wire[p], n)
    BY <2>1, <2>2
  <2>4. wire[p] \in Seq(Units)
    BY <1>0 DEF DataOK
  <2>5. n \in 0..Len(wire[p])
    BY <2>4
  <2>6. /\ Take(wire[p], n) \in Seq(Units) /\ Len(Take(wire[p], n)) = n
        /\ \A k \in 1..n : Take(wire[p], n)[k] = wire[p][k]
    BY <2>4, <2>5, Divided
  <2>7. i \in 1..n /\ i \in DOMAIN wire[p]
    BY <2>1, <2>3, <2>4, <2>6
  <2>8. PICK w : w = wire[p][i].msg
    OBVIOUS
  <2>9. w \in Range(sent[p])
    BY <2>7, <2>8 DEF WireInv, Said
  <2>10. w \in Range(sent'[p])
    BY <2>9, StaysSaid
  <2> QED BY <2>1, <2>2, <2>3, <2>6, <2>7, <2>8, <2>10
<1>2. ASSUME pc = "parse", at' = at, table' = table, NEW u, u = _partialMsgs'[at],
             \A j \in DOMAIN u : \E k \in DOMAIN _partialMsgs[at] : u[j] = _partialMsgs[at][k]
      PROVE  _partialMsgs'[at'][i].msg \in Range(sent'[table'[at']])
  <2>1. PICK k \in DOMAIN _partialMsgs[at] : u[i] = _partialMsgs[at][k]
    BY <1>2
  <2>2. PICK p \in Peers : p = table[at]
    BY <1>0, <1>2 DEF ScanInv, EntriesOK
  <2>3. PICK w : w = _partialMsgs[at][k].msg
    OBVIOUS
  <2>4. w \in Range(sent[p])
    BY <1>2, <2>2, <2>3 DEF BufferInv, Said
  <2>5. w \in Range(sent'[p])
    BY <2>4, StaysSaid
  <2> QED BY <1>2, <2>1, <2>2, <2>3, <2>5
<1>3. CASE parseMessage
  <2>1. PICK n \in 2..Len(_partialMsgs[at]) :
          _partialMsgs' = [_partialMsgs EXCEPT ![at] = Drop(_partialMsgs[at], n)]
    BY <1>3, Parsed
  <2>2. /\ pc = "parse" /\ at' = at /\ _partialMsgs[at] \in Seq(Units) /\ at \in DOMAIN _partialMsgs
        /\ table' = table
    BY <1>3, Parsed DEF ParseInv, parseMessage, kernel
  <2>3. n \in 0..Len(_partialMsgs[at])
    BY <2>2
  <2>4. /\ Drop(_partialMsgs[at], n) \in Seq(Units)
        /\ Len(Drop(_partialMsgs[at], n)) = Len(_partialMsgs[at]) - n
        /\ \A k \in 1..(Len(_partialMsgs[at]) - n) :
             Drop(_partialMsgs[at], n)[k] = _partialMsgs[at][n + k]
    BY <2>2, <2>3, Divided
  <2>5. _partialMsgs'[at] = Drop(_partialMsgs[at], n)
    BY <2>1, <2>2
  <2>6. \A j \in DOMAIN Drop(_partialMsgs[at], n) :
          \E k \in DOMAIN _partialMsgs[at] : Drop(_partialMsgs[at], n)[j] = _partialMsgs[at][k]
    <3>1. /\ DOMAIN Drop(_partialMsgs[at], n) = 1..(Len(_partialMsgs[at]) - n)
          /\ DOMAIN _partialMsgs[at] = 1..Len(_partialMsgs[at]) /\ Len(_partialMsgs[at]) \in Nat
      BY <2>2, <2>4
    <3>2. \A j \in 1..(Len(_partialMsgs[at]) - n) : n + j \in 1..Len(_partialMsgs[at])
      BY <3>1
    <3> QED BY <2>4, <3>1, <3>2
  <2> QED BY <1>2, <2>2, <2>5, <2>6
<1>4. CASE _partialMsgs' = _partialMsgs /\ pc = "parse" /\ at' = at
  <2>1. table' = table
    BY <1>4, Bookkeeping DEF entries, start, Halts, Shutdown, MayCall, accept, recvEnd, sendToFails
  <2> QED BY <1>2, <1>4, <2>1
<1>5. CASE parseEnds \/ recvEnd \/ Halts \/ \E id \in Ids : sendToFails(id)
  BY <1>5 DEF parseEnds, recvEnd, Halts, Shutdown, sendToFails, MayCall
<1> QED BY <1>1, <1>3, <1>4, <1>5, Parsing

LEMMA FrameLasts ==
  ASSUME TypeOK, BooksInv, IdentityInv, ScanInv, ParseInv, [Next]_vars,
         NEW p \in Peers, NEW f, NEW fd, FrameOf(f, fd, p)
  PROVE  FrameOf(f, fd, p)'
<1>1. f # <<>> /\ f[1].msg \in Range(sent[p]) /\ p \in Range(owner)
      /\ (p \in Range(table) => fd \in DOMAIN table /\ table[fd] = p)
  BY DEF FrameOf, Said
<1>2. f[1].msg \in Range(sent'[p])
  BY <1>1, StaysSaid
<1>3. Stays(p)
  BY <1>1, Lasting
<1> QED BY <1>1, <1>2, <1>3 DEF Stays, FrameOf, Said

LEMMA QueueStep ==
  ASSUME TypeOK, BooksInv, IdentityInv, ScanInv, ParseInv, BufferInv, QueueInv, [Next]_vars
  PROVE  QueueInv'
<1>0. DataOK /\ EntriesOK
  BY Types
<1>1. _msgs \in Seq(Mail) /\ DOMAIN _msgs = 1..Len(_msgs) /\ Len(_msgs) \in Nat
  BY <1>0 DEF DataOK
<1>2. ASSUME NEW i \in DOMAIN _msgs, NEW f, NEW fd, f = _msgs[i].frame, fd = _msgs[i].fd
      PROVE  \E p \in Peers : FrameOf(f, fd, p)'
  <2>1. PICK p \in Peers : FrameOf(f, fd, p)
    BY <1>2 DEF QueueInv
  <2> QED BY <2>1, FrameLasts
<1>3. ASSUME NEW i \in DOMAIN _msgs', NEW k \in DOMAIN _msgs,
             _msgs'[i].frame = _msgs[k].frame, _msgs'[i].fd = _msgs[k].fd
      PROVE  (\E p \in Peers : FrameOf(_msgs[i].frame, _msgs[i].fd, p))'
  <2>1. PICK f, fd : f = _msgs[k].frame /\ fd = _msgs[k].fd
    OBVIOUS
  <2>2. PICK p \in Peers : FrameOf(f, fd, p)'
    BY <1>2, <2>1
  <2> QED BY <1>3, <2>1, <2>2 DEF FrameOf, Said
<1>4. CASE parseMessage
  <2>1. PICK n \in 2..Len(_partialMsgs[at]) :
          _msgs' = Append(_msgs, [frame |-> Take(_partialMsgs[at], n), fd |-> at, read |-> FALSE])
    BY <1>4, Parsed
  <2>2. pc = "parse" /\ _partialMsgs[at] \in Seq(Units) /\ at \in Fds
    BY <1>4, Parsed
  <2>3. n \in 0..Len(_partialMsgs[at]) /\ 1 \in DOMAIN _partialMsgs[at]
    BY <2>2
  <2>4. PICK b : b = Take(_partialMsgs[at], n)
    OBVIOUS
  <2>5. b \in Seq(Units) /\ Len(b) = n /\ \A k \in 1..n : b[k] = _partialMsgs[at][k]
    BY <2>2, <2>3, <2>4, Divided
  <2>6. b # <<>> /\ b[1] = _partialMsgs[at][1]
    BY <2>5
  <2>7. PICK p \in Peers : p = table[at] /\ at \in DOMAIN table
    BY <1>0, <2>2 DEF ScanInv, EntriesOK
  <2>8. b[1].msg \in Range(sent[p])
    BY <2>2, <2>3, <2>6, <2>7 DEF BufferInv, Said
  <2>9. p \in Range(owner)
    BY <2>7 DEF IdentityInv, Range
  <2>10. PICK c : c = at
    OBVIOUS
  <2>11. FrameOf(b, c, p)
    BY <2>6, <2>7, <2>8, <2>9, <2>10 DEF FrameOf, Said
  <2>12. FrameOf(b, c, p)'
    BY <2>11, FrameLasts
  <2>13. PICK x \in Mail : x = [frame |-> b, fd |-> c, read |-> FALSE]
    BY <2>2, <2>5, <2>10 DEF Mail
  <2>14. _msgs' = Append(_msgs, x)
    BY <2>1, <2>4, <2>10, <2>13
  <2>15. /\ Len(_msgs') = Len(_msgs) + 1 /\ _msgs' \in Seq(Mail)
         /\ \A i \in 1..Len(_msgs) : _msgs'[i] = _msgs[i]
         /\ _msgs'[Len(_msgs) + 1] = x
    BY <1>1, <2>14, Appended
  <2>16. DOMAIN _msgs' = 1..(Len(_msgs) + 1)
    BY <2>15
  <2>17. ASSUME NEW i \in DOMAIN _msgs', i # Len(_msgs) + 1
         PROVE  (\E q \in Peers : FrameOf(_msgs[i].frame, _msgs[i].fd, q))'
    <3>1. i \in DOMAIN _msgs /\ _msgs'[i] = _msgs[i]
      BY <1>1, <2>15, <2>16, <2>17
    <3> QED BY <1>3, <3>1
  <2>18. ASSUME NEW i \in DOMAIN _msgs', i = Len(_msgs) + 1
         PROVE  (\E q \in Peers : FrameOf(_msgs[i].frame, _msgs[i].fd, q))'
    <3>1. _msgs'[i].frame = b /\ _msgs'[i].fd = c
      BY <2>13, <2>15, <2>18
    <3> QED BY <2>12, <3>1 DEF FrameOf, Said
  <2> QED BY <2>17, <2>18 DEF QueueInv
<1>5. CASE Halts \/ dispatchEnds
  <2>1. _msgs' = <<>>
    BY <1>5 DEF Halts, Shutdown, dispatchEnds, ClearAll
  <2>2. DOMAIN _msgs' = {}
    BY <2>1
  <2> QED BY <2>2 DEF QueueInv
<1>6. CASE MarkRead(TRUE)
  <2>1. /\ _msgs' \in Seq(Mail) /\ Len(_msgs') = Len(_msgs)
        /\ \A i \in 1..Len(_msgs) : /\ _msgs'[i].frame = _msgs[i].frame
                                    /\ _msgs'[i].fd = _msgs[i].fd
    BY <1>1, <1>6, Marked
  <2>2. DOMAIN _msgs' = DOMAIN _msgs
    BY <1>1, <2>1
  <2> QED BY <1>1, <1>3, <2>1, <2>2 DEF QueueInv
<1>7. CASE _msgs' = _msgs
  BY <1>3, <1>7 DEF QueueInv
<1> QED BY <1>4, <1>5, <1>6, <1>7, Queueing

\* What the running callback was told stays true while it runs.
LEMMA ToldStep ==
  ASSUME TypeOK, BooksInv, IdentityInv, ScanInv, ParseInv, QueueInv, ToldInv, [Next]_vars,
         pc' = "callback"
  PROVE  ToldInv'
<1>0. DataOK /\ EntriesOK
  BY Types
<1>1. CASE dispatchCall
  <2>1. /\ pc = "dispatch" /\ at <= Len(_msgs) /\ _msgs[at].fd \in DOMAIN _clients
        /\ told' = [id |-> _clients[_msgs[at].fd], frame |-> _msgs[at].frame]
        /\ UNCHANGED <<sent, owner, table>>
    BY <1>1 DEF dispatchCall, Dispatching, Known, Current, kernel
  <2>2. _msgs \in Seq(Mail) /\ at \in Nat /\ at >= 1
    BY <1>0, <2>1 DEF DataOK, TypeOK, ScanInv
  <2>3. at \in DOMAIN _msgs /\ _msgs[at] \in Mail
    BY <2>1, <2>2
  <2>4. PICK p \in Peers : FrameOf(_msgs[at].frame, _msgs[at].fd, p)
    BY <2>3 DEF QueueInv
  <2>5. p \in Range(table) => owner[_clients[_msgs[at].fd]] = p
    BY <2>4 DEF FrameOf, IdentityInv
  <2>6. _msgs[at].frame \in Seq(Units)
    BY <2>3 DEF Mail
  <2>7. PICK f, id : f = _msgs[at].frame /\ id = _clients[_msgs[at].fd]
    OBVIOUS
  <2>8. told'.frame = f /\ told'.id = id
    BY <2>1, <2>7
  <2>9. f \in Seq(Units) /\ f # <<>> /\ f[1].msg \in Range(sent[p]) /\ p \in Range(owner)
        /\ (p \in Range(table) => owner[id] = p)
    BY <2>4, <2>5, <2>6, <2>7 DEF FrameOf, Said
  <2> QED BY <2>1, <2>8, <2>9 DEF ToldInv, Said
<1>2. CASE pc = "callback" /\ told' = told /\ owner' = owner
  <2>1. told.frame \in Seq(Units) /\ told.frame # <<>>
    BY <1>2 DEF ToldInv
  <2>2. PICK p \in Peers : /\ told.frame[1].msg \in Range(sent[p])
                           /\ p \in Range(owner)
                           /\ p \in Range(table) => owner[told.id] = p
    BY <1>2 DEF ToldInv, Said
  <2>3. PICK w : w = told.frame[1].msg
    OBVIOUS
  <2>4. w \in Range(sent'[p])
    BY <2>2, <2>3, StaysSaid
  <2>5. Stays(p)
    BY <2>2, Lasting
  <2> QED BY <1>2, <2>1, <2>2, <2>3, <2>4, <2>5 DEF ToldInv, Said, Stays
<1>3. \/ dispatchCall
      \/ pc = "callback" /\ told' = told /\ owner' = owner
  <2> USE DEF history
  <2>1. CASE PeerStep
    BY <2>1 DEF PeerStep, Knock, Send, Part
  <2>2. CASE start \/ Halts \/ update \/ Dead \/ UNCHANGED vars
    BY <2>2 DEF start, Halts, Shutdown, update, Dead, vars
  <2>3. CASE UpdateReceives
    BY <2>3 DEF UpdateReceives, selectInterrupted, selectTimeout, selectReady, scanEnds,
              receive, accept, acceptFails, recvAgain, recvBytes, parseMessage, parseEnds, recvEnd
  <2>4. CASE UpdateDispatches
    BY <2>4 DEF UpdateDispatches, dispatchSkip, callbackExhausted, dispatchEnds,
              callbackReturns, callbackThrows, Dispatching
  <2>5. CASE Sends
    BY <2>5 DEF Sends, sendTo, sendToFails, sendDies
  <2> QED BY Halting, <2>1, <2>2, <2>3, <2>4, <2>5 DEF Next
<1> QED BY <1>1, <1>2, <1>3

\* A reply goes to the descriptor its id has, which is its peer's.
LEMMA ReplyStep ==
  ASSUME BooksInv, IdentityInv, misdelivered \in BOOLEAN, RepliesReachTheirClient, [Next]_vars
  PROVE  RepliesReachTheirClient' /\ misdelivered' \in BOOLEAN
<1>1. ASSUME NEW id \in Ids, sendTo(id)
      PROVE  RepliesReachTheirClient' /\ misdelivered' \in BOOLEAN
  <2>1. id \in DOMAIN _clientsToFd
        /\ misdelivered' = (misdelivered \/ table[_clientsToFd[id]] # owner[id])
    BY <1>1 DEF sendTo
  <2>2. _clientsToFd[id] \in DOMAIN table /\ _clients[_clientsToFd[id]] = id
    BY <2>1 DEF BooksInv
  <2>3. table[_clientsToFd[id]] = owner[id]
    BY <2>2 DEF IdentityInv
  <2>4. misdelivered' \in BOOLEAN
    BY <2>1, Zenon
  <2> QED BY <2>1, <2>3, <2>4 DEF RepliesReachTheirClient
<1>2. misdelivered' = misdelivered \/ \E id \in Ids : sendTo(id)
  <2> USE DEF history
  <2>1. CASE PeerStep
    BY <2>1 DEF PeerStep, Knock, Send, Part
  <2>2. CASE start \/ Halts \/ update \/ Dead \/ UNCHANGED vars
    BY <2>2 DEF start, Halts, Shutdown, update, Dead, vars
  <2>3. CASE UpdateReceives
    BY <2>3 DEF UpdateReceives, selectInterrupted, selectTimeout, selectReady, scanEnds,
              receive, accept, acceptFails, recvAgain, recvBytes, parseMessage, parseEnds, recvEnd
  <2>4. CASE UpdateDispatches
    BY <2>4 DEF UpdateDispatches, dispatchSkip, dispatchCall, callbackExhausted, dispatchEnds,
              callbackReturns, callbackThrows
  <2>5. CASE Sends
    BY <2>5 DEF Sends, sendToFails, sendDies
  <2> QED BY Halting, <2>1, <2>2, <2>3, <2>4, <2>5 DEF Next
<1> QED BY <1>1, <1>2 DEF RepliesReachTheirClient

-------------------------------------------------------------------------------
(***************************************************************************)
(* The invariant holds, and what follows from it.                          *)
(***************************************************************************)
LEMMA InitInv == Init => ServerInv
<1> SUFFICES ASSUME Init PROVE ServerInv
  OBVIOUS
<1>1. Cardinality(Peers) \in Nat
  BY ServerAssumption, FS_CardinalityType
<1>2. EntriesOK
  BY <1>1, Nobody DEF Init, EntriesOK, Ids
<1>3. ControlOK
  BY ServerAssumption DEF Init, ControlOK
<1>4. DataOK
  BY Nobody DEF Init, DataOK
<1>5. misdelivered = FALSE
  BY DEF Init
<1>6. TypeOK
  BY <1>2, <1>3, <1>4, <1>5, Types
<1>7. BooksInv
  BY Nobody, FS_EmptySet, ServerAssumption DEF Init, BooksInv, NoFd
<1>8. IdentityInv
  BY Nobody DEF Init, IdentityInv
<1>9. ScanInv /\ ParseInv /\ BufferInv /\ ToldInv
  BY Nobody DEF Init, ScanInv, ParseInv, BufferInv, ToldInv
<1>10. \A p \in Peers : Range(sent[p]) = {}
  BY DEF Init, Range
<1>11. OneSender /\ QueueInv
  BY <1>10 DEF Init, OneSender, Said, QueueInv
<1>12. WireInv
  BY DEF Init, WireInv
<1>13. RepliesReachTheirClient
  BY <1>5 DEF RepliesReachTheirClient
<1> QED BY <1>6, <1>7, <1>8, <1>9, <1>11, <1>12, <1>13 DEF ServerInv

LEMMA NextInv == ServerInv /\ [Next]_vars => ServerInv'
<1> SUFFICES ASSUME ServerInv, [Next]_vars PROVE ServerInv'
  OBVIOUS
<1>1. /\ TypeOK /\ BooksInv /\ IdentityInv /\ ScanInv /\ ParseInv
      /\ OneSender /\ WireInv /\ BufferInv /\ QueueInv /\ ToldInv /\ RepliesReachTheirClient
  BY DEF ServerInv
<1>2. RepliesReachTheirClient' /\ misdelivered' \in BOOLEAN
  <2>1. misdelivered \in BOOLEAN
    BY <1>1, Types
  <2> QED BY <1>1, <2>1, ReplyStep
<1>3. TypeOK'
  <2>1. EntriesOK' /\ ControlOK' /\ DataOK'
    BY <1>1, EntriesStep, ControlStep, DataStep
  <2>2. (TypeOK <=> EntriesOK /\ ControlOK /\ DataOK /\ misdelivered \in BOOLEAN)'
    BY Types, PTL
  <2> QED BY <1>2, <2>1, <2>2
<1>4. BooksInv' /\ IdentityInv' /\ ScanInv' /\ ParseInv'
  BY <1>1, BooksStep, IdentityStep, ScanStep, ParseStep
<1>5. OneSender' /\ WireInv' /\ BufferInv' /\ QueueInv'
  BY <1>1, OneSenderStep, WireStep, BufferStep, QueueStep
<1>6. ToldInv'
  <2>1. CASE pc' = "callback"
    BY <1>1, <2>1, ToldStep
  <2>2. CASE pc' # "callback"
    BY <2>2 DEF ToldInv
  <2> QED BY <2>1, <2>2
<1> QED BY <1>2, <1>3, <1>4, <1>5, <1>6 DEF ServerInv

\* The state of the server, of the kernel and of the peers is well-formed.
THEOREM TypeCorrect == SafeSpec => []TypeOK
<1>1. ServerInv => TypeOK
  BY DEF ServerInv
<1> QED BY <1>1, InitInv, NextInv, PTL DEF SafeSpec

\* The two maps, the active set and the kernel's table agree, and the number of
\* clients respects the limit.
THEOREM BooksCorrect == SafeSpec => []BooksAgree
<1>1. ServerInv => BooksAgree
  BY DEF ServerInv, BooksInv, BooksAgree
<1> QED BY <1>1, InitInv, NextInv, PTL DEF SafeSpec

\* A reply reaches the peer that was given the id, or no one.
THEOREM RepliesCorrect == SafeSpec => []RepliesReachTheirClient
<1>1. ServerInv => RepliesReachTheirClient
  BY DEF ServerInv
<1> QED BY <1>1, InitInv, NextInv, PTL DEF SafeSpec

\* A sender that is connected is named by the id it was given.
THEOREM NamingCorrect == SafeSpec => []ConnectedSenderIsNamed
<1>1. ServerInv => ConnectedSenderIsNamed
  <2> SUFFICES ASSUME ServerInv, pc = "callback", SenderOf(told.frame) \in Range(table)
               PROVE  owner[told.id] = SenderOf(told.frame)
    BY DEF ConnectedSenderIsNamed
  <2>1. PICK p \in Peers : /\ Said(told.frame[1].msg, p)
                           /\ p \in Range(table) => owner[told.id] = p
    BY DEF ServerInv, ToldInv
  <2>2. told.frame[1].msg \in Msgs
    <3>1. sent[p] \in Seq(Msgs)
      BY DEF ServerInv, TypeOK
    <3>2. Range(sent[p]) \subseteq Msgs
      BY <3>1 DEF Range
    <3> QED BY <2>1, <3>2 DEF Said
  <2>3. \A q \in Peers : told.frame[1].msg \in Range(sent[q]) <=> q = p
    BY <2>1, <2>2 DEF ServerInv, OneSender, Said
  <2>4. SenderOf(told.frame) = p
    BY <2>3 DEF SenderOf
  <2> QED BY <2>1, <2>4
<1> QED BY <1>1, InitInv, NextInv, PTL DEF SafeSpec

-------------------------------------------------------------------------------
(***************************************************************************)
(* Whole messages, in order.  What a step makes of the stream of a peer    *)
(* that no read has cut.                                                   *)
(***************************************************************************)
\* The units of p that were received and not parsed.
Unread(p) == IF pc = "parse" /\ table[at] = p THEN _partialMsgs[at] ELSE <<>>

\* Nothing of the stream of p can have been lost.
Live(p) == state[p] \in {"new", "up"}

\* A peer that has not connected has sent nothing.
NewInv == \A p \in Peers : state[p] = "new" => wire[p] = <<>>

Grown(p, m) ==
  /\ state[p] = "up" /\ state'[p] = "up"
  /\ sent'[p] = Append(sent[p], m) /\ wire'[p] = wire[p] \o Bytes(m)
  /\ Unread(p)' = Unread(p)

\* n units are left on the wire, and all are as long as the connection lives.
Left(p, n) ==
  /\ sent'[p] = sent[p]
  /\ Len(wire'[p]) = n /\ Agree(wire'[p], wire[p], n)
  /\ Live(p)' => Live(p) /\ n = Len(wire[p])

Given(p, n) ==
  /\ sent'[p] = sent[p] /\ state'[p] = state[p]
  /\ Unread(p) = <<>> /\ Unread(p)' = Take(wire[p], n) /\ wire'[p] = Drop(wire[p], n)
  /\ BetweenMessages(p, n)

Framed(p, n) ==
  /\ sent'[p] = sent[p] /\ state'[p] = state[p] /\ wire'[p] = wire[p]
  /\ Unread(p) \in Seq(Units) /\ CompleteWith(Unread(p), n) /\ Unread(p)' = Drop(Unread(p), n)
  /\ p = table[at] /\ at \in DOMAIN table
  /\ _msgs' = Append(_msgs, [frame |-> Take(Unread(p), n), fd |-> at, read |-> FALSE])

Cleared(p) ==
  /\ sent'[p] = sent[p] /\ state'[p] = state[p] /\ wire'[p] = wire[p]
  /\ Unread(p) \in Seq(Units) /\ Incomplete(Unread(p)) /\ Unread(p)' = <<>>

LEMMA UnreadType ==
  ASSUME TypeOK, ParseInv, NEW p \in Peers
  PROVE  /\ Unread(p) \in Seq(Units) /\ Len(Unread(p)) \in Nat
         /\ wire[p] \in Seq(Units) /\ Len(wire[p]) \in Nat
         /\ sent[p] \in Seq(Msgs) /\ Len(sent[p]) \in Nat
<1>1. DataOK
  BY Types
<1>2. wire[p] \in Seq(Units) /\ sent[p] \in Seq(Msgs)
  BY <1>1 DEF DataOK
<1>3. Unread(p) \in Seq(Units)
  BY <1>1 DEF DataOK, ParseInv, Unread
<1> QED BY <1>2, <1>3

\* Only the receiver and the parser touch the unread units, and those of one peer.
LEMMA Quiet ==
  ASSUME TypeOK, BooksInv, ScanInv, ParseInv, [Next]_vars, NEW p \in Peers,
         ~((recvBytes \/ parseMessage \/ parseEnds) /\ table[at] = p)
  PROVE  Unread(p)' = Unread(p)
<1>1. CASE recvBytes
  <2>1. pc = "recv" /\ at' = at /\ table' = table /\ table[at] # p
    BY <1>1 DEF recvBytes
  <2> QED BY <2>1 DEF Unread
<1>2. CASE parseMessage \/ parseEnds
  <2>1. at' = at /\ table' = table /\ table[at] # p
    BY <1>2 DEF parseMessage, parseEnds, kernel
  <2> QED BY <2>1 DEF Unread
<1>3. CASE recvEnd \/ Halts \/ \E id \in Ids : sendToFails(id)
  <2>1. pc # "parse" /\ pc' # "parse"
    BY <1>3 DEF recvEnd, Halts, Shutdown, sendToFails, MayCall
  <2> QED BY <2>1 DEF Unread
<1>4. CASE /\ _partialMsgs' = _partialMsgs
           /\ pc = "parse" => pc' = "parse" /\ at' = at
           /\ pc' = "parse" => pc = "parse"
  <2>1. CASE pc # "parse"
    BY <1>4, <2>1 DEF Unread
  <2>2. CASE pc = "parse"
    <3>1. table' = table
      BY <2>2, Bookkeeping DEF entries, start, Halts, Shutdown, MayCall, accept, recvEnd, sendToFails
    <3> QED BY <1>4, <2>2, <3>1 DEF Unread
  <2> QED BY <2>1, <2>2
<1> QED BY <1>1, <1>2, <1>3, <1>4, Parsing

\* What the other steps leave on the wire.
LEMMA Leaving ==
  ASSUME TypeOK, BooksInv, ScanInv, ParseInv, NewInv, [Next]_vars, NEW p \in Peers,
         \A m \in Msgs : ~Send(p, m), ~(recvBytes /\ table[at] = p)
  PROVE  \E n \in 0..Len(wire[p]) : Left(p, n)
<1>0. /\ EntriesOK /\ wire \in [Peers -> Seq(Units)] /\ sent \in [Peers -> Seq(Msgs)]
      /\ state \in [Peers -> {"new", "up", "closed", "reset", "gone"}]
      /\ wire[p] \in Seq(Units) /\ Len(wire[p]) \in Nat
  <2>1. EntriesOK /\ DataOK /\ ControlOK
    BY Types
  <2> QED BY <2>1, UnreadType DEF DataOK, ControlOK
<1>1. ASSUME sent'[p] = sent[p], wire'[p] = wire[p], Live(p)' => Live(p)
      PROVE  \E n \in 0..Len(wire[p]) : Left(p, n)
  <2>1. Left(p, Len(wire[p])) /\ Len(wire[p]) \in 0..Len(wire[p])
    BY <1>0, <1>1 DEF Left, Agree
  <2> QED BY <2>1
<1>2. ASSUME sent'[p] = sent[p], wire'[p] = <<>>, Live(p)' => Live(p) /\ wire[p] = <<>>
      PROVE  \E n \in 0..Len(wire[p]) : Left(p, n)
  <2>1. Len(wire'[p]) = 0 /\ 0 \in 0..Len(wire[p]) /\ 1..0 = {}
    BY <1>0, <1>2
  <2>2. Len(<<>>) = 0
    OBVIOUS
  <2>3. Left(p, 0)
    BY <1>2, <2>1, <2>2 DEF Left, Agree
  <2> QED BY <2>1, <2>3
<1> USE DEF Live
<1>3. CASE PeerStep
  <2>1. ASSUME NEW q \in Peers, Knock(q) PROVE \E n \in 0..Len(wire[p]) : Left(p, n)
    BY <1>0, <1>1, <2>1 DEF Knock, history
  <2>2. ASSUME NEW q \in Peers, NEW m \in Msgs, Send(q, m)
        PROVE  \E n \in 0..Len(wire[p]) : Left(p, n)
    BY <1>0, <1>1, <2>2 DEF Send
  <2>3. ASSUME NEW q \in Peers, Part(q) PROVE \E n \in 0..Len(wire[p]) : Left(p, n)
    <3>1. sent' = sent /\ state[q] = "up"
      BY <2>3 DEF Part, history
    <3>2. CASE q # p \/ wire' = wire
      BY <1>0, <1>1, <2>3, <3>1, <3>2 DEF Part
    <3>3. CASE q = p /\ state'[p] = "reset"
               /\ \E n \in 0..Len(wire[p]) : wire' = [wire EXCEPT ![p] = Take(wire[p], n)]
      <4>1. PICK n \in 0..Len(wire[p]) : wire'[p] = Take(wire[p], n)
        BY <1>0, <3>3
      <4>2. Len(Take(wire[p], n)) = n /\ Agree(Take(wire[p], n), wire[p], n)
        BY <1>0, Divided DEF Agree
      <4> QED BY <3>1, <3>3, <4>1, <4>2 DEF Left
    <3> QED BY <1>0, <2>3, <3>2, <3>3 DEF Part
  <2> QED BY <1>3, <2>1, <2>2, <2>3 DEF PeerStep
<1>4. CASE Halts
  <2>1. /\ sent' = sent /\ wire'[p] = <<>>
        /\ state'[p] = IF state[p] # "new" THEN "gone" ELSE "new"
    BY <1>4 DEF Halts, Shutdown, history
  <2> QED BY <1>2, <2>1 DEF NewInv
<1>5. ASSUME NEW q \in Peers, accept(q) \/ acceptFails(q)
      PROVE  \E n \in 0..Len(wire[p]) : Left(p, n)
  <2>1. /\ sent' = sent
        /\ \/ wire' = wire /\ state' = state
           \/ /\ wire' = [wire EXCEPT ![q] = <<>>]
              /\ state' = [state EXCEPT ![q] = "gone"]
    BY <1>5 DEF accept, acceptFails, history
  <2> QED BY <1>0, <1>1, <1>2, <2>1
<1>6. ASSUME NEW fd, Erasing(fd), sent' = sent
      PROVE  \E n \in 0..Len(wire[p]) : Left(p, n)
  <2>1. /\ table[fd] \in Peers /\ wire' = [wire EXCEPT ![table[fd]] = <<>>]
        /\ state' = [state EXCEPT ![table[fd]] = "gone"]
    BY <1>0, <1>6 DEF Erasing, EntriesOK
  <2> QED BY <1>0, <1>1, <1>2, <1>6, <2>1
<1>7. CASE recvEnd
  <2>1. sent' = sent /\ Erasing(at)
    BY <1>7, ErasedBy DEF recvEnd, history
  <2> QED BY <1>6, <2>1
<1>8. ASSUME NEW id \in Ids, sendToFails(id) PROVE \E n \in 0..Len(wire[p]) : Left(p, n)
  <2>1. sent' = sent /\ Erasing(_clientsToFd[id])
    BY <1>8, ErasedBy DEF sendToFails, history
  <2> QED BY <1>6, <2>1
<1>9. CASE recvBytes
  <2>1. sent' = sent /\ state' = state /\ wire'[p] = wire[p]
    BY <1>0, <1>9, Received DEF recvBytes
  <2> QED BY <1>1, <2>1
<1>10. CASE UNCHANGED <<sent, kernel>>
  BY <1>1, <1>10 DEF kernel
<1>11. CASE start \/ update \/ Dead \/ UNCHANGED vars \/ UpdateDispatches
  BY <1>10, <1>11 DEF start, update, Dead, vars, kernel, history, UpdateDispatches, dispatchSkip,
     dispatchCall, callbackExhausted, dispatchEnds, callbackReturns, callbackThrows
<1>12. CASE UpdateReceives
  BY <1>5, <1>7, <1>9, <1>10, <1>12
     DEF UpdateReceives, selectInterrupted, selectTimeout, selectReady, scanEnds, receive,
         parseMessage, parseEnds, recvAgain, kernel, history
<1>13. CASE Sends
  BY <1>8, <1>10, <1>13 DEF Sends, sendTo, sendDies, kernel, history
<1> QED BY Halting, <1>3, <1>4, <1>11, <1>12, <1>13 DEF Next

LEMMA NewStep ==
  ASSUME TypeOK, BooksInv, ScanInv, ParseInv, NewInv, [Next]_vars
  PROVE  NewInv'
<1> SUFFICES ASSUME NEW p \in Peers, state'[p] = "new" PROVE wire'[p] = <<>>
  BY DEF NewInv
<1>0. state \in [Peers -> {"new", "up", "closed", "reset", "gone"}] /\ wire \in [Peers -> Seq(Units)]
  BY DEF TypeOK
<1>1. ASSUME state[p] = "new" PROVE wire[p] = <<>>
  BY <1>1 DEF NewInv
<1>2. state[p] = "new"
  <2>1. CASE \A q \in Peers : Moves(q)
    BY <2>1 DEF Moves
  <2>2. CASE start
    BY <2>2 DEF start, kernel
  <2>3. CASE Halts
    BY <2>3 DEF Halts, Shutdown
  <2>4. ASSUME NEW q \in Peers, accept(q), ~Full PROVE state[p] = "new"
    BY <2>4 DEF accept
  <2>5. ASSUME NEW fd, Erasing(fd) PROVE state[p] = "new"
    BY <1>0, <2>5 DEF Erasing
  <2> QED BY <2>1, <2>2, <2>3, <2>4, <2>5, Bookkeeping, ErasedBy
<1>3. \A m \in Msgs : ~Send(p, m)
  BY <1>2 DEF Send
<1>4. wire[p] = <<>> /\ Len(wire[p]) = 0
  BY <1>1, <1>2
<1>5. ~(recvBytes /\ table[at] = p)
  <2>1. ASSUME recvBytes, table[at] = p PROVE FALSE
    <3>1. \E n \in 1..Len(wire[p]) : TRUE
      BY <2>1 DEF recvBytes
    <3> QED BY <1>4, <3>1
  <2> QED BY <2>1
<1>6. PICK n \in 0..Len(wire[p]) : Left(p, n)
  BY <1>3, <1>5, Leaving
<1>7. Len(wire'[p]) = 0
  BY <1>4, <1>6 DEF Left
<1>8. wire'[p] \in Seq(Units)
  BY DataStep DEF DataOK
<1> QED BY <1>7, <1>8

LEMMA FramedBy ==
  ASSUME TypeOK, ScanInv, ParseInv, parseMessage, NEW p \in Peers, table[at] = p
  PROVE  \E n \in 2..Len(Unread(p)) : Framed(p, n)
<1>1. pc = "parse" /\ pc' = pc /\ at' = at /\ _partialMsgs[at] \in Seq(Units)
      /\ UNCHANGED <<table, state, sent, wire>> /\ at \in DOMAIN table /\ at \in DOMAIN _partialMsgs
  BY Parsed DEF parseMessage, kernel, history, ScanInv, ParseInv
<1>2. PICK n \in 2..Len(_partialMsgs[at]) :
        /\ CompleteWith(_partialMsgs[at], n)
        /\ _msgs' = Append(_msgs, [frame |-> Take(_partialMsgs[at], n),
                                   fd |-> at, read |-> FALSE])
        /\ _partialMsgs' = [_partialMsgs EXCEPT ![at] = Drop(_partialMsgs[at], n)]
  BY Parsed
<1>3. Unread(p) = _partialMsgs[at]
  BY <1>1 DEF Unread
<1>4. Unread(p)' = Drop(_partialMsgs[at], n)
  BY <1>1, <1>2 DEF Unread
<1>5. Framed(p, n)
  BY <1>1, <1>2, <1>3, <1>4 DEF Framed
<1> QED BY <1>2, <1>3, <1>5

LEMMA Stepping ==
  ASSUME TypeOK, BooksInv, ScanInv, ParseInv, NewInv, [Next]_vars, NEW p \in Peers \ cut'
  PROVE  \/ \E m \in Msgs : Grown(p, m)
         \/ \E n \in 0..Len(wire[p]) : Left(p, n) /\ Unread(p)' = Unread(p)
         \/ \E n \in 1..Len(wire[p]) : Given(p, n)
         \/ \E n \in 2..Len(Unread(p)) : Framed(p, n)
         \/ Cleared(p)
<1>0. /\ wire \in [Peers -> Seq(Units)] /\ sent \in [Peers -> Seq(Msgs)]
      /\ state \in [Peers -> {"new", "up", "closed", "reset", "gone"}]
  BY DEF TypeOK
<1>1. ASSUME NEW m \in Msgs, Send(p, m) PROVE Grown(p, m)
  <2>1. Unread(p)' = Unread(p)
    BY <1>1 DEF Send, input, Unread
  <2> QED BY <1>0, <1>1, <2>1 DEF Send, Grown
<1>2. ASSUME recvBytes, table[at] = p
      PROVE  \E n \in 1..Len(wire[p]) : Given(p, n)
  <2>1. PICK n \in 1..Len(wire[p]) :
          /\ _partialMsgs'[at] = Take(wire[p], n)
          /\ wire' = [wire EXCEPT ![p] = Drop(wire[p], n)]
          /\ cut' = IF BetweenMessages(p, n) THEN cut ELSE cut \union {p}
    BY <1>2, Received
  <2>2. pc = "recv" /\ pc' = "parse" /\ at' = at /\ UNCHANGED <<table, state, sent>>
    BY <1>2 DEF recvBytes
  <2>3. Unread(p) = <<>> /\ Unread(p)' = Take(wire[p], n)
    BY <1>2, <2>1, <2>2 DEF Unread
  <2>4. BetweenMessages(p, n)
    BY <2>1
  <2>5. wire'[p] = Drop(wire[p], n)
    BY <1>0, <2>1
  <2>6. Given(p, n)
    BY <2>2, <2>3, <2>4, <2>5 DEF Given
  <2> QED BY <2>6
<1>3. ASSUME parseMessage, table[at] = p
      PROVE  \E n \in 2..Len(Unread(p)) : Framed(p, n)
  BY <1>3, FramedBy
<1>4. ASSUME parseEnds, table[at] = p PROVE Cleared(p)
  <2>1. pc = "parse" /\ pc' = "recv" /\ Incomplete(_partialMsgs[at])
        /\ UNCHANGED <<state, sent, wire>>
    BY <1>4 DEF parseEnds, kernel, history
  <2>2. Unread(p) = _partialMsgs[at] /\ Unread(p)' = <<>>
    BY <1>4, <2>1 DEF Unread
  <2> QED BY <2>1, <2>2, UnreadType DEF Cleared
<1>5. ASSUME \A m \in Msgs : ~Send(p, m),
             ~((recvBytes \/ parseMessage \/ parseEnds) /\ table[at] = p)
      PROVE  \E n \in 0..Len(wire[p]) : Left(p, n) /\ Unread(p)' = Unread(p)
  <2>1. Unread(p)' = Unread(p)
    BY <1>5, Quiet
  <2>2. \E n \in 0..Len(wire[p]) : Left(p, n)
    BY <1>5, Leaving
  <2> QED BY <2>1, <2>2
<1> QED BY <1>1, <1>2, <1>3, <1>4, <1>5

-------------------------------------------------------------------------------
(***************************************************************************)
(* Where the stream stands: o is its layout, d messages have been parsed.  *)
(***************************************************************************)
\* What was received and what is on the wire go on where the parser stands; until
\* the peer leaves nothing is missing, and as long as anything can still come what
\* was received ends with a message.
Flows(p, o, d) ==
  /\ Stream(sent[p], Len(sent[p]), o, d, Unread(p), Len(Unread(p)), wire[p], Len(wire[p]))
  /\ Live(p) => Complete(o, Len(sent[p]), d, Len(Unread(p)), Len(wire[p]))
  /\ Live(p) \/ wire[p] # <<>> => Aligned(o, Len(sent[p]), d, Len(Unread(p)))

LEMMA FlowsGrown ==
  ASSUME TypeOK, ParseInv, NEW p \in Peers, NEW o, NEW d, Flows(p, o, d),
         NEW m \in Msgs, Grown(p, m)
  PROVE  \E o2 : Flows(p, o2, d)'
<1>1. PICK ms, u, w : ms = sent[p] /\ u = Unread(p) /\ w = wire[p]
  OBVIOUS
<1>2. PICK l, a, n : l = Len(ms) /\ a = Len(u) /\ n = Len(w)
  OBVIOUS
<1>3. /\ l \in Nat /\ a \in Nat /\ n \in Nat
      /\ ms \in Seq(Msgs) /\ u \in Seq(Units) /\ w \in Seq(Units)
  BY <1>1, <1>2, UnreadType
<1>4. Stream(ms, l, o, d, u, a, w, n) /\ Complete(o, l, d, a, n) /\ Aligned(o, l, d, a)
  BY <1>1, <1>2, <1>3 DEF Flows, Grown, Live
<1>5. PICK ms2, l2, v, n2 : ms2 = Append(ms, m) /\ l2 = l + 1 /\ v = w \o Bytes(m) /\ n2 = Len(v)
  OBVIOUS
<1>6. l2 = l + 1 /\ Len(ms2) = l2 /\ Agree(ms2, ms, l) /\ ms2[l + 1] = m
  BY <1>2, <1>3, <1>5, Appended DEF Agree
<1>7. PICK z \in Nat : z = Header + Size[m]
  BY BytesOfMessage
<1>8. /\ Bytes(m) \in Seq(Units) /\ Len(Bytes(m)) = z
      /\ \A i \in 1..z : Bytes(m)[i] = [msg |-> m, at |-> i]
  BY <1>7, BytesOfMessage
<1>9. /\ n2 = n + z /\ \A i \in 1..n : v[i] = w[i]
      /\ \A i \in 1..z : v[n + i] = Bytes(m)[i]
  <2>1. PICK t : t = Bytes(m)
    OBVIOUS
  <2>2. /\ Len(w \o t) = Len(w) + Len(t)
        /\ \A i \in 1..Len(w) : (w \o t)[i] = w[i]
        /\ \A i \in 1..Len(t) : (w \o t)[Len(w) + i] = t[i]
    BY <1>3, <1>8, <2>1, Joined
  <2> QED BY <1>2, <1>5, <1>8, <2>1, <2>2, Zenon
<1>10. Added(ms, l, w, n, m, ms2, l2, v, n2)
  <2>1. \A i \in 1..z : v[n + i] = [msg |-> m, at |-> i]
    BY <1>8, <1>9, Zenon
  <2>2. Carries(v, n, m, z)
    <3>1. \A i : [msg |-> m, at |-> i].msg = m /\ [msg |-> m, at |-> i].at = i
      OBVIOUS
    <3> QED BY <2>1, <3>1, Zenon DEF Carries
  <2>3. Agree(v, w, n)
    BY <1>9, Zenon DEF Agree
  <2> QED BY <1>6, <1>7, <1>9, <2>2, <2>3 DEF Added
<1>11. PICK o2 : /\ Stream(ms2, l2, o2, d, u, a, v, n2)
                 /\ Complete(o2, l2, d, a, n2) /\ Aligned(o2, l2, d, a)
  BY <1>3, <1>4, <1>10, StreamAdds
<1>12. /\ sent'[p] = ms2 /\ Unread(p)' = u /\ wire'[p] = v
       /\ Len(sent'[p]) = l2 /\ Len(Unread(p)') = a /\ Len(wire'[p]) = n2
  BY <1>1, <1>2, <1>5, <1>6 DEF Grown
<1>13. Flows(p, o2, d)'
  BY <1>11, <1>12 DEF Flows
<1> QED BY <1>13

LEMMA FlowsLeft ==
  ASSUME TypeOK, ParseInv, NEW p \in Peers, NEW o, NEW d, Flows(p, o, d),
         NEW k \in 0..Len(wire[p]), Left(p, k), Unread(p)' = Unread(p), wire'[p] \in Seq(Units)
  PROVE  Flows(p, o, d)'
<1>1. PICK ms, u, w : ms = sent[p] /\ u = Unread(p) /\ w = wire[p]
  OBVIOUS
<1>2. PICK l, a, n : l = Len(ms) /\ a = Len(u) /\ n = Len(w)
  OBVIOUS
<1>3. /\ l \in Nat /\ a \in Nat /\ n \in Nat
      /\ ms \in Seq(Msgs) /\ u \in Seq(Units) /\ w \in Seq(Units)
  BY <1>1, <1>2, UnreadType
<1>4. /\ Stream(ms, l, o, d, u, a, w, n)
      /\ Live(p) => Complete(o, l, d, a, n)
      /\ Live(p) \/ w # <<>> => Aligned(o, l, d, a)
  BY <1>1, <1>2, <1>3 DEF Flows
<1>5. PICK v \in Seq(Units) : v = wire'[p] /\ Len(v) = k /\ k \in 0..n /\ Agree(v, w, k)
  BY <1>1, <1>2, <1>3 DEF Left
<1>6. Stream(ms, l, o, d, u, a, v, k)
  BY <1>3, <1>4, <1>5, StreamShrinks
<1>7. Live(p)' => Complete(o, l, d, a, k)
  BY <1>1, <1>2, <1>3, <1>4 DEF Left
<1>8. ASSUME Live(p)' \/ v # <<>> PROVE Aligned(o, l, d, a)
  <2>1. CASE Live(p)'
    BY <1>1, <1>2, <1>4, <2>1 DEF Left
  <2>2. CASE v # <<>>
    <3>1. k # 0 /\ n # 0
      BY <1>3, <1>5, <2>2
    <3>2. w # <<>>
      BY <1>2, <3>1
    <3> QED BY <1>4, <3>2
  <2> QED BY <1>8, <2>1, <2>2
<1>9. sent'[p] = ms /\ Unread(p)' = u /\ Len(sent'[p]) = l /\ Len(Unread(p)') = a
  BY <1>1, <1>2, <1>3 DEF Left
<1> QED BY <1>5, <1>6, <1>7, <1>8, <1>9 DEF Flows

LEMMA FlowsGiven ==
  ASSUME TypeOK, ParseInv, NEW p \in Peers, NEW o, NEW d, Flows(p, o, d),
         NEW k \in 1..Len(wire[p]), Given(p, k)
  PROVE  Flows(p, o, d)'
<1>1. PICK ms, u, w : ms = sent[p] /\ u = Unread(p) /\ w = wire[p]
  OBVIOUS
<1>2. PICK l, a, n : l = Len(ms) /\ a = Len(u) /\ n = Len(w)
  OBVIOUS
<1>3. /\ l \in Nat /\ a \in Nat /\ n \in Nat
      /\ ms \in Seq(Msgs) /\ u \in Seq(Units) /\ w \in Seq(Units) /\ a = 0
  BY <1>1, <1>2, UnreadType DEF Given
<1>4. /\ Stream(ms, l, o, d, u, 0, w, n)
      /\ Live(p) => Complete(o, l, d, 0, n)
  BY <1>1, <1>2, <1>3 DEF Flows
<1>5. PICK v, w2, n2 : v = Take(w, k) /\ w2 = Drop(w, k) /\ n2 = n - k
  OBVIOUS
<1>6. k \in 1..n /\ k \in 0..n /\ n2 \in Nat /\ n2 = n - k
  BY <1>1, <1>2, <1>3, <1>5
<1>7. /\ Len(v) = k /\ Agree(v, w, k) /\ w2 \in Seq(Units) /\ Len(w2) = n2 /\ Behind(w, k, w2, n2)
  BY <1>2, <1>3, <1>5, <1>6, Divided DEF Agree, Behind
<1>8. /\ Stream(ms, l, o, d, v, k, w2, n2)
      /\ Complete(o, l, d, 0, n) => Complete(o, l, d, k, n2)
  BY <1>3, <1>4, <1>6, <1>7, StreamMoves
<1>9. ASSUME Live(p) \/ w2 # <<>> PROVE Aligned(o, l, d, k)
  <2>1. k # n => w[k + 1].at = 1
    BY <1>1, <1>2 DEF Given, BetweenMessages
  <2>2. CASE k = n
    <3>1. n2 = 0
      BY <1>3, <1>6, <2>2
    <3>2. Live(p)
      BY <1>7, <1>9, <3>1
    <3> QED BY <1>3, <1>4, <1>6, <2>2, <3>2, StreamAligns
  <2>3. CASE k # n
    BY <1>3, <1>4, <1>6, <2>1, <2>3, StreamAligns
  <2> QED BY <2>2, <2>3
<1>10. /\ sent'[p] = ms /\ Unread(p)' = v /\ wire'[p] = w2 /\ Len(sent'[p]) = l
       /\ Len(Unread(p)') = k /\ Len(wire'[p]) = n2 /\ (Live(p)' <=> Live(p))
  BY <1>1, <1>2, <1>3, <1>5, <1>7 DEF Given, Live
<1> QED BY <1>4, <1>8, <1>9, <1>10 DEF Flows

\* The parser takes the next message, whole.
LEMMA FlowsFramed ==
  ASSUME TypeOK, ParseInv, NEW p \in Peers, NEW o, NEW d, Flows(p, o, d),
         NEW k \in 2..Len(Unread(p)), Framed(p, k), NEW d2, d2 = d + 1
  PROVE  /\ Flows(p, o, d2)' /\ d \in Nat /\ d2 \in 1..Len(sent[p])
         /\ Take(Unread(p), k) = Bytes(sent[p][d2])
<1>1. PICK ms, u, w : ms = sent[p] /\ u = Unread(p) /\ w = wire[p]
  OBVIOUS
<1>2. PICK l, a, n : l = Len(ms) /\ a = Len(u) /\ n = Len(w)
  OBVIOUS
<1>3. /\ l \in Nat /\ a \in Nat /\ n \in Nat
      /\ ms \in Seq(Msgs) /\ u \in Seq(Units) /\ w \in Seq(Units)
  BY <1>1, <1>2, UnreadType
<1>4. /\ Stream(ms, l, o, d, u, a, w, n)
      /\ Live(p) => Complete(o, l, d, a, n)
      /\ Live(p) \/ w # <<>> => Aligned(o, l, d, a)
  BY <1>1, <1>2, <1>3 DEF Flows
<1>5. PICK v, a2, f : v = Drop(u, k) /\ a2 = a - k /\ f = Take(u, k)
  OBVIOUS
<1>6. k \in 2..a /\ k \in 0..a /\ a2 = a - k /\ CompleteWith(u, k)
  BY <1>1, <1>2, <1>3, <1>5 DEF Framed
<1>7. /\ Len(v) = a2 /\ Behind(u, k, v, a2)
      /\ f \in Seq(Units) /\ Len(f) = k /\ \A i \in 1..k : f[i] = u[i]
  BY <1>2, <1>3, <1>5, <1>6, Divided DEF Behind
<1>8. /\ d2 \in 1..l /\ ms[d2] \in Msgs
      /\ k = Header + Size[ms[d2]] /\ Spells(u, k, ms[d2])
      /\ Stream(ms, l, o, d2, v, a2, w, n)
      /\ Complete(o, l, d, a, n) => Complete(o, l, d2, a2, n)
      /\ Aligned(o, l, d, a) => Aligned(o, l, d2, a2)
  <2>1. PICK e : e = d2
    OBVIOUS
  <2>2. FrameTaken(u, a, d, k, v, a2, e)
    BY <1>6, <1>7, <2>1 DEF FrameTaken
  <2>3. Stream(ms, l, o, d, u, a, w, n)
    BY <1>4
  <2>4. /\ e \in 1..l /\ ms[e] \in Msgs
        /\ k = Header + Size[ms[e]] /\ Spells(u, k, ms[e])
        /\ Stream(ms, l, o, e, v, a2, w, n)
        /\ Complete(o, l, d, a, n) => Complete(o, l, e, a2, n)
        /\ Aligned(o, l, d, a) => Aligned(o, l, e, a2)
    BY <1>3, <2>2, <2>3, StreamTakes
  <2> QED BY <2>1, <2>4, Zenon
<1>9. f = Bytes(ms[d2])
  <2>1. Spells(f, Len(f), ms[d2])
    BY <1>7, <1>8 DEF Spells
  <2> QED BY <1>7, <1>8, <2>1, IsBytes
<1>10. /\ sent'[p] = ms /\ Unread(p)' = v /\ wire'[p] = w /\ Len(sent'[p]) = l
       /\ Len(Unread(p)') = a2 /\ Len(wire'[p]) = n /\ (Live(p)' <=> Live(p))
  BY <1>1, <1>2, <1>3, <1>5, <1>7 DEF Framed, Live
<1>11. Flows(p, o, d2)'
  BY <1>4, <1>8, <1>10 DEF Flows
<1>12. d \in Nat
  BY <1>3, <1>4, StreamTypes
<1> QED BY <1>1, <1>2, <1>5, <1>8, <1>9, <1>11, <1>12

\* What the parser throws away is nothing, or the last that will ever come.
LEMMA FlowsCleared ==
  ASSUME TypeOK, ParseInv, NEW p \in Peers, NEW o, NEW d, Flows(p, o, d), Cleared(p)
  PROVE  Flows(p, o, d)'
<1>1. PICK ms, u, w : ms = sent[p] /\ u = Unread(p) /\ w = wire[p]
  OBVIOUS
<1>2. PICK l, a, n : l = Len(ms) /\ a = Len(u) /\ n = Len(w)
  OBVIOUS
<1>3. /\ l \in Nat /\ a \in Nat /\ n \in Nat
      /\ ms \in Seq(Msgs) /\ u \in Seq(Units) /\ w \in Seq(Units)
  BY <1>1, <1>2, UnreadType
<1>4. /\ Stream(ms, l, o, d, u, a, w, n)
      /\ Live(p) => Complete(o, l, d, a, n)
      /\ Live(p) \/ w # <<>> => Aligned(o, l, d, a)
  BY <1>1, <1>2, <1>3 DEF Flows
<1>5. /\ sent'[p] = ms /\ Unread(p)' = <<>> /\ wire'[p] = w /\ Len(sent'[p]) = l
      /\ Len(Unread(p)') = 0 /\ Len(wire'[p]) = n /\ (Live(p)' <=> Live(p))
  BY <1>1, <1>2, <1>3 DEF Cleared, Live
<1>6. CASE Live(p) \/ w # <<>>
  <2>1. a = 0
    BY <1>1, <1>2, <1>3, <1>4, <1>6, StreamRests DEF Cleared
  <2>2. u = <<>>
    <3>1. u \in Seq(Units) /\ Len(u) = 0
      BY <1>2, <1>3, <2>1
    <3> QED BY <3>1
  <2> QED BY <1>4, <1>5, <2>1, <2>2 DEF Flows
<1>7. CASE ~Live(p) /\ w = <<>>
  <2>1. n = 0 /\ 1..0 = {}
    BY <1>2, <1>7
  <2>2. Stream(ms, l, o, d, <<>>, 0, w, n)
    BY <1>4, <2>1 DEF Stream, Window
  <2> QED BY <1>5, <1>7, <2>2 DEF Flows
<1> QED BY <1>6, <1>7

-------------------------------------------------------------------------------
(***************************************************************************)
(* What was parsed waits in the queue until it is told.                    *)
(***************************************************************************)
Report == [id : Ids, frame : Seq(Units)]

SaidOK == said \in Seq(Report)

\* Only a callback's start adds to what was told, and it adds one frame at most.
LEMMA Telling ==
  ASSUME TypeOK, ScanInv, SaidOK, [Next]_vars
  PROVE  /\ SaidOK' /\ Len(said) \in Nat /\ Len(said') \in Nat
         /\ \A j \in 1..Len(said) : j \in 1..Len(said') /\ said'[j] = said[j]
         /\ \/ said' = said /\ ~dispatchCall
            \/ /\ dispatchCall /\ at \in 1..Len(_msgs)
               /\ \/ said' = said /\ \E j \in 1..Len(said) : said[j].frame = _msgs[at].frame
                  \/ /\ Len(said') = Len(said) + 1
                     /\ said'[Len(said) + 1].frame = _msgs[at].frame
<1>0. Len(said) \in Nat /\ DOMAIN said = 1..Len(said) /\ said \in Seq(Report)
  BY DEF SaidOK
<1>1. CASE dispatchCall
  <2>1. /\ pc = "dispatch" /\ at <= Len(_msgs) /\ _msgs[at].fd \in DOMAIN _clients
        /\ told' = [id |-> _clients[_msgs[at].fd], frame |-> _msgs[at].frame]
        /\ said' = IF told' \in Range(said) THEN said ELSE Append(said, told')
    BY <1>1 DEF dispatchCall, Dispatching, Known, Current
  <2>2. EntriesOK /\ _msgs \in Seq(Mail) /\ at \in Nat /\ at >= 1
    <3>1. EntriesOK /\ ControlOK /\ DataOK
      BY Types
    <3> QED BY <2>1, <3>1 DEF DataOK, ControlOK, ScanInv
  <2>3. at \in 1..Len(_msgs) /\ _msgs[at] \in Mail
    BY <2>1, <2>2
  <2>4. PICK f, id : f = _msgs[at].frame /\ id = _clients[_msgs[at].fd]
    OBVIOUS
  <2>5. f \in Seq(Units) /\ id \in Ids
    BY <2>1, <2>2, <2>3, <2>4 DEF Mail, EntriesOK
  <2>6. PICK x \in Report : x = told' /\ x.frame = f
    BY <2>1, <2>4, <2>5 DEF Report
  <2>7. CASE x \in Range(said)
    <3>1. said' = said
      BY <2>1, <2>6, <2>7
    <3>2. \E j \in 1..Len(said) : said[j].frame = _msgs[at].frame
      BY <1>0, <2>4, <2>6, <2>7 DEF Range
    <3> QED BY <1>0, <1>1, <2>3, <3>1, <3>2 DEF SaidOK
  <2>8. CASE x \notin Range(said)
    <3>1. said' = Append(said, x)
      BY <2>1, <2>6, <2>8
    <3>2. /\ said' \in Seq(Report) /\ Len(said') = Len(said) + 1
          /\ \A j \in 1..Len(said) : said'[j] = said[j]
          /\ said'[Len(said) + 1] = x
      BY <1>0, <3>1, Appended
    <3>3. Len(said') \in Nat /\ \A j \in 1..Len(said) : j \in 1..Len(said')
      BY <1>0, <3>2
    <3> QED BY <1>0, <1>1, <2>3, <2>4, <2>6, <3>2, <3>3 DEF SaidOK
  <2> QED BY <2>7, <2>8
<1>2. CASE ~dispatchCall
  <2>1. said' = said
    <3> USE DEF history
    <3>1. CASE PeerStep
      BY <3>1 DEF PeerStep, Knock, Send, Part
    <3>2. CASE start \/ Halts \/ update \/ Dead \/ UNCHANGED vars
      BY <3>2 DEF start, Halts, Shutdown, update, Dead, vars
    <3>3. CASE UpdateReceives
      BY <3>3 DEF UpdateReceives, selectInterrupted, selectTimeout, selectReady, scanEnds,
                receive, accept, acceptFails, recvAgain, recvBytes, parseMessage, parseEnds, recvEnd
    <3>4. CASE UpdateDispatches
      BY <1>2, <3>4 DEF UpdateDispatches, dispatchSkip, callbackExhausted, dispatchEnds,
                callbackReturns, callbackThrows
    <3>5. CASE Sends
      BY <3>5 DEF Sends, sendTo, sendToFails, sendDies
    <3> QED BY Halting, <3>1, <3>2, <3>3, <3>4, <3>5 DEF Next
  <2> QED BY <1>0, <1>2, <2>1 DEF SaidOK
<1> QED BY <1>1, <1>2

\* A frame stays at its place in the queue until the queue is emptied.
LEMMA Holding ==
  ASSUME TypeOK, ScanInv, ParseInv, [Next]_vars
  PROVE  /\ Len(_msgs) \in Nat /\ Len(_msgs') \in Nat
         /\ \/ Len(_msgs') = 0 /\ (Halts \/ dispatchEnds)
            \/ /\ \A j \in 1..Len(_msgs) : /\ j \in 1..Len(_msgs')
                                           /\ _msgs'[j].frame = _msgs[j].frame
                                           /\ _msgs'[j].fd = _msgs[j].fd
               /\ \/ Len(_msgs') = Len(_msgs)
                  \/ parseMessage /\ Len(_msgs') = Len(_msgs) + 1
<1>0. _msgs \in Seq(Mail) /\ Len(_msgs) \in Nat
  <2>1. _msgs \in Seq(Mail)
    BY Types DEF DataOK
  <2> QED BY <2>1
<1>1. CASE Halts \/ dispatchEnds
  <2>1. _msgs' = <<>>
    BY <1>1 DEF Halts, Shutdown, dispatchEnds, ClearAll
  <2> QED BY <1>0, <1>1, <2>1
<1>2. CASE MarkRead(TRUE)
  <2>1. /\ _msgs' \in Seq(Mail) /\ Len(_msgs') = Len(_msgs)
        /\ \A i \in 1..Len(_msgs) : /\ _msgs'[i].frame = _msgs[i].frame
                                    /\ _msgs'[i].fd = _msgs[i].fd
    BY <1>0, <1>2, Marked
  <2> QED BY <1>0, <2>1
<1>3. CASE _msgs' = _msgs
  BY <1>0, <1>3
<1>4. CASE parseMessage
  <2>1. PICK n \in 2..Len(_partialMsgs[at]) :
          _msgs' = Append(_msgs, [frame |-> Take(_partialMsgs[at], n), fd |-> at, read |-> FALSE])
    BY <1>4, Parsed
  <2>2. PICK b : b = [frame |-> Take(_partialMsgs[at], n), fd |-> at, read |-> FALSE]
    OBVIOUS
  <2>3. _msgs' = Append(_msgs, b)
    BY <2>1, <2>2
  <2>4. Len(_msgs') = Len(_msgs) + 1 /\ \A j \in 1..Len(_msgs) : _msgs'[j] = _msgs[j]
    BY <1>0, <2>3
  <2>5. Len(_msgs') \in Nat /\ \A j \in 1..Len(_msgs) : j \in 1..Len(_msgs')
    BY <1>0, <2>4
  <2> QED BY <1>0, <1>4, <2>4, <2>5
<1> QED BY <1>1, <1>2, <1>3, <1>4, Queueing

\* The first unit of a message names it.
LEMMA Named ==
  ASSUME NEW m \in Msgs
  PROVE  Bytes(m)[1].msg = m /\ Bytes(m)[1].at = 1
<1>1. 1 \in 1..(Header + Size[m])
  BY SizeAssumption DEF Header
<1>2. Bytes(m)[1] = [msg |-> m, at |-> 1]
  BY <1>1, BytesOfMessage
<1> QED BY <1>2

\* Message m was told, if its type has an action.
Shown(m) == m \in _tasks => \E j \in 1..Len(said) : said[j].frame = Bytes(m)

\* Dispatching is past the i-th message.
Past(i) == i < at \/ (i = at /\ pc = "callback")

\* A message that dispatching is past was told, unless its sender is forgotten.
PastInv ==
  pc \in {"dispatch", "callback"} =>
    \A i \in 1..Len(_msgs) : \A m \in Msgs :
      Past(i) /\ _msgs[i].frame = Bytes(m) => Shown(m) \/ _msgs[i].fd \notin DOMAIN _clients

LEMMA ShownStays ==
  ASSUME TypeOK, ScanInv, SaidOK, [Next]_vars, NEW m, Shown(m)
  PROVE  Shown(m)'
BY Telling DEF Shown

\* Nobody is accepted while callbacks run.
LEMMA Dispatched ==
  ASSUME TypeOK, BooksInv, ScanInv, [Next]_vars, pc \in {"dispatch", "callback"}
  PROVE  DOMAIN _clients' \subseteq DOMAIN _clients
<1>1. CASE UNCHANGED entries
  BY <1>1 DEF entries
<1>2. CASE start
  BY <1>2 DEF start
<1>3. CASE Halts
  BY <1>3, Nobody DEF Halts, Shutdown, ClearAll
<1>4. ASSUME NEW p \in Peers, accept(p) PROVE FALSE
  BY <1>4 DEF accept
<1>5. ASSUME NEW fd, Erasing(fd) PROVE DOMAIN _clients' \subseteq DOMAIN _clients
  BY <1>5, Erased DEF Erasing
<1> QED BY <1>1, <1>2, <1>3, <1>4, <1>5, Bookkeeping, ErasedBy

LEMMA PastStep ==
  ASSUME TypeOK, BooksInv, ScanInv, ParseInv, SaidOK, PastInv, [Next]_vars
  PROVE  PastInv'
<1> SUFFICES ASSUME pc' \in {"dispatch", "callback"}, NEW i \in 1..Len(_msgs'), NEW m \in Msgs,
                    Past(i)', _msgs'[i].frame = Bytes(m)
             PROVE  Shown(m)' \/ _msgs'[i].fd \notin DOMAIN _clients'
  BY DEF PastInv
<1>0. at \in Nat /\ Len(_msgs) \in Nat
  BY Holding DEF TypeOK
<1>1. /\ Len(_msgs') = Len(_msgs) \/ parseMessage
      /\ Len(_msgs') # 0
  BY Holding
<1>2. ~parseMessage /\ i \in 1..Len(_msgs)
      /\ _msgs[i].frame = Bytes(m) /\ _msgs'[i].fd = _msgs[i].fd
  <2>1. ~parseMessage
    BY DEF parseMessage
  <2> QED BY <1>1, <2>1, Holding
<1>3. ASSUME pc \in {"dispatch", "callback"}, Past(i)
      PROVE  Shown(m)' \/ _msgs'[i].fd \notin DOMAIN _clients'
  <2>1. Shown(m) \/ _msgs[i].fd \notin DOMAIN _clients
    BY <1>2, <1>3 DEF PastInv
  <2> QED BY <1>2, <1>3, <2>1, ShownStays, Dispatched
<1>4. CASE dispatchSkip
  <2>1. pc = "dispatch" /\ at' = at + 1 /\ pc' = pc /\ _clients' = _clients
        /\ (_msgs[at].fd \notin DOMAIN _clients \/ LacksAction(_msgs[at].frame))
    BY <1>4 DEF dispatchSkip, Dispatching, Known, Current, books
  <2>2. i < at \/ i = at
    BY <1>0, <2>1 DEF Past
  <2>3. CASE i < at
    BY <1>3, <2>1, <2>3 DEF Past
  <2>4. CASE i = at
    BY <1>2, <2>1, <2>4, Named DEF LacksAction, Shown
  <2> QED BY <2>2, <2>3, <2>4
<1>5. CASE dispatchCall
  <2>1. pc = "dispatch" /\ at' = at
    BY <1>5 DEF dispatchCall, Dispatching
  <2>2. CASE i < at
    BY <1>3, <2>1, <2>2 DEF Past
  <2>3. CASE i = at
    <3>1. \E j \in 1..Len(said') : said'[j].frame = _msgs[at].frame
      <4>1. CASE said' = said /\ \E j \in 1..Len(said) : said[j].frame = _msgs[at].frame
        BY <4>1
      <4>2. CASE Len(said') = Len(said) + 1 /\ said'[Len(said) + 1].frame = _msgs[at].frame
        <5>1. Len(said) + 1 \in 1..Len(said')
          BY <4>2, Telling
        <5> QED BY <4>2, <5>1
      <4> QED BY <1>5, <4>1, <4>2, Telling
    <3> QED BY <1>2, <2>3, <3>1 DEF Shown
  <2> QED BY <2>1, <2>2, <2>3 DEF Past
<1>6. CASE callbackReturns
  <2>1. pc = "callback" /\ at' = at + 1 /\ pc' = "dispatch"
    BY <1>6 DEF callbackReturns
  <2>2. i < at \/ i = at
    BY <1>0, <2>1 DEF Past
  <2> QED BY <1>3, <2>1, <2>2 DEF Past
<1>7. CASE selectTimeout
  <2>1. at' = 1 /\ pc' = "dispatch"
    BY <1>7 DEF selectTimeout
  <2>2. ~(i < 1)
    OBVIOUS
  <2> QED BY <2>1, <2>2 DEF Past
<1>8. CASE pc' = pc /\ at' = at
  BY <1>3, <1>8 DEF Past
<1>9. \/ dispatchSkip \/ dispatchCall \/ callbackReturns \/ selectTimeout
      \/ (pc' = pc /\ at' = at)
  <2>1. CASE PeerStep
    BY <2>1 DEF PeerStep, Knock, Send, Part
  <2>2. CASE start \/ Halts \/ update \/ Dead \/ UNCHANGED vars
    BY <2>2 DEF start, Halts, Shutdown, update, Dead, vars
  <2>3. CASE UpdateReceives
    BY <2>3 DEF UpdateReceives, selectInterrupted, selectReady, scanEnds,
              receive, accept, acceptFails, recvAgain, recvBytes, parseMessage, parseEnds, recvEnd
  <2>4. CASE UpdateDispatches
    BY <2>4 DEF UpdateDispatches, callbackExhausted, dispatchEnds, callbackThrows
  <2>5. CASE Sends
    BY <2>5 DEF Sends, sendTo, sendToFails, sendDies
  <2> QED BY Halting, <2>1, <2>2, <2>3, <2>4, <2>5 DEF Next
<1> QED BY <1>4, <1>5, <1>6, <1>7, <1>8, <1>9

-------------------------------------------------------------------------------
(***************************************************************************)
(* Who sent what, over a step.                                             *)
(***************************************************************************)
LEMMA SentKeeps ==
  ASSUME TypeOK, BooksInv, ScanInv, ParseInv, [Next]_vars,
         NEW p \in Peers, NEW k \in 1..Len(sent[p])
  PROVE  k \in 1..Len(sent'[p]) /\ sent'[p][k] = sent[p][k]
<1>1. sent \in [Peers -> Seq(Msgs)] /\ sent[p] \in Seq(Msgs) /\ Len(sent[p]) \in Nat
  BY UnreadType DEF TypeOK
<1>2. CASE sent' = sent
  BY <1>2
<1>3. ASSUME NEW q \in Peers, NEW w \in Msgs, sent' = [sent EXCEPT ![q] = Append(sent[q], w)]
      PROVE  k \in 1..Len(sent'[p]) /\ sent'[p][k] = sent[p][k]
  <2>1. CASE p # q
    BY <1>1, <1>3, <2>1
  <2>2. CASE p = q
    <3>1. sent'[p] = Append(sent[p], w)
      BY <1>1, <1>3, <2>2
    <3>2. Len(sent'[p]) = Len(sent[p]) + 1 /\ sent'[p][k] = sent[p][k]
      BY <1>1, <3>1, Appended
    <3> QED BY <1>1, <3>2
  <2> QED BY <2>1, <2>2
<1> QED BY <1>2, <1>3, Traffic, Zenon

\* A message that was sent by somebody is not sent again by another.
LEMMA FromBefore ==
  ASSUME ServerInv, [Next]_vars, NEW x, NEW q \in Peers, Said(x, q),
         NEW p \in Peers, x \in Range(sent'[p])
  PROVE  Said(x, p) /\ p = q
<1>1. TypeOK /\ BooksInv /\ ScanInv /\ ParseInv /\ OneSender /\ x \in Range(sent[q])
  BY DEF ServerInv, Said
<1>2. x \in Range(sent'[q])
  BY <1>1, StaysSaid
<1>3. x \in Msgs
  <2>1. sent[q] \in Seq(Msgs)
    BY <1>1, UnreadType
  <2> QED BY <1>1, <2>1 DEF Range
<1>4. OneSender'
  BY <1>1, OneSenderStep
<1>5. p = q
  BY <1>2, <1>3, <1>4 DEF OneSender, Said
<1> QED BY <1>1, <1>5 DEF Said

LEMMA CutGrows ==
  ASSUME [Next]_vars
  PROVE  cut \subseteq cut'
<1> USE DEF history
<1>1. CASE PeerStep
  BY <1>1 DEF PeerStep, Knock, Send, Part
<1>2. CASE start \/ Halts \/ update \/ Dead \/ UNCHANGED vars
  BY <1>2 DEF start, Halts, Shutdown, update, Dead, vars
<1>3. CASE recvBytes
  BY <1>3 DEF recvBytes
<1>4. CASE UpdateReceives
  BY <1>3, <1>4 DEF UpdateReceives, selectInterrupted, selectTimeout, selectReady, scanEnds,
              receive, accept, acceptFails, recvAgain, parseMessage, parseEnds, recvEnd
<1>5. CASE UpdateDispatches
  BY <1>5 DEF UpdateDispatches, dispatchSkip, dispatchCall, callbackExhausted, dispatchEnds,
              callbackReturns, callbackThrows
<1>6. CASE Sends
  BY <1>6 DEF Sends, sendTo, sendToFails, sendDies
<1> QED BY Halting, <1>1, <1>2, <1>4, <1>5, <1>6 DEF Next

LEMMA SentIsSaid ==
  ASSUME TypeOK, ParseInv, NEW p \in Peers, NEW k \in 1..Len(sent[p])
  PROVE  sent[p][k] \in Msgs /\ Said(sent[p][k], p)
<1>1. sent[p] \in Seq(Msgs)
  BY UnreadType
<1>2. k \in DOMAIN sent[p] /\ sent[p][k] \in Msgs
  BY <1>1
<1> QED BY <1>2 DEF Said, Range

-------------------------------------------------------------------------------
(***************************************************************************)
(* The queue is in order.                                                  *)
(***************************************************************************)
\* Message m was told, or is in the queue (before place i).
Kept(m) == Shown(m) \/ \E j \in 1..Len(_msgs) : _msgs[j].frame = Bytes(m)
Held(m, i) == Shown(m) \/ \E j \in 1..Len(_msgs) : j < i /\ _msgs[j].frame = Bytes(m)

LEMMA HeldStays ==
  ASSUME TypeOK, ScanInv, ParseInv, SaidOK, [Next]_vars, Len(_msgs') # 0,
         NEW m, NEW i, Held(m, i)
  PROVE  Held(m, i)'
<1>1. CASE Shown(m)
  BY <1>1, ShownStays DEF Held
<1>2. ASSUME NEW j \in 1..Len(_msgs), j < i, _msgs[j].frame = Bytes(m) PROVE Held(m, i)'
  <2>1. j \in 1..Len(_msgs') /\ _msgs'[j].frame = Bytes(m)
    BY <1>2, Holding
  <2> QED BY <1>2, <2>1 DEF Held
<1> QED BY <1>1, <1>2 DEF Held

\* The messages of a connected peer are not dropped before they are told.
LEMMA KeptStays ==
  ASSUME ServerInv, SaidOK, PastInv, [Next]_vars,
         NEW p \in Peers, p \in Range(table'), NEW m \in Msgs, Said(m, p), Kept(m)
  PROVE  Kept(m)'
<1>0. /\ TypeOK /\ BooksInv /\ IdentityInv /\ ScanInv /\ ParseInv /\ OneSender /\ QueueInv
  BY DEF ServerInv
<1>1. CASE Shown(m)
  BY <1>0, <1>1, ShownStays DEF Kept
<1>2. ASSUME NEW j \in 1..Len(_msgs), _msgs[j].frame = Bytes(m) PROVE Kept(m)'
  <2>1. CASE \A k \in 1..Len(_msgs) : k \in 1..Len(_msgs') /\ _msgs'[k].frame = _msgs[k].frame
    BY <1>2, <2>1 DEF Kept
  <2>2. CASE Halts
    <3>1. DOMAIN table' = {}
      BY <1>0, <2>2 DEF Halts, Shutdown, BooksInv, Restrict
    <3> QED BY <3>1 DEF Range
  <2>3. CASE dispatchEnds
    <3>1. pc = "dispatch" /\ at > Len(_msgs) /\ table' = table
      BY <2>3 DEF dispatchEnds, kernel
    <3>2. Len(_msgs) \in Nat /\ at \in Nat
      BY <1>0, Holding DEF TypeOK
    <3>3. Past(j)
      BY <3>1, <3>2 DEF Past
    <3>4. j \in DOMAIN _msgs
      <4>1. _msgs \in Seq(Mail)
        BY <1>0, Types DEF DataOK
      <4> QED BY <4>1
    <3>5. PICK q \in Peers : FrameOf(_msgs[j].frame, _msgs[j].fd, q)
      BY <1>0, <3>4 DEF QueueInv
    <3>6. q = p
      <4>1. Said(m, q)
        BY <1>2, <3>5, Named DEF FrameOf
      <4> QED BY <1>0, <4>1 DEF OneSender
    <3>7. _msgs[j].fd \in DOMAIN _clients
      BY <1>0, <3>1, <3>5, <3>6 DEF FrameOf, BooksInv
    <3>8. Shown(m)
      BY <1>2, <3>1, <3>3, <3>7 DEF PastInv
    <3> QED BY <1>0, <3>8, ShownStays DEF Kept
  <2> QED BY <1>0, <2>1, <2>2, <2>3, Holding
<1> QED BY <1>1, <1>2 DEF Kept

\* The frames of one peer were read from one descriptor.
SameFdInv ==
  \A i, j \in 1..Len(_msgs) : \A p \in Peers :
    Said(_msgs[i].frame[1].msg, p) /\ Said(_msgs[j].frame[1].msg, p) => _msgs[i].fd = _msgs[j].fd

Ordered(f, p, i) ==
  \E k \in 1..Len(sent[p]) :
    /\ f = Bytes(sent[p][k])
    /\ \A h \in 1..(k - 1) : Held(sent[p][h], i)

\* A frame in the queue that begins with a unit of an uncut peer is a message of
\* it, and behind those sent before it.
OrderInv ==
  \A i \in 1..Len(_msgs) : \A p \in Peers \ cut :
    Said(_msgs[i].frame[1].msg, p) => Ordered(_msgs[i].frame, p, i)

\* What was parsed of a connected peer is kept; nothing is parsed of a peer that
\* was not accepted.
Keeps(p, d) ==
  /\ p \in Range(table) => \A h \in 1..d : Kept(sent[p][h])
  /\ p \notin Range(owner) => d = 0

FollowInv == \A p \in Peers \ cut : \E o, d : Flows(p, o, d) /\ Keeps(p, d)

LEMMA FlowsTypes ==
  ASSUME TypeOK, ParseInv, NEW p \in Peers, NEW o, NEW d, Flows(p, o, d)
  PROVE  d \in Nat /\ d \in 0..Len(sent[p]) /\ \A h \in 1..d : h \in 1..Len(sent[p])
<1>1. d \in 0..Len(sent[p]) /\ Len(sent[p]) \in Nat
  BY UnreadType DEF Flows, Stream
<1> QED BY <1>1

LEMMA KeepsStays ==
  ASSUME ServerInv, SaidOK, PastInv, [Next]_vars, NEW p \in Peers,
         NEW o, NEW d, Flows(p, o, d), Keeps(p, d)
  PROVE  Keeps(p, d)'
<1>0. TypeOK /\ BooksInv /\ IdentityInv /\ ScanInv /\ ParseInv
  BY DEF ServerInv
<1>1. d \in Nat /\ \A h \in 1..d : h \in 1..Len(sent[p])
  BY <1>0, FlowsTypes
<1>2. p \in Range(owner) => Stays(p)
  BY <1>0, Lasting
<1>3. ASSUME p \notin Range(owner') PROVE d = 0
  BY <1>2, <1>3 DEF Stays, Keeps
<1>4. ASSUME p \in Range(table'), NEW h \in 1..d PROVE Kept(sent[p][h])'
  <2>1. p \in Range(owner)
    <3>1. d # 0
      BY <1>1, <1>4
    <3> QED BY <3>1 DEF Keeps
  <2>2. p \in Range(table)
    BY <1>2, <1>4, <2>1 DEF Stays
  <2>3. PICK m : m = sent[p][h]
    OBVIOUS
  <2>4. m \in Msgs /\ Said(m, p)
    BY <1>0, <1>1, <1>4, <2>3, SentIsSaid
  <2>5. Kept(m)
    BY <1>4, <2>2, <2>3 DEF Keeps
  <2>6. Kept(m)'
    BY <1>4, <2>4, <2>5, KeptStays
  <2>7. sent'[p][h] = m
    BY <1>0, <1>1, <1>4, <2>3, SentKeeps
  <2> QED BY <2>6, <2>7
<1> QED BY <1>3, <1>4 DEF Keeps

\* The frame that is queued holds what its sender wrote.
LEMMA FrameAdded ==
  ASSUME ServerInv, NEW p \in Peers, NEW n \in 2..Len(Unread(p)), Framed(p, n)
  PROVE  /\ Len(_msgs) \in Nat /\ Len(_msgs') = Len(_msgs) + 1
         /\ _msgs'[Len(_msgs) + 1].frame = Take(Unread(p), n)
         /\ _msgs'[Len(_msgs) + 1].fd = at
         /\ at \in DOMAIN table /\ table[at] = p /\ p \in Range(table) /\ p \in Range(owner)
<1>0. TypeOK /\ ParseInv /\ IdentityInv /\ EntriesOK /\ DataOK
  BY Types DEF ServerInv
<1>1. Unread(p) \in Seq(Units) /\ at \in DOMAIN table /\ p = table[at] /\ n \in 0..Len(Unread(p))
  BY DEF Framed
<1>2. PICK f : f = Take(Unread(p), n)
  OBVIOUS
<1>3. f \in Seq(Units)
  BY <1>1, <1>2, Divided
<1>4. PICK x \in Mail : x = [frame |-> f, fd |-> at, read |-> FALSE]
  BY <1>0, <1>1, <1>3 DEF Mail, EntriesOK
<1>5. x.frame = f /\ x.fd = at
  BY <1>4
<1>6. _msgs' = Append(_msgs, x)
  BY <1>2, <1>4 DEF Framed
<1>7. _msgs \in Seq(Mail) /\ Len(_msgs) \in Nat
  BY <1>0 DEF DataOK
<1>8. Len(_msgs') = Len(_msgs) + 1 /\ _msgs'[Len(_msgs) + 1] = x
  BY <1>6, <1>7, Appended
<1>9. p \in Range(table) /\ p \in Range(owner)
  BY <1>0, <1>1 DEF Range, IdentityInv
<1> QED BY <1>1, <1>2, <1>5, <1>7, <1>8, <1>9

LEMMA FollowStep ==
  ASSUME ServerInv, SaidOK, PastInv, NewInv, FollowInv, [Next]_vars
  PROVE  FollowInv'
<1> SUFFICES ASSUME NEW p \in Peers \ cut'
             PROVE  \E o, d : Flows(p, o, d)' /\ Keeps(p, d)'
  BY DEF FollowInv
<1>0. TypeOK /\ BooksInv /\ IdentityInv /\ ScanInv /\ ParseInv
  BY DEF ServerInv
<1>1. p \in Peers /\ p \in Peers \ cut
  BY CutGrows
<1>2. PICK o, d : Flows(p, o, d) /\ Keeps(p, d)
  BY <1>1 DEF FollowInv
<1>3. Keeps(p, d)'
  BY <1>1, <1>2, KeepsStays
<1>4. ASSUME NEW m \in Msgs, Grown(p, m) PROVE \E o2, d2 : Flows(p, o2, d2)' /\ Keeps(p, d2)'
  <2>1. PICK o2 : Flows(p, o2, d)'
    BY <1>0, <1>1, <1>2, <1>4, FlowsGrown
  <2> QED BY <1>3, <2>1
<1>5. ASSUME NEW n \in 0..Len(wire[p]), Left(p, n), Unread(p)' = Unread(p)
      PROVE  \E o2, d2 : Flows(p, o2, d2)' /\ Keeps(p, d2)'
  <2>1. wire'[p] \in Seq(Units)
    BY <1>0, <1>1, DataStep DEF DataOK
  <2>2. Flows(p, o, d)'
    BY <1>0, <1>1, <1>2, <1>5, <2>1, FlowsLeft
  <2> QED BY <1>3, <2>2
<1>6. ASSUME NEW n \in 1..Len(wire[p]), Given(p, n)
      PROVE  \E o2, d2 : Flows(p, o2, d2)' /\ Keeps(p, d2)'
  <2>1. Flows(p, o, d)'
    BY <1>0, <1>1, <1>2, <1>6, FlowsGiven
  <2> QED BY <1>3, <2>1
<1>7. ASSUME NEW n \in 2..Len(Unread(p)), Framed(p, n)
      PROVE  \E o2, d2 : Flows(p, o2, d2)' /\ Keeps(p, d2)'
  <2>1. PICK d2 : d2 = d + 1
    OBVIOUS
  <2>2. /\ Flows(p, o, d2)' /\ d \in Nat /\ d2 \in 1..Len(sent[p])
        /\ Take(Unread(p), n) = Bytes(sent[p][d2])
    BY <1>0, <1>1, <1>2, <1>7, <2>1, FlowsFramed
  <2>3. /\ Len(_msgs) \in Nat /\ Len(_msgs') = Len(_msgs) + 1
        /\ _msgs'[Len(_msgs) + 1].frame = Take(Unread(p), n) /\ p \in Range(owner)
    BY <1>1, <1>7, FrameAdded
  <2>4. p \in Range(owner')
    BY <1>0, <1>1, <2>3, Lasting DEF Stays
  <2>5. sent'[p] = sent[p]
    BY <1>7 DEF Framed
  <2>6. PICK m : m = sent[p][d2]
    OBVIOUS
  <2>7. Kept(m)'
    <3>1. Len(_msgs) + 1 \in 1..Len(_msgs')
      BY <2>3
    <3>2. _msgs'[Len(_msgs) + 1].frame = Bytes(m)
      BY <2>2, <2>3, <2>6
    <3> QED BY <3>1, <3>2 DEF Kept
  <2>8. ASSUME NEW h \in 1..d2, p \in Range(table') PROVE Kept(sent[p][h])'
    <3>1. h \in 1..d \/ h = d2
      BY <2>1, <2>2
    <3>2. CASE h \in 1..d
      BY <1>3, <2>8, <3>2 DEF Keeps
    <3>3. CASE h = d2
      BY <2>5, <2>6, <2>7, <3>3 DEF Kept, Shown
    <3> QED BY <3>1, <3>2, <3>3
  <2>9. Keeps(p, d2)'
    BY <2>4, <2>8 DEF Keeps
  <2> QED BY <2>2, <2>9
<1>8. CASE Cleared(p)
  <2>1. Flows(p, o, d)'
    BY <1>0, <1>1, <1>2, <1>8, FlowsCleared
  <2> QED BY <1>3, <2>1
<1>9. \/ \E m \in Msgs : Grown(p, m)
      \/ \E n \in 0..Len(wire[p]) : Left(p, n) /\ Unread(p)' = Unread(p)
      \/ \E n \in 1..Len(wire[p]) : Given(p, n)
      \/ \E n \in 2..Len(Unread(p)) : Framed(p, n)
      \/ Cleared(p)
  BY <1>0, Stepping
<1> QED BY <1>4, <1>5, <1>6, <1>7, <1>8, <1>9

\* A queued frame is of whom it begins with.
LEMMA FromQueue ==
  ASSUME ServerInv, [Next]_vars, NEW k \in 1..Len(_msgs), NEW p \in Peers,
         _msgs[k].frame[1].msg \in Range(sent'[p])
  PROVE  FrameOf(_msgs[k].frame, _msgs[k].fd, p)
<1>1. k \in DOMAIN _msgs
  <2>1. _msgs \in Seq(Mail)
    BY Types DEF ServerInv, DataOK
  <2> QED BY <2>1
<1>2. PICK q \in Peers : FrameOf(_msgs[k].frame, _msgs[k].fd, q)
  BY <1>1 DEF ServerInv, QueueInv
<1>3. Said(_msgs[k].frame[1].msg, q)
  BY <1>2 DEF FrameOf
<1>4. p = q
  BY <1>3, FromBefore
<1> QED BY <1>2, <1>4

\* The frame that is queued is of the peer behind the descriptor.
LEMMA FromParser ==
  ASSUME ServerInv, [Next]_vars, parseMessage
  PROVE  \E p \in Peers :
           /\ \E n \in 2..Len(Unread(p)) : Framed(p, n)
           /\ Said(_msgs'[Len(_msgs) + 1].frame[1].msg, p)
<1>0. TypeOK /\ BooksInv /\ IdentityInv /\ ScanInv /\ ParseInv /\ BufferInv /\ EntriesOK
  BY Types DEF ServerInv
<1>1. pc = "parse" /\ _partialMsgs[at] \in Seq(Units)
  BY <1>0, Parsed
<1>2. PICK p \in Peers : p = table[at] /\ at \in DOMAIN table
  BY <1>0, <1>1 DEF ScanInv, EntriesOK
<1>3. PICK n \in 2..Len(Unread(p)) : Framed(p, n)
  BY <1>0, <1>2, FramedBy
<1>4. PICK u \in Seq(Units) : u = Unread(p) /\ u = _partialMsgs[at]
  BY <1>1, <1>2 DEF Unread
<1>5. n \in 0..Len(u) /\ 1 \in 1..n /\ 1 \in DOMAIN u
  BY <1>4
<1>6. Take(u, n)[1] = u[1]
  BY <1>4, <1>5, Divided
<1>7. Said(u[1].msg, p)
  BY <1>0, <1>1, <1>2, <1>4, <1>5 DEF BufferInv
<1>8. _msgs'[Len(_msgs) + 1].frame = Take(u, n)
  BY <1>3, <1>4, FrameAdded
<1>9. Said(_msgs'[Len(_msgs) + 1].frame[1].msg, p)
  BY <1>6, <1>7, <1>8
<1> QED BY <1>3, <1>9

LEMMA SameFdStep ==
  ASSUME ServerInv, SameFdInv, [Next]_vars
  PROVE  SameFdInv'
<1>0. TypeOK /\ BooksInv /\ IdentityInv /\ ScanInv /\ ParseInv
  BY DEF ServerInv
<1>1. ASSUME NEW i \in 1..Len(_msgs), NEW p \in Peers,
             _msgs[i].frame[1].msg \in Range(sent'[p])
      PROVE  /\ Said(_msgs[i].frame[1].msg, p)
             /\ p \in Range(table) => _msgs[i].fd \in DOMAIN table /\ table[_msgs[i].fd] = p
  BY <1>1, FromQueue DEF FrameOf
<1>2. ASSUME NEW i \in 1..Len(_msgs), NEW j \in 1..Len(_msgs), NEW p \in Peers,
             _msgs[i].frame[1].msg \in Range(sent'[p]), _msgs[j].frame[1].msg \in Range(sent'[p])
      PROVE  _msgs[i].fd = _msgs[j].fd
  BY <1>1, <1>2 DEF SameFdInv
<1>3. CASE Len(_msgs') = 0
  BY <1>3 DEF SameFdInv
<1>4. CASE /\ \A j \in 1..Len(_msgs) : /\ _msgs'[j].frame = _msgs[j].frame
                                       /\ _msgs'[j].fd = _msgs[j].fd
           /\ Len(_msgs') = Len(_msgs)
  <2> SUFFICES ASSUME NEW i \in 1..Len(_msgs), NEW j \in 1..Len(_msgs), NEW p \in Peers,
                      _msgs'[i].frame[1].msg \in Range(sent'[p]),
                      _msgs'[j].frame[1].msg \in Range(sent'[p])
               PROVE  _msgs'[i].fd = _msgs'[j].fd
    BY <1>4 DEF SameFdInv, Said
  <2> QED BY <1>2, <1>4
<1>5. CASE /\ \A j \in 1..Len(_msgs) : /\ _msgs'[j].frame = _msgs[j].frame
                                       /\ _msgs'[j].fd = _msgs[j].fd
           /\ parseMessage
  <2>1. PICK q \in Peers : /\ \E n \in 2..Len(Unread(q)) : Framed(q, n)
                           /\ Said(_msgs'[Len(_msgs) + 1].frame[1].msg, q)
    BY <1>5, FromParser
  <2>2. /\ Len(_msgs) \in Nat /\ Len(_msgs') = Len(_msgs) + 1
        /\ _msgs'[Len(_msgs) + 1].fd = at /\ at \in DOMAIN table /\ table[at] = q /\ q \in Range(table)
    BY <2>1, FrameAdded
  <2>3. ASSUME NEW p \in Peers, _msgs'[Len(_msgs) + 1].frame[1].msg \in Range(sent'[p])
        PROVE  p = q
    BY <2>1, <2>3, FromBefore
  <2>4. ASSUME NEW i \in 1..Len(_msgs), NEW p \in Peers, _msgs[i].frame[1].msg \in Range(sent'[p]),
               _msgs'[Len(_msgs) + 1].frame[1].msg \in Range(sent'[p])
        PROVE  _msgs[i].fd = at
    <3>1. p = q
      BY <2>3, <2>4
    <3>2. _msgs[i].fd \in DOMAIN table /\ table[_msgs[i].fd] = q
      BY <1>1, <2>2, <2>4, <3>1
    <3> QED BY <1>0, <2>2, <3>2 DEF IdentityInv
  <2> SUFFICES ASSUME NEW i \in 1..Len(_msgs'), NEW j \in 1..Len(_msgs'), NEW p \in Peers,
                      _msgs'[i].frame[1].msg \in Range(sent'[p]),
                      _msgs'[j].frame[1].msg \in Range(sent'[p])
               PROVE  _msgs'[i].fd = _msgs'[j].fd
    BY DEF SameFdInv, Said
  <2>5. /\ i \in 1..Len(_msgs) \/ i = Len(_msgs) + 1
        /\ j \in 1..Len(_msgs) \/ j = Len(_msgs) + 1
    BY <2>2
  <2>6. CASE i \in 1..Len(_msgs) /\ j \in 1..Len(_msgs)
    BY <1>2, <1>5, <2>6
  <2>7. CASE i \in 1..Len(_msgs) /\ j = Len(_msgs) + 1
    BY <1>5, <2>2, <2>4, <2>7
  <2>8. CASE j \in 1..Len(_msgs) /\ i = Len(_msgs) + 1
    BY <1>5, <2>2, <2>4, <2>8
  <2> QED BY <2>5, <2>6, <2>7, <2>8
<1> QED BY <1>0, <1>3, <1>4, <1>5, Holding

LEMMA OrderedStays ==
  ASSUME ServerInv, SaidOK, [Next]_vars, Len(_msgs') # 0,
         NEW p \in Peers, NEW f, NEW i, Ordered(f, p, i)
  PROVE  Ordered(f, p, i)'
<1>0. TypeOK /\ BooksInv /\ ScanInv /\ ParseInv
  BY DEF ServerInv
<1>1. PICK k \in 1..Len(sent[p]) : /\ f = Bytes(sent[p][k])
                                   /\ \A h \in 1..(k - 1) : Held(sent[p][h], i)
  BY DEF Ordered
<1>2. k \in 1..Len(sent'[p]) /\ f = Bytes(sent'[p][k])
  BY <1>0, <1>1, SentKeeps
<1>3. ASSUME NEW h \in 1..(k - 1) PROVE Held(sent[p][h], i)'
  <2>1. h \in 1..Len(sent[p])
    BY <1>0, UnreadType
  <2>2. sent'[p][h] = sent[p][h]
    BY <1>0, <2>1, SentKeeps
  <2>3. PICK m : m = sent[p][h]
    OBVIOUS
  <2>4. Held(m, i)
    BY <1>1, <1>3, <2>3
  <2>5. Held(m, i)'
    BY <1>0, <2>4, HeldStays
  <2> QED BY <2>2, <2>3, <2>5 DEF Held, Shown
<1> QED BY <1>2, <1>3 DEF Ordered

\* A message is queued behind all that its sender sent before.
LEMMA NewOrdered ==
  ASSUME ServerInv, SaidOK, FollowInv, [Next]_vars,
         NEW p \in Peers \ cut, NEW n \in 2..Len(Unread(p)), Framed(p, n),
         NEW f, f = Take(Unread(p), n), NEW i, i = Len(_msgs) + 1
  PROVE  Ordered(f, p, i)'
<1>0. TypeOK /\ BooksInv /\ ScanInv /\ ParseInv /\ p \in Peers
  BY DEF ServerInv
<1>1. /\ Len(_msgs) \in Nat /\ Len(_msgs') = Len(_msgs) + 1 /\ p \in Range(table)
  BY <1>0, FrameAdded
<1>2. PICK o, d : Flows(p, o, d) /\ Keeps(p, d)
  BY DEF FollowInv
<1>3. PICK d2 : d2 = d + 1
  OBVIOUS
<1>4. d \in Nat /\ d2 \in 1..Len(sent[p]) /\ f = Bytes(sent[p][d2])
  BY <1>0, <1>2, <1>3, FlowsFramed
<1>5. sent'[p] = sent[p]
  BY DEF Framed
<1>6. ASSUME NEW h \in 1..(d2 - 1) PROVE Held(sent[p][h], i)'
  <2>1. PICK m : m = sent[p][h]
    OBVIOUS
  <2>2. h \in 1..d
    BY <1>3, <1>4
  <2>3. Kept(m)
    BY <1>1, <1>2, <2>1, <2>2 DEF Keeps
  <2>4. Held(m, i)
    BY <1>1, <2>3 DEF Kept, Held
  <2>5. Len(_msgs') # 0
    BY <1>1
  <2>6. Held(m, i)'
    BY <1>0, <2>4, <2>5, HeldStays
  <2> QED BY <1>5, <2>1, <2>6 DEF Held, Shown
<1>7. d2 \in 1..Len(sent'[p]) /\ f = Bytes(sent'[p][d2])
  BY <1>4, <1>5
<1> QED BY <1>6, <1>7 DEF Ordered

LEMMA OrderStep ==
  ASSUME ServerInv, SaidOK, FollowInv, OrderInv, [Next]_vars
  PROVE  OrderInv'
<1> SUFFICES ASSUME NEW i \in 1..Len(_msgs'), NEW p \in Peers \ cut',
                    NEW f, f = _msgs'[i].frame, f[1].msg \in Range(sent'[p])
             PROVE  Ordered(f, p, i)'
  BY DEF OrderInv, Said, Ordered, Held
<1>0. TypeOK /\ BooksInv /\ ScanInv /\ ParseInv /\ p \in Peers \ cut /\ p \in Peers
  BY CutGrows DEF ServerInv
<1>1. Len(_msgs') # 0 /\ Len(_msgs') \in Nat /\ Len(_msgs) \in Nat
  BY <1>0, Holding
<1>2. ASSUME i \in 1..Len(_msgs), f = _msgs[i].frame PROVE Ordered(f, p, i)'
  <2>1. Said(f[1].msg, p)
    BY <1>0, <1>2, FromQueue DEF FrameOf
  <2>2. Ordered(f, p, i)
    BY <1>0, <1>2, <2>1 DEF OrderInv
  <2> QED BY <1>0, <1>1, <2>2, OrderedStays
<1>3. ASSUME parseMessage, i = Len(_msgs) + 1 PROVE Ordered(f, p, i)'
  <2>1. PICK q \in Peers : /\ \E n \in 2..Len(Unread(q)) : Framed(q, n)
                           /\ Said(_msgs'[Len(_msgs) + 1].frame[1].msg, q)
    BY <1>3, FromParser
  <2>2. q = p
    <3>1. Said(f[1].msg, q)
      BY <1>3, <2>1
    <3> QED BY <1>0, <3>1, FromBefore
  <2>3. PICK n \in 2..Len(Unread(p)) : Framed(p, n)
    BY <2>1, <2>2
  <2>4. f = Take(Unread(p), n)
    BY <1>0, <1>3, <2>3, FrameAdded
  <2> QED BY <1>0, <1>3, <2>3, <2>4, NewOrdered
<1>4. \/ i \in 1..Len(_msgs) /\ f = _msgs[i].frame
      \/ parseMessage /\ i = Len(_msgs) + 1
  BY <1>0, <1>1, Holding
<1> QED BY <1>2, <1>3, <1>4

-------------------------------------------------------------------------------
(***************************************************************************)
(* What the callbacks were told is in order.                               *)
(***************************************************************************)
\* What was told began with a unit of a message that some peer sent.
SpokenInv == \A i \in 1..Len(said) : \E p \in Peers : Said(said[i].frame[1].msg, p)

Delivered(f, p, i) ==
  \E k \in 1..Len(sent[p]) :
    /\ f = Bytes(sent[p][k])
    /\ \A h \in 1..(k - 1) : sent[p][h] \in _tasks =>
         \E j \in 1..(i - 1) : said[j].frame = Bytes(sent[p][h])

WholeInv ==
  \A i \in 1..Len(said) : \A p \in Peers \ cut :
    Said(said[i].frame[1].msg, p) => Delivered(said[i].frame, p, i)

\* A new report is the frame that is being dispatched.
LEMMA Reported ==
  ASSUME TypeOK, ScanInv, SaidOK, [Next]_vars, NEW i \in 1..Len(said')
  PROVE  \/ i \in 1..Len(said) /\ said'[i] = said[i]
         \/ /\ dispatchCall /\ at \in 1..Len(_msgs) /\ i = Len(said) + 1
            /\ said'[i].frame = _msgs[at].frame
<1>1. Len(said) \in Nat /\ \A j \in 1..Len(said) : said'[j] = said[j]
  BY Telling
<1>2. CASE i \in 1..Len(said)
  BY <1>1, <1>2
<1>3. CASE i \notin 1..Len(said)
  <2>1. said' # said
    BY <1>3
  <2>2. /\ dispatchCall /\ at \in 1..Len(_msgs) /\ Len(said') = Len(said) + 1
        /\ said'[Len(said) + 1].frame = _msgs[at].frame
    BY <2>1, Telling
  <2>3. i = Len(said) + 1
    BY <1>1, <1>3, <2>2
  <2> QED BY <2>2, <2>3
<1> QED BY <1>2, <1>3

LEMMA SpokenStep ==
  ASSUME ServerInv, SaidOK, SpokenInv, [Next]_vars
  PROVE  SpokenInv'
<1> SUFFICES ASSUME NEW i \in 1..Len(said'), NEW f, f = said'[i].frame
             PROVE  \E p \in Peers : f[1].msg \in Range(sent'[p])
  BY DEF SpokenInv, Said
<1>0. TypeOK /\ BooksInv /\ ScanInv /\ ParseInv /\ _msgs \in Seq(Mail)
  BY Types DEF ServerInv, DataOK
<1>1. PICK p \in Peers : f[1].msg \in Range(sent[p])
  <2>1. CASE i \in 1..Len(said) /\ said'[i] = said[i]
    BY <2>1 DEF SpokenInv, Said
  <2>2. CASE at \in 1..Len(_msgs) /\ said'[i].frame = _msgs[at].frame
    <3>1. at \in DOMAIN _msgs
      BY <1>0, <2>2
    <3>2. PICK p \in Peers : FrameOf(_msgs[at].frame, _msgs[at].fd, p)
      BY <3>1 DEF ServerInv, QueueInv
    <3> QED BY <2>2, <3>2 DEF FrameOf, Said
  <2> QED BY <1>0, <2>1, <2>2, Reported
<1>2. f[1].msg \in Range(sent'[p])
  BY <1>0, <1>1, StaysSaid
<1> QED BY <1>2

\* A report was made of a message of whom it begins with.
LEMMA FromReport ==
  ASSUME ServerInv, SpokenInv, [Next]_vars, NEW i \in 1..Len(said), NEW p \in Peers,
         said[i].frame[1].msg \in Range(sent'[p])
  PROVE  Said(said[i].frame[1].msg, p)
<1>1. PICK q \in Peers : Said(said[i].frame[1].msg, q)
  BY DEF SpokenInv
<1> QED BY <1>1, FromBefore

LEMMA DeliveredStays ==
  ASSUME ServerInv, SaidOK, [Next]_vars, NEW p \in Peers,
         NEW f, NEW i \in 1..(Len(said) + 1), Delivered(f, p, i)
  PROVE  Delivered(f, p, i)'
<1>0. TypeOK /\ BooksInv /\ ScanInv /\ ParseInv
  BY DEF ServerInv
<1>1. PICK k \in 1..Len(sent[p]) :
        /\ f = Bytes(sent[p][k])
        /\ \A h \in 1..(k - 1) : sent[p][h] \in _tasks =>
             \E j \in 1..(i - 1) : said[j].frame = Bytes(sent[p][h])
  BY DEF Delivered
<1>2. k \in 1..Len(sent'[p]) /\ f = Bytes(sent'[p][k])
  BY <1>0, <1>1, SentKeeps
<1>3. Len(said) \in Nat /\ \A j \in 1..Len(said) : said'[j] = said[j]
  BY <1>0, Telling
<1>4. ASSUME NEW h \in 1..(k - 1), sent'[p][h] \in _tasks
      PROVE  \E j \in 1..(i - 1) : said'[j].frame = Bytes(sent'[p][h])
  <2>1. h \in 1..Len(sent[p])
    BY <1>0, UnreadType
  <2>2. sent'[p][h] = sent[p][h]
    BY <1>0, <2>1, SentKeeps
  <2>3. PICK j \in 1..(i - 1) : said[j].frame = Bytes(sent[p][h])
    BY <1>1, <1>4, <2>2
  <2>4. said'[j] = said[j]
    <3>1. j \in 1..Len(said)
      BY <1>3
    <3> QED BY <1>3, <3>1
  <2> QED BY <2>2, <2>3, <2>4
<1> QED BY <1>2, <1>4 DEF Delivered

\* What is dispatched comes after all that its sender sent before.
LEMMA NewDelivered ==
  ASSUME ServerInv, SaidOK, PastInv, SameFdInv, [Next]_vars, dispatchCall, at \in 1..Len(_msgs),
         NEW p \in Peers, NEW f, f = _msgs[at].frame, Said(f[1].msg, p), Ordered(f, p, at),
         NEW i, i = Len(said) + 1
  PROVE  Delivered(f, p, i)
<1>0. TypeOK /\ BooksInv /\ ScanInv /\ ParseInv /\ at \in Nat
  BY DEF ServerInv, TypeOK
<1>1. pc = "dispatch" /\ _msgs[at].fd \in DOMAIN _clients
  BY DEF dispatchCall, Dispatching, Known, Current
<1>2. PICK k \in 1..Len(sent[p]) : /\ f = Bytes(sent[p][k])
                                   /\ \A h \in 1..(k - 1) : Held(sent[p][h], at)
  BY DEF Ordered
<1>3. ASSUME NEW h \in 1..(k - 1) PROVE Shown(sent[p][h])
  <2>1. h \in 1..Len(sent[p])
    BY <1>0, UnreadType
  <2>2. PICK m \in Msgs : m = sent[p][h] /\ Said(m, p)
    BY <1>0, <2>1, SentIsSaid
  <2>3. Held(m, at)
    BY <1>2, <1>3, <2>2
  <2>4. ASSUME NEW j \in 1..Len(_msgs), j < at, _msgs[j].frame = Bytes(m) PROVE Shown(m)
    <3>1. Shown(m) \/ _msgs[j].fd \notin DOMAIN _clients
      BY <1>1, <2>4 DEF PastInv, Past
    <3>2. Said(_msgs[j].frame[1].msg, p)
      BY <2>2, <2>4, Named
    <3>3. _msgs[j].fd = _msgs[at].fd
      BY <3>2 DEF SameFdInv
    <3> QED BY <1>1, <3>1, <3>3
  <2> QED BY <2>2, <2>3, <2>4 DEF Held
<1>4. Len(said) \in Nat /\ i - 1 = Len(said)
  BY <1>0, Telling
<1>5. ASSUME NEW h \in 1..(k - 1), sent[p][h] \in _tasks
      PROVE  \E j \in 1..(i - 1) : said[j].frame = Bytes(sent[p][h])
  BY <1>3, <1>4, <1>5 DEF Shown
<1> QED BY <1>2, <1>5 DEF Delivered

LEMMA WholeStep ==
  ASSUME ServerInv, SaidOK, PastInv, SameFdInv, OrderInv, SpokenInv, WholeInv, [Next]_vars
  PROVE  WholeInv'
<1> SUFFICES ASSUME NEW i \in 1..Len(said'), NEW p \in Peers \ cut',
                    NEW f, f = said'[i].frame, f[1].msg \in Range(sent'[p])
             PROVE  Delivered(f, p, i)'
  BY DEF WholeInv, Said, Delivered
<1>0. TypeOK /\ BooksInv /\ ScanInv /\ ParseInv /\ p \in Peers \ cut /\ p \in Peers
  BY CutGrows DEF ServerInv
<1>1. Len(said) \in Nat
  BY <1>0, Telling
<1>2. CASE i \in 1..Len(said) /\ said'[i] = said[i]
  <2>1. Said(f[1].msg, p)
    BY <1>0, <1>2, FromReport
  <2>2. Delivered(f, p, i)
    BY <1>0, <1>2, <2>1 DEF WholeInv
  <2>3. i \in 1..(Len(said) + 1)
    BY <1>1, <1>2
  <2> QED BY <1>0, <2>2, <2>3, DeliveredStays
<1>3. CASE /\ dispatchCall /\ at \in 1..Len(_msgs) /\ i = Len(said) + 1
           /\ said'[i].frame = _msgs[at].frame
  <2>1. Said(f[1].msg, p)
    BY <1>0, <1>3, FromQueue DEF FrameOf
  <2>2. Ordered(f, p, at)
    BY <1>0, <1>3, <2>1 DEF OrderInv
  <2>3. Delivered(f, p, i)
    BY <1>0, <1>3, <2>1, <2>2, NewDelivered
  <2>4. i \in 1..(Len(said) + 1)
    BY <1>1, <1>3
  <2> QED BY <1>0, <2>3, <2>4, DeliveredStays
<1> QED BY <1>0, <1>2, <1>3, Reported

-------------------------------------------------------------------------------
(***************************************************************************)
(* The invariant of the streams holds, and what follows from it.           *)
(***************************************************************************)
DeliveryInv ==
  /\ ServerInv /\ SaidOK /\ NewInv /\ PastInv /\ FollowInv
  /\ SameFdInv /\ OrderInv /\ SpokenInv /\ WholeInv

LEMMA InitDelivery == Init => DeliveryInv
<1> SUFFICES ASSUME Init PROVE DeliveryInv
  OBVIOUS
<1>1. ServerInv
  BY InitInv
<1>2. /\ said = <<>> /\ _msgs = <<>> /\ pc = "idle" /\ Len(<<>>) = 0 /\ 1..0 = {}
      /\ <<>> \in Seq(Report)
  BY DEF Init
<1>3. SaidOK /\ PastInv /\ SameFdInv /\ OrderInv /\ SpokenInv /\ WholeInv
  BY <1>2 DEF SaidOK, PastInv, SameFdInv, OrderInv, SpokenInv, WholeInv
<1>4. NewInv
  BY DEF Init, NewInv
<1>5. FollowInv
  <2> SUFFICES ASSUME NEW p \in Peers PROVE \E o, d : Flows(p, o, d) /\ Keeps(p, d)
    BY DEF FollowInv
  <2>1. sent[p] = <<>> /\ wire[p] = <<>> /\ Unread(p) = <<>>
    BY DEF Init, Unread
  <2>2. PICK o : o = [j \in Nat |-> 0]
    OBVIOUS
  <2>3. Stream(<<>>, 0, o, 0, <<>>, 0, <<>>, 0)
    <3>1. /\ o \in [Nat -> Nat] /\ \A j \in Nat : o[j] = 0
          /\ 1..0 = {} /\ 1..(0 + 1) \subseteq Nat /\ 0 \in 0..0
      BY <2>2
    <3>2. Rising(o, 0)
      BY <3>1 DEF Rising
    <3> QED BY <3>1, <3>2 DEF Stream, Layout, Window
  <2>4. Complete(o, 0, 0, 0, 0) /\ Aligned(o, 0, 0, 0)
    <3>1. o[0 + 1] = 0 /\ 0 + 1 \in 1..(0 + 1)
      BY <2>2
    <3> QED BY <3>1 DEF Complete, Aligned
  <2>5. Flows(p, o, 0)
    BY <1>2, <2>1, <2>3, <2>4 DEF Flows
  <2>6. Keeps(p, 0)
    BY <1>2 DEF Keeps
  <2> QED BY <2>5, <2>6
<1> QED BY <1>1, <1>3, <1>4, <1>5 DEF DeliveryInv

LEMMA NextDelivery == DeliveryInv /\ [Next]_vars => DeliveryInv'
<1> SUFFICES ASSUME DeliveryInv, [Next]_vars PROVE DeliveryInv'
  OBVIOUS
<1>1. /\ ServerInv /\ SaidOK /\ NewInv /\ PastInv /\ FollowInv
      /\ SameFdInv /\ OrderInv /\ SpokenInv /\ WholeInv
  BY DEF DeliveryInv
<1>2. TypeOK /\ BooksInv /\ ScanInv /\ ParseInv
  BY <1>1 DEF ServerInv
<1>3. ServerInv' /\ SaidOK' /\ NewInv' /\ PastInv'
  BY <1>1, <1>2, NextInv, Telling, NewStep, PastStep
<1>4. FollowInv' /\ SameFdInv' /\ OrderInv' /\ SpokenInv' /\ WholeInv'
  BY <1>1, FollowStep, SameFdStep, OrderStep, SpokenStep, WholeStep
<1> QED BY <1>3, <1>4 DEF DeliveryInv

\* The messages of a peer that no read has cut are given to the callbacks whole
\* and in the order in which they were sent, none left out before one that is
\* given but those whose type has no action: what update() receives, parses and queues, and later dispatches,
\* between peers that come and go and callbacks that throw (server.cpp:92-115,
\* 212-226).
THEOREM StreamCorrect == SafeSpec => []UncutStreamIsWhole
<1>1. DeliveryInv => UncutStreamIsWhole
  <2> SUFFICES ASSUME DeliveryInv, NEW i \in DOMAIN said, NEW p, p = SenderOf(said[i].frame), p \notin cut
               PROVE  \E k \in DOMAIN sent[p] :
                        /\ said[i].frame = Bytes(sent[p][k])
                        /\ \A h \in 1..(k - 1) : sent[p][h] \in _tasks =>
                             \E j \in 1..(i - 1) : said[j].frame = Bytes(sent[p][h])
    BY DEF UncutStreamIsWhole
  <2>0. ServerInv /\ TypeOK /\ ParseInv /\ OneSender /\ SaidOK /\ SpokenInv /\ WholeInv
    BY DEF DeliveryInv, ServerInv
  <2>1. i \in 1..Len(said)
    BY <2>0 DEF SaidOK
  <2>2. PICK x : x = said[i].frame[1].msg
    OBVIOUS
  <2>3. PICK q \in Peers : Said(x, q)
    BY <2>0, <2>1, <2>2 DEF SpokenInv
  <2>4. x \in Msgs /\ sent[q] \in Seq(Msgs)
    <3>1. sent[q] \in Seq(Msgs)
      BY <2>0, UnreadType
    <3>2. Range(sent[q]) \subseteq Msgs
      BY <3>1 DEF Range
    <3> QED BY <2>3, <3>1, <3>2 DEF Said
  <2>5. \A r \in Peers : x \in Range(sent[r]) <=> r = q
    BY <2>0, <2>3, <2>4 DEF OneSender, Said
  <2>6. p = q
    BY <2>2, <2>5 DEF SenderOf
  <2>7. Delivered(said[i].frame, p, i)
    BY <2>0, <2>1, <2>2, <2>3, <2>6 DEF WholeInv
  <2>8. DOMAIN sent[p] = 1..Len(sent[p])
    BY <2>4, <2>6
  <2> QED BY <2>7, <2>8 DEF Delivered
<1> QED BY <1>1, InitDelivery, NextDelivery, PTL DEF SafeSpec
===============================================================================
