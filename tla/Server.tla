-------------------------------- MODULE Server --------------------------------
(***************************************************************************)
(* The TCP server of src/network/server, the kernel's table of file        *)
(* descriptors and the peers that connect to it.  The server is single-    *)
(* threaded: one call of update() selects, accepts and receives until      *)
(* nothing is ready, and only then dispatches what it has queued, so peers *)
(* come, send and go, and descriptors are closed and used again, between   *)
(* the moment a message is queued and the moment it is dispatched.         *)
(***************************************************************************)
EXTENDS Framing, SequencesExt, FiniteSetsExt, TLC

CONSTANTS Peers,          \* remote ends; each connects at most once
          Fds,            \* descriptors the kernel may hand out
          NB_CONNECTION,  \* limit on the number of clients
          _tasks,         \* messages of the types that have an action
          MaxStarts,      \* bound on the number of calls of start()
          MaxThrows       \* bound on the number of callbacks that throw

ASSUME ServerAssumption ==
  /\ IsFiniteSet(Peers)
  /\ Fds \subseteq Nat \ {0, 1, 2}
  /\ _tasks \subseteq Msgs
  /\ NB_CONNECTION \in Nat /\ MaxStarts \in Nat /\ MaxThrows \in Nat

NoFd == 0
Nothing == <<>>
Ids == 0..Cardinality(Peers)

VARIABLES _socket, _max_fd, _next_id,
          _active, _readyRead,     \* sets of descriptors
          _clients,                \* descriptor -> client id
          _clientsToFd,            \* client id -> descriptor
          _partialMsgs,            \* descriptor -> units received, unparsed
          _msgs,                   \* parsed: frame, descriptor, data read or not
          pc,                      \* where update() is
          at,                      \* descriptor scanned, or message dispatched
          errno,                   \* what the last failing call has left
          table,                   \* kernel: open descriptor -> peer
          state,                   \* of each peer
          wire,                    \* peer -> units sent and not received
          sent,                    \* history: messages sent by each peer
          owner,                   \* history: client id -> peer
          cut,                     \* history: peers whose stream was cut by recv
          said,                    \* history: what callbacks were told, once each
          told,                    \* history: what the running callback was told
          misdelivered,            \* history: a reply went to the wrong peer
          starts, throws

kernel == <<table, state, wire>>
books == <<_next_id, _active, _clients, _clientsToFd, _max_fd>>
input == <<_partialMsgs, _msgs>>
history == <<sent, owner, cut, said, told, misdelivered, starts, throws>>
vars == <<_socket, _readyRead, books, input, pc, at, errno, kernel, history>>

Listening == _socket # NoFd

TypeOK ==
  /\ _socket \in Fds \union {NoFd}
  /\ _max_fd \in Fds \union {NoFd}
  /\ _next_id \in Ids
  /\ \A fd \in _active : fd <= _max_fd
  /\ _active \subseteq Fds /\ _readyRead \subseteq Fds
  /\ DOMAIN _clients \subseteq Fds /\ Range(_clients) \subseteq Ids
  /\ DOMAIN _clientsToFd \subseteq Ids /\ Range(_clientsToFd) \subseteq Fds
  /\ DOMAIN _partialMsgs \subseteq Fds /\ Range(_partialMsgs) \subseteq Seq(Units)
  /\ _msgs \in Seq([frame : Seq(Units), fd : Fds, read : BOOLEAN])
  /\ pc \in {"idle", "select", "scan", "recv", "parse", "dispatch", "callback", "dead"}
  /\ at \in Nat
  /\ errno \in {"EINTR", "other"}
  /\ DOMAIN table \subseteq Fds /\ Range(table) \subseteq Peers
  /\ state \in [Peers -> {"new", "up", "closed", "reset", "gone"}]
  /\ wire \in [Peers -> Seq(Units)]
  /\ sent \in [Peers -> Seq(Msgs)] /\ DOMAIN owner \subseteq Ids
  /\ cut \subseteq Peers
  /\ misdelivered \in BOOLEAN
  /\ starts \in 0..MaxStarts /\ throws \in 0..MaxThrows

Empty == [x \in {} |-> x]

Init ==
  /\ _socket = NoFd /\ _max_fd = NoFd /\ _next_id = 0
  /\ _active = {} /\ _readyRead = {}
  /\ _clients = Empty /\ _clientsToFd = Empty
  /\ _partialMsgs = Empty /\ _msgs = <<>>
  /\ pc = "idle" /\ at = 0 /\ errno = "other"
  /\ table = Empty
  /\ state = [p \in Peers |-> "new"]
  /\ wire = [p \in Peers |-> <<>>]
  /\ sent = [p \in Peers |-> <<>>] /\ owner = Empty /\ cut = {} /\ said = <<>> /\ told = Nothing
  /\ misdelivered = FALSE /\ starts = 0 /\ throws = 0

\* Assignment to an entry of a map, and its erasure.
With(f, x, v) == [y \in DOMAIN f \union {x} |-> IF y = x THEN v ELSE f[y]]
Without(f, x) == Restrict(f, DOMAIN f \ {x})

\* The least element of a set, if it has one.
Lowest(S) == {x \in S : \A y \in S : x <= y}

-------------------------------------------------------------------------------
(***************************************************************************)
(* The peers.  A connection waits in the backlog until it is accepted, and *)
(* the peer may send and leave before that.                                *)
(***************************************************************************)
InBacklog(p) == state[p] \in {"up", "closed", "reset"} /\ p \notin Range(table)

Knock(p) ==
  /\ state[p] = "new" /\ Listening
  /\ state' = [state EXCEPT ![p] = "up"]
  /\ UNCHANGED <<_socket, _readyRead, books, input, pc, at, errno, table, wire, history>>

\* Client::send
Send(p, m) ==
  /\ state[p] = "up"
  /\ \A q \in Peers : m \notin Range(sent[q])
  /\ sent' = [sent EXCEPT ![p] = Append(@, m)]
  /\ wire' = [wire EXCEPT ![p] = @ \o Bytes(m)]
  /\ UNCHANGED <<_socket, _readyRead, books, input, pc, at, errno, table, state,
                 owner, cut, said, told, misdelivered, starts, throws>>

\* Client::disconnect, or a reset, which may overtake what is on its way.
Part(p) ==
  /\ state[p] = "up"
  /\ \/ /\ state' = [state EXCEPT ![p] = "closed"]
        /\ UNCHANGED wire
     \/ /\ state' = [state EXCEPT ![p] = "reset"]
        /\ \E n \in 0..Len(wire[p]) : wire' = [wire EXCEPT ![p] = Take(@, n)]
  /\ UNCHANGED <<_socket, _readyRead, books, input, pc, at, errno, table, history>>

PeerStep == \E p \in Peers : Knock(p) \/ Part(p) \/ \E m \in Msgs : Send(p, m)

-------------------------------------------------------------------------------
(***************************************************************************)
(* start and stop.  start() is called on a server that is not listening.   *)
(***************************************************************************)
MayCall == pc \in {"idle", "callback"}

Free == Fds \ (DOMAIN table \union {_socket})

start ==
  /\ MayCall /\ ~Listening
  /\ starts < MaxStarts
  /\ starts' = starts + 1
  /\ _socket' \in Lowest(Free)
  /\ _max_fd' = _socket'
  /\ _active' = {_socket'}
  /\ UNCHANGED <<_readyRead, _next_id, _clients, _clientsToFd, input, pc, at, errno, kernel,
                 sent, owner, cut, said, told, misdelivered, throws>>

ClearAll ==
  /\ _clients' = Empty /\ _clientsToFd' = Empty
  /\ _partialMsgs' = Empty /\ _msgs' = <<>>
  /\ _active' = {}

\* The body of stop().  Closing the listening socket also ends the connections
\* of its backlog.
Shutdown ==
  /\ _socket' = NoFd
  /\ table' = Restrict(table, DOMAIN table \ DOMAIN _clients)
  /\ state' = [p \in Peers |-> IF state[p] # "new" THEN "gone" ELSE "new"]
  /\ wire' = [p \in Peers |-> <<>>]
  /\ ClearAll
  /\ UNCHANGED <<_readyRead, _next_id, pc, at, history>>

stop == MayCall /\ Listening /\ Shutdown /\ UNCHANGED <<_max_fd, errno>>

\* A step of start() fails: it calls stop() and throws.  If that step is
\* listen() the descriptor of the socket is already the highest.  If it is
\* socket() nothing is called, and there is nothing that stop() would change.
startFails ==
  /\ MayCall /\ ~Listening
  /\ Shutdown
  /\ _max_fd' \in {_max_fd} \union Lowest(Free)
  /\ errno' \in {errno, "other"}

-------------------------------------------------------------------------------
(***************************************************************************)
(* _clearClient.  close() sends what the peer has to know.                 *)
(***************************************************************************)
CloseConnection(fd) ==
  /\ table' = Without(table, fd)
  /\ state' = [state EXCEPT ![table[fd]] = "gone"]
  /\ wire' = [wire EXCEPT ![table[fd]] = <<>>]

\* A plausible slip: only one of the two maps is updated.
MutantForget(fd) ==
  /\ _clients' = Without(_clients, fd)
  /\ _active' = _active \ {fd}
  /\ UNCHANGED <<_max_fd, _next_id, _clientsToFd>>

Forget(fd) ==
  /\ _clients' = Without(_clients, fd)
  /\ _clientsToFd' = Without(_clientsToFd, _clients[fd])
  /\ _active' = _active \ {fd}
  /\ UNCHANGED <<_max_fd, _next_id>>

-------------------------------------------------------------------------------
(***************************************************************************)
(* update: select.  errno is looked at also when nothing has failed, and   *)
(* only the next call that fails sets it anew.  What the program does      *)
(* between its calls is taken to leave it alone.                           *)
(***************************************************************************)
Readable(fd) ==
  \/ fd = _socket /\ \E p \in Peers : InBacklog(p)
  \/ fd \in DOMAIN table /\ (wire[table[fd]] # <<>> \/ state[table[fd]] # "up")

\* A plausible slip: the queue is emptied when update() begins, not when it ends.
MutantUpdate ==
  /\ pc = "idle" /\ starts > 0
  /\ pc' = "select"
  /\ _msgs' = <<>>
  /\ UNCHANGED <<_socket, _readyRead, books, _partialMsgs, at, errno, kernel, history>>

update ==
  /\ pc = "idle" /\ starts > 0
  /\ pc' = "select"
  /\ UNCHANGED <<_socket, _readyRead, books, input, at, errno, kernel, history>>

\* A signal: update() returns, and what it has queued waits for the next call.
selectInterrupted ==
  /\ pc = "select"
  /\ pc' = "idle" /\ errno' = "EINTR"
  /\ UNCHANGED <<_socket, _readyRead, books, input, at, kernel, history>>

\* Nothing has arrived in time: the dispatch begins, unless errno still says
\* that an earlier call was interrupted.
selectTimeout ==
  /\ pc = "select"
  /\ \/ errno = "EINTR" /\ pc' = "idle" /\ UNCHANGED at
     \/ errno # "EINTR" /\ pc' = "dispatch" /\ at' = 1
  /\ UNCHANGED <<_socket, _readyRead, books, input, errno, kernel, history>>

selectReady ==
  /\ pc = "select"
  /\ \E R \in SUBSET {fd \in _active : fd <= _max_fd /\ Readable(fd)} :
       R # {} /\ _readyRead' = R
  /\ pc' = "scan" /\ at' = 0
  /\ UNCHANGED <<_socket, books, input, errno, kernel, history>>

-------------------------------------------------------------------------------
(***************************************************************************)
(* update: the scan of the descriptors, in ascending order.                *)
(***************************************************************************)
ToScan == {fd \in _readyRead : at <= fd /\ fd <= _max_fd}

scanEnds ==
  /\ pc = "scan" /\ ToScan = {}
  /\ pc' = "select"
  /\ UNCHANGED <<_socket, _readyRead, books, input, at, errno, kernel, history>>

\* A plausible slip: one client too many.
MutantFull == Cardinality(DOMAIN _clients) > NB_CONNECTION
Full == Cardinality(DOMAIN _clients) >= NB_CONNECTION

\* A plausible slip: the highest descriptor is not kept up to date.
MutantHighest(fd) == _max_fd
Highest(fd) == IF _max_fd < fd THEN fd ELSE _max_fd

\* The new descriptor is also marked ready, so this scan still receives from it.
accept(p) ==
  /\ pc = "scan" /\ _socket \in Lowest(ToScan)
  /\ InBacklog(p)
  /\ at' = _socket + 1
  /\ IF Full
     THEN /\ state' = [state EXCEPT ![p] = "gone"]
          /\ wire' = [wire EXCEPT ![p] = <<>>]
          /\ UNCHANGED <<books, _readyRead, table, owner>>
     ELSE \E fd \in Lowest(Free) :
          /\ table' = With(table, fd, p)
          /\ _max_fd' = Highest(fd)
          /\ _active' = _active \union {fd}
          /\ _readyRead' = _readyRead \union {fd}
          /\ _clients' = With(_clients, fd, _next_id)
          /\ _clientsToFd' = With(_clientsToFd, _next_id, fd)
          /\ owner' = With(owner, _next_id, p)
          /\ _next_id' = _next_id + 1
          /\ UNCHANGED <<state, wire>>
  /\ UNCHANGED <<_socket, input, pc, errno, sent, cut, said, told, misdelivered, starts, throws>>

\* A connection that was reset in the backlog may not be there any more.
acceptFails(p) ==
  /\ pc = "scan" /\ _socket \in Lowest(ToScan)
  /\ InBacklog(p) /\ state[p] = "reset"
  /\ state' = [state EXCEPT ![p] = "gone"]
  /\ wire' = [wire EXCEPT ![p] = <<>>]
  /\ at' = _socket + 1 /\ errno' = "other"
  /\ UNCHANGED <<_socket, _readyRead, books, input, pc, table, history>>

receive ==
  /\ pc = "scan"
  /\ \E fd \in Lowest(ToScan) \ {_socket} : at' = fd
  /\ pc' = "recv"
  /\ UNCHANGED <<_socket, _readyRead, books, input, errno, kernel, history>>

-------------------------------------------------------------------------------
(***************************************************************************)
(* _receiveClientMsg.                                                      *)
(***************************************************************************)
Partial(fd) == IF fd \in DOMAIN _partialMsgs THEN _partialMsgs[fd] ELSE <<>>

\* Whether a cut of the stream of p after n units falls between two messages.
BetweenMessages(p, n) == n = Len(wire[p]) \/ wire[p][n + 1].at = 1

recvBytes ==
  /\ pc = "recv"
  /\ LET p == table[at] IN
     \E n \in 1..Len(wire[p]) :
       /\ _partialMsgs' = With(_partialMsgs, at, Partial(at) \o Take(wire[p], n))
       /\ wire' = [wire EXCEPT ![p] = Drop(@, n)]
       /\ cut' = IF BetweenMessages(p, n) THEN cut ELSE cut \union {p}
  /\ pc' = "parse"
  /\ UNCHANGED <<_socket, _readyRead, books, _msgs, at, errno, table, state,
                 sent, owner, said, told, misdelivered, starts, throws>>

\* A plausible slip: everything received is copied, not dataSize bytes.
MutantFrame(n) == _partialMsgs[at]
Frame(n) == Take(_partialMsgs[at], n)

\* A plausible slip: the descriptor of another client is noted.
MutantReceiver == Max(DOMAIN _clients)
Receiver == at

parseMessage ==
  /\ pc = "parse"
  /\ \E n \in Header..Len(_partialMsgs[at]) :
       /\ CompleteWith(_partialMsgs[at], n)
       /\ _msgs' = Append(_msgs, [frame |-> Frame(n),
                               fd |-> Receiver, read |-> FALSE])
       /\ _partialMsgs' = [_partialMsgs EXCEPT ![at] = Drop(@, n)]
  /\ UNCHANGED <<_socket, _readyRead, books, pc, at, errno, kernel, history>>

\* The buffer is cleared after each read, an incomplete message included.
parseEnds ==
  /\ pc = "parse"
  /\ Incomplete(_partialMsgs[at])
  /\ _partialMsgs' = [_partialMsgs EXCEPT ![at] = <<>>]
  /\ pc' = "recv"
  /\ UNCHANGED <<_socket, _readyRead, books, _msgs, at, errno, kernel, history>>

\* EAGAIN: nothing more has arrived.
recvAgain ==
  /\ pc = "recv"
  /\ wire[table[at]] # <<>> \/ state[table[at]] = "up"
  /\ pc' = "scan" /\ at' = at + 1 /\ errno' = "other"
  /\ UNCHANGED <<_socket, _readyRead, books, input, kernel, history>>

\* The end of the stream or an error: the client is forgotten, but not the
\* messages it has queued.
recvEnd ==
  /\ pc = "recv"
  /\ \/ state[table[at]] = "closed" /\ wire[table[at]] = <<>> /\ UNCHANGED errno
     \/ state[table[at]] = "reset" /\ errno' = "other"
  /\ CloseConnection(at)
  /\ Forget(at)
  /\ _partialMsgs' = Without(_partialMsgs, at)
  /\ pc' = "scan" /\ at' = at + 1
  /\ UNCHANGED <<_socket, _readyRead, _msgs, history>>

UpdateReceives ==
  \/ selectInterrupted \/ selectTimeout \/ selectReady
  \/ scanEnds \/ receive \/ \E p \in Peers : accept(p) \/ acceptFails(p)
  \/ recvBytes \/ parseMessage \/ parseEnds \/ recvAgain \/ recvEnd

-------------------------------------------------------------------------------
(***************************************************************************)
(* update: the callbacks.  A message is given to the action of its type    *)
(* together with the id that its descriptor has now.                       *)
(***************************************************************************)
Current == _msgs[at]
Dispatching == pc = "dispatch" /\ at <= Len(_msgs)
Known == Current.fd \in DOMAIN _clients
Exhausted == Current.read /\ Len(Current.frame) > Header

\* Whether the type of a frame has an action: a garbled type may or may not.
HasAction(f) == f[1].at = 1 => f[1].msg \in _tasks
LacksAction(f) == f[1].at = 1 => f[1].msg \notin _tasks

\* No action for the type, or no client behind the descriptor.
dispatchSkip ==
  /\ Dispatching
  /\ ~Known \/ LacksAction(Current.frame)
  /\ at' = at + 1
  /\ UNCHANGED <<_socket, _readyRead, books, input, pc, errno, kernel, history>>

dispatchCall ==
  /\ Dispatching /\ Known /\ HasAction(Current.frame)
  /\ told' = [id |-> _clients[Current.fd], frame |-> Current.frame]
  /\ said' = IF told' \in Range(said) THEN said ELSE Append(said, told')
  /\ pc' = "callback"
  /\ UNCHANGED <<_socket, _readyRead, books, input, at, errno, kernel,
                 sent, owner, cut, misdelivered, starts, throws>>

dispatchEnds ==
  /\ pc = "dispatch" /\ at > Len(_msgs)
  /\ _msgs' = <<>>
  /\ pc' = "idle"
  /\ UNCHANGED <<_socket, _readyRead, books, _partialMsgs, at, errno, kernel, history>>

\* Reading moves the cursor of the message in _msgs, if stop() has not
\* emptied it meanwhile.
MarkRead(r) == _msgs' = [i \in DOMAIN _msgs |->
                           IF i = at THEN [_msgs[i] EXCEPT !.read = r] ELSE _msgs[i]]

\* A callback may leave the data unread, and has to if they were read before an
\* earlier throw.
callbackReturns ==
  /\ pc = "callback"
  /\ \/ (at \in DOMAIN _msgs => ~Exhausted) /\ MarkRead(TRUE)
     \/ UNCHANGED _msgs
  /\ pc' = "dispatch" /\ at' = at + 1
  /\ told' = Nothing
  /\ UNCHANGED <<_socket, _readyRead, books, _partialMsgs, errno, kernel,
                 sent, owner, cut, said, misdelivered, starts, throws>>

\* Data that were read before an earlier throw cannot be read again: the callback
\* that reads them throws once more.
callbackExhausted ==
  /\ pc = "callback" /\ at \in DOMAIN _msgs /\ Exhausted
  /\ pc' = "idle"
  /\ told' = Nothing
  /\ UNCHANGED <<_socket, _readyRead, books, input, at, errno, kernel,
                 sent, owner, cut, said, misdelivered, starts, throws>>

\* An exception, before or after the data are read, leaves update() at once
\* and _msgs keeps all its messages.
callbackThrows ==
  /\ pc = "callback" /\ throws < MaxThrows
  /\ throws' = throws + 1
  /\ MarkRead(TRUE) \/ UNCHANGED _msgs
  /\ pc' = "idle"
  /\ told' = Nothing
  /\ UNCHANGED <<_socket, _readyRead, books, _partialMsgs, at, errno, kernel,
                 sent, owner, cut, said, misdelivered, starts>>

UpdateDispatches ==
  \/ dispatchSkip \/ dispatchCall \/ dispatchEnds
  \/ callbackReturns \/ callbackExhausted \/ callbackThrows

-------------------------------------------------------------------------------
(***************************************************************************)
(* sendTo, called by the program or by a callback; sendToArray and         *)
(* sendToAll are sequences of it, between which the peers go on.           *)
(***************************************************************************)
Broken(fd) == state[table[fd]] \in {"closed", "reset"}

sendTo(id) ==
  /\ MayCall /\ id \in DOMAIN _clientsToFd /\ _clientsToFd[id] \in _active
  /\ misdelivered' = (misdelivered \/ table[_clientsToFd[id]] # owner[id])
  /\ UNCHANGED <<_socket, _readyRead, books, input, pc, at, errno, kernel,
                 sent, owner, cut, said, told, starts, throws>>

\* send() fails: _clearClient is given a reference into _clientsToFd, which it
\* reads once more after the entry is erased, so the last erase may hit any
\* descriptor.
sendToFails(id) ==
  /\ MayCall /\ id \in DOMAIN _clientsToFd /\ _clientsToFd[id] \in _active
  /\ LET fd == _clientsToFd[id] IN
     /\ Broken(fd)
     /\ CloseConnection(fd)
     /\ Forget(fd)
  /\ \E f \in Fds : _partialMsgs' = Without(_partialMsgs, f)
  /\ errno' = "other"
  /\ UNCHANGED <<_socket, _readyRead, _msgs, pc, at, history>>

\* The process ends: SIGPIPE, which nothing in the library blocks or ignores,
\* or, in sendToAll, the erased element that the loop stands on.
sendDies(id) ==
  /\ MayCall /\ id \in DOMAIN _clientsToFd /\ _clientsToFd[id] \in _active
  /\ Broken(_clientsToFd[id])
  /\ pc' = "dead"
  /\ UNCHANGED <<_socket, _readyRead, books, input, at, errno, kernel, history>>

Sends == \E id \in Ids : sendTo(id) \/ sendToFails(id) \/ sendDies(id)

Dead == pc = "dead" /\ UNCHANGED vars

-------------------------------------------------------------------------------
Next ==
  \/ PeerStep \/ start \/ startFails \/ stop
  \/ update \/ UpdateReceives \/ UpdateDispatches
  \/ Sends \/ Dead

\* The program calls update() again and again, as server.hpp:50-52 does, and a
\* call proceeds; the network hands over what was sent, and the peers fall
\* silent for 10 ms at some time.  Nothing is said of signals, nor of what a
\* silent select does with an old errno.
Fairness ==
  /\ WF_vars(update \/ UpdateReceives \/ UpdateDispatches)
  /\ SF_vars(selectReady) /\ SF_vars(selectTimeout) /\ SF_vars(recvBytes)

SafeSpec == Init /\ [][Next]_vars
Spec == SafeSpec /\ Fairness

-------------------------------------------------------------------------------
(***************************************************************************)
(* Properties.                                                             *)
(***************************************************************************)
\* _clients and _clientsToFd are inverse to each other, and their descriptors
\* are, with the listening socket, exactly the active ones and exactly the
\* open ones, at most NB_CONNECTION: no descriptor leaks or is selected after it
\* was closed, whatever order peers come and go in, also across stop() and
\* start() (server.cpp:65-80, 239-257, 269-280).
BooksAgree ==
  pc # "dead" =>
    /\ \A fd \in DOMAIN _clients :
         _clients[fd] \in DOMAIN _clientsToFd /\ _clientsToFd[_clients[fd]] = fd
    /\ \A id \in DOMAIN _clientsToFd :
         _clientsToFd[id] \in DOMAIN _clients /\ _clients[_clientsToFd[id]] = id
    /\ DOMAIN _clients = DOMAIN table
    /\ _active = DOMAIN table \union ({_socket} \ {NoFd})
    /\ Cardinality(DOMAIN _clients) <= NB_CONNECTION

\* A reply sent to a client id reaches the peer that was given that id or no
\* one: ids are not used twice, and a descriptor that was closed and used again
\* is not found under the old id (server.cpp:127-138).
RepliesReachTheirClient == ~misdelivered

SenderOf(f) == CHOOSE p \in Peers : f[1].msg \in Range(sent[p])

\* As long as the sender is connected its messages are given to the callback
\* under its own id (server.cpp:101, 110, 219-225).
ConnectedSenderIsNamed ==
  pc = "callback" =>
    LET p == SenderOf(told.frame)
    IN  p \in Range(table) => owner[told.id] = p

\* If no read has cut one of its messages, a peer's messages are given to the
\* callback whole, and in the order it sent them, none left out before one that
\* is given but those whose type has no action (server.cpp:92-115, 212-226).
UncutStreamIsWhole ==
  \A i \in DOMAIN said :
    LET p == SenderOf(said[i].frame)
    IN  p \notin cut =>
          \E k \in DOMAIN sent[p] :
            /\ said[i].frame = Bytes(sent[p][k])
            /\ \A h \in 1..(k - 1) : sent[p][h] \in _tasks =>
                 \E j \in 1..(i - 1) : said[j].frame = Bytes(sent[p][h])

\* update() was left by an exception after data were read: from now on it can
\* fail at this message again and again, and not reach the ones behind it.
Jammed ==
  pc = "idle" /\ \E i \in DOMAIN _msgs : _msgs[i].read /\ Len(_msgs[i].frame) > Header

\* What was sent is given to its callback unless a read cuts the sender's stream,
\* the sender leaves, the server stops or a throwing callback jams the queue.
SentLeadsTo(m) ==
  (\E p \in Peers : m \in Range(sent[p]))
    ~> \/ \E i \in DOMAIN said : said[i].frame = Bytes(m)
       \/ \E p \in Peers : m \in Range(sent[p]) /\ (p \in cut \/ state[p] # "up")
       \/ ~Listening \/ pc = "dead" \/ Jammed

\* A message that has an action is given to it, through interrupted calls of
\* select, callbacks that throw and other peers that come and go, unless the
\* errno of an interrupted select is never replaced by another one: then no
\* silence is taken for one any more (server.cpp:170-228).
SentIsDispatched ==
  <>[](errno = "EINTR") \/ \A m \in _tasks : SentLeadsTo(m)

(***************************************************************************)
(* What the documentation says.                                            *)
(***************************************************************************)
\* README.md:453: the server keeps track of partial messages; so what is given
\* to a callback is a message as it was sent.
PartialMessagesAreKept == \A i \in DOMAIN said : Genuine(said[i].frame)

\* server.hpp:38-41: the callback is told which client says it.
CallbackKnowsItsClient ==
  \A i \in DOMAIN said : owner[said[i].id] = SenderOf(said[i].frame)
===============================================================================
