-------------------------------- MODULE Client --------------------------------
(***************************************************************************)
(* The TCP client of src/network/client, and the peer it talks to.  The    *)
(* client is single-threaded; what interleaves with it is the peer, the    *)
(* network (each recv returns some part of what was sent, or nothing yet), *)
(* the end of the connection, and the callbacks, which may throw and may   *)
(* connect or disconnect the client while update() dispatches.             *)
(***************************************************************************)
EXTENDS Framing, SequencesExt

CONSTANTS Actions,    \* number of actions defined for the type of a message
          MaxConns,   \* bound on the number of connections
          MaxThrows   \* bound on the number of callbacks that throw

ASSUME ClientAssumption ==
  /\ Actions \in [Msgs -> Nat]
  /\ MaxConns \in Nat /\ MaxThrows \in Nat

Conns == 1..MaxConns
Handled == {m \in Msgs : Actions[m] > 0}
NoFd == 0

VARIABLES _fd,       \* the connection in use, or NoFd
          _tmpMsg,   \* units received and not yet parsed
          _msgs,     \* parsed messages: the frame, and whether its data are read
          pc,        \* where update() is
          next,      \* index in _msgs of the message to dispatch next
          turn,      \* number of the action to call with it
          conns,     \* number of connections made
          peer,      \* the other end of the connection
          wire,      \* units sent by the peer and not received
          sent,      \* history: messages the peer sent on each connection
          clean,     \* history: connections begun with an empty _tmpMsg
          seen,      \* history: frames shown to a callback, by first showing
          again,     \* history: frames shown more than once
          throws,    \* history: callbacks that threw of their own accord
          jammed     \* history: an exception has left update() with its _msgs

vars == <<_fd, _tmpMsg, _msgs, pc, next, turn, conns, peer, wire, sent, clean,
          seen, again, throws, jammed>>
client == <<_fd, _tmpMsg, _msgs, pc, next, turn>>
link == <<conns, peer, wire, sent, clean>>
log == <<seen, again, throws, jammed>>

Init ==
  /\ _fd = NoFd /\ _tmpMsg = <<>> /\ _msgs = <<>>
  /\ pc = "idle" /\ next = 1 /\ turn = 1
  /\ conns = 0 /\ peer = "none" /\ wire = <<>>
  /\ sent = [c \in Conns |-> <<>>] /\ clean = {}
  /\ seen = <<>> /\ again = {} /\ throws = 0 /\ jammed = FALSE

-------------------------------------------------------------------------------
(***************************************************************************)
(* The peer and the network.                                               *)
(***************************************************************************)
Sent == UNION {Range(sent[c]) : c \in Conns}

PeerSend(m) ==
  /\ peer = "open"
  /\ m \notin Sent
  /\ wire' = wire \o Bytes(m)
  /\ sent' = [sent EXCEPT ![conns] = Append(@, m)]
  /\ UNCHANGED <<client, conns, peer, clean, log>>

PeerClose ==
  /\ peer = "open"
  /\ peer' = "closed"
  /\ UNCHANGED <<client, conns, wire, sent, clean, log>>

\* A reset may overtake what is still on its way.
PeerReset ==
  /\ peer \in {"open", "closed"}
  /\ peer' = "reset"
  /\ \E n \in 0..Len(wire) : wire' = Take(wire, n)
  /\ UNCHANGED <<client, conns, sent, clean, log>>

-------------------------------------------------------------------------------
(***************************************************************************)
(* connect and disconnect, called by the program or by a callback.         *)
(***************************************************************************)
MayCall == pc \in {"idle", "callback"}

Hangup == peer' = "none" /\ wire' = <<>>

disconnect ==
  /\ MayCall
  /\ _fd # NoFd
  /\ _fd' = NoFd
  /\ Hangup
  /\ UNCHANGED <<_tmpMsg, _msgs, pc, next, turn, conns, sent, clean, log>>

\* disconnect(), then a new socket.  _tmpMsg and _msgs are left as they are.
connect ==
  /\ MayCall
  /\ conns < MaxConns
  /\ conns' = conns + 1
  /\ _fd' = conns'
  /\ peer' = "open" /\ wire' = <<>>
  /\ clean' = IF _tmpMsg = <<>> THEN clean \union {conns'} ELSE clean
  /\ UNCHANGED <<_tmpMsg, _msgs, pc, next, turn, sent, log>>

\* No socket, no such host, or no answer: _networkError disconnects and throws
\* to the caller of connect; a callback catches that or throws on.
connectFails ==
  /\ MayCall
  /\ _fd' = NoFd
  /\ Hangup
  /\ UNCHANGED <<_tmpMsg, _msgs, pc, next, turn, conns, sent, clean, log>>

-------------------------------------------------------------------------------
(***************************************************************************)
(* update: _isConnected, then select and _receiveMessage until nothing is  *)
(* ready, then the callbacks.                                              *)
(***************************************************************************)
\* Asking for SO_ERROR takes a pending reset away: update() returns once with
\* nothing done, and the next call finds a socket at its end.
updateRefused ==
  /\ pc = "idle"
  /\ peer = "reset"
  /\ _fd # NoFd
  /\ peer' = "dead"
  /\ UNCHANGED <<client, conns, wire, sent, clean, log>>

update ==
  /\ pc = "idle"
  /\ _fd # NoFd
  /\ peer # "reset"
  /\ pc' = "select"
  /\ UNCHANGED <<_fd, _tmpMsg, _msgs, next, turn, link, log>>

selectReady ==
  /\ pc = "select"
  /\ wire # <<>> \/ peer # "open"
  /\ pc' = "recv"
  /\ UNCHANGED <<_fd, _tmpMsg, _msgs, next, turn, link, log>>

\* Nothing has arrived in time, although it may be on its way.
selectTimeout ==
  /\ pc = "select"
  /\ pc' = "dispatch" /\ next' = 1 /\ turn' = 1
  /\ UNCHANGED <<_fd, _tmpMsg, _msgs, link, log>>

\* recv returns any part of what the peer has sent.
recvBytes ==
  /\ pc = "recv"
  /\ \E n \in 1..Len(wire) : /\ _tmpMsg' = _tmpMsg \o Take(wire, n)
                             /\ wire' = Drop(wire, n)
  /\ UNCHANGED <<_fd, _msgs, pc, next, turn, conns, peer, sent, clean, log>>

\* EAGAIN: nothing more has arrived.
recvAgain ==
  /\ pc = "recv"
  /\ wire # <<>> \/ peer = "open"
  /\ pc' = "parse"
  /\ UNCHANGED <<_fd, _tmpMsg, _msgs, next, turn, link, log>>

\* The end of the stream, or ECONNRESET: disconnect and return, before what
\* has been received is parsed.  With _fd = -1 the loop in update() ends.
recvEnd ==
  /\ pc = "recv"
  /\ (peer \in {"closed", "dead"} /\ wire = <<>>) \/ peer = "reset"
  /\ _fd' = NoFd
  /\ Hangup
  /\ pc' = "dispatch" /\ next' = 1 /\ turn' = 1
  /\ UNCHANGED <<_tmpMsg, _msgs, conns, sent, clean, log>>

\* Any other error: disconnect and throw out of update().
recvFails ==
  /\ pc = "recv"
  /\ peer = "reset"
  /\ _fd' = NoFd
  /\ Hangup
  /\ pc' = "idle"
  /\ UNCHANGED <<_tmpMsg, _msgs, next, turn, conns, sent, clean, log>>

\* A plausible slip: the buffer is emptied after the complete messages, as
\* Server::_receiveClientMsg does.
MutantParsed(n) == <<>>
Parsed(n) == Drop(_tmpMsg, n)

\* A plausible slip: if instead of while.
MutantParseMessage ==
  /\ pc = "parse"
  /\ \E n \in Header..Len(_tmpMsg) :
       /\ CompleteWith(_tmpMsg, n)
       /\ _msgs' = Append(_msgs, [frame |-> Take(_tmpMsg, n), read |-> FALSE])
       /\ _tmpMsg' = Parsed(n)
  /\ pc' = "select"
  /\ UNCHANGED <<_fd, next, turn, link, log>>

parseMessage ==
  /\ pc = "parse"
  /\ \E n \in Header..Len(_tmpMsg) :
       /\ CompleteWith(_tmpMsg, n)
       /\ _msgs' = Append(_msgs, [frame |-> Take(_tmpMsg, n), read |-> FALSE])
       /\ _tmpMsg' = Parsed(n)
  /\ UNCHANGED <<_fd, pc, next, turn, link, log>>

parseEnds ==
  /\ pc = "parse"
  /\ Incomplete(_tmpMsg)
  /\ pc' = "select"
  /\ UNCHANGED <<_fd, _tmpMsg, _msgs, next, turn, link, log>>

-------------------------------------------------------------------------------
(***************************************************************************)
(* The callbacks: the actions of the message's type, one after the other.  *)
(* One may read the data of its message, which moves the mutable cursor of *)
(* the message in _msgs: a second reading, by the next action or after a   *)
(* throw, throws.  An exception leaves update() at once and _msgs keeps    *)
(* all its messages.                                                       *)
(***************************************************************************)
Current == _msgs[next]
Dispatching == pc = "dispatch" /\ next <= Len(_msgs)

\* A garbled frame has an arbitrary type, with actions or without.
ActionCounts ==
  IF Genuine(Current.frame) THEN {Actions[Current.frame[1].msg]} ELSE {0} \union Range(Actions)

MayTrigger == \E n \in ActionCounts : turn <= n
Exhausted == Current.read /\ Len(Current.frame) > Header

Show(f) ==
  IF f \in Range(seen) THEN again' = again \union {f} /\ UNCHANGED seen
                       ELSE seen' = Append(seen, f) /\ UNCHANGED again

dispatchSkip ==
  /\ Dispatching /\ turn = 1 /\ 0 \in ActionCounts
  /\ next' = next + 1
  /\ UNCHANGED <<_fd, _tmpMsg, _msgs, pc, turn, link, log>>

\* A plausible slip: the messages dispatched are kept.
MutantRemaining == _msgs
Remaining == <<>>

dispatchCall ==
  /\ Dispatching /\ MayTrigger
  /\ IF turn = 1 THEN Show(Current.frame) ELSE UNCHANGED <<seen, again>>
  /\ pc' = "callback"
  /\ UNCHANGED <<_fd, _tmpMsg, _msgs, next, turn, link, throws, jammed>>

callbackReturns ==
  /\ pc = "callback"
  /\ \E r \in {Current.read, TRUE} : _msgs' = [_msgs EXCEPT ![next].read = r]
  /\ pc' = "dispatch"
  /\ \/ turn + 1 <= Max(ActionCounts) /\ turn' = turn + 1 /\ UNCHANGED next
     \/ turn \in ActionCounts /\ next' = next + 1 /\ turn' = 1
  /\ UNCHANGED <<_fd, _tmpMsg, link, log>>

\* The callback throws, before or after it has read the data.
callbackThrows ==
  /\ pc = "callback"
  /\ throws < MaxThrows
  /\ throws' = throws + 1 /\ jammed' = TRUE
  /\ \E r \in {Current.read, TRUE} : _msgs' = [_msgs EXCEPT ![next].read = r]
  /\ pc' = "idle"
  /\ UNCHANGED <<_fd, _tmpMsg, next, turn, link, seen, again>>

\* The callback reads data that were already read, by another action or before
\* an earlier throw: std::out_of_range.
dispatchExhausted ==
  /\ Dispatching /\ MayTrigger /\ Exhausted
  /\ pc' = "idle" /\ jammed' = TRUE
  /\ UNCHANGED <<_fd, _tmpMsg, _msgs, next, turn, link, seen, again, throws>>

dispatchEnds ==
  /\ pc = "dispatch" /\ next > Len(_msgs)
  /\ _msgs' = Remaining
  /\ pc' = "idle"
  /\ UNCHANGED <<_fd, _tmpMsg, next, turn, link, log>>

-------------------------------------------------------------------------------
PeerStep == PeerClose \/ PeerReset \/ \E m \in Msgs : PeerSend(m)

UpdateStep ==
  \/ updateRefused \/ update \/ selectReady \/ selectTimeout
  \/ recvBytes \/ recvAgain \/ recvEnd \/ recvFails
  \/ parseMessage \/ parseEnds
  \/ dispatchSkip \/ dispatchCall \/ dispatchExhausted \/ dispatchEnds
  \/ callbackReturns \/ callbackThrows

Next == PeerStep \/ connect \/ connectFails \/ disconnect \/ UpdateStep

\* The program calls update() regularly, as client.hpp:51 asks, and a call
\* proceeds; the network hands over, at some time, what has been sent.
Fairness ==
  /\ WF_vars(UpdateStep)
  /\ SF_vars(selectReady)
  /\ SF_vars(recvBytes)

SafeSpec == Init /\ [][Next]_vars
Spec == SafeSpec /\ Fairness

-------------------------------------------------------------------------------
(***************************************************************************)
(* Properties.                                                             *)
(***************************************************************************)
\* On a connection that began with an empty buffer every frame shown to a
\* callback is one message exactly as the peer sent it, and every message that
\* the peer sent before it on that connection and that has an action was shown
\* before: however the stream is cut by recv, nothing is lost, merged or
\* reordered (client.cpp:82-124).
WholeAndInOrder ==
  \A i \in DOMAIN seen : \A c \in clean :
    Last(seen[i]).msg \in Range(sent[c]) =>
      /\ Genuine(seen[i])
      /\ \E k \in DOMAIN sent[c] :
           /\ seen[i] = Bytes(sent[c][k])
           /\ \A h \in 1..(k - 1) : sent[c][h] \in Handled =>
                \E j \in 1..(i - 1) : seen[j] = Bytes(sent[c][h])

\* No message is shown twice to an action until an exception leaves update():
\* one of a callback, or the one of a second action that finds the data of the
\* message read by the first (client.cpp:145-154).
ShownOnce == again # {} => jammed

\* A message with an action is shown to it unless the connection ends or an
\* exception has left update() (which blocks the messages behind it, client.cpp:
\* 152): update() does not leave a complete message in the buffer for ever.
SentIsShown ==
  \A m \in Handled : \A c \in Conns :
    (m \in Range(sent[c]) /\ c \in clean)
      ~> (Bytes(m) \in Range(seen) \/ _fd # c \/ jammed)

(***************************************************************************)
(* What the documentation says of partial reads.                           *)
(***************************************************************************)
\* client.hpp:31: messages are parsed and reconstructed from partial reads; so
\* none that has been received in full is left behind when update() dispatches.
ReceivedIsParsed == pc = "dispatch" => Incomplete(_tmpMsg)

\* README.md:484: fragmented messages are reconstructed; so a callback is shown
\* only what the peer sent.
OnlyGenuineShown == \A i \in DOMAIN seen : Genuine(seen[i])
===============================================================================
