----------------------------- MODULE ClientProofs -----------------------------
(***************************************************************************)
(* Safety of Client for all messages, actions, connections and ways of     *)
(* cutting the stream: what a clean connection delivers is whole and in    *)
(* order, and no frame is shown twice before an exception leaves update(). *)
(***************************************************************************)
EXTENDS Client, FramingProofs

-------------------------------------------------------------------------------
(***************************************************************************)
(* Sequences.                                                              *)
(***************************************************************************)
LEMMA InRange ==
  ASSUME NEW S, NEW s \in Seq(S), NEW x
  PROVE  x \in Range(s) <=> \E i \in 1..Len(s) : x = s[i]
BY DEF Range

-------------------------------------------------------------------------------
(***************************************************************************)
(* Types.                                                                  *)
(***************************************************************************)
Mail == [frame : Seq(Units), read : BOOLEAN]

LinkOK ==
  /\ conns \in 0..MaxConns
  /\ _tmpMsg \in Seq(Units) /\ wire \in Seq(Units)
  /\ sent \in [Conns -> Seq(Msgs)]
  /\ clean \subseteq 1..conns
  /\ peer = "open" => conns \in Conns
  /\ \A c \in Conns : c > conns => sent[c] = <<>>

UpdateOK ==
  /\ _msgs \in Seq(Mail)
  /\ next \in Nat \ {0} /\ turn \in Nat \ {0}
  /\ seen \in Seq(Seq(Units))
  /\ pc = "callback" => next <= Len(_msgs)

\* The steps that write what LinkOK is about.
LEMMA Traffic ==
  ASSUME [Next]_vars
  PROVE  \/ \E m \in Msgs : PeerSend(m)
         \/ PeerReset
         \/ connect
         \/ recvBytes
         \/ parseMessage
         \/ wire' = <<>> /\ peer' = "none" /\ UNCHANGED <<_tmpMsg, conns, sent, clean>>
         \/ /\ peer' # "open" \/ peer' = peer
            /\ UNCHANGED <<_tmpMsg, wire, conns, sent, clean>>
<1> USE DEF client, link
<1>1. CASE PeerStep
  BY <1>1 DEF PeerStep, PeerClose
<1>2. CASE connect \/ connectFails \/ disconnect \/ UNCHANGED vars
  BY <1>2 DEF connectFails, disconnect, Hangup, vars
<1>3. CASE \/ updateRefused \/ update \/ selectReady \/ selectTimeout
           \/ recvAgain \/ recvEnd \/ recvFails \/ parseEnds
  BY <1>3 DEF updateRefused, update, selectReady, selectTimeout, recvAgain, recvEnd, recvFails,
              parseEnds, Hangup
<1>4. CASE \/ dispatchSkip \/ dispatchCall \/ dispatchExhausted \/ dispatchEnds
           \/ callbackReturns \/ callbackThrows
  BY <1>4 DEF dispatchSkip, dispatchCall, dispatchExhausted, dispatchEnds, callbackReturns,
              callbackThrows
<1> QED BY <1>1, <1>2, <1>3, <1>4 DEF Next, UpdateStep

LEMMA LinkStep ==
  ASSUME LinkOK, [Next]_vars
  PROVE  LinkOK'
<1>0. MaxConns \in Nat /\ Conns = 1..MaxConns
  BY ClientAssumption DEF Conns
<1>1. ASSUME NEW m \in Msgs, PeerSend(m) PROVE LinkOK'
  <2>1. conns \in Conns /\ UNCHANGED <<_tmpMsg, conns, peer, clean>>
    BY <1>1 DEF PeerSend, LinkOK, client
  <2>2. wire' \in Seq(Units)
    BY <1>1, BytesOfMessage, Joined DEF PeerSend, LinkOK
  <2>3. Append(sent[conns], m) \in Seq(Msgs)
    BY <2>1 DEF LinkOK
  <2>4. /\ sent' \in [Conns -> Seq(Msgs)]
        /\ \A c \in Conns : c # conns => sent'[c] = sent[c]
    BY <1>1, <2>1, <2>3 DEF PeerSend, LinkOK
  <2> QED BY <1>0, <2>1, <2>2, <2>4 DEF LinkOK
<1>2. CASE PeerReset
  <2>1. wire' \in Seq(Units)
    BY <1>2, Divided DEF PeerReset, LinkOK
  <2> QED BY <1>2, <2>1 DEF PeerReset, LinkOK, client
<1>3. CASE connect
  <2>1. wire' \in Seq(Units) /\ conns' \in Conns /\ conns' = conns + 1
    BY <1>0, <1>3 DEF connect, LinkOK
  <2>2. clean' \subseteq 1..conns'
    BY <1>0, <1>3, <2>1 DEF connect, LinkOK
  <2> QED BY <1>0, <1>3, <2>1, <2>2 DEF connect, LinkOK
<1>4. CASE recvBytes
  <2>1. PICK n \in 1..Len(wire) : _tmpMsg' = _tmpMsg \o Take(wire, n) /\ wire' = Drop(wire, n)
    BY <1>4 DEF recvBytes
  <2>2. wire \in Seq(Units) /\ _tmpMsg \in Seq(Units) /\ n \in 0..Len(wire)
    BY DEF LinkOK
  <2>3. Take(wire, n) \in Seq(Units) /\ wire' \in Seq(Units)
    BY <2>1, <2>2, Divided
  <2>4. _tmpMsg' \in Seq(Units)
    BY <2>1, <2>2, <2>3, Joined
  <2> QED BY <1>4, <2>3, <2>4 DEF recvBytes, LinkOK
<1>5. CASE parseMessage
  <2>1. PICK n \in 0..Len(_tmpMsg) : _tmpMsg' = Drop(_tmpMsg, n)
    BY <1>5 DEF parseMessage, Parsed, Header, LinkOK
  <2>2. _tmpMsg' \in Seq(Units)
    BY <2>1, Divided DEF LinkOK
  <2> QED BY <1>5, <2>2 DEF parseMessage, LinkOK, link
<1>6. CASE wire' = <<>> /\ peer' = "none" /\ UNCHANGED <<_tmpMsg, conns, sent, clean>>
  <2>1. wire' \in Seq(Units)
    BY <1>6
  <2> QED BY <1>6, <2>1 DEF LinkOK
<1>7. CASE /\ peer' # "open" \/ peer' = peer
           /\ UNCHANGED <<_tmpMsg, wire, conns, sent, clean>>
  BY <1>7 DEF LinkOK
<1> QED BY <1>1, <1>2, <1>3, <1>4, <1>5, <1>6, <1>7, Traffic

\* Where update() goes on reading its messages, nothing but a mark is set.
SameFrames == /\ Len(_msgs') = Len(_msgs)
              /\ \A i \in 1..Len(_msgs) : _msgs'[i].frame = _msgs[i].frame

LEMMA Marking ==
  ASSUME UpdateOK, callbackReturns \/ callbackThrows
  PROVE  _msgs' \in Seq(Mail) /\ SameFrames
<1>1. next \in 1..Len(_msgs) /\ _msgs \in Seq(Mail)
  BY DEF UpdateOK, callbackReturns, callbackThrows
<1>2. PICK r \in {Current.read, TRUE} : _msgs' = [_msgs EXCEPT ![next].read = r]
  BY DEF callbackReturns, callbackThrows
<1>3. _msgs[next] \in Mail
  BY <1>1
<1>4. r \in BOOLEAN
  BY <1>2, <1>3 DEF Current, Mail
<1> DEFINE g == [i \in 1..Len(_msgs) |->
                   IF i = next THEN [_msgs[i] EXCEPT !.read = r] ELSE _msgs[i]]
<1>5. DOMAIN _msgs = 1..Len(_msgs) /\ Len(_msgs) \in Nat
  BY <1>1
<1>6. _msgs' = g
  BY <1>2, <1>5
<1>7. \A x \in Mail : [x EXCEPT !.read = r] \in Mail /\ [x EXCEPT !.read = r].frame = x.frame
  BY <1>4 DEF Mail
<1>8. \A i \in 1..Len(_msgs) : _msgs[i] \in Mail
  BY <1>1
<1>9. \A i \in 1..Len(_msgs) : g[i] \in Mail /\ g[i].frame = _msgs[i].frame
  BY <1>7, <1>8
<1>10. g \in [1..Len(_msgs) -> Mail]
  BY <1>9
<1> HIDE DEF g
<1>11. g \in Seq(Mail) /\ Len(g) = Len(_msgs)
  BY <1>5, <1>10
<1> QED BY <1>6, <1>9, <1>11 DEF SameFrames

\* The steps that write _msgs, seen or again.
LEMMA Queueing ==
  ASSUME [Next]_vars
  PROVE  \/ parseMessage
         \/ dispatchEnds
         \/ callbackReturns \/ callbackThrows
         \/ dispatchCall
         \/ UNCHANGED <<_msgs, seen, again>>
<1> USE DEF client, log
<1>1. CASE PeerStep
  BY <1>1 DEF PeerStep, PeerSend, PeerClose, PeerReset
<1>2. CASE connect \/ connectFails \/ disconnect \/ UNCHANGED vars
  BY <1>2 DEF connect, connectFails, disconnect, vars
<1>3. CASE \/ updateRefused \/ update \/ selectReady \/ selectTimeout \/ recvBytes
           \/ recvAgain \/ recvEnd \/ recvFails \/ parseEnds
  BY <1>3 DEF updateRefused, update, selectReady, selectTimeout, recvBytes, recvAgain, recvEnd,
              recvFails, parseEnds
<1>4. CASE dispatchSkip \/ dispatchExhausted
  BY <1>4 DEF dispatchSkip, dispatchExhausted
<1> QED BY <1>1, <1>2, <1>3, <1>4 DEF Next, UpdateStep

\* What parseMessage does to the queue and to the buffer.
LEMMA Parsing ==
  ASSUME LinkOK, UpdateOK, parseMessage
  PROVE  \E n \in 2..Len(_tmpMsg) :
           LET f == Take(_tmpMsg, n) IN
           /\ CompleteWith(_tmpMsg, n)
           /\ f \in Seq(Units) /\ Len(f) = n
           /\ \A i \in 1..n : f[i] = _tmpMsg[i]
           /\ Len(_tmpMsg') = Len(_tmpMsg) - n
           /\ \A i \in 1..(Len(_tmpMsg) - n) : _tmpMsg'[i] = _tmpMsg[n + i]
           /\ _msgs' \in Seq(Mail) /\ Len(_msgs') = Len(_msgs) + 1
           /\ \A i \in 1..Len(_msgs) : _msgs'[i] = _msgs[i]
           /\ _msgs'[Len(_msgs) + 1].frame = f
<1>1. PICK n \in Header..Len(_tmpMsg) :
        /\ CompleteWith(_tmpMsg, n)
        /\ _msgs' = Append(_msgs, [frame |-> Take(_tmpMsg, n), read |-> FALSE])
        /\ _tmpMsg' = Drop(_tmpMsg, n)
  BY DEF parseMessage, Parsed
<1>2. _tmpMsg \in Seq(Units) /\ _msgs \in Seq(Mail)
  BY DEF LinkOK, UpdateOK
<1>3. n \in 0..Len(_tmpMsg) /\ n \in 2..Len(_tmpMsg)
  BY <1>1, <1>2 DEF Header
<1>4. /\ Take(_tmpMsg, n) \in Seq(Units) /\ Len(Take(_tmpMsg, n)) = n
      /\ \A i \in 1..n : Take(_tmpMsg, n)[i] = _tmpMsg[i]
      /\ Len(_tmpMsg') = Len(_tmpMsg) - n
      /\ \A i \in 1..(Len(_tmpMsg) - n) : _tmpMsg'[i] = _tmpMsg[n + i]
  BY <1>1, <1>2, <1>3, Divided
<1>5. [frame |-> Take(_tmpMsg, n), read |-> FALSE] \in Mail
  BY <1>4 DEF Mail
<1>6. /\ _msgs' \in Seq(Mail) /\ Len(_msgs') = Len(_msgs) + 1
      /\ \A i \in 1..Len(_msgs) : _msgs'[i] = _msgs[i]
      /\ _msgs'[Len(_msgs) + 1].frame = Take(_tmpMsg, n)
  BY <1>1, <1>2, <1>5, Appended
<1> QED BY <1>1, <1>3, <1>4, <1>6

\* What dispatchCall does to the history.
LEMMA Showing ==
  ASSUME UpdateOK, dispatchCall
  PROVE  /\ next \in 1..Len(_msgs) /\ UNCHANGED <<_msgs, next, turn, jammed>>
         /\ pc = "dispatch" /\ pc' = "callback"
         /\ seen' \in Seq(Seq(Units)) /\ Len(seen') >= Len(seen)
         /\ \A i \in 1..Len(seen) : seen'[i] = seen[i]
         /\ turn # 1 => seen' = seen /\ again' = again
         /\ turn = 1 => \/ _msgs[next].frame \in Range(seen) /\ seen' = seen
                        \/ /\ Len(seen') = Len(seen) + 1 /\ again' = again
                           /\ seen'[Len(seen) + 1] = _msgs[next].frame
<1>1. /\ next \in 1..Len(_msgs) /\ _msgs \in Seq(Mail) /\ seen \in Seq(Seq(Units))
      /\ UNCHANGED <<_msgs, next, turn, jammed>>
      /\ pc = "dispatch" /\ pc' = "callback"
  BY DEF UpdateOK, dispatchCall, Dispatching
<1>2. _msgs[next] \in Mail
  BY <1>1
<1>3. _msgs[next].frame \in Seq(Units)
  BY <1>2 DEF Mail
<1>4. \/ seen' = seen /\ again' = again /\ turn # 1
      \/ _msgs[next].frame \in Range(seen) /\ seen' = seen /\ turn = 1
      \/ seen' = Append(seen, _msgs[next].frame) /\ again' = again /\ turn = 1
  BY DEF dispatchCall, Show, Current
<1>5. CASE seen' = Append(seen, _msgs[next].frame) /\ again' = again /\ turn = 1
  <2>1. /\ Len(seen) \in Nat /\ seen' \in Seq(Seq(Units)) /\ Len(seen') = Len(seen) + 1
        /\ \A i \in 1..Len(seen) : seen'[i] = seen[i]
        /\ seen'[Len(seen) + 1] = _msgs[next].frame
    BY <1>1, <1>3, <1>5, Appended
  <2>2. Len(seen') >= Len(seen)
    BY <2>1
  <2> QED BY <1>1, <1>5, <2>1, <2>2
<1>6. CASE seen' = seen
  <2>1. Len(seen') >= Len(seen)
    BY <1>1, <1>6
  <2> QED BY <1>1, <1>4, <1>6, <2>1
<1> QED BY <1>4, <1>5, <1>6

LEMMA UpdateOKStep ==
  ASSUME LinkOK, UpdateOK, [Next]_vars
  PROVE  UpdateOK'
<1>1. CASE UNCHANGED <<_msgs, seen, again>>
  <2>1. CASE UNCHANGED <<pc, next, turn>>
    BY <1>1, <2>1 DEF UpdateOK
  <2>2. CASE pc' # "callback" /\ next' \in {next, next + 1, 1} /\ turn' \in {turn, 1}
    BY <1>1, <2>2 DEF UpdateOK
  <2>3. CASE PeerStep \/ connect \/ connectFails \/ disconnect \/ UNCHANGED vars
    BY <2>1, <2>3 DEF PeerStep, PeerSend, PeerClose, PeerReset, connect, connectFails, disconnect,
                client, vars
  <2>4. CASE \/ updateRefused \/ update \/ selectReady \/ selectTimeout \/ recvBytes
             \/ recvAgain \/ recvEnd \/ recvFails \/ parseEnds \/ dispatchSkip
             \/ dispatchExhausted
    <3>1. \/ UNCHANGED <<pc, next, turn>>
          \/ pc' # "callback" /\ next' \in {next, next + 1, 1} /\ turn' \in {turn, 1}
      BY <2>4 DEF updateRefused, update, selectReady, selectTimeout, recvBytes, recvAgain, recvEnd,
         recvFails, parseEnds, dispatchSkip, dispatchExhausted, client, Dispatching
    <3> QED BY <2>1, <2>2, <3>1
  <2>5. CASE parseMessage \/ dispatchEnds
    BY <1>1, <2>5, <2>1, <2>2 DEF parseMessage, dispatchEnds
  <2>6. CASE dispatchCall
    <3>1. next \in 1..Len(_msgs) /\ UNCHANGED <<next, turn>>
      BY <2>6, Showing
    <3> QED BY <1>1, <3>1 DEF UpdateOK
  <2>7. CASE callbackReturns \/ callbackThrows
    <3>1. pc' # "callback" /\ next' \in {next, next + 1} /\ turn' \in {turn, turn + 1, 1}
      BY <2>7 DEF callbackReturns, callbackThrows
    <3> QED BY <1>1, <3>1 DEF UpdateOK
  <2> QED BY <2>3, <2>4, <2>5, <2>6, <2>7 DEF Next, UpdateStep
<1>2. CASE parseMessage
  <2>1. _msgs' \in Seq(Mail) /\ UNCHANGED <<next, turn, seen>> /\ pc' # "callback"
    BY <1>2, Parsing DEF parseMessage, log
  <2> QED BY <2>1 DEF UpdateOK
<1>3. CASE dispatchEnds
  <2>1. _msgs' \in Seq(Mail) /\ UNCHANGED <<next, turn, seen>> /\ pc' # "callback"
    BY <1>3 DEF dispatchEnds, Remaining, log
  <2> QED BY <2>1 DEF UpdateOK
<1>4. CASE callbackReturns \/ callbackThrows
  <2>1. /\ pc' # "callback" /\ next' \in {next, next + 1} /\ turn' \in {turn, turn + 1, 1}
        /\ seen' = seen
    BY <1>4 DEF callbackReturns, callbackThrows, log
  <2>2. _msgs' \in Seq(Mail)
    BY <1>4, Marking
  <2> QED BY <2>1, <2>2 DEF UpdateOK
<1>5. CASE dispatchCall
  <2>1. /\ next \in 1..Len(_msgs) /\ UNCHANGED <<_msgs, next, turn>>
        /\ seen' \in Seq(Seq(Units))
    BY <1>5, Showing
  <2> QED BY <2>1 DEF UpdateOK
<1> QED BY <1>1, <1>2, <1>3, <1>4, <1>5, Queueing

-------------------------------------------------------------------------------
(***************************************************************************)
(* How units move: the peer adds those of a new message, the network loses *)
(* the last ones, recv takes the first ones, parsing takes the first ones. *)
(***************************************************************************)
Adds(m) ==
  /\ peer = "open" /\ conns \in Conns /\ m \notin Sent
  /\ sent' = [sent EXCEPT ![conns] = Append(sent[conns], m)]
  /\ Len(wire') = Len(wire) + Header + Size[m]
  /\ \A i \in 1..Len(wire) : wire'[i] = wire[i]
  /\ \A i \in 1..(Header + Size[m]) : wire'[Len(wire) + i] = [msg |-> m, at |-> i]
  /\ UNCHANGED <<_tmpMsg, _msgs, seen, pc, next, turn, conns, clean, peer>>

Loses(n) ==
  /\ Len(wire') = n /\ \A i \in 1..n : wire'[i] = wire[i]
  /\ sent' = sent /\ _tmpMsg' = _tmpMsg
  /\ \/ connect
     \/ UNCHANGED <<conns, clean>> /\ (peer' = "open" => peer = "open" /\ wire' = wire)

Receives(n) ==
  /\ Len(wire') = Len(wire) - n
  /\ \A i \in 1..(Len(wire) - n) : wire'[i] = wire[n + i]
  /\ Len(_tmpMsg') = Len(_tmpMsg) + n
  /\ \A i \in 1..Len(_tmpMsg) : _tmpMsg'[i] = _tmpMsg[i]
  /\ \A i \in 1..n : _tmpMsg'[Len(_tmpMsg) + i] = wire[i]
  /\ UNCHANGED <<sent, _msgs, seen, conns, clean, peer>>

Takes(n) ==
  /\ CompleteWith(_tmpMsg, n)
  /\ Len(_tmpMsg') = Len(_tmpMsg) - n
  /\ \A i \in 1..(Len(_tmpMsg) - n) : _tmpMsg'[i] = _tmpMsg[n + i]
  /\ _msgs' \in Seq(Mail) /\ Len(_msgs') = Len(_msgs) + 1
  /\ \A i \in 1..Len(_msgs) : _msgs'[i] = _msgs[i]
  /\ Len(_msgs'[Len(_msgs) + 1].frame) = n
  /\ \A i \in 1..n : _msgs'[Len(_msgs) + 1].frame[i] = _tmpMsg[i]
  /\ _msgs'[Len(_msgs) + 1].frame \in Seq(Units)
  /\ pc = "parse" /\ UNCHANGED <<wire, sent, seen, pc, conns, clean, peer>>

LEMMA ParsingTakes ==
  ASSUME LinkOK, UpdateOK, parseMessage
  PROVE  \E n \in 2..Len(_tmpMsg) : Takes(n)
BY Parsing DEF parseMessage, Takes, link, log

LEMMA Flow ==
  ASSUME LinkOK, UpdateOK, [Next]_vars
  PROVE  \/ \E m \in Msgs : Adds(m)
         \/ \E n \in 0..Len(wire) : Loses(n) /\ ~parseMessage
         \/ \E n \in 1..Len(wire) : Receives(n) /\ ~parseMessage
         \/ \E n \in 2..Len(_tmpMsg) : Takes(n)
<1>0. _tmpMsg \in Seq(Units) /\ wire \in Seq(Units) /\ Len(wire) \in Nat
  BY DEF LinkOK
<1>1. ASSUME NEW m \in Msgs, PeerSend(m) PROVE Adds(m)
  <2>1. /\ Bytes(m) \in Seq(Units) /\ Len(Bytes(m)) = Header + Size[m]
        /\ \A i \in 1..(Header + Size[m]) : Bytes(m)[i] = [msg |-> m, at |-> i]
        /\ Header + Size[m] \in Nat
    BY BytesOfMessage
  <2>2. /\ wire' = wire \o Bytes(m)
        /\ Len(wire') = Len(wire) + (Header + Size[m])
        /\ \A i \in 1..Len(wire) : wire'[i] = wire[i]
        /\ \A i \in 1..(Header + Size[m]) : wire'[Len(wire) + i] = Bytes(m)[i]
    <3>1. PICK t, z : t = Bytes(m) /\ z = Header + Size[m]
      OBVIOUS
    <3>2. /\ Len(wire \o t) = Len(wire) + Len(t)
          /\ \A i \in 1..Len(wire) : (wire \o t)[i] = wire[i]
          /\ \A i \in 1..Len(t) : (wire \o t)[Len(wire) + i] = t[i]
      BY <1>0, <2>1, <3>1, Joined
    <3>3. wire' = wire \o t
      BY <1>1, <3>1 DEF PeerSend
    <3> QED BY <2>1, <3>1, <3>2, <3>3, Zenon
  <2>3. Len(wire') = Len(wire) + Header + Size[m]
    BY <1>0, <2>2, SizeAssumption DEF Header
  <2> QED BY <1>1, <2>1, <2>2, <2>3 DEF PeerSend, Adds, client, log, LinkOK
<1>2. CASE PeerReset
  <2>1. PICK n \in 0..Len(wire) : wire' = Take(wire, n)
    BY <1>2 DEF PeerReset
  <2>2. Len(wire') = n /\ \A i \in 1..n : wire'[i] = wire[i]
    BY <1>0, <2>1, Divided
  <2>3. ~parseMessage
    BY <1>2 DEF PeerReset, parseMessage, link
  <2> QED BY <1>2, <2>2, <2>3 DEF PeerReset, Loses, client
<1>3. CASE recvBytes
  <2>1. PICK n \in 1..Len(wire) : _tmpMsg' = _tmpMsg \o Take(wire, n) /\ wire' = Drop(wire, n)
    BY <1>3 DEF recvBytes
  <2>2. n \in 0..Len(wire)
    BY <1>0
  <2>3. /\ Take(wire, n) \in Seq(Units) /\ Len(Take(wire, n)) = n
        /\ \A i \in 1..n : Take(wire, n)[i] = wire[i]
        /\ Len(wire') = Len(wire) - n
        /\ \A i \in 1..(Len(wire) - n) : wire'[i] = wire[n + i]
    BY <1>0, <2>1, <2>2, Divided
  <2>4. /\ Len(_tmpMsg') = Len(_tmpMsg) + n
        /\ \A i \in 1..Len(_tmpMsg) : _tmpMsg'[i] = _tmpMsg[i]
        /\ \A i \in 1..n : _tmpMsg'[Len(_tmpMsg) + i] = Take(wire, n)[i]
    <3>1. PICK t : t = Take(wire, n)
      OBVIOUS
    <3>2. /\ Len(_tmpMsg \o t) = Len(_tmpMsg) + Len(t)
          /\ \A i \in 1..Len(_tmpMsg) : (_tmpMsg \o t)[i] = _tmpMsg[i]
          /\ \A i \in 1..Len(t) : (_tmpMsg \o t)[Len(_tmpMsg) + i] = t[i]
      BY <1>0, <2>3, <3>1, Joined
    <3> QED BY <2>1, <2>3, <3>1, <3>2, Zenon
  <2>5. ~parseMessage
    BY <1>3 DEF recvBytes, parseMessage
  <2> QED BY <1>3, <2>3, <2>4, <2>5 DEF recvBytes, Receives, log
<1>4. CASE parseMessage
  BY <1>4, ParsingTakes
<1>5. CASE \/ connect
           \/ wire' = <<>> /\ peer' = "none" /\ UNCHANGED <<_tmpMsg, conns, sent, clean>>
  <2>1. CASE ~parseMessage
    <3>1. Loses(0)
      BY <1>5 DEF Loses, connect
    <3> QED BY <1>0, <2>1, <3>1
  <2> QED BY <1>4, <2>1
<1>6. CASE /\ peer' # "open" \/ peer' = peer
           /\ UNCHANGED <<_tmpMsg, wire, conns, sent, clean>> /\ ~parseMessage
  <2>1. Loses(Len(wire))
    BY <1>6 DEF Loses
  <2> QED BY <1>0, <1>6, <2>1
<1> QED BY <1>1, <1>2, <1>3, <1>4, <1>5, <1>6, Traffic

\* The new message is the last of its connection.
LEMMA Addition ==
  ASSUME LinkOK, NEW m \in Msgs, Adds(m)
  PROVE  /\ m \in Sent'
         /\ sent[conns] \in Seq(Msgs)
         /\ \A c \in Conns : c # conns => sent'[c] = sent[c]
         /\ Len(sent'[conns]) = Len(sent[conns]) + 1
         /\ sent'[conns][Len(sent[conns]) + 1] = m
         /\ \A i \in 1..Len(sent[conns]) : sent'[conns][i] = sent[conns][i]
         /\ Range(sent'[conns]) = Range(sent[conns]) \union {m}
<1>1. conns \in Conns /\ sent' = [sent EXCEPT ![conns] = Append(sent[conns], m)]
  BY DEF Adds
<1>2. /\ sent[conns] \in Seq(Msgs) /\ sent'[conns] = Append(sent[conns], m)
      /\ \A c \in Conns : c # conns => sent'[c] = sent[c]
  BY <1>1 DEF LinkOK
<1>3. /\ Len(sent[conns]) \in Nat /\ sent'[conns] \in Seq(Msgs)
      /\ Len(sent'[conns]) = Len(sent[conns]) + 1
      /\ \A i \in 1..Len(sent[conns]) : sent'[conns][i] = sent[conns][i]
      /\ sent'[conns][Len(sent[conns]) + 1] = m
  BY <1>2, Appended
<1>4. Range(sent'[conns]) = Range(sent[conns]) \union {m}
  <2>1. PICK s, t, z : s = sent[conns] /\ t = sent'[conns] /\ z = Len(s) + 1
    OBVIOUS
  <2>2. DOMAIN t = DOMAIN s \union {z}
    BY <1>2, <1>3, <2>1
  <2>3. t[z] = m /\ \A i \in DOMAIN s : t[i] = s[i]
    BY <1>2, <1>3, <2>1
  <2>4. Range(t) = Range(s) \union {m}
    BY <2>2, <2>3 DEF Range
  <2> QED BY <2>1, <2>4
<1>5. m \in Sent'
  BY <1>1, <1>4 DEF Sent
<1> QED BY <1>2, <1>3, <1>4, <1>5

\* What has been sent stays sent.
LEMMA SentGrows ==
  ASSUME LinkOK, UpdateOK, [Next]_vars
  PROVE  /\ Sent \subseteq Sent'
         /\ \A c \in Conns : Range(sent[c]) \subseteq Range(sent'[c])
<1>1. \A c \in Conns : Range(sent[c]) \subseteq Range(sent'[c])
  <2>1. ASSUME NEW m \in Msgs, Adds(m)
        PROVE  \A c \in Conns : Range(sent[c]) \subseteq Range(sent'[c])
    BY <2>1, Addition
  <2>2. CASE sent' = sent
    BY <2>2
  <2> QED BY <2>1, <2>2, Flow DEF Loses, Receives, Takes
<1>2. Sent \subseteq Sent'
  BY <1>1 DEF Sent
<1> QED BY <1>1, <1>2

\* When nothing is parsed the queue holds what it held, or nothing, and what is
\* shown was shown before or is the message that update() has come to.
LEMMA Handling ==
  ASSUME UpdateOK, [Next]_vars, ~parseMessage
  PROVE  /\ \A i \in 1..Len(_msgs') : i \in 1..Len(_msgs) /\ _msgs'[i].frame = _msgs[i].frame
         /\ \A i \in 1..Len(seen') :
              \/ i \in 1..Len(seen) /\ seen'[i] = seen[i]
              \/ next \in 1..Len(_msgs) /\ seen'[i] = _msgs[next].frame
<1>0. _msgs \in Seq(Mail) /\ seen \in Seq(Seq(Units))
  BY DEF UpdateOK
<1>1. CASE dispatchEnds
  <2>1. Len(_msgs') = 0 /\ seen' = seen
    BY <1>1 DEF dispatchEnds, Remaining, log
  <2> QED BY <2>1
<1>2. CASE callbackReturns \/ callbackThrows
  <2>1. SameFrames /\ seen' = seen
    BY <1>2, Marking DEF callbackReturns, callbackThrows, log
  <2> QED BY <2>1 DEF SameFrames
<1>3. CASE dispatchCall
  <2>1. /\ next \in 1..Len(_msgs) /\ _msgs' = _msgs
        /\ \A i \in 1..Len(seen) : seen'[i] = seen[i]
        /\ \/ seen' = seen
           \/ Len(seen') = Len(seen) + 1 /\ seen'[Len(seen) + 1] = _msgs[next].frame
    BY <1>3, Showing
  <2>2. \A i \in 1..(Len(seen) + 1) : i \in 1..Len(seen) \/ i = Len(seen) + 1
    BY <1>0
  <2> QED BY <2>1, <2>2
<1>4. CASE UNCHANGED <<_msgs, seen, again>>
  BY <1>4
<1> QED BY <1>1, <1>2, <1>3, <1>4, Queueing

LEMMA AddsOrigin ==
  ASSUME LinkOK, NEW m \in Msgs, Adds(m), NEW i \in 1..Len(wire')
  PROVE  \/ i \in 1..Len(wire) /\ wire'[i] = wire[i]
         \/ \E j \in 1..(Header + Size[m]) :
              /\ i = Len(wire) + j /\ wire'[i] = [msg |-> m, at |-> j]
              /\ wire'[i].msg = m /\ wire'[i].at = j
<1>1. Len(wire) \in Nat /\ Header + Size[m] \in Nat
  BY SizeAssumption DEF LinkOK, Header
<1>2. Len(wire') = Len(wire) + (Header + Size[m])
  BY <1>1, SizeAssumption DEF Adds, Header
<1>3. i \in 1..Len(wire) \/ \E j \in 1..(Header + Size[m]) : i = Len(wire) + j
  <2>1. PICK k, z : k = Len(wire) /\ z = Header + Size[m]
    OBVIOUS
  <2>2. k \in Nat /\ z \in Nat /\ i \in 1..(k + z)
    BY <1>1, <1>2, <2>1
  <2>3. i \in 1..k \/ \E j \in 1..z : i = k + j
    BY <2>2, Split
  <2> QED BY <2>1, <2>3
<1>4. CASE i \in 1..Len(wire)
  BY <1>4 DEF Adds
<1>5. ASSUME NEW j \in 1..(Header + Size[m]), i = Len(wire) + j
      PROVE  wire'[i] = [msg |-> m, at |-> j] /\ wire'[i].msg = m /\ wire'[i].at = j
  <2>1. wire'[i] = [msg |-> m, at |-> j]
    BY <1>5 DEF Adds
  <2> QED BY <2>1
<1>6. CASE \E j \in 1..(Header + Size[m]) : i = Len(wire) + j
  <2>1. PICK j \in 1..(Header + Size[m]) : i = Len(wire) + j
    BY <1>6
  <2>2. wire'[i] = [msg |-> m, at |-> j] /\ wire'[i].msg = m /\ wire'[i].at = j
    BY <1>5, <2>1
  <2> QED BY <2>1, <2>2
<1> QED BY <1>3, <1>4, <1>6

LEMMA ReceivesOrigin ==
  ASSUME LinkOK, NEW n \in 1..Len(wire), Receives(n)
  PROVE  /\ \A i \in 1..Len(_tmpMsg') :
              \/ i \in 1..Len(_tmpMsg) /\ _tmpMsg'[i] = _tmpMsg[i]
              \/ \E j \in 1..n : /\ j \in 1..Len(wire) /\ i = Len(_tmpMsg) + j
                                 /\ _tmpMsg'[i] = wire[j]
         /\ \A i \in 1..Len(wire') : n + i \in 1..Len(wire) /\ wire'[i] = wire[n + i]
<1>1. Len(wire) \in Nat /\ Len(_tmpMsg) \in Nat /\ n \in Nat
  BY DEF LinkOK
<1>2. ASSUME NEW i \in 1..Len(_tmpMsg')
      PROVE  i \in 1..Len(_tmpMsg) \/ \E j \in 1..n : i = Len(_tmpMsg) + j
  <2>1. Len(_tmpMsg') = Len(_tmpMsg) + n
    BY DEF Receives
  <2> QED BY <1>1, <2>1, Split
<1>3. \A j \in 1..n : j \in 1..Len(wire)
  BY <1>1
<1>4. \A i \in 1..(Len(wire) - n) : n + i \in 1..Len(wire)
  BY <1>1
<1> QED BY <1>2, <1>3, <1>4 DEF Receives

LEMMA TakesOrigin ==
  ASSUME LinkOK, UpdateOK, NEW n \in 2..Len(_tmpMsg), Takes(n)
  PROVE  /\ \A i \in 1..Len(_tmpMsg') :
              n + i \in 1..Len(_tmpMsg) /\ _tmpMsg'[i] = _tmpMsg[n + i]
         /\ \A i \in 1..Len(_msgs') : \/ i \in 1..Len(_msgs) /\ _msgs'[i] = _msgs[i]
                                      \/ i = Len(_msgs) + 1
         /\ 1 \in 1..Len(_tmpMsg) /\ n \in 1..Len(_tmpMsg) /\ Len(_msgs) \in Nat
         /\ _msgs'[Len(_msgs) + 1].frame[1] = _tmpMsg[1]
         /\ Last(_msgs'[Len(_msgs) + 1].frame) = _tmpMsg[n]
<1>1. Len(_tmpMsg) \in Nat /\ Len(_msgs) \in Nat
  BY DEF LinkOK, UpdateOK
<1>2. \A i \in 1..(Len(_tmpMsg) - n) : n + i \in 1..Len(_tmpMsg)
  BY <1>1
<1>3. \A i \in 1..(Len(_msgs) + 1) : i \in 1..Len(_msgs) \/ i = Len(_msgs) + 1
  BY <1>1
<1>4. 1 \in 1..n /\ n \in 1..n /\ 1 \in 1..Len(_tmpMsg) /\ n \in 1..Len(_tmpMsg)
  BY <1>1
<1> QED BY <1>1, <1>2, <1>3, <1>4 DEF Takes, Last

LEMMA LosesOrigin ==
  ASSUME LinkOK, NEW n \in 0..Len(wire), Loses(n), NEW i \in 1..Len(wire')
  PROVE  i \in 1..Len(wire) /\ wire'[i] = wire[i]
BY DEF LinkOK, Loses

-------------------------------------------------------------------------------
(***************************************************************************)
(* No frame is shown twice.                                                *)
(***************************************************************************)
Known(f) == f[1].msg \in Sent /\ Last(f).msg \in Sent

\* Every unit is of a message that was sent.
KnownInv ==
  /\ \A i \in 1..Len(wire) : wire[i].msg \in Sent
  /\ \A i \in 1..Len(_tmpMsg) : _tmpMsg[i].msg \in Sent
  /\ \A i \in 1..Len(_msgs) : Known(_msgs[i].frame)
  /\ \A i \in 1..Len(seen) : Known(seen[i])

LEMMA KnownStep ==
  ASSUME LinkOK, UpdateOK, KnownInv, [Next]_vars
  PROVE  KnownInv'
<1>0. Sent \subseteq Sent' /\ \A f : Known(f) => (f[1].msg \in Sent' /\ Last(f).msg \in Sent')
  BY SentGrows DEF Known
<1>1. ASSUME NEW m \in Msgs, Adds(m) PROVE KnownInv'
  <2>1. m \in Sent' /\ UNCHANGED <<_tmpMsg, _msgs, seen>>
    BY <1>1, Addition DEF Adds
  <2>2. ASSUME NEW i \in 1..Len(wire') PROVE wire'[i].msg \in Sent'
    <3>1. \/ i \in 1..Len(wire) /\ wire'[i] = wire[i]
          \/ wire'[i].msg = m
      BY <1>1, AddsOrigin
    <3>2. CASE i \in 1..Len(wire) /\ wire'[i] = wire[i]
      BY <1>0, <3>2 DEF KnownInv
    <3>3. CASE wire'[i].msg = m
      BY <2>1, <3>3
    <3> QED BY <3>1, <3>2, <3>3
  <2> QED BY <1>0, <2>1, <2>2 DEF KnownInv, Known
<1>2. ASSUME NEW n \in 0..Len(wire), Loses(n), ~parseMessage PROVE KnownInv'
  <2>1. \A i \in 1..Len(_msgs') : Known(_msgs'[i].frame)
    BY <1>2, Handling DEF KnownInv
  <2>2. \A i \in 1..Len(seen') : Known(seen'[i])
    BY <1>2, Handling DEF KnownInv
  <2>3. \A i \in 1..Len(wire') : i \in 1..Len(wire) /\ wire'[i] = wire[i]
    BY <1>2, LosesOrigin
  <2> QED BY <1>0, <1>2, <2>1, <2>2, <2>3 DEF KnownInv, Known, Loses
<1>3. ASSUME NEW n \in 1..Len(wire), Receives(n) PROVE KnownInv'
  <2>1. \A i \in 1..Len(_tmpMsg') : _tmpMsg'[i].msg \in Sent
    BY <1>3, ReceivesOrigin DEF KnownInv
  <2>2. \A i \in 1..Len(wire') : wire'[i].msg \in Sent
    BY <1>3, ReceivesOrigin DEF KnownInv
  <2> QED BY <1>0, <1>3, <2>1, <2>2 DEF KnownInv, Known, Receives
<1>4. ASSUME NEW n \in 2..Len(_tmpMsg), Takes(n) PROVE KnownInv'
  <2>1. \A i \in 1..Len(_tmpMsg') : _tmpMsg'[i].msg \in Sent
    BY <1>4, TakesOrigin DEF KnownInv
  <2>2. \A i \in 1..Len(_msgs') : Known(_msgs'[i].frame)
    BY <1>4, TakesOrigin DEF KnownInv, Known
  <2> QED BY <1>0, <1>4, <2>1, <2>2 DEF KnownInv, Known, Takes
<1> QED BY <1>1, <1>2, <1>3, <1>4, Flow

\* No unit is on its way or received twice.
ApartInv ==
  /\ \A i, j \in 1..Len(wire) : wire[i] = wire[j] => i = j
  /\ \A i, j \in 1..Len(_tmpMsg) : _tmpMsg[i] = _tmpMsg[j] => i = j
  /\ \A i \in 1..Len(wire) : \A j \in 1..Len(_tmpMsg) : wire[i] # _tmpMsg[j]

LEMMA ApartStep ==
  ASSUME LinkOK, UpdateOK, KnownInv, ApartInv, [Next]_vars
  PROVE  ApartInv'
<1>0. Len(wire) \in Nat /\ Len(_tmpMsg) \in Nat
  BY DEF LinkOK
<1>1. ASSUME NEW m \in Msgs, Adds(m) PROVE ApartInv'
  <2>0. m \notin Sent /\ _tmpMsg' = _tmpMsg
    BY <1>1 DEF Adds
  <2>1. ASSUME NEW i \in 1..Len(wire'), NEW j \in 1..Len(wire'), wire'[i] = wire'[j]
        PROVE  i = j
    <3>1. \/ i \in 1..Len(wire) /\ wire'[i] = wire[i]
          \/ \E k \in 1..(Header + Size[m]) :
               i = Len(wire) + k /\ wire'[i].msg = m /\ wire'[i].at = k
      BY <1>1, AddsOrigin
    <3>2. \/ j \in 1..Len(wire) /\ wire'[j] = wire[j]
          \/ \E k \in 1..(Header + Size[m]) :
               j = Len(wire) + k /\ wire'[j].msg = m /\ wire'[j].at = k
      BY <1>1, AddsOrigin
    <3> QED BY <2>0, <2>1, <3>1, <3>2 DEF KnownInv, ApartInv
  <2>2. ASSUME NEW i \in 1..Len(wire'), NEW j \in 1..Len(_tmpMsg) PROVE wire'[i] # _tmpMsg[j]
    <3>1. \/ i \in 1..Len(wire) /\ wire'[i] = wire[i]
          \/ wire'[i].msg = m
      BY <1>1, AddsOrigin
    <3> QED BY <2>0, <3>1 DEF KnownInv, ApartInv
  <2> QED BY <2>0, <2>1, <2>2 DEF ApartInv
<1>2. ASSUME NEW n \in 0..Len(wire), Loses(n) PROVE ApartInv'
  <2>1. \A i \in 1..Len(wire') : i \in 1..Len(wire) /\ wire'[i] = wire[i]
    BY <1>2, LosesOrigin
  <2> QED BY <1>2, <2>1 DEF ApartInv, Loses
<1>3. ASSUME NEW n \in 1..Len(wire), Receives(n) PROVE ApartInv'
  <2>1. \A i \in 1..Len(wire') : n + i \in 1..Len(wire) /\ wire'[i] = wire[n + i]
    BY <1>3, ReceivesOrigin
  <2>2. \A i \in 1..Len(_tmpMsg') :
          \/ i \in 1..Len(_tmpMsg) /\ _tmpMsg'[i] = _tmpMsg[i]
          \/ \E k \in 1..n : /\ k \in 1..Len(wire) /\ i = Len(_tmpMsg) + k
                             /\ _tmpMsg'[i] = wire[k]
    BY <1>3, ReceivesOrigin
  <2>3. ASSUME NEW i \in 1..Len(wire'), NEW j \in 1..Len(wire'), wire'[i] = wire'[j]
        PROVE  i = j
    <3>1. n + i = n + j
      BY <2>1, <2>3 DEF ApartInv
    <3> QED BY <3>1
  <2>4. ASSUME NEW i \in 1..Len(_tmpMsg'), NEW j \in 1..Len(_tmpMsg'), _tmpMsg'[i] = _tmpMsg'[j]
        PROVE  i = j
    BY <2>2, <2>4 DEF ApartInv
  <2>5. ASSUME NEW i \in 1..Len(wire'), NEW j \in 1..Len(_tmpMsg') PROVE wire'[i] # _tmpMsg'[j]
    <3>1. ASSUME NEW k \in 1..n PROVE n + i # k
      OBVIOUS
    <3>2. n + i \in 1..Len(wire) /\ wire'[i] = wire[n + i]
      BY <2>1
    <3>3. CASE j \in 1..Len(_tmpMsg) /\ _tmpMsg'[j] = _tmpMsg[j]
      BY <3>2, <3>3 DEF ApartInv
    <3>4. ASSUME NEW k \in 1..n, k \in 1..Len(wire), _tmpMsg'[j] = wire[k]
          PROVE  wire'[i] # _tmpMsg'[j]
      BY <3>1, <3>2, <3>4 DEF ApartInv
    <3> QED BY <2>2, <3>3, <3>4, Zenon
  <2> QED BY <2>3, <2>4, <2>5 DEF ApartInv
<1>4. ASSUME NEW n \in 2..Len(_tmpMsg), Takes(n) PROVE ApartInv'
  <2>1. /\ \A i \in 1..Len(_tmpMsg') :
             n + i \in 1..Len(_tmpMsg) /\ _tmpMsg'[i] = _tmpMsg[n + i]
        /\ wire' = wire
    BY <1>4, TakesOrigin DEF Takes
  <2>2. ASSUME NEW i \in 1..Len(_tmpMsg'), NEW j \in 1..Len(_tmpMsg'), _tmpMsg'[i] = _tmpMsg'[j]
        PROVE  i = j
    <3>1. n + i = n + j
      BY <2>1, <2>2 DEF ApartInv
    <3> QED BY <3>1
  <2> QED BY <2>1, <2>2 DEF ApartInv
<1> QED BY <1>1, <1>2, <1>3, <1>4, Flow

\* What begins a frame is no longer in the buffer, and begins no other frame.
Taken(f) ==
  /\ \A i \in 1..Len(wire) : wire[i] # f[1]
  /\ \A i \in 1..Len(_tmpMsg) : _tmpMsg[i] # f[1]

TakenInv ==
  /\ \A i \in 1..Len(_msgs) : Taken(_msgs[i].frame)
  /\ \A i \in 1..Len(seen) : Taken(seen[i])
  /\ \A i, j \in 1..Len(_msgs) : _msgs[i].frame[1] = _msgs[j].frame[1] => i = j

LEMMA TakenStep ==
  ASSUME LinkOK, UpdateOK, KnownInv, ApartInv, TakenInv, [Next]_vars
  PROVE  TakenInv'
<1>1. ASSUME NEW m \in Msgs, Adds(m) PROVE TakenInv'
  <2>0. m \notin Sent /\ UNCHANGED <<_tmpMsg, _msgs, seen>>
    BY <1>1 DEF Adds
  <2>1. ASSUME NEW f, Taken(f), Known(f), NEW i \in 1..Len(wire') PROVE wire'[i] # f[1]
    <3>1. \/ i \in 1..Len(wire) /\ wire'[i] = wire[i]
          \/ wire'[i].msg = m
      BY <1>1, AddsOrigin
    <3> QED BY <2>0, <2>1, <3>1 DEF Known, Taken
  <2> QED BY <2>0, <2>1 DEF TakenInv, Taken, KnownInv
<1>2. ASSUME NEW n \in 0..Len(wire), Loses(n), ~parseMessage PROVE TakenInv'
  <2>1. \A i \in 1..Len(wire') : i \in 1..Len(wire) /\ wire'[i] = wire[i]
    BY <1>2, LosesOrigin
  <2>2. ASSUME NEW f, Taken(f)
        PROVE  /\ \A i \in 1..Len(wire') : wire'[i] # f[1]
               /\ \A i \in 1..Len(_tmpMsg') : _tmpMsg'[i] # f[1]
    BY <1>2, <2>1, <2>2 DEF Taken, Loses
  <2>3. \A i \in 1..Len(_msgs') : i \in 1..Len(_msgs) /\ _msgs'[i].frame = _msgs[i].frame
    BY <1>2, Handling
  <2>4. \A i \in 1..Len(seen') : Taken(seen'[i])
    BY <1>2, Handling DEF TakenInv
  <2>5. \A i \in 1..Len(_msgs') : Taken(_msgs'[i].frame)
    BY <2>3 DEF TakenInv
  <2> QED BY <2>2, <2>3, <2>4, <2>5 DEF TakenInv, Taken
<1>3. ASSUME NEW n \in 1..Len(wire), Receives(n) PROVE TakenInv'
  <2>1. ASSUME NEW f, Taken(f)
        PROVE  /\ \A i \in 1..Len(wire') : wire'[i] # f[1]
               /\ \A i \in 1..Len(_tmpMsg') : _tmpMsg'[i] # f[1]
    <3>1. \A i \in 1..Len(wire') : n + i \in 1..Len(wire) /\ wire'[i] = wire[n + i]
      BY <1>3, ReceivesOrigin
    <3>2. \A i \in 1..Len(_tmpMsg') :
            \/ i \in 1..Len(_tmpMsg) /\ _tmpMsg'[i] = _tmpMsg[i]
            \/ \E j \in 1..Len(wire) : _tmpMsg'[i] = wire[j]
      BY <1>3, ReceivesOrigin, Zenon
    <3>3. /\ \A i \in 1..Len(wire) : wire[i] # f[1]
          /\ \A i \in 1..Len(_tmpMsg) : _tmpMsg[i] # f[1]
      BY <2>1 DEF Taken
    <3>4. ASSUME NEW i \in 1..Len(wire') PROVE wire'[i] # f[1]
      BY <3>1, <3>3
    <3>5. ASSUME NEW i \in 1..Len(_tmpMsg') PROVE _tmpMsg'[i] # f[1]
      BY <3>2, <3>3
    <3> QED BY <3>4, <3>5
  <2>2. \A f : Taken(f) => Taken(f)'
    BY <2>1 DEF Taken
  <2>3. _msgs' = _msgs /\ seen' = seen
    BY <1>3 DEF Receives
  <2>4. /\ \A i \in 1..Len(_msgs) : Taken(_msgs[i].frame)
        /\ \A i \in 1..Len(seen) : Taken(seen[i])
        /\ \A i, j \in 1..Len(_msgs) : _msgs[i].frame[1] = _msgs[j].frame[1] => i = j
    BY DEF TakenInv
  <2>5. /\ \A i \in 1..Len(_msgs') : Taken(_msgs[i].frame)'
        /\ \A i \in 1..Len(seen') : Taken(seen[i])'
    <3>1. ASSUME NEW i \in 1..Len(_msgs') PROVE Taken(_msgs[i].frame)'
      <4>1. PICK f : f = _msgs[i].frame /\ f = _msgs'[i].frame
        BY <2>3
      <4>2. Taken(f)'
        BY <2>2, <2>3, <2>4, <4>1
      <4> QED BY <4>1, <4>2
    <3>2. ASSUME NEW i \in 1..Len(seen') PROVE Taken(seen[i])'
      <4>1. PICK f : f = seen[i] /\ f = seen'[i]
        BY <2>3
      <4>2. Taken(f)'
        BY <2>2, <2>3, <2>4, <4>1
      <4> QED BY <4>1, <4>2
    <3> QED BY <3>1, <3>2
  <2> QED BY <2>3, <2>4, <2>5 DEF TakenInv
<1>4. ASSUME NEW n \in 2..Len(_tmpMsg), Takes(n) PROVE TakenInv'
  <2>1. /\ \A i \in 1..Len(_tmpMsg') :
             n + i \in 1..Len(_tmpMsg) /\ _tmpMsg'[i] = _tmpMsg[n + i]
        /\ \A i \in 1..Len(_msgs') : \/ i \in 1..Len(_msgs) /\ _msgs'[i] = _msgs[i]
                                     \/ i = Len(_msgs) + 1
        /\ _msgs'[Len(_msgs) + 1].frame[1] = _tmpMsg[1] /\ 1 \in 1..Len(_tmpMsg)
        /\ wire' = wire /\ seen' = seen
    BY <1>4, TakesOrigin DEF Takes
  <2>2. ASSUME NEW f, Taken(f)
        PROVE  /\ \A i \in 1..Len(wire') : wire'[i] # f[1]
               /\ \A i \in 1..Len(_tmpMsg') : _tmpMsg'[i] # f[1]
    BY <2>1, <2>2 DEF Taken
  <2>3. /\ \A i \in 1..Len(wire') : wire'[i] # _tmpMsg[1]
        /\ \A i \in 1..Len(_tmpMsg') : _tmpMsg'[i] # _tmpMsg[1]
    <3>1. \A i \in 1..Len(_tmpMsg') : n + i # 1
      OBVIOUS
    <3> QED BY <2>1, <3>1 DEF ApartInv
  <2>4. ASSUME NEW i \in 1..Len(_msgs')
        PROVE  /\ \A k \in 1..Len(wire') : wire'[k] # _msgs'[i].frame[1]
               /\ \A k \in 1..Len(_tmpMsg') : _tmpMsg'[k] # _msgs'[i].frame[1]
    BY <2>1, <2>2, <2>3 DEF TakenInv
  <2>5. \A i \in 1..Len(_msgs) : _msgs[i].frame[1] # _tmpMsg[1]
    BY <2>1 DEF TakenInv, Taken
  <2>6. ASSUME NEW i \in 1..Len(_msgs'), NEW j \in 1..Len(_msgs'),
               _msgs'[i].frame[1] = _msgs'[j].frame[1]
        PROVE  i = j
    BY <2>1, <2>5, <2>6 DEF TakenInv
  <2> QED BY <2>1, <2>2, <2>4, <2>6 DEF TakenInv, Taken
<1> QED BY <1>1, <1>2, <1>3, <1>4, Flow

\* The first message in the queue that has not been shown or passed over.
Waiting ==
  CASE pc = "dispatch" /\ turn = 1 -> next
    [] pc = "dispatch" /\ turn # 1 -> next + 1
    [] pc = "callback" -> next + 1
    [] OTHER -> 1

\* Until update() is left by an exception, what waits has not been shown.
WaitingInv ==
  ~jammed => /\ again = {}
             /\ \A i \in 1..Len(_msgs) : i >= Waiting =>
                  \A j \in 1..Len(seen) : seen[j][1] # _msgs[i].frame[1]

LEMMA WaitingStep ==
  ASSUME LinkOK, UpdateOK, ApartInv, TakenInv, WaitingInv, [Next]_vars
  PROVE  WaitingInv'
<1> SUFFICES ASSUME ~jammed' PROVE WaitingInv'
  BY DEF WaitingInv
<1>0. next \in Nat \ {0} /\ turn \in Nat \ {0} /\ Len(_msgs) \in Nat /\ Len(seen) \in Nat
  BY DEF UpdateOK
<1>1. CASE UNCHANGED <<_msgs, seen, again, jammed, pc, next, turn>>
  BY <1>1 DEF WaitingInv, Waiting
<1>2. CASE /\ UNCHANGED <<_msgs, seen, again, jammed>>
           /\ pc \notin {"dispatch", "callback"}
           /\ pc' # "callback" /\ (pc' = "dispatch" => next' = 1 /\ turn' = 1)
  <2>1. Waiting = 1
    BY <1>2 DEF Waiting
  <2>2. Waiting' = 1
    BY <1>2 DEF Waiting
  <2> QED BY <1>2, <2>1, <2>2 DEF WaitingInv
<1>3. CASE dispatchSkip
  <2>1. Waiting = next /\ Waiting' = next + 1
    BY <1>3 DEF dispatchSkip, Dispatching, Waiting
  <2> QED BY <1>0, <1>3, <2>1 DEF dispatchSkip, log, WaitingInv
<1>4. CASE parseMessage
  <2>1. PICK n \in 2..Len(_tmpMsg) : Takes(n)
    BY <1>4, ParsingTakes
  <2>2. /\ \A i \in 1..Len(_msgs') : \/ i \in 1..Len(_msgs) /\ _msgs'[i] = _msgs[i]
                                     \/ i = Len(_msgs) + 1
        /\ _msgs'[Len(_msgs) + 1].frame[1] = _tmpMsg[1] /\ 1 \in 1..Len(_tmpMsg)
    BY <2>1, TakesOrigin
  <2>3. Waiting = 1 /\ Waiting' = 1 /\ UNCHANGED <<seen, again, jammed>>
    BY <1>4 DEF parseMessage, Waiting, log
  <2>4. \A j \in 1..Len(seen) : seen[j][1] # _tmpMsg[1]
    BY <2>2 DEF TakenInv, Taken
  <2>5. ASSUME NEW i \in 1..Len(_msgs'), NEW j \in 1..Len(seen)
        PROVE  seen[j][1] # _msgs'[i].frame[1]
    <3>1. CASE i \in 1..Len(_msgs) /\ _msgs'[i] = _msgs[i]
      <4>1. i >= 1
        OBVIOUS
      <4> QED BY <2>3, <3>1, <4>1 DEF WaitingInv
    <3>2. CASE i = Len(_msgs) + 1
      BY <2>2, <2>4, <3>2
    <3> QED BY <2>2, <3>1, <3>2
  <2> QED BY <2>3, <2>5 DEF WaitingInv
<1>5. CASE dispatchCall
  <2>1. /\ next \in 1..Len(_msgs) /\ UNCHANGED <<_msgs, next, turn, jammed>>
        /\ pc = "dispatch" /\ pc' = "callback"
        /\ \A i \in 1..Len(seen) : seen'[i] = seen[i]
        /\ turn # 1 => seen' = seen /\ again' = again
        /\ turn = 1 => \/ _msgs[next].frame \in Range(seen) /\ seen' = seen
                       \/ /\ Len(seen') = Len(seen) + 1 /\ again' = again
                          /\ seen'[Len(seen) + 1] = _msgs[next].frame
    BY <1>5, Showing
  <2>2. Waiting' = next + 1
    BY <2>1 DEF Waiting
  <2>3. CASE turn # 1
    <3>1. Waiting = next + 1
      BY <2>1, <2>3 DEF Waiting
    <3> QED BY <2>1, <2>2, <2>3, <3>1 DEF WaitingInv
  <2>4. CASE turn = 1
    <3>1. Waiting = next
      BY <2>1, <2>4 DEF Waiting
    <3>2. \A j \in 1..Len(seen) : seen[j][1] # _msgs[next].frame[1]
      BY <1>0, <2>1, <3>1 DEF WaitingInv
    <3>3. _msgs[next].frame \notin Range(seen)
      <4>1. seen \in Seq(Seq(Units))
        BY DEF UpdateOK
      <4>2. ASSUME NEW i \in 1..Len(seen), _msgs[next].frame = seen[i] PROVE FALSE
        BY <3>2, <4>2
      <4> QED BY <4>1, <4>2, InRange
    <3>4. /\ Len(seen') = Len(seen) + 1 /\ again' = again
          /\ seen'[Len(seen) + 1] = _msgs[next].frame
      BY <2>1, <2>4, <3>3
    <3>5. ASSUME NEW i \in 1..Len(_msgs), i >= next + 1, NEW j \in 1..Len(seen')
          PROVE  seen'[j][1] # _msgs[i].frame[1]
      <4>1. j \in 1..Len(seen) \/ j = Len(seen) + 1
        BY <1>0, <3>4
      <4>2. i >= next /\ i # next
        BY <1>0, <3>5
      <4>3. CASE j \in 1..Len(seen)
        BY <2>1, <3>1, <4>2, <4>3 DEF WaitingInv
      <4>4. CASE j = Len(seen) + 1
        BY <2>1, <3>4, <4>2, <4>4 DEF TakenInv
      <4> QED BY <4>1, <4>3, <4>4
    <3> QED BY <2>1, <2>2, <3>4, <3>5 DEF WaitingInv
  <2> QED BY <2>3, <2>4
<1>6. CASE callbackReturns
  <2>1. SameFrames /\ UNCHANGED <<seen, again, jammed>> /\ Waiting = next + 1
    BY <1>6, Marking DEF callbackReturns, log, Waiting
  <2>2. Waiting' = next + 1
    BY <1>0, <1>6 DEF callbackReturns, Waiting
  <2> QED BY <2>1, <2>2 DEF SameFrames, WaitingInv
<1>7. CASE callbackThrows \/ dispatchExhausted
  BY <1>7 DEF callbackThrows, dispatchExhausted
<1>8. CASE dispatchEnds
  <2>1. Len(_msgs') = 0 /\ UNCHANGED <<again, jammed>>
    BY <1>8 DEF dispatchEnds, Remaining, log
  <2> QED BY <2>1 DEF WaitingInv
<1>9. CASE PeerStep \/ connect \/ connectFails \/ disconnect \/ UNCHANGED vars \/ updateRefused
           \/ recvBytes
  BY <1>1, <1>9 DEF PeerStep, PeerSend, PeerClose, PeerReset, connect, connectFails, disconnect,
              vars, updateRefused, recvBytes, client, log
<1>10. CASE \/ update \/ selectReady \/ selectTimeout \/ recvAgain \/ recvEnd \/ recvFails
            \/ parseEnds
  BY <1>2, <1>10 DEF update, selectReady, selectTimeout, recvAgain, recvEnd, recvFails, parseEnds,
               log
<1> QED BY <1>3, <1>4, <1>5, <1>6, <1>7, <1>8, <1>9, <1>10 DEF Next, UpdateStep

-------------------------------------------------------------------------------
OnceInv ==
  /\ LinkOK
  /\ UpdateOK
  /\ KnownInv
  /\ ApartInv
  /\ TakenInv
  /\ WaitingInv

LEMMA InitOnce == Init => OnceInv
<1> SUFFICES ASSUME Init PROVE OnceInv
  OBVIOUS
<1>1. /\ _tmpMsg = <<>> /\ wire = <<>> /\ _msgs = <<>> /\ seen = <<>> /\ clean = {}
      /\ pc = "idle" /\ next = 1 /\ turn = 1 /\ conns = 0 /\ peer = "none"
      /\ sent = [c \in Conns |-> <<>>] /\ again = {}
  BY DEF Init
<1>2. LinkOK
  BY <1>1, ClientAssumption DEF LinkOK
<1>3. UpdateOK
  BY <1>1 DEF UpdateOK
<1>4. 1..Len(<<>>) = {}
  OBVIOUS
<1> QED BY <1>1, <1>2, <1>3, <1>4 DEF OnceInv, KnownInv, ApartInv, TakenInv, WaitingInv

LEMMA NextOnce == OnceInv /\ [Next]_vars => OnceInv'
BY LinkStep, UpdateOKStep, KnownStep, ApartStep, TakenStep, WaitingStep DEF OnceInv

\* Whatever the stream is cut into, however callbacks reconnect, and for any number
\* of messages, actions and connections: no message is shown twice to an action
\* until an exception leaves update() (client.cpp:145-154).
THEOREM ShownCorrect == SafeSpec => []ShownOnce
<1>1. OnceInv => ShownOnce
  BY DEF OnceInv, WaitingInv, ShownOnce
<1> QED BY <1>1, InitOnce, NextOnce, PTL DEF SafeSpec

-------------------------------------------------------------------------------
(***************************************************************************)
(* Whole and in order.                                                     *)
(***************************************************************************)
From(u, c) == u.msg \in Range(sent[c])

\* A message is sent on one connection.
OneConnection ==
  \A c, d \in Conns : \A m \in Msgs : m \in Range(sent[c]) /\ m \in Range(sent[d]) => c = d

\* The messages of connection c begin behind off[c][1], off[c][2], ... units, and
\* done[c] of them have been parsed if the connection is clean.
LaidOut(off, done) ==
  /\ off \in [Conns -> [Nat -> Nat]] /\ done \in [Conns -> Nat]
  /\ \A c \in Conns : Layout(sent[c], Len(sent[c]), off[c]) /\ done[c] <= Len(sent[c])

Part(u, n, c, off, b) == Window(u, n, sent[c], Len(sent[c]), off[c], b)

\* The first a units of the buffer are what the parser expects of connection c.
Awaited(a, c, off, done) == c \in clean /\ Part(_tmpMsg, a, c, off, off[c][done[c] + 1])

\* On a clean connection buffer and wire go on where the parser stands.
CleanLink(off, done) ==
  conns \in clean =>
    LET b == off[conns][done[conns] + 1] IN
    /\ Awaited(Len(_tmpMsg), conns, off, done)
    /\ Part(wire, Len(wire), conns, off, b + Len(_tmpMsg))
    /\ peer = "open" =>
         b + Len(_tmpMsg) + Len(wire) = off[conns][Len(sent[conns]) + 1]

\* On another one the buffer begins with what a clean one has left behind, if
\* anything, and goes on with units of connections that are not clean.
MixedLink(off, done) ==
  conns \notin clean =>
    /\ \A i \in 1..Len(wire) : conns \in Conns /\ From(wire[i], conns)
    /\ \E a \in 0..Len(_tmpMsg) :
         /\ a = 0 \/ \E c \in clean : Awaited(a, c, off, done)
         /\ \A i \in (a + 1)..Len(_tmpMsg) : \E d \in Conns \ clean : From(_tmpMsg[i], d)

StreamInv(off, done) == LaidOut(off, done) /\ CleanLink(off, done) /\ MixedLink(off, done)

LEMMA OneConnectionStep ==
  ASSUME LinkOK, UpdateOK, OneConnection, [Next]_vars
  PROVE  OneConnection'
<1>1. ASSUME NEW m \in Msgs, Adds(m) PROVE OneConnection'
  <2>1. \A c \in Conns : m \notin Range(sent[c])
    BY <1>1 DEF Adds, Sent
  <2>2. /\ \A c \in Conns : c # conns => sent'[c] = sent[c]
        /\ Range(sent'[conns]) = Range(sent[conns]) \union {m}
    BY <1>1, Addition
  <2>3. \A c \in Conns : \A x \in Msgs : x \in Range(sent'[c]) =>
          x \in Range(sent[c]) \/ (x = m /\ c = conns)
    BY <2>2
  <2> QED BY <2>1, <2>3 DEF OneConnection
<1>2. CASE sent' = sent
  BY <1>2 DEF OneConnection
<1> QED BY <1>1, <1>2, Flow DEF Loses, Receives, Takes

LEMMA Tracks ==
  ASSUME LinkOK, NEW off, NEW done, LaidOut(off, done), NEW c \in Conns
  PROVE  /\ sent[c] \in Seq(Msgs) /\ Len(sent[c]) \in Nat
         /\ off[c] \in [Nat -> Nat] /\ Layout(sent[c], Len(sent[c]), off[c])
         /\ done[c] \in 0..Len(sent[c]) /\ done[c] + 1 \in 1..(Len(sent[c]) + 1)
         /\ off[c][done[c] + 1] \in Nat
<1>1. sent[c] \in Seq(Msgs)
  BY DEF LinkOK
<1>2. /\ off[c] \in [Nat -> Nat] /\ Layout(sent[c], Len(sent[c]), off[c])
      /\ done[c] \in Nat /\ done[c] <= Len(sent[c])
  BY DEF LaidOut
<1>3. Len(sent[c]) \in Nat
  BY <1>1
<1>4. done[c] \in 0..Len(sent[c]) /\ done[c] + 1 \in 1..(Len(sent[c]) + 1) /\ done[c] + 1 \in Nat
  <2>1. \A x, y \in Nat : x <= y => x \in 0..y /\ x + 1 \in 1..(y + 1) /\ x + 1 \in Nat
    OBVIOUS
  <2> QED BY <1>2, <1>3, <2>1, Zenon
<1>5. off[c][done[c] + 1] \in Nat
  BY <1>2, <1>4
<1> QED BY <1>1, <1>2, <1>3, <1>4, <1>5

LEMMA CleanIsMade ==
  ASSUME LinkOK
  PROVE  clean \subseteq Conns
<1>1. conns \in 0..MaxConns /\ clean \subseteq 1..conns /\ MaxConns \in Nat
  BY ClientAssumption DEF LinkOK
<1>2. 1..conns \subseteq 1..MaxConns
  BY <1>1
<1> QED BY <1>1, <1>2 DEF Conns

LEMMA LinkLoses ==
  ASSUME LinkOK, NEW off, NEW done, StreamInv(off, done), NEW n \in 0..Len(wire), Loses(n)
  PROVE  StreamInv(off, done)'
<1>0. /\ _tmpMsg \in Seq(Units) /\ wire \in Seq(Units) /\ Len(wire) \in Nat /\ Len(_tmpMsg) \in Nat
      /\ sent' = sent /\ _tmpMsg' = _tmpMsg /\ Len(wire') = n /\ Agree(wire', wire, n)
  BY DEF LinkOK, Loses, Agree
<1>1. LaidOut(off, done)'
  BY <1>0 DEF StreamInv, LaidOut
<1>2. CASE UNCHANGED <<conns, clean>> /\ (peer' = "open" => peer = "open" /\ wire' = wire)
  <2>1. CASE conns \in clean
    <3>1. Part(wire', n, conns, off, off[conns][done[conns] + 1] + Len(_tmpMsg))
      BY <1>0, <2>1, WindowFront DEF StreamInv, CleanLink, Part
    <3>2. CleanLink(off, done)'
      BY <1>0, <1>2, <2>1, <3>1 DEF StreamInv, CleanLink, Awaited, Part
    <3> QED BY <1>1, <1>2, <2>1, <3>2 DEF StreamInv, MixedLink
  <2>2. CASE conns \notin clean
    <3>1. \A i \in 1..Len(wire') : conns \in Conns /\ From(wire'[i], conns)
      BY <1>0, <2>2 DEF StreamInv, MixedLink, Agree
    <3>2. MixedLink(off, done)'
      BY <1>0, <1>2, <2>2, <3>1 DEF StreamInv, MixedLink, From, Awaited, Part
    <3> QED BY <1>1, <1>2, <2>2, <3>2 DEF StreamInv, CleanLink
  <2> QED BY <2>1, <2>2
<1>3. CASE connect
  <2>1. /\ conns' = conns + 1 /\ conns' \in Conns /\ conns' \notin clean /\ Len(wire') = 0
        /\ clean' = IF _tmpMsg = <<>> THEN clean \union {conns'} ELSE clean
        /\ sent[conns'] = <<>> /\ clean \subseteq Conns
    BY <1>3, ClientAssumption DEF connect, LinkOK, Conns
  <2>2. CASE _tmpMsg = <<>>
    <3>1. Len(_tmpMsg) = 0 /\ Len(sent[conns']) = 0 /\ conns' \in clean'
      BY <2>1, <2>2
    <3>2. done[conns'] = 0 /\ off[conns'][1] \in Nat
      <4>1. /\ done[conns'] \in 0..Len(sent[conns'])
            /\ off[conns'][done[conns'] + 1] \in Nat
        BY <2>1, Tracks DEF StreamInv
      <4>2. done[conns'] = 0
        BY <3>1, <4>1
      <4>3. done[conns'] + 1 = 1
        BY <4>2
      <4> QED BY <4>1, <4>2, <4>3
    <3>3. CleanLink(off, done)'
      BY <1>0, <2>1, <3>1, <3>2 DEF CleanLink, Awaited, Part, Window
    <3> QED BY <1>1, <3>1, <3>3 DEF StreamInv, MixedLink
  <2>3. CASE _tmpMsg # <<>>
    <3>1. clean' = clean /\ conns' \notin clean'
      BY <2>1, <2>3
    <3>2. \E a \in 0..Len(_tmpMsg) :
            /\ a = 0 \/ \E c \in clean : Awaited(a, c, off, done)
            /\ \A i \in (a + 1)..Len(_tmpMsg) : \E d \in Conns \ clean : From(_tmpMsg[i], d)
      <4>1. CASE conns \in clean
        <5>1. Awaited(Len(_tmpMsg), conns, off, done)
          BY <4>1 DEF StreamInv, CleanLink
        <5>2. Len(_tmpMsg) \in 0..Len(_tmpMsg) /\ (Len(_tmpMsg) + 1)..Len(_tmpMsg) = {}
          BY <1>0
        <5> QED BY <4>1, <5>1, <5>2
      <4>2. CASE conns \notin clean
        BY <4>2 DEF StreamInv, MixedLink
      <4> QED BY <4>1, <4>2
    <3>3. MixedLink(off, done)'
      BY <1>0, <2>1, <3>1, <3>2 DEF MixedLink, From, Awaited, Part
    <3> QED BY <1>1, <3>1, <3>3 DEF StreamInv, CleanLink
  <2> QED BY <2>2, <2>3
<1> QED BY <1>2, <1>3 DEF Loses

LEMMA LinkReceives ==
  ASSUME LinkOK, NEW off, NEW done, StreamInv(off, done), NEW n \in 1..Len(wire), Receives(n)
  PROVE  StreamInv(off, done)'
<1>0. /\ Len(wire) \in Nat /\ Len(_tmpMsg) \in Nat /\ n \in Nat /\ n \in 0..Len(wire)
      /\ UNCHANGED <<sent, conns, clean, peer>>
      /\ Len(wire') = Len(wire) - n /\ Len(_tmpMsg') = Len(_tmpMsg) + n
      /\ Agree(_tmpMsg', _tmpMsg, Len(_tmpMsg)) /\ Behind(_tmpMsg', Len(_tmpMsg), wire, n)
      /\ Behind(wire, n, wire', Len(wire'))
  <2>1. Len(wire) \in Nat /\ Len(_tmpMsg) \in Nat
    BY DEF LinkOK
  <2>2. n \in Nat /\ n \in 0..Len(wire)
    BY <2>1
  <2> QED BY <2>1, <2>2 DEF Receives, Agree, Behind
<1>1. LaidOut(off, done)' /\ LaidOut(off, done)
  BY <1>0 DEF StreamInv, LaidOut
<1>2. CASE conns \in clean
  <2>0. conns \in Conns
    BY <1>2, ClientAssumption DEF LinkOK, Conns
  <2>1. PICK b \in Nat : b = off[conns][done[conns] + 1]
    BY <1>1, <2>0, Tracks
  <2>2. off[conns] \in [Nat -> Nat] /\ Len(sent[conns]) \in Nat
    BY <1>1, <2>0, Tracks
  <2>3. /\ Window(_tmpMsg, Len(_tmpMsg), sent[conns], Len(sent[conns]), off[conns], b)
        /\ Window(wire, Len(wire), sent[conns], Len(sent[conns]), off[conns], b + Len(_tmpMsg))
        /\ peer = "open" =>
             b + Len(_tmpMsg) + Len(wire) = off[conns][Len(sent[conns]) + 1]
    BY <1>2, <2>1 DEF StreamInv, CleanLink, Awaited, Part
  <2>4. Window(wire, n, sent[conns], Len(sent[conns]), off[conns], b + Len(_tmpMsg))
    <3>1. Agree(wire, wire, n)
      BY DEF Agree
    <3> QED BY <1>0, <2>3, <3>1, WindowFront
  <2>5. Window(_tmpMsg', Len(_tmpMsg'), sent[conns], Len(sent[conns]), off[conns], b)
    BY <1>0, <2>2, <2>3, <2>4, WindowJoin
  <2>6. Window(wire', Len(wire'), sent[conns], Len(sent[conns]), off[conns], b + Len(_tmpMsg'))
    <3>1. b + Len(_tmpMsg) \in Nat /\ b + Len(_tmpMsg') = b + Len(_tmpMsg) + n
      BY <1>0
    <3> QED BY <1>0, <2>2, <2>3, <3>1, WindowTail
  <2>7. b + Len(_tmpMsg') + Len(wire') = b + Len(_tmpMsg) + Len(wire)
    BY <1>0
  <2>8. CleanLink(off, done)'
    BY <1>0, <1>2, <2>1, <2>3, <2>5, <2>6, <2>7 DEF CleanLink, Awaited, Part
  <2> QED BY <1>0, <1>1, <1>2, <2>8 DEF StreamInv, MixedLink
<1>3. CASE conns \notin clean
  <2>1. /\ \A i \in 1..Len(wire) : conns \in Conns /\ From(wire[i], conns)
        /\ \E a \in 0..Len(_tmpMsg) :
             /\ a = 0 \/ \E c \in clean : Awaited(a, c, off, done)
             /\ \A i \in (a + 1)..Len(_tmpMsg) : \E d \in Conns \ clean : From(_tmpMsg[i], d)
    BY <1>3 DEF StreamInv, MixedLink
  <2>2. PICK a \in 0..Len(_tmpMsg) :
             /\ a = 0 \/ \E c \in clean : Awaited(a, c, off, done)
             /\ \A i \in (a + 1)..Len(_tmpMsg) : \E d \in Conns \ clean : From(_tmpMsg[i], d)
    BY <2>1
  <2>3. a \in 0..Len(_tmpMsg') /\ Agree(_tmpMsg', _tmpMsg, a)
    BY <1>0 DEF Agree
  <2>4. a = 0 \/ \E c \in clean : Awaited(a, c, off, done)'
    <3>1. ASSUME NEW c \in clean, Awaited(a, c, off, done) PROVE Awaited(a, c, off, done)'
      <4>1. Part(_tmpMsg', a, c, off, off[c][done[c] + 1])
        BY <1>0, <2>3, <3>1, WindowFront DEF Awaited, Part
      <4> QED BY <1>0, <4>1 DEF Awaited, Part
    <3> QED BY <2>2, <3>1
  <2>5. ASSUME NEW i \in (a + 1)..Len(_tmpMsg') PROVE \E d \in Conns \ clean : From(_tmpMsg'[i], d)
    <3>1. i \in 1..Len(_tmpMsg')
      BY <1>0
    <3>2. \/ i \in 1..Len(_tmpMsg) /\ _tmpMsg'[i] = _tmpMsg[i]
          \/ \E j \in 1..n : j \in 1..Len(wire) /\ _tmpMsg'[i] = wire[j]
      BY <3>1, ReceivesOrigin
    <3>3. CASE i \in 1..Len(_tmpMsg) /\ _tmpMsg'[i] = _tmpMsg[i]
      <4>1. i \in (a + 1)..Len(_tmpMsg)
        BY <1>0, <3>3
      <4> QED BY <2>2, <3>3, <4>1
    <3>4. CASE \E j \in 1..n : j \in 1..Len(wire) /\ _tmpMsg'[i] = wire[j]
      BY <1>3, <2>1, <3>4
    <3> QED BY <3>2, <3>3, <3>4
  <2>6. \A i \in 1..Len(wire') : conns \in Conns /\ From(wire'[i], conns)
    BY <2>1, ReceivesOrigin
  <2>7. MixedLink(off, done)'
    BY <1>0, <2>3, <2>4, <2>5, <2>6 DEF MixedLink, From
  <2> QED BY <1>0, <1>1, <1>3, <2>7 DEF StreamInv, CleanLink
<1> QED BY <1>2, <1>3

LEMMA LinkAdds ==
  ASSUME LinkOK, NEW off, NEW done, StreamInv(off, done), NEW m \in Msgs, Adds(m)
  PROVE  \E off2 : StreamInv(off2, done)'
<1>0. /\ Len(wire) \in Nat /\ Len(_tmpMsg) \in Nat /\ conns \in Conns /\ peer = "open"
      /\ UNCHANGED <<_tmpMsg, conns, clean, peer>> /\ LaidOut(off, done)
  BY DEF LinkOK, Adds, StreamInv
<1>1. PICK l \in Nat : l = Len(sent[conns])
  BY <1>0, Tracks
<1>2. PICK z \in Nat : z = Header + Size[m]
  BY SizeAssumption DEF Header
<1>3. /\ \A c \in Conns : c # conns => sent'[c] = sent[c]
      /\ Len(sent'[conns]) = l + 1 /\ sent'[conns][l + 1] = m
      /\ Agree(sent'[conns], sent[conns], l)
      /\ Range(sent'[conns]) = Range(sent[conns]) \union {m}
  BY <1>1, Addition DEF Agree
<1>4. /\ off[conns] \in [Nat -> Nat] /\ Layout(sent[conns], l, off[conns])
      /\ done[conns] \in 0..l /\ done[conns] + 1 \in 1..(l + 1)
      /\ off[conns][done[conns] + 1] \in Nat
  BY <1>0, <1>1, Tracks
<1>5. PICK new : new = [off[conns] EXCEPT ![l + 2] = off[conns][l + 1] + z]
  OBVIOUS
<1>6. /\ new \in [Nat -> Nat] /\ Agree(new, off[conns], l + 1)
      /\ new[l + 2] = off[conns][l + 1] + z
  BY <1>4, <1>5 DEF Agree
<1>7. PICK off2 : off2 = [off EXCEPT ![conns] = new]
  OBVIOUS
<1>8. /\ off2 \in [Conns -> [Nat -> Nat]] /\ done \in [Conns -> Nat]
      /\ off2[conns] = new /\ \A c \in Conns : c # conns => off2[c] = off[c]
  BY <1>0, <1>6, <1>7 DEF LaidOut
<1>9. Layout(sent'[conns], l + 1, new)
  BY <1>2, <1>3, <1>4, <1>6, LayoutGrows
<1>10. LaidOut(off2, done)'
  <2>1. ASSUME NEW c \in Conns
        PROVE  Layout(sent'[c], Len(sent'[c]), off2[c]) /\ done[c] <= Len(sent'[c])
    <3>1. CASE c = conns
      <4>1. done[conns] <= l + 1
        BY <1>4
      <4> QED BY <1>3, <1>8, <1>9, <3>1, <4>1
    <3>2. CASE c # conns
      BY <1>0, <1>3, <1>8, <3>2 DEF LaidOut
    <3> QED BY <3>1, <3>2
  <2> QED BY <1>8, <2>1 DEF LaidOut
<1>11. CASE conns \in clean
  <2>1. PICK b \in Nat : b = off[conns][done[conns] + 1]
    BY <1>4
  <2>2. b = off2[conns][done[conns] + 1]
    BY <1>4, <1>6, <1>8, <2>1 DEF Agree
  <2>3. /\ Window(_tmpMsg, Len(_tmpMsg), sent[conns], l, off[conns], b)
        /\ Window(wire, Len(wire), sent[conns], l, off[conns], b + Len(_tmpMsg))
        /\ b + Len(_tmpMsg) + Len(wire) = off[conns][l + 1]
    BY <1>0, <1>1, <1>11, <2>1 DEF StreamInv, CleanLink, Awaited, Part
  <2>4. Window(_tmpMsg, Len(_tmpMsg), sent'[conns], l + 1, new, b)
    BY <1>3, <1>6, <2>3, WindowGrows
  <2>5. /\ Agree(wire', wire, Len(wire)) /\ Len(wire') = Len(wire) + z
        /\ Carries(wire', Len(wire), m, z)
    <3>1. Len(wire') = Len(wire) + z
      <4>1. Len(wire') = Len(wire) + Header + Size[m] /\ Size[m] \in Nat
        BY SizeAssumption DEF Adds
      <4> QED BY <1>0, <1>2, <4>1 DEF Header
    <3>2. ASSUME NEW i \in 1..z
          PROVE  wire'[Len(wire) + i].msg = m /\ wire'[Len(wire) + i].at = i
      <4>1. wire'[Len(wire) + i] = [msg |-> m, at |-> i]
        BY <1>2 DEF Adds
      <4> QED BY <4>1
    <3>3. Agree(wire', wire, Len(wire))
      BY DEF Adds, Agree
    <3> QED BY <3>1, <3>2, <3>3 DEF Carries
  <2>6. b + Len(_tmpMsg) \in Nat
    BY <1>0
  <2>7. Window(wire', Len(wire'), sent'[conns], l + 1, new, b + Len(_tmpMsg))
    <3>1. new[l + 2] = off[conns][l + 1] + (Header + Size[m])
      BY <1>2, <1>6
    <3>2. Window(wire', Len(wire) + z, sent'[conns], l + 1, new, b + Len(_tmpMsg))
      BY <1>0, <1>2, <1>3, <1>4, <1>6, <2>3, <2>5, <2>6, <3>1, WindowAdds
    <3> QED BY <2>5, <3>2
  <2>8. b + Len(_tmpMsg) + Len(wire') = new[(l + 1) + 1]
    <3>1. off[conns][l + 1] \in Nat /\ (l + 1) + 1 = l + 2
      BY <1>4
    <3>2. PICK p \in Nat, q \in Nat, x \in Nat :
            p = Len(_tmpMsg) /\ q = Len(wire) /\ x = off[conns][l + 1]
      BY <1>0, <3>1
    <3>3. b + p + q = x /\ Len(wire') = q + z /\ new[l + 2] = x + z
      BY <1>6, <2>3, <2>5, <3>2
    <3>4. b + p + (q + z) = x + z
      BY <3>3
    <3> QED BY <3>1, <3>2, <3>3, <3>4
  <2>9. CleanLink(off2, done)'
    BY <1>0, <1>3, <1>8, <1>11, <2>2, <2>4, <2>7, <2>8 DEF CleanLink, Awaited, Part
  <2>10. MixedLink(off2, done)'
    BY <1>0, <1>11 DEF MixedLink
  <2> QED BY <1>10, <2>9, <2>10 DEF StreamInv
<1>12. CASE conns \notin clean
  <2>1. ASSUME NEW i \in 1..Len(wire') PROVE wire'[i].msg \in Range(sent'[conns])
    <3>1. \/ i \in 1..Len(wire) /\ wire'[i] = wire[i]
          \/ wire'[i].msg = m
      BY AddsOrigin
    <3> QED BY <1>3, <1>12, <3>1 DEF StreamInv, MixedLink, From
  <2>2. PICK a \in 0..Len(_tmpMsg) :
             /\ a = 0 \/ \E c \in clean : Awaited(a, c, off, done)
             /\ \A i \in (a + 1)..Len(_tmpMsg) : \E d \in Conns \ clean : From(_tmpMsg[i], d)
    BY <1>12 DEF StreamInv, MixedLink
  <2>3. a = 0 \/ \E c \in clean : Awaited(a, c, off2, done)'
    <3>1. ASSUME NEW c \in clean, Awaited(a, c, off, done) PROVE Awaited(a, c, off2, done)'
      <4>1. c \in Conns /\ c # conns
        BY <1>12, ClientAssumption DEF LinkOK, Conns
      <4> QED BY <1>0, <1>3, <1>8, <3>1, <4>1 DEF Awaited, Part
    <3> QED BY <2>2, <3>1
  <2>4. ASSUME NEW i \in (a + 1)..Len(_tmpMsg) PROVE \E d \in Conns \ clean : From(_tmpMsg[i], d)'
    <3>1. PICK d \in Conns \ clean : _tmpMsg[i].msg \in Range(sent[d])
      BY <2>2 DEF From
    <3>2. _tmpMsg[i].msg \in Range(sent'[d])
      BY <1>3, <3>1
    <3> QED BY <1>0, <3>1, <3>2 DEF From
  <2>5. MixedLink(off2, done)'
    BY <1>0, <2>1, <2>2, <2>3, <2>4 DEF MixedLink, From
  <2>6. CleanLink(off2, done)'
    BY <1>0, <1>12 DEF CleanLink
  <2> QED BY <1>10, <2>5, <2>6 DEF StreamInv
<1> QED BY <1>11, <1>12

\* The frame taken is the next message of connection c.
NextOf(c, done) ==
  /\ c \in clean /\ done[c] + 1 \in 1..Len(sent[c])
  /\ _msgs'[Len(_msgs) + 1].frame = Bytes(sent[c][done[c] + 1])

\* The parser stands n units further on.
Further(o, d, d2, n) == o[d2 + 1] = o[d + 1] + n

LEMMA TakesWhole ==
  ASSUME LinkOK, UpdateOK, NEW off, NEW done, LaidOut(off, done),
         NEW n \in 2..Len(_tmpMsg), Takes(n),
         NEW c, NEW a \in n..Len(_tmpMsg), Awaited(a, c, off, done),
         NEW done2, done2 = [done EXCEPT ![c] = done[c] + 1],
         NEW a2, a2 = a - n
  PROVE  /\ NextOf(c, done) /\ LaidOut(off, done2)' /\ Awaited(a2, c, off, done2)'
         /\ Further(off[c], done[c], done2[c], n)
<1>1. c \in clean /\ c \in Conns
  BY CleanIsMade DEF Awaited
<1>2. PICK ms, o : ms = sent[c] /\ o = off[c]
  OBVIOUS
<1>3. PICK l \in Nat : l = Len(ms)
  BY <1>1, <1>2, Tracks
<1>4. /\ o \in [Nat -> Nat] /\ Layout(ms, l, o) /\ done[c] \in 0..l
      /\ done[c] + 1 \in 1..(l + 1) /\ o[done[c] + 1] \in Nat
  BY <1>1, <1>2, <1>3, Tracks
<1>5. PICK k \in 1..(l + 1) : k = done[c] + 1
  BY <1>4
<1>6. a \in Nat /\ n \in 2..a /\ n \in 0..a /\ Len(_tmpMsg) \in Nat /\ o[k] \in Nat
  <2>1. Len(_tmpMsg) \in Nat
    BY DEF LinkOK
  <2>2. a \in Nat /\ n \in 2..a /\ n \in 0..a
    BY <2>1
  <2> QED BY <1>4, <1>5, <2>1, <2>2
<1>7. Window(_tmpMsg, a, ms, l, o, o[k]) /\ CompleteWith(_tmpMsg, n)
  BY <1>2, <1>3, <1>5 DEF Awaited, Part, Takes
<1>8. /\ k \in 1..l /\ ms[k] \in Msgs
      /\ n = Header + Size[ms[k]] /\ o[k + 1] = o[k] + n
      /\ Spells(_tmpMsg, n, ms[k])
  BY <1>4, <1>6, <1>7, FrameIsMessage
<1>9. _msgs'[Len(_msgs) + 1].frame = Bytes(ms[k])
  <2>1. PICK f \in Seq(Units) : /\ f = _msgs'[Len(_msgs) + 1].frame /\ Len(f) = n
                                /\ \A i \in 1..n : f[i] = _tmpMsg[i]
    BY DEF Takes
  <2>2. Spells(f, Len(f), ms[k])
    BY <1>8, <2>1 DEF Spells
  <2>3. f = Bytes(ms[k])
    BY <1>8, <2>1, <2>2, IsBytes
  <2> QED BY <2>1, <2>3
<1>10. done2[c] = k /\ done2 \in [Conns -> Nat] /\ \A d \in Conns : d # c => done2[d] = done[d]
  <2>1. done \in [Conns -> Nat]
    BY DEF LaidOut
  <2> QED BY <1>1, <1>5, <2>1
<1>11. sent' = sent /\ clean' = clean
  BY DEF Takes
<1>12. LaidOut(off, done2)'
  <2>1. ASSUME NEW d \in Conns PROVE done2[d] <= Len(sent[d])
    <3>1. CASE d = c
      <4>1. k <= l
        BY <1>8
      <4> QED BY <1>2, <1>3, <1>10, <3>1, <4>1
    <3>2. CASE d # c
      BY <1>10, <3>2 DEF LaidOut
    <3> QED BY <3>1, <3>2
  <2> QED BY <1>10, <1>11, <2>1 DEF LaidOut
<1>13. Window(_tmpMsg', a2, ms, l, o, o[k + 1])
  <2>1. Behind(_tmpMsg, n, _tmpMsg', a2)
    <3>1. \A i \in 1..a2 : i \in 1..(Len(_tmpMsg) - n)
      BY <1>6
    <3> QED BY <3>1 DEF Takes, Behind
  <2> QED BY <1>4, <1>6, <1>7, <1>8, <2>1, WindowTail
<1>14. Awaited(a2, c, off, done2)'
  BY <1>1, <1>2, <1>3, <1>10, <1>11, <1>13 DEF Awaited, Part
<1>15. NextOf(c, done)
  BY <1>1, <1>2, <1>3, <1>5, <1>8, <1>9 DEF NextOf
<1>16. Further(off[c], done[c], done2[c], n)
  BY <1>2, <1>5, <1>8, <1>10 DEF Further
<1> QED BY <1>12, <1>14, <1>15, <1>16


\* The buffer after a frame is taken: the next message of a clean connection, or
\* one that ends with a unit of a connection that is not clean.
Progress(done, done2) ==
  \/ \E c \in Conns : NextOf(c, done) /\ done2 = [done EXCEPT ![c] = done[c] + 1]
  \/ /\ done2 = done
     /\ \E d \in Conns \ clean : From(Last(_msgs'[Len(_msgs) + 1].frame), d)

LEMMA LinkTakes ==
  ASSUME LinkOK, UpdateOK, NEW off, NEW done, StreamInv(off, done),
         NEW n \in 2..Len(_tmpMsg), Takes(n)
  PROVE  \E done2 : StreamInv(off, done2)' /\ Progress(done, done2)
<1>0. /\ Len(_tmpMsg) \in Nat /\ n \in Nat /\ n <= Len(_tmpMsg) /\ Len(wire) \in Nat
      /\ Len(_tmpMsg') = Len(_tmpMsg) - n
      /\ UNCHANGED <<sent, wire, conns, clean, peer>> /\ LaidOut(off, done)
  <2>2. Len(_tmpMsg) \in Nat /\ Len(wire) \in Nat
    BY DEF LinkOK
  <2> QED BY <2>2 DEF Takes, StreamInv
<1>1. CASE conns \in clean
  <2>2. conns \in Conns
    BY <1>1, CleanIsMade
  <2>3. PICK done2 : done2 = [done EXCEPT ![conns] = done[conns] + 1]
    OBVIOUS
  <2>4. PICK a \in n..Len(_tmpMsg) : a = Len(_tmpMsg)
    BY <1>0
  <2>5. Awaited(a, conns, off, done)
    BY <1>1, <2>4 DEF StreamInv, CleanLink
  <2>6. PICK c, a2 : c = conns /\ c = conns' /\ a2 = Len(_tmpMsg') /\ a2 = a - n
    BY <1>0, <2>4
  <2>7. /\ Awaited(a, c, off, done) /\ done2 = [done EXCEPT ![c] = done[c] + 1]
        /\ a2 = a - n /\ LaidOut(off, done)
    BY <1>0, <2>3, <2>5, <2>6
  <2>8. /\ NextOf(c, done) /\ LaidOut(off, done2)' /\ Awaited(a2, c, off, done2)'
        /\ off[c][done2[c] + 1] = off[c][done[c] + 1] + n
    <3>1. a \in n..Len(_tmpMsg)
      OBVIOUS
    <3>2. NextOf(c, done) /\ LaidOut(off, done2)' /\ Awaited(a2, c, off, done2)'
      BY <2>7, <3>1, TakesWhole
    <3>3. Further(off[c], done[c], done2[c], n)
      BY <2>7, <3>1, TakesWhole
    <3> QED BY <3>2, <3>3 DEF Further
  <2>9. /\ NextOf(conns, done) /\ LaidOut(off, done2)'
        /\ off[conns][done2[conns] + 1] = off[conns][done[conns] + 1] + n
    BY <2>6, <2>8
  <2>10. PICK b \in Nat : b = off[conns][done[conns] + 1]
    BY <1>0, <2>2, Tracks
  <2>11. (b + n) + Len(_tmpMsg') = b + Len(_tmpMsg)
    BY <1>0
  <2>12. /\ Part(wire, Len(wire), conns, off, b + Len(_tmpMsg))
         /\ peer = "open" =>
              b + Len(_tmpMsg) + Len(wire) = off[conns][Len(sent[conns]) + 1]
    BY <1>1, <2>10 DEF StreamInv, CleanLink
  <2>13. CleanLink(off, done2)'
    <3>1. PICK x : x = off[conns][done2[conns] + 1] + Len(_tmpMsg') /\ x = b + Len(_tmpMsg)
      BY <2>9, <2>10, <2>11
    <3>2. Part(wire, Len(wire), conns, off, x)'
      BY <1>0, <2>12, <3>1 DEF Part
    <3>3. peer' = "open" => x + Len(wire') = off[conns'][Len(sent'[conns']) + 1]
      BY <1>0, <2>12, <3>1
    <3>4. x = off[conns'][done2[conns'] + 1] + Len(_tmpMsg')
      BY <1>0, <3>1
    <3>5. Awaited(Len(_tmpMsg), conns, off, done2)'
      BY <2>6, <2>8
    <3> QED BY <3>2, <3>3, <3>4, <3>5 DEF CleanLink
  <2>14. MixedLink(off, done2)'
    BY <1>0, <1>1 DEF MixedLink
  <2> QED BY <2>2, <2>3, <2>9, <2>13, <2>14 DEF StreamInv, Progress
<1>2. CASE conns \notin clean
  <2>1. PICK a \in 0..Len(_tmpMsg) :
             /\ a = 0 \/ \E c \in clean : Awaited(a, c, off, done)
             /\ \A i \in (a + 1)..Len(_tmpMsg) : \E d \in Conns \ clean : From(_tmpMsg[i], d)
    BY <1>2 DEF StreamInv, MixedLink
  <2>2. \A i \in 1..Len(wire) : conns \in Conns /\ From(wire[i], conns)
    BY <1>2 DEF StreamInv, MixedLink
  <2>3. ASSUME NEW i \in 1..Len(_tmpMsg'), n + i > a
        PROVE  \E d \in Conns \ clean : From(_tmpMsg'[i], d)
    <3>1. n + i \in (a + 1)..Len(_tmpMsg) /\ i \in 1..(Len(_tmpMsg) - n)
      BY <1>0, <2>3
    <3>2. _tmpMsg'[i] = _tmpMsg[n + i]
      BY <3>1 DEF Takes
    <3> QED BY <2>1, <3>1, <3>2
  <2>4. CASE n <= a
    <3>1. a \in n..Len(_tmpMsg) /\ a # 0
      BY <1>0, <2>4
    <3>2. PICK c \in clean : Awaited(a, c, off, done)
      BY <2>1, <3>1
    <3>3. PICK done2 : done2 = [done EXCEPT ![c] = done[c] + 1]
      OBVIOUS
    <3>4. PICK a2 \in 0..Len(_tmpMsg') : a2 = a - n
      BY <1>0, <2>4
    <3>5. NextOf(c, done) /\ LaidOut(off, done2)' /\ Awaited(a2, c, off, done2)'
      BY <1>0, <3>1, <3>2, <3>3, <3>4, TakesWhole
    <3>6. ASSUME NEW i \in (a2 + 1)..Len(_tmpMsg')
          PROVE  \E d \in Conns \ clean : From(_tmpMsg'[i], d)
      <4>1. i \in 1..Len(_tmpMsg') /\ n + i > a
        BY <1>0, <3>4
      <4> QED BY <2>3, <4>1
    <3>7. MixedLink(off, done2)'
      BY <1>0, <2>2, <3>4, <3>5, <3>6 DEF MixedLink, From
    <3>8. CleanLink(off, done2)'
      BY <1>0, <1>2 DEF CleanLink
    <3> QED BY <3>2, <3>3, <3>5, <3>7, <3>8, CleanIsMade DEF StreamInv, Progress
  <2>5. CASE n > a
    <3>1. \A i \in 1..Len(_tmpMsg') : n + i > a
      BY <1>0, <2>5
    <3>2. 0 \in 0..Len(_tmpMsg') /\ (0 + 1)..Len(_tmpMsg') = 1..Len(_tmpMsg')
      BY <1>0
    <3>3. MixedLink(off, done)'
      BY <1>0, <2>2, <2>3, <3>1, <3>2 DEF MixedLink, From
    <3>4. CleanLink(off, done)' /\ LaidOut(off, done)'
      BY <1>0, <1>2 DEF CleanLink, LaidOut
    <3>5. Last(_msgs'[Len(_msgs) + 1].frame) = _tmpMsg[n]
      BY <1>0 DEF Takes, Last
    <3>6. n \in (a + 1)..Len(_tmpMsg)
      BY <1>0, <2>5
    <3> QED BY <2>1, <3>3, <3>4, <3>5, <3>6 DEF StreamInv, Progress
  <2> QED BY <1>0, <2>4, <2>5
<1> QED BY <1>1, <1>2


-------------------------------------------------------------------------------
(***************************************************************************)
(* What update() has passed has been shown, or has no action.              *)
(***************************************************************************)
Shown(m) == \E j \in 1..Len(seen) : seen[j] = Bytes(m)

PassedInv ==
  \A i \in 1..Len(_msgs) : \A m \in Handled :
    i < Waiting /\ _msgs[i].frame = Bytes(m) => Shown(m)

\* Only a first call shows something new, and what was shown stays shown.
LEMMA SeenGrows ==
  ASSUME UpdateOK, [Next]_vars
  PROVE  /\ \A i \in 1..Len(seen) : i \in 1..Len(seen') /\ seen'[i] = seen[i]
         /\ \A m : Shown(m) => Shown(m)'
<1>1. \A i \in 1..Len(seen) : i \in 1..Len(seen') /\ seen'[i] = seen[i]
  <2>1. CASE seen' = seen
    BY <2>1
  <2>2. CASE dispatchCall
    <3>1. /\ seen' \in Seq(Seq(Units)) /\ Len(seen') >= Len(seen)
          /\ \A i \in 1..Len(seen) : seen'[i] = seen[i]
      BY <2>2, Showing
    <3>2. Len(seen) \in Nat /\ Len(seen') \in Nat
      BY <3>1 DEF UpdateOK
    <3> QED BY <3>1, <3>2
  <2>3. CASE parseMessage \/ dispatchEnds \/ callbackReturns \/ callbackThrows
    BY <2>1, <2>3 DEF parseMessage, dispatchEnds, callbackReturns, callbackThrows, log
  <2> QED BY <2>1, <2>2, <2>3, Queueing
<1> QED BY <1>1 DEF Shown

LEMMA PassedStep ==
  ASSUME LinkOK, UpdateOK, PassedInv, [Next]_vars
  PROVE  PassedInv'
<1>0. next \in Nat \ {0} /\ turn \in Nat \ {0} /\ Len(_msgs) \in Nat /\ Len(seen) \in Nat
  BY DEF UpdateOK
<1>1. CASE UNCHANGED <<_msgs, seen, pc, next, turn>>
  BY <1>1 DEF PassedInv, Waiting, Shown
<1>2. CASE Waiting' = 1
  <2>1. \A i \in 1..Len(_msgs') : ~(i < 1)
    OBVIOUS
  <2> QED BY <1>2, <2>1 DEF PassedInv
<1>3. CASE dispatchSkip
  <2>1. /\ Waiting = next /\ Waiting' = next + 1 /\ UNCHANGED <<_msgs, seen>>
        /\ 0 \in ActionCounts
    BY <1>3 DEF dispatchSkip, Dispatching, Waiting, log
  <2>2. ASSUME NEW m \in Handled, _msgs[next].frame = Bytes(m) PROVE FALSE
    <3>1. m \in Msgs /\ Actions[m] > 0 /\ Actions[m] \in Nat
      BY ClientAssumption DEF Handled
    <3>2. 1 \in 1..(Header + Size[m])
      BY <3>1, SizeAssumption DEF Header
    <3>3. Bytes(m)[1] = [msg |-> m, at |-> 1]
      BY <3>1, <3>2, BytesOfMessage
    <3>4. Genuine(Current.frame) /\ Current.frame[1].msg = m
      BY <2>2, <3>1, <3>3 DEF Genuine, Current
    <3>5. ActionCounts = {Actions[m]}
      BY <3>4 DEF ActionCounts
    <3> QED BY <2>1, <3>1, <3>5
  <2>3. \A i \in 1..Len(_msgs) : i < next + 1 => i < next \/ i = next
    BY <1>0
  <2> QED BY <2>1, <2>2, <2>3 DEF PassedInv, Shown
<1>4. CASE dispatchCall
  <2>1. /\ next \in 1..Len(_msgs) /\ UNCHANGED <<_msgs, next, turn>>
        /\ pc = "dispatch" /\ pc' = "callback"
        /\ turn # 1 => seen' = seen
        /\ turn = 1 => \/ _msgs[next].frame \in Range(seen) /\ seen' = seen
                       \/ Len(seen') = Len(seen) + 1 /\ seen'[Len(seen) + 1] = _msgs[next].frame
    BY <1>4, Showing
  <2>2. Waiting' = next + 1
    BY <2>1 DEF Waiting
  <2>3. CASE turn # 1
    <3>1. Waiting = next + 1
      BY <2>1, <2>3 DEF Waiting
    <3> QED BY <2>1, <2>2, <2>3, <3>1 DEF PassedInv, Shown
  <2>4. CASE turn = 1
    <3>1. Waiting = next
      BY <2>1, <2>4 DEF Waiting
    <3>2. \E j \in 1..Len(seen') : seen'[j] = _msgs[next].frame
      <4>1. CASE _msgs[next].frame \in Range(seen) /\ seen' = seen
        <5>1. \E j \in DOMAIN seen : seen[j] = _msgs[next].frame
          BY <4>1 DEF Range
        <5>2. DOMAIN seen = 1..Len(seen)
          BY DEF UpdateOK
        <5> QED BY <4>1, <5>1, <5>2
      <4>2. CASE Len(seen') = Len(seen) + 1 /\ seen'[Len(seen) + 1] = _msgs[next].frame
        <5>1. Len(seen) + 1 \in 1..Len(seen')
          BY <1>0, <4>2
        <5> QED BY <4>2, <5>1
      <4> QED BY <2>1, <2>4, <4>1, <4>2
    <3>3. \A i \in 1..Len(_msgs) : i < next + 1 => i < next \/ i = next
      BY <1>0
    <3>4. ASSUME NEW i \in 1..Len(_msgs), NEW m \in Handled, i < next + 1,
                 _msgs[i].frame = Bytes(m)
          PROVE  Shown(m)'
      <4>1. CASE i < next
        BY <3>1, <3>4, <4>1, SeenGrows DEF PassedInv
      <4>2. CASE i = next
        BY <3>2, <3>4, <4>2 DEF Shown
      <4> QED BY <3>3, <3>4, <4>1, <4>2
    <3> QED BY <2>1, <2>2, <3>4 DEF PassedInv
  <2> QED BY <2>3, <2>4
<1>5. CASE callbackReturns
  <2>1. SameFrames /\ UNCHANGED <<seen>> /\ Waiting = next + 1
    BY <1>5, Marking DEF callbackReturns, log, Waiting
  <2>2. Waiting' = next + 1
    BY <1>0, <1>5 DEF callbackReturns, Waiting
  <2> QED BY <2>1, <2>2 DEF SameFrames, PassedInv, Shown
<1>6. CASE callbackThrows \/ dispatchExhausted \/ dispatchEnds \/ parseMessage
  <2>1. Waiting' = 1
    BY <1>6 DEF callbackThrows, dispatchExhausted, dispatchEnds, parseMessage, Waiting
  <2> QED BY <1>2, <2>1
<1>7. CASE PeerStep \/ connect \/ connectFails \/ disconnect \/ UNCHANGED vars \/ updateRefused
           \/ recvBytes
  BY <1>1, <1>7 DEF PeerStep, PeerSend, PeerClose, PeerReset, connect, connectFails, disconnect,
              vars, updateRefused, recvBytes, client, log
<1>8. CASE \/ update \/ selectReady \/ selectTimeout \/ recvAgain \/ recvEnd \/ recvFails
           \/ parseEnds
  <2>1. Waiting' = 1
    BY <1>8 DEF update, selectReady, selectTimeout, recvAgain, recvEnd, recvFails, parseEnds, Waiting
  <2> QED BY <1>2, <2>1
<1> QED BY <1>3, <1>4, <1>5, <1>6, <1>7, <1>8 DEF Next, UpdateStep

\* A parsed message with an action stays in the queue until it is shown.
LEMMA FrameStays ==
  ASSUME LinkOK, UpdateOK, PassedInv, [Next]_vars,
         NEW m \in Handled, NEW j \in 1..Len(_msgs), _msgs[j].frame = Bytes(m)
  PROVE  Shown(m)' \/ (j \in 1..Len(_msgs') /\ _msgs'[j].frame = Bytes(m))
<1>0. next \in Nat \ {0} /\ Len(_msgs) \in Nat
  BY DEF UpdateOK
<1>1. CASE dispatchEnds
  <2>1. pc = "dispatch" /\ next > Len(_msgs)
    BY <1>1 DEF dispatchEnds
  <2>2. Waiting \in {next, next + 1}
    BY <2>1 DEF Waiting
  <2>3. j < Waiting
    BY <1>0, <2>1, <2>2
  <2> QED BY <2>3, SeenGrows DEF PassedInv
<1>2. CASE callbackReturns \/ callbackThrows
  BY <1>2, Marking DEF SameFrames
<1>3. CASE parseMessage
  <2>1. Len(_msgs') = Len(_msgs) + 1 /\ _msgs'[j] = _msgs[j]
    BY <1>3, Parsing
  <2>2. j \in 1..Len(_msgs')
    BY <1>0, <2>1
  <2> QED BY <2>1, <2>2
<1>4. CASE _msgs' = _msgs
  BY <1>4
<1>5. CASE dispatchCall
  BY <1>4, <1>5 DEF dispatchCall
<1> QED BY <1>1, <1>2, <1>3, <1>4, <1>5, Queueing

-------------------------------------------------------------------------------
(***************************************************************************)
(* The queue is in order.                                                  *)
(***************************************************************************)
\* Message m was shown, or is in the queue (before place i).
Kept(m) == Shown(m) \/ \E j \in 1..Len(_msgs) : _msgs[j].frame = Bytes(m)
Held(m, i) == Shown(m) \/ \E j \in 1..Len(_msgs) : j < i /\ _msgs[j].frame = Bytes(m)

LEMMA HeldStays ==
  ASSUME LinkOK, UpdateOK, PassedInv, [Next]_vars, NEW m \in Handled
  PROVE  /\ Kept(m) => Kept(m)'
         /\ \A i : Held(m, i) => Held(m, i)'
<1>1. CASE Shown(m)
  BY <1>1, SeenGrows DEF Kept, Held
<1>2. ASSUME NEW j \in 1..Len(_msgs), _msgs[j].frame = Bytes(m)
      PROVE  Shown(m)' \/ (j \in 1..Len(_msgs') /\ _msgs'[j].frame = Bytes(m))
  BY <1>2, FrameStays
<1>3. Kept(m) => Kept(m)'
  BY <1>1, <1>2 DEF Kept
<1>4. ASSUME NEW i, Held(m, i) PROVE Held(m, i)'
  <2>1. CASE \E j \in 1..Len(_msgs) : j < i /\ _msgs[j].frame = Bytes(m)
    <3>1. PICK j \in 1..Len(_msgs) : j < i /\ _msgs[j].frame = Bytes(m)
      BY <2>1
    <3>2. Shown(m)' \/ (j \in 1..Len(_msgs') /\ _msgs'[j].frame = Bytes(m))
      BY <1>2, <3>1
    <3> QED BY <3>1, <3>2 DEF Held
  <2> QED BY <1>1, <1>4, <2>1 DEF Held
<1> QED BY <1>3, <1>4

\* A message keeps its place among those sent.
LEMMA SentKeeps ==
  ASSUME LinkOK, UpdateOK, [Next]_vars, NEW c \in Conns, NEW k \in 1..Len(sent[c])
  PROVE  k \in 1..Len(sent'[c]) /\ sent'[c][k] = sent[c][k]
<1>1. ASSUME NEW m \in Msgs, Adds(m)
      PROVE  k \in 1..Len(sent'[c]) /\ sent'[c][k] = sent[c][k]
  <2>1. CASE c = conns
    <3>1. /\ sent[c] \in Seq(Msgs) /\ Len(sent'[c]) = Len(sent[c]) + 1
          /\ sent'[c][k] = sent[c][k]
      BY <1>1, <2>1, Addition
    <3>2. Len(sent[c]) \in Nat
      BY <3>1
    <3> QED BY <3>1, <3>2
  <2>2. CASE c # conns
    BY <1>1, <2>2, Addition
  <2> QED BY <2>1, <2>2
<1>2. CASE sent' = sent
  BY <1>2
<1> QED BY <1>1, <1>2, Flow DEF Loses, Receives, Takes

\* What was sent before does not become part of another connection, and nothing
\* is from a connection that has just begun.
LEMMA FromBefore ==
  ASSUME LinkOK, UpdateOK, [Next]_vars, NEW c \in clean', NEW x \in Sent,
         x \in Range(sent'[c])
  PROVE  c \in clean /\ c \in Conns /\ x \in Range(sent[c])
<1>0. LinkOK'
  BY LinkStep
<1>1. c \in Conns
  BY <1>0, ClientAssumption DEF LinkOK, Conns
<1>2. x \in Range(sent[c])
  <2>1. ASSUME NEW m \in Msgs, Adds(m) PROVE x \in Range(sent[c])
    <3>1. m # x
      BY <2>1 DEF Adds
    <3> QED BY <1>1, <2>1, <3>1, Addition
  <2>2. CASE sent' = sent
    BY <2>2
  <2> QED BY <2>1, <2>2, Flow DEF Loses, Receives, Takes
<1>3. c \in clean
  <2>1. CASE clean' = clean
    BY <2>1
  <2>2. CASE connect
    <3>1. CASE c = conns'
      <4>1. sent[c] = <<>>
        BY <1>1, <2>2, <3>1 DEF connect, LinkOK
      <4>2. Range(<<>>) = {}
        BY DEF Range
      <4> QED BY <1>2, <4>1, <4>2
    <3> QED BY <2>2, <3>1 DEF connect
  <2> QED BY <2>1, <2>2, Flow DEF Adds, Loses, Receives, Takes
<1> QED BY <1>1, <1>2, <1>3

Ordered(f, c, i) ==
  \E k \in 1..Len(sent[c]) :
    /\ f = Bytes(sent[c][k])
    /\ \A h \in 1..(k - 1) : sent[c][h] \in Handled => Held(sent[c][h], i)

\* A frame in the queue that ends with a unit of a clean connection is a message of
\* it, and behind those sent before it.
OrderInv ==
  \A i \in 1..Len(_msgs) : \A c \in clean :
    From(Last(_msgs[i].frame), c) => Ordered(_msgs[i].frame, c, i)

\* What was parsed of a clean connection was shown, or is in the queue.
ParsedInv(done) ==
  \A c \in clean : \A h \in 1..done[c] : sent[c][h] \in Handled => Kept(sent[c][h])

LEMMA OrderedStays ==
  ASSUME LinkOK, UpdateOK, PassedInv, [Next]_vars, NEW c \in Conns, NEW f, NEW i, Ordered(f, c, i)
  PROVE  Ordered(f, c, i)'
<1>1. PICK k \in 1..Len(sent[c]) :
        /\ f = Bytes(sent[c][k])
        /\ \A h \in 1..(k - 1) : sent[c][h] \in Handled => Held(sent[c][h], i)
  BY DEF Ordered
<1>2. k \in 1..Len(sent'[c]) /\ sent'[c][k] = sent[c][k]
  BY SentKeeps
<1>3. ASSUME NEW h \in 1..(k - 1), sent'[c][h] \in Handled PROVE Held(sent[c][h], i)'
  <2>1. h \in 1..Len(sent[c])
    <3>1. Len(sent[c]) \in Nat
      BY DEF LinkOK
    <3> QED BY <3>1
  <2>2. sent'[c][h] = sent[c][h]
    BY <2>1, SentKeeps
  <2>3. PICK m \in Handled : m = sent[c][h] /\ m = sent'[c][h]
    BY <1>3, <2>2
  <2>4. Held(m, i)
    BY <1>1, <2>3
  <2>5. Held(m, i)'
    BY <2>4, HeldStays
  <2> QED BY <2>3, <2>5
<1> QED BY <1>1, <1>2, <1>3 DEF Ordered

\* The frame just taken is in order if what was parsed is kept.
LEMMA NewOrdered ==
  ASSUME LinkOK, UpdateOK, OneConnection, NEW off, NEW done, NEW done2, LaidOut(off, done),
         ParsedInv(done), Progress(done, done2), NEW f, f = _msgs'[Len(_msgs) + 1].frame,
         NEW c \in clean, From(Last(f), c)
  PROVE  Ordered(f, c, Len(_msgs) + 1)
<1>0. c \in Conns /\ sent[c] \in Seq(Msgs) /\ Range(sent[c]) \subseteq Msgs
  <2>1. c \in Conns /\ sent \in [Conns -> Seq(Msgs)]
    BY CleanIsMade DEF LinkOK
  <2>2. sent[c] \in Seq(Msgs)
    BY <2>1
  <2> QED BY <2>1, <2>2 DEF Range
<1>1. ASSUME NEW d \in Conns, From(Last(f), d) PROVE c = d
  BY <1>0, <1>1 DEF OneConnection, From
<1>2. ASSUME NEW d \in Conns, NextOf(d, done) PROVE Ordered(f, c, Len(_msgs) + 1)
  <2>1. PICK k \in 1..Len(sent[d]) : k = done[d] + 1 /\ f = Bytes(sent[d][k])
    BY <1>2 DEF NextOf
  <2>2. sent[d] \in Seq(Msgs) /\ sent[d][k] \in Msgs /\ sent[d][k] \in Range(sent[d])
    <3>1. sent[d] \in Seq(Msgs)
      BY DEF LinkOK
    <3> QED BY <3>1, InRange
  <2>3. Last(f).msg = sent[d][k]
    <3>1. PICK m \in Msgs, z \in Nat : m = sent[d][k] /\ z = Header + Size[m] /\ z >= 2
      BY <2>2, SizeAssumption DEF Header
    <3>2. f = Bytes(m) /\ Len(f) = z /\ \A i \in 1..z : f[i] = [msg |-> m, at |-> i]
      BY <2>1, <3>1, BytesOfMessage
    <3>3. f[z] = [msg |-> m, at |-> z]
      BY <3>1, <3>2
    <3> QED BY <3>1, <3>2, <3>3 DEF Last
  <2>4. c = d
    BY <1>1, <2>2, <2>3 DEF From
  <2>5. done[c] \in Nat /\ k - 1 = done[c]
    <3>1. done[c] \in Nat
      BY <1>0 DEF LaidOut
    <3> QED BY <2>1, <2>4, <3>1
  <2>6. ASSUME NEW h \in 1..(k - 1), sent[c][h] \in Handled PROVE Held(sent[c][h], Len(_msgs) + 1)
    <3>1. Kept(sent[c][h])
      BY <2>5, <2>6 DEF ParsedInv
    <3>2. \A j \in 1..Len(_msgs) : j < Len(_msgs) + 1
      BY DEF UpdateOK
    <3> QED BY <3>1, <3>2 DEF Kept, Held
  <2> QED BY <2>1, <2>4, <2>6 DEF Ordered
<1>3. CASE \E d \in Conns \ clean : From(Last(f), d)
  BY <1>1, <1>3
<1> QED BY <1>2, <1>3 DEF Progress

LEMMA OrderStep ==
  ASSUME LinkOK, UpdateOK, KnownInv, OneConnection, PassedInv, OrderInv,
         NEW off, NEW done, StreamInv(off, done), ParsedInv(done), [Next]_vars
  PROVE  OrderInv'
<1> SUFFICES ASSUME NEW i \in 1..Len(_msgs'), NEW c \in clean',
                    NEW f, f = _msgs'[i].frame, Last(f).msg \in Range(sent'[c])
             PROVE  Ordered(f, c, i)'
  BY DEF OrderInv, From
<1>1. ASSUME i \in 1..Len(_msgs), f = _msgs[i].frame PROVE Ordered(f, c, i)'
  <2>1. Last(f).msg \in Sent
    BY <1>1 DEF KnownInv, Known
  <2>2. c \in clean /\ c \in Conns /\ Last(f).msg \in Range(sent[c])
    BY <2>1, FromBefore
  <2>3. Ordered(f, c, i)
    BY <1>1, <2>2 DEF OrderInv, From
  <2> QED BY <2>2, <2>3, OrderedStays
<1>2. CASE ~parseMessage
  <2>1. i \in 1..Len(_msgs) /\ f = _msgs[i].frame
    BY <1>2, Handling
  <2> QED BY <1>1, <2>1
<1>3. CASE parseMessage
  <2>1. PICK n \in 2..Len(_tmpMsg) : Takes(n)
    BY <1>3, ParsingTakes
  <2>2. \/ i \in 1..Len(_msgs) /\ _msgs'[i] = _msgs[i]
        \/ i = Len(_msgs) + 1
    BY <2>1, TakesOrigin
  <2>3. CASE i \in 1..Len(_msgs) /\ _msgs'[i] = _msgs[i]
    BY <1>1, <2>3
  <2>4. CASE i = Len(_msgs) + 1
    <3>1. PICK done2 : Progress(done, done2)
      BY <2>1, LinkTakes
    <3>2. c \in clean /\ sent' = sent /\ LaidOut(off, done)
      BY <2>1 DEF Takes, StreamInv
    <3>3. From(Last(f), c) /\ f = _msgs'[Len(_msgs) + 1].frame
      BY <2>4, <3>2 DEF From
    <3>4. Ordered(f, c, Len(_msgs) + 1)
      BY <3>1, <3>2, <3>3, NewOrdered
    <3>5. Ordered(f, c, i)
      BY <2>4, <3>4
    <3>6. Ordered(f, c, i)'
      BY <3>2, <3>5, OrderedStays, CleanIsMade
    <3> QED BY <3>6
  <2> QED BY <2>2, <2>3, <2>4
<1> QED BY <1>2, <1>3

\* Steps that parse nothing leave done as it is.
LEMMA ParsedStays ==
  ASSUME LinkOK, UpdateOK, PassedInv, [Next]_vars, NEW off, NEW done, LaidOut(off, done),
         ParsedInv(done)
  PROVE  ParsedInv(done)'
<1> SUFFICES ASSUME NEW c \in clean', NEW h \in 1..done[c], sent'[c][h] \in Handled
             PROVE  Kept(sent[c][h])'
  BY DEF ParsedInv
<1>1. c \in Conns
  <2>1. LinkOK'
    BY LinkStep
  <2> QED BY <2>1, ClientAssumption DEF LinkOK, Conns
<1>2. Len(sent[c]) \in Nat /\ done[c] \in 0..Len(sent[c])
  BY <1>1, Tracks
<1>3. h \in 1..Len(sent[c])
  BY <1>2
<1>4. sent'[c][h] = sent[c][h]
  BY <1>1, <1>3, SentKeeps
<1>5. PICK m \in Handled : m = sent[c][h] /\ m = sent'[c][h]
  BY <1>4
<1>6. c \in clean
  <2>1. CASE clean' = clean
    BY <2>1
  <2>2. CASE connect
    <3>1. CASE c = conns'
      <4>1. sent[c] = <<>>
        BY <1>1, <2>2, <3>1 DEF connect, LinkOK
      <4>2. Len(sent[c]) = 0
        BY <4>1
      <4> QED BY <1>3, <4>2
    <3> QED BY <2>2, <3>1 DEF connect
  <2> QED BY <2>1, <2>2, Flow DEF Adds, Loses, Receives, Takes
<1>7. Kept(m)
  BY <1>5, <1>6 DEF ParsedInv
<1>8. Kept(m)'
  BY <1>7, HeldStays
<1> QED BY <1>5, <1>8

LEMMA ParsedTakes ==
  ASSUME LinkOK, UpdateOK, PassedInv, [Next]_vars, NEW off, NEW done, LaidOut(off, done),
         ParsedInv(done), NEW n \in 2..Len(_tmpMsg), Takes(n),
         NEW done2, Progress(done, done2)
  PROVE  ParsedInv(done2)'
<1>1. ParsedInv(done)'
  BY ParsedStays
<1>2. CASE done2 = done
  BY <1>1, <1>2
<1>3. ASSUME NEW d \in Conns, NextOf(d, done), done2 = [done EXCEPT ![d] = done[d] + 1]
      PROVE  ParsedInv(done2)'
  <2>1. done \in [Conns -> Nat] /\ sent' = sent /\ clean' = clean
    BY DEF LaidOut, Takes
  <2>2. done2[d] = done[d] + 1 /\ \A c \in Conns : c # d => done2[c] = done[c]
    BY <1>3, <2>1
  <2>3. ASSUME NEW c \in clean, NEW h \in 1..done2[c], sent'[c][h] \in Handled
        PROVE  Kept(sent[c][h])'
    <3>1. c \in Conns /\ done[c] \in Nat
      BY <2>1, CleanIsMade
    <3>2. CASE h \in 1..done[c]
      BY <1>1, <2>1, <2>3, <3>2 DEF ParsedInv
    <3>3. CASE c = d /\ h = done[d] + 1
      <4>1. _msgs'[Len(_msgs) + 1].frame = Bytes(sent'[c][h])
        BY <1>3, <2>1, <3>3 DEF NextOf
      <4>2. Len(_msgs) + 1 \in 1..Len(_msgs')
        <5>1. Len(_msgs) \in Nat /\ Len(_msgs') = Len(_msgs) + 1
          BY DEF UpdateOK, Takes
        <5> QED BY <5>1
      <4> QED BY <4>1, <4>2 DEF Kept
    <3>4. h \in 1..done[c] \/ (c = d /\ h = done[d] + 1)
      <4>1. CASE c = d
        <5>1. h \in 1..(done[c] + 1)
          BY <2>2, <4>1
        <5> QED BY <3>1, <4>1, <5>1
      <4>2. CASE c # d
        BY <2>2, <3>1, <4>2
      <4> QED BY <4>1, <4>2
    <3> QED BY <3>2, <3>3, <3>4
  <2> QED BY <2>1, <2>3 DEF ParsedInv
<1> QED BY <1>2, <1>3 DEF Progress

\* The streams and what has been parsed of them, after any step.
LEMMA StreamStep ==
  ASSUME LinkOK, UpdateOK, PassedInv, [Next]_vars, NEW off, NEW done, StreamInv(off, done),
         ParsedInv(done)
  PROVE  \E off2, done2 : StreamInv(off2, done2)' /\ ParsedInv(done2)'
<1>0. LaidOut(off, done)
  BY DEF StreamInv
<1>1. ASSUME NEW m \in Msgs, Adds(m)
      PROVE  \E off2, done2 : StreamInv(off2, done2)' /\ ParsedInv(done2)'
  BY <1>0, <1>1, LinkAdds, ParsedStays
<1>2. ASSUME NEW n \in 0..Len(wire), Loses(n)
      PROVE  \E off2, done2 : StreamInv(off2, done2)' /\ ParsedInv(done2)'
  BY <1>0, <1>2, LinkLoses, ParsedStays
<1>3. ASSUME NEW n \in 1..Len(wire), Receives(n)
      PROVE  \E off2, done2 : StreamInv(off2, done2)' /\ ParsedInv(done2)'
  BY <1>0, <1>3, LinkReceives, ParsedStays
<1>4. ASSUME NEW n \in 2..Len(_tmpMsg), Takes(n)
      PROVE  \E off2, done2 : StreamInv(off2, done2)' /\ ParsedInv(done2)'
  <2>1. PICK done2 : StreamInv(off, done2)' /\ Progress(done, done2)
    BY <1>4, LinkTakes
  <2>2. ParsedInv(done2)'
    BY <1>0, <1>4, <2>1, ParsedTakes
  <2> QED BY <2>1, <2>2
<1> QED BY <1>1, <1>2, <1>3, <1>4, Flow

-------------------------------------------------------------------------------
(***************************************************************************)
(* What is shown is in order.                                              *)
(***************************************************************************)
Delivered(f, c, i) ==
  \E k \in 1..Len(sent[c]) :
    /\ f = Bytes(sent[c][k])
    /\ \A h \in 1..(k - 1) : sent[c][h] \in Handled =>
         \E j \in 1..(i - 1) : seen[j] = Bytes(sent[c][h])

WholeInv ==
  \A i \in 1..Len(seen) : \A c \in clean :
    From(Last(seen[i]), c) => Delivered(seen[i], c, i)

LEMMA DeliveredStays ==
  ASSUME LinkOK, UpdateOK, [Next]_vars, NEW c \in Conns, NEW f, NEW i \in 1..(Len(seen) + 1),
         Delivered(f, c, i)
  PROVE  Delivered(f, c, i)'
<1>1. PICK k \in 1..Len(sent[c]) :
        /\ f = Bytes(sent[c][k])
        /\ \A h \in 1..(k - 1) : sent[c][h] \in Handled =>
             \E j \in 1..(i - 1) : seen[j] = Bytes(sent[c][h])
  BY DEF Delivered
<1>2. k \in 1..Len(sent'[c]) /\ sent'[c][k] = sent[c][k]
  BY SentKeeps
<1>3. Len(sent[c]) \in Nat /\ Len(seen) \in Nat
  BY DEF LinkOK, UpdateOK
<1>4. ASSUME NEW h \in 1..(k - 1), sent'[c][h] \in Handled
      PROVE  \E j \in 1..(i - 1) : seen'[j] = Bytes(sent'[c][h])
  <2>1. h \in 1..Len(sent[c])
    BY <1>3
  <2>2. sent'[c][h] = sent[c][h]
    BY <2>1, SentKeeps
  <2>3. PICK j \in 1..(i - 1) : seen[j] = Bytes(sent[c][h])
    BY <1>1, <1>4, <2>2
  <2>4. j \in 1..Len(seen)
    BY <1>3
  <2>5. seen'[j] = seen[j]
    BY <2>4, SeenGrows
  <2> QED BY <2>2, <2>3, <2>5
<1> QED BY <1>1, <1>2, <1>4 DEF Delivered

\* What a first call shows follows what was sent before it.
LEMMA NewDelivered ==
  ASSUME LinkOK, UpdateOK, PassedInv, OrderInv, pc = "dispatch", turn = 1,
         next \in 1..Len(_msgs), NEW c \in clean, NEW f, f = _msgs[next].frame, From(Last(f), c)
  PROVE  Delivered(f, c, Len(seen) + 1)
<1>1. Waiting = next /\ Len(seen) \in Nat /\ next \in Nat
  BY DEF Waiting, UpdateOK
<1>2. PICK k \in 1..Len(sent[c]) :
        /\ f = Bytes(sent[c][k])
        /\ \A h \in 1..(k - 1) : sent[c][h] \in Handled => Held(sent[c][h], next)
  BY DEF OrderInv, Ordered
<1>3. ASSUME NEW h \in 1..(k - 1), sent[c][h] \in Handled PROVE Shown(sent[c][h])
  <2>1. Held(sent[c][h], next)
    BY <1>2, <1>3
  <2> QED BY <1>1, <1>3, <2>1 DEF Held, PassedInv
<1>4. (Len(seen) + 1) - 1 = Len(seen)
  <2>1. \A n \in Nat : (n + 1) - 1 = n
    OBVIOUS
  <2> QED BY <1>1, <2>1, Zenon
<1> QED BY <1>2, <1>3, <1>4 DEF Delivered, Shown

LEMMA WholeStep ==
  ASSUME LinkOK, UpdateOK, KnownInv, PassedInv, OrderInv, WholeInv, [Next]_vars
  PROVE  WholeInv'
<1> SUFFICES ASSUME NEW i \in 1..Len(seen'), NEW c \in clean',
                    NEW f, f = seen'[i], Last(f).msg \in Range(sent'[c])
             PROVE  Delivered(f, c, i)'
  BY DEF WholeInv, From
<1>1. ASSUME i \in 1..Len(seen), f = seen[i] PROVE Delivered(f, c, i)'
  <2>1. Last(f).msg \in Sent
    BY <1>1 DEF KnownInv, Known
  <2>2. c \in clean /\ c \in Conns /\ Last(f).msg \in Range(sent[c])
    BY <2>1, FromBefore
  <2>3. Delivered(f, c, i)
    BY <1>1, <2>2 DEF WholeInv, From
  <2>4. i \in 1..(Len(seen) + 1)
    BY <1>1 DEF UpdateOK
  <2> QED BY <2>2, <2>3, <2>4, DeliveredStays
<1>2. CASE seen' = seen
  BY <1>1, <1>2
<1>3. CASE dispatchCall
  <2>1. /\ next \in 1..Len(_msgs) /\ pc = "dispatch"
        /\ \A j \in 1..Len(seen) : seen'[j] = seen[j]
        /\ \/ seen' = seen
           \/ /\ turn = 1 /\ Len(seen') = Len(seen) + 1
              /\ seen'[Len(seen) + 1] = _msgs[next].frame
    BY <1>3, Showing
  <2>2. CASE turn = 1 /\ Len(seen') = Len(seen) + 1 /\ seen'[Len(seen) + 1] = _msgs[next].frame
    <3>1. Len(seen) \in Nat
      BY DEF UpdateOK
    <3>2. i \in 1..Len(seen) \/ i = Len(seen) + 1
      BY <2>2, <3>1
    <3>3. CASE i \in 1..Len(seen)
      BY <1>1, <2>1, <3>3
    <3>4. CASE i = Len(seen) + 1
      <4>1. f = _msgs[next].frame
        BY <2>2, <3>4
      <4>2. Last(f).msg \in Sent
        BY <2>1, <4>1 DEF KnownInv, Known
      <4>3. c \in clean /\ c \in Conns /\ From(Last(f), c)
        BY <4>2, FromBefore DEF From
      <4>4. Delivered(f, c, Len(seen) + 1)
        BY <2>1, <2>2, <4>1, <4>3, NewDelivered
      <4>5. Delivered(f, c, i) /\ i \in 1..(Len(seen) + 1)
        BY <3>1, <3>4, <4>4
      <4>6. Delivered(f, c, i)'
        BY <4>3, <4>5, DeliveredStays
      <4> QED BY <4>6
    <3> QED BY <3>2, <3>3, <3>4
  <2> QED BY <1>2, <2>1, <2>2
<1>4. CASE parseMessage \/ dispatchEnds \/ callbackReturns \/ callbackThrows
  BY <1>2, <1>4 DEF parseMessage, dispatchEnds, callbackReturns, callbackThrows, log
<1> QED BY <1>2, <1>3, <1>4, Queueing

-------------------------------------------------------------------------------
DeliveryInv ==
  /\ OnceInv
  /\ OneConnection
  /\ PassedInv
  /\ OrderInv
  /\ WholeInv
  /\ \E off, done : StreamInv(off, done) /\ ParsedInv(done)

LEMMA InitDelivery == Init => DeliveryInv
<1> SUFFICES ASSUME Init PROVE DeliveryInv
  OBVIOUS
<1>1. /\ _tmpMsg = <<>> /\ wire = <<>> /\ _msgs = <<>> /\ seen = <<>> /\ clean = {}
      /\ sent = [c \in Conns |-> <<>>]
  BY DEF Init
<1>2. 1..Len(<<>>) = {} /\ Len(<<>>) = 0
  OBVIOUS
<1>3. \A c \in Conns : Range(sent[c]) = {} /\ Len(sent[c]) = 0
  BY <1>1 DEF Range
<1>4. OneConnection /\ PassedInv /\ OrderInv /\ WholeInv
  BY <1>1, <1>2, <1>3 DEF OneConnection, PassedInv, OrderInv, WholeInv
<1>5. PICK off, done : off = [c \in Conns |-> [j \in Nat |-> 0]] /\ done = [c \in Conns |-> 0]
  OBVIOUS
<1>6. LaidOut(off, done)
  <2>1. /\ off \in [Conns -> [Nat -> Nat]] /\ done \in [Conns -> Nat]
        /\ \A c \in Conns : done[c] = 0
        /\ \A c \in Conns : \A j \in Nat : off[c][j] = 0
    BY <1>5
  <2>2. ASSUME NEW c \in Conns PROVE Layout(sent[c], 0, off[c])
    <3>1. \A j \in 1..(0 + 1) : off[c][j] = 0
      BY <2>1
    <3> QED BY <2>1, <3>1 DEF Layout, Rising
  <2> QED BY <1>3, <2>1, <2>2 DEF LaidOut
<1>7. CleanLink(off, done) /\ ParsedInv(done)
  BY <1>1 DEF CleanLink, ParsedInv
<1>8. MixedLink(off, done)
  <2>1. 0 \in 0..0 /\ (0 + 1)..0 = {}
    OBVIOUS
  <2> QED BY <1>1, <1>2, <2>1 DEF MixedLink
<1> QED BY <1>4, <1>6, <1>7, <1>8, InitOnce DEF DeliveryInv, StreamInv

LEMMA NextDelivery == DeliveryInv /\ [Next]_vars => DeliveryInv'
<1> SUFFICES ASSUME DeliveryInv, [Next]_vars PROVE DeliveryInv'
  OBVIOUS
<1>1. /\ OnceInv /\ LinkOK /\ UpdateOK /\ KnownInv
      /\ OneConnection /\ PassedInv /\ OrderInv /\ WholeInv
  BY DEF DeliveryInv, OnceInv
<1>2. PICK off, done : StreamInv(off, done) /\ ParsedInv(done)
  BY DEF DeliveryInv
<1>3. OnceInv' /\ OneConnection' /\ PassedInv' /\ WholeInv'
  BY <1>1, NextOnce, OneConnectionStep, PassedStep, WholeStep
<1>4. OrderInv'
  BY <1>1, <1>2, OrderStep
<1>5. \E off2, done2 : StreamInv(off2, done2)' /\ ParsedInv(done2)'
  BY <1>1, <1>2, StreamStep
<1> QED BY <1>3, <1>4, <1>5 DEF DeliveryInv

\* On a connection that began with an empty buffer every frame shown is one message
\* exactly as the peer sent it, and those sent before it that have an action were
\* shown before it: for every number and size of messages, however recv cuts the
\* stream, and whatever connections were made before or are made by a callback
\* (client.cpp:82-124).
THEOREM DeliveryCorrect == SafeSpec => []WholeAndInOrder
<1>1. DeliveryInv => WholeAndInOrder
  <2> SUFFICES ASSUME DeliveryInv, NEW i \in DOMAIN seen, NEW c \in clean,
                      Last(seen[i]).msg \in Range(sent[c])
               PROVE  /\ Genuine(seen[i])
                      /\ \E k \in DOMAIN sent[c] :
                           /\ seen[i] = Bytes(sent[c][k])
                           /\ \A h \in 1..(k - 1) : sent[c][h] \in Handled =>
                                \E j \in 1..(i - 1) : seen[j] = Bytes(sent[c][h])
    BY DEF WholeAndInOrder
  <2>1. LinkOK /\ UpdateOK /\ WholeInv
    BY DEF DeliveryInv, OnceInv
  <2>2. c \in Conns /\ sent[c] \in Seq(Msgs) /\ i \in 1..Len(seen)
    BY <2>1, CleanIsMade DEF LinkOK, UpdateOK
  <2>3. Delivered(seen[i], c, i)
    BY <2>1, <2>2 DEF WholeInv, From
  <2>4. PICK k \in 1..Len(sent[c]) :
          /\ seen[i] = Bytes(sent[c][k])
          /\ \A h \in 1..(k - 1) : sent[c][h] \in Handled =>
               \E j \in 1..(i - 1) : seen[j] = Bytes(sent[c][h])
    BY <2>3 DEF Delivered
  <2>5. k \in DOMAIN sent[c] /\ sent[c][k] \in Msgs
    BY <2>2, <2>4
  <2> QED BY <2>4, <2>5 DEF Genuine
<1> QED BY <1>1, InitDelivery, NextDelivery, PTL DEF SafeSpec

===============================================================================
