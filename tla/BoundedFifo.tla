----------------------------- MODULE BoundedFifo ------------------------------
(***************************************************************************)
(* What a bounded byte queue promises: bytes come out in the order they    *)
(* went in, a transfer happens as a whole or is refused with no effect,    *)
(* and a request that fits is not refused (a transfer of no byte at all to *)
(* a full queue or a look at an empty one may be).  RingBuffer implements  *)
(* this.                                                                   *)
(***************************************************************************)
EXTENDS Naturals, Sequences

CONSTANTS Bytes, Cap, Refused

VARIABLES queue,   \* the bytes stored, oldest first
          reply    \* what the last request returned

fvars == <<queue, reply>>

Init == queue = <<>> /\ reply = <<>>

Refuse == reply' = Refused /\ UNCHANGED queue

Write(bs) ==
  \/ /\ Len(queue) + Len(bs) <= Cap
     /\ queue' = queue \o bs
     /\ reply' = <<>>
  \/ /\ Len(queue) + Len(bs) > Cap \/ Len(queue) = Cap
     /\ Refuse

Read(n) ==
  \/ /\ n <= Len(queue)
     /\ reply' = SubSeq(queue, 1, n)
     /\ queue' = SubSeq(queue, n + 1, Len(queue))
  \/ /\ n > Len(queue)
     /\ Refuse

Look(n) ==
  \/ /\ n <= Len(queue)
     /\ reply' = SubSeq(queue, 1, n)
     /\ UNCHANGED queue
  \/ /\ n > Len(queue) \/ queue = <<>>
     /\ Refuse

Clear == queue' = <<>> /\ reply' = <<>>

\* Requests of up to one byte more than there is room for.
Requests == UNION {[1..n -> Bytes] : n \in 0..(Cap + 1)}

Next ==
  \/ \E bs \in Requests : Write(bs)
  \/ \E n \in 0..(Cap + 1) : Read(n) \/ Look(n)
  \/ Clear

Spec == Init /\ [][Next]_fvars
===============================================================================
