------------------------------ MODULE RingBuffer ------------------------------
(***************************************************************************)
(* The ring buffer of src/bonus/ring_buffer: a vector of Cap bytes, the    *)
(* index _head of the next write, the index _tail of the next read and the *)
(* number _size of the bytes stored.  Every operation either completes or  *)
(* throws std::out_of_range, modelled by the reply Refused.                *)
(***************************************************************************)
EXTENDS Naturals, Sequences

CONSTANTS Bytes,     \* the values of a byte
          Cap,       \* _buffer.size()
          Refused    \* std::out_of_range

ASSUME CapAssumption == Cap \in Nat
ASSUME BytesAssumption == 0 \in Bytes /\ Refused \notin Seq(Bytes)

VARIABLES _buffer, _head, _tail, _size,
          reply      \* what the last call returned; <<>> for void

vars == <<_buffer, _head, _tail, _size, reply>>

Slots == 0..(Cap - 1)

\* The indices stay in range, also for a buffer of capacity 0, in which every
\* write is refused before it reaches the modulo.
TypeOK ==
  /\ _buffer \in [Slots -> Bytes]
  /\ _head \in Slots \union {0}
  /\ _tail \in Slots \union {0}
  /\ _size \in 0..Cap
  /\ reply \in Seq(Bytes) \union {Refused}

Init ==
  /\ _buffer = [i \in Slots |-> 0]
  /\ _head = 0 /\ _tail = 0 /\ _size = 0
  /\ reply = <<>>

isEmpty == _size = 0
isFull == _size = Cap
capacityAvailable == Cap - _size

Refuse == reply' = Refused /\ UNCHANGED <<_buffer, _head, _tail, _size>>

\* An index moved on by n places; a loop that runs no iteration takes no
\* remainder.
Advance(i, n) == IF n = 0 THEN i ELSE (i + n) % Cap

-------------------------------------------------------------------------------
(***************************************************************************)
(* Writes.  The loops store bs from _head on, wrapping at the end.         *)
(***************************************************************************)
Offset(i) == (i + Cap - _head) % Cap

Store(bs) ==
  /\ _buffer' = [i \in Slots |-> IF Offset(i) < Len(bs) THEN bs[Offset(i) + 1]
                                                        ELSE _buffer[i]]
  /\ _head' = Advance(_head, Len(bs))
  /\ _size' = _size + Len(bs)
  /\ reply' = <<>>
  /\ UNCHANGED _tail

\* push of a byte (bs of length 1), of a string and of a vector.
push(bs) ==
  \/ ~isFull /\ Len(bs) <= capacityAvailable /\ Store(bs)
  \/ (isFull \/ Len(bs) > capacityAvailable) /\ Refuse

\* pushInto does not test isFull first: it accepts no bytes into a full buffer.
pushInto(bs) ==
  \/ Len(bs) <= capacityAvailable /\ Store(bs)
  \/ Len(bs) > capacityAvailable /\ Refuse

-------------------------------------------------------------------------------
(***************************************************************************)
(* Reads.                                                                  *)
(***************************************************************************)
Stored(n) == [k \in 1..n |-> _buffer[Advance(_tail, k - 1)]]

Load(n) ==
  /\ reply' = Stored(n)
  /\ _tail' = Advance(_tail, n)
  /\ _size' = _size - n
  /\ UNCHANGED <<_buffer, _head>>

\* pop() is pop(1); popInto(data, n) makes the same test and the same loop.
pop(n) ==
  \/ n <= _size /\ Load(n)
  \/ n > _size /\ Refuse

\* A plausible slip: only emptiness is tested.
MutantPeek(n) ==
  \/ /\ ~isEmpty
     /\ reply' = Stored(n)
     /\ UNCHANGED <<_buffer, _head, _tail, _size>>
  \/ isEmpty /\ Refuse

\* peek() is peek(1).
peek(n) ==
  \/ /\ ~isEmpty /\ n <= _size
     /\ reply' = Stored(n)
     /\ UNCHANGED <<_buffer, _head, _tail, _size>>
  \/ (isEmpty \/ n > _size) /\ Refuse

\* A plausible slip: the read index is left where it was.
MutantClear ==
  /\ _head' = 0 /\ _size' = 0
  /\ reply' = <<>>
  /\ UNCHANGED <<_buffer, _tail>>

clear ==
  /\ _head' = 0 /\ _tail' = 0 /\ _size' = 0
  /\ reply' = <<>>
  /\ UNCHANGED _buffer

-------------------------------------------------------------------------------
Requests == UNION {[1..n -> Bytes] : n \in 0..(Cap + 1)}

Next ==
  \/ \E bs \in Requests : push(bs) \/ pushInto(bs)
  \/ \E n \in 0..(Cap + 1) : pop(n) \/ peek(n)
  \/ clear

Spec == Init /\ [][Next]_vars

-------------------------------------------------------------------------------
\* The write index is the read index plus the number of bytes stored, after
\* any sequence of writes, reads, refusals and clears, across any number of
\* wraps: _head = _tail alone cannot tell a full buffer from an empty one, so
\* the three members must never drift apart (ring_buffer.cpp:23-25, 50-52,
\* 156-161).
IndicesAgree == _head = Advance(_tail, _size)

\* The ring buffer is a bounded FIFO queue of bytes: the bytes between _tail
\* and _head, wrapped, are those written and not yet read, in order.
Fifo == INSTANCE BoundedFifo WITH queue <- Stored(_size)
ImplementsFifo == Fifo!Spec

\* What README.md:680 and 695 say of a full ring, that new data overwrite the
\* old: a byte can be pushed and is not refused.  The code throws instead
\* (ring_buffer.cpp:20-21), as ring_buffer.hpp:39 and the tests say.
FullRingOverwrites ==
  isFull => \E b \in Bytes : ENABLED (push(<<b>>) /\ reply' # Refused)
===============================================================================
