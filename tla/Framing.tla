------------------------------- MODULE Framing --------------------------------
(***************************************************************************)
(* How messages travel as bytes (src/network/message): a header that holds *)
(* the type and the size of the data, then the data.  A message becomes a  *)
(* sequence of units: the type, the size, and Size[m] units of data.  A    *)
(* unit stands for the bytes of one field, so a stream can be cut inside   *)
(* the header and inside the data.                                         *)
(*                                                                         *)
(* A receiver does not see which message a unit comes from.  It takes the  *)
(* second unit of what it has not read yet for a size: if that unit is not *)
(* one, the size it reads is arbitrary.                                    *)
(***************************************************************************)
EXTENDS Naturals, Sequences

CONSTANTS Msgs,   \* the messages that can be sent
          Size    \* the number of units of data of each

ASSUME SizeAssumption == Size \in [Msgs -> Nat]

Header == 2

\* getSerializedData
Bytes(m) == [i \in 1..(Header + Size[m]) |-> [msg |-> m, at |-> i]]

Units == UNION {{[msg |-> m, at |-> i] : i \in 1..(Header + Size[m])} : m \in Msgs}

\* The sizes that the header at the front of buf may be read as.  All sizes
\* that exceed what buf holds have the same effect.
SizesRead(buf) ==
  IF buf[2].at = 2 THEN {Size[buf[2].msg]} ELSE 0..Len(buf)

\* isComplet answers true, and a frame of n units is taken.
CompleteWith(buf, n) ==
  /\ Len(buf) >= Header
  /\ \E s \in SizesRead(buf) : n = Header + s /\ n <= Len(buf)

\* isComplet answers false.
Incomplete(buf) ==
  \/ Len(buf) < Header
  \/ Len(buf) >= Header /\ \E s \in SizesRead(buf) : Header + s > Len(buf)

\* A frame that is exactly one message as it was sent.
Genuine(f) == \E m \in Msgs : f = Bytes(m)

Take(buf, n) == SubSeq(buf, 1, n)
Drop(buf, n) == SubSeq(buf, n + 1, Len(buf))
===============================================================================
