------------------------------ MODULE DataBuffer ------------------------------
(***************************************************************************)
(* DataBuffer (src/data_structures/data_buffer) and the typed operators of *)
(* Message (src/network/message), which pass on to it.  A simple type, a   *)
(* size_t and a character take one cell each, and arithmetic on size_t     *)
(* wraps at Width.                                                         *)
(***************************************************************************)
EXTENDS Naturals, Sequences, FiniteSets

CONSTANTS Width,       \* number of values of a size_t
          Cells,       \* the contents that the program writes, below Width
          Strings,     \* the strings that the program writes
          MaxBytes     \* bound on the size of the buffer, below Width

VARIABLES bytes,       \* _buffer
          _cursor,
          fields,      \* history: what operator<< wrote, and where
          lastRead,    \* what the last call read and from where, or NoRead
          wild         \* a string was copied from outside the buffer

vars == <<bytes, _cursor, fields, lastRead, wild>>

NoRead == [kind |-> "none"]

Init ==
  /\ bytes = <<>> /\ _cursor = 0
  /\ fields = {} /\ lastRead = NoRead /\ wild = FALSE

\* operator>> is const and may be called by several readers of one message;
\* all of them move the one cursor.
Moves(cursor) ==
  /\ _cursor' = cursor
  /\ lastRead' = NoRead
  /\ UNCHANGED <<bytes, fields, wild>>

append(data) ==
  /\ Len(bytes) + Len(data) <= MaxBytes
  /\ bytes' = bytes \o data
  /\ lastRead' = NoRead
  /\ UNCHANGED <<_cursor, fields, wild>>

Write(kind, value, data) ==
  /\ Len(bytes) + Len(data) <= MaxBytes
  /\ bytes' = bytes \o data
  /\ fields' = fields \union {[kind |-> kind, at |-> Len(bytes), value |-> value]}
  /\ lastRead' = NoRead
  /\ UNCHANGED <<_cursor, wild>>

writeValue(cell) == Write("value", <<cell>>, <<cell>>)
writeString(string) == Write("string", string, <<Len(string)>> \o string)

-------------------------------------------------------------------------------
Beyond(n) == n % Width > Len(bytes)

Read(kind, ok, value, cursor) ==
  /\ lastRead' = [kind |-> kind, at |-> _cursor, ok |-> ok, value |-> value]
  /\ _cursor' = cursor
  /\ UNCHANGED <<bytes, fields>>

readValue ==
  /\ IF Beyond(1 + _cursor)
     THEN Read("value", FALSE, <<>>, _cursor)
     ELSE Read("value", TRUE, <<bytes[_cursor + 1]>>, _cursor + 1)
  /\ UNCHANGED wild

\* The size is read first and stays read when the characters are not there.
readString ==
  IF Beyond(1 + _cursor)
  THEN Read("string", FALSE, <<>>, _cursor) /\ UNCHANGED wild
  ELSE LET size == bytes[_cursor + 1]
           begin == _cursor + 1
       IN  \/ /\ Beyond(size + begin)
              /\ Read("string", FALSE, <<>>, begin)
              /\ UNCHANGED wild
           \/ /\ ~Beyond(size + begin) /\ size + begin < Width
              /\ Read("string", TRUE, SubSeq(bytes, begin + 1, begin + size), begin + size)
              /\ UNCHANGED wild
           \/ /\ ~Beyond(size + begin) /\ size + begin >= Width
              /\ Read("string", FALSE, <<>>, (begin + size) % Width)
              /\ wild' = TRUE

\* A plausible slip: the amount alone is compared with the size.
MutantIncreaseCursor(amount) == ~Beyond(amount) /\ Moves((_cursor + amount) % Width)

increaseCursor(amount) == ~Beyond(_cursor + amount) /\ Moves((_cursor + amount) % Width)
decreaseCursor(amount) == amount <= _cursor /\ Moves(_cursor - amount)
reset == Moves(0)

clear ==
  /\ bytes' = <<>> /\ _cursor' = 0
  /\ fields' = {} /\ lastRead' = NoRead
  /\ UNCHANGED wild

\* size(), the number of cells that are left: an unsigned difference.
size == (Len(bytes) + Width - _cursor) % Width
\* data(), the part that has not been read: what a Message is sent with.
data == SubSeq(bytes, _cursor + 1, Len(bytes))

Next ==
  /\ ~wild
  /\ \/ \E cell \in Cells : writeValue(cell) \/ append(<<cell>>)
     \/ \E string \in Strings : writeString(string)
     \/ \E amount \in 1..MaxBytes : increaseCursor(amount) \/ decreaseCursor(amount)
     \/ readValue \/ readString \/ reset \/ clear

Spec == Init /\ [][Next]_vars

\* Reading with the type that was written at the cursor gives back the value,
\* first in, first out, wherever refused reads and moves of the cursor have left
\* it; size() is the length of what is left; and only a string read where none
\* was written can wrap the sum of size and cursor and leave the buffer
\* (data_buffer.cpp:38-73, data_buffer.hpp:68-77).
ReadsBackWhatWasWritten ==
  /\ ~wild => size = Len(data)
  /\ \A field \in fields :
       lastRead.kind = field.kind /\ lastRead.at = field.at
         => lastRead.ok /\ lastRead.value = field.value

\* What the header says of the buffer and shows with an example, last in, first
\* out (data_buffer.hpp:12, 20-31): the first read after two writes of its type
\* gives the value written last.  The code reads from the beginning
\* (data_buffer.hpp:68-77), as README.md:214-220 and the tests say.
LastInFirstOut ==
  lastRead # NoRead /\ lastRead.at = 0 =>
    \A first, last \in fields :
      ( /\ first.kind = lastRead.kind /\ first.at = 0
        /\ last.kind = lastRead.kind /\ \A field \in fields : field.at <= last.at )
      => lastRead.value = last.value
===============================================================================
