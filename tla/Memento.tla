------------------------------- MODULE Memento --------------------------------
(***************************************************************************)
(* Memento (src/design_patterns/memento): an object whose members are      *)
(* simple values (one cell) and strings (a cell for the size, then the     *)
(* characters) saves them in a Snapshot and loads them again.  A member is *)
(* the sequence of its cells.                                              *)
(***************************************************************************)
EXTENDS Naturals, Sequences, SequencesExt

CONSTANTS Layout,      \* the kinds of the members, "value" or "string"
          Objects      \* the contents of an object that are looked at

VARIABLES object, snapshot,
          snapCursor,  \* _cursor of the snapshot that the program keeps
          saved,       \* the object that was saved
          loaded       \* "careful" or "careless" after a load, else "no"

vars == <<object, snapshot, snapCursor, saved, loaded>>

Members == DOMAIN Layout

Init ==
  /\ object \in Objects /\ snapshot = <<>>
  /\ snapCursor = 0
  /\ saved = <<>> /\ loaded = "no"

Written(value, kind) == IF kind = "value" THEN value ELSE <<Len(value)>> \o value

\* _saveToSnapshot writes the members one after the other.
save ==
  /\ snapshot' = FlattenSeq([i \in Members |-> Written(object[i], Layout[i])])
  /\ snapCursor' = 0
  /\ saved' = object /\ loaded' = "no"
  /\ UNCHANGED object

modify(contents) ==
  /\ object' = contents /\ loaded' = "no"
  /\ UNCHANGED <<snapshot, snapCursor, saved>>

\* The program reads from the snapshot itself.
peek ==
  /\ snapCursor < Len(snapshot)
  /\ snapCursor' = snapCursor + 1
  /\ UNCHANGED <<object, snapshot, saved, loaded>>

-------------------------------------------------------------------------------
(***************************************************************************)
(* _loadFromSnapshot reads the members in statements; starts are the ones  *)
(* that begin a statement.  The operator>> of a simple type returns a COPY *)
(* of the Snapshot, so that the rest of the statement moves the cursor of  *)
(* the copy; the one of a string returns the Snapshot itself.              *)
(***************************************************************************)
\* A plausible slip: the operator of strings is declared like the other one.
MutantReturnsCopy(kind) == kind \in {"value", "string"}

ReturnsCopy(kind) == kind = "value"

Size(kind, at) == IF kind = "value" THEN 1 ELSE 1 + snapshot[at + 1]
Fits(kind, at) == at < Len(snapshot) /\ at + Size(kind, at) <= Len(snapshot)
Value(kind, at) ==
  SubSeq(snapshot, IF kind = "value" THEN at + 1 ELSE at + 2, at + Size(kind, at))

\* tmp is the cursor of load's Snapshot, here the one of what the statement
\* goes on with, copied whether that is a copy; a read that throws stops all.
Start(cursor) == [tmp |-> cursor, here |-> cursor, copied |-> FALSE, values |-> <<>>, ok |-> TRUE]

ReadMember(load, i, starts) ==
  LET at == IF i \in starts THEN load.tmp ELSE load.here
      copied == load.copied /\ i \notin starts
      end == at + Size(Layout[i], at)
  IN  IF load.ok /\ Fits(Layout[i], at)
      THEN [tmp |-> IF copied THEN load.tmp ELSE end, here |-> end,
            copied |-> copied \/ ReturnsCopy(Layout[i]),
            values |-> Append(load.values, Value(Layout[i], at)), ok |-> TRUE]
      ELSE [load EXCEPT !.ok = FALSE]

\* A statement that reads something after a simple value leaves the cursor
\* behind for the statements that follow.
Careful(starts) ==
  \A i, j \in Members :
    i < j /\ Layout[i] = "value" /\ (\A k \in (i + 1)..j : k \notin starts)
      => \A k \in starts : k <= i

\* load() copies the snapshot and resets the copy.
load(starts) ==
  LET result == FoldLeftDomain(LAMBDA l, i : ReadMember(l, i, starts), Start(0), Layout)
  IN  /\ saved # <<>>
      /\ object' = [i \in Members |-> IF i <= Len(result.values) THEN result.values[i]
                                                                 ELSE object[i]]
      /\ loaded' = IF Careful(starts) THEN "careful" ELSE "careless"
      /\ UNCHANGED <<snapshot, snapCursor, saved>>

Next ==
  \/ save \/ peek
  \/ \E contents \in Objects : modify(contents)
  \/ \E later \in SUBSET (Members \ {1}) : load(later \union {1})

Spec == Init /\ [][Next]_vars

\* A load restores the object that was saved, as often as it is repeated and
\* whatever was read from the snapshot in between, if no statement but the last
\* goes on after a simple value (memento.hpp:69-77, memento.cpp:15-41).
LoadRestores == loaded = "careful" => object = saved
===============================================================================
