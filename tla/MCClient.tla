------------------------------- MODULE MCClient -------------------------------
(***************************************************************************)
(* Small instances of Client.  Messages with no data, with data, and with  *)
(* data of two units, so that a read can end inside a header, inside the   *)
(* data and between two messages.  Every type has two actions.             *)
(***************************************************************************)
EXTENDS Client, TLC

CONSTANTS empty, short, long

Sizes == [m \in Msgs |-> CASE m = empty -> 0 [] m = short -> 1 [] OTHER -> 2]
Counts == [m \in Msgs |-> 2]
===============================================================================
