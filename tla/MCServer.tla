------------------------------- MODULE MCServer -------------------------------
(***************************************************************************)
(* Small instances of Server.  The descriptors are one for the listening   *)
(* socket and as few as the clients need, so that a closed one is used     *)
(* again at once, as the kernel does.                                      *)
(***************************************************************************)
EXTENDS Server

CONSTANTS m1, m2

Sizes == [m \in Msgs |-> IF m = m1 THEN 1 ELSE 0]
Symmetry == Permutations(Peers)
===============================================================================
