--------------------------- MODULE MCSettlement ---------------------------
(***************************************************************************)
(* Settlement on a small instance: an application billed for 2 (the least  *)
(* amount its fixed shares split) and one whose verified claim makes it    *)
(* free.                                                                   *)
(***************************************************************************)
EXTENDS Settlement

CONSTANTS billed, free, t1, t2, c1, c2, k1, k2

MCPrice == [a \in Apps |-> IF a = billed THEN 2 ELSE 0]
MCSplitFloor == [a \in Apps |-> 2]
=============================================================================
