----------------------------- MODULE MCPermits -----------------------------
(***************************************************************************)
(* Three permits of one plot: 1 and 3 compete for the same days, 2 extends *)
(* 1 from the day after its last.                                          *)
(***************************************************************************)
EXTENDS Permits

MCParent == [p \in Permits |-> IF p = 2 THEN 1 ELSE NoPermit]
MCFirst == <<0, 1, 0>>
MCLast == <<0, 1, 1>>
MCLoad == <<2, 1, 2>>
MCTicketLast == <<0, 3, 3>>
MCTotal == [S \in SUBSET Permits |-> MapThenSumSet(LAMBDA p : Load[p], S)]
=============================================================================
