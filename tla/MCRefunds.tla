----------------------------- MODULE MCRefunds -----------------------------
(***************************************************************************)
(* Refunds on a small instance: an invoice split with nobody, by a third   *)
(* (which floors) or by a fixed amount next to a half, and two refunds.    *)
(***************************************************************************)
EXTENDS Refunds

CONSTANTS f1, f2, p1, p2

Percent(p, n) == [kind |-> "percent", recipient |-> p, percent |-> n]
Fixed(p, n) == [kind |-> "fixed", recipient |-> p, fixed_amount |-> n]

MCRuleSets == {<<>>, <<Percent(p1, 3333)>>, <<Percent(p1, 5000), Fixed(p2, 2)>>}
=============================================================================
