----------------------------- MODULE MCDelivery -----------------------------
(***************************************************************************)
(* One notice two sweeps may write, two workers, two administrators.       *)
(***************************************************************************)
EXTENDS Delivery
=============================================================================
