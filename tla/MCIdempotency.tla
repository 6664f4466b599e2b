--------------------------- MODULE MCIdempotency ---------------------------
(* Idempotency on a small instance: two calls of one body, one of another.  *)
EXTENDS Idempotency

CONSTANTS x, y, r1, r2, r3

MCBody == [r \in Requests |-> IF r = r3 THEN y ELSE x]
=============================================================================
