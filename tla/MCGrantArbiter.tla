--------------------------- MODULE MCGrantArbiter ---------------------------
(* A small instance of GrantArbiter for TLC. *)
EXTENDS GrantArbiter, TLC

CONSTANTS w1, w2

Pair == {w1, w2}
=============================================================================
