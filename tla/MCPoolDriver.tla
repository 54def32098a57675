---------------------------- MODULE MCPoolDriver ----------------------------
(* initialize(1, 2) and two tasks: one thread of each of initialize's loops. *)
EXTENDS PoolDriver

CONSTANTS k1, k2, k3

=============================================================================
