--------------------------- MODULE MCConnections ---------------------------
(* Instances of Connections for TLC. *)
EXTENDS Connections

CONSTANTS w1, w2

MCWorkers == {w1, w2}
=============================================================================
