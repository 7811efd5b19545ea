---------------------------- MODULE MCBenchEcho ----------------------------
(* The instance of BenchEcho for TLC. *)
EXTENDS BenchEcho

CONSTANTS w1, w2

MCWorkers == {w1, w2}
=============================================================================
