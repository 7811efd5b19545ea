---------------------------- MODULE MCBenchRate ----------------------------
(* Instances of BenchRate for TLC. *)
EXTENDS BenchRate

MCMaxStreams == [c \in Conns |-> 8]
MCWindow == [c \in Conns |-> 1]
MCConnWindow == [c \in Conns |-> Batch]
============================================================================
