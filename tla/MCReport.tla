------------------------------ MODULE MCReport ------------------------------
(* Instances of Report for TLC. *)
EXTENDS Report

MCFrameworkList == <<"fib", "gin", "nethttp">>

\* Ties on the first key and on both, the best by a hair, nothing at all and no samples; and a
\* framework whose two benchmarks ran over different connections, or whose report has no value.
MCResults ==
    [BenchEcho |-> {[tps |-> 0, cpuAvg |-> 0, conns |-> "1"], [tps |-> 199, cpuAvg |-> 1, conns |-> "1"],
                    [tps |-> 200, cpuAvg |-> 2, conns |-> "1"], [tps |-> 200, cpuAvg |-> 0, conns |-> "2"],
                    [tps |-> 1, cpuAvg |-> 1, conns |-> "1"]},
     BenchMultiplex |-> {[tps |-> 7, cpuAvg |-> 1, conns |-> "1"], [tps |-> 7, cpuAvg |-> 2, conns |-> "2"],
                         [tps |-> 5, cpuAvg |-> 1, conns |-> ""]}]
=============================================================================
