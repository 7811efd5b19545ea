------------------------------ MODULE MCClient ------------------------------
(* Instances of Client for TLC. *)
EXTENDS Client

Here == [addrs |-> {"loopback"}, listable |-> TRUE]
Interface == [addrs |-> {"interface", "other"}, listable |-> TRUE]
Unlisted == [addrs |-> {"interface"}, listable |-> FALSE]
Unknown == [addrs |-> {}, listable |-> TRUE]

\* A server on this machine, and one elsewhere whose own pid is a leftover's here; and a mode that
\* does not exist.
MCStarts ==
    {[mode |-> "auto", host |-> h, server |-> 1, own |-> 1] : h \in {Here, Interface, Unlisted}}
    \cup {[mode |-> m, host |-> Unknown, server |-> 1, own |-> 1] : m \in {"local", "automatic"}}
    \cup {[mode |-> m, host |-> Here, server |-> 0, own |-> 2] : m \in {"local", "remote"}}

Plain == [sortOK |-> TRUE, known |-> TRUE, report |-> FALSE, rate |-> FALSE, sendRate |-> 6, batch |-> 0,
          batchBytes |-> 9, concurrency |-> 0, streams |-> 0]
Rated(r, b, bytes) ==
    [Plain EXCEPT !.rate = TRUE, !.sendRate = r, !.batch = b, !.batchBytes = bytes]

\* Every start with both benchmarks, every command line on a server of this machine.
MCCommandLines ==
    {[run |-> s, flags |-> Rated(6, 0, 9)] : s \in MCStarts}
    \cup {[run |-> [mode |-> "remote", host |-> Unlisted, server |-> 1, own |-> 1], flags |-> f] : f \in
              {Plain, [Plain EXCEPT !.sortOK = FALSE], [Plain EXCEPT !.known = FALSE],
               [Plain EXCEPT !.report = TRUE], [Plain EXCEPT !.concurrency = 1, !.streams = 2],
               Rated(6, 0, 1), Rated(6, 0, 100), Rated(0, 2, 9), Rated(6, 3, 9), Rated(6, -1, 9)}}
=============================================================================
