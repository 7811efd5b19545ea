---------------------------- MODULE Connections ----------------------------
(***************************************************************************)
(* Connections.Run (connection.go): dialling workers (the goroutines of    *)
(* perf's Calculator) that each make a connection, trying again on         *)
(* failure, on addresses they take in turn from one shared index; then the *)
(* stream limits of what was connected.  The module Dial has what one dial *)
(* does: here it succeeds or fails.                                        *)
(***************************************************************************)
EXTENDS Integers, Sequences, FiniteSets, FiniteSetsExt, Functions

CONSTANTS
    Workers,            \* the goroutines that dial, cs.Concurrency of them
    NumConnections,     \* cs.NumConnections
    RetryTimes,         \* cs.RetryTimes
    NAddrs,             \* len(cs.serverAddrs)
    IdxRange,           \* the values of serverIdx, 2^32 in the code
    Limits              \* stream limits a server may set

Addrs == 0 .. NAddrs - 1

ASSUME ConstantsAssumption ==
    /\ NumConnections \in Nat \ {0} /\ RetryTimes \in Nat \ {0}
    /\ NAddrs \in Nat \ {0} /\ IdxRange \in Nat \ {0}
    /\ Limits \subseteq Nat /\ IsFiniteSet(Workers)

VARIABLES
    jobs,               \* calls of doOnce the Calculator has still to make
    success, failed,
    wpc, try, addr,     \* by worker: where it is, its i, the address it dials
    serverIdx,
    conns,              \* cs.conns: the stream limit of each connection
    phase,              \* Run: "dial", then "done"
    maxStreams, minMaxStreams,
    dials               \* history: dials by address

workVars == <<jobs, success, failed>>
limitVars == <<maxStreams, minMaxStreams>>
vars == <<workVars, wpc, try, addr, serverIdx, conns, phase, limitVars, dials>>

Init ==
    /\ jobs = NumConnections /\ success = 0 /\ failed = 0
    /\ wpc = [w \in Workers |-> "idle"]
    /\ try = [w \in Workers |-> 0] /\ addr = [w \in Workers |-> 0]
    /\ serverIdx = 0 /\ conns = <<>> /\ phase = "dial"
    /\ maxStreams = 0 /\ minMaxStreams = 0
    /\ dials = [a \in Addrs |-> 0]

Goto(w, l) == wpc' = [wpc EXCEPT ![w] = l]

\* The Calculator has a worker call doOnce.
Begin(w) ==
    /\ wpc[w] = "idle" /\ jobs > 0
    /\ jobs' = jobs - 1
    /\ try' = [try EXCEPT ![w] = 0]
    /\ Goto(w, "next")
    /\ UNCHANGED <<success, failed, addr, serverIdx, conns, phase, limitVars, dials>>

NextIdxOfCall(w) == IF try[w] = 0 THEN (serverIdx + 1) % IdxRange ELSE serverIdx

\* atomic.AddUint32, which wraps.
NextIdx(w) == (serverIdx + 1) % IdxRange

\* An attempt takes the next address; the sleep before a retry only passes time.
TakeAddr(w) ==
    /\ wpc[w] = "next"
    /\ serverIdx' = NextIdx(w)
    /\ addr' = [addr EXCEPT ![w] = serverIdx' % NAddrs]
    /\ Goto(w, "dial")
    /\ UNCHANGED <<workVars, try, conns, phase, limitVars, dials>>

KeepFirst(n) == IF try = [w \in Workers |-> 0] THEN Append(conns, n) ELSE conns
Collect(n) == Append(conns, n)

\* cs.mux is held for the append alone, so it is one step.
DialOk(w, n) ==
    /\ wpc[w] = "dial"
    /\ dials' = [dials EXCEPT ![addr[w]] = @ + 1]
    /\ conns' = Collect(n)
    /\ Goto(w, "ok")
    /\ UNCHANGED <<workVars, try, addr, serverIdx, phase, limitVars>>

Retries(w) == try[w] + 1 < RetryTimes

DialFailed(w) ==
    /\ wpc[w] = "dial"
    /\ dials' = [dials EXCEPT ![addr[w]] = @ + 1]
    /\ try' = [try EXCEPT ![w] = @ + 1]
    /\ Goto(w, IF Retries(w) THEN "next" ELSE "failed")
    /\ UNCHANGED <<workVars, addr, serverIdx, conns, phase, limitVars>>

\* doOnce returns and the Calculator counts it.
Return(w) ==
    /\ wpc[w] \in {"ok", "failed"}
    /\ success' = IF wpc[w] = "ok" THEN success + 1 ELSE success
    /\ failed' = IF wpc[w] = "failed" THEN failed + 1 ELSE failed
    /\ Goto(w, "idle")
    /\ UNCHANGED <<jobs, try, addr, serverIdx, conns, phase, limitVars, dials>>

Fewest(m, n) == IF m = 0 \/ n < m THEN n ELSE m
Most(m, n) == IF m > n THEN m ELSE n

\* A value that a loop over s updates, from the first element to the last.
Loop(op(_, _), base, s) ==
    MapThenFoldSet(LAMBDA x, y : op(y, x), base, LAMBDA i : s[i], LAMBDA I : Max(I), DOMAIN s)

\* Benchmark has returned: Run goes through the connections.
Stats ==
    /\ phase = "dial" /\ jobs = 0 /\ \A w \in Workers : wpc[w] = "idle"
    /\ maxStreams' = Loop(Most, maxStreams, conns)
    /\ minMaxStreams' = Loop(Fewest, minMaxStreams, conns)
    /\ phase' = "done"
    /\ UNCHANGED <<workVars, wpc, try, addr, serverIdx, conns, dials>>

Ended == phase = "done" /\ UNCHANGED vars

Dialling(w) == DialFailed(w) \/ \E n \in Limits : DialOk(w, n)

Next ==
    \/ \E w \in Workers : Begin(w) \/ TakeAddr(w) \/ Dialling(w) \/ Return(w)
    \/ Stats \/ Ended

Spec == Init /\ [][Next]_vars

---------------------------------------------------------------------------
\* When Run is over every call has been counted, and each that was a success left one
\* connection for the benchmarks: retries neither lose nor double one.  MaxStreams is
\* the highest limit among them and, where every server allows streams at all,
\* MinMaxStreams the fewest, in whatever order the connections were made.
Collected ==
    LET limits == {conns[i] : i \in 1 .. Len(conns)}
    IN  phase = "done" =>
          /\ success + failed = NumConnections
          /\ Len(conns) = success
          /\ limits # {} => maxStreams = Max(limits)
          /\ limits # {} /\ 0 \notin limits => minMaxStreams = Min(limits)

\* Attempts by address, those under way and those that are over.
Underway(a) == {w \in Workers : wpc[w] = "dial" /\ addr[w] = a}
Taken == [a \in Addrs |-> dials[a] + Cardinality(Underway(a))]

\* Attempts, first ones and retries of all workers together, are spread evenly over the
\* addresses: two differ by one, and by one more for each time the index has wrapped,
\* when its range is no multiple of the number of addresses.
EvenlySpread ==
    \A a, b \in Addrs : Taken[a] <= Taken[b] + 1 + (SumFunction(Taken) \div IdxRange)
=============================================================================
