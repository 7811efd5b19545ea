----------------------------- MODULE BenchRate -----------------------------
(***************************************************************************)
(* The rate benchmark (BenchMultiplex) of the Go client, benchrate.go:     *)
(* writers that send a batch on each of their connections on every tick,   *)
(* the connections' readers that count the responses, and Run, which stops *)
(* the writers, gives the server a grace period and takes the counters.    *)
(*                                                                         *)
(* A connection is what WriteBatch and OnResult show of it (the module     *)
(* ClientConn has the rest): the requests on it that are not answered, the *)
(* room there is for more, and whether it still takes any.                 *)
(***************************************************************************)
EXTENDS Integers, FiniteSets, FiniteSetsExt, Functions

CONSTANTS
    NConns,         \* len(conns), the connections left to run on
    Concurrency,    \* br.Concurrency, the number of writers
    Batch,          \* br.batch, the requests of one write
    Payload,        \* br.Payload, the bytes of one request
    MaxStreams,     \* by connection, the streams the server allows open
    Window,         \* by connection, the window the server gives a stream
    ConnWindow,     \* by connection, the window the server gives at first
    maxBatchesInFlight,     \* 4 in the code
    MaxGrants       \* bound: the batches whose window a server gives back

Conns == 1 .. NConns
Writers == 1 .. Concurrency
Nobody == 0

ASSUME ConstantsAssumption ==
    /\ NConns \in Nat \ {0} /\ Concurrency \in Nat \ {0}
    /\ maxBatchesInFlight \in Nat \ {0}
    /\ Batch \in Nat \ {0} /\ Payload \in Nat \ {0}
    /\ MaxStreams \in [Conns -> Nat] /\ Window \in [Conns -> Nat]
    /\ ConnWindow \in [Conns -> Nat] /\ MaxGrants \in Nat

VARIABLES
    phase,          \* where Run is
    timeUp,         \* done is closed
    graceUp,        \* grace.C has fired
    wpc, at,        \* by writer: where it is, and on which connection
    up,             \* by connection: WriteBatch does not return cc.err
    open,           \* by connection: streams not finished
    credit,         \* by connection: bytes of its send window
    grants,         \* by connection: batches given back, for MaxGrants
    rd,             \* by connection: where its reader is in OnResult
    sendCnt, recvCnt,                       \* by connection
    sendTimes, answered, recvTimes, recvBytes,
    endRecvTimes, endRecvBytes,
    lost,           \* history, by connection: requests of a failed write
    good            \* history: responses that are to count

wVars == <<wpc, at>>
sendVars == <<sendCnt, sendTimes, lost>>
recvVars == <<recvCnt, answered, recvTimes, recvBytes, good>>
endVars == <<endRecvTimes, endRecvBytes>>
connVars == <<up, open, credit, grants, rd>>
runVars == <<phase, timeUp, graceUp>>
vars == <<runVars, wVars, connVars, sendVars, recvVars, endVars>>

\* The requests a connection may have unanswered and still be sent more.
Most == Batch * maxBatchesInFlight

Init ==
    /\ phase = "start" /\ timeUp = FALSE /\ graceUp = FALSE
    /\ wpc = [w \in Writers |-> "idle"] /\ at = [w \in Writers |-> Nobody]
    /\ up = [c \in Conns |-> TRUE]
    /\ open = [c \in Conns |-> 0]
    /\ credit = ConnWindow
    /\ grants = [c \in Conns |-> 0]
    /\ rd = [c \in Conns |-> "idle"]
    /\ sendCnt = [c \in Conns |-> 0] /\ recvCnt = [c \in Conns |-> 0]
    /\ sendTimes = 0 /\ answered = 0 /\ recvTimes = 0 /\ recvBytes = 0
    /\ endRecvTimes = 0 /\ endRecvBytes = 0
    /\ lost = [c \in Conns |-> 0] /\ good = 0

(***************************************************************************)
(* Run, up to the start of the writers.                                    *)
(***************************************************************************)
\* checkLimits takes the smallest of each limit over the connections.
OverLimits ==
    \/ Batch > Min({MaxStreams[c] : c \in Conns})
    \/ Payload > Min({Window[c] : c \in Conns})

CheckLimits ==
    /\ phase = "start"
    /\ phase' = IF OverLimits THEN "fatal" ELSE "running"
    /\ UNCHANGED <<timeUp, graceUp, wVars, connVars, sendVars, recvVars, endVars>>

(***************************************************************************)
(* The writers: doOnce on every tick, until done is closed.  A tick and    *)
(* done may both be ready, and select then takes either.                   *)
(***************************************************************************)
SharedTeam(w) == Conns
Team(w) == {c \in Conns : (c - 1) % Concurrency = w - 1}

\* The writer goes on to the next connection of its team, or to its next tick.
GoOn(w, c) ==
    LET rest == {d \in Team(w) : d > c}
    IN  \/ /\ rest = {}
           /\ at' = [at EXCEPT ![w] = Nobody]
           /\ wpc' = [wpc EXCEPT ![w] = "idle"]
        \/ \E d \in rest :
              /\ \A e \in rest : d <= e
              /\ at' = [at EXCEPT ![w] = d]
              /\ wpc' = [wpc EXCEPT ![w] = "check"]

Tick(w) ==
    /\ phase = "running" /\ wpc[w] = "idle"
    /\ GoOn(w, Nobody)
    /\ UNCHANGED <<runVars, connVars, sendVars, recvVars, endVars>>

WriterStop(w) ==
    /\ phase = "running" /\ wpc[w] = "idle" /\ timeUp
    /\ wpc' = [wpc EXCEPT ![w] = "stopped"]
    /\ UNCHANGED <<runVars, at, connVars, sendVars, recvVars, endVars>>

TooManyUnanswered(c) == sendCnt[c] - recvCnt[c] >= Most

\* A connection with too many requests unanswered is skipped.  The limiter a
\* writer may then wait in is left out: it only passes time.
Check(w) ==
    /\ wpc[w] = "check"
    /\ IF TooManyUnanswered(at[w])
         THEN GoOn(w, at[w])
         ELSE wpc' = [wpc EXCEPT ![w] = "write"] /\ UNCHANGED at
    /\ UNCHANGED <<runVars, connVars, sendVars, recvVars, endVars>>

\* What WriteBatch asks of a connection before it writes.
Room(c) ==
    /\ open[c] + Batch <= MaxStreams[c]
    /\ Payload <= Window[c]
    /\ Batch * Payload <= credit[c]

\* WriteBatch writes nothing: the connection has failed, or has no room.
WriteNone(w) ==
    /\ wpc[w] = "write" /\ (~up[at[w]] \/ ~Room(at[w]))
    /\ GoOn(w, at[w])
    /\ UNCHANGED <<runVars, connVars, sendVars, recvVars, endVars>>

\* WriteBatch opens the streams; the server may answer from here on, before
\* the write has returned.
WriteOpen(w) ==
    /\ wpc[w] = "write" /\ up[at[w]] /\ Room(at[w])
    /\ wpc' = [wpc EXCEPT ![w] = "written"]
    /\ open' = [open EXCEPT ![at[w]] = @ + Batch]
    /\ credit' = [credit EXCEPT ![at[w]] = @ - Batch * Payload]
    /\ UNCHANGED <<runVars, at, up, grants, rd, sendVars, recvVars, endVars>>

CountTimesOnly(w) ==
    /\ sendTimes' = sendTimes + Batch
    /\ UNCHANGED sendCnt

CountSent(w) ==
    /\ sendTimes' = sendTimes + Batch
    /\ sendCnt' = [sendCnt EXCEPT ![at[w]] = @ + Batch]

WriteDone(w) ==
    /\ wpc[w] = "written"
    /\ CountSent(w)
    /\ GoOn(w, at[w])
    /\ UNCHANGED <<runVars, connVars, lost, recvVars, endVars>>

\* The write failed: WriteBatch closes the connection, and doOnce counts
\* nothing, although the streams are open and will have their results.
WriteFailed(w) ==
    /\ wpc[w] = "written"
    /\ up' = [up EXCEPT ![at[w]] = FALSE]
    /\ lost' = [lost EXCEPT ![at[w]] = @ + Batch]
    /\ GoOn(w, at[w])
    /\ UNCHANGED <<runVars, open, credit, grants, rd, sendCnt, sendTimes, recvVars, endVars>>

(***************************************************************************)
(* The connections: the reader that finishes a stream and calls OnResult,  *)
(* the window the server gives back, the end of a connection.  A response  *)
(* counts when it is a 200 with the payload; a stream of a connection that *)
(* ended has a result too, which does not.                                 *)
(***************************************************************************)
Answer(c, ok) ==
    /\ rd[c] = "idle" /\ open[c] > 0
    /\ open' = [open EXCEPT ![c] = @ - 1]
    /\ rd' = [rd EXCEPT ![c] = IF ok THEN "good" ELSE "bad"]
    /\ good' = IF ok THEN good + 1 ELSE good
    /\ UNCHANGED <<runVars, wVars, up, credit, grants, sendVars,
                   recvCnt, answered, recvTimes, recvBytes, endVars>>

CountEvery(c) ==
    /\ rd[c] \in {"good", "bad"}
    /\ answered' = answered + 1
    /\ recvCnt' = [recvCnt EXCEPT ![c] = @ + 1]
    /\ rd' = [rd EXCEPT ![c] = "times"]
    /\ UNCHANGED <<runVars, wVars, up, open, credit, grants, sendVars,
                   recvTimes, recvBytes, good, endVars>>

\* recvCnt and answered: nothing reads both, so they are one step.
CountAnswer(c) ==
    /\ rd[c] \in {"good", "bad"}
    /\ answered' = answered + 1
    /\ recvCnt' = [recvCnt EXCEPT ![c] = @ + 1]
    /\ rd' = [rd EXCEPT ![c] = IF rd[c] = "good" THEN "times" ELSE "idle"]
    /\ UNCHANGED <<runVars, wVars, up, open, credit, grants, sendVars,
                   recvTimes, recvBytes, good, endVars>>

CountTimes(c) ==
    /\ rd[c] = "times"
    /\ recvTimes' = recvTimes + 1
    /\ rd' = [rd EXCEPT ![c] = "bytes"]
    /\ UNCHANGED <<runVars, wVars, up, open, credit, grants, sendVars,
                   recvCnt, answered, recvBytes, good, endVars>>

CountBytes(c) ==
    /\ rd[c] = "bytes"
    /\ recvBytes' = recvBytes + Payload
    /\ rd' = [rd EXCEPT ![c] = "idle"]
    /\ UNCHANGED <<runVars, wVars, up, open, credit, grants, sendVars,
                   recvCnt, answered, recvTimes, good, endVars>>

\* The server has taken a batch in and gives its window back.
GiveBack(c) ==
    /\ grants[c] < MaxGrants
    /\ credit[c] + Batch * Payload <= ConnWindow[c]
    /\ credit' = [credit EXCEPT ![c] = @ + Batch * Payload]
    /\ grants' = [grants EXCEPT ![c] = @ + 1]
    /\ UNCHANGED <<runVars, wVars, up, open, rd, sendVars, recvVars, endVars>>

ConnEnds(c) ==
    /\ up[c]
    /\ up' = [up EXCEPT ![c] = FALSE]
    /\ UNCHANGED <<runVars, wVars, open, credit, grants, rd, sendVars, recvVars, endVars>>

(***************************************************************************)
(* Run, from the end of the duration on.                                   *)
(***************************************************************************)
DurationUp ==
    /\ phase = "running" /\ ~timeUp
    /\ timeUp' = TRUE
    /\ UNCHANGED <<phase, graceUp, wVars, connVars, sendVars, recvVars, endVars>>

WritersAtOnce ==
    /\ phase = "running" /\ timeUp
    /\ phase' = "grace"
    /\ UNCHANGED <<timeUp, graceUp, wVars, connVars, sendVars, recvVars, endVars>>

WritersWait ==
    /\ phase = "running" /\ \A w \in Writers : wpc[w] = "stopped"
    /\ phase' = "grace"
    /\ UNCHANGED <<timeUp, graceUp, wVars, connVars, sendVars, recvVars, endVars>>

GraceTimer ==
    /\ phase = "grace" /\ ~graceUp
    /\ graceUp' = TRUE
    /\ UNCHANGED <<phase, timeUp, wVars, connVars, sendVars, recvVars, endVars>>

GraceByRate ==
    /\ phase = "grace"
    /\ answered >= sendTimes - Batch \/ graceUp
    /\ phase' = "times"
    /\ UNCHANGED <<timeUp, graceUp, wVars, connVars, sendVars, recvVars, endVars>>

GraceUntilAnswered ==
    /\ phase = "grace"
    /\ answered >= sendTimes
    /\ phase' = "times"
    /\ UNCHANGED <<timeUp, graceUp, wVars, connVars, sendVars, recvVars, endVars>>

\* The loop ends when all that was sent is answered, or with the timer.
GraceEnd ==
    /\ phase = "grace"
    /\ answered >= sendTimes \/ graceUp
    /\ phase' = "times"
    /\ UNCHANGED <<timeUp, graceUp, wVars, connVars, sendVars, recvVars, endVars>>

SnapshotTimes ==
    /\ phase = "times"
    /\ endRecvTimes' = recvTimes
    /\ phase' = "bytes"
    /\ UNCHANGED <<timeUp, graceUp, wVars, connVars, sendVars, recvVars, endRecvBytes>>

SnapshotBytes ==
    /\ phase = "bytes"
    /\ endRecvBytes' = recvBytes
    /\ phase' = "done"
    /\ UNCHANGED <<timeUp, graceUp, wVars, connVars, sendVars, recvVars, endRecvTimes>>

Ended ==
    /\ phase \in {"done", "fatal"}
    /\ UNCHANGED vars

WriterStep(w) ==
    Check(w) \/ WriteNone(w) \/ WriteOpen(w) \/ WriteDone(w) \/ WriteFailed(w)

ReaderStep(c) == CountAnswer(c) \/ CountTimes(c) \/ CountBytes(c)

MainStep ==
    CheckLimits \/ WritersWait \/ GraceEnd \/ SnapshotTimes \/ SnapshotBytes

Next ==
    \/ MainStep \/ DurationUp \/ GraceTimer \/ Ended
    \/ \E w \in Writers : Tick(w) \/ WriterStop(w) \/ WriterStep(w)
    \/ \E c \in Conns : \/ ReaderStep(c) \/ GiveBack(c) \/ ConnEnds(c)
                        \/ \E ok \in BOOLEAN : Answer(c, ok)

Spec == Init /\ [][Next]_vars

(***************************************************************************)
(* Fairness.  Goroutines that can go on do, timers fire, a write returns,  *)
(* and select, which picks one of the ready cases at random, does not pass *)
(* done over for ever.                                                     *)
(***************************************************************************)
Scheduling ==
    /\ WF_vars(MainStep) /\ WF_vars(DurationUp) /\ WF_vars(GraceTimer)
    /\ \A w \in Writers : WF_vars(WriterStep(w)) /\ SF_vars(WriterStop(w))
    /\ \A c \in Conns : WF_vars(ReaderStep(c))

LiveSpec == Spec /\ Scheduling

---------------------------------------------------------------------------
TypeOK ==
    /\ phase \in {"start", "fatal", "running", "grace", "times", "bytes", "done"}
    /\ timeUp \in BOOLEAN /\ graceUp \in BOOLEAN
    /\ wpc \in [Writers -> {"idle", "check", "write", "written", "stopped"}]
    /\ at \in [Writers -> Conns \cup {Nobody}]
    /\ up \in [Conns -> BOOLEAN]
    /\ open \in [Conns -> Nat] /\ credit \in [Conns -> Nat] /\ grants \in [Conns -> Nat]
    /\ rd \in [Conns -> {"idle", "good", "bad", "times", "bytes"}]
    /\ sendCnt \in [Conns -> Nat] /\ recvCnt \in [Conns -> Nat] /\ lost \in [Conns -> Nat]
    /\ sendTimes \in Nat /\ answered \in Nat /\ recvTimes \in Nat /\ recvBytes \in Nat
    /\ endRecvTimes \in Nat /\ endRecvBytes \in Nat /\ good \in Nat

\* Requests on a connection that OnResult has not been told of.
Unanswered(c) == open[c] + (IF rd[c] \in {"good", "bad"} THEN 1 ELSE 0)

\* Requests that are on the connection and not counted as sent yet.
Pending(c) ==
    IF \E w \in Writers : at[w] = c /\ wpc[w] = "written" THEN Batch ELSE 0

\* The two counters of a connection and the requests on it agree at any time,
\* whatever order the write's return and its responses come in.  They come apart
\* only by the batches whose write failed, which doOnce does not count as sent and
\* OnResult counts as answered.
Balanced ==
    \A c \in Conns : sendCnt[c] + lost[c] + Pending(c) = recvCnt[c] + Unanswered(c)

\* doOnce skips a connection with maxBatchesInFlight batches' requests unanswered,
\* counted before the batch: with the batch there is never a whole batch more,
\* although the counters are read one after the other and are old when the write
\* happens, because one writer alone sends on a connection.
UnansweredBounded ==
    \A c \in Conns : Unanswered(c) < Most + Batch

\* What UnansweredBounded rests on.  A writer is on connections of its own team
\* only; what it found when it checked still holds when it writes, since only it
\* adds to sendCnt; and a connection that still takes batches has lost none.
IInv ==
    /\ TypeOK /\ Balanced /\ UnansweredBounded
    /\ \A w \in Writers :
          IF wpc[w] \in {"idle", "stopped"} THEN at[w] = Nobody ELSE at[w] \in Team(w)
    /\ \A w \in Writers :
          wpc[w] = "write" => sendCnt[at[w]] - recvCnt[at[w]] < Most
    /\ \A c \in Conns : up[c] => lost[c] = 0

AllUnanswered == SumFunction([c \in Conns |-> Unanswered(c)])

\* A grace period that ends before its timer leaves no more requests unanswered
\* than were in batches whose write failed: those are answered, with an error, and
\* were not counted as sent.
GraceWaits ==
    phase = "times" /\ ~graceUp => AllUnanswered <= SumFunction(lost)

\* What the report says was received is what was: no response is counted twice, and
\* the snapshot is behind by no more than the response each reader has in its hands.
ReportsReceived ==
    /\ recvTimes <= good
    /\ good <= recvTimes + Cardinality({c \in Conns : rd[c] \in {"good", "times"}})
    /\ endRecvTimes <= recvTimes
    /\ phase = "done" => endRecvBytes + Payload * NConns >= Payload * endRecvTimes

\* Run ends, also when the server answers nothing.
RunEnds == <>(phase \in {"done", "fatal"})
=============================================================================
