------------------------------- MODULE Client -------------------------------
(***************************************************************************)
(* One run of benchcli-go/client.go: the flags are checked, the connections  *)
(* dialled, the source of the samples set up, the benchmarks run one after   *)
(* the other with a report after each, and what was started is stopped.      *)
(*                                                                          *)
(* A benchmark is one step here: what happens inside is BenchEcho's and      *)
(* BenchRate's, how the connections come about is Connections'.  What is     *)
(* here is what surrounds them: init, the early exits, and PsInfo of Report. *)
(***************************************************************************)
EXTENDS PSSource, Framing

CONSTANTS CommandLines, \* how a run may be started: a record of run and flags
          MaxConns,     \* bound: connections
          RequestLen,   \* bytes of the request that BenchRate sends
          numCPU        \* runtime.NumCPU()

Flags == [sortOK : BOOLEAN, known : BOOLEAN, report : BOOLEAN, rate : BOOLEAN, sendRate : Int,
          batch : Int, batchBytes : Int, concurrency : Int, streams : Int]

ASSUME ClientAssumption ==
    /\ RequestLen \in Nat \ {0} /\ numCPU \in Nat \ {0} /\ MaxConns \in Nat
    /\ \A c \in CommandLines : c.run.server \in Pids \cup {NoPid}
                              /\ (c.run.server # NoPid => c.run.own = c.run.server)
                              /\ c.flags \in Flags

VARIABLES
    flags,      \* sortOK: -sort is known; known: -f is; report: -r; rate: -rate; sendRate: -rr;
                \* batch: -rpl; batchBytes: -rbs; concurrency: -ec; streams: -es
    mpc,        \* where main is
    conns,      \* connections dialled
    batch,      \* BenchRate's batch and tickRate
    reports,    \* the samples in each report that was made
    cause       \* why main died, if it did

mainVars == <<flags, mpc, conns, batch, reports, cause>>
vars == <<psVars, mainVars>>

Unmade == [n |-> -1, from |-> "nobody", err |-> FALSE]

Init ==
    /\ \E c \in CommandLines : PSInit(c.run) /\ flags = c.flags
    /\ mpc = "flags" /\ conns = 0 /\ batch = <<0, 0>>
    /\ reports = [b \in {"echo", "rate"} |-> Unmade]
    /\ cause = "none"

Die(why) == mpc' = "fatal" /\ cause' = why

\* MUTANT of CheckFlags: -rpl is held against -rr as it was given.
CheckFlagsAsGiven ==
    /\ mpc = "flags"
    /\ LET wrong == ~flags.sortOK \/ run.mode \notin {"auto", "local", "remote"}
           bad == (flags.rate /\ ~ValidateBatch(flags.batch, flags.sendRate)) \/ ~flags.known
       IN  IF wrong \/ (~flags.report /\ bad) THEN Die("flags")
           ELSE mpc' = (IF flags.report THEN "exit" ELSE "dial") /\ UNCHANGED cause
    /\ UNCHANGED <<psVars, flags, conns, batch, reports>>

\* Everything a flag can get wrong, before anything is dialled; -r makes tables and ends.
CheckFlags ==
    /\ mpc = "flags"
    /\ LET wrong == \/ ~flags.sortOK
                    \/ run.mode \notin {"auto", "local", "remote"}
           bad == \/ flags.rate /\ ~ValidateBatch(flags.batch, Larger(flags.sendRate, 1))
                  \/ ~flags.known
       IN  IF wrong \/ (~flags.report /\ bad) THEN Die("flags")
           ELSE mpc' = (IF flags.report THEN "exit" ELSE "dial") /\ UNCHANGED cause
    /\ UNCHANGED <<psVars, flags, conns, batch, reports>>

\* cs.Run with however many dials that succeed, its report, and the call of SetupPS.  saveReport
\* goes on when a file cannot be written.
Dial ==
    /\ mpc = "dial"
    /\ conns' \in 0..MaxConns
    /\ mpc' = "setup"
    /\ spc' = SetupBegins /\ attempt' = IF WantLocal THEN 0 ELSE 1
    /\ UNCHANGED <<worldVars, listed, matched, source, got, sampleVars, serverVars,
                   flags, batch, reports, cause>>

\* BenchEcho's init: as many workers as were asked for and as there are streams to work on.
EchoConcurrency ==
    LET wanted == IF flags.concurrency <= 0 THEN numCPU * 1000 ELSE flags.concurrency
    IN  Smaller(wanted, conns * (IF flags.streams <= 0 THEN 1 ELSE flags.streams))

\* SetupPS is back; an error in it is only logged.
BenchEcho ==
    /\ mpc = "setup" /\ spc = "back"
    /\ IF EchoConcurrency <= 0 THEN Die("connections") /\ spc' = "idle"
       ELSE mpc' = "echo" /\ spc' = "psinfo" /\ UNCHANGED cause
    /\ UNCHANGED <<worldVars, listed, matched, attempt, source, got, sampleVars, serverVars,
                   flags, conns, batch, reports>>

EchoReport ==
    /\ mpc = "echo" /\ spc = "told"
    /\ reports' = [reports EXCEPT !["echo"] = got]
    /\ IF flags.rate THEN mpc' = "rate" /\ spc' = "idle" ELSE mpc' = "stop" /\ spc' = "stop"
    /\ UNCHANGED <<worldVars, listed, matched, attempt, source, got, sampleVars, serverVars,
                   flags, conns, batch, cause>>

SendRate == IF flags.sendRate <= 0 THEN 1 ELSE flags.sendRate

\* BenchRate's init: the batch and how often a second it is written.
RateBatch ==
    IF flags.batch > 0 THEN <<flags.batch, SendRate \div flags.batch>>
    ELSE BatchSize(RequestLen, SendRate, flags.batchBytes)

\* Its run, over the connections that are left or can be dialled again, if checkLimits finds that
\* their servers allow a batch at all.
BenchRate ==
    /\ mpc = "rate" /\ spc = "idle"
    /\ LET wrong == ~ValidateBatch(flags.batch, SendRate) \/ RateBatch[1] <= 0 \/ RateBatch[2] <= 0
           dies(why) == Die(why) /\ UNCHANGED <<spc, batch>>
       IN  \E left \in 0..conns, allowed \in BOOLEAN :
              IF wrong THEN dies("batch")
              ELSE IF left = 0 THEN dies("connections")
              ELSE IF ~allowed THEN dies("limits")
              ELSE batch' = RateBatch /\ mpc' = "rated" /\ spc' = "psinfo" /\ UNCHANGED cause
    /\ UNCHANGED <<worldVars, listed, matched, attempt, source, got, sampleVars, serverVars,
                   flags, conns, reports>>

RateReport ==
    /\ mpc = "rated" /\ spc = "told"
    /\ reports' = [reports EXCEPT !["rate"] = got]
    /\ mpc' = "stop" /\ spc' = "stop"
    /\ UNCHANGED <<worldVars, listed, matched, attempt, source, got, sampleVars, serverVars,
                   flags, conns, batch, cause>>

\* The deferred calls, last first: the source is stopped, then the connections are.
Return ==
    /\ mpc = "stop" /\ spc = "stopped"
    /\ mpc' = "exit" /\ conns' = 0
    /\ UNCHANGED <<psVars, flags, batch, reports, cause>>

Main == CheckFlags \/ Dial \/ BenchEcho \/ EchoReport \/ BenchRate \/ RateReport \/ Return

Ended == mpc \in {"exit", "fatal"}

\* The process of the client ends with main, its goroutines with it.
Next ==
    \/ ~Ended /\ Main
    \/ ~Ended /\ PSStep /\ UNCHANGED mainVars
    \/ Ended /\ UNCHANGED vars

Spec == Init /\ [][Next]_vars

\* main, its calls and the sampler go on; a request is answered or fails at controlTimeout.  Of the
\* server and of other processes nothing is asked.
LiveSpec ==
    /\ Spec
    /\ WF_vars(~Ended /\ (Main \/ ((Setup \/ Reading \/ Stopping) /\ UNCHANGED mainVars)))
    /\ WF_vars(~Ended /\ Sampling /\ UNCHANGED mainVars)

----------------------------------------------------------------------------
\* FindServerProcess and VerifyServerProcess: while the measured server runs on this machine, nothing
\* else is ever sampled in its place, whatever leftovers of its name there are and whenever they end.
RightProcess ==
    (smp.pid # NoPid /\ run.server \in alive) => smp.pid = run.server

\* SetupPS without an error is a run with samples to come: either the sampler runs here and the server
\* is asked nothing, or the server has had /init, even when the answers to all but one were lost.
SetupFeeds ==
    (mpc = "setup" /\ spc = "back" /\ ~source.err) =>
        IF source.kind = "local" /\ ~smp.fallback
        THEN \A a \in 1..controlAttempts : handler[a] = "unsent"
        ELSE psStarted

\* Samples are never lost between two reports from the same source: an /init that arrives late or
\* twice does not start the server's counter again, and a sampler that gives up keeps what it has.
SamplesKept ==
    LET echo == reports["echo"] rate == reports["rate"]
    IN  rate.from = echo.from /\ rate.n > 0 => rate.n >= echo.n

\* Stop waits for the sampler: "no sample arrives after a caller has read the last report".
NoSampleAfterStop == [][spc = "stopped" => UNCHANGED cpu]_vars

\* Once the connections are dialled no flag alone ends a run early, only a lack of connections or a
\* server's limits do: the check of -rpl in main agrees with the one in BenchRate's init, and
\* BatchSize never yields 0.
FailsEarly == cause # "batch"

\* BatchSize: the most requests that -rbs holds and that divide the rate, and no fewer than one; the
\* batches of a second are the rate.
BatchFits ==
    mpc = "rated" =>
        LET rate == Larger(flags.sendRate, 1)
            fits == {b \in 1..rate : rate % b = 0 /\ (b = 1 \/ b * RequestLen <= flags.batchBytes)}
        IN  /\ batch[1] * batch[2] = rate
            /\ flags.batch = 0 => batch[1] \in fits /\ \A b \in fits : b <= batch[1]

\* A run comes to its end, with a server that answers or one that does not, and Stop returns.
RunEnds == <>Ended

----------------------------------------------------------------------------
(* What the proofs need besides. *)

\* Every variable that the three properties of samples speak of has its type.
TypeOK ==
    /\ alive \subseteq Pids
    /\ listed \subseteq Pids /\ matched \subseteq Pids
    /\ source \in [kind : {"remote", "local"}, pid : Pids \cup {NoPid, run.own}, err : BOOLEAN]
    /\ smp \in [pc : {"none", "percent", "memory", "done"}, pid : Pids \cup {NoPid, run.own},
                 errs : Nat, cancelled : BOOLEAN, fallback : BOOLEAN]
    /\ handler \in [1..controlAttempts -> {"unsent", "sent", "done", "refused"}]
    /\ psStarted \in BOOLEAN
    /\ spc = "init" => attempt \in 1..controlAttempts

\* While the server runs here, whatever SetupPS has found so far is the server.
Found ==
    /\ run.server # NoPid => run.own = run.server
    /\ run.server \in alive =>
          /\ spc = "match" => run.server \in listed \cup matched
          /\ spc \in {"start", "verify", "restart"} => source.pid = run.server
          /\ smp.pid # NoPid => smp.pid = run.server

Unasked == \A a \in 1..controlAttempts : handler[a] = "unsent"

\* What SetupPS has asked of the server by the time it is at each place.
Asking ==
    /\ mpc \in {"flags", "dial"} => spc = "idle" /\ Unasked /\ source.kind = "remote"
    /\ spc \in {"list", "match", "start"} => Unasked
    /\ spc \in {"verify", "restart"} => psStarted
    /\ mpc = "setup" /\ spc # "back" => source.kind = "remote"
    /\ \A a \in 1..controlAttempts : handler[a] = "done" => psStarted

\* A sampler that was started is the source, and is done once Stop is.
Stopped ==
    /\ smp.pc # "none" => source.kind = "local"
    /\ spc = "stopped" /\ source.kind = "local" => smp.pc = "done"

IInv == TypeOK /\ Found /\ Asking /\ Stopped /\ SetupFeeds
=============================================================================
