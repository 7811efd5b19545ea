------------------------------ MODULE PSSource ------------------------------
(***************************************************************************)
(* Where a run's CPU and memory samples come from: SetupPS, the sampler on   *)
(* this machine and the control requests of config/pssource.go, localps.go   *)
(* and config.go, with the server's side of them, frameworks/handlers.go.    *)
(*                                                                          *)
(* One goroutine, the client's main, calls SetupPS, PsInfo and Stop; where   *)
(* it is in such a call is spc, "idle" outside of one.  Beside it run the    *)
(* sampler, the server, and processes that end.  A sample is counted, not    *)
(* kept.  A process is its pid, and only processes with the name of the      *)
(* measured server matter.  What a request meets is nondeterministic: it is  *)
(* not sent, is handled when its sender has long given up, or is answered.   *)
(***************************************************************************)
EXTENDS Integers, FiniteSets

CONSTANTS Pids,                     \* pids of this machine
          NoPid,                    \* -1
          controlAttempts,          \* 4 in the code
          consecutiveSampleErrors,  \* 5 in the code
          MaxSamples                \* bound: samples counted of each sampler

ASSUME PSAssumption ==
    /\ NoPid \notin Pids
    /\ controlAttempts \in Nat \ {0} /\ consecutiveSampleErrors \in Nat \ {0}
    /\ MaxSamples \in Nat

VARIABLES
    run,        \* mode: -ps; host: the addresses -ip names and whether this machine's can be listed;
                \* server: the measured server's pid here, or NoPid; own: the pid it has for itself
    alive,      \* the pids here that have the server's name
    up,         \* the measured server runs
    spc,        \* where the call is
    listed,     \* FindServerProcess: pids whose names are still to be read
    matched,    \* and those that had the name
    attempt,    \* controlRequest's attempt
    source,     \* PSSetup: "remote" or "local", the pid, and whether SetupPS returned an error
    got,        \* what PsInfo returned: how many samples, whose, and whether an error
    smp,        \* the sampler: where it is, its pid, errCount, whether it was cancelled, fallback
    cpu,        \* its samples; those of the memory go the same way
    handler,    \* the server: what became of each /init that was sent
    psStarted,  \* its flag, and how many calls of Start are still to come
    starting,
    sampled     \* the samples it has of itself, -1 before Start

callVars == <<spc, listed, matched, attempt, source, got>>
sampleVars == <<smp, cpu>>
serverVars == <<handler, psStarted, starting, sampled>>
worldVars == <<run, alive, up>>
psVars == <<worldVars, callVars, sampleVars, serverVars>>

\* What this machine's interfaces carry, and nothing when they cannot be listed.
localAddrs(host) == IF host.listable THEN {"interface"} ELSE {}

\* By address or by interface; a name that cannot be resolved has no address.
IsLocalHost(host) == host.addrs \cap (localAddrs(host) \cup {"loopback"}) # {}

WantLocal == run.mode = "local" \/ (run.mode = "auto" /\ IsLocalHost(run.host))

PSInit(r) ==
    /\ run = r
    /\ \E left \in SUBSET (Pids \ {run.server}) : alive = left \cup ({run.server} \ {NoPid})
    /\ up = TRUE
    /\ spc = "idle" /\ listed = {} /\ matched = {} /\ attempt = 0
    /\ source = [kind |-> "remote", pid |-> NoPid, err |-> FALSE]
    /\ got = [n |-> 0, from |-> "nobody", err |-> FALSE]
    /\ smp = [pc |-> "none", pid |-> NoPid, errs |-> 0, cancelled |-> FALSE, fallback |-> FALSE]
    /\ cpu = 0
    /\ handler = [a \in 1..controlAttempts |-> "unsent"]
    /\ psStarted = FALSE /\ starting = 0 /\ sampled = -1

----------------------------------------------------------------------------
(* SetupPS.  It is called with "list" or "init" for where it begins. *)

SetupBegins == IF WantLocal THEN "list" ELSE "init"

\* procFSPids, on a machine with a /proc
FindList ==
    /\ spc = "list"
    /\ listed' = alive /\ matched' = {} /\ spc' = "match"
    /\ UNCHANGED <<worldVars, attempt, source, got, sampleVars, serverVars>>

\* Without a /proc, one ps names every process at once, or fails.
psPidsByName ==
    /\ spc = "list"
    /\ \/ matched' = alive /\ spc' = "match" /\ UNCHANGED attempt
       \/ spc' = "init" /\ attempt' = 1 /\ UNCHANGED matched
    /\ UNCHANGED <<worldVars, listed, source, got, sampleVars, serverVars>>

\* processName of the next one, which may have ended since
FindName(p) ==
    /\ spc = "match" /\ p \in listed
    /\ listed' = listed \ {p}
    /\ matched' = IF p \in alive THEN matched \cup {p} ELSE matched
    /\ UNCHANGED <<worldVars, spc, attempt, source, got, sampleVars, serverVars>>

\* MUTANT of FindServerProcess: of several matches one is taken.
FindServerProcessAny ==
    /\ spc = "match" /\ listed = {}
    /\ matched' = {}
    /\ \/ \E p \in matched : /\ spc' = "start" /\ source' = [source EXCEPT !.pid = p]
                             /\ UNCHANGED attempt
       \/ matched = {} /\ spc' = "init" /\ attempt' = 1 /\ UNCHANGED source
    /\ UNCHANGED <<worldVars, listed, got, sampleVars, serverVars>>

\* One match is the server; none, or a choice, is not.
FindServerProcess ==
    /\ spc = "match" /\ listed = {}
    /\ matched' = {}
    /\ \/ \E p \in Pids : /\ matched = {p}
                          /\ spc' = "start" /\ source' = [source EXCEPT !.pid = p]
                          /\ UNCHANGED attempt
       \/ /\ \A p \in Pids : matched # {p}
          /\ spc' = "init" /\ attempt' = 1
          /\ UNCHANGED source
    /\ UNCHANGED <<worldVars, listed, got, sampleVars, serverVars>>

\* StartLocalPSSampler, after the first read of the process; "start" is without a fallback.
StartLocalPSSampler ==
    /\ spc \in {"start", "restart"}
    /\ source.pid \in alive
    /\ smp' = [smp EXCEPT !.pc = "percent", !.pid = source.pid, !.fallback = spc = "restart"]
    /\ source' = [source EXCEPT !.kind = "local"]
    /\ spc' = "back"
    /\ UNCHANGED <<worldVars, listed, matched, attempt, got, cpu, serverVars>>

\* MUTANT of StartFails: the server is not asked when the sampler does not start.
StartFailsQuietly ==
    /\ spc \in {"start", "restart"} /\ spc' = "back"
    /\ UNCHANGED <<worldVars, listed, matched, attempt, source, got, sampleVars, serverVars>>

\* The process is gone, or is not this user's to sample.
StartFails ==
    /\ \/ /\ spc = "start"
          /\ spc' = "init" /\ attempt' = 1
          /\ source' = [source EXCEPT !.pid = NoPid]
       \/ /\ spc = "restart"
          /\ spc' = "back"
          /\ UNCHANGED <<attempt, source>>
    /\ UNCHANGED <<worldVars, listed, matched, got, sampleVars, serverVars>>

\* The pid that /init answered with is this machine's only if it has the server's name here.
VerifyServerProcess ==
    /\ spc = "verify"
    /\ spc' = IF source.pid \in alive THEN "restart" ELSE "back"
    /\ UNCHANGED <<worldVars, listed, matched, attempt, source, got, sampleVars, serverVars>>

----------------------------------------------------------------------------
(* Control requests: controlOnce in controlRequest. *)

InitSend ==
    /\ spc = "init" /\ handler[attempt] = "unsent"
    /\ handler' = [handler EXCEPT ![attempt] = "sent"]
    /\ UNCHANGED <<worldVars, callVars, sampleVars, psStarted, starting, sampled>>

\* InitAndGetFrameworkPid, back from a request that was answered with the pid
InitAnswered ==
    /\ spc = "init" /\ handler[attempt] = "done"
    /\ source' = [source EXCEPT !.pid = run.own]
    /\ spc' = IF WantLocal THEN "verify" ELSE "back"
    /\ attempt' = 0
    /\ UNCHANGED <<worldVars, listed, matched, got, sampleVars, serverVars>>

\* No answer, whatever became of the request: once more, or give up.  400 is an answer.
InitFailed ==
    /\ spc = "init"
    /\ IF attempt < controlAttempts /\ handler[attempt] # "refused"
       THEN attempt' = attempt + 1 /\ UNCHANGED <<spc, source>>
       ELSE spc' = "back" /\ source' = [source EXCEPT !.err = TRUE] /\ attempt' = 0
    /\ UNCHANGED <<worldVars, listed, matched, got, sampleVars, serverVars>>

\* GetFrameworkPsInfo: the counter, with an error when it says nothing (CPUAvg() <= 0); busy is
\* whether the samples there are come to more than 0, json whether the answer could be read.
PsAnswered ==
    /\ spc = "ps" /\ up
    /\ \E busy, json \in BOOLEAN :
          got' = [n |-> IF json /\ sampled > 0 THEN sampled ELSE 0, from |-> "server",
                  err |-> ~(json /\ sampled > 0 /\ busy)]
    /\ spc' = "told" /\ attempt' = 0
    /\ UNCHANGED <<worldVars, listed, matched, source, sampleVars, serverVars>>

PsFailed ==
    /\ spc = "ps"
    /\ IF attempt < controlAttempts
       THEN attempt' = attempt + 1 /\ UNCHANGED <<spc, got>>
       ELSE /\ spc' = "told" /\ got' = [n |-> 0, from |-> "nobody", err |-> TRUE]
            /\ attempt' = 0
    /\ UNCHANGED <<worldVars, listed, matched, source, sampleVars, serverVars>>

----------------------------------------------------------------------------
(* PsInfo and Stop of the source that SetupPS left. *)

\* The sampler's own samples, else its fallback's, else an error; or the server's.
PsInfo ==
    /\ spc = "psinfo"
    /\ \/ /\ source.kind = "local" /\ cpu > 0
          /\ got' = [n |-> cpu, from |-> "client", err |-> FALSE]
          /\ spc' = "told" /\ UNCHANGED attempt
       \/ /\ source.kind = "local" /\ cpu = 0 /\ ~smp.fallback
          /\ got' = [n |-> 0, from |-> "client", err |-> TRUE]
          /\ spc' = "told" /\ UNCHANGED attempt
       \/ /\ source.kind = "remote" \/ (cpu = 0 /\ smp.fallback)
          /\ spc' = "ps" /\ attempt' = 1 /\ UNCHANGED got
    /\ UNCHANGED <<worldVars, listed, matched, source, sampleVars, serverVars>>

\* MUTANT of StopCancel: nothing is cancelled.
StopCancelNot ==
    /\ spc = "stop" /\ spc' = "wait"
    /\ UNCHANGED <<worldVars, listed, matched, attempt, source, got, sampleVars, serverVars>>

\* Stop cancels, then waits for the goroutine; a remote source has nothing to stop.
StopCancel ==
    /\ spc = "stop"
    /\ smp' = [smp EXCEPT !.cancelled = source.kind = "local"]
    /\ spc' = "wait"
    /\ UNCHANGED <<worldVars, listed, matched, attempt, source, got, cpu, serverVars>>

\* MUTANT of StopReturn: the goroutine is not waited for.
StopReturnAtOnce ==
    /\ spc = "wait" /\ spc' = "stopped"
    /\ UNCHANGED <<worldVars, listed, matched, attempt, source, got, sampleVars, serverVars>>

StopReturn ==
    /\ spc = "wait" /\ (source.kind = "local" => smp.pc = "done")
    /\ spc' = "stopped"
    /\ UNCHANGED <<worldVars, listed, matched, attempt, source, got, sampleVars, serverVars>>

----------------------------------------------------------------------------
(* The sampler's run. *)

SamplePercent ==
    /\ smp.pc = "percent" /\ ~smp.cancelled
    /\ smp.pid \in alive
    /\ smp' = [smp EXCEPT !.pc = "memory", !.errs = 0]
    /\ UNCHANGED <<worldVars, callVars, cpu, serverVars>>

\* A reading fails once the process has ended, and may fail before.
SampleError ==
    /\ smp.pc = "percent" /\ ~smp.cancelled
    /\ smp' = [smp EXCEPT !.errs = @ + 1,
                          !.pc = IF smp.errs + 1 >= consecutiveSampleErrors THEN "done" ELSE @]
    /\ UNCHANGED <<worldVars, callVars, cpu, serverVars>>

SampleCancelled ==
    /\ smp.pc = "percent" /\ smp.cancelled
    /\ smp' = [smp EXCEPT !.pc = "done"]
    /\ UNCHANGED <<worldVars, callVars, cpu, serverVars>>

\* The sample is appended, whether or not the memory could be read too.  From MaxSamples on samples
\* are no longer counted and still taken: the bound does not end the sampler.
SampleAppend ==
    /\ smp.pc = "memory"
    /\ cpu' = IF cpu < MaxSamples THEN cpu + 1 ELSE cpu
    /\ smp' = [smp EXCEPT !.pc = "percent"]
    /\ UNCHANGED <<worldVars, callVars, serverVars>>

----------------------------------------------------------------------------
(* The server's control routes, and processes that end. *)

\* MUTANT of HandleInit: every /init starts the counter.
HandleInitAgain(a) ==
    /\ up /\ handler[a] = "sent"
    /\ handler' = [handler EXCEPT ![a] = "done"]
    /\ psStarted' = TRUE /\ starting' = starting + 1
    /\ UNCHANGED <<worldVars, callVars, sampleVars, sampled>>

\* The first /init starts the counter, in a goroutine of its own; a body that cannot be read is 400.
HandleInit(a) ==
    /\ up /\ handler[a] = "sent"
    /\ \/ /\ handler' = [handler EXCEPT ![a] = "done"]
          /\ psStarted' = TRUE
          /\ starting' = IF psStarted THEN starting ELSE starting + 1
       \/ /\ handler' = [handler EXCEPT ![a] = "refused"]
          /\ UNCHANGED <<psStarted, starting>>
    /\ UNCHANGED <<worldVars, callVars, sampleVars, sampled>>

\* psCounter.Start begins with empty slices.
CounterStart ==
    /\ up /\ starting > 0
    /\ starting' = starting - 1 /\ sampled' = 0
    /\ UNCHANGED <<worldVars, callVars, sampleVars, handler, psStarted>>

CounterSample ==
    /\ up /\ sampled \in 0..(MaxSamples - 1)
    /\ sampled' = sampled + 1
    /\ UNCHANGED <<worldVars, callVars, sampleVars, handler, psStarted, starting>>

ServerExit ==
    /\ up /\ up' = FALSE
    /\ alive' = alive \ {run.server}
    /\ UNCHANGED <<run, callVars, sampleVars, serverVars>>

LeftoverExit(p) ==
    /\ p \in alive \ {run.server}
    /\ alive' = alive \ {p}
    /\ UNCHANGED <<run, up, callVars, sampleVars, serverVars>>

Setup ==
    \/ FindList \/ psPidsByName \/ (\E p \in Pids : FindName(p)) \/ FindServerProcess
    \/ StartLocalPSSampler \/ StartFails \/ VerifyServerProcess
    \/ InitSend \/ InitAnswered \/ InitFailed

Reading == PsInfo \/ PsAnswered \/ PsFailed

Stopping == StopCancel \/ StopReturn

Sampling == SamplePercent \/ SampleError \/ SampleCancelled \/ SampleAppend

Server ==
    \/ \E a \in 1..controlAttempts : HandleInit(a)
    \/ CounterStart \/ CounterSample \/ ServerExit
    \/ \E p \in Pids : LeftoverExit(p)

PSStep == Setup \/ Reading \/ Stopping \/ Sampling \/ Server
=============================================================================
