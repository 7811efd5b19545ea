---------------------------- MODULE ClientProofs ----------------------------
(***************************************************************************)
(* For any processes and leftovers, any number of attempts and any command *)
(* line: the right process is sampled, a set up that succeeds leaves a     *)
(* source with samples to come, no sample is lost between two reports and  *)
(* none arrives once Stop has returned; what the check of the flags passes *)
(* does not end the run later, and a batch fits.                           *)
(***************************************************************************)
EXTENDS Client, WellFoundedInduction, TLAPS

----------------------------------------------------------------------------
(* The steps of SetupPS, in the order it takes them.  Each moves spc, which   *)
(* every conjunct speaks of.                                                  *)

----------------------------------------------------------------------------
(* The other steps, by what they leave alone.                                 *)

LEMMA Invariant == Spec => []IInv
\* The conjuncts, one by one, are what the steps below prove.
<1>InvInit. Init => IInv
  <2> SUFFICES ASSUME Init PROVE IInv
    OBVIOUS
  <2>1. PICK c \in CommandLines : PSInit(c.run)
    BY DEF Init
  <2>2. run = c.run /\ (run.server # NoPid => run.own = run.server)
    BY <2>1, ClientAssumption DEF PSInit
  <2>3. TypeOK
    <3>1. alive \subseteq Pids
      BY <2>1, ClientAssumption DEF PSInit
    <3> QED BY Zenon, <2>1, <3>1 DEF PSInit, TypeOK
  <2>4. Found
    BY <2>1, <2>2 DEF PSInit, Found
  <2>5. Asking /\ Stopped /\ SetupFeeds
    BY <2>1 DEF PSInit, Init, Asking, Unasked, Stopped, SetupFeeds
  <2> QED BY <2>3, <2>4, <2>5 DEF IInv
\* A step that touches nothing the invariant speaks of.
<1>Quiet. ASSUME IInv, UNCHANGED <<run, alive, listed, matched, attempt, spc, source, smp, handler, psStarted, mpc>>
          PROVE  IInv'
  BY <1>Quiet DEF IInv, TypeOK, Found, Asking, Unasked, Stopped, SetupFeeds
<1>FindListKeeps.
      ASSUME IInv, FindList, UNCHANGED mainVars
      PROVE  IInv'
  <2> USE <1>FindListKeeps
  <2> USE DEF IInv
  <2>0. UNCHANGED <<run, alive, mpc>>
    BY DEF FindList, worldVars, mainVars
  <2>1. TypeOK'
    BY <2>0, PSAssumption DEF FindList, worldVars, sampleVars, serverVars, callVars, TypeOK
  <2>2. Found'
    BY <2>0 DEF FindList, sampleVars, serverVars, callVars, TypeOK, Found
  <2>3. Asking'
    BY <2>0 DEF FindList, sampleVars, serverVars, callVars, TypeOK, Asking, Unasked
  <2>4. Stopped'
    BY <2>0 DEF FindList, sampleVars, serverVars, callVars, TypeOK, Stopped
  <2>5. SetupFeeds'
    BY <2>0 DEF FindList, sampleVars, serverVars, callVars, TypeOK, Asking, Unasked, SetupFeeds
  <2> QED BY <2>1, <2>2, <2>3, <2>4, <2>5
<1>psPidsByNameKeeps.
      ASSUME IInv, psPidsByName, UNCHANGED mainVars
      PROVE  IInv'
  <2> USE <1>psPidsByNameKeeps
  <2> USE DEF IInv
  <2>0. UNCHANGED <<run, alive, mpc>>
    BY DEF psPidsByName, worldVars, mainVars
  <2>1. TypeOK'
    BY <2>0, PSAssumption DEF psPidsByName, worldVars, sampleVars, serverVars, callVars, TypeOK
  <2>2. Found'
    BY <2>0 DEF psPidsByName, sampleVars, serverVars, callVars, TypeOK, Found
  <2>3. Asking'
    BY <2>0 DEF psPidsByName, sampleVars, serverVars, callVars, TypeOK, Asking, Unasked
  <2>4. Stopped'
    BY <2>0 DEF psPidsByName, sampleVars, serverVars, callVars, TypeOK, Stopped
  <2>5. SetupFeeds'
    BY <2>0 DEF psPidsByName, sampleVars, serverVars, callVars, TypeOK, Asking, Unasked, SetupFeeds
  <2> QED BY <2>1, <2>2, <2>3, <2>4, <2>5
<1>FindServerProcessKeeps.
      ASSUME IInv, FindServerProcess, UNCHANGED mainVars
      PROVE  IInv'
  <2> USE <1>FindServerProcessKeeps
  <2> USE DEF IInv
  <2>0. UNCHANGED <<run, alive, mpc>>
    BY DEF FindServerProcess, worldVars, mainVars
  <2>1. TypeOK'
    BY <2>0, PSAssumption DEF FindServerProcess, worldVars, sampleVars, serverVars, callVars, TypeOK
  <2>2. Found'
    BY <2>0 DEF FindServerProcess, sampleVars, serverVars, callVars, TypeOK, Found
  <2>3. Asking'
    BY <2>0 DEF FindServerProcess, sampleVars, serverVars, callVars, TypeOK, Asking, Unasked
  <2>4. Stopped'
    BY <2>0 DEF FindServerProcess, sampleVars, serverVars, callVars, TypeOK, Stopped
  <2>5. SetupFeeds'
    BY <2>0 DEF FindServerProcess, sampleVars, serverVars, callVars, TypeOK, Asking, Unasked, SetupFeeds
  <2> QED BY <2>1, <2>2, <2>3, <2>4, <2>5
<1>StartLocalPSSamplerKeeps.
      ASSUME IInv, StartLocalPSSampler, UNCHANGED mainVars
      PROVE  IInv'
  <2> USE <1>StartLocalPSSamplerKeeps
  <2> USE DEF IInv
  <2>0. UNCHANGED <<run, alive, mpc>>
    BY DEF StartLocalPSSampler, worldVars, mainVars
  <2>1. TypeOK'
    BY Zenon, <2>0, PSAssumption DEF StartLocalPSSampler, worldVars, sampleVars, serverVars, callVars, TypeOK
  <2>2. Found'
    BY <2>0 DEF StartLocalPSSampler, sampleVars, serverVars, callVars, TypeOK, Found
  <2>3. Asking'
    BY <2>0 DEF StartLocalPSSampler, sampleVars, serverVars, callVars, TypeOK, Asking, Unasked
  <2>4. Stopped'
    BY <2>0 DEF StartLocalPSSampler, sampleVars, serverVars, callVars, TypeOK, Stopped
  <2>5. SetupFeeds'
    BY <2>0 DEF StartLocalPSSampler, sampleVars, serverVars, callVars, TypeOK, Asking, Unasked, SetupFeeds
  <2> QED BY <2>1, <2>2, <2>3, <2>4, <2>5
<1>StartFailsKeeps.
      ASSUME IInv, StartFails, UNCHANGED mainVars
      PROVE  IInv'
  <2> USE <1>StartFailsKeeps
  <2> USE DEF IInv
  <2>0. UNCHANGED <<run, alive, mpc>>
    BY DEF StartFails, worldVars, mainVars
  <2>1. TypeOK'
    BY <2>0, PSAssumption DEF StartFails, worldVars, sampleVars, serverVars, callVars, TypeOK
  <2>2. Found'
    BY <2>0 DEF StartFails, sampleVars, serverVars, callVars, TypeOK, Found
  <2>3. Asking'
    BY <2>0 DEF StartFails, sampleVars, serverVars, callVars, TypeOK, Asking, Unasked
  <2>4. Stopped'
    BY <2>0 DEF StartFails, sampleVars, serverVars, callVars, TypeOK, Stopped
  <2>5. SetupFeeds'
    BY <2>0 DEF StartFails, sampleVars, serverVars, callVars, TypeOK, Asking, Unasked, SetupFeeds
  <2> QED BY <2>1, <2>2, <2>3, <2>4, <2>5
<1>VerifyServerProcessKeeps.
      ASSUME IInv, VerifyServerProcess, UNCHANGED mainVars
      PROVE  IInv'
  <2> USE <1>VerifyServerProcessKeeps
  <2> USE DEF IInv
  <2>0. UNCHANGED <<run, alive, mpc>>
    BY DEF VerifyServerProcess, worldVars, mainVars
  <2>1. TypeOK'
    BY <2>0, PSAssumption DEF VerifyServerProcess, worldVars, sampleVars, serverVars, callVars, TypeOK
  <2>2. Found'
    BY <2>0 DEF VerifyServerProcess, sampleVars, serverVars, callVars, TypeOK, Found
  <2>3. Asking'
    BY <2>0 DEF VerifyServerProcess, sampleVars, serverVars, callVars, TypeOK, Asking, Unasked
  <2>4. Stopped'
    BY <2>0 DEF VerifyServerProcess, sampleVars, serverVars, callVars, TypeOK, Stopped
  <2>5. SetupFeeds'
    BY <2>0 DEF VerifyServerProcess, sampleVars, serverVars, callVars, TypeOK, Asking, Unasked, SetupFeeds
  <2> QED BY <2>1, <2>2, <2>3, <2>4, <2>5
<1>InitSendKeeps.
      ASSUME IInv, InitSend, UNCHANGED mainVars
      PROVE  IInv'
  <2> USE <1>InitSendKeeps
  <2> USE DEF IInv
  <2>0. UNCHANGED <<run, alive, mpc>>
    BY DEF InitSend, worldVars, mainVars
  <2>1. TypeOK'
    BY <2>0, PSAssumption DEF InitSend, worldVars, sampleVars, serverVars, callVars, TypeOK
  <2>2. Found'
    BY <2>0 DEF InitSend, sampleVars, serverVars, callVars, TypeOK, Found
  <2>3. Asking'
    BY <2>0 DEF InitSend, sampleVars, serverVars, callVars, TypeOK, Asking, Unasked
  <2>4. Stopped'
    BY <2>0 DEF InitSend, sampleVars, serverVars, callVars, TypeOK, Stopped
  <2>5. SetupFeeds'
    BY <2>0 DEF InitSend, sampleVars, serverVars, callVars, TypeOK, Asking, Unasked, SetupFeeds
  <2> QED BY <2>1, <2>2, <2>3, <2>4, <2>5
<1>InitAnsweredKeeps.
      ASSUME IInv, InitAnswered, UNCHANGED mainVars
      PROVE  IInv'
  <2> USE <1>InitAnsweredKeeps
  <2> USE DEF IInv
  <2>0. UNCHANGED <<run, alive, mpc>>
    BY DEF InitAnswered, worldVars, mainVars
  <2>1. TypeOK'
    BY Zenon, <2>0, PSAssumption DEF InitAnswered, worldVars, sampleVars, serverVars, callVars, TypeOK
  <2>2. Found'
    BY <2>0, PSAssumption DEF InitAnswered, sampleVars, serverVars, callVars, TypeOK, Found
  <2>3. Asking'
    BY <2>0 DEF InitAnswered, sampleVars, serverVars, callVars, TypeOK, Asking, Unasked
  <2>4. Stopped'
    BY <2>0 DEF InitAnswered, sampleVars, serverVars, callVars, TypeOK, Stopped
  <2>5. SetupFeeds'
    BY <2>0 DEF InitAnswered, sampleVars, serverVars, callVars, TypeOK, Asking, Unasked, SetupFeeds
  <2> QED BY <2>1, <2>2, <2>3, <2>4, <2>5
<1>InitFailedKeeps.
      ASSUME IInv, InitFailed, UNCHANGED mainVars
      PROVE  IInv'
  <2> USE <1>InitFailedKeeps
  <2> USE DEF IInv
  <2>0. UNCHANGED <<run, alive, mpc>>
    BY DEF InitFailed, worldVars, mainVars
  <2>1. TypeOK'
    <3>1. spc' = "init" => attempt' \in 1..controlAttempts
      BY PSAssumption DEF InitFailed, TypeOK
    <3>2. source' \in [kind : {"remote", "local"}, pid : Pids \cup {NoPid, run.own}, err : BOOLEAN]
      BY Zenon DEF InitFailed, TypeOK
    <3>3. UNCHANGED <<listed, matched, smp, handler, psStarted>>
      BY DEF InitFailed, sampleVars, serverVars
    <3> QED BY <2>0, <3>1, <3>2, <3>3 DEF TypeOK
  <2>2. Found'
    BY <2>0 DEF InitFailed, sampleVars, serverVars, callVars, TypeOK, Found
  <2>3. Asking'
    BY <2>0 DEF InitFailed, sampleVars, serverVars, callVars, TypeOK, Asking, Unasked
  <2>4. Stopped'
    BY <2>0 DEF InitFailed, sampleVars, serverVars, callVars, TypeOK, Stopped
  <2>5. SetupFeeds'
    BY <2>0 DEF InitFailed, sampleVars, serverVars, callVars, TypeOK, Asking, Unasked, SetupFeeds
  <2> QED BY <2>1, <2>2, <2>3, <2>4, <2>5
<1>FindNameKeeps.
      ASSUME IInv, NEW p \in Pids, FindName(p), UNCHANGED mainVars
      PROVE  IInv'
  <2> USE <1>FindNameKeeps
  <2> USE DEF IInv
  <2>0. UNCHANGED <<run, mpc>>
    BY DEF FindName, worldVars, mainVars
  <2>1. TypeOK'
    BY <2>0, PSAssumption DEF FindName, worldVars, sampleVars, serverVars, callVars, TypeOK
  <2>2. Found'
    BY <2>0 DEF FindName, worldVars, sampleVars, serverVars, callVars, TypeOK, Found
  <2>3. Asking'
    BY <2>0 DEF FindName, sampleVars, serverVars, callVars, TypeOK, Asking, Unasked
  <2>4. Stopped'
    BY <2>0 DEF FindName, sampleVars, serverVars, callVars, TypeOK, Stopped
  <2>5. SetupFeeds'
    BY <2>0 DEF FindName, sampleVars, serverVars, callVars, TypeOK, Asking, Unasked, SetupFeeds
  <2> QED BY <2>1, <2>2, <2>3, <2>4, <2>5
\* main goes on from one benchmark to the next, or reads the samples.
<1>PlaceOnly. ASSUME IInv, UNCHANGED <<run, alive, listed, matched, source, smp, handler, psStarted>>,
                     spc' \in {"idle", "psinfo", "ps", "told", "stop"},
                     (mpc' = mpc /\ spc \notin {"idle", "back"}) \/ mpc' \notin {"flags", "dial", "setup"}
              PROVE  IInv'
  <2> USE <1>PlaceOnly
  <2> USE DEF IInv
  <2>1. TypeOK'
    BY DEF TypeOK
  <2>2. Found'
    BY DEF Found
  <2>3. Asking'
    BY DEF Asking, Unasked
  <2>4. Stopped' /\ SetupFeeds'
    BY DEF Stopped, SetupFeeds
  <2> QED BY <2>1, <2>2, <2>3, <2>4
<1>ReadingKeeps.
      ASSUME IInv, Reading, UNCHANGED mainVars
      PROVE  IInv'
  <2> USE <1>ReadingKeeps
  <2>1. UNCHANGED <<run, alive, listed, matched, source, smp, handler, psStarted, mpc>>
    BY DEF Reading, PsInfo, PsAnswered, PsFailed, worldVars, sampleVars, serverVars, mainVars
  <2>2. spc \in {"psinfo", "ps"} /\ spc' \in {"ps", "told"}
    BY DEF Reading, PsInfo, PsAnswered, PsFailed
  <2> QED BY <2>1, <2>2, <1>PlaceOnly
<1>StoppingKeeps.
      ASSUME IInv, Stopping, UNCHANGED mainVars
      PROVE  IInv'
  <2> USE <1>StoppingKeeps
  <2> USE DEF IInv
  <2>1. /\ UNCHANGED <<run, alive, listed, matched, source, handler, psStarted, mpc>>
        /\ spc \in {"stop", "wait"} /\ spc' \in {"wait", "stopped"}
    BY DEF Stopping, StopCancel, StopReturn, worldVars, sampleVars, serverVars, mainVars
  <2>2. TypeOK' /\ smp'.pid = smp.pid /\ smp'.pc = smp.pc
    BY Zenon, <2>1 DEF Stopping, StopCancel, StopReturn, sampleVars, TypeOK
  <2>3. Found'
    BY <2>1, <2>2 DEF Found
  <2>4. Asking' /\ SetupFeeds'
    BY <2>1 DEF Asking, Unasked, SetupFeeds
  <2>5. Stopped'
    BY <2>1, <2>2 DEF Stopping, StopCancel, StopReturn, Stopped
  <2> QED BY <2>2, <2>3, <2>4, <2>5
\* The sampler, which is not done yet, keeps its process.
<1>SamplingKeeps.
      ASSUME IInv, Sampling, UNCHANGED mainVars
      PROVE  IInv'
  <2> USE <1>SamplingKeeps
  <2> USE DEF IInv
  <2>1. UNCHANGED <<run, alive, listed, matched, attempt, spc, source, handler, psStarted, mpc>>
    BY DEF Sampling, SamplePercent, SampleError, SampleCancelled, SampleAppend,
           worldVars, callVars, serverVars, mainVars
  <2>2. smp.errs + 1 \in Nat
    BY DEF TypeOK
  <2>3. /\ smp' \in [pc : {"none", "percent", "memory", "done"}, pid : Pids \cup {NoPid, run.own},
                     errs : Nat, cancelled : BOOLEAN, fallback : BOOLEAN]
        /\ smp'.pid = smp.pid /\ smp'.fallback = smp.fallback
        /\ smp.pc \in {"percent", "memory"}
    <3>1. CASE SamplePercent
      BY Zenon, <3>1 DEF SamplePercent, TypeOK
    <3>2. CASE SampleError
      BY Zenon, <2>2, <3>2 DEF SampleError, TypeOK
    <3>3. CASE SampleCancelled
      BY <3>3 DEF SampleCancelled, TypeOK
    <3>4. CASE SampleAppend
      BY <3>4 DEF SampleAppend, TypeOK
    <3> QED BY <3>1, <3>2, <3>3, <3>4 DEF Sampling
  <2>4. TypeOK'
    BY <2>1, <2>3 DEF TypeOK
  <2>5. Found'
    BY <2>1, <2>3 DEF Found
  <2>6. Asking' /\ SetupFeeds'
    BY <2>1, <2>3 DEF Asking, Unasked, SetupFeeds
  <2>7. Stopped'
    BY <2>1, <2>3 DEF Stopped
  <2> QED BY <2>4, <2>5, <2>6, <2>7
\* The server takes a request that was sent.
<1>HandleInitKeeps.
      ASSUME IInv, NEW a \in 1..controlAttempts, HandleInit(a), UNCHANGED mainVars
      PROVE  IInv'
  <2> USE <1>HandleInitKeeps
  <2> USE DEF IInv
  <2>1. UNCHANGED <<run, alive, listed, matched, attempt, spc, source, smp, mpc>>
    BY DEF HandleInit, worldVars, callVars, sampleVars, mainVars
  <2>2. /\ ~Unasked
        /\ handler' \in [1..controlAttempts -> {"unsent", "sent", "done", "refused"}]
        /\ psStarted => psStarted' = TRUE
        /\ psStarted' \in BOOLEAN
    BY Zenon DEF HandleInit, Unasked, TypeOK
  <2>3. \A b \in 1..controlAttempts : handler'[b] = "done" => psStarted'
    <3>1. CASE psStarted' = TRUE
      BY <3>1
    <3>2. CASE handler' = [handler EXCEPT ![a] = "refused"] /\ UNCHANGED psStarted
      BY Zenon, <3>2 DEF Asking, TypeOK
    <3> QED BY <3>1, <3>2 DEF HandleInit
  <2>4. TypeOK' /\ Found' /\ Stopped'
    BY <2>1, <2>2 DEF TypeOK, Found, Stopped
  <2>5. Asking'
    BY <2>1, <2>2, <2>3 DEF Asking, TypeOK
  <2>6. SetupFeeds'
    BY <2>1, <2>2 DEF SetupFeeds, Unasked
  <2> QED BY <2>4, <2>5, <2>6
\* A process ends.
<1>ExitKeeps. ASSUME IInv, ServerExit \/ \E p \in Pids : LeftoverExit(p), UNCHANGED mainVars
              PROVE  IInv'
  <2> USE <1>ExitKeeps
  <2> USE DEF IInv
  <2>1. /\ UNCHANGED <<run, listed, matched, attempt, spc, source, smp, handler, psStarted, mpc>>
        /\ alive' \subseteq alive
    BY DEF ServerExit, LeftoverExit, callVars, sampleVars, serverVars, mainVars
  <2>2. TypeOK'
    BY <2>1 DEF TypeOK
  <2>3. Found'
    BY <2>1 DEF Found
  <2>4. Asking' /\ Stopped' /\ SetupFeeds'
    BY <2>1 DEF Asking, Unasked, Stopped, SetupFeeds
  <2> QED BY <2>2, <2>3, <2>4
<1>ServerKeeps.
      ASSUME IInv, Server, UNCHANGED mainVars
      PROVE  IInv'
  <2> USE <1>ServerKeeps
  <2>1. CASE CounterStart \/ CounterSample
    BY <2>1, <1>Quiet DEF CounterStart, CounterSample, worldVars, callVars, sampleVars, mainVars
  <2> QED BY <2>1, <1>HandleInitKeeps, <1>ExitKeeps DEF Server
\* The call of SetupPS.
<1>DialKeeps. ASSUME IInv, Dial
              PROVE  IInv'
  <2> USE <1>DialKeeps
  <2> USE DEF IInv
  <2>1. /\ UNCHANGED <<run, alive, listed, matched, source, smp, handler, psStarted>>
        /\ mpc = "dial" /\ mpc' = "setup"
        /\ \/ spc' = "list" /\ attempt' = 0
           \/ spc' = "init" /\ attempt' = 1
    BY DEF Dial, SetupBegins, worldVars, sampleVars, serverVars
  <2>2. TypeOK'
    BY SMTT(40), Z3T(40), <2>1, PSAssumption DEF TypeOK
  <2>3. Found'
    BY <2>1 DEF Found
  <2>4. Asking'
    BY <2>1 DEF Asking, Unasked
  <2>5. Stopped' /\ SetupFeeds'
    BY <2>1 DEF Stopped, SetupFeeds
  <2> QED BY Zenon, <2>2, <2>3, <2>4, <2>5
\* Before and after there is anything to sample.
<1>EndsKeep. ASSUME IInv, CheckFlags \/ Return
             PROVE  IInv'
  <2> USE <1>EndsKeep
  <2> USE DEF IInv
  <2>1. /\ UNCHANGED <<run, alive, listed, matched, attempt, spc, source, smp, handler, psStarted>>
        /\ mpc' \in {"fatal", "exit"} \/ (mpc = "flags" /\ mpc' = "dial")
    BY DEF CheckFlags, Return, Die, psVars, worldVars, callVars, sampleVars, serverVars
  <2>2. TypeOK' /\ Found' /\ Stopped'
    BY <2>1 DEF TypeOK, Found, Stopped
  <2>3. Asking' /\ SetupFeeds'
    BY <2>1 DEF Asking, Unasked, SetupFeeds
  <2> QED BY Zenon, <2>2, <2>3
\* The benchmarks and their reports.
<1>BenchmarksKeep.
      ASSUME IInv, BenchEcho \/ EchoReport \/ BenchRate \/ RateReport
      PROVE  IInv'
  <2> USE <1>BenchmarksKeep
  <2>1. UNCHANGED <<run, alive, listed, matched, source, smp, handler, psStarted>>
    BY DEF BenchEcho, EchoReport, BenchRate, RateReport, worldVars, sampleVars, serverVars
  <2>2. /\ spc' \in {"idle", "psinfo", "stop"}
        /\ mpc' \in {"fatal", "echo", "rate", "rated", "stop"}
    <3>1. CASE BenchEcho
      BY <3>1 DEF BenchEcho, Die
    <3>2. CASE BenchRate
      BY Zenon, <3>2 DEF BenchRate, Die
    <3>3. CASE EchoReport \/ RateReport
      BY <3>3 DEF EchoReport, RateReport
    <3> QED BY <3>1, <3>2, <3>3
  <2> QED BY Zenon, <2>1, <2>2, <1>PlaceOnly
<1>InvStep. IInv /\ [Next]_vars => IInv'
  <2> SUFFICES ASSUME IInv, [Next]_vars PROVE IInv'
    OBVIOUS
  <2>1. CASE Main
    BY <2>1, <1>EndsKeep, <1>DialKeeps, <1>BenchmarksKeep DEF Main
  <2>2. CASE Setup /\ UNCHANGED mainVars
    BY <2>2, <1>FindListKeeps, <1>FindNameKeeps, <1>FindServerProcessKeeps, <1>StartLocalPSSamplerKeeps,
       <1>psPidsByNameKeeps, <1>StartFailsKeeps, <1>VerifyServerProcessKeeps,
       <1>InitSendKeeps, <1>InitAnsweredKeeps, <1>InitFailedKeeps
       DEF Setup
  <2>3. CASE PSStep /\ UNCHANGED mainVars
    BY <2>2, <2>3, <1>ReadingKeeps, <1>StoppingKeeps, <1>SamplingKeeps, <1>ServerKeeps DEF PSStep
  <2>4. CASE UNCHANGED vars
    BY <2>4, <1>Quiet DEF vars, psVars, worldVars, callVars, sampleVars, serverVars, mainVars
  <2> QED BY <2>1, <2>3, <2>4 DEF Next
<1> QED BY <1>InvInit, <1>InvStep, PTL DEF Spec

\* However many leftovers of its name there are and whenever they end, while the
\* measured server runs on this machine no other process is sampled.
THEOREM RightProcessSampled == Spec => []RightProcess
<1>1. IInv => RightProcess
  BY DEF IInv, Found, RightProcess
<1> QED BY <1>1, Invariant, PTL

\* A set up that reports no error leaves the sampler running here, with nothing
\* asked of the server, or a server that has been told to sample itself.
THEOREM SetupAlwaysFeeds == Spec => []SetupFeeds
<1>1. IInv => SetupFeeds
  BY DEF IInv
<1> QED BY <1>1, Invariant, PTL

\* Once Stop has returned the samples stand still.
THEOREM SamplesStandStill == Spec => NoSampleAfterStop
<1>1. ASSUME IInv, [Next]_vars, spc = "stopped" PROVE UNCHANGED cpu
  <2>1. smp.pc \in {"none", "done"}
    BY <1>1 DEF IInv, Stopped, TypeOK
  <2>2. ~SampleAppend
    BY Zenon, <2>1 DEF SampleAppend
  <2>3. CASE Main
    BY Zenon, <2>3 DEF Main, CheckFlags, Dial, BenchEcho, EchoReport, BenchRate, RateReport, Return,
                psVars, sampleVars
  <2>4. CASE Setup \/ Reading \/ Stopping
    BY <2>4 DEF Setup, FindList, psPidsByName, FindName, FindServerProcess, StartLocalPSSampler, StartFails,
                VerifyServerProcess, InitSend, InitAnswered, InitFailed, Reading, PsInfo, PsAnswered,
                PsFailed, Stopping, StopCancel, StopReturn, sampleVars
  <2>5. CASE Sampling
    BY <2>2, <2>5 DEF Sampling, SamplePercent, SampleError, SampleCancelled
  <2>6. CASE Server
    BY <2>6 DEF Server, HandleInit, CounterStart, CounterSample, ServerExit, LeftoverExit, sampleVars
  <2>7. CASE UNCHANGED vars
    BY <2>7 DEF vars, psVars, sampleVars
  <2> QED BY <1>1, <2>3, <2>4, <2>5, <2>6, <2>7 DEF Next, PSStep
<1>2. IInv /\ [Next]_vars => [spc = "stopped" => UNCHANGED cpu]_vars
  BY <1>1
<1> QED BY <1>2, Invariant, PTL DEF Spec, NoSampleAfterStop

---------------------------------------------------------------------------
(***************************************************************************)
(* The samples.  The server's counter is started once; a report has no     *)
(* more samples than its source has now; and what the call has just read   *)
(* is no less than the report of the benchmark before.                     *)
(***************************************************************************)

Samples == [n : Int, from : {"client", "server", "nobody"}, err : BOOLEAN]

StartedOnce ==
  /\ cpu \in Nat /\ sampled \in Nat \cup {-1} /\ starting \in {0, 1}
  /\ ~psStarted => starting = 0 /\ sampled = -1
  /\ starting = 1 => sampled = -1

\* A report does not have more than its source.
Had(r) ==
  /\ r.from = "client" => r.n <= cpu
  /\ r.from = "server" => r.n <= 0 \/ r.n <= sampled
  /\ r.from = "nobody" => r.n <= 0

NoLess(r) == r.from = reports["echo"].from /\ r.n > 0 => r.n >= reports["echo"].n

Reported ==
  /\ got \in Samples /\ reports \in [{"echo", "rate"} -> Samples]
  /\ Had(reports["echo"])
  /\ spc = "told" => Had(got) /\ NoLess(got)
  /\ mpc \notin {"stop", "exit"} => ~(reports["rate"].n > 0)
  /\ NoLess(reports["rate"])

KeptInv == psStarted \in BOOLEAN /\ StartedOnce /\ Reported

(***************************************************************************)
(* The flags.  Past CheckFlags they are valid, and a batch that is written *)
(* is the one that init found.                                             *)
(***************************************************************************)

Checked ==
  /\ flags \in Flags
  /\ mpc \notin {"flags", "exit", "fatal"} /\ flags.rate =>
       ValidateBatch(flags.batch, Larger(flags.sendRate, 1))
  /\ mpc = "rate" => flags.rate
  /\ mpc = "rated" => flags.rate /\ batch = RateBatch
  /\ cause # "batch"

\* For any number of samples and requests for them: between two reports from the
\* same source no sample is lost, also when /init comes late or twice.
THEOREM SamplesNeverLost == Spec => []SamplesKept
<1>KeptInit. Init => KeptInv
  <2> SUFFICES ASSUME Init PROVE KeptInv
    OBVIOUS
  <2>1. PICK c \in CommandLines : PSInit(c.run)
    BY DEF Init
  <2>2. /\ psStarted = FALSE /\ starting = 0 /\ sampled = -1 /\ cpu = 0 /\ spc = "idle"
        /\ got = [n |-> 0, from |-> "nobody", err |-> FALSE]
    BY <2>1 DEF PSInit
  <2>3. Unmade \in Samples /\ Unmade.n = -1 /\ Unmade.from = "nobody"
    BY DEF Unmade, Samples
  <2>4. /\ reports \in [{"echo", "rate"} -> Samples]
        /\ reports["echo"] = Unmade /\ reports["rate"] = Unmade
    BY <2>3 DEF Init
  <2>5. got \in Samples
    BY <2>2 DEF Samples
  <2>6. Reported
    BY <2>2, <2>3, <2>4, <2>5 DEF Reported, Had, NoLess
  <2>7. StartedOnce
    BY <2>2 DEF StartedOnce
  <2> QED BY Zenon, <2>2, <2>6, <2>7 DEF KeptInv
\* A step that reads nothing and counts nothing.
<1>KeptQuiet. ASSUME KeptInv, UNCHANGED <<cpu, psStarted, starting, sampled, got, reports>>,
                     spc' = "told" => spc = "told", mpc \in {"stop", "exit"} => mpc' \in {"stop", "exit"}
              PROVE  KeptInv'
  <2> USE <1>KeptQuiet
  <2>1. StartedOnce' /\ psStarted' \in BOOLEAN
    BY DEF KeptInv, StartedOnce
  <2>2. Reported'
    BY DEF KeptInv, Reported, Had, NoLess
  <2> QED BY <2>1, <2>2 DEF KeptInv
\* Samples are counted and none are lost.
<1>KeptGrows. ASSUME KeptInv, UNCHANGED <<got, reports, spc, mpc>>, StartedOnce', psStarted' \in BOOLEAN,
                     cpu' >= cpu, sampled' >= sampled
              PROVE  KeptInv'
  <2> USE <1>KeptGrows
  <2>1. /\ cpu \in Int /\ cpu' \in Int /\ sampled \in Int /\ sampled' \in Int
    BY DEF KeptInv, StartedOnce
  <2>2. ASSUME NEW r \in Samples, Had(r) PROVE Had(r)'
    BY <2>1, <2>2 DEF Had, Samples
  <2>3. reports["echo"] \in Samples /\ Had(reports["echo"])
    BY DEF KeptInv, Reported
  <2>4. Had(reports["echo"])'
    BY <2>2, <2>3 DEF Had
  <2>5. spc = "told" => Had(got)'
    BY <2>2 DEF KeptInv, Reported, Had
  <2>6. Reported'
    BY <2>4, <2>5 DEF KeptInv, Reported, NoLess
  <2> QED BY <2>6 DEF KeptInv
<1>KeptSampling.
      ASSUME KeptInv, Sampling, UNCHANGED mainVars
      PROVE  KeptInv'
  <2> USE <1>KeptSampling
  <2>1. UNCHANGED <<psStarted, starting, sampled, got, reports, spc, mpc>>
    BY DEF Sampling, SamplePercent, SampleError, SampleCancelled, SampleAppend, callVars, serverVars, mainVars
  <2>2. cpu \in Nat /\ sampled \in Int
    BY DEF KeptInv, StartedOnce
  <2>3. cpu' = cpu \/ cpu' = cpu + 1
    BY DEF Sampling, SamplePercent, SampleError, SampleCancelled, SampleAppend
  <2>4. cpu' \in Nat /\ cpu' >= cpu /\ sampled' >= sampled
    BY <2>1, <2>2, <2>3
  <2>5. StartedOnce' /\ psStarted' \in BOOLEAN
    BY <2>1, <2>4 DEF KeptInv, StartedOnce
  <2> QED BY <2>1, <2>4, <2>5, <1>KeptGrows
\* Of the server: the first /init, and no other, starts the counter.
<1>KeptServer.
      ASSUME KeptInv, Server, UNCHANGED mainVars
      PROVE  KeptInv'
  <2> USE <1>KeptServer
  <2>0. /\ cpu \in Nat /\ sampled \in Int /\ starting \in {0, 1} /\ psStarted \in BOOLEAN
    BY DEF KeptInv, StartedOnce
  <2>1. ASSUME NEW a \in 1..controlAttempts, HandleInit(a) PROVE KeptInv'
    <3>1. UNCHANGED <<cpu, sampled, got, reports, spc, mpc>>
      BY <2>1 DEF HandleInit, callVars, sampleVars, mainVars
    <3>2. \/ psStarted' = TRUE /\ starting' = (IF psStarted THEN starting ELSE starting + 1)
          \/ UNCHANGED <<psStarted, starting>>
      BY <2>1 DEF HandleInit
    <3>3. CASE UNCHANGED <<psStarted, starting>>
      BY <3>1, <3>3, <1>KeptQuiet
    <3>4. CASE psStarted' = TRUE /\ psStarted /\ starting' = starting
      BY <2>0, <3>1, <3>4, <1>KeptQuiet
    <3>5. CASE psStarted' = TRUE /\ ~psStarted /\ starting' = starting + 1
      <4>1. starting' = 1 /\ sampled' = -1
        BY <3>1, <3>5 DEF KeptInv, StartedOnce
      <4>2. StartedOnce' /\ psStarted' \in BOOLEAN
        BY <2>0, <3>1, <3>5, <4>1 DEF StartedOnce
      <4>3. cpu' >= cpu /\ sampled' >= sampled
        BY <2>0, <3>1
      <4> QED BY <3>1, <4>2, <4>3, <1>KeptGrows
    <3> QED BY Zenon, <2>0, <3>2, <3>3, <3>4, <3>5
  <2>2. CASE CounterStart
    <3>1. UNCHANGED <<cpu, psStarted, got, reports, spc, mpc>> /\ starting' = starting - 1 /\ sampled' = 0
      BY <2>2 DEF CounterStart, callVars, sampleVars, mainVars
    <3>2. starting = 1 /\ sampled = -1 /\ psStarted
      BY <2>0, <2>2 DEF CounterStart, KeptInv, StartedOnce
    <3>3. StartedOnce' /\ psStarted' \in BOOLEAN
      BY <2>0, <3>1, <3>2 DEF StartedOnce
    <3>4. cpu' >= cpu /\ sampled' >= sampled
      BY <2>0, <3>1, <3>2
    <3> QED BY <3>1, <3>3, <3>4, <1>KeptGrows
  <2>3. CASE CounterSample
    <3>1. /\ UNCHANGED <<cpu, psStarted, starting, got, reports, spc, mpc>>
          /\ sampled \in 0..(MaxSamples - 1) /\ sampled' = sampled + 1
      BY <2>3 DEF CounterSample, callVars, sampleVars, mainVars
    <3>2. sampled \in Nat /\ sampled' \in Nat /\ sampled' >= sampled /\ cpu' >= cpu
      BY <2>0, <3>1, PSAssumption
    <3>3. StartedOnce' /\ psStarted' \in BOOLEAN
      BY <2>0, <3>1, <3>2 DEF KeptInv, StartedOnce
    <3> QED BY <3>1, <3>2, <3>3, <1>KeptGrows
  <2>4. CASE ServerExit \/ \E p \in Pids : LeftoverExit(p)
    BY <2>4, <1>KeptQuiet DEF ServerExit, LeftoverExit, callVars, sampleVars, serverVars, mainVars
  <2> QED BY <2>1, <2>2, <2>3, <2>4 DEF Server
\* What PsInfo returns is what its source has at that moment.
<1>KeptReading.
      ASSUME KeptInv, Reading, UNCHANGED mainVars
      PROVE  KeptInv'
  <2> USE <1>KeptReading
  <2>0. /\ cpu \in Nat /\ sampled \in Int /\ UNCHANGED <<cpu, psStarted, starting, sampled, reports, mpc>>
        /\ reports["echo"] \in Samples /\ Had(reports["echo"])
    BY DEF KeptInv, StartedOnce, Reported, Reading, PsInfo, PsAnswered, PsFailed,
           sampleVars, serverVars, mainVars
  <2>1. CASE got' = got /\ spc' # "told"
    BY <2>0, <2>1, <1>KeptQuiet
  <2>2. ASSUME got' \in Samples,
               \/ got'.n = 0
               \/ got'.from = "client" /\ got'.n = cpu
               \/ got'.from = "server" /\ got'.n = sampled
        PROVE  KeptInv'
    <3>1. PICK g \in Samples : g = got'
      BY Zenon, <2>2
    <3>2. Had(g) /\ NoLess(g)
      BY <2>0, <2>2, <3>1 DEF Had, NoLess, Samples
    <3>3. Had(got)' /\ NoLess(got)'
      BY Zenon, <2>0, <3>1, <3>2 DEF Had, NoLess
    <3>4. Reported'
      BY <2>0, <2>2, <3>3 DEF KeptInv, Reported, Had, NoLess
    <3>5. StartedOnce' /\ psStarted' \in BOOLEAN
      BY <2>0 DEF KeptInv, StartedOnce
    <3> QED BY <3>4, <3>5 DEF KeptInv
  <2>3. CASE PsInfo
    <3>1. \/ got' = [n |-> cpu, from |-> "client", err |-> FALSE]
          \/ got' = [n |-> 0, from |-> "client", err |-> TRUE]
          \/ got' = got /\ spc' # "told"
      BY <2>3 DEF PsInfo
    <3>2. CASE \/ got' = [n |-> cpu, from |-> "client", err |-> FALSE]
               \/ got' = [n |-> 0, from |-> "client", err |-> TRUE]
      <4>1. PICK k \in {cpu, 0}, e \in BOOLEAN : got' = [n |-> k, from |-> "client", err |-> e]
        BY Zenon, <3>2
      <4>2. k \in Int
        BY <2>0
      <4>3. got' \in Samples
        BY <4>1, <4>2, Zenon DEF Samples
      <4>4. got'.from = "client" /\ (got'.n = cpu \/ got'.n = 0)
        BY <4>1
      <4> QED BY <2>2, <4>3, <4>4
    <3> QED BY SMTT(40), <2>1, <3>1, <3>2
  <2>4. CASE PsAnswered
    <3>1. PICK busy, json \in BOOLEAN :
            got' = [n |-> IF json /\ sampled > 0 THEN sampled ELSE 0, from |-> "server",
                    err |-> ~(json /\ sampled > 0 /\ busy)]
      BY <2>4 DEF PsAnswered
    <3>2. got' \in Samples
      <4>1. PICK k \in Int : k = IF json /\ sampled > 0 THEN sampled ELSE 0
        BY <2>0
      <4>2. PICK e \in BOOLEAN : e = ~(json /\ sampled > 0 /\ busy)
        BY Zenon
      <4>3. got' = [n |-> k, from |-> "server", err |-> e]
        BY <3>1, <4>1, <4>2
      <4> QED BY <4>3, Zenon DEF Samples
    <3>3. got'.from = "server" /\ (got'.n = sampled \/ got'.n = 0)
      BY <3>1
    <3> QED BY SMTT(40), Z3T(40), <2>2, <3>2, <3>3
  <2>5. CASE PsFailed
    <3>1. \/ got' = [n |-> 0, from |-> "nobody", err |-> TRUE]
          \/ got' = got /\ spc' # "told"
      BY <2>5 DEF PsFailed
    <3>2. CASE got' = [n |-> 0, from |-> "nobody", err |-> TRUE]
      <4>1. got' \in Samples /\ got'.n = 0
        BY <3>2 DEF Samples
      <4> QED BY <2>2, <4>1
    <3> QED BY <2>1, <3>1, <3>2
  <2> QED BY Zenon, <2>3, <2>4, <2>5 DEF Reading
\* A report takes what was read; that of BenchEcho comes before that of BenchRate.
<1>KeptReports.
      ASSUME KeptInv, EchoReport \/ RateReport
      PROVE  KeptInv'
  <2> USE <1>KeptReports
  <2>0. /\ UNCHANGED <<cpu, psStarted, starting, sampled, got>> /\ spc = "told" /\ spc' # "told"
        /\ got \in Samples /\ reports \in [{"echo", "rate"} -> Samples]
        /\ Had(got) /\ NoLess(got) /\ Had(reports["echo"]) /\ mpc \notin {"stop", "exit"}
        /\ ~(reports["rate"].n > 0)
    BY DEF KeptInv, Reported, EchoReport, RateReport, sampleVars, serverVars
  <2>1. CASE EchoReport
    <3>1. /\ reports' \in [{"echo", "rate"} -> Samples]
          /\ reports'["echo"] = got /\ reports'["rate"] = reports["rate"]
      BY Zenon, <2>0, <2>1 DEF EchoReport
    <3>2. Reported'
      BY <2>0, <3>1 DEF Reported, Had, NoLess
    <3>3. StartedOnce' /\ psStarted' \in BOOLEAN
      BY <2>0 DEF KeptInv, StartedOnce
    <3> QED BY <3>2, <3>3 DEF KeptInv
  <2>2. CASE RateReport
    <3>1. /\ reports' \in [{"echo", "rate"} -> Samples] /\ mpc' = "stop"
          /\ reports'["rate"] = got /\ reports'["echo"] = reports["echo"]
      BY Zenon, <2>0, <2>2 DEF RateReport
    <3>2. Reported'
      BY <2>0, <3>1 DEF Reported, Had, NoLess
    <3>3. StartedOnce' /\ psStarted' \in BOOLEAN
      BY <2>0 DEF KeptInv, StartedOnce
    <3> QED BY <3>2, <3>3 DEF KeptInv
  <2> QED BY SMTT(40), Z3T(40), <2>1, <2>2
<1>KeptStep. ASSUME KeptInv, [Next]_vars
             PROVE  KeptInv'
  <2> USE <1>KeptStep
  <2>1. CASE CheckFlags \/ Return
    BY <2>1, <1>KeptQuiet DEF CheckFlags, Return, Die, psVars, callVars, sampleVars, serverVars
  <2>2. CASE Dial \/ BenchEcho \/ BenchRate
    <3>1. UNCHANGED <<cpu, psStarted, starting, sampled, got, reports>> /\ mpc \in {"dial", "setup", "rate"}
      BY SMTT(40), Z3T(40), <2>2 DEF Dial, BenchEcho, BenchRate, sampleVars, serverVars
    <3>2. spc' = "told" => spc = "told"
      BY <2>2 DEF Dial, BenchEcho, BenchRate, SetupBegins
    <3> QED BY Zenon, <3>1, <3>2, <1>KeptQuiet
  <2>3. CASE (Setup \/ Stopping) /\ UNCHANGED mainVars
    <3>1. /\ UNCHANGED <<cpu, psStarted, starting, sampled, got, reports, mpc>>
          /\ spc' = "told" => spc = "told"
      BY SMTT(40), <2>3 DEF Setup, FindList, psPidsByName, FindName, FindServerProcess, StartLocalPSSampler,
           StartFails, VerifyServerProcess, InitSend, InitAnswered, InitFailed, Stopping, StopCancel,
           StopReturn, callVars, sampleVars, serverVars, mainVars
    <3> QED BY Zenon, <3>1, <1>KeptQuiet
  <2>4. CASE UNCHANGED vars
    BY SMTT(40), <2>4, <1>KeptQuiet DEF vars, psVars, callVars, sampleVars, serverVars, mainVars
  <2> QED BY Zenon, <2>1, <2>2, <2>3, <2>4, <1>KeptReports, <1>KeptReading, <1>KeptSampling, <1>KeptServer
          DEF Next, Main, PSStep
<1>1. KeptInv => SamplesKept
  BY DEF KeptInv, Reported, NoLess, SamplesKept
<1> QED BY <1>1, <1>KeptInit, <1>KeptStep, PTL DEF Spec

---------------------------------------------------------------------------
(***************************************************************************)
(* BatchSize: its loop goes down from what fits to the first divisor of    *)
(* the rate.                                                               *)
(***************************************************************************)

\* A quotient and its remainder.
LEMMA DivMod ==
  ASSUME NEW x \in Int, NEW n \in Nat \ {0}
  PROVE  /\ x \div n \in Int /\ x % n \in 0 .. n - 1
         /\ x = ((x \div n) * n) + (x % n)
<1>1. n \in Int /\ n > 0
  OBVIOUS
<1> QED BY <1>1

\* Of numbers, one is least.
LEMMA LeastNat ==
  ASSUME NEW T, T \subseteq Nat, T # {}
  PROVE  \E n \in T : \A m \in T : n <= m
<1>1. PICK n \in T : \A m \in T : ~(<<m, n>> \in OpToRel(<, Nat))
  BY Zenon, NatLessThanWellFounded, WFMin
<1>2. ASSUME NEW m \in T PROVE n <= m
  <2>1. ~(<<m, n>> \in {p \in Nat \X Nat : p[1] < p[2]})
    BY <1>1, Zenon DEF OpToRel
  <2>2. <<m, n>> \in Nat \X Nat /\ n \in Nat /\ m \in Nat
    OBVIOUS
  <2>3. ~(m < n)
    BY <2>1, <2>2
  <2> QED BY <2>2, <2>3
<1> QED BY <1>2

\* d is the highest divisor of rate up to b; 0 for b = 0, and 1 divides.
Highest(rate, b, d) ==
  /\ d \in 0..b /\ (b > 0 => d > 0) /\ (d > 1 => rate % d = 0)
  /\ \A e \in 2..b : rate % e = 0 => e <= d

\* g is the recursive function in BatchSize.
Descends(rate, g) == g = [b \in Nat |-> IF b > 1 /\ rate % b # 0 THEN g[b - 1] ELSE b]

LEMMA HighestStop ==
  ASSUME NEW rate, NEW b \in Nat, ~(b > 1 /\ rate % b # 0), NEW d
  PROVE  Highest(rate, b, d) <=> d = b
<1>1. ASSUME Highest(rate, b, d) PROVE d = b
  <2>1. CASE b <= 1
    BY <1>1, <2>1 DEF Highest
  <2>2. CASE b > 1
    <3>1. b \in 2..b /\ rate % b = 0
      BY <2>2
    <3> QED BY <1>1, <3>1 DEF Highest
  <2> QED BY <2>1, <2>2
<1>2. ASSUME d = b PROVE Highest(rate, b, d)
  BY <1>2 DEF Highest
<1> QED BY <1>1, <1>2

LEMMA HighestDown ==
  ASSUME NEW rate, NEW b \in Nat, b > 1, rate % b # 0, NEW d
  PROVE  Highest(rate, b, d) <=> Highest(rate, b - 1, d)
<1>1. ASSUME Highest(rate, b, d) PROVE Highest(rate, b - 1, d)
  BY <1>1 DEF Highest
<1>2. ASSUME Highest(rate, b - 1, d) PROVE Highest(rate, b, d)
  BY <1>2 DEF Highest
<1> QED BY <1>1, <1>2

\* Such a function exists, and finds the divisor.
LEMMA DescendsExists == ASSUME NEW rate PROVE \E g : Descends(rate, g)
<1> DEFINE g == [b \in Nat |-> CHOOSE d : Highest(rate, b, d)]
<1>1. ASSUME NEW b \in Nat PROVE g[b] = IF b > 1 /\ rate % b # 0 THEN g[b - 1] ELSE b
  <2>1. CASE b > 1 /\ rate % b # 0
    <3>1. \A d : Highest(rate, b, d) <=> Highest(rate, b - 1, d)
      BY <2>1, HighestDown
    <3>2. (CHOOSE d : Highest(rate, b, d)) = (CHOOSE d : Highest(rate, b - 1, d))
      BY <3>1, Zenon
    <3>3. b - 1 \in Nat
      BY <2>1
    <3> QED BY SMTT(40), <2>1, <3>2, <3>3
  <2>2. CASE ~(b > 1 /\ rate % b # 0)
    <3>1. \A d : Highest(rate, b, d) <=> d = b
      BY <2>2, HighestStop, Zenon
    <3>2. (CHOOSE d : Highest(rate, b, d)) = b
      BY <3>1
    <3> QED BY <2>2, <3>2
  <2> QED BY <2>1, <2>2
<1>2. Descends(rate, g)
  <2> HIDE DEF g
  <2>1. DOMAIN g = Nat /\ g = [b \in Nat |-> g[b]]
    BY DEF g
  <2> QED BY <1>1, <2>1 DEF Descends
<1> QED BY <1>2

LEMMA DescendsTo ==
  ASSUME NEW rate, NEW g, Descends(rate, g), NEW b \in Nat
  PROVE  Highest(rate, b, g[b])
<1> DEFINE T == {n \in Nat : ~Highest(rate, n, g[n])}
<1>0. \A n \in Nat : g[n] = IF n > 1 /\ rate % n # 0 THEN g[n - 1] ELSE n
  BY Zenon DEF Descends
<1>1. ASSUME T # {} PROVE FALSE
  <2> HIDE DEF T
  <2>0. T \subseteq Nat
    BY DEF T
  <2>1. PICK n \in T : \A m \in T : n <= m
    BY Zenon, <1>1, <2>0, LeastNat
  <2> USE DEF T
  <2>2. n > 1 /\ rate % n # 0
    BY Zenon, <1>0, HighestStop
  <2>3. n - 1 \in Nat /\ n - 1 \notin T
    BY <2>1, <2>2
  <2>4. g[n] = g[n - 1]
    BY <1>0, <2>2
  <2> QED BY <2>2, <2>3, <2>4, HighestDown
<1> QED BY <1>1

\* So BatchSize finds it, and how often it goes into the rate.
LEMMA BatchIs ==
  ASSUME NEW reqLen \in Nat \ {0}, NEW rate, NEW maxLen \in Int
  PROVE  \E d : /\ Highest(rate, Larger(maxLen \div reqLen, 1), d)
                /\ BatchSize(reqLen, rate, maxLen) = <<d, rate \div d>>
<1> DEFINE g == CHOOSE h : Descends(rate, h)
           b == Larger(maxLen \div reqLen, 1)
<1>1. Descends(rate, g)
  BY DescendsExists
<1>2. b \in Nat
  BY DivMod DEF Larger
<1>3. BatchSize(reqLen, rate, maxLen) = <<g[b], rate \div g[b]>>
  BY DEF BatchSize, Descends
<1>4. Highest(rate, b, g[b])
  <2> HIDE DEF g, b
  <2> QED BY SMTT(40), <1>1, <1>2, DescendsTo
<1> QED BY Zenon, <1>3, <1>4

\* A divisor, and how often it goes.
LEMMA Divides ==
  ASSUME NEW rate \in Nat \ {0}, NEW d \in Nat \ {0}, rate % d = 0
  PROVE  /\ rate \div d \in Int /\ d * (rate \div d) = rate
         /\ rate \div d > 0 /\ d <= rate
<1>1. PICK q \in Int : q = rate \div d /\ rate = q * d
  <2>1. rate \div d \in Int /\ rate = ((rate \div d) * d) + (rate % d)
    BY DivMod
  <2>2. PICK q \in Int : q = rate \div d
    BY <2>1
  <2>3. rate = q * d
    BY <2>1, <2>2
  <2> QED BY <2>2, <2>3
<1>2. d * q = q * d
  OBVIOUS
<1>3. q > 0
  <2>1. ASSUME q <= 0 PROVE FALSE
    <3>1. (-q) * d >= 0
      BY <2>1
    <3>2. (-q) * d = -(q * d)
      OBVIOUS
    <3> QED BY <1>1, <3>1, <3>2
  <2> QED BY <2>1
<1>4. d <= rate
  <2>1. (q - 1) * d >= 0
    BY <1>3
  <2>2. (q - 1) * d = q * d - d
    OBVIOUS
  <2> QED BY <1>1, <2>1, <2>2
<1> QED BY SMTT(40), <1>1, <1>2, <1>3, <1>4

\* A batch fits in maxLen when it is no more than as many as fit.
LEMMA Fits ==
  ASSUME NEW len \in Nat \ {0}, NEW maxLen \in Int, NEW b \in Int
  PROVE  b * len <= maxLen <=> b <= maxLen \div len
<1>1. PICK q \in Int, r \in 0 .. len - 1 : q = maxLen \div len /\ maxLen = q * len + r
  BY DivMod
<1>2. ASSUME b <= q PROVE b * len <= maxLen
  <2>1. (q - b) * len >= 0
    BY <1>2
  <2>2. (q - b) * len = q * len - b * len
    OBVIOUS
  <2> QED BY <1>1, <2>1, <2>2
<1>3. ASSUME b > q PROVE b * len > maxLen
  <2>1. (b - q - 1) * len >= 0
    BY <1>3
  <2>2. (b - q - 1) * len = b * len - q * len - len
    OBVIOUS
  <2> QED BY <1>1, <2>1, <2>2
<1> QED BY SMTT(40), <1>1, <1>2, <1>3

LEMMA SendRateIs ==
  ASSUME flags \in Flags
  PROVE  SendRate = Larger(flags.sendRate, 1) /\ SendRate \in Nat \ {0}
BY DEF Flags, SendRate, Larger

\* The batch that init finds for flags that CheckFlags has passed.
Fitting(rate) == {b \in 1..rate : rate % b = 0 /\ (b = 1 \/ b * RequestLen <= flags.batchBytes)}

LEMMA RateBatchIs ==
  ASSUME flags \in Flags, ValidateBatch(flags.batch, SendRate)
  PROVE  /\ RateBatch[1] \in Nat \ {0} /\ RateBatch[2] \in Int /\ RateBatch[2] > 0
         /\ RateBatch[1] * RateBatch[2] = SendRate
         /\ flags.batch = 0 => /\ RateBatch[1] \in Fitting(SendRate)
                               /\ \A b \in Fitting(SendRate) : b <= RateBatch[1]
<1>0. SendRate \in Nat \ {0} /\ flags.batch \in Int /\ flags.batchBytes \in Int /\ RequestLen \in Nat \ {0}
  BY SMTT(40), SendRateIs, ClientAssumption DEF Flags
<1>1. CASE flags.batch > 0
  <2>1. flags.batch \in Nat \ {0} /\ SendRate % flags.batch = 0 /\ flags.batch # 0
    BY SMTT(40), <1>0, <1>1 DEF ValidateBatch
  <2>2. RateBatch[1] = flags.batch /\ RateBatch[2] = SendRate \div flags.batch
    BY <1>1 DEF RateBatch
  <2>3. /\ SendRate \div flags.batch \in Int /\ flags.batch * (SendRate \div flags.batch) = SendRate
        /\ SendRate \div flags.batch > 0
    BY Zenon, <1>0, <2>1, Divides
  <2> QED BY <2>1, <2>2, <2>3
<1>2. CASE ~(flags.batch > 0)
  <2> DEFINE most == Larger(flags.batchBytes \div RequestLen, 1)
  <2>1. PICK d : /\ Highest(SendRate, most, d)
                 /\ BatchSize(RequestLen, SendRate, flags.batchBytes) = <<d, SendRate \div d>>
    BY <1>0, BatchIs
  <2>2. RateBatch[1] = d /\ RateBatch[2] = SendRate \div d
    BY <1>2, <2>1 DEF RateBatch
  <2>3. PICK k \in Int : k = flags.batchBytes \div RequestLen
    BY Zenon, <1>0, DivMod
  <2>4. most \in Nat \ {0} /\ most = (IF k < 1 THEN 1 ELSE k)
    BY <2>3 DEF Larger
  <2> HIDE DEF most
  <2>5. d \in Nat \ {0} /\ d <= most /\ (d > 1 => SendRate % d = 0)
    BY <2>1, <2>4 DEF Highest
  <2>6. SendRate % d = 0
    <3>1. CASE d = 1
      <4>1. SendRate % 1 \in 0 .. 1 - 1
        BY SMTT(40), <1>0, DivMod
      <4> QED BY SMTT(40), <3>1, <4>1
    <3> QED BY <2>5, <3>1
  <2>7. /\ SendRate \div d \in Int /\ d * (SendRate \div d) = SendRate
        /\ SendRate \div d > 0 /\ d <= SendRate
    BY SMTT(40), <1>0, <2>5, <2>6, Divides
  <2>8. \A b \in Int : b * RequestLen <= flags.batchBytes <=> b <= k
    BY SMTT(40), <1>0, <2>3, Fits
  <2>9. d \in Fitting(SendRate)
    <3>1. d \in 1..SendRate
      BY SMTT(40), <1>0, <2>5, <2>7
    <3>2. d = 1 \/ d <= k
      BY SMTT(40), <2>4, <2>5
    <3>3. d = 1 \/ d * RequestLen <= flags.batchBytes
      BY SMTT(40), <2>5, <2>8, <3>2
    <3> QED BY SMTT(40), <2>6, <3>1, <3>3 DEF Fitting
  <2>10. ASSUME NEW b \in Fitting(SendRate) PROVE b <= d
    <3>1. b \in Int /\ b >= 1 /\ SendRate % b = 0 /\ (b = 1 \/ b * RequestLen <= flags.batchBytes)
      BY SMTT(40), <1>0 DEF Fitting
    <3>2. b = 1 \/ b <= k
      BY SMTT(40), <2>8, <3>1
    <3>3. CASE b = 1
      BY SMTT(40), <2>5, <3>3
    <3>4. CASE b > 1
      <4>1. b \in 2..most
        BY <2>4, <3>1, <3>2, <3>4
      <4> QED BY SMTT(40), <2>1, <3>1, <4>1 DEF Highest
    <3> QED BY SMTT(40), <3>1, <3>3, <3>4
  <2> QED BY <2>2, <2>5, <2>7, <2>9, <2>10
<1> QED BY Zenon, <1>1, <1>2

LEMMA Valid == Spec => []Checked
<1>CheckedInit.
      Init => Checked
  <2> SUFFICES ASSUME Init PROVE Checked
    OBVIOUS
  <2>1. flags \in Flags /\ mpc = "flags" /\ cause = "none"
    BY ClientAssumption DEF Init
  <2> QED BY SMTT(60), <2>1 DEF Checked
<1>CheckedStep.
      ASSUME Checked, [Next]_vars
      PROVE  Checked'
  <2> USE <1>CheckedStep
  <2>0. flags \in Flags /\ SendRate = Larger(flags.sendRate, 1)
    BY Zenon, SendRateIs DEF Checked
  <2>1. CASE UNCHANGED mainVars
    BY Zenon, <2>1 DEF mainVars, Checked, RateBatch, SendRate
  <2>2. CASE CheckFlags
    <3>1. /\ UNCHANGED flags
          /\ \/ mpc' = "fatal" /\ cause' = "flags"
             \/ mpc' = "exit" /\ cause' = cause
             \/ /\ mpc' = "dial" /\ cause' = cause
                /\ flags.rate => ValidateBatch(flags.batch, Larger(flags.sendRate, 1))
      BY <2>2 DEF CheckFlags, Die
    <3> QED BY <3>1 DEF Checked
  <2>3. CASE Dial \/ BenchEcho \/ Return
    <3>1. /\ UNCHANGED flags /\ mpc \in {"dial", "setup", "stop"}
          /\ mpc' \in {"setup", "echo", "exit", "fatal"} /\ cause' \in {cause, "connections"}
      BY <2>3 DEF Dial, BenchEcho, Return, Die
    <3> QED BY <3>1 DEF Checked
  <2>4. CASE EchoReport \/ RateReport
    <3>1. /\ UNCHANGED <<flags, cause>> /\ mpc \in {"echo", "rated"}
          /\ mpc' = "stop" \/ (mpc' = "rate" /\ flags.rate)
      BY <2>4 DEF EchoReport, RateReport
    <3> QED BY <3>1 DEF Checked
  <2>5. CASE BenchRate
    <3>1. mpc = "rate" /\ flags.rate /\ ValidateBatch(flags.batch, SendRate)
      BY Zenon, <2>0, <2>5 DEF BenchRate, Checked
    <3>2. ~(RateBatch[1] <= 0) /\ ~(RateBatch[2] <= 0)
      BY <2>0, <3>1, RateBatchIs
    <3>3. /\ UNCHANGED flags
          /\ \/ mpc' = "fatal" /\ cause' \in {"connections", "limits"}
             \/ mpc' = "rated" /\ cause' = cause /\ batch' = RateBatch
      BY Zenon, <2>5, <3>1, <3>2 DEF BenchRate, Die
    <3>4. RateBatch' = RateBatch
      BY <3>3 DEF RateBatch, SendRate
    <3> QED BY Zenon, <3>1, <3>3, <3>4 DEF Checked
  <2>6. CASE UNCHANGED vars
    BY <2>1, <2>6 DEF vars, mainVars
  <2> QED BY Zenon, <2>1, <2>2, <2>3, <2>4, <2>5, <2>6 DEF Next, Main
<1> QED BY <1>CheckedInit, <1>CheckedStep, PTL DEF Spec

\* For any flags: what CheckFlags has let pass does not end the run later.
THEOREM FlagsFailEarly == Spec => []FailsEarly
<1>1. Checked => FailsEarly
  BY Zenon DEF Checked, FailsEarly
<1> QED BY <1>1, Valid, PTL

\* For any rate, any -rbs and any length of request: BatchSize's loop finds the
\* most requests that fit and divide the rate.
THEOREM BatchAlwaysFits == Spec => []BatchFits
<1>1. Checked => BatchFits
  <2> SUFFICES ASSUME Checked, mpc = "rated" PROVE BatchFits
    BY DEF BatchFits
  <2>1. flags \in Flags /\ SendRate = Larger(flags.sendRate, 1) /\ batch = RateBatch
    BY SendRateIs DEF Checked
  <2>2. ValidateBatch(flags.batch, SendRate)
    BY <2>1 DEF Checked
  <2> QED BY Zenon, <2>1, <2>2, RateBatchIs DEF BatchFits, Fitting
<1> QED BY <1>1, Valid, PTL
=============================================================================
