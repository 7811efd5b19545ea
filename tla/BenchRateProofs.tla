-------------------------- MODULE BenchRateProofs ---------------------------
(***************************************************************************)
(* For any number of connections, writers, batch size and limits: the      *)
(* counters of a connection agree with the requests on it, there are never *)
(* a batch more unanswered than maxBatchesInFlight batches, the grace      *)
(* period ends when nothing is missing, and the report has what was        *)
(* received.                                                               *)
(***************************************************************************)
EXTENDS BenchRate, CountTheorems

LEMMA Sizes ==
  /\ Batch \in Nat /\ Batch > 0 /\ Payload \in Nat /\ NConns \in Nat
  /\ ConnWindow \in [Conns -> Nat] /\ MaxStreams \in [Conns -> Nat]
BY ConstantsAssumption

LEMMA NoneAdded == \A m, n \in Nat : m + n + 0 = m + n
OBVIOUS

LEMMA MostNat == Most \in Nat
<1>1. Batch \in Nat /\ maxBatchesInFlight \in Nat
  BY ConstantsAssumption
<1> QED BY <1>1 DEF Most

---------------------------------------------------------------------------
(***************************************************************************)
(* The invariant, action by action.  Writing is what IInv says of the      *)
(* writers; the rest of it speaks of the connections.                      *)
(***************************************************************************)

InTeam ==
  \A w \in Writers :
     IF wpc[w] \in {"idle", "stopped"} THEN at[w] = Nobody ELSE at[w] \in Team(w)

Checked ==
  \A w \in Writers :
     wpc[w] = "write" => sendCnt[at[w]] - recvCnt[at[w]] < Most

NoneLost == \A c \in Conns : up[c] => lost[c] = 0

LEMMA Parts == IInv <=> TypeOK /\ Balanced /\ UnansweredBounded /\ InTeam /\ Checked /\ NoneLost
BY DEF IInv, InTeam, Checked, NoneLost

LEMMA InvInit == Init => IInv
<1>TypeInit. Init => TypeOK
  <2> SUFFICES ASSUME Init PROVE TypeOK
    OBVIOUS
  <2>1. at \in [Writers -> Conns \cup {Nobody}] /\ credit \in [Conns -> Nat]
    BY Sizes DEF Init
  <2>2. /\ wpc \in [Writers -> {"idle", "check", "write", "written", "stopped"}]
        /\ rd \in [Conns -> {"idle", "good", "bad", "times", "bytes"}]
        /\ up \in [Conns -> BOOLEAN]
    BY DEF Init
  <2> QED BY Zenon, <2>1, <2>2 DEF Init, TypeOK
<1> SUFFICES ASSUME Init PROVE IInv
  OBVIOUS
<1>1. TypeOK
  BY <1>TypeInit
<1>2. \A c \in Conns : Unanswered(c) = 0 /\ Pending(c) = 0
  BY DEF Init, Unanswered, Pending
<1>3. Balanced /\ UnansweredBounded
  BY <1>2, Sizes, MostNat DEF Init, Balanced, UnansweredBounded
<1>4. InTeam /\ Checked /\ NoneLost
  BY DEF Init, InTeam, Checked, NoneLost
<1> QED BY <1>1, <1>3, <1>4, Parts

LEMMA InvStep == IInv /\ [Next]_vars => IInv'
<1>BatchBytes.
      Batch * Payload \in Nat
  BY Sizes
\* A connection is in one team, so one writer alone sends on it.
<1>OneWriter. ASSUME NEW w \in Writers, NEW v \in Writers, NEW c \in Team(w) \cap Team(v)
              PROVE  w = v
  <2> USE <1>OneWriter
  <2>1. (c - 1) % Concurrency = w - 1 /\ (c - 1) % Concurrency = v - 1
    BY DEF Team
  <2>2. w \in Int /\ v \in Int
    BY DEF Writers
  <2> QED BY <2>1, <2>2
\* Where a writer is after it has gone on.
<1>GoesOn. ASSUME NEW w \in Writers, NEW c, GoOn(w, c),
                  at \in [Writers -> Conns \cup {Nobody}],
                  wpc \in [Writers -> {"idle", "check", "write", "written", "stopped"}]
           PROVE  /\ at' \in [Writers -> Conns \cup {Nobody}]
                  /\ wpc' \in [Writers -> {"idle", "check", "write", "written", "stopped"}]
                  /\ \A v \in Writers : v # w => at'[v] = at[v] /\ wpc'[v] = wpc[v]
                  /\ wpc'[w] \in {"idle", "check"}
                  /\ IF wpc'[w] = "idle" THEN at'[w] = Nobody ELSE at'[w] \in Team(w)
  <2> USE <1>GoesOn
  <2> DEFINE rest == {d \in Team(w) : d > c}
  <2>1. CASE /\ at' = [at EXCEPT ![w] = Nobody] /\ wpc' = [wpc EXCEPT ![w] = "idle"]
    BY <2>1
  <2>2. CASE \E d \in rest : /\ at' = [at EXCEPT ![w] = d]
                             /\ wpc' = [wpc EXCEPT ![w] = "check"]
    <3>1. PICK d \in rest : /\ at' = [at EXCEPT ![w] = d]
                            /\ wpc' = [wpc EXCEPT ![w] = "check"]
      BY Zenon, <2>2
    <3>2. d \in Team(w) /\ d \in Conns
      BY Zenon, <3>1 DEF Team
    <3> QED BY <3>1, <3>2
  <2> QED BY <2>1, <2>2 DEF GoOn
<1>TypeStep. ASSUME TypeOK, IInv, [Next]_vars
             PROVE  TypeOK'
  <2> USE <1>TypeStep
  <2> USE DEF TypeOK
  <2>1. CASE MainStep \/ DurationUp \/ GraceTimer \/ Ended \/ UNCHANGED vars
    <3>1. CASE CheckLimits \/ WritersWait \/ GraceEnd
      BY <3>1 DEF CheckLimits, WritersWait, GraceEnd, wVars, connVars, sendVars, recvVars, endVars
    <3>2. CASE SnapshotTimes \/ SnapshotBytes
      BY <3>2 DEF SnapshotTimes, SnapshotBytes, wVars, connVars, sendVars, recvVars
    <3>3. CASE DurationUp \/ GraceTimer
      BY Zenon, <3>3 DEF DurationUp, GraceTimer, wVars, connVars, sendVars, recvVars, endVars
    <3>4. CASE Ended \/ UNCHANGED vars
      BY Zenon, <3>4 DEF Ended, vars, runVars, wVars, connVars, sendVars, recvVars, endVars
    <3> QED BY SMTT(40), Z3T(40), <2>1, <3>1, <3>2, <3>3, <3>4 DEF MainStep
  <2>2. ASSUME NEW w \in Writers, Tick(w) \/ WriterStop(w) \/ WriterStep(w) PROVE TypeOK'
    <3>1. ASSUME NEW c, GoOn(w, c), UNCHANGED <<runVars, open, credit, grants, rd, recvVars, endVars>>,
                 up' \in [Conns -> BOOLEAN],
                 sendCnt' \in [Conns -> Nat], sendTimes' \in Nat, lost' \in [Conns -> Nat]
          PROVE  TypeOK'
      BY <3>1, <1>GoesOn DEF runVars, recvVars, endVars
    <3>2. CASE Tick(w) \/ WriteNone(w)
      BY <3>1, <3>2 DEF Tick, WriteNone, connVars, sendVars
    <3>3. CASE WriterStop(w)
      BY <3>3 DEF WriterStop, runVars, connVars, sendVars, recvVars, endVars
    <3>4. CASE Check(w)
      <4>1. CASE GoOn(w, at[w])
        BY <3>1, <3>4, <4>1 DEF Check, connVars, sendVars
      <4>2. CASE wpc' = [wpc EXCEPT ![w] = "write"] /\ UNCHANGED at
        BY <3>4, <4>2 DEF Check, runVars, connVars, sendVars, recvVars, endVars
      <4> QED BY Zenon, <3>4, <4>1, <4>2 DEF Check
    <3>5. CASE WriteOpen(w)
      <4>1. at[w] \in Conns
        BY <3>5 DEF WriteOpen, IInv, Team
      <4>2. open[at[w]] + Batch \in Nat /\ credit[at[w]] - Batch * Payload \in Nat
        BY <3>5, <4>1, Sizes, <1>BatchBytes DEF WriteOpen, Room
      <4>3. open' \in [Conns -> Nat] /\ credit' \in [Conns -> Nat]
        BY Zenon, <3>5, <4>1, <4>2 DEF WriteOpen
      <4> QED BY Zenon, <3>5, <4>3 DEF WriteOpen, runVars, sendVars, recvVars, endVars
    <3>6. CASE WriteDone(w)
      <4>1. at[w] \in Conns
        BY <3>6 DEF WriteDone, IInv, Team
      <4>2. sendCnt' \in [Conns -> Nat] /\ sendTimes' \in Nat
        BY <3>6, <4>1, Sizes DEF WriteDone, CountSent
      <4> QED BY Zenon, <3>1, <3>6, <4>2 DEF WriteDone, connVars
    <3>7. CASE WriteFailed(w)
      <4>1. at[w] \in Conns
        BY <3>7 DEF WriteFailed, IInv, Team
      <4>2. lost' \in [Conns -> Nat] /\ up' \in [Conns -> BOOLEAN]
        BY <3>7, <4>1, Sizes DEF WriteFailed
      <4> QED BY Zenon, <3>1, <3>7, <4>2 DEF WriteFailed
    <3> QED BY Zenon, <2>2, <3>2, <3>3, <3>4, <3>5, <3>6, <3>7 DEF WriterStep
  <2>3. ASSUME NEW c \in Conns, ReaderStep(c) PROVE TypeOK'
    <3>1. CASE CountAnswer(c)
      BY <3>1 DEF CountAnswer, runVars, wVars, sendVars, endVars
    <3>2. CASE CountTimes(c)
      BY <3>2 DEF CountTimes, runVars, wVars, sendVars, endVars
    <3>3. CASE CountBytes(c)
      BY <3>3, Sizes DEF CountBytes, runVars, wVars, sendVars, endVars
    <3> QED BY Zenon, <2>3, <3>1, <3>2, <3>3 DEF ReaderStep
  <2>4. ASSUME NEW c \in Conns, GiveBack(c) PROVE TypeOK'
    BY <2>4, <1>BatchBytes DEF GiveBack, runVars, wVars, sendVars, recvVars, endVars
  <2>5. ASSUME NEW c \in Conns, ConnEnds(c) PROVE TypeOK'
    BY <2>5 DEF ConnEnds, runVars, wVars, sendVars, recvVars, endVars
  <2>6. ASSUME NEW c \in Conns, NEW ok \in BOOLEAN, Answer(c, ok) PROVE TypeOK'
    BY <2>6 DEF Answer, runVars, wVars, sendVars, endVars
  <2> QED BY Zenon, <2>1, <2>2, <2>3, <2>4, <2>5, <2>6 DEF Next
\* A writer that moves, with none of its requests pending before or after, leaves
\* Pending as it was.
<1>PendingSame.
      ASSUME NEW w \in Writers, NEW c \in Conns,
             \A v \in Writers : v # w => at'[v] = at[v] /\ wpc'[v] = wpc[v],
             ~(at[w] = c /\ wpc[w] = "written"), ~(at'[w] = c /\ wpc'[w] = "written")
      PROVE  Pending(c)' = Pending(c)
  BY <1>PendingSame DEF Pending
\* Only the writer on a connection can have requests pending on it.
<1>PendingOfWriter.
      ASSUME NEW w \in Writers, InTeam, at[w] \in Team(w), wpc[w] # "idle", wpc[w] # "stopped",
             at \in [Writers -> Conns \cup {Nobody}]
      PROVE  Pending(at[w]) = IF wpc[w] = "written" THEN Batch ELSE 0
  <2> USE <1>PendingOfWriter
  <2>1. ASSUME NEW v \in Writers, at[v] = at[w], wpc[v] = "written" PROVE v = w
    <3>1. at[v] \in Team(v)
      BY Zenon, <2>1 DEF InTeam
    <3> QED BY <2>1, <3>1, <1>OneWriter
  <2> QED BY <2>1 DEF Pending
\* A step of Run, or of the server giving window back, touches none of it.
<1>QuietStep. ASSUME IInv, UNCHANGED <<wpc, at, up, open, rd, sendCnt, recvCnt, lost>>
              PROVE  (Balanced /\ UnansweredBounded /\ InTeam /\ Checked /\ NoneLost)'
  <2> USE <1>QuietStep
  <2>1. \A c \in Conns : Unanswered(c)' = Unanswered(c) /\ Pending(c)' = Pending(c)
    BY DEF Unanswered, Pending
  <2> QED BY <2>1 DEF IInv, Balanced, UnansweredBounded, InTeam, Checked, NoneLost
\* A reader's step, or a connection's end: writers stay where they are.
<1>ReaderKeeps.
      ASSUME IInv, TypeOK', NEW c \in Conns,
             \/ ReaderStep(c) \/ ConnEnds(c) \/ \E ok \in BOOLEAN : Answer(c, ok)
      PROVE  (Balanced /\ UnansweredBounded /\ InTeam /\ Checked /\ NoneLost)'
  <2> USE <1>ReaderKeeps
  <2> USE Parts
  <2>1. UNCHANGED <<wpc, at, sendCnt, lost>>
    BY DEF ReaderStep, CountAnswer, CountTimes, CountBytes, ConnEnds, Answer, wVars, sendVars
  <2>2. \A d \in Conns : /\ recvCnt'[d] >= recvCnt[d]
                         /\ recvCnt'[d] + Unanswered(d)' = recvCnt[d] + Unanswered(d)
    <3>1. CASE CountAnswer(c)
      <4>1. /\ recvCnt'[c] = recvCnt[c] + 1 /\ open'[c] = open[c]
            /\ rd[c] \in {"good", "bad"} /\ rd'[c] \in {"times", "idle"}
        BY <3>1 DEF CountAnswer, TypeOK
      <4>2. \A d \in Conns : d # c => recvCnt'[d] = recvCnt[d] /\ open'[d] = open[d] /\ rd'[d] = rd[d]
        BY <3>1 DEF CountAnswer, TypeOK
      <4>3. \A d \in Conns : recvCnt[d] \in Nat /\ open[d] \in Nat
        BY Zenon DEF TypeOK
      <4>4. Unanswered(c) = open[c] + 1 /\ Unanswered(c)' = open[c]
        BY <4>1, <4>3 DEF Unanswered
      <4>5. /\ recvCnt'[c] >= recvCnt[c]
            /\ recvCnt'[c] + Unanswered(c)' = recvCnt[c] + Unanswered(c)
        BY <4>1, <4>3, <4>4
      <4>6. \A d \in Conns : d # c => Unanswered(d)' = Unanswered(d)
        BY Zenon, <4>2 DEF Unanswered
      <4> QED BY SMTT(40), Z3T(40), <4>2, <4>3, <4>5, <4>6
    <3>2. CASE CountTimes(c) \/ CountBytes(c)
      BY SMTT(40), Z3T(40), <3>2 DEF CountTimes, CountBytes, Unanswered, TypeOK
    <3>3. CASE ConnEnds(c)
      BY SMTT(40), Z3T(40), <3>3 DEF ConnEnds, recvVars, Unanswered, TypeOK
    <3>4. CASE \E ok \in BOOLEAN : Answer(c, ok)
      BY <3>4 DEF Answer, Unanswered, TypeOK
    <3> QED BY <3>1, <3>2, <3>3, <3>4 DEF ReaderStep
  <2>3. \A d \in Conns : Pending(d)' = Pending(d)
    BY <2>1 DEF Pending
  <2>4. \A d \in Conns : /\ sendCnt[d] \in Nat /\ recvCnt[d] \in Nat /\ recvCnt'[d] \in Nat
                         /\ lost[d] \in Nat /\ Pending(d) \in Nat
                         /\ Unanswered(d) \in Nat /\ Unanswered(d)' \in Nat
    BY SMTT(40), Z3T(40), Sizes DEF TypeOK, Pending, Unanswered
  <2>5. Balanced'
    BY Zenon, <2>1, <2>2, <2>3, <2>4 DEF Balanced
  <2>6. UnansweredBounded'
    BY <2>2, <2>4, Sizes, MostNat DEF UnansweredBounded
  <2>7. InTeam'
    BY <2>1 DEF InTeam
  <2>8. Checked'
    <3> SUFFICES ASSUME NEW w \in Writers, wpc[w] = "write"
                 PROVE  sendCnt[at[w]] - recvCnt'[at[w]] < Most
      BY <2>1 DEF Checked
    <3>1. at[w] \in Conns
      BY DEF InTeam, Team
    <3> QED BY SMTT(40), Z3T(40), <3>1, <2>2, <2>4, MostNat DEF Checked
  <2>9. NoneLost'
    <3>1. \A d \in Conns : up'[d] => up[d]
      BY DEF ReaderStep, CountAnswer, CountTimes, CountBytes, ConnEnds, Answer, TypeOK
    <3> QED BY Zenon, <2>1, <3>1 DEF NoneLost
  <2> QED BY Zenon, <2>5, <2>6, <2>7, <2>8, <2>9
\* A writer's step.
<1>WriterKeeps.
      ASSUME IInv, TypeOK', NEW w \in Writers, Tick(w) \/ WriterStop(w) \/ WriterStep(w)
      PROVE  (Balanced /\ UnansweredBounded /\ InTeam /\ Checked /\ NoneLost)'
  <2> USE <1>WriterKeeps
  <2> USE Parts
  <2>0. PICK c : c = at[w]
    OBVIOUS
  <2> USE <2>0
  <2>1. \A v \in Writers : v # w => at'[v] = at[v] /\ wpc'[v] = wpc[v]
    <3>1. ASSUME NEW d, GoOn(w, d)
          PROVE  \A v \in Writers : v # w => at'[v] = at[v] /\ wpc'[v] = wpc[v]
      BY Zenon, <3>1, <1>GoesOn DEF TypeOK
    <3>2. CASE Tick(w) \/ WriteNone(w) \/ WriteDone(w) \/ WriteFailed(w)
      BY Zenon, <3>1, <3>2 DEF Tick, WriteNone, WriteDone, WriteFailed
    <3>3. CASE WriterStop(w) \/ WriteOpen(w)
      BY Zenon, <3>3 DEF WriterStop, WriteOpen, TypeOK
    <3>4. CASE Check(w)
      BY Zenon, <3>1, <3>4 DEF Check, TypeOK
    <3> QED BY Zenon, <3>2, <3>3, <3>4 DEF WriterStep
  <2>2. InTeam'
    <3>1. ASSUME NEW d, GoOn(w, d)
          PROVE  IF wpc'[w] \in {"idle", "stopped"} THEN at'[w] = Nobody ELSE at'[w] \in Team(w)
      BY <3>1, <1>GoesOn DEF TypeOK
    <3>2. ASSUME UNCHANGED at, IF wpc'[w] = "stopped" THEN at[w] = Nobody
                               ELSE at[w] \in Team(w) /\ wpc'[w] # "idle"
          PROVE  IF wpc'[w] \in {"idle", "stopped"} THEN at'[w] = Nobody ELSE at'[w] \in Team(w)
      BY Zenon, <3>2
    <3>3. IF wpc'[w] \in {"idle", "stopped"} THEN at'[w] = Nobody ELSE at'[w] \in Team(w)
      <4>1. CASE Tick(w) \/ WriteNone(w) \/ WriteDone(w) \/ WriteFailed(w)
        BY Zenon, <3>1, <4>1 DEF Tick, WriteNone, WriteDone, WriteFailed
      <4>2. CASE WriterStop(w) \/ WriteOpen(w)
        BY Zenon, <3>2, <4>2 DEF WriterStop, WriteOpen, TypeOK, InTeam
      <4>3. CASE Check(w)
        BY Zenon, <3>1, <3>2, <4>3 DEF Check, TypeOK, InTeam
      <4> QED BY Zenon, <4>1, <4>2, <4>3 DEF WriterStep
    <3> QED BY Zenon, <2>1, <3>3 DEF InTeam
  <2>3. ASSUME NEW d \in Conns
        PROVE  /\ sendCnt[d] \in Nat /\ recvCnt[d] \in Nat /\ lost[d] \in Nat
               /\ open[d] \in Nat /\ Pending(d) \in Nat /\ Unanswered(d) \in Nat
    BY Sizes DEF TypeOK, Pending, Unanswered
  <2>4. CASE Tick(w) \/ WriterStop(w) \/ Check(w) \/ WriteNone(w)
    <3>1. UNCHANGED <<up, open, rd, sendCnt, recvCnt, lost>>
      BY Zenon, <2>4 DEF Tick, WriterStop, Check, WriteNone, connVars, sendVars, recvVars
    <3>2. wpc[w] # "written" /\ wpc'[w] # "written"
      BY <2>4, <1>GoesOn DEF Tick, WriterStop, Check, WriteNone, TypeOK
    <3>3. \A d \in Conns : Pending(d)' = Pending(d) /\ Unanswered(d)' = Unanswered(d)
      BY Zenon, <2>1, <3>1, <3>2, <1>PendingSame DEF Unanswered
    <3>4. wpc'[w] = "write" =>
             UNCHANGED at /\ sendCnt[c] - recvCnt[c] < Most
      <4> SUFFICES ASSUME wpc'[w] = "write"
                   PROVE  UNCHANGED at /\ sendCnt[c] - recvCnt[c] < Most
        BY Zenon
      <4>1. Check(w) /\ ~TooManyUnanswered(c) /\ UNCHANGED at
        BY <2>4, <1>GoesOn DEF Tick, WriterStop, Check, WriteNone, TypeOK
      <4>2. c \in Conns
        BY <4>1 DEF Check, InTeam, Team
      <4>3. sendCnt[c] \in Nat /\ recvCnt[c] \in Nat /\ Most \in Nat
        BY <4>2, <2>3, MostNat
      <4>4. ~(sendCnt[c] - recvCnt[c] >= Most)
        BY <4>1, Zenon DEF TooManyUnanswered
      <4>5. sendCnt[c] - recvCnt[c] < Most
        BY SMTT(40), Z3T(40), <4>3, <4>4
      <4> QED BY Zenon, <4>1, <4>5
    <3>5. Checked'
      BY <2>1, <3>1, <3>4 DEF Checked
    <3> QED BY Zenon, <2>2, <3>1, <3>3, <3>5 DEF Balanced, UnansweredBounded, NoneLost
  <2>5. CASE WriteOpen(w)
    <3>1. c \in Conns /\ c \in Team(w) /\ wpc[w] = "write" /\ wpc'[w] = "written" /\ UNCHANGED at
      BY Zenon, <2>5 DEF WriteOpen, InTeam, Team, TypeOK
    <3>2. UNCHANGED <<up, rd, sendCnt, recvCnt, lost>>
      BY Zenon, <2>5 DEF WriteOpen, sendVars, recvVars
    <3>3. Pending(c) = 0
      BY <3>1, <1>PendingOfWriter DEF TypeOK
    <3>4. Pending(c)' = Batch
      BY Zenon, <3>1 DEF Pending
    <3>5. Unanswered(c)' = Unanswered(c) + Batch
      BY SMTT(40), Z3T(40), <2>5, <3>1, <3>2, <2>3, Sizes DEF WriteOpen, Unanswered, TypeOK
    <3>6. ASSUME NEW d \in Conns, d # c
          PROVE  Pending(d)' = Pending(d) /\ Unanswered(d)' = Unanswered(d)
      BY SMTT(40), Z3T(40), <2>5, <2>1, <3>1, <3>2, <3>6, <1>PendingSame DEF WriteOpen, Unanswered, TypeOK
    <3>7. Balanced'
      BY SMTT(40), Z3T(40), <3>1, <3>2, <3>3, <3>4, <3>5, <3>6, <2>3, Sizes DEF Balanced
    <3>8. Unanswered(c)' < Most + Batch
      <4>1. lost[c] = 0
        BY Zenon, <2>5, <3>1 DEF WriteOpen, NoneLost
      <4>2. sendCnt[c] - recvCnt[c] < Most
        BY Zenon, <3>1 DEF Checked
      <4>3. Unanswered(c) = sendCnt[c] - recvCnt[c]
        <5>1. sendCnt[c] + lost[c] + Pending(c) = recvCnt[c] + Unanswered(c)
          BY <3>1 DEF Balanced
        <5> QED BY SMTT(40), Z3T(40), <5>1, <3>1, <3>3, <4>1, <2>3
      <4>4. Unanswered(c) \in Nat /\ Batch \in Nat
        BY <3>1, <2>3, Sizes
      <4> QED BY <3>5, <4>2, <4>3, <4>4, MostNat
    <3>9. UnansweredBounded'
      BY Zenon, <3>6, <3>8 DEF UnansweredBounded
    <3>10. Checked'
      <4> SUFFICES ASSUME NEW v \in Writers, wpc'[v] = "write"
                   PROVE  sendCnt'[at'[v]] - recvCnt'[at'[v]] < Most
        BY DEF Checked
      <4>1. v # w /\ at'[v] = at[v] /\ wpc[v] = "write"
        BY <2>1, <3>1
      <4> QED BY SMTT(40), Z3T(40), <4>1, <3>2 DEF Checked
    <3>11. NoneLost'
      BY Zenon, <3>2 DEF NoneLost
    <3> QED BY Zenon, <2>2, <3>7, <3>9, <3>10, <3>11
  <2>6. CASE WriteDone(w) \/ WriteFailed(w)
    <3>1. c \in Conns /\ c \in Team(w) /\ wpc[w] = "written" /\ GoOn(w, c)
      BY Zenon, <2>6 DEF WriteDone, WriteFailed, InTeam, Team
    <3>2. UNCHANGED <<open, rd, recvCnt>> /\ wpc'[w] \in {"idle", "check"}
      BY Zenon, <2>6, <3>1, <1>GoesOn DEF WriteDone, WriteFailed, connVars, recvVars, TypeOK
    <3>3. Pending(c) = Batch
      BY Zenon, <3>1, <1>PendingOfWriter DEF TypeOK
    <3>4. Pending(c)' = 0
      <4>1. ASSUME NEW v \in Writers, at'[v] = c, wpc'[v] = "written" PROVE FALSE
        <5>1. v # w /\ at[v] = c /\ wpc[v] = "written"
          BY Zenon, <4>1, <2>1, <3>2
        <5>2. c \in Team(v)
          BY <5>1 DEF InTeam
        <5> QED BY <5>1, <5>2, <3>1, <1>OneWriter
      <4> QED BY Zenon, <4>1 DEF Pending
    <3>5. \A d \in Conns : Unanswered(d)' = Unanswered(d)
      BY Zenon, <3>2 DEF Unanswered
    <3>6. ASSUME NEW d \in Conns, d # c PROVE Pending(d)' = Pending(d)
      BY Zenon, <2>1, <3>1, <3>2, <3>6, <1>PendingSame
    <3>7. /\ sendCnt'[c] + lost'[c] = sendCnt[c] + lost[c] + Batch
          /\ \A d \in Conns : d # c => sendCnt'[d] = sendCnt[d] /\ lost'[d] = lost[d]
      <4>1. CASE WriteDone(w)
        BY SMTT(40), Z3T(40), <4>1, <3>1, <2>3, Sizes DEF WriteDone, CountSent, TypeOK
      <4>2. CASE WriteFailed(w)
        BY <4>2, <3>1, <2>3, Sizes DEF WriteFailed, TypeOK
      <4> QED BY Zenon, <2>6, <4>1, <4>2
    <3>8. Balanced'
      <4>1. ASSUME NEW d \in Conns
            PROVE  sendCnt'[d] + lost'[d] + Pending(d)' = recvCnt'[d] + Unanswered(d)'
        <5>1. sendCnt'[d] \in Nat /\ lost'[d] \in Nat
          BY DEF TypeOK
        <5>2. sendCnt[d] + lost[d] + Pending(d) = recvCnt[d] + Unanswered(d)
          BY Zenon DEF Balanced
        <5>3. CASE d = c
          <6>1. /\ sendCnt'[c] + lost'[c] = sendCnt[c] + lost[c] + Batch
                /\ sendCnt[c] + lost[c] + Batch = recvCnt[c] + Unanswered(c)
            BY Zenon, <5>2, <5>3, <3>3, <3>7
          <6>2. recvCnt'[c] + Unanswered(c)' = recvCnt[c] + Unanswered(c)
            BY Zenon, <5>3, <3>2, <3>5
          <6>3. sendCnt'[c] \in Nat /\ lost'[c] \in Nat
            BY <5>1, <5>3, Zenon
          <6>4. sendCnt'[c] + lost'[c] + Pending(c)' = sendCnt'[c] + lost'[c]
            BY Zenon, <6>3, <3>4, NoneAdded
          <6> QED BY <5>3, <6>1, <6>2, <6>4
        <5>4. CASE d # c
          BY Zenon, <5>2, <5>4, <3>2, <3>5, <3>6, <3>7
        <5> QED BY Zenon, <5>3, <5>4
      <4> QED BY Zenon, <4>1 DEF Balanced
    <3>9. UnansweredBounded'
      BY <3>5 DEF UnansweredBounded
    <3>10. Checked'
      <4> SUFFICES ASSUME NEW v \in Writers, wpc'[v] = "write"
                   PROVE  sendCnt'[at'[v]] - recvCnt'[at'[v]] < Most
        BY DEF Checked
      <4>1. v # w /\ at'[v] = at[v] /\ wpc[v] = "write"
        BY <2>1, <3>2
      <4>2. at[v] \in Team(v) /\ at[v] \in Conns
        BY <4>1 DEF InTeam, Team
      <4>3. at[v] # c
        BY Zenon, <4>1, <4>2, <3>1, <1>OneWriter
      <4> QED BY Zenon, <4>1, <4>2, <4>3, <3>2, <3>7 DEF Checked
    <3>11. NoneLost'
      <4>1. CASE WriteDone(w)
        BY Zenon, <4>1 DEF WriteDone, connVars, NoneLost
      <4>2. CASE WriteFailed(w)
        BY <4>2, <3>7 DEF WriteFailed, NoneLost, TypeOK
      <4> QED BY Zenon, <2>6, <4>1, <4>2
    <3> QED BY <2>2, <3>8, <3>9, <3>10, <3>11
  <2> QED BY <2>4, <2>5, <2>6 DEF WriterStep
<1> SUFFICES ASSUME IInv, [Next]_vars PROVE IInv'
  OBVIOUS
<1> DEFINE Rest == Balanced /\ UnansweredBounded /\ InTeam /\ Checked /\ NoneLost
<1>1. TypeOK'
  BY <1>TypeStep, Parts
<1>2. ASSUME MainStep \/ DurationUp \/ GraceTimer \/ Ended \/ UNCHANGED vars PROVE Rest'
  <2>1. UNCHANGED <<wpc, at, up, open, rd, sendCnt, recvCnt, lost>>
    <3>1. CASE MainStep
      BY Zenon, <3>1 DEF MainStep, CheckLimits, WritersWait, GraceEnd, SnapshotTimes, SnapshotBytes,
                  wVars, connVars, sendVars, recvVars
    <3>2. CASE DurationUp \/ GraceTimer \/ Ended \/ UNCHANGED vars
      BY <3>2 DEF DurationUp, GraceTimer, Ended, vars, wVars, connVars, sendVars, recvVars
    <3> QED BY Zenon, <1>2, <3>1, <3>2
  <2> QED BY <2>1, <1>QuietStep
<1>3. ASSUME NEW c \in Conns, GiveBack(c) PROVE Rest'
  <2>1. UNCHANGED <<wpc, at, up, open, rd, sendCnt, recvCnt, lost>>
    BY Zenon, <1>3 DEF GiveBack, wVars, sendVars, recvVars
  <2> QED BY <2>1, <1>QuietStep
<1>4. ASSUME NEW w \in Writers, Tick(w) \/ WriterStop(w) \/ WriterStep(w) PROVE Rest'
  BY <1>1, <1>4, <1>WriterKeeps
<1>5. ASSUME NEW c \in Conns,
             ReaderStep(c) \/ ConnEnds(c) \/ \E ok \in BOOLEAN : Answer(c, ok)
      PROVE  Rest'
  BY Zenon, <1>1, <1>5, <1>ReaderKeeps
<1>6. Rest' => IInv'
  BY <1>1 DEF IInv, InTeam, Checked, NoneLost
<1> HIDE DEF Rest
<1> QED BY <1>2, <1>3, <1>4, <1>5, <1>6 DEF Next

\* The counters of every connection agree with the requests on it, and no more
\* than maxBatchesInFlight batches and part of one are unanswered, in every state.
THEOREM CountersAgree == Spec => [](TypeOK /\ Balanced /\ UnansweredBounded)
<1>1. IInv => TypeOK /\ Balanced /\ UnansweredBounded
  BY Parts
<1> QED BY <1>1, InvInit, InvStep, PTL DEF Spec

---------------------------------------------------------------------------
(***************************************************************************)
(* The grace period.  The totals are the sums of the connections' counters *)
(* and, once Run is in it, no writer is left that could add to them.       *)
(***************************************************************************)

After == {"grace", "times", "bytes", "done"}

Totals ==
  /\ sendTimes = SumFunction(sendCnt)
  /\ answered = SumFunction(recvCnt)
  /\ phase \in After => \A w \in Writers : wpc[w] = "stopped"
  /\ phase = "times" /\ ~graceUp => answered >= sendTimes

LEMMA ConnsFinite == IsFiniteSet(Conns) /\ Cardinality(Conns) = NConns
<1>1. NConns \in Nat /\ 0 \in Int /\ 1 \in Int
  BY Sizes
<1> QED BY <1>1, FS_Interval DEF Conns

\* A grace period that ends before its timer leaves no more requests unanswered than
\* were in batches whose write failed.
THEOREM GraceIsEnough == Spec => []GraceWaits
\* One connection's counter goes up by n, and so does the sum.
<1>SumGrows. ASSUME NEW f, NEW g, NEW c \in Conns, NEW n \in Nat, DOMAIN f = Conns, DOMAIN g = Conns,
                    \A x \in Conns : f[x] \in Int, g[c] = f[c] + n, \A x \in Conns \ {c} : g[x] = f[x]
             PROVE  SumFunction(g) = SumFunction(f) + n
  <2> USE <1>SumGrows
  <2>1. f[c] \in Int /\ g[c] \in Int
    BY SMTT(40), Z3T(40)
  <2>2. SumFunctionOnSet(g, Conns) = SumFunctionOnSet(f, Conns) - f[c] + g[c]
    BY SMTT(40), <2>1, ConnsFinite, SumUpdate
  <2>3. SumFunctionOnSet(f, Conns) \in Int
    BY ConnsFinite, SumInt
  <2>4. SumFunctionOnSet(g, Conns) = SumFunctionOnSet(f, Conns) + n
    BY <2>1, <2>2, <2>3
  <2> QED BY Zenon, <2>4 DEF SumFunction
<1>TotalsInit.
      Init => Totals
  <2> SUFFICES ASSUME Init PROVE Totals
    OBVIOUS
  <2>1. /\ sendCnt = [c \in Conns |-> 0] /\ recvCnt = [c \in Conns |-> 0]
        /\ sendTimes = 0 /\ answered = 0 /\ phase = "start"
    BY DEF Init
  <2>2. SumFunctionOnSet([c \in Conns |-> 0], Conns) = 0
    BY ConnsFinite, SumZero
  <2>3. SumFunction([c \in Conns |-> 0]) = 0
    BY <2>2 DEF SumFunction
  <2> QED BY <2>1, <2>3 DEF Totals, After
\* The steps that count nothing.
<1>TotalsQuiet.
      ASSUME IInv, IInv', Totals, UNCHANGED <<sendCnt, sendTimes, recvCnt, answered>>,
             phase' \in After => \A w \in Writers : wpc'[w] = "stopped",
             phase' = "times" /\ ~graceUp' => answered >= sendTimes
      PROVE  Totals'
  BY <1>TotalsQuiet DEF Totals
<1>TotalsStep.
      ASSUME IInv, IInv', Totals, [Next]_vars
      PROVE  Totals'
  <2> USE <1>TotalsStep
  <2>1. CASE MainStep \/ DurationUp \/ GraceTimer \/ Ended \/ UNCHANGED vars
    <3>1. UNCHANGED <<sendCnt, sendTimes, recvCnt, answered, wpc>>
      <4>1. CASE MainStep
        BY Zenon, <4>1 DEF MainStep, CheckLimits, WritersWait, GraceEnd, SnapshotTimes, SnapshotBytes,
                    wVars, sendVars, recvVars
      <4>2. CASE DurationUp \/ GraceTimer \/ Ended \/ UNCHANGED vars
        BY <4>2 DEF DurationUp, GraceTimer, Ended, vars, wVars, sendVars, recvVars
      <4> QED BY Zenon, <2>1, <4>1, <4>2
    <3>2. phase' \in After => phase \in After \/ \A w \in Writers : wpc[w] = "stopped"
      <4>1. CASE MainStep
        BY <4>1 DEF MainStep, CheckLimits, WritersWait, GraceEnd, SnapshotTimes, SnapshotBytes, After
      <4>2. CASE DurationUp \/ GraceTimer \/ Ended \/ UNCHANGED vars
        BY <4>2 DEF DurationUp, GraceTimer, Ended, vars, runVars, After
      <4> QED BY SMTT(40), Z3T(40), <2>1, <4>1, <4>2
    <3>3. phase' = "times" /\ ~graceUp' =>
             (phase = "times" /\ ~graceUp) \/ answered >= sendTimes
      <4>1. CASE MainStep
        BY <4>1 DEF MainStep, CheckLimits, WritersWait, GraceEnd, SnapshotTimes, SnapshotBytes
      <4>2. CASE DurationUp \/ GraceTimer \/ Ended \/ UNCHANGED vars
        BY <4>2 DEF DurationUp, GraceTimer, Ended, vars, runVars
      <4> QED BY Zenon, <2>1, <4>1, <4>2
    <3> QED BY <3>1, <3>2, <3>3, <1>TotalsQuiet DEF Totals
  <2>2. ASSUME NEW w \in Writers, Tick(w) \/ WriterStop(w) \/ WriterStep(w) PROVE Totals'
    <3>1. phase \notin After
      <4>1. CASE Tick(w) \/ WriterStop(w)
        BY <4>1 DEF Tick, WriterStop, After
      <4>2. CASE WriterStep(w)
        <5>1. wpc[w] # "stopped"
          BY Zenon, <4>2 DEF WriterStep, Check, WriteNone, WriteOpen, WriteDone, WriteFailed
        <5> QED BY <5>1 DEF Totals
      <4> QED BY <2>2, <4>1, <4>2
    <3>2. UNCHANGED <<phase, graceUp, recvCnt, answered>>
      BY Zenon, <2>2 DEF Tick, WriterStop, WriterStep, Check, WriteNone, WriteOpen, WriteDone, WriteFailed,
                  runVars, recvVars
    <3>3. phase' \notin After /\ phase' # "times"
      BY Zenon, <3>1, <3>2 DEF After
    <3>4. CASE WriteDone(w)
      <4>1. at[w] \in Conns /\ Batch \in Nat
        BY Zenon, <3>4, Sizes DEF WriteDone, IInv, Team
      <4>2. sendCnt \in [Conns -> Nat] /\ sendCnt' \in [Conns -> Nat]
        BY Zenon DEF IInv, TypeOK
      <4>3. sendCnt' = [sendCnt EXCEPT ![at[w]] = @ + Batch] /\ sendTimes' = sendTimes + Batch
        BY <3>4 DEF WriteDone, CountSent
      <4>5. /\ DOMAIN sendCnt = Conns /\ DOMAIN sendCnt' = Conns
            /\ \A x \in Conns : sendCnt[x] \in Int
            /\ sendCnt'[at[w]] = sendCnt[at[w]] + Batch
            /\ \A x \in Conns \ {at[w]} : sendCnt'[x] = sendCnt[x]
        BY SMTT(40), Z3T(40), <4>1, <4>2, <4>3
      <4>4. SumFunction(sendCnt') = SumFunction(sendCnt) + Batch
        BY <4>1, <4>5, <1>SumGrows
      <4> QED BY Zenon, <3>2, <3>3, <4>3, <4>4 DEF Totals
    <3>5. CASE ~WriteDone(w)
      <4>1. UNCHANGED <<sendCnt, sendTimes>>
        BY ZenonT(40), <2>2, <3>5 DEF Tick, WriterStop, WriterStep, Check, WriteNone, WriteOpen, WriteFailed,
                    sendVars
      <4> QED BY <3>2, <3>3, <4>1, <1>TotalsQuiet
    <3> QED BY <3>4, <3>5
  <2>3. ASSUME NEW c \in Conns,
               \/ ReaderStep(c) \/ GiveBack(c) \/ ConnEnds(c) \/ \E ok \in BOOLEAN : Answer(c, ok)
        PROVE  Totals'
    <3>1. UNCHANGED <<phase, graceUp, wpc, sendCnt, sendTimes>>
      BY <2>3 DEF ReaderStep, CountAnswer, CountTimes, CountBytes, GiveBack, ConnEnds, Answer,
                  runVars, wVars, sendVars
    <3>2. CASE CountAnswer(c)
      <4>1. recvCnt \in [Conns -> Nat] /\ recvCnt' \in [Conns -> Nat] /\ 1 \in Nat
        BY DEF IInv, TypeOK
      <4>2. recvCnt' = [recvCnt EXCEPT ![c] = @ + 1] /\ answered' = answered + 1
        BY <3>2 DEF CountAnswer
      <4>6. /\ DOMAIN recvCnt = Conns /\ DOMAIN recvCnt' = Conns
            /\ \A x \in Conns : recvCnt[x] \in Int
            /\ recvCnt'[c] = recvCnt[c] + 1
            /\ \A x \in Conns \ {c} : recvCnt'[x] = recvCnt[x]
        BY <4>1, <4>2
      <4>3. SumFunction(recvCnt') = SumFunction(recvCnt) + 1
        BY Zenon, <4>6, <1>SumGrows
      <4>4. answered \in Nat /\ sendTimes \in Nat
        BY DEF IInv, TypeOK
      <4>5. phase = "times" /\ ~graceUp => answered' >= sendTimes
        BY <4>2, <4>4 DEF Totals
      <4> QED BY Zenon, <3>1, <4>2, <4>3, <4>5 DEF Totals
    <3>3. CASE ~CountAnswer(c)
      <4>1. UNCHANGED <<recvCnt, answered>>
        BY Zenon, <2>3, <3>3 DEF ReaderStep, CountTimes, CountBytes, GiveBack, ConnEnds, Answer, recvVars
      <4> QED BY Zenon, <3>1, <4>1, <1>TotalsQuiet DEF Totals
    <3> QED BY <3>2, <3>3
  <2> QED BY Zenon, <2>1, <2>2, <2>3 DEF Next
\* With no writer left, the balances of the connections add up.
<1>GraceHolds.
      IInv /\ Totals => GraceWaits
  <2> SUFFICES ASSUME IInv, Totals, phase = "times", ~graceUp
               PROVE  AllUnanswered <= SumFunction(lost)
    BY Zenon DEF GraceWaits
  <2> DEFINE un == [c \in Conns |-> Unanswered(c)]
             owed == [c \in Conns |-> sendCnt[c] + lost[c]]
             Sum(f) == SumFunctionOnSet(f, Conns)
  <2>1. \A c \in Conns : /\ sendCnt[c] \in Int /\ lost[c] \in Int /\ recvCnt[c] \in Int
                         /\ Unanswered(c) \in Int
    BY DEF IInv, TypeOK, Unanswered
  <2>2. \A c \in Conns : Pending(c) = 0
    BY Zenon DEF Totals, After, Pending
  <2>3. \A c \in Conns : sendCnt[c] + lost[c] = recvCnt[c] + Unanswered(c)
    BY SMTT(40), Z3T(40), <2>1, <2>2 DEF IInv, Balanced
  <2>4. Sum(owed) = Sum(sendCnt) + Sum(lost)
    <3>1. \A c \in Conns : owed[c] = sendCnt[c] + lost[c]
      OBVIOUS
    <3> HIDE DEF owed
    <3> QED BY <2>1, <3>1, ConnsFinite, SumAdd
  <2>5. Sum(owed) = Sum(recvCnt) + Sum(un)
    <3>1. \A c \in Conns : owed[c] = recvCnt[c] + un[c] /\ un[c] \in Int
      BY Zenon, <2>1, <2>3
    <3> HIDE DEF owed, un
    <3> QED BY <2>1, <3>1, ConnsFinite, SumAdd
  <2>6. Sum(sendCnt) \in Int /\ Sum(lost) \in Int /\ Sum(recvCnt) \in Int /\ Sum(un) \in Int
    <3>1. \A c \in Conns : un[c] \in Int
      BY Zenon, <2>1
    <3> HIDE DEF un
    <3> QED BY <2>1, <3>1, ConnsFinite, SumInt
  <2>7. DOMAIN sendCnt = Conns /\ DOMAIN lost = Conns /\ DOMAIN recvCnt = Conns /\ DOMAIN un = Conns
    BY DEF IInv, TypeOK
  <2>8. Sum(recvCnt) >= Sum(sendCnt)
    BY <2>7, Zenon DEF Totals, SumFunction
  <2>9. Sum(un) <= Sum(lost)
    <3> HIDE DEF Sum, un, owed
    <3> QED BY <2>4, <2>5, <2>6, <2>8
  <2> QED BY <2>7, <2>9 DEF AllUnanswered, SumFunction
<1>1. IInv /\ Totals /\ [Next]_vars => (IInv /\ Totals)'
  BY InvStep, <1>TotalsStep
<1>2. Init => IInv /\ Totals
  BY Zenon, InvInit, <1>TotalsInit
<1> QED BY <1>1, <1>2, <1>GraceHolds, PTL DEF Spec

(***************************************************************************)
(* What the readers have in their hands: responses that are to count and   *)
(* are not in recvTimes yet, and those whose bytes are not in recvBytes.   *)
(***************************************************************************)

InHand == {c \in Conns : rd[c] \in {"good", "times"}}

ToWeigh == {c \in Conns : rd[c] = "bytes"}

Received ==
  /\ good = recvTimes + Cardinality(InHand)
  /\ \E n \in Nat : recvBytes = Payload * n /\ recvTimes = n + Cardinality(ToWeigh)
  /\ endRecvTimes <= recvTimes
  /\ phase = "done" => endRecvBytes + Payload * NConns >= Payload * endRecvTimes

\* What the report says was received is what was: no response is counted twice, and the
\* snapshot is behind by no more than the response each reader has in its hands.
THEOREM ReportIsTrue == Spec => []ReportsReceived
<1>SetsOfConns.
      ASSUME NEW S \in SUBSET Conns, NEW c \in Conns
      PROVE  /\ Cardinality(S) \in Nat /\ Cardinality(S) <= NConns
             /\ c \notin S => Cardinality(S \cup {c}) = Cardinality(S) + 1
             /\ c \in S => Cardinality(S \ {c}) = Cardinality(S) - 1
  <2> USE <1>SetsOfConns
  <2>1. IsFiniteSet(S) /\ Cardinality(S) <= NConns
    BY ConnsFinite, FS_Subset
  <2> QED BY <2>1, FS_CardinalityType, FS_AddElement, FS_RemoveElement
<1>HandsInConns.
      /\ InHand \in SUBSET Conns /\ Cardinality(InHand) \in Nat
      /\ ToWeigh \in SUBSET Conns /\ Cardinality(ToWeigh) \in Nat /\ Cardinality(ToWeigh) <= NConns
  <2>1. InHand \in SUBSET Conns /\ ToWeigh \in SUBSET Conns
    BY Zenon DEF InHand, ToWeigh
  <2> QED BY <2>1, ConnsFinite, FS_Subset, FS_CardinalityType
<1>ReceivedInit.
      Init => Received
  <2> SUFFICES ASSUME Init PROVE Received
    OBVIOUS
  <2>1. InHand = {} /\ ToWeigh = {}
    BY DEF Init, InHand, ToWeigh
  <2>2. Cardinality(InHand) = 0 /\ Cardinality(ToWeigh) = 0
    BY <2>1, FS_EmptySet
  <2>3. recvBytes = Payload * 0 /\ recvTimes = 0 + Cardinality(ToWeigh)
    BY <2>2, Sizes DEF Init
  <2>4. \E n \in Nat : recvBytes = Payload * n /\ recvTimes = n + Cardinality(ToWeigh)
    BY <2>3
  <2> QED BY <2>2, <2>4 DEF Init, Received
\* A reader takes a response through: into its hands, into recvTimes, into recvBytes.
<1>ReceivedRead.
      ASSUME IInv, Received, NEW c \in Conns, ReaderStep(c) \/ \E ok \in BOOLEAN : Answer(c, ok)
      PROVE  Received'
  <2> USE <1>ReceivedRead
  <2>1. UNCHANGED <<phase, endRecvTimes, endRecvBytes>>
    BY Zenon DEF ReaderStep, CountAnswer, CountTimes, CountBytes, Answer, runVars, endVars
  <2>2. rd \in [Conns -> {"idle", "good", "bad", "times", "bytes"}]
    BY DEF IInv, TypeOK
  <2>3. PICK n \in Nat : recvBytes = Payload * n /\ recvTimes = n + Cardinality(ToWeigh)
    BY Zenon DEF Received
  <2>4. /\ recvTimes \in Nat /\ good \in Nat /\ recvBytes \in Nat /\ endRecvTimes \in Nat
        /\ Payload \in Nat /\ Cardinality(InHand) \in Nat /\ Cardinality(ToWeigh) \in Nat
    BY Zenon, Sizes, <1>HandsInConns, <1>SetsOfConns DEF IInv, TypeOK
  <2>5. CASE CountAnswer(c)
    <3>1. InHand' = InHand /\ ToWeigh' = ToWeigh
      BY <2>2, <2>5 DEF CountAnswer, InHand, ToWeigh
    <3>2. UNCHANGED <<good, recvTimes, recvBytes>>
      BY Zenon, <2>5 DEF CountAnswer
    <3> QED BY Zenon, <2>1, <3>1, <3>2 DEF Received
  <2>6. CASE CountTimes(c)
    <3>1. InHand' = InHand \ {c} /\ c \in InHand
      BY <2>2, <2>6 DEF CountTimes, InHand
    <3>2. ToWeigh' = ToWeigh \cup {c} /\ c \notin ToWeigh
      BY <2>2, <2>6 DEF CountTimes, ToWeigh
    <3>3. recvTimes' = recvTimes + 1 /\ UNCHANGED <<good, recvBytes>>
      BY <2>6 DEF CountTimes
    <3>4. Cardinality(InHand)' = Cardinality(InHand) - 1
      BY <3>1, <1>HandsInConns, <1>SetsOfConns
    <3>5. Cardinality(ToWeigh)' = Cardinality(ToWeigh) + 1
      BY Zenon, <3>2, <1>HandsInConns, <1>SetsOfConns
    <3>6. good' = recvTimes' + Cardinality(InHand)' /\ endRecvTimes <= recvTimes'
      BY SMTT(40), <2>4, <3>3, <3>4 DEF Received
    <3>7. recvBytes' = Payload * n /\ recvTimes' = n + Cardinality(ToWeigh)'
      BY <2>3, <2>4, <3>3, <3>5
    <3> QED BY <2>1, <3>6, <3>7 DEF Received
  <2>7. CASE CountBytes(c)
    <3>1. InHand' = InHand
      BY <2>2, <2>7 DEF CountBytes, InHand
    <3>2. ToWeigh' = ToWeigh \ {c} /\ c \in ToWeigh
      BY <2>2, <2>7 DEF CountBytes, ToWeigh
    <3>3. recvBytes' = recvBytes + Payload /\ UNCHANGED <<good, recvTimes>>
      BY <2>7 DEF CountBytes
    <3>4. Cardinality(ToWeigh)' = Cardinality(ToWeigh) - 1
      BY <3>2, <1>HandsInConns, <1>SetsOfConns
    <3>5. Payload * (n + 1) = Payload * n + Payload
      BY <2>4
    <3>6. recvBytes' = Payload * (n + 1) /\ recvTimes' = (n + 1) + Cardinality(ToWeigh)'
      BY <2>3, <2>4, <3>3, <3>4, <3>5
    <3>7. \E m \in Nat : recvBytes' = Payload * m /\ recvTimes' = m + Cardinality(ToWeigh)'
      BY <3>6
    <3> QED BY Zenon, <2>1, <3>1, <3>3, <3>7 DEF Received
  <2>8. ASSUME NEW ok \in BOOLEAN, Answer(c, ok) PROVE Received'
    <3>1. UNCHANGED <<recvTimes, recvBytes>> /\ rd[c] = "idle"
      BY Zenon, <2>8 DEF Answer
    <3>2. ToWeigh' = ToWeigh
      BY Zenon, <2>2, <2>8 DEF Answer, ToWeigh
    <3>3. CASE ok
      <4>1. InHand' = InHand \cup {c} /\ c \notin InHand /\ good' = good + 1
        BY <2>2, <2>8, <3>3 DEF Answer, InHand
      <4>2. Cardinality(InHand)' = Cardinality(InHand) + 1
        BY Zenon, <4>1, <1>HandsInConns, <1>SetsOfConns
      <4>3. good' = recvTimes + Cardinality(InHand)'
        BY <2>4, <4>1, <4>2 DEF Received
      <4> QED BY Zenon, <2>1, <3>1, <3>2, <4>3 DEF Received
    <3>4. CASE ~ok
      <4>1. InHand' = InHand /\ good' = good
        BY <2>2, <2>8, <3>4 DEF Answer, InHand
      <4> QED BY Zenon, <2>1, <3>1, <3>2, <4>1 DEF Received
    <3> QED BY Zenon, <3>3, <3>4
  <2> QED BY Zenon, <2>5, <2>6, <2>7, <2>8 DEF ReaderStep
\* Run takes the two snapshots one after the other, while the readers go on.
<1>ReceivedSnapshot.
      ASSUME IInv, Received, SnapshotTimes \/ SnapshotBytes
      PROVE  Received'
  <2> USE <1>ReceivedSnapshot
  <2>1. UNCHANGED <<rd, good, recvTimes, recvBytes>>
    BY DEF SnapshotTimes, SnapshotBytes, connVars, recvVars
  <2>2. InHand' = InHand /\ ToWeigh' = ToWeigh
    BY Zenon, <2>1 DEF InHand, ToWeigh
  <2>3. /\ recvTimes \in Nat /\ recvBytes \in Nat /\ endRecvTimes \in Nat
        /\ Payload \in Nat /\ NConns \in Nat
    BY Zenon, Sizes DEF IInv, TypeOK
  <2>4. CASE SnapshotTimes
    BY <2>1, <2>2, <2>3, <2>4 DEF SnapshotTimes, Received
  <2>5. CASE SnapshotBytes
    <3>1. endRecvBytes' = recvBytes /\ endRecvTimes' = endRecvTimes
      BY <2>5 DEF SnapshotBytes
    <3>2. PICK n \in Nat : recvBytes = Payload * n /\ recvTimes = n + Cardinality(ToWeigh)
      BY DEF Received
    <3>3. Cardinality(ToWeigh) \in Nat /\ Cardinality(ToWeigh) <= NConns
      BY Zenon, <1>HandsInConns
    <3>4. endRecvTimes <= n + NConns
      BY <2>3, <3>2, <3>3 DEF Received
    <3>5. Payload * endRecvTimes <= Payload * (n + NConns)
      BY <2>3, <3>4
    <3>6. Payload * (n + NConns) = Payload * n + Payload * NConns
      BY <2>3
    <3>7. endRecvBytes' + Payload * NConns >= Payload * endRecvTimes'
      BY Zenon, <3>1, <3>2, <3>5, <3>6
    <3> QED BY Zenon, <2>1, <2>2, <3>1, <3>7 DEF Received
  <2> QED BY Zenon, <2>4, <2>5
<1>ReceivedStep.
      ASSUME IInv, Received, [Next]_vars
      PROVE  Received'
  <2> USE <1>ReceivedStep
  <2>1. CASE /\ UNCHANGED <<rd, good, recvTimes, recvBytes, endRecvTimes, endRecvBytes>>
             /\ phase' = phase \/ phase' # "done"
    <3>1. InHand' = InHand /\ ToWeigh' = ToWeigh
      BY ZenonT(40), <2>1 DEF InHand, ToWeigh
    <3> QED BY <2>1, <3>1 DEF Received
  <2>2. CASE CheckLimits \/ WritersWait \/ GraceEnd \/ DurationUp \/ GraceTimer \/ Ended \/ UNCHANGED vars
    BY <2>1, <2>2 DEF CheckLimits, WritersWait, GraceEnd, DurationUp, GraceTimer, Ended, vars,
                      runVars, connVars, recvVars, endVars
  <2>3. ASSUME NEW w \in Writers, Tick(w) \/ WriterStop(w) \/ WriterStep(w) PROVE Received'
    BY Zenon, <2>1, <2>3 DEF Tick, WriterStop, WriterStep, Check, WriteNone, WriteOpen, WriteDone,
                      WriteFailed, runVars, connVars, recvVars, endVars
  <2>4. ASSUME NEW c \in Conns, GiveBack(c) \/ ConnEnds(c) PROVE Received'
    BY Zenon, <2>1, <2>4 DEF GiveBack, ConnEnds, runVars, recvVars, endVars
  <2> QED BY Zenon, <2>2, <2>3, <2>4, <1>ReceivedRead, <1>ReceivedSnapshot DEF Next, MainStep
<1>ReceivedHolds.
      IInv /\ Received => ReportsReceived
  <2> SUFFICES ASSUME IInv, Received PROVE ReportsReceived
    BY Zenon
  <2>1. recvTimes \in Nat /\ good \in Nat
    BY DEF IInv, TypeOK
  <2>2. Cardinality(InHand) \in Nat
    BY <1>HandsInConns
  <2>3. recvTimes <= good /\ good <= recvTimes + Cardinality(InHand)
    BY <2>1, <2>2 DEF Received
  <2> QED BY <2>3 DEF Received, ReportsReceived, InHand
<1>1. IInv /\ Received /\ [Next]_vars => (IInv /\ Received)'
  BY InvStep, <1>ReceivedStep
<1>2. Init => IInv /\ Received
  BY InvInit, <1>ReceivedInit
<1> QED BY <1>1, <1>2, <1>ReceivedHolds, PTL DEF Spec

\* No more than maxBatchesInFlight batches and part of one are unanswered.
THEOREM UnansweredStaysBounded == Spec => []UnansweredBounded
BY CountersAgree, PTL
=============================================================================
