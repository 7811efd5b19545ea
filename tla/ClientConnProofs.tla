-------------------------- MODULE ClientConnProofs --------------------------
(***************************************************************************)
(* What holds of a ClientConn at every step, for any number of callers and *)
(* batchers, any identifiers, windows and limits: the types of the         *)
(* variables, the limits the server has set, and what reaches the socket.  *)
(* Each invariant is shown to be kept by every action, given those shown   *)
(* before it.                                                              *)
(***************************************************************************)
EXTENDS ClientConn, FiniteSetTheorems, TLAPS

(***************************************************************************)
(* Facts about the constants and operators, and the types the variables    *)
(* keep.                                                                   *)
(***************************************************************************)

\* takeWindowLocked takes no more than was asked for, and nothing below zero.
LEMMA TakeableBounds ==
  ASSUME NEW n \in Nat, NEW a \in Int, NEW b \in Int
  PROVE  /\ Takeable(n, a, b) \in Nat
         /\ Takeable(n, a, b) <= n
         /\ a >= 0 => Takeable(n, a, b) <= a
BY DEF Takeable, MinOf, MaxOf

\* An identifier is a positive odd number, so the next one to hand out is an
\* identifier while it does not pass maxStreamID.
LEMMA NextIsId ==
  ASSUME nextID \in Nat, nextID % 2 = 1, nextID <= MaxStreamID
  PROVE  nextID \in Ids
BY ConstantsAssumption DEF Ids

LEMMA MaxIsNat == MaxStreamID \in Nat
BY ConstantsAssumption

LEMMA SizesAreNat ==
  BatchSize \in Nat /\ BatchSize > 0 /\ BatchBody \in Nat /\ Bodies \subseteq Nat
BY ConstantsAssumption

LEMMA IdsAreNat == \A i \in Ids : i \in Nat /\ i > 0
BY ConstantsAssumption DEF Ids

\* The map is finite, so active changes by a number.
LEMMA IdsFinite ==
  \A S \in SUBSET Ids : IsFiniteSet(S) /\ Cardinality(S) \in Nat
<1>1. IsFiniteSet(1..MaxStreamID)
  <2>1. 1 \in Int /\ MaxStreamID \in Int
    BY ConstantsAssumption
  <2> QED BY <2>1, FS_Interval
<1>2. \A S \in SUBSET Ids : S \subseteq 1..MaxStreamID
  BY DEF Ids
<1>3. \A S \in SUBSET Ids : IsFiniteSet(S)
  BY Zenon, <1>1, <1>2, FS_Subset
<1> QED BY <1>3, FS_CardinalityType

---------------------------------------------------------------------------
(* TypeOK and Shape by groups of variables: a step changes few of them.      *)

TEnv ==
  /\ wmu \in Callers \cup Batchers \cup {NoOne}
  /\ conn \in {"open", "broken", "closed"} /\ closing \in {"no", "waiting", "returned"}

TTable ==
  /\ streams \subseteq Ids /\ owner \in [Ids -> Callers \cup Batchers \cup {NoOne}]
  /\ active \in Int /\ nextID \in Nat /\ nextID % 2 = 1
  /\ err \in {"nil", "goaway", "exhausted", "closed"}

TPeer ==
  /\ sendWindow \in [Ids -> Int] /\ connSendWindow \in Int /\ connGranted \in Int
  /\ peerInitialWindow \in Nat /\ peerMaxStreams \in Nat /\ hiLimit \in Nat

TDo ==
  /\ pc \in [Callers -> {"idle", "slot", "open"} \cup Opened]
  /\ sid \in [Callers -> Ids \cup {0}] /\ done \in [Callers -> Nat]
  /\ left \in [Callers -> Nat] /\ took \in [Callers -> Nat]
  /\ \A c \in Callers :
       /\ took[c] <= left[c]
       /\ pc[c] \in {"idle", "slot", "open"} => sid[c] = 0 /\ took[c] = 0
       /\ pc[c] \in {"write", "wrote", "body", "data"} => sid[c] # 0

TBatch ==
  /\ bpc \in [Batchers -> {"idle", "open", "write", "wrote", "close"}]
  /\ bfirst \in [Batchers -> Ids \cup {0}]

TRead ==
  /\ rpc \in {"read", "control", "settingsAck", "finish", "exit", "fail", "failing", "done"}
  /\ rid \in Ids \cup {0} /\ ending \subseteq Ids /\ delivered \in [Ids -> Nat]

TWire == sent \subseteq Ids /\ bytesSent \in Nat /\ endSent \subseteq Ids

TSeen == settingsSeen \in BOOLEAN

Below ==
  /\ \A i \in streams \cup ending \cup sent : i < nextID
  /\ \A c \in Callers : sid[c] < nextID
  /\ \A b \in Batchers :
       bpc[b] \in {"write", "wrote"} => bfirst[b] + 2 * BatchSize <= nextID

\* Each variable of Do, the batches and the reader, and the map they share.
Parts ==
  /\ TEnv /\ TTable /\ waiters \subseteq Callers /\ TPeer /\ TDo
  /\ TBatch /\ TRead /\ TWire /\ TSeen /\ Below

---------------------------------------------------------------------------

\* Every variable keeps its type, and every actor's own variables their shape,
\* whatever the goroutines, the server and the network do.
THEOREM TypeCorrect == Spec => [](TypeOK /\ Shape)
<1>PartsAre. Parts <=> TypeOK /\ Shape
  BY DEF Parts, TEnv, TTable, TPeer, TDo, TBatch, TRead, TWire, TSeen, Below, TypeOK, Shape
<1>SumIsNat. \A m, n \in Nat : m + n \in Nat
  OBVIOUS
\* What a step leaves alone keeps its type.
<1>PartsSame. ASSUME Parts
              PROVE  /\ UNCHANGED <<wmu, env>> => TEnv'
                     /\ UNCHANGED table => TTable'
                     /\ UNCHANGED waiters => (waiters \subseteq Callers)'
                     /\ UNCHANGED <<windows, peer>> => TPeer'
                     /\ UNCHANGED doing => TDo'
                     /\ UNCHANGED batching => TBatch'
                     /\ UNCHANGED wire => TWire'
                     /\ UNCHANGED settingsSeen => TSeen'
  <2> USE <1>PartsSame
  <2>1. UNCHANGED <<wmu, env>> => TEnv'
    BY DEF Parts, TEnv, env
  <2>2. UNCHANGED table => TTable'
    BY DEF Parts, TTable, table
  <2>3. UNCHANGED <<windows, peer>> => TPeer'
    BY DEF Parts, TPeer, windows, peer
  <2>4. UNCHANGED doing => TDo'
    BY DEF Parts, TDo, doing
  <2>5. UNCHANGED batching => TBatch'
    BY DEF Parts, TBatch, batching
  <2>6. UNCHANGED wire => TWire'
    BY DEF Parts, TWire, wire
  <2>7. UNCHANGED settingsSeen => TSeen'
    BY DEF Parts, TSeen
  <2>8. UNCHANGED waiters => (waiters \subseteq Callers)'
    BY DEF Parts
  <2> QED BY <2>1, <2>2, <2>3, <2>4, <2>5, <2>6, <2>7, <2>8
<1>ReadSame. ASSUME Parts, UNCHANGED reading PROVE TRead' /\ TSeen'
  BY <1>ReadSame DEF Parts, TRead, TSeen, reading
\* Nothing is numbered, and no more is on the wire or with the reader than was
\* numbered before.
<1>BelowSame. ASSUME Parts, UNCHANGED <<nextID, sid, batching>>,
                     streams' \cup ending' \cup sent' \subseteq streams \cup ending \cup sent
              PROVE  Below'
  BY <1>BelowSame DEF Parts, Below, batching
\* A WriteBatch that numbers nothing has nothing new below nextID.
<1>BelowBatch.
      ASSUME Parts, UNCHANGED <<nextID, sid, streams, ending, sent, bfirst>>,
             NEW b \in Batchers, NEW l, BGoto(b, l), l \in {"write", "wrote"} => bpc[b] \in {"write", "wrote"}
      PROVE  Below'
  BY <1>BelowBatch DEF Parts, Below, BGoto, TBatch
\* A Do's stream was numbered.
<1>SidBelow. ASSUME Parts PROVE \A c \in Callers : sid[c] \in Nat /\ sid[c] < nextID
  BY <1>SidBelow, IdsAreNat DEF Parts, TDo, Below
<1>TypeInit. Init => TypeOK /\ Shape
  <2> SUFFICES ASSUME Init PROVE TypeOK /\ Shape
    OBVIOUS
  <2> USE ConstantsAssumption
  <2>0. settingsSeen \in BOOLEAN
    BY Zenon DEF Init
  <2>1. TypeOK
    BY <2>0 DEF Init, TypeOK, Opened
  <2>2. nextID % 2 = 1
    BY DEF Init
  <2>3. Shape
    BY <2>2 DEF Init, Shape
  <2> QED BY <2>1, <2>3
\* writeStream numbers a stream.
<1>TypeOpenStream.
      ASSUME Parts, NEW c \in Callers, OpenStream(c)
      PROVE  Parts'
  <2> USE <1>TypeOpenStream
  <2> DEFINE take == Takeable(left[c], connSendWindow, peerInitialWindow)
  <2>1. nextID \in Ids /\ nextID \in Nat /\ nextID > 0 /\ (nextID + 2) % 2 = 1
    BY NextIsId, MaxIsNat, IdsAreNat DEF OpenStream, Exhausted, Parts, TTable
  <2>2. take \in Nat /\ take <= left[c]
    <3>1. left[c] \in Nat /\ connSendWindow \in Int /\ peerInitialWindow \in Int
      BY DEF Parts, TDo, TPeer
    <3> QED BY <3>1, TakeableBounds
  <2> HIDE DEF take
  <2>3. /\ wmu' = c /\ nextID' = nextID + 2 /\ streams' = streams \cup {nextID}
        /\ owner' = [owner EXCEPT ![nextID] = c]
        /\ sid' = [sid EXCEPT ![c] = nextID]
        /\ took' = [took EXCEPT ![c] = take]
        /\ connSendWindow' = connSendWindow - take
        /\ sendWindow' = [sendWindow EXCEPT ![nextID] = peerInitialWindow - take]
        /\ pc' = [pc EXCEPT ![c] = "write"]
    BY DEF OpenStream, LockWrites, Goto, take
  <2>4. /\ UNCHANGED <<env, active, err, waiters, connGranted, peer, left, done>>
        /\ UNCHANGED batching /\ UNCHANGED reading /\ UNCHANGED wire
    BY DEF OpenStream
  <2>5. TEnv'
    BY <2>3, <2>4 DEF Parts, TEnv, env
  <2>6. TTable'
    BY <2>1, <2>3, <2>4 DEF Parts, TTable
  <2>7. TPeer'
    BY <2>1, <2>2, <2>3, <2>4 DEF Parts, TPeer, peer
  <2>8. TDo'
    BY <2>1, <2>2, <2>3, <2>4 DEF Parts, TDo, Opened
  <2>9. Below'
    <3>1. \A i \in streams' \cup ending' \cup sent' : i < nextID'
      <4>1. \A i \in streams \cup ending \cup sent : i \in Nat /\ i < nextID
        BY IdsAreNat DEF Parts, TTable, TRead, TWire, Below
      <4> QED BY <2>1, <2>3, <2>4, <4>1 DEF reading, wire
    <3>2. \A d \in Callers : sid'[d] < nextID'
      <4>1. \A d \in Callers : sid[d] \in Nat /\ sid[d] < nextID
        BY <1>SidBelow
      <4> QED BY <2>1, <2>3, <4>1 DEF Parts, TDo
    <3>3. \A b \in Batchers : bpc'[b] \in {"write", "wrote"}
                             => bfirst'[b] + 2 * BatchSize <= nextID'
      <4>1. \A b \in Batchers : bfirst[b] \in Nat
        BY IdsAreNat DEF Parts, TBatch
      <4> QED BY <2>1, <2>3, <2>4, <4>1, SizesAreNat DEF Parts, Below, batching
    <3> QED BY <3>1, <3>2, <3>3 DEF Below
  <2> QED BY Zenon, <2>4, <2>5, <2>6, <2>7, <2>8, <2>9, <1>PartsSame, <1>ReadSame DEF Parts
\* Do up to the first write, and when that fails.
<1>TypeDoWrite.
      ASSUME Parts, NEW c \in Callers,
             \/ \E n \in Bodies : DoCall(c, n)
             \/ DoSlot(c) \/ OpenFail(c) \/ OpenStream(c)
             \/ StreamWrite(c) \/ StreamWritten(c) \/ WriteFail(c)
      PROVE  Parts'
  <2> USE <1>TypeDoWrite
  <2>1. ASSUME NEW n \in Bodies, DoCall(c, n) PROVE Parts'
    <3>1. TDo'
      BY <2>1, SizesAreNat DEF DoCall, Goto, Parts, TDo, Opened
    <3>2. Below'
      BY Zenon, <2>1, <1>BelowSame DEF DoCall, table, reading, wire
    <3> QED BY Zenon, <2>1, <3>1, <3>2, <1>PartsSame, <1>ReadSame DEF DoCall, Parts
  <2>2. CASE DoSlot(c)
    <3>1. TDo'
      BY SMTT(40), <2>2 DEF DoSlot, Goto, Parts, TDo, Opened
    <3>2. TTable' /\ waiters' \subseteq Callers
      BY <2>2 DEF DoSlot, Parts, TTable
    <3>3. Below'
      BY Zenon, <2>2, <1>BelowSame DEF DoSlot, reading, wire
    <3> QED BY Zenon, <2>2, <3>1, <3>2, <3>3, <1>PartsSame, <1>ReadSame DEF DoSlot, Parts
  <2>3. CASE OpenFail(c)
    <3>1. TDo'
      BY SMTT(40), <2>3 DEF OpenFail, Goto, Parts, TDo, Opened
    <3>2. TTable' /\ waiters' \subseteq Callers
      BY <2>3 DEF OpenFail, FailLocked, Parts, TTable
    <3>3. Below'
      BY Zenon, <2>3, <1>BelowSame DEF OpenFail, reading, wire
    <3> QED BY Zenon, <2>3, <3>1, <3>2, <3>3, <1>PartsSame, <1>ReadSame DEF OpenFail, Parts
  <2>4. CASE StreamWrite(c)
    <3>1. /\ sid[c] \in Ids /\ took[c] \in Nat /\ sid[c] < nextID
          /\ sent' = sent \cup {sid[c]} /\ bytesSent' = bytesSent + took[c]
          /\ endSent' \subseteq endSent \cup {sid[c]}
      BY Zenon, <2>4 DEF StreamWrite, SendBody, Parts, TDo, Below
    <3>2. TWire'
      <4>1. bytesSent \in Nat /\ sent \subseteq Ids /\ endSent \subseteq Ids
        BY Zenon DEF Parts, TWire
      <4>2. bytesSent' \in Nat
        BY Zenon, <3>1, <4>1, <1>SumIsNat
      <4> QED BY Zenon, <3>1, <4>1, <4>2 DEF TWire
    <3>3. Below'
      BY Zenon, <2>4, <3>1 DEF StreamWrite, Parts, Below, table, reading, batching
    <3>4. TDo'
      BY Zenon, <2>4 DEF StreamWrite, Goto, Parts, TDo, Opened
    <3> QED BY Zenon, <2>4, <3>2, <3>3, <3>4, <1>PartsSame, <1>ReadSame DEF StreamWrite, Parts
  <2>5. CASE StreamWritten(c)
    <3>1. TDo'
      BY <2>5 DEF StreamWritten, BodySent, Goto, Parts, TDo, Opened
    <3>2. TEnv'
      BY <2>5 DEF StreamWritten, Parts, TEnv, env
    <3>3. Below'
      BY Zenon, <2>5, <1>BelowSame DEF StreamWritten, table, reading, wire
    <3> QED BY Zenon, <2>5, <3>1, <3>2, <3>3, <1>PartsSame, <1>ReadSame DEF StreamWritten, Parts
  <2>6. CASE WriteFail(c)
    <3>1. TDo'
      BY Zenon, <2>6 DEF WriteFail, Goto, Parts, TDo, Opened
    <3>2. TEnv'
      BY Zenon, <2>6 DEF WriteFail, Parts, TEnv, env
    <3>3. Below'
      BY <2>6, <1>BelowSame DEF WriteFail, table, reading, wire
    <3> QED BY Zenon, <2>6, <3>1, <3>2, <3>3, <1>PartsSame, <1>ReadSame DEF WriteFail, Parts
  <2> QED BY Zenon, <2>1, <2>2, <2>3, <1>TypeOpenStream, <2>4, <2>5, <2>6
\* The rest of Do.
<1>TypeDoBody.
      ASSUME Parts, NEW c \in Callers,
             DoBody(c) \/ DataWrite(c) \/ DoClose(c) \/ DoReturn(c)
      PROVE  Parts'
  <2> USE <1>TypeDoBody
  <2>1. CASE DoBody(c)
    <3> DEFINE take == Takeable(left[c], connSendWindow, sendWindow[sid[c]])
    <3>0. /\ UNCHANGED <<wmu, env>> /\ UNCHANGED table /\ UNCHANGED <<sid, left, done>>
          /\ UNCHANGED <<connGranted, peer>>
          /\ UNCHANGED batching /\ UNCHANGED reading /\ UNCHANGED wire
          /\ waiters' \subseteq Callers
      BY Zenon, <2>1 DEF DoBody, Parts
    <3>1. Below'
      BY Zenon, <3>0, <1>BelowSame DEF table, reading, wire
    <3>2. CASE UNCHANGED <<took, connSendWindow, sendWindow>> /\ (Goto(c, "await") \/ UNCHANGED pc)
      <4>1. TDo'
        BY Zenon, <3>0, <3>2 DEF Goto, Parts, TDo, Opened
      <4> QED BY Zenon, <3>0, <3>1, <3>2, <4>1, <1>PartsSame, <1>ReadSame DEF Parts, windows
    <3>3. CASE /\ took' = [took EXCEPT ![c] = take]
               /\ connSendWindow' = connSendWindow - take
               /\ sendWindow' = [sendWindow EXCEPT ![sid[c]] = @ - take]
               /\ Goto(c, "data") /\ UNCHANGED waiters /\ sid[c] \in streams
      <4>1. /\ left[c] \in Nat /\ connSendWindow \in Int /\ sid[c] \in Ids /\ sid[c] # 0
            /\ sendWindow[sid[c]] \in Int
        <5>1. /\ left[c] \in Nat /\ connSendWindow \in Int /\ sid[c] \in Ids
              /\ sendWindow[sid[c]] \in Int
          BY Zenon, <3>3 DEF Parts, TDo, TTable, TPeer
        <5> QED BY <5>1, IdsAreNat
      <4>2. take \in Nat /\ take <= left[c]
        BY <4>1, TakeableBounds
      <4> HIDE DEF take
      <4>3. TPeer'
        <5>0. connSendWindow' = connSendWindow - take
          BY ZenonT(40), <3>3
        <5>1. connSendWindow' \in Int
          BY SMTT(40), <5>0, <4>1, <4>2
        <5>2. sendWindow \in [Ids -> Int] /\ sendWindow[sid[c]] - take \in Int
          BY <4>1, <4>2 DEF Parts, TPeer
        <5>3. sendWindow' \in [Ids -> Int]
          BY Zenon, <3>3, <5>2
        <5> QED BY <3>0, <5>1, <5>3 DEF Parts, TPeer, peer
      <4>4. TDo'
        BY Zenon, <3>0, <3>3, <4>1, <4>2 DEF Goto, Parts, TDo, Opened
      <4> QED BY Zenon, <3>0, <3>1, <4>3, <4>4, <1>PartsSame, <1>ReadSame DEF Parts
    <3> QED BY Zenon, <2>1, <3>2, <3>3 DEF DoBody
  <2>2. CASE DataWrite(c)
    <3>1. /\ sid[c] \in Ids /\ took[c] \in Nat /\ bytesSent' = bytesSent + took[c]
          /\ endSent' \subseteq endSent \cup {sid[c]} /\ sent' = sent
      BY Zenon, <2>2 DEF DataWrite, SendBody, Parts, TDo
    <3>2. TWire'
      BY SMTT(40), Z3T(40), <3>1 DEF Parts, TWire
    <3>3. TDo'
      BY <2>2 DEF DataWrite, BodySent, Goto, Parts, TDo, Opened
    <3>4. Below'
      BY Zenon, <2>2, <1>BelowSame DEF DataWrite, table, reading
    <3> QED BY Zenon, <2>2, <3>2, <3>3, <3>4, <1>PartsSame, <1>ReadSame DEF DataWrite, Parts
  <2>3. CASE DoClose(c)
    <3>1. TDo'
      BY <2>3 DEF DoClose, Goto, Parts, TDo, Opened
    <3>2. TEnv'
      BY Zenon, <2>3 DEF DoClose, Parts, TEnv
    <3>3. Below'
      BY Zenon, <2>3, <1>BelowSame DEF DoClose, table, reading, wire
    <3> QED BY Zenon, <2>3, <3>1, <3>2, <3>3, <1>PartsSame, <1>ReadSame DEF DoClose, Parts
  <2>4. CASE DoReturn(c)
    <3>1. TDo'
      BY <2>4 DEF DoReturn, Goto, Parts, TDo, Opened
    <3>2. Below'
      <4>1. nextID \in Nat /\ nextID > 0
        BY DEF Parts, TTable
      <4> QED BY Zenon, <2>4, <4>1 DEF DoReturn, Parts, TDo, Below, table, reading, wire, batching
    <3> QED BY Zenon, <2>4, <3>1, <3>2, <1>PartsSame, <1>ReadSame DEF DoReturn, Parts
  <2> QED BY SMTT(40), <2>1, <2>2, <2>3, <2>4
\* A batch is numbered.
<1>TypeBatchOpen.
      ASSUME Parts, NEW b \in Batchers, BatchOpen(b)
      PROVE  Parts'
  <2> USE <1>TypeBatchOpen
  <2> DEFINE new == BatchIds(nextID)
  <2>1. /\ nextID \in Ids /\ nextID \in Nat /\ nextID + 2 * BatchSize \in Nat
        /\ (nextID + 2 * BatchSize) % 2 = 1 /\ nextID <= nextID + 2 * BatchSize
    <3>1. nextID \in Nat /\ nextID % 2 = 1 /\ nextID + 2 * (BatchSize - 1) <= MaxStreamID
      BY MaxIsNat, SizesAreNat DEF BatchOpen, Exhausted, Parts, TTable
    <3>2. nextID <= MaxStreamID
      BY <3>1, MaxIsNat, SizesAreNat
    <3>3. (nextID + 2 * BatchSize) % 2 = 1
      BY <3>1, SizesAreNat
    <3> QED BY SMTT(40), Z3T(40), <3>1, <3>2, <3>3, NextIsId, SizesAreNat
  <2>2. new \subseteq Ids /\ \A i \in new : i < nextID + 2 * BatchSize
    BY Zenon DEF BatchIds
  <2> HIDE DEF new
  <2>3. /\ wmu' = b /\ nextID' = nextID + 2 * BatchSize /\ streams' = streams \cup new
        /\ owner' = [i \in Ids |-> IF i \in new THEN b ELSE owner[i]]
        /\ sendWindow' = [i \in Ids |-> IF i \in new THEN peerInitialWindow - BatchBody
                                                     ELSE sendWindow[i]]
        /\ bpc' = [bpc EXCEPT ![b] = "write"]
        /\ bfirst' = [bfirst EXCEPT ![b] = nextID]
    BY Zenon DEF BatchOpen, LockWrites, BGoto, new
  <2>4. /\ UNCHANGED <<env, active, err, waiters, connSendWindow, connGranted, peer>>
        /\ UNCHANGED doing /\ UNCHANGED reading /\ UNCHANGED wire
    BY Zenon DEF BatchOpen
  <2>5. TEnv'
    BY Zenon, <2>3, <2>4 DEF Parts, TEnv, env
  <2>6. TTable'
    BY Zenon, <2>1, <2>2, <2>3, <2>4 DEF Parts, TTable
  <2>7. TPeer'
    BY <2>3, <2>4, SizesAreNat DEF Parts, TPeer, peer
  <2>8. TBatch'
    BY <2>1, <2>3 DEF Parts, TBatch
  <2>9. Below'
    <3>1. \A i \in streams' \cup ending' \cup sent' : i < nextID'
      <4>1. \A i \in streams \cup ending \cup sent : i \in Nat /\ i < nextID
        BY IdsAreNat DEF Parts, TTable, TRead, TWire, Below
      <4>2. \A i \in streams \cup ending \cup sent : i < nextID + 2 * BatchSize
        BY SMTT(40), Z3T(40), <2>1, <4>1, SizesAreNat
      <4>3. streams' = streams \cup new /\ ending' = ending /\ sent' = sent
        BY Zenon, <2>3, <2>4 DEF reading, wire
      <4>4. nextID' = nextID + 2 * BatchSize
        BY <2>3
      <4> QED BY Zenon, <2>2, <4>2, <4>3, <4>4
    <3>2. \A c \in Callers : sid'[c] < nextID'
      <4>1. \A c \in Callers : sid[c] \in Nat /\ sid[c] < nextID
        BY SMTT(40), <1>SidBelow
      <4> QED BY <2>1, <2>3, <2>4, <4>1 DEF doing
    <3>3. \A d \in Batchers : bpc'[d] \in {"write", "wrote"}
                             => bfirst'[d] + 2 * BatchSize <= nextID'
      <4>1. \A d \in Batchers : bfirst[d] \in Nat
        BY IdsAreNat DEF Parts, TBatch
      <4> QED BY <2>1, <2>3, <4>1, SizesAreNat DEF Parts, TBatch, Below
    <3> QED BY <3>1, <3>2, <3>3 DEF Below
  <2> QED BY Zenon, <2>4, <2>5, <2>6, <2>7, <2>8, <2>9, <1>PartsSame, <1>ReadSame DEF Parts
\* WriteBatch.
<1>TypeBatch. ASSUME Parts, NEW b \in Batchers, BatchReserve(b) \/ BatchStep(b)
              PROVE  Parts'
  <2> USE <1>TypeBatch
  <2>1. CASE BatchReserve(b)
    <3>1. BatchSize * BatchBody \in Nat /\ BatchSize \in Nat
      BY SMTT(40), Z3T(40), SizesAreNat
    <3>2. TTable' /\ TPeer'
      BY <2>1, <3>1 DEF BatchReserve, Parts, TTable, TPeer, peer
    <3>3. TBatch'
      BY Zenon, <2>1 DEF BatchReserve, BGoto, Parts, TBatch
    <3>4. Below'
      BY Zenon, <2>1, <1>BelowBatch DEF BatchReserve, doing, reading, wire
    <3> QED BY <2>1, <3>2, <3>3, <3>4, <1>PartsSame, <1>ReadSame DEF BatchReserve, Parts
  <2>2. CASE BatchFail(b)
    <3>1. TTable' /\ waiters' \subseteq Callers
      BY <2>2, SizesAreNat DEF BatchFail, FailLocked, Parts, TTable
    <3>2. TBatch'
      BY Zenon, <2>2 DEF BatchFail, BGoto, Parts, TBatch
    <3>3. Below'
      BY <2>2, <1>BelowBatch DEF BatchFail, doing, reading, wire
    <3> QED BY Zenon, <2>2, <3>1, <3>2, <3>3, <1>PartsSame, <1>ReadSame DEF BatchFail, Parts
  <2>3. CASE BatchWrite(b)
    <3> DEFINE new == BatchIds(bfirst[b])
    <3>1. new \subseteq Ids /\ \A i \in new : i < nextID
      <4>1. /\ bfirst[b] + 2 * BatchSize <= nextID /\ bfirst[b] \in Nat /\ nextID \in Nat
        BY <2>3, IdsAreNat DEF BatchWrite, Parts, TBatch, TTable, Below
      <4>2. \A i \in new : i \in Nat /\ i < bfirst[b] + 2 * BatchSize
        BY IdsAreNat DEF BatchIds
      <4>3. new \subseteq Ids
        BY DEF BatchIds
      <4> QED BY SMTT(40), <4>1, <4>2, <4>3, SizesAreNat
    <3>2. /\ sent' = sent \cup new /\ endSent' = endSent \cup new
          /\ bytesSent' = bytesSent + BatchSize * BatchBody
      BY Zenon, <2>3 DEF BatchWrite
    <3> HIDE DEF new
    <3>3. TWire'
      <4>1. BatchSize * BatchBody \in Nat
        BY SizesAreNat
      <4> QED BY <3>1, <3>2, <4>1 DEF Parts, TWire
    <3>4. TBatch'
      BY <2>3 DEF BatchWrite, BGoto, Parts, TBatch
    <3>5. Below'
      BY Zenon, <2>3, <3>1, <3>2 DEF BatchWrite, BGoto, Parts, TBatch, Below, table, doing, reading
    <3> QED BY Zenon, <2>3, <3>3, <3>4, <3>5, <1>PartsSame, <1>ReadSame DEF BatchWrite, Parts
  <2>4. CASE BatchWritten(b)
    <3>1. TBatch'
      BY <2>4 DEF BatchWritten, BGoto, Parts, TBatch
    <3>2. TEnv'
      BY <2>4 DEF BatchWritten, Parts, TEnv, env
    <3>3. Below'
      BY Zenon, <2>4, <1>BelowBatch DEF BatchWritten, table, doing, reading, wire
    <3> QED BY Zenon, <2>4, <3>1, <3>2, <3>3, <1>PartsSame, <1>ReadSame DEF BatchWritten, Parts
  <2>5. CASE BatchClose(b)
    <3>1. TBatch'
      BY <2>5 DEF BatchClose, BGoto, Parts, TBatch
    <3>2. TEnv'
      BY <2>5 DEF BatchClose, Parts, TEnv
    <3>3. Below'
      BY <2>5, <1>BelowBatch DEF BatchClose, table, doing, reading, wire
    <3> QED BY Zenon, <2>5, <3>1, <3>2, <3>3, <1>PartsSame, <1>ReadSame DEF BatchClose, Parts
  <2> QED BY Zenon, <2>1, <2>2, <1>TypeBatchOpen, <2>3, <2>4, <2>5 DEF BatchStep
\* Streams leave the map.
<1>TypeRemove.
      ASSUME Parts, NEW S \in SUBSET streams, Remove(S)
      PROVE  /\ streams' \subseteq Ids /\ ending' \subseteq Ids /\ active' \in Int
             /\ sendWindow' \in [Ids -> Int]
             /\ streams' \cup ending' \subseteq streams
  <2> USE <1>TypeRemove
  <2>1. S \in SUBSET Ids
    BY DEF Parts, TTable
  <2>2. Cardinality(S) \in Nat
    BY Zenon, <2>1, IdsFinite
  <2> QED BY <2>1, <2>2 DEF Remove, Parts, TTable, TPeer
\* A frame, or a handler's end, that takes the streams in S out of the map.
<1>TypeRemoval.
      ASSUME Parts, NEW S \in SUBSET streams, Remove(S), waiters' \subseteq Callers,
             TEnv', TSeen', UNCHANGED <<owner, nextID, connSendWindow, connGranted>>,
             UNCHANGED peer, UNCHANGED doing, UNCHANGED batching, UNCHANGED wire,
             UNCHANGED delivered, err' \in {"nil", "goaway", "exhausted", "closed"},
             rpc' \in {"read", "finish", "failing"}, rid' \in {rid, 0}
      PROVE  Parts'
  <2> USE <1>TypeRemoval
  <2>1. TTable'
    BY Zenon, <1>TypeRemove DEF Parts, TTable
  <2>2. TPeer'
    BY Zenon, <1>TypeRemove DEF Parts, TPeer, peer
  <2>3. TRead'
    BY Zenon, <1>TypeRemove DEF Parts, TRead
  <2>4. Below'
    BY <1>TypeRemove, <1>BelowSame DEF doing, wire
  <2> QED BY Zenon, <2>1, <2>2, <2>3, <2>4, <1>PartsSame DEF Parts
\* A frame of the server.
<1>TypeFrame. ASSUME Parts, ServerFrame
              PROVE  Parts'
  <2> USE <1>TypeFrame
  <2>1. ASSUME NEW i \in sent, OnStreamEnd(i) PROVE Parts'
    <3>1. /\ Remove({i}) /\ {i} \in SUBSET streams /\ waiters' \subseteq Callers
          /\ rpc' = "finish"
      BY <2>1 DEF OnStreamEnd, TakeStream
    <3>2. /\ UNCHANGED <<wmu, env>> /\ UNCHANGED <<owner, nextID, connSendWindow, connGranted>>
          /\ UNCHANGED peer /\ UNCHANGED doing /\ UNCHANGED batching /\ UNCHANGED wire
          /\ UNCHANGED <<err, rid, settingsSeen, delivered>>
      BY <2>1 DEF OnStreamEnd
    <3>3. err' \in {"nil", "goaway", "exhausted", "closed"}
      BY <3>2 DEF Parts, TTable
    <3>4. TEnv' /\ TSeen'
      BY Zenon, <3>2, <1>PartsSame
    <3> QED BY Zenon, <3>1, <3>2, <3>3, <3>4, <1>TypeRemoval
  <2>2. ASSUME NEW i \in sent \cup {0}, OnOwedWrite(i) PROVE Parts'
    <3>1. TRead'
      BY <2>2 DEF OnOwedWrite, Parts, TRead, TWire
    <3>2. Below'
      BY Zenon, <2>2, <1>BelowSame DEF OnOwedWrite, table, doing, wire
    <3> QED BY Zenon, <2>2, <3>1, <3>2, <1>PartsSame DEF OnOwedWrite, Parts
  <2>3. ASSUME NEW w \in Windows \cup {peerInitialWindow}, NEW m \in Limits \cup {peerMaxStreams},
                OnSettings(w, m)
         PROVE  Parts'
    <3>1. w \in Nat /\ m \in Nat
      BY Zenon, ConstantsAssumption DEF Parts, TPeer
    <3>2. TPeer'
      BY <2>3, <3>1 DEF OnSettings, MaxOf, Parts, TPeer
    <3>3. TRead' /\ waiters' \subseteq Callers
      BY Zenon, <2>3 DEF OnSettings, Parts, TRead
    <3>4. Below'
      BY Zenon, <2>3, <1>BelowSame DEF OnSettings, table, doing, wire
    <3> QED BY Zenon, <2>3, <3>2, <3>3, <3>4, <1>PartsSame DEF OnSettings, Parts
  <2>4. ASSUME NEW i \in sent \cup {0}, NEW inc \in Increments, OnWindowUpdate(i, inc)
         PROVE  Parts'
    <3>1. inc \in Nat
      BY Zenon, ConstantsAssumption
    <3>2. TPeer'
      BY <2>4, <3>1 DEF OnWindowUpdate, Parts, TPeer, TWire, peer
    <3>3. Below'
      BY Zenon, <2>4, <1>BelowSame DEF OnWindowUpdate, table, doing, reading, wire
    <3>4. waiters' \subseteq Callers
      BY Zenon, <2>4 DEF OnWindowUpdate
    <3> QED BY Zenon, <2>4, <3>2, <3>3, <3>4, <1>PartsSame, <1>ReadSame DEF OnWindowUpdate, Parts
  <2>5. ASSUME NEW last, OnGoAway(last) PROVE Parts'
    <3> DEFINE refused == {i \in streams : i > last}
    <3>1. /\ Remove(refused) /\ refused \in SUBSET streams /\ waiters' \subseteq Callers
          /\ rpc' \in {"read", "finish"}
          /\ UNCHANGED <<wmu, env>> /\ UNCHANGED <<owner, nextID, connSendWindow, connGranted>>
          /\ UNCHANGED peer /\ UNCHANGED doing /\ UNCHANGED batching /\ UNCHANGED wire
          /\ UNCHANGED <<rid, settingsSeen, delivered>>
      BY Zenon, <2>5 DEF OnGoAway, FailLocked
    <3>2. err' \in {"nil", "goaway", "exhausted", "closed"}
      BY Zenon, <2>5 DEF OnGoAway, FailLocked, Parts, TTable
    <3> HIDE DEF refused
    <3>3. TEnv' /\ TSeen'
      BY Zenon, <3>1, <1>PartsSame
    <3> QED BY Zenon, <3>1, <3>2, <3>3, <1>TypeRemoval
  <2>6. CASE ReadError
    <3>1. TRead'
      BY <2>6 DEF ReadError, Parts, TRead
    <3>2. Below'
      BY <2>6, <1>BelowSame DEF ReadError, table, doing, wire
    <3> QED BY Zenon, <2>6, <3>1, <3>2, <1>PartsSame DEF ReadError, Parts
  <2> QED BY Zenon, <2>1, <2>2, <2>3, <2>4, <2>5, <2>6 DEF ServerFrame
\* The reader by itself.
<1>TypeReader.
      ASSUME Parts, ReaderStep
      PROVE  Parts'
  <2> USE <1>TypeReader
  <2>1. CASE WriteControl
    <3>0. TSeen'
      BY <2>1, Zenon DEF WriteControl, TSeen
    <3>1. /\ UNCHANGED <<wmu, env>> /\ UNCHANGED <<owner, nextID, connSendWindow, connGranted>>
          /\ UNCHANGED peer /\ UNCHANGED doing /\ UNCHANGED batching /\ UNCHANGED wire
          /\ UNCHANGED <<err, delivered>> /\ rid' = 0
      BY Zenon, <2>1 DEF WriteControl
    <3>2. CASE TakeStream(rid)
      <4>1. /\ Remove({rid}) /\ {rid} \in SUBSET streams /\ waiters' \subseteq Callers
            /\ rpc' = "finish"
        BY <3>2 DEF TakeStream
      <4>2. err' \in {"nil", "goaway", "exhausted", "closed"}
        BY Zenon, <3>1 DEF Parts, TTable
      <4>3. TEnv'
        BY Zenon, <3>1, <1>PartsSame
      <4> QED BY <3>0, <3>1, <4>1, <4>2, <4>3, <1>TypeRemoval
    <3>3. CASE UNCHANGED <<streams, active, ending, waiters, sendWindow>> /\ rpc' \in {"read", "exit"}
      <4>1. TRead'
        BY Zenon, <3>1, <3>3 DEF Parts, TRead
      <4>2. Below'
        BY Zenon, <3>1, <3>3, <1>BelowSame DEF doing, wire
      <4> QED BY Zenon, <3>0, <3>1, <3>3, <4>1, <4>2, <1>PartsSame DEF Parts, table, windows
    <3> QED BY <2>1, <3>2, <3>3 DEF WriteControl
  <2>2. ASSUME NEW i \in ending, Finish(i) PROVE Parts'
    <3>0. TRead /\ TDo
      BY Zenon DEF Parts
    <3>1. TRead'
      BY SMTT(40), Z3T(40), <2>2, <3>0 DEF Finish, TRead
    <3>2. TDo'
      BY <2>2, <3>0 DEF Finish, TDo
    <3>3. Below'
      BY Zenon, <2>2, <1>BelowSame DEF Finish, table, wire
    <3> QED BY Zenon, <2>2, <3>1, <3>2, <3>3, <1>PartsSame DEF Finish, Parts
  <2>3. CASE ReaderClose
    <3>1. TRead' /\ TEnv'
      BY Zenon, <2>3 DEF ReaderClose, Parts, TRead, TEnv
    <3>2. Below'
      BY Zenon, <2>3, <1>BelowSame DEF ReaderClose, table, doing, wire
    <3> QED BY Zenon, <2>3, <3>1, <3>2, <1>PartsSame DEF ReaderClose, Parts
  <2>4. CASE ReaderFail
    <3>1. /\ Remove(streams) /\ waiters' \subseteq Callers /\ rpc' = "failing"
          /\ UNCHANGED <<wmu, env>> /\ UNCHANGED <<owner, nextID, connSendWindow, connGranted>>
          /\ UNCHANGED peer /\ UNCHANGED doing /\ UNCHANGED batching /\ UNCHANGED wire
          /\ UNCHANGED <<rid, settingsSeen, delivered>>
      BY Zenon, <2>4 DEF ReaderFail, FailLocked
    <3>2. err' \in {"nil", "goaway", "exhausted", "closed"}
      BY Zenon, <2>4 DEF ReaderFail, FailLocked, Parts, TTable
    <3>3. TEnv' /\ TSeen'
      BY SMTT(40), Z3T(40), <3>1, <1>PartsSame
    <3> QED BY Zenon, <3>1, <3>2, <3>3, <1>TypeRemoval
  <2>5. CASE ReaderStop
    <3>1. TSeen'
      BY <2>5, Zenon DEF ReaderStop, TSeen
    <3>2. TRead'
      BY Zenon, <2>5 DEF ReaderStop, Parts, TRead
    <3>3. Below'
      BY Zenon, <2>5, <1>BelowSame DEF ReaderStop, table, doing, wire
    <3> QED BY <2>5, <3>1, <3>2, <3>3, <1>PartsSame DEF ReaderStop, Parts
  <2> QED BY Zenon, <2>1, <2>2, <2>3, <2>4, <2>5 DEF ReaderStep
<1>TypeStep. TypeOK /\ Shape /\ [Next]_vars => TypeOK' /\ Shape'
  <2>0. Parts' <=> TypeOK' /\ Shape'
    BY <1>PartsAre, PTL
  <2> SUFFICES ASSUME Parts, [Next]_vars PROVE Parts'
    BY Zenon, <1>PartsAre, <2>0
  <2>1. CASE CloseConn \/ NetBreak
    <3>1. TEnv'
      BY Zenon, <2>1 DEF CloseConn, NetBreak, Parts, TEnv
    <3>2. Below'
      BY Zenon, <2>1, <1>BelowSame DEF CloseConn, NetBreak, table, doing, reading, wire
    <3> QED BY Zenon, <2>1, <3>1, <3>2, <1>PartsSame, <1>ReadSame DEF CloseConn, NetBreak, Parts
  <2>2. CASE UNCHANGED vars
    <3>1. Below'
      BY Zenon, <2>2, <1>BelowSame DEF vars, table, doing, reading, wire
    <3> QED BY Zenon, <2>2, <3>1, <1>PartsSame, <1>ReadSame DEF vars, Parts
  <2>3. CASE \E c \in Callers : DoStep(c) \/ \E n \in Bodies : DoCall(c, n)
    BY <2>3, <1>TypeDoWrite, <1>TypeDoBody DEF DoStep
  <2> QED BY <2>1, <2>2, <2>3, <1>TypeBatch, <1>TypeFrame, <1>TypeReader DEF Next
<1> QED BY <1>TypeInit, <1>TypeStep, PTL DEF Spec

---------------------------------------------------------------------------
(***************************************************************************)
(* The limits the server has set.                                          *)
(***************************************************************************)

\* The limit now is one the server has set, and active keeps within the highest.
LimitKept == peerMaxStreams <= hiLimit /\ active <= hiLimit

\* Do and WriteBatch between them never have more streams, open or about to be,
\* than the highest limit the server has set.
THEOREM LimitsKept == Spec => []WithinLimit
\* All that the limits rest on.
<1>LimitTypes.
      ASSUME TypeOK
      PROVE  active \in Int /\ peerMaxStreams \in Nat /\ hiLimit \in Nat
  BY <1>LimitTypes DEF TypeOK
\* Neither active nor a limit changes.
<1>LimitQuiet.
      ASSUME LimitKept, UNCHANGED <<peer, active>>
      PROVE  LimitKept'
  BY <1>LimitQuiet DEF LimitKept, peer
\* The limits stay, and active does not grow or is within them.
<1>LimitSame. ASSUME TypeOK, LimitKept, UNCHANGED peer,
                     active' \in Int, active' <= active \/ active' <= peerMaxStreams
              PROVE  LimitKept'
  BY <1>LimitSame, <1>LimitTypes DEF LimitKept, peer
\* Streams leave the map.
<1>LimitRemove.
      ASSUME TypeOK, LimitKept, UNCHANGED peer, NEW S \in SUBSET streams, Remove(S)
      PROVE  LimitKept'
  <2> USE <1>LimitRemove
  <2>1. S \in SUBSET Ids
    BY DEF TypeOK
  <2>2. Cardinality(S) \in Nat
    BY <2>1, IdsFinite
  <2>3. active' = active - Cardinality(S)
    BY DEF Remove
  <2> QED BY SMTT(40), Z3T(40), <2>2, <2>3, <1>LimitTypes, <1>LimitSame
\* A frame of the server.
<1>LimitFrame.
      ASSUME TypeOK, LimitKept, ServerFrame
      PROVE  LimitKept'
  <2> USE <1>LimitFrame
  <2>1. ASSUME NEW w, NEW m \in Limits \cup {peerMaxStreams}, OnSettings(w, m) PROVE LimitKept'
    <3>1. m \in Nat
      BY Zenon, <1>LimitTypes, ConstantsAssumption
    <3>2. peerMaxStreams' = m /\ hiLimit' = MaxOf(hiLimit, m) /\ active' = active
      BY <2>1 DEF OnSettings, table
    <3> QED BY <3>1, <3>2, <1>LimitTypes DEF MaxOf, LimitKept
  <2>2. ASSUME NEW i \in sent, OnStreamEnd(i) PROVE LimitKept'
    <3>1. Remove({i}) /\ {i} \in SUBSET streams /\ UNCHANGED peer
      BY <2>2 DEF OnStreamEnd, TakeStream
    <3> QED BY Zenon, <3>1, <1>LimitRemove
  <2>3. ASSUME NEW last, OnGoAway(last) PROVE LimitKept'
    <3> DEFINE refused == {i \in streams : i > last}
    <3>1. Remove(refused) /\ refused \in SUBSET streams /\ UNCHANGED peer
      BY Zenon, <2>3 DEF OnGoAway
    <3> HIDE DEF refused
    <3> QED BY Zenon, <3>1, <1>LimitRemove
  <2>4. ASSUME NEW i, OnOwedWrite(i) PROVE LimitKept'
    BY Zenon, <2>4, <1>LimitQuiet DEF OnOwedWrite, table
  <2>5. ASSUME NEW i, NEW inc, OnWindowUpdate(i, inc) PROVE LimitKept'
    BY <2>5, <1>LimitQuiet DEF OnWindowUpdate, table
  <2>6. CASE ReadError
    BY <2>6, <1>LimitQuiet DEF ReadError, table
  <2> QED BY Zenon, <2>1, <2>2, <2>3, <2>4, <2>5, <2>6 DEF ServerFrame
\* The reader by itself.
<1>LimitReader.
      ASSUME TypeOK, LimitKept, ReaderStep
      PROVE  LimitKept'
  <2> USE <1>LimitReader
  <2>1. CASE WriteControl
    <3>1. UNCHANGED peer /\ (TakeStream(rid) \/ UNCHANGED active)
      BY <2>1 DEF WriteControl
    <3>2. CASE TakeStream(rid)
      <4>1. Remove({rid}) /\ {rid} \in SUBSET streams
        BY <3>2 DEF TakeStream
      <4> QED BY <3>1, <4>1, <1>LimitRemove
    <3> QED BY Zenon, <3>1, <3>2, <1>LimitQuiet
  <2>2. CASE ReaderFail
    <3>1. Remove(streams) /\ UNCHANGED peer
      BY Zenon, <2>2 DEF ReaderFail
    <3> QED BY <3>1, <1>LimitRemove
  <2>3. CASE ReaderClose \/ ReaderStop
    BY Zenon, <2>3, <1>LimitQuiet DEF ReaderClose, ReaderStop, table
  <2>4. ASSUME NEW i, Finish(i) PROVE LimitKept'
    BY Zenon, <2>4, <1>LimitQuiet DEF Finish, table
  <2> QED BY <2>1, <2>2, <2>3, <2>4 DEF ReaderStep
\* The steps of Do.
<1>LimitDo. ASSUME TypeOK, LimitKept, NEW c \in Callers, DoStep(c)
            PROVE  LimitKept'
  <2> USE <1>LimitDo
  <2>1. CASE DoSlot(c)
    <3>1. UNCHANGED peer /\ (UNCHANGED active \/ (active' = active + 1 /\ SlotFree))
      BY <2>1 DEF DoSlot
    <3> QED BY SMTT(40), Z3T(40), <3>1, <1>LimitQuiet, <1>LimitSame, <1>LimitTypes DEF SlotFree
  <2>2. CASE OpenFail(c)
    <3>1. UNCHANGED peer /\ active' = active - 1
      BY SMTT(40), Z3T(40), <2>2 DEF OpenFail
    <3> QED BY SMTT(40), <3>1, <1>LimitSame, <1>LimitTypes
  <2>3. CASE OpenStream(c)
    BY <2>3, <1>LimitQuiet DEF OpenStream
  <2>4. CASE StreamWrite(c) \/ StreamWritten(c) \/ WriteFail(c)
    BY Zenon, <2>4, <1>LimitQuiet DEF StreamWrite, StreamWritten, WriteFail, table
  <2>5. CASE DoBody(c) \/ DataWrite(c)
    BY Zenon, <2>5, <1>LimitQuiet DEF DoBody, DataWrite, table
  <2>6. CASE DoClose(c) \/ DoReturn(c)
    BY <2>6, <1>LimitQuiet DEF DoClose, DoReturn, table
  <2> QED BY Zenon, <2>1, <2>2, <2>3, <2>4, <2>5, <2>6 DEF DoStep
\* WriteBatch.
<1>LimitBatch.
      ASSUME TypeOK, LimitKept, NEW b \in Batchers, BatchReserve(b) \/ BatchStep(b)
      PROVE  LimitKept'
  <2> USE <1>LimitBatch
  <2>1. CASE BatchReserve(b)
    <3>1. UNCHANGED peer /\ active' = active + BatchSize /\ BatchRoom
      BY <2>1 DEF BatchReserve
    <3> QED BY SMTT(40), Z3T(40), <3>1, <1>LimitSame, <1>LimitTypes, SizesAreNat DEF BatchRoom
  <2>2. CASE BatchFail(b)
    <3>1. UNCHANGED peer /\ active' = active - BatchSize
      BY <2>2 DEF BatchFail
    <3> QED BY SMTT(40), <3>1, <1>LimitSame, <1>LimitTypes, SizesAreNat
  <2>3. CASE BatchOpen(b) \/ BatchWrite(b)
    BY Zenon, <2>3, <1>LimitQuiet DEF BatchOpen, BatchWrite, table
  <2>4. CASE BatchWritten(b) \/ BatchClose(b)
    BY Zenon, <2>4, <1>LimitQuiet DEF BatchWritten, BatchClose, table
  <2> QED BY <2>1, <2>2, <2>3, <2>4 DEF BatchStep
<1>LimitStep. ASSUME TypeOK, LimitKept, [Next]_vars
              PROVE  LimitKept'
  <2> USE <1>LimitStep
  <2>1. ASSUME NEW c \in Callers, NEW n \in Bodies, DoCall(c, n) PROVE LimitKept'
    BY Zenon, <2>1, <1>LimitQuiet DEF DoCall, table
  <2>2. CASE CloseConn \/ NetBreak \/ UNCHANGED vars
    BY Zenon, <2>2, <1>LimitQuiet DEF CloseConn, NetBreak, vars, table
  <2> QED BY Zenon, <2>1, <2>2, <1>LimitFrame, <1>LimitReader, <1>LimitDo, <1>LimitBatch DEF Next
<1>1. Init => LimitKept
  BY ConstantsAssumption DEF Init, LimitKept
<1>2. TypeOK /\ LimitKept /\ [Next]_vars => LimitKept'
  BY <1>LimitStep
<1>3. LimitKept => WithinLimit
  BY DEF LimitKept, WithinLimit
<1> QED BY <1>1, <1>2, <1>3, TypeCorrect, PTL DEF Spec

---------------------------------------------------------------------------
(***************************************************************************)
(* What a step leaves alone.                                               *)
(***************************************************************************)

\* A step of Do moves no other Do and no WriteBatch, and grants no window.
LEMMA DoAlone ==
  ASSUME TypeOK, NEW c \in Callers, DoStep(c) \/ \E n \in Bodies : DoCall(c, n)
  PROVE  /\ \A d \in Callers \ {c} : /\ pc'[d] = pc[d] /\ sid'[d] = sid[d]
                                     /\ left'[d] = left[d] /\ took'[d] = took[d]
         /\ UNCHANGED <<connGranted, bpc, bfirst>>
<1>0. /\ pc \in [Callers -> {"idle", "slot", "open"} \cup Opened]
      /\ sid \in [Callers -> Ids \cup {0}]
      /\ left \in [Callers -> Nat] /\ took \in [Callers -> Nat]
  BY DEF TypeOK
<1>1. CASE \/ \E n \in Bodies : DoCall(c, n)
           \/ DoSlot(c) \/ OpenFail(c) \/ OpenStream(c)
  BY ZenonT(40), <1>0, <1>1 DEF DoCall, DoSlot, OpenFail, OpenStream, Goto, windows, batching
<1>2. CASE StreamWrite(c) \/ StreamWritten(c) \/ WriteFail(c)
  BY Zenon, <1>0, <1>2 DEF StreamWrite, StreamWritten, WriteFail, BodySent, Goto, windows, batching
<1>3. CASE DoBody(c)
  BY <1>0, <1>3 DEF DoBody, Goto, batching
<1>4. CASE DataWrite(c) \/ DoClose(c) \/ DoReturn(c)
  BY Zenon, <1>0, <1>4 DEF DataWrite, DoClose, DoReturn, BodySent, Goto, windows, batching
<1> QED BY ZenonT(40), <1>1, <1>2, <1>3, <1>4 DEF DoStep

\* The reader, the network and Close write no HEADERS.
LEMMA Offstage ==
  ASSUME ServerFrame \/ ReaderStep \/ CloseConn \/ NetBreak \/ UNCHANGED vars
  PROVE  /\ UNCHANGED <<wmu, nextID, owner, pc, sid, left, took>>
         /\ UNCHANGED batching /\ UNCHANGED wire
<1>1. CASE ServerFrame
  <2>1. ASSUME NEW i, NEW inc, OnStreamEnd(i) \/ OnOwedWrite(i) \/ OnWindowUpdate(i, inc)
        PROVE  /\ UNCHANGED <<wmu, nextID, owner, pc, sid, left, took>>
               /\ UNCHANGED batching /\ UNCHANGED wire
    BY Zenon, <2>1 DEF OnStreamEnd, OnOwedWrite, OnWindowUpdate, table, doing
  <2>2. ASSUME NEW w, NEW m, NEW last, OnSettings(w, m) \/ OnGoAway(last) \/ ReadError
        PROVE  /\ UNCHANGED <<wmu, nextID, owner, pc, sid, left, took>>
               /\ UNCHANGED batching /\ UNCHANGED wire
    BY Zenon, <2>2 DEF OnSettings, OnGoAway, ReadError, table, doing
  <2> QED BY <1>1, <2>1, <2>2 DEF ServerFrame
<1>2. CASE ReaderStep
  <2>1. ASSUME NEW i, Finish(i)
        PROVE  /\ UNCHANGED <<wmu, nextID, owner, pc, sid, left, took>>
               /\ UNCHANGED batching /\ UNCHANGED wire
    BY Zenon, <2>1 DEF Finish, table
  <2>2. CASE WriteControl \/ ReaderClose \/ ReaderFail \/ ReaderStop
    BY Zenon, <2>2 DEF WriteControl, ReaderClose, ReaderFail, ReaderStop, table, doing
  <2> QED BY <1>2, <2>1, <2>2 DEF ReaderStep
<1>3. CASE CloseConn \/ NetBreak \/ UNCHANGED vars
  BY Zenon, <1>3 DEF CloseConn, NetBreak, vars, table, doing
<1> QED BY SMTT(40), Z3T(40), <1>1, <1>2, <1>3

---------------------------------------------------------------------------
(***************************************************************************)
(* What reaches the socket: the order of the streams and the end of a      *)
(* body.                                                                   *)
(***************************************************************************)

\* Only who holds wmu has streams to write, and all it writes is new to the server.
LEMMA WriterInvariant == Spec => []WriterShape
<1>Apart. /\ \A c \in Callers, b \in Batchers : c # b
          /\ NoOne \notin Callers /\ NoOne \notin Batchers
  BY Zenon, ConstantsAssumption
\* Nobody takes or gives up wmu, or writes HEADERS.
<1>WriterQuiet.
      ASSUME WriterShape, UNCHANGED <<wmu, sid, sent, bfirst>>,
             \A c \in Callers : \A l \in {"write", "wrote"} : (pc'[c] = l) <=> (pc[c] = l),
             \A b \in Batchers : \A l \in {"write", "wrote"} : (bpc'[b] = l) <=> (bpc[b] = l)
      PROVE  WriterShape'
  BY Zenon, <1>WriterQuiet DEF WriterShape
\* Nobody is writing while wmu is free.
<1>NobodyWrites.
      ASSUME WriterShape, wmu = NoOne
      PROVE  /\ \A c \in Callers : pc[c] \notin {"write", "wrote"}
             /\ \A b \in Batchers : bpc[b] \notin {"write", "wrote"}
  BY Zenon, <1>NobodyWrites, <1>Apart DEF WriterShape
\* A Do that is writing holds wmu, and is alone in it; ...
<1>DoHolds. ASSUME WriterShape, NEW c \in Callers, pc[c] \in {"write", "wrote"}
            PROVE  /\ wmu = c
                   /\ \A d \in Callers : d # c => pc[d] \notin {"write", "wrote"}
                   /\ \A b \in Batchers : bpc[b] \notin {"write", "wrote"}
  BY Zenon, <1>DoHolds, <1>Apart DEF WriterShape
\* ... and so is a WriteBatch.
<1>BatchHolds.
      ASSUME WriterShape, NEW b \in Batchers, bpc[b] \in {"write", "wrote"}
      PROVE  /\ wmu = b
             /\ \A c \in Callers : pc[c] \notin {"write", "wrote"}
             /\ \A d \in Batchers : d # b => bpc[d] \notin {"write", "wrote"}
  BY Zenon, <1>BatchHolds, <1>Apart DEF WriterShape
\* The steps of Do.
<1>WriterDo. ASSUME TypeOK, Shape, WriterShape, NEW c \in Callers, DoStep(c)
             PROVE  WriterShape'
  <2> USE <1>WriterDo
  <2>0. /\ pc \in [Callers -> {"idle", "slot", "open"} \cup Opened]
        /\ sid \in [Callers -> Ids \cup {0}]
    BY DEF TypeOK
  <2>1. CASE OpenStream(c)
    <3>1. /\ wmu = NoOne /\ wmu' = c /\ sid' = [sid EXCEPT ![c] = nextID]
          /\ pc' = [pc EXCEPT ![c] = "write"]
          /\ UNCHANGED <<bpc, bfirst, sent>>
      BY <2>1 DEF OpenStream, LockWrites, Goto, batching, wire
    <3>2. \A i \in sent : i < nextID
      BY Zenon DEF Shape
    <3> QED BY ZenonT(40), <2>0, <3>1, <3>2, <1>NobodyWrites, <1>Apart DEF WriterShape
  <2>2. CASE StreamWrite(c)
    <3>1. /\ pc[c] = "write" /\ pc' = [pc EXCEPT ![c] = "wrote"]
          /\ sent' = sent \cup {sid[c]} /\ UNCHANGED <<wmu, sid, bpc, bfirst>>
      BY <2>2 DEF StreamWrite, Goto, batching
    <3> QED BY ZenonT(40), <2>0, <3>1, <1>DoHolds, <1>Apart DEF WriterShape
  <2>3. CASE StreamWritten(c) \/ (WriteFail(c) /\ pc[c] # "data")
    <3>1. /\ pc[c] \in {"write", "wrote"} /\ wmu' = NoOne /\ UNCHANGED <<sent, sid, bpc, bfirst>>
          /\ \E l \in {"await", "body", "close"} : pc' = [pc EXCEPT ![c] = l]
      BY <2>3 DEF StreamWritten, BodySent, WriteFail, Goto, batching, wire
    <3> QED BY ZenonT(40), <2>0, <3>1, <1>DoHolds, <1>Apart DEF WriterShape
  <2>4. CASE DoReturn(c)
    <3>1. /\ pc[c] = "await" /\ pc' = [pc EXCEPT ![c] = "idle"]
          /\ sid' = [sid EXCEPT ![c] = 0] /\ UNCHANGED <<wmu, sent, bpc, bfirst>>
      BY <2>4 DEF DoReturn, Goto, batching, wire
    <3> QED BY Zenon, <2>0, <3>1 DEF WriterShape
  <2>5. CASE \/ DoSlot(c) \/ OpenFail(c) \/ DoBody(c) \/ DataWrite(c) \/ DoClose(c)
             \/ WriteFail(c) /\ pc[c] = "data"
    <3>1. UNCHANGED <<wmu, sid, sent>>
      BY Zenon, <2>5 DEF DoSlot, OpenFail, DoBody, DataWrite, DoClose, WriteFail, wire
    <3>2. pc[c] \notin {"write", "wrote"} /\ pc'[c] \notin {"write", "wrote"}
      BY Zenon, <2>0, <2>5 DEF DoSlot, OpenFail, DoBody, DataWrite, BodySent, DoClose, WriteFail, Goto
    <3> QED BY Zenon, <3>1, <3>2, DoAlone, <1>WriterQuiet
  <2> QED BY SMTT(40), Z3T(40), <2>1, <2>2, <2>3, <2>4, <2>5 DEF DoStep
\* WriteBatch.
<1>WriterBatch.
      ASSUME TypeOK, Shape, WriterShape, NEW b \in Batchers, BatchReserve(b) \/ BatchStep(b)
      PROVE  WriterShape'
  <2> USE <1>WriterBatch
  <2>0. /\ bpc \in [Batchers -> {"idle", "open", "write", "wrote", "close"}]
        /\ bfirst \in [Batchers -> Ids \cup {0}]
    BY DEF TypeOK
  <2>1. CASE BatchOpen(b)
    <3>1. /\ wmu = NoOne /\ wmu' = b /\ bfirst' = [bfirst EXCEPT ![b] = nextID]
          /\ bpc' = [bpc EXCEPT ![b] = "write"]
          /\ UNCHANGED <<pc, sid, sent>>
      BY Zenon, <2>1 DEF BatchOpen, LockWrites, BGoto, doing, wire
    <3>2. \A i \in sent : i < nextID
      BY Zenon DEF Shape
    <3> QED BY Zenon, <2>0, <3>1, <3>2, <1>NobodyWrites, <1>Apart DEF WriterShape
  <2>2. CASE BatchWrite(b)
    <3>1. /\ bpc[b] = "write" /\ bpc' = [bpc EXCEPT ![b] = "wrote"]
          /\ UNCHANGED <<wmu, pc, sid, bfirst>>
      BY <2>2 DEF BatchWrite, BGoto, doing
    <3> QED BY Zenon, <2>0, <3>1, <1>BatchHolds, <1>Apart DEF WriterShape
  <2>3. CASE BatchWritten(b)
    <3>1. /\ bpc[b] \in {"write", "wrote"} /\ wmu' = NoOne
          /\ \E l \in {"idle", "close"} : bpc' = [bpc EXCEPT ![b] = l]
          /\ UNCHANGED <<pc, sid, sent, bfirst>>
      BY <2>3 DEF BatchWritten, BGoto, doing, wire
    <3> QED BY ZenonT(40), <2>0, <3>1, <1>BatchHolds, <1>Apart DEF WriterShape
  <2>4. CASE BatchReserve(b) \/ BatchFail(b) \/ BatchClose(b)
    <3>1. UNCHANGED <<wmu, pc, sid, sent, bfirst>>
      BY Zenon, <2>4 DEF BatchReserve, BatchFail, BatchClose, doing, wire
    <3>2. /\ bpc[b] \notin {"write", "wrote"}
          /\ \E l \in {"idle", "open"} : bpc' = [bpc EXCEPT ![b] = l]
      BY Zenon, <2>4 DEF BatchReserve, BatchFail, BatchClose, BGoto
    <3> QED BY <2>0, <3>1, <3>2, <1>WriterQuiet
  <2> QED BY ZenonT(40), <2>1, <2>2, <2>3, <2>4 DEF BatchStep
<1>WriterStep.
      ASSUME TypeOK, Shape, WriterShape, [Next]_vars
      PROVE  WriterShape'
  <2> USE <1>WriterStep
  <2>1. CASE ServerFrame \/ ReaderStep \/ CloseConn \/ NetBreak \/ UNCHANGED vars
    <3>1. UNCHANGED <<wmu, sid, sent, bfirst, pc, bpc>>
      BY Zenon, <2>1, Offstage DEF batching, wire
    <3> QED BY Zenon, <3>1, <1>WriterQuiet
  <2>2. ASSUME NEW c \in Callers, NEW n \in Bodies, DoCall(c, n) PROVE WriterShape'
    <3>1. /\ UNCHANGED <<wmu, sid, sent, bfirst, bpc>>
          /\ pc[c] = "idle" /\ pc' = [pc EXCEPT ![c] = "slot"]
      BY Zenon, <2>2 DEF DoCall, Goto, batching, wire
    <3>2. pc \in [Callers -> {"idle", "slot", "open"} \cup Opened]
      BY Zenon DEF TypeOK
    <3> QED BY Zenon, <3>1, <3>2, <1>WriterQuiet
  <2> QED BY Zenon, <2>1, <2>2, <1>WriterDo, <1>WriterBatch DEF Next
<1>1. Init => WriterShape
  BY <1>Apart DEF Init, WriterShape
<1>2. TypeOK /\ Shape /\ WriterShape /\ [Next]_vars => WriterShape'
  BY <1>WriterStep
<1> QED BY <1>1, <1>2, TypeCorrect, PTL DEF Spec

\* The identifiers a server sees only increase, whoever writes: numbering and the write
\* that follows it are one section of wmu.
THEOREM IDsIncrease == Spec => IncreasingIDs
\* What a step sends, if it sends HEADERS.
<1>SendsWhat. ASSUME [Next]_vars
              PROVE  \/ UNCHANGED <<sent, endSent>>
                     \/ \E c \in Callers : StreamWrite(c) \/ DataWrite(c)
                     \/ \E b \in Batchers : BatchWrite(b)
  <2> USE <1>SendsWhat
  <2>1. ASSUME NEW c \in Callers, DoStep(c), ~StreamWrite(c), ~DataWrite(c)
        PROVE  UNCHANGED <<sent, endSent>>
    BY <2>1, Zenon DEF DoStep, DoSlot, OpenFail, OpenStream, StreamWritten, WriteFail, DoBody,
                       DoClose, DoReturn, wire
  <2>2. ASSUME NEW b \in Batchers, BatchReserve(b) \/ BatchStep(b), ~BatchWrite(b)
        PROVE  UNCHANGED <<sent, endSent>>
    BY <2>2, Zenon DEF BatchReserve, BatchStep, BatchFail, BatchOpen, BatchWritten, BatchClose, wire
  <2>3. ASSUME NEW c, NEW n, DoCall(c, n) PROVE UNCHANGED <<sent, endSent>>
    BY <2>3, Zenon DEF DoCall, wire
  <2>4. ASSUME ServerFrame \/ ReaderStep \/ CloseConn \/ NetBreak \/ UNCHANGED vars
        PROVE  UNCHANGED <<sent, endSent>>
    BY Zenon, <2>4, Offstage DEF wire
  <2> QED BY <2>1, <2>2, <2>3, <2>4 DEF Next
<1> DEFINE Higher == \A i \in sent' \ sent, j \in sent : j < i
<1>1. ASSUME TypeOK, WriterShape, [Next]_vars PROVE Higher
  <2>1. CASE UNCHANGED sent
    BY Zenon, <2>1
  <2>2. ASSUME NEW c \in Callers, StreamWrite(c) PROVE Higher
    BY Zenon, <1>1, <2>2 DEF StreamWrite, WriterShape
  <2>3. ASSUME NEW c \in Callers, DataWrite(c) PROVE Higher
    BY <2>3 DEF DataWrite
  <2>4. ASSUME NEW b \in Batchers, BatchWrite(b) PROVE Higher
    <3>1. sent' = sent \cup BatchIds(bfirst[b]) /\ \A j \in sent : j < bfirst[b]
      BY <1>1, <2>4 DEF BatchWrite, WriterShape
    <3>2. \A i \in BatchIds(bfirst[b]) : i \in Nat /\ bfirst[b] <= i
      BY Zenon, IdsAreNat DEF BatchIds
    <3>3. bfirst[b] \in Nat /\ \A j \in sent : j \in Nat
      BY <1>1, IdsAreNat DEF TypeOK
    <3>4. ASSUME NEW i \in sent' \ sent, NEW j \in sent PROVE j < i
      <4>1. i \in Nat /\ bfirst[b] <= i /\ j < bfirst[b] /\ bfirst[b] \in Nat /\ j \in Nat
        BY Zenon, <3>1, <3>2, <3>3, <3>4
      <4> QED BY <4>1
    <3> QED BY Zenon, <3>4
  <2> QED BY <1>1, <2>1, <2>2, <2>3, <2>4, <1>SendsWhat
<1>2. TypeOK /\ WriterShape /\ [Next]_vars => [Higher]_vars
  BY <1>1
<1> QED BY <1>2, TypeCorrect, WriterInvariant, PTL DEF Spec, IncreasingIDs

---------------------------------------------------------------------------

\* A Do that is at its body has its stream to itself, on the socket once written, and
\* ends it with the last byte of the body.
BodyOf(c) ==
  /\ pc[c] \in {"write", "wrote", "body", "data"} => sid[c] \in Ids /\ owner[sid[c]] = c
  /\ pc[c] \in {"wrote", "body", "data"} => sid[c] \in sent
  /\ pc[c] = "wrote" /\ took[c] # left[c] => sid[c] \notin endSent
  /\ pc[c] \in {"body", "data"} => left[c] > 0 /\ sid[c] \notin endSent

BodyShape == endSent \subseteq sent /\ \A c \in Callers : BodyOf(c)

\* A body ends once and with its last byte, whatever windows it was cut to and whoever
\* else writes.
THEOREM BodiesEnd == Spec => []EndsOnce
\* A step that is not a caller's, and ends no stream of it, leaves its part alone.
<1>BodyOther. ASSUME Shape, TypeOK, NEW d \in Callers, BodyOf(d),
                     pc'[d] = pc[d], sid'[d] = sid[d], left'[d] = left[d], took'[d] = took[d],
                     \A i \in Ids : i < nextID => owner'[i] = owner[i],
                     sent \subseteq sent',
                     pc[d] \in {"wrote", "body", "data"} /\ sid[d] \in endSent' => sid[d] \in endSent
              PROVE  BodyOf(d)'
  <2> USE <1>BodyOther
  <2>1. sid[d] < nextID
    BY Zenon DEF Shape
  <2> QED BY Zenon, <2>1 DEF BodyOf
\* A WriteBatch, numbering or writing, touches no stream of a Do.
<1>BodyBatch. ASSUME TypeOK, Shape, WriterShape, BodyShape, NEW b \in Batchers,
                     BatchReserve(b) \/ BatchStep(b)
              PROVE  BodyShape'
  <2> USE <1>BodyBatch
  <2>1. UNCHANGED <<pc, sid, left, took>>
    BY Zenon DEF BatchReserve, BatchStep, BatchFail, BatchOpen, BatchWrite, BatchWritten,
                 BatchClose, doing
  <2>2. \A i \in Ids : i < nextID => owner'[i] = owner[i]
    <3>1. CASE BatchOpen(b)
      <4>1. \A i \in Ids : i < nextID => i \notin BatchIds(nextID)
        <5>1. \A i \in Ids : i \in Nat
          BY Zenon, IdsAreNat
        <5>2. nextID \in Nat
          BY DEF TypeOK
        <5> QED BY <5>1, <5>2 DEF BatchIds
      <4> QED BY Zenon, <3>1, <4>1 DEF BatchOpen
    <3>2. CASE ~BatchOpen(b)
      <4>1. owner' = owner
        BY Zenon, <3>2 DEF BatchReserve, BatchStep, BatchFail, BatchWrite, BatchWritten,
                           BatchClose, table
      <4> QED BY <4>1
    <3> QED BY Zenon, <3>1, <3>2
  <2>3. CASE BatchWrite(b)
    <3>1. /\ sent' = sent \cup BatchIds(bfirst[b]) /\ endSent' = endSent \cup BatchIds(bfirst[b])
          /\ \A i \in sent : i < bfirst[b]
      BY Zenon, <2>3 DEF BatchWrite, WriterShape
    <3>2. \A i \in sent : i \notin BatchIds(bfirst[b])
      <4>1. bfirst[b] \in Nat /\ \A i \in sent : i \in Nat
        BY SMTT(40), IdsAreNat DEF TypeOK
      <4>2. ASSUME NEW i \in sent, i \in BatchIds(bfirst[b]) PROVE FALSE
        <5>1. i \in Nat /\ bfirst[b] \in Nat /\ i < bfirst[b] /\ bfirst[b] <= i
          BY Zenon, <3>1, <4>1, <4>2 DEF BatchIds
        <5> QED BY <5>1
      <4> QED BY Zenon, <4>2
    <3>3. ASSUME NEW d \in Callers PROVE BodyOf(d)'
      <4>1. BodyOf(d)
        BY DEF BodyShape
      <4>2. pc[d] \in {"wrote", "body", "data"} /\ sid[d] \in endSent' => sid[d] \in endSent
        BY Zenon, <3>1, <3>2, <4>1 DEF BodyOf
      <4> QED BY Zenon, <2>1, <2>2, <3>1, <4>1, <4>2, <1>BodyOther
    <3>4. endSent' \subseteq sent'
      BY <3>1 DEF BodyShape
    <3> QED BY Zenon, <3>3, <3>4 DEF BodyShape
  <2>4. CASE ~BatchWrite(b)
    <3>1. UNCHANGED <<sent, endSent>>
      BY Zenon, <2>4 DEF BatchReserve, BatchStep, BatchFail, BatchOpen, BatchWritten, BatchClose,
                         wire
    <3>2. ASSUME NEW d \in Callers PROVE BodyOf(d)'
      <4>1. BodyOf(d)
        BY DEF BodyShape
      <4> QED BY Zenon, <2>1, <2>2, <3>1, <4>1, <1>BodyOther
    <3> QED BY <3>1, <3>2 DEF BodyShape
  <2> QED BY <2>3, <2>4
\* A Do moves, and the others' streams are not its own.
<1>BodyDo. ASSUME TypeOK, Shape, WriterShape, BodyShape, NEW c \in Callers,
                  DoStep(c) \/ \E n \in Bodies : DoCall(c, n)
           PROVE  BodyShape'
  <2> USE <1>BodyDo
  <2>0. /\ pc \in [Callers -> {"idle", "slot", "open"} \cup Opened]
        /\ sid \in [Callers -> Ids \cup {0}]
        /\ left \in [Callers -> Nat] /\ took \in [Callers -> Nat]
        /\ owner \in [Ids -> Callers \cup Batchers \cup {NoOne}] /\ sent \subseteq Ids
    BY DEF TypeOK
  <2>a. \A d \in Callers : BodyOf(d)
    BY DEF BodyShape
  <2>1. ASSUME NEW d \in Callers, d # c PROVE BodyOf(d)'
    <3>1. pc'[d] = pc[d] /\ sid'[d] = sid[d] /\ left'[d] = left[d] /\ took'[d] = took[d]
      BY Zenon, <2>1, DoAlone
    <3>2. \A i \in Ids : i < nextID => owner'[i] = owner[i]
      <4>1. CASE OpenStream(c)
        <5>1. owner' = [owner EXCEPT ![nextID] = c] /\ nextID \in Nat
          BY Zenon, <4>1 DEF OpenStream, TypeOK
        <5>2. \A i \in Ids : i \in Nat
          BY IdsAreNat
        <5> QED BY <2>0, <5>1, <5>2
      <4>2. CASE ~OpenStream(c)
        <5>1. owner' = owner
          BY Zenon, <4>2 DEF DoStep, DoCall, DoSlot, OpenFail, StreamWrite, StreamWritten, WriteFail,
                             DoBody, DataWrite, DoClose, DoReturn, table
        <5> QED BY <5>1
      <4> QED BY Zenon, <4>1, <4>2
    <3>3. /\ sent \subseteq sent'
          /\ pc[d] \in {"wrote", "body", "data"} /\ sid[d] \in endSent' => sid[d] \in endSent
      <4>1. CASE StreamWrite(c)
        <5>1. sent' = sent \cup {sid[c]} /\ endSent' \subseteq endSent \cup {sid[c]}
          BY Zenon, <4>1 DEF StreamWrite, SendBody
        <5>2. \A i \in sent : i # sid[c]
          <6>1. \A i \in sent : i < sid[c]
            BY Zenon, <4>1 DEF StreamWrite, WriterShape
          <6>2. sid[c] \in Nat /\ \A i \in sent : i \in Nat
            BY <2>0, IdsAreNat
          <6> QED BY <6>1, <6>2
        <5> QED BY Zenon, <2>a, <5>1, <5>2 DEF BodyOf
      <4>2. CASE DataWrite(c)
        <5>1. sent' = sent /\ endSent' \subseteq endSent \cup {sid[c]} /\ pc[c] = "data"
          BY Zenon, <4>2 DEF DataWrite, SendBody
        <5>2. pc[d] \in {"wrote", "body", "data"} => sid[d] # sid[c]
          BY Zenon, <2>1, <2>a, <5>1 DEF BodyOf
        <5> QED BY Zenon, <5>1, <5>2
      <4>3. CASE ~StreamWrite(c) /\ ~DataWrite(c)
        <5>1. UNCHANGED <<sent, endSent>>
          BY Zenon, <4>3 DEF DoStep, DoCall, DoSlot, OpenFail, OpenStream, StreamWritten, WriteFail,
                             DoBody, DoClose, DoReturn, wire
        <5> QED BY Zenon, <5>1
      <4> QED BY Zenon, <4>1, <4>2, <4>3
    <3> QED BY Zenon, <2>a, <3>1, <3>2, <3>3, <1>BodyOther
  <2>2. BodyOf(c)' /\ endSent' \subseteq sent'
    <3>a. endSent \subseteq sent /\ BodyOf(c)
      BY DEF BodyShape
    <3>1. CASE OpenStream(c)
      <4>1. nextID \in Ids
        BY SMTT(60), <3>1, NextIsId, MaxIsNat DEF OpenStream, Exhausted, TypeOK, Shape
      <4> QED BY ZenonT(40), <2>0, <3>1, <3>a, <4>1 DEF OpenStream, Goto, wire, BodyOf
    <3>2. CASE StreamWrite(c)
      <4>1. /\ pc[c] = "write" /\ pc'[c] = "wrote" /\ UNCHANGED <<sid, left, took, owner>>
            /\ sent' = sent \cup {sid[c]}
            /\ endSent' = IF took[c] = left[c] THEN endSent \cup {sid[c]} ELSE endSent
        BY Zenon, <2>0, <3>2 DEF StreamWrite, SendBody, Goto, table
      <4>2. sid[c] \notin sent
        <5>1. \A i \in sent : i < sid[c]
          BY Zenon, <4>1 DEF WriterShape
        <5>2. sid[c] \in Nat /\ \A i \in sent : i \in Nat
          BY <2>0, IdsAreNat
        <5> QED BY <5>1, <5>2
      <4> QED BY Zenon, <3>a, <4>1, <4>2 DEF BodyOf
    <3>3. CASE StreamWritten(c)
      <4>1. /\ pc[c] = "wrote" /\ UNCHANGED <<sid, owner, sent, endSent>>
            /\ pc'[c] = IF left[c] = took[c] THEN "await" ELSE "body"
            /\ left'[c] = left[c] - took[c]
        BY ZenonT(40), <2>0, <3>3 DEF StreamWritten, BodySent, Goto, table, wire
      <4>2. left[c] # took[c] => left'[c] > 0
        <5>1. /\ left[c] \in Nat /\ took[c] \in Nat /\ took[c] <= left[c]
              /\ left'[c] = left[c] - took[c]
          BY Zenon, <2>0, <4>1 DEF Shape
        <5> QED BY <5>1
      <4> QED BY Zenon, <3>a, <4>1, <4>2 DEF BodyOf
    <3>4. CASE DataWrite(c)
      <4>1. /\ pc[c] = "data" /\ UNCHANGED <<sid, owner, sent>>
            /\ endSent' = IF took[c] = left[c] THEN endSent \cup {sid[c]} ELSE endSent
            /\ pc'[c] = IF left[c] = took[c] THEN "await" ELSE "body"
            /\ left'[c] = left[c] - took[c]
        BY Zenon, <2>0, <3>4 DEF DataWrite, SendBody, BodySent, Goto, table
      <4>2. left[c] # took[c] => left'[c] > 0
        <5>1. /\ left[c] \in Nat /\ took[c] \in Nat /\ took[c] <= left[c]
              /\ left'[c] = left[c] - took[c]
          BY Zenon, <2>0, <4>1 DEF Shape
        <5> QED BY <5>1
      <4> QED BY Zenon, <3>a, <4>1, <4>2 DEF BodyOf
    <3>5. CASE DoBody(c)
      <4>1. /\ pc[c] = "body" /\ UNCHANGED <<sid, left, owner, sent, endSent>>
            /\ pc'[c] \in {"await", "body", "data"}
        BY Zenon, <2>0, <3>5 DEF DoBody, Goto, table, wire
      <4> QED BY Zenon, <3>a, <4>1 DEF BodyOf
    <3>6. CASE \/ \E n \in Bodies : DoCall(c, n)
               \/ DoSlot(c) \/ OpenFail(c) \/ WriteFail(c) \/ DoClose(c) \/ DoReturn(c)
      <4>1. UNCHANGED <<sent, endSent>>
        BY Zenon, <3>6 DEF DoCall, DoSlot, OpenFail, WriteFail, DoClose, DoReturn, wire
      <4>2. pc'[c] \in {"slot", "idle", "open", "await", "close"}
        BY Zenon, <2>0, <3>6 DEF DoCall, DoSlot, OpenFail, WriteFail, DoClose, DoReturn, Goto
      <4> QED BY Zenon, <3>a, <4>1, <4>2 DEF BodyOf
    <3> QED BY Zenon, <3>1, <3>2, <3>3, <3>4, <3>5, <3>6 DEF DoStep
  <2> QED BY Zenon, <2>1, <2>2 DEF BodyShape
<1>BodyStep. ASSUME TypeOK, Shape, WriterShape, BodyShape, [Next]_vars
             PROVE  BodyShape'
  <2> USE <1>BodyStep
  <2>1. CASE ServerFrame \/ ReaderStep \/ CloseConn \/ NetBreak \/ UNCHANGED vars
    <3>1. UNCHANGED <<owner, pc, sid, left, took, sent, endSent>>
      BY SMTT(40), <2>1, Offstage DEF wire
    <3> QED BY Zenon, <3>1 DEF BodyShape, BodyOf
  <2> QED BY <2>1, <1>BodyDo, <1>BodyBatch DEF Next
<1>1. Init => BodyShape
  BY Zenon DEF Init, BodyShape, BodyOf
<1>2. TypeOK /\ Shape /\ WriterShape /\ BodyShape /\ [Next]_vars => BodyShape'
  BY <1>BodyStep
<1>3. TypeOK /\ Shape /\ WriterShape /\ BodyShape => EndsOnce
  <2> SUFFICES ASSUME TypeOK, Shape, WriterShape, BodyShape, NEW c \in Callers
               PROVE  /\ pc[c] \in {"write", "body", "data"} => sid[c] \notin endSent
                      /\ pc[c] \in {"body", "data"} => left[c] > 0 /\ took[c] <= left[c]
    BY Zenon DEF EndsOnce
  <2>1. pc[c] = "write" => sid[c] \notin sent
    <3>1. pc[c] = "write" => \A i \in sent : i < sid[c]
      BY ZenonT(40) DEF WriterShape
    <3>2. sid[c] \in Nat
      BY IdsAreNat DEF TypeOK
    <3> QED BY SMTT(60), <3>1, <3>2
  <2> QED BY Zenon, <2>1 DEF BodyShape, BodyOf, Shape
<1> QED BY <1>1, <1>2, <1>3, TypeCorrect, WriterInvariant, PTL DEF Spec
=============================================================================
