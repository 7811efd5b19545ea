------------------------- MODULE ClientConnPromise --------------------------
(***************************************************************************)
(* What Do and Close promise, for any number of callers and batchers, any  *)
(* identifiers, windows and limits: nobody waits for what is already       *)
(* there, there is one result for every stream, and the connection         *)
(* implements RoundTrip.                                                   *)
(***************************************************************************)
EXTENDS ClientConnProofs, ClientConnTrips

(***************************************************************************)
(* The waits on cond: nobody waits for what is already there.              *)
(***************************************************************************)

\* Every change that could let a parked Do go on comes with a Broadcast: nobody waits
\* for a slot that is free, for window that is there, or on a failed connection.
THEOREM NobodyForgotten == Spec => []NoLostWakeup
\* Nobody waits, or everybody has just been woken.
<1>NobodyWaits.
      ASSUME NoLostWakeup, waiters' = {} \/ (err # "nil" /\ waiters' \subseteq waiters)
      PROVE  NoLostWakeup'
  BY <1>NobodyWaits DEF NoLostWakeup
\* Those who wait can go no sooner than before.
<1>WaitsOn. ASSUME TypeOK, NoLostWakeup, NEW c \in waiters, UNCHANGED <<err, peerMaxStreams>>,
                   pc'[c] = pc[c], sid'[c] = sid[c], active' \in Int, active' >= active,
                   streams \subseteq streams', connSendWindow' \in Int, connSendWindow' <= connSendWindow,
                   \A i \in streams : sendWindow'[i] \in Int /\ sendWindow'[i] <= sendWindow[i]
            PROVE  /\ err' = "nil"
                   /\ \/ pc'[c] = "slot" /\ active' >= peerMaxStreams'
                      \/ /\ pc'[c] = "body" /\ sid'[c] \in streams'
                         /\ MinOf(connSendWindow', sendWindow'[sid'[c]]) <= 0
  <2> USE <1>WaitsOn
  <2>1. active \in Int /\ peerMaxStreams \in Int /\ connSendWindow \in Int
    BY DEF TypeOK
  <2>2. \A i \in streams : sendWindow[i] \in Int
    BY DEF TypeOK
  <2>3. err = "nil"
    BY DEF NoLostWakeup
  <2>4. CASE pc[c] = "slot"
    BY <2>1, <2>3, <2>4 DEF NoLostWakeup
  <2>5. CASE pc[c] # "slot"
    <3>1. pc[c] = "body" /\ sid[c] \in streams /\ MinOf(connSendWindow, sendWindow[sid[c]]) <= 0
      BY <2>5 DEF NoLostWakeup
    <3>2. MinOf(connSendWindow', sendWindow'[sid[c]]) <= 0
      BY <2>1, <2>2, <3>1 DEF MinOf
    <3> QED BY <2>3, <3>1, <3>2
  <2> QED BY <2>4, <2>5
\* A step that wakes nobody and sets nobody waiting.
<1>WaitsKept. ASSUME TypeOK, NoLostWakeup, waiters' \subseteq waiters, UNCHANGED <<err, peerMaxStreams>>,
                     \A c \in waiters : pc'[c] = pc[c] /\ sid'[c] = sid[c],
                     active' \in Int, active' >= active,
                     streams \subseteq streams', connSendWindow' \in Int, connSendWindow' <= connSendWindow,
                     \A i \in streams : sendWindow'[i] \in Int /\ sendWindow'[i] <= sendWindow[i]
              PROVE  NoLostWakeup'
  BY <1>WaitsKept, <1>WaitsOn DEF NoLostWakeup
\* A step with nothing in it that anybody waits for.
<1>WaitsQuiet.
      ASSUME TypeOK, NoLostWakeup, UNCHANGED <<waiters, err, peerMaxStreams, active, streams>>,
             UNCHANGED <<connSendWindow, sendWindow>>,
             \A c \in waiters : pc'[c] = pc[c] /\ sid'[c] = sid[c]
      PROVE  NoLostWakeup'
  BY <1>WaitsQuiet DEF NoLostWakeup
\* The steps of Do that take a slot or window, or find none and park.
<1>WaitsTake. ASSUME TypeOK, Shape, NoLostWakeup, NEW c \in Callers, DoSlot(c) \/ OpenStream(c) \/ DoBody(c)
              PROVE  NoLostWakeup'
  <2> USE <1>WaitsTake
  <2>0. /\ waiters \subseteq Callers /\ left[c] \in Nat /\ peerInitialWindow \in Int
        /\ active \in Int /\ peerMaxStreams \in Int /\ connSendWindow \in Int
        /\ sendWindow \in [Ids -> Int] /\ streams \subseteq Ids
    BY DEF TypeOK
  <2>a. c \notin waiters
    BY DEF DoSlot, OpenStream, DoBody, NoLostWakeup
  <2>b. \A d \in waiters : pc'[d] = pc[d] /\ sid'[d] = sid[d]
    BY <2>0, <2>a, DoAlone DEF DoStep
  <2>1. CASE DoSlot(c)
    <3>1. /\ pc[c] = "slot"
          /\ UNCHANGED <<err, peerMaxStreams, sid, streams, connSendWindow, sendWindow>>
      BY <2>1 DEF DoSlot, windows, peer
    <3>2. CASE err = "nil" /\ ~SlotFree /\ waiters' = waiters \cup {c} /\ UNCHANGED <<pc, active>>
      <4>1. active >= peerMaxStreams
        BY <2>0, <3>2 DEF SlotFree
      <4> QED BY <3>1, <3>2, <4>1 DEF NoLostWakeup
    <3>3. CASE UNCHANGED waiters /\ (active' = active \/ active' = active + 1)
      BY <2>0, <2>b, <3>1, <3>3, <1>WaitsKept
    <3> QED BY <2>1, <3>2, <3>3 DEF DoSlot
  <2>2. CASE OpenStream(c)
    <3> DEFINE take == Takeable(left[c], connSendWindow, peerInitialWindow)
    <3>1. /\ streams' = streams \cup {nextID} /\ connSendWindow' = connSendWindow - take
          /\ sendWindow' = [sendWindow EXCEPT ![nextID] = peerInitialWindow - take]
          /\ UNCHANGED <<waiters, err, peerMaxStreams, active>>
      BY <2>2 DEF OpenStream, peer
    <3>2. take \in Nat
      BY <2>0, TakeableBounds
    <3> HIDE DEF take
    <3>3. \A i \in streams : i # nextID
      <4>1. \A i \in streams : i \in Nat /\ i < nextID
        BY IdsAreNat DEF TypeOK, Shape
      <4> QED BY <4>1
    <3>4. \A i \in streams : sendWindow'[i] \in Int /\ sendWindow'[i] <= sendWindow[i]
      BY <2>0, <3>1, <3>3
    <3>5. connSendWindow' \in Int /\ connSendWindow' <= connSendWindow
      BY <2>0, <3>1, <3>2
    <3> QED BY SMTT(40), Z3T(40), <2>0, <2>b, <3>1, <3>4, <3>5, <1>WaitsKept
  <2>3. CASE DoBody(c)
    <3>1. pc[c] = "body" /\ UNCHANGED <<err, peerMaxStreams, sid, streams, active>>
      BY Zenon, <2>3 DEF DoBody, table, peer
    <3>2. CASE /\ err = "nil" /\ sid[c] \in streams
               /\ MinOf(connSendWindow, sendWindow[sid[c]]) <= 0
               /\ waiters' = waiters \cup {c} /\ UNCHANGED <<pc, connSendWindow, sendWindow>>
      BY Zenon, <3>1, <3>2 DEF NoLostWakeup
    <3>3. CASE UNCHANGED <<waiters, connSendWindow, sendWindow>>
      BY Zenon, <2>b, <3>1, <3>3, <1>WaitsQuiet
    <3>4. CASE /\ sid[c] \in streams /\ UNCHANGED waiters
               /\ \E take \in {Takeable(left[c], connSendWindow, sendWindow[sid[c]])} :
                    /\ connSendWindow' = connSendWindow - take
                    /\ sendWindow' = [sendWindow EXCEPT ![sid[c]] = @ - take]
      <4>1. sendWindow[sid[c]] \in Int /\ sid[c] \in Ids
        BY <2>0, <3>4
      <4>2. Takeable(left[c], connSendWindow, sendWindow[sid[c]]) \in Nat
        BY Zenon, <2>0, <4>1, TakeableBounds
      <4>3. PICK take \in Nat : /\ connSendWindow' = connSendWindow - take
                                /\ sendWindow' = [sendWindow EXCEPT ![sid[c]] = @ - take]
        BY Zenon, <3>4, <4>2
      <4>4. /\ \A i \in streams : sendWindow'[i] \in Int /\ sendWindow'[i] <= sendWindow[i]
            /\ connSendWindow' \in Int /\ connSendWindow' <= connSendWindow
        BY <2>0, <4>3
      <4> QED BY SMTT(40), Z3T(40), <2>0, <2>b, <3>1, <3>4, <4>4, <1>WaitsKept
    <3> QED BY Zenon, <2>3, <3>2, <3>3, <3>4 DEF DoBody
  <2> QED BY <2>1, <2>2, <2>3
\* The other steps of Do: who makes them is not waiting.
<1>WaitsDo. ASSUME TypeOK, Shape, NoLostWakeup, NEW c \in Callers,
                   DoStep(c) \/ \E n \in Bodies : DoCall(c, n)
            PROVE  NoLostWakeup'
  <2> USE <1>WaitsDo
  <2>1. CASE OpenFail(c)
    <3>1. waiters' = {} \/ (err # "nil" /\ waiters' \subseteq waiters)
      BY Zenon, <2>1 DEF OpenFail, FailLocked
    <3> QED BY <3>1, <1>NobodyWaits
  <2>2. CASE \/ \E n \in Bodies : DoCall(c, n)
             \/ StreamWrite(c) \/ StreamWritten(c) \/ WriteFail(c) \/ DataWrite(c)
             \/ DoClose(c) \/ DoReturn(c)
    <3>1. /\ UNCHANGED <<waiters, err, peerMaxStreams, active, streams>>
          /\ UNCHANGED <<connSendWindow, sendWindow>>
      BY Zenon, <2>2 DEF DoCall, StreamWrite, StreamWritten, WriteFail, DataWrite, DoClose,
                         DoReturn, table, windows, peer
    <3>2. pc[c] \notin {"slot", "body"}
      BY Zenon, <2>2 DEF DoCall, StreamWrite, StreamWritten, WriteFail, DataWrite, DoClose, DoReturn
    <3>3. c \notin waiters
      BY <3>2 DEF NoLostWakeup
    <3>4. waiters \subseteq Callers
      BY DEF TypeOK
    <3> QED BY <3>1, <3>3, <3>4, DoAlone, <1>WaitsQuiet
  <2> QED BY <2>1, <2>2, <1>WaitsTake DEF DoStep
\* WriteBatch.
<1>WaitsBatch.
      ASSUME TypeOK, Shape, NoLostWakeup, NEW b \in Batchers, BatchReserve(b) \/ BatchStep(b)
      PROVE  NoLostWakeup'
  <2> USE <1>WaitsBatch
  <2>0. /\ active \in Int /\ connSendWindow \in Int /\ nextID \in Nat
        /\ sendWindow \in [Ids -> Int] /\ streams \subseteq Ids
    BY DEF TypeOK
  <2>1. UNCHANGED <<pc, sid>>
    BY Zenon DEF BatchReserve, BatchStep, BatchFail, BatchOpen, BatchWrite, BatchWritten,
                 BatchClose, doing
  <2>2. CASE BatchReserve(b)
    <3>1. BatchSize * BatchBody \in Nat /\ BatchSize \in Nat
      BY SizesAreNat
    <3>2. /\ active' = active + BatchSize /\ connSendWindow' = connSendWindow - BatchSize * BatchBody
          /\ UNCHANGED <<waiters, err, peerMaxStreams, streams, sendWindow>>
      BY <2>2 DEF BatchReserve, peer
    <3>3. /\ active' \in Int /\ active' >= active
          /\ connSendWindow' \in Int /\ connSendWindow' <= connSendWindow
          /\ \A i \in streams : sendWindow'[i] \in Int /\ sendWindow'[i] <= sendWindow[i]
      BY <2>0, <3>1, <3>2
    <3> QED BY Zenon, <2>1, <3>2, <3>3, <1>WaitsKept
  <2>3. CASE BatchFail(b)
    <3>1. waiters' = {} \/ (err # "nil" /\ waiters' \subseteq waiters)
      BY SMTT(40), Z3T(40), <2>3 DEF BatchFail, FailLocked
    <3> QED BY <3>1, <1>NobodyWaits
  <2>4. CASE BatchOpen(b)
    <3> DEFINE new == BatchIds(nextID)
    <3>1. \A i \in streams : i \notin new
      <4>1. \A i \in streams : i \in Nat /\ i < nextID
        BY SMTT(40), Z3T(40), IdsAreNat DEF TypeOK, Shape
      <4> QED BY SMTT(40), Z3T(40), <2>0, <4>1 DEF BatchIds
    <3>2. /\ streams' = streams \cup new
          /\ sendWindow' = [i \in Ids |-> IF i \in new THEN peerInitialWindow - BatchBody
                                                       ELSE sendWindow[i]]
          /\ UNCHANGED <<waiters, err, peerMaxStreams, active, connSendWindow>>
      BY <2>4 DEF BatchOpen, peer
    <3> HIDE DEF new
    <3>3. \A i \in streams : sendWindow'[i] \in Int /\ sendWindow'[i] <= sendWindow[i]
      BY SMTT(40), Z3T(40), <2>0, <3>1, <3>2
    <3> QED BY <2>0, <2>1, <3>2, <3>3, <1>WaitsKept
  <2>5. CASE BatchWrite(b) \/ BatchWritten(b) \/ BatchClose(b)
    <3>1. /\ UNCHANGED <<waiters, err, peerMaxStreams, active, streams>>
          /\ UNCHANGED <<connSendWindow, sendWindow>>
      BY Zenon, <2>5 DEF BatchWrite, BatchWritten, BatchClose, table, windows, peer
    <3> QED BY <2>1, <3>1, <1>WaitsQuiet
  <2> QED BY <2>2, <2>3, <2>4, <2>5 DEF BatchStep
\* The reader wakes everybody whenever it frees a slot or window, or fails.
<1>WaitsRest. ASSUME TypeOK, NoLostWakeup, ServerFrame \/ ReaderStep \/ CloseConn \/ NetBreak \/ UNCHANGED vars
              PROVE  NoLostWakeup'
  <2> USE <1>WaitsRest
  <2> DEFINE Quiet == /\ UNCHANGED <<waiters, err, peerMaxStreams, active, streams>>
                      /\ UNCHANGED <<connSendWindow, sendWindow>>
  <2>1. UNCHANGED <<pc, sid>>
    BY Offstage
  <2>2. waiters' = {} \/ Quiet
    <3>1. CASE ServerFrame
      <4>1. ASSUME NEW i, NEW inc, NEW w, NEW m, NEW last,
                   \/ OnStreamEnd(i) \/ OnWindowUpdate(i, inc) \/ OnSettings(w, m) \/ OnGoAway(last)
            PROVE  waiters' = {}
        BY Zenon, <4>1 DEF OnStreamEnd, TakeStream, OnWindowUpdate, OnSettings, OnGoAway, FailLocked
      <4>2. ASSUME NEW i, OnOwedWrite(i) \/ ReadError PROVE Quiet
        BY Zenon, <4>2 DEF OnOwedWrite, ReadError, table, windows, peer
      <4> HIDE DEF Quiet
      <4> QED BY <3>1, <4>1, <4>2 DEF ServerFrame
    <3>2. CASE ReaderStep
      <4>1. ASSUME NEW i, Finish(i) PROVE Quiet
        BY Zenon, <4>1 DEF Finish, table, windows, peer
      <4>2. CASE WriteControl
        BY Zenon, <4>2 DEF WriteControl, TakeStream, peer
      <4>3. CASE ReaderFail
        BY Zenon, <4>3 DEF ReaderFail, FailLocked
      <4>4. CASE ReaderClose \/ ReaderStop
        BY Zenon, <4>4 DEF ReaderClose, ReaderStop, table, windows, peer
      <4> HIDE DEF Quiet
      <4> QED BY <3>2, <4>1, <4>2, <4>3, <4>4 DEF ReaderStep
    <3>3. CASE CloseConn \/ NetBreak \/ UNCHANGED vars
      BY Zenon, <3>3 DEF CloseConn, NetBreak, vars, table, windows, peer
    <3> QED BY <3>1, <3>2, <3>3
  <2> QED BY <2>1, <2>2, <1>NobodyWaits, <1>WaitsQuiet
<1>1. Init => NoLostWakeup
  BY DEF Init, NoLostWakeup
<1>2. TypeOK /\ Shape /\ NoLostWakeup /\ [Next]_vars => NoLostWakeup'
  BY <1>WaitsDo, <1>WaitsBatch, <1>WaitsRest DEF Next
<1> QED BY <1>1, <1>2, TypeCorrect, PTL DEF Spec

---------------------------------------------------------------------------
(***************************************************************************)
(* Every stream has one result: no stream is finished twice or forgotten,  *)
(* and a Do that waits is waiting for a result that is still to come.      *)
(***************************************************************************)

\* What the results of streams rest on, and who writes it: the map, the streams
\* the reader has to finish, and what has been finished.
Flight == <<streams, ending, nextID, delivered, owner>>

\* The streams that leave the map are the reader's to finish.
LEMMA RemoveMoves ==
  ASSUME TypeOK, ending = {}, NEW S \in SUBSET streams, Remove(S)
  PROVE  /\ streams' \cup ending' = streams \cup ending
         /\ streams' \cap ending' = {}
         /\ streams' \subseteq streams
BY DEF Remove

LEMMA ResultInit == Init => ReaderShape /\ FinishedOnce /\ OneResult
<1> SUFFICES ASSUME Init PROVE ReaderShape /\ FinishedOnce /\ OneResult
  OBVIOUS
<1>1. ReaderShape
  BY DEF Init, ReaderShape
<1>2. FinishedOnce
  <2>1. \A i \in Ids : ~(i < 1)
    BY IdsAreNat
  <2> QED BY <2>1 DEF Init, FinishedOnce
<1>3. OneResult
  BY DEF Init, OneResult, Opened, Unfinished
<1> QED BY <1>1, <1>2, <1>3

\* A step of a goroutine that opens nothing and ends nothing leaves the reader's
\* state alone, and an error, once there, stays.
LEMMA QuietStep ==
  ASSUME ReaderShape, FinishedOnce,
         UNCHANGED <<Flight, rpc, closing>>, err # "nil" => err' # "nil"
  PROVE  ReaderShape' /\ FinishedOnce'
BY DEF Flight, ReaderShape, FinishedOnce

\* Identifiers are odd: the next one leaves none out.
LEMMA OddBelow ==
  ASSUME NEW n \in Nat, n % 2 = 1
  PROVE  \A i \in Nat : i % 2 = 1 => (i < n + 2 <=> i < n \/ i = n)
<1> SUFFICES ASSUME NEW i \in Nat, i % 2 = 1 PROVE i # n + 1
  OBVIOUS
<1> QED OBVIOUS

\* The steps of Do, of WriteBatch, of the server and of the reader, in turn.
LEMMA ReaderDo ==
  ASSUME TypeOK, Shape, ReaderShape, FinishedOnce,
         \E c \in Callers : DoStep(c) \/ \E n \in Bodies : DoCall(c, n)
  PROVE  ReaderShape' /\ FinishedOnce'
<1>1. ASSUME NEW c \in Callers, NEW n \in Bodies, DoCall(c, n)
      PROVE  ReaderShape' /\ FinishedOnce'
  BY Zenon, <1>1, QuietStep DEF DoCall, Flight, env, table, reading
<1>2. ASSUME NEW c \in Callers, DoSlot(c) PROVE ReaderShape' /\ FinishedOnce'
  BY SMTT(40), Z3T(40), <1>2, QuietStep DEF DoSlot, Flight, env, reading
<1>3. ASSUME NEW c \in Callers, OpenFail(c) PROVE ReaderShape' /\ FinishedOnce'
  BY <1>3, QuietStep DEF OpenFail, FailLocked, Flight, env, reading
<1>4. ASSUME NEW c \in Callers, OpenStream(c) PROVE ReaderShape' /\ FinishedOnce'
  <2>1. /\ streams' = streams \cup {nextID} /\ nextID' = nextID + 2
        /\ UNCHANGED <<ending, delivered, rpc, closing, err>> /\ err = "nil"
    BY SMTT(40), Z3T(40), <1>4 DEF OpenStream, env, reading
  <2>2. nextID \in Nat /\ nextID \notin streams \cup ending
    BY DEF TypeOK, Shape
  <2>3. ReaderShape'
    BY Zenon, <2>1, <2>2 DEF ReaderShape
  <2>4. \A i \in Ids : i < nextID + 2 <=> i < nextID \/ i = nextID
    BY <2>2, OddBelow DEF Ids, Shape
  <2>5. FinishedOnce'
    BY SMTT(40), Z3T(40), <2>1, <2>2, <2>4, IdsAreNat DEF FinishedOnce
  <2> QED BY Zenon, <2>3, <2>5
<1>5. ASSUME NEW c \in Callers, StreamWrite(c) PROVE ReaderShape' /\ FinishedOnce'
  BY Zenon, <1>5, QuietStep DEF StreamWrite, Flight, env, table, reading
<1>6. ASSUME NEW c \in Callers, StreamWritten(c) PROVE ReaderShape' /\ FinishedOnce'
  BY <1>6, QuietStep DEF StreamWritten, Flight, env, table, reading
<1>7. ASSUME NEW c \in Callers, WriteFail(c) PROVE ReaderShape' /\ FinishedOnce'
  BY Zenon, <1>7, QuietStep DEF WriteFail, Flight, env, table, reading
<1>8. ASSUME NEW c \in Callers, DoBody(c) PROVE ReaderShape' /\ FinishedOnce'
  BY Zenon, <1>8, QuietStep DEF DoBody, Flight, env, table, reading
<1>9. ASSUME NEW c \in Callers, DataWrite(c) PROVE ReaderShape' /\ FinishedOnce'
  BY Zenon, <1>9, QuietStep DEF DataWrite, Flight, env, table, reading
<1>10. ASSUME NEW c \in Callers, DoClose(c) PROVE ReaderShape' /\ FinishedOnce'
  BY Zenon, <1>10, QuietStep DEF DoClose, Flight, table, reading
<1>11. ASSUME NEW c \in Callers, DoReturn(c) PROVE ReaderShape' /\ FinishedOnce'
  BY Zenon, <1>11, QuietStep DEF DoReturn, Flight, env, table, reading
<1> QED BY ZenonT(40), <1>1, <1>2, <1>3, <1>4, <1>5, <1>6, <1>7, <1>8, <1>9, <1>10, <1>11 DEF DoStep

\* WriteBatch.
LEMMA ReaderBatch ==
  ASSUME TypeOK, Shape, ReaderShape, FinishedOnce,
         \E b \in Batchers : BatchReserve(b) \/ BatchStep(b)
  PROVE  ReaderShape' /\ FinishedOnce'
<1>1. ASSUME NEW b \in Batchers, BatchReserve(b) PROVE ReaderShape' /\ FinishedOnce'
  BY SMTT(40), Z3T(40), <1>1, QuietStep DEF BatchReserve, Flight, env, reading
<1>2. ASSUME NEW b \in Batchers, BatchFail(b) PROVE ReaderShape' /\ FinishedOnce'
  BY <1>2, QuietStep DEF BatchFail, FailLocked, Flight, env, reading
<1>3. ASSUME NEW b \in Batchers, BatchOpen(b) PROVE ReaderShape' /\ FinishedOnce'
  <2>1. /\ streams' = streams \cup BatchIds(nextID) /\ nextID' = nextID + 2 * BatchSize
        /\ UNCHANGED <<ending, delivered, rpc, closing, err>> /\ err = "nil"
    BY Zenon, <1>3 DEF BatchOpen, env, reading
  <2>2. \A i \in streams \cup ending : i \notin BatchIds(nextID)
    <3>1. \A i \in streams \cup ending : i \in Ids /\ i < nextID
      BY DEF TypeOK, Shape
    <3> QED BY SMTT(40), Z3T(40), <3>1, IdsAreNat DEF BatchIds, TypeOK
  <2>3. ReaderShape'
    BY Zenon, <2>1, <2>2 DEF ReaderShape
  <2>4. \A i \in Ids : i < nextID + 2 * BatchSize <=> i < nextID \/ i \in BatchIds(nextID)
    BY SMTT(40), Z3T(40), IdsAreNat, SizesAreNat DEF BatchIds, TypeOK
  <2>5. \A i \in BatchIds(nextID) : ~(i < nextID)
    BY IdsAreNat DEF BatchIds, TypeOK
  <2>6. FinishedOnce'
    BY Zenon, <2>1, <2>2, <2>4, <2>5 DEF FinishedOnce
  <2> QED BY Zenon, <2>3, <2>6
<1>4. ASSUME NEW b \in Batchers, BatchWrite(b) PROVE ReaderShape' /\ FinishedOnce'
  BY Zenon, <1>4, QuietStep DEF BatchWrite, Flight, env, table, reading
<1>5. ASSUME NEW b \in Batchers, BatchWritten(b) PROVE ReaderShape' /\ FinishedOnce'
  BY SMTT(40), Z3T(40), <1>5, QuietStep DEF BatchWritten, Flight, env, table, reading
<1>6. ASSUME NEW b \in Batchers, BatchClose(b) PROVE ReaderShape' /\ FinishedOnce'
  BY <1>6, QuietStep DEF BatchClose, Flight, table, reading
<1> QED BY ZenonT(40), <1>1, <1>2, <1>3, <1>4, <1>5, <1>6 DEF BatchStep

\* Streams leave the map, for the reader to finish.
LEMMA ReaderRemoves ==
  ASSUME TypeOK, Shape, ReaderShape, FinishedOnce,
         NEW S \in SUBSET streams, Remove(S), ending = {}, UNCHANGED <<nextID, delivered, closing>>,
         err # "nil" => err' # "nil", rpc \notin {"failing", "done"},
         rpc' = "finish" \/ (rpc' = "read" /\ S = {}) \/ (rpc' = "failing" /\ S = streams /\ err' # "nil")
  PROVE  ReaderShape' /\ FinishedOnce'
<1>1. /\ streams' \cup ending' = streams \cup ending
      /\ streams' \cap ending' = {} /\ streams' \subseteq streams /\ ending' = S
      /\ streams' = streams \ S
  BY Zenon, RemoveMoves DEF Remove
<1>2. ReaderShape'
  BY Zenon, <1>1 DEF ReaderShape
<1>3. FinishedOnce'
  BY Zenon, <1>1 DEF FinishedOnce
<1> QED BY Zenon, <1>2, <1>3

\* A frame of the server.
LEMMA ReaderFrame ==
  ASSUME TypeOK, Shape, ReaderShape, FinishedOnce,
         ServerFrame
  PROVE  ReaderShape' /\ FinishedOnce'
<1>1. ASSUME NEW i \in sent, OnStreamEnd(i) PROVE ReaderShape' /\ FinishedOnce'
  <2>1. ending = {} /\ {i} \in SUBSET streams /\ Remove({i})
    BY <1>1 DEF OnStreamEnd, TakeStream, ReaderShape
  <2> QED BY <1>1, <2>1, ReaderRemoves DEF OnStreamEnd, TakeStream, env
<1>2. ASSUME NEW i, OnOwedWrite(i) PROVE ReaderShape' /\ FinishedOnce'
  BY Zenon, <1>2 DEF OnOwedWrite, ReaderShape, FinishedOnce, env, table
<1>3. ASSUME NEW w, NEW m, OnSettings(w, m) PROVE ReaderShape' /\ FinishedOnce'
  BY <1>3 DEF OnSettings, ReaderShape, FinishedOnce, env, table
<1>4. ASSUME NEW i, NEW inc, OnWindowUpdate(i, inc) PROVE ReaderShape' /\ FinishedOnce'
  BY <1>4, QuietStep DEF OnWindowUpdate, Flight, env, table, reading
<1>5. ASSUME NEW last, OnGoAway(last) PROVE ReaderShape' /\ FinishedOnce'
  <2> DEFINE refused == {i \in streams : i > last}
  <2>1. /\ ending = {} /\ refused \in SUBSET streams /\ Remove(refused)
        /\ rpc' = "finish" \/ (rpc' = "read" /\ refused = {})
        /\ err # "nil" => err' # "nil"
    BY Zenon, <1>5 DEF OnGoAway, FailLocked, ReaderShape
  <2> HIDE DEF refused
  <2> QED BY Zenon, <1>5, <2>1, ReaderRemoves DEF OnGoAway, env
<1>6. CASE ReadError
  BY Zenon, <1>6 DEF ReadError, ReaderShape, FinishedOnce, env, table
<1> QED BY SMTT(40), Z3T(40), <1>1, <1>2, <1>3, <1>4, <1>5, <1>6 DEF ServerFrame

\* The reader by itself.
LEMMA ReaderItself ==
  ASSUME TypeOK, Shape, ReaderShape, FinishedOnce,
         ReaderStep
  PROVE  ReaderShape' /\ FinishedOnce'
<1>1. CASE WriteControl
  <2>1. ending = {} /\ rpc \notin {"failing", "done"}
    BY Zenon, <1>1 DEF WriteControl, ReaderShape
  <2>2. CASE TakeStream(rid)
    <3>1. {rid} \in SUBSET streams /\ Remove({rid})
      BY ZenonT(40), <2>2 DEF TakeStream
    <3> QED BY <1>1, <2>1, <2>2, <3>1, ReaderRemoves DEF WriteControl, TakeStream, env
  <2>3. CASE UNCHANGED <<streams, active, ending, waiters, sendWindow>>
    BY <1>1, <2>1, <2>3 DEF WriteControl, TakeStream, Remove, ReaderShape, FinishedOnce, env
  <2> QED BY <1>1, <2>2, <2>3 DEF WriteControl
<1>2. ASSUME NEW i \in ending, Finish(i) PROVE ReaderShape' /\ FinishedOnce'
  <2>1. i \in Ids /\ i < nextID
    BY Zenon DEF TypeOK, Shape
  <2>2. FinishedOnce'
    BY <1>2, <2>1 DEF Finish, table, TypeOK, ReaderShape, FinishedOnce
  <2>3. ReaderShape'
    BY Zenon, <1>2 DEF Finish, table, env, ReaderShape
  <2> QED BY Zenon, <2>2, <2>3
<1>3. CASE ReaderClose
  BY <1>3 DEF ReaderClose, ReaderShape, FinishedOnce, table
<1>4. CASE ReaderFail
  <2>1. /\ ending = {} /\ streams \in SUBSET streams /\ Remove(streams) /\ err' # "nil"
        /\ rpc \notin {"failing", "done"} /\ rpc' = "failing"
        /\ UNCHANGED <<nextID, delivered, closing>>
    BY <1>4 DEF ReaderFail, FailLocked, ReaderShape, env
  <2> QED BY Zenon, <2>1, ReaderRemoves
<1>5. CASE ReaderStop
  BY <1>5 DEF ReaderStop, ReaderShape, FinishedOnce, env, table
<1> QED BY SMTT(40), Z3T(40), <1>1, <1>2, <1>3, <1>4, <1>5 DEF ReaderStep

LEMMA ReaderKeeps ==
  ASSUME TypeOK, Shape, ReaderShape, FinishedOnce, [Next]_vars
  PROVE  ReaderShape' /\ FinishedOnce'
<1>1. CASE CloseConn
  BY <1>1 DEF CloseConn, ReaderShape, FinishedOnce, table, reading
<1>2. CASE NetBreak
  BY Zenon, <1>2, QuietStep DEF NetBreak, Flight, table, reading
<1>3. CASE UNCHANGED vars
  BY <1>3, QuietStep DEF vars, Flight, env, table, reading
<1> QED BY SMTT(40), Z3T(40), <1>1, <1>2, <1>3, ReaderDo, ReaderBatch, ReaderFrame, ReaderItself DEF Next

\* What the reader has to finish, and that it finishes it, hold together.
LEMMA ReaderHolds == Spec => [](ReaderShape /\ FinishedOnce)
<1>1. Init => ReaderShape /\ FinishedOnce
  BY ResultInit
<1>2. TypeOK /\ Shape /\ ReaderShape /\ FinishedOnce /\ [Next]_vars => ReaderShape' /\ FinishedOnce'
  BY ReaderKeeps
<1> QED BY <1>1, <1>2, TypeCorrect, PTL DEF Spec

\* No stream is finished twice and none is forgotten: readLoop, take, onGoAway
\* and finish between them.
THEOREM ResultsSettled == Spec => []FinishedOnce
BY ReaderHolds, PTL

\* When Close has returned every stream that was opened has its result.
THEOREM ClosedSettles == Spec => []CloseSettles
\* Once Close has returned, the reader is done, and nothing is left to finish.
<1>ClosedIsSettled.
      TypeOK /\ Shape /\ ReaderShape /\ FinishedOnce => CloseSettles
  <2> SUFFICES ASSUME TypeOK, Shape, ReaderShape, FinishedOnce, closing = "returned",
                      NEW i \in Ids, i < nextID
               PROVE  delivered[i] = 1
    BY DEF CloseSettles
  <2>1. streams \cup ending = {}
    BY SMTT(40), Z3T(40) DEF ReaderShape
  <2> QED BY <2>1 DEF FinishedOnce
<1> QED BY ReaderHolds, TypeCorrect, <1>ClosedIsSettled, PTL

---------------------------------------------------------------------------

LEMMA Moves ==
  ASSUME TypeOK, NEW c \in Callers, NEW l, Goto(c, l), l \in Opened <=> pc[c] \in Opened
  PROVE  \A d \in Callers : pc'[d] \in Opened <=> pc[d] \in Opened
BY DEF TypeOK, Goto

\* Every Do that has opened its stream has its one result, or the reader still has
\* that stream to finish: no token is left behind in a pooled stream.
THEOREM OneResultAlways == Spec => []OneResult
\* A step that ends no stream and starts no Do keeps every Do's one result.
<1>SameResult.
      ASSUME OneResult, UNCHANGED <<owner, done, sid>>,
             streams' \cup ending' = streams \cup ending,
             \A c \in Callers : pc'[c] \in Opened <=> pc[c] \in Opened
      PROVE  OneResult'
  <2> USE <1>SameResult
  <2>1. \A c \in Callers : Unfinished(c)' = Unfinished(c)
    BY Zenon DEF Unfinished
  <2> QED BY <2>1 DEF OneResult
<1>OnlyOne. ~(0 > 0) /\ 1 - 1 = 0
  BY SMTT(40), Z3T(40)
\* A Do without a stream has its result, or hands it over.
<1>NoStream.
      ASSUME OneResult, NEW c \in Callers, \A d \in Callers : Unfinished(d)' = Unfinished(d),
             Unfinished(c) = {}, done'[c] = IF pc'[c] \in Opened THEN 1 ELSE 0,
             \A d \in Callers \ {c} : done'[d] = done[d] /\ pc'[d] = pc[d] /\ sid'[d] = sid[d]
      PROVE  OneResult'
  BY <1>NoStream DEF OneResult
\* A Do opens its stream.
<1>ResultOpenStream.
      ASSUME TypeOK, Shape, ReaderShape, OneResult,
             NEW c \in Callers, OpenStream(c)
      PROVE  OneResult'
  <2> USE <1>ResultOpenStream
  <2>1. nextID \in Ids
    BY SMTT(40), Z3T(40), NextIsId, MaxIsNat DEF OpenStream, Exhausted, TypeOK, Shape
  <2>2. nextID \notin streams \cup ending
    BY SMTT(40), Z3T(40) DEF TypeOK, Shape
  <2>3. /\ streams' \cup ending' = (streams \cup ending) \cup {nextID}
        /\ owner' = [owner EXCEPT ![nextID] = c] /\ done' = done
    BY DEF OpenStream, reading
  <2>4. Unfinished(c) = {} /\ done[c] = 0
    BY Zenon DEF OpenStream, OneResult, Opened
  <2>5. streams \cup ending \subseteq Ids
    BY Zenon DEF TypeOK
  <2>6. Unfinished(c)' = {nextID}
    BY SMTT(40), Z3T(40), <2>1, <2>2, <2>3, <2>4, <2>5 DEF Unfinished, TypeOK
  <2>7. \A d \in Callers \ {c} : Unfinished(d)' = Unfinished(d)
    BY SMTT(40), Z3T(40), <2>1, <2>2, <2>3, <2>5 DEF Unfinished, TypeOK
  <2>8. pc'[c] \in Opened /\ sid'[c] = nextID
    BY Zenon DEF OpenStream, Goto, TypeOK, Opened
  <2>9. \A d \in Callers \ {c} : pc'[d] = pc[d] /\ sid'[d] = sid[d]
    BY Zenon DEF OpenStream, Goto, TypeOK
  <2> QED BY ZenonT(40), <2>3, <2>4, <2>6, <2>7, <2>8, <2>9 DEF OneResult
\* The other steps of Do.
<1>ResultDo. ASSUME TypeOK, Shape, ReaderShape, OneResult,
                    \E c \in Callers : DoStep(c) \/ \E n \in Bodies : DoCall(c, n)
             PROVE  OneResult'
  <2> USE <1>ResultDo
  <2>1. ASSUME NEW c \in Callers, NEW n \in Bodies, DoCall(c, n) PROVE OneResult'
    BY Zenon, <2>1, Moves, <1>SameResult DEF DoCall, table, reading, Opened
  <2>2. ASSUME NEW c \in Callers, DoSlot(c) PROVE OneResult'
    <3>1. \A d \in Callers : pc'[d] \in Opened <=> pc[d] \in Opened
      BY Zenon, <2>2, Moves DEF DoSlot, Opened
    <3> QED BY <2>2, <3>1, <1>SameResult DEF DoSlot, reading
  <2>3. ASSUME NEW c \in Callers, OpenFail(c) PROVE OneResult'
    <3>1. \A d \in Callers : Unfinished(d)' = Unfinished(d)
      BY Zenon, <2>3 DEF OpenFail, reading, Unfinished
    <3>2. done[c] = 0 /\ Unfinished(c) = {}
      BY Zenon, <2>3 DEF OpenFail, OneResult, Opened
    <3>3. done'[c] = 1 /\ pc'[c] \in Opened
      <4>1. done'[c] = done[c] + 1 /\ pc'[c] \in Opened
        BY Zenon, <2>3 DEF OpenFail, Goto, TypeOK, Opened
      <4> QED BY <3>2, <4>1
    <3>4. \A d \in Callers \ {c} : done'[d] = done[d] /\ pc'[d] = pc[d] /\ sid'[d] = sid[d]
      BY <2>3 DEF OpenFail, Goto, TypeOK
    <3> QED BY Zenon, <3>1, <3>2, <3>3, <3>4, <1>NoStream
  <2>4. ASSUME NEW c \in Callers, StreamWrite(c) PROVE OneResult'
    BY Zenon, <2>4, Moves, <1>SameResult DEF StreamWrite, table, reading, Opened
  <2>5. ASSUME NEW c \in Callers, StreamWritten(c) PROVE OneResult'
    <3>1. \A d \in Callers : pc'[d] \in Opened <=> pc[d] \in Opened
      BY Zenon, <2>5, Moves DEF StreamWritten, BodySent, Opened
    <3> QED BY Zenon, <2>5, <3>1, <1>SameResult DEF StreamWritten, table, reading
  <2>6. ASSUME NEW c \in Callers, WriteFail(c) PROVE OneResult'
    <3>1. \A d \in Callers : pc'[d] \in Opened <=> pc[d] \in Opened
      BY <2>6, Moves DEF WriteFail, Opened
    <3> QED BY ZenonT(40), <2>6, <3>1, <1>SameResult DEF WriteFail, table, reading
  <2>7. ASSUME NEW c \in Callers, DoBody(c) PROVE OneResult'
    <3>1. \A d \in Callers : pc'[d] \in Opened <=> pc[d] \in Opened
      BY Zenon, <2>7, Moves DEF DoBody, Opened
    <3> QED BY Zenon, <2>7, <3>1, <1>SameResult DEF DoBody, table, reading
  <2>8. ASSUME NEW c \in Callers, DataWrite(c) PROVE OneResult'
    <3>1. \A d \in Callers : pc'[d] \in Opened <=> pc[d] \in Opened
      BY Zenon, <2>8, Moves DEF DataWrite, BodySent, Opened
    <3> QED BY Zenon, <2>8, <3>1, <1>SameResult DEF DataWrite, table, reading
  <2>9. ASSUME NEW c \in Callers, DoClose(c) PROVE OneResult'
    BY Zenon, <2>9, Moves, <1>SameResult DEF DoClose, table, reading, Opened
  <2>10. ASSUME NEW c \in Callers, DoReturn(c) PROVE OneResult'
    <3>1. \A d \in Callers : Unfinished(d)' = Unfinished(d)
      BY Zenon, <2>10 DEF DoReturn, table, reading, Unfinished
    <3>2. done[c] = 1 /\ Unfinished(c) = {}
      <4>1. pc[c] = "await" /\ done[c] > 0
        BY Zenon, <2>10 DEF DoReturn
      <4>2. pc[c] \in Opened
        BY Zenon, <4>1 DEF Opened
      <4> QED BY Zenon, <4>1, <4>2, <1>OnlyOne DEF OneResult
    <3>3. done'[c] = 0 /\ pc'[c] \notin Opened
      <4>1. done'[c] = done[c] - 1 /\ pc'[c] \notin Opened
        BY Zenon, <2>10 DEF DoReturn, Goto, TypeOK, Opened
      <4> QED BY Zenon, <3>2, <4>1, <1>OnlyOne
    <3>4. \A d \in Callers \ {c} : done'[d] = done[d] /\ pc'[d] = pc[d] /\ sid'[d] = sid[d]
      BY <2>10 DEF DoReturn, Goto, TypeOK
    <3> QED BY Zenon, <3>1, <3>2, <3>3, <3>4, <1>NoStream
  <2> QED BY ZenonT(40), <2>1, <2>2, <2>3, <1>ResultOpenStream, <2>4, <2>5, <2>6, <2>7,
             <2>8, <2>9, <2>10 DEF DoStep
\* WriteBatch.
<1>ResultBatch.
      ASSUME TypeOK, Shape, ReaderShape, OneResult,
             \E b \in Batchers : BatchReserve(b) \/ BatchStep(b)
      PROVE  OneResult'
  <2> USE <1>ResultBatch
  <2>1. ASSUME NEW b \in Batchers, BatchReserve(b) \/ BatchFail(b) \/ BatchWrite(b)
                                    \/ BatchWritten(b) \/ BatchClose(b)
         PROVE  OneResult'
    <3>1. UNCHANGED <<streams, ending, owner, doing>>
      BY Zenon, <2>1 DEF BatchReserve, BatchFail, BatchWrite, BatchWritten, BatchClose, table, reading
    <3> QED BY <3>1, <1>SameResult DEF doing
  <2>2. ASSUME NEW b \in Batchers, BatchOpen(b) PROVE OneResult'
    <3>1. UNCHANGED <<ending, done, sid, pc>> /\ streams' = streams \cup BatchIds(nextID)
          /\ owner' = [i \in Ids |-> IF i \in BatchIds(nextID) THEN b ELSE owner[i]]
      BY Zenon, <2>2 DEF BatchOpen, doing, reading
    <3>2. b \notin Callers
      BY Zenon, ConstantsAssumption
    <3>3. \A i \in streams \cup ending : i \in Ids /\ i \notin BatchIds(nextID)
      <4>1. \A i \in streams \cup ending : i \in Ids /\ i < nextID
        BY Zenon DEF TypeOK, Shape
      <4> QED BY SMTT(40), <4>1, IdsAreNat DEF BatchIds, TypeOK
    <3>4. \A c \in Callers : Unfinished(c)' = Unfinished(c)
      BY SMTT(40), Z3T(40), <3>1, <3>2, <3>3 DEF Unfinished, BatchIds
    <3> QED BY Zenon, <3>1, <3>4 DEF OneResult
  <2> QED BY <2>1, <2>2 DEF BatchStep
\* Streams leave the map, for the reader to finish.
<1>ResultRemoves.
      ASSUME TypeOK, Shape, ReaderShape, OneResult,
             NEW S \in SUBSET streams, Remove(S), ending = {}, UNCHANGED <<owner, doing>>
      PROVE  OneResult'
  BY SMTT(40), Z3T(40), <1>ResultRemoves, RemoveMoves, <1>SameResult DEF doing
\* Nothing that OneResult looks at changes.
<1>ResultQuiet.
      ASSUME TypeOK, Shape, ReaderShape, OneResult,
             UNCHANGED <<streams, ending, owner, doing>>
      PROVE  OneResult'
  BY <1>ResultQuiet, <1>SameResult DEF doing
\* A frame of the server.
<1>ResultFrame.
      ASSUME TypeOK, Shape, ReaderShape, OneResult,
             ServerFrame
      PROVE  OneResult'
  <2> USE <1>ResultFrame
  <2>1. ASSUME NEW i \in sent, OnStreamEnd(i) PROVE OneResult'
    <3>1. ending = {} /\ {i} \in SUBSET streams /\ Remove({i})
      BY Zenon, <2>1 DEF OnStreamEnd, TakeStream, ReaderShape
    <3> QED BY <2>1, <3>1, <1>ResultRemoves DEF OnStreamEnd
  <2>2. ASSUME NEW last, OnGoAway(last) PROVE OneResult'
    <3> DEFINE refused == {i \in streams : i > last}
    <3>1. ending = {} /\ refused \in SUBSET streams /\ Remove(refused)
      BY Zenon, <2>2 DEF OnGoAway, ReaderShape
    <3> HIDE DEF refused
    <3> QED BY <2>2, <3>1, <1>ResultRemoves DEF OnGoAway
  <2>3. CASE ServerFrame
    <3>1. ASSUME NEW i, OnOwedWrite(i) PROVE OneResult'
      BY Zenon, <3>1, <1>ResultQuiet DEF OnOwedWrite, table
    <3>2. ASSUME NEW w, NEW m, OnSettings(w, m) PROVE OneResult'
      BY Zenon, <3>2, <1>ResultQuiet DEF OnSettings, table
    <3>3. ASSUME NEW i, NEW inc, OnWindowUpdate(i, inc) PROVE OneResult'
      BY Zenon, <3>3, <1>ResultQuiet DEF OnWindowUpdate, table, reading
    <3>4. CASE ReadError
      BY Zenon, <3>4, <1>ResultQuiet DEF ReadError, table
    <3> QED BY Zenon, <2>3, <2>1, <2>2, <3>1, <3>2, <3>3, <3>4 DEF ServerFrame
  <2> QED BY <2>3
\* The reader by itself.
<1>ResultReader.
      ASSUME TypeOK, Shape, ReaderShape, OneResult,
             ReaderStep
      PROVE  OneResult'
  <2> USE <1>ResultReader
  <2>1. CASE WriteControl
    <3>1. ending = {}
      BY Zenon, <2>1 DEF WriteControl, ReaderShape
    <3>2. CASE TakeStream(rid)
      <4>1. {rid} \in SUBSET streams /\ Remove({rid})
        BY Zenon, <3>2 DEF TakeStream
      <4> QED BY <2>1, <3>1, <4>1, <1>ResultRemoves DEF WriteControl
    <3>3. CASE UNCHANGED <<streams, active, ending, waiters, sendWindow>>
      BY Zenon, <2>1, <3>3, <1>ResultQuiet DEF WriteControl
    <3> QED BY <2>1, <3>2, <3>3 DEF WriteControl
  <2>2. ASSUME NEW i \in ending, Finish(i) PROVE OneResult'
    <3>1. /\ UNCHANGED <<streams, owner, pc, sid>> /\ ending' = ending \ {i}
          /\ done' = [c \in Callers |-> IF owner[i] = c THEN done[c] + 1 ELSE done[c]]
      BY <2>2 DEF Finish, table
    <3>2. i \notin streams
      BY Zenon DEF ReaderShape
    <3>3. ASSUME NEW c \in Callers, owner[i] # c
          PROVE  done'[c] = done[c] /\ Unfinished(c)' = Unfinished(c)
      BY Zenon, <3>1, <3>2, <3>3 DEF Unfinished
    <3>4. ASSUME NEW c \in Callers, owner[i] = c
          PROVE  done'[c] = 1 /\ Unfinished(c)' = {} /\ pc[c] \in Opened
      <4>1. i \in Unfinished(c)
        BY Zenon, <3>4 DEF Unfinished
      <4>2. done[c] = 0 /\ Unfinished(c) = {i} /\ pc[c] \in Opened
        BY <4>1 DEF OneResult
      <4> QED BY <3>1, <3>2, <3>4, <4>2 DEF Unfinished
    <3> QED BY Zenon, <3>1, <3>3, <3>4 DEF OneResult
  <2>3. CASE ReaderFail
    <3>1. ending = {} /\ streams \in SUBSET streams /\ Remove(streams) /\ UNCHANGED <<owner, doing>>
      BY <2>3 DEF ReaderFail, ReaderShape
    <3> QED BY SMTT(40), Z3T(40), <3>1, <1>ResultRemoves
  <2>4. CASE ReaderStep
    <3>1. CASE ReaderClose \/ ReaderStop
      BY Zenon, <3>1, <1>ResultQuiet DEF ReaderClose, ReaderStop, table
    <3> QED BY SMTT(40), Z3T(40), <2>4, <2>1, <2>2, <2>3, <3>1 DEF ReaderStep
  <2> QED BY <2>4
<1>OneResultKept.
      ASSUME TypeOK, Shape, ReaderShape, OneResult, [Next]_vars
      PROVE  OneResult'
  <2> USE <1>OneResultKept
  <2>1. CASE CloseConn \/ NetBreak \/ UNCHANGED vars
    BY <2>1, <1>ResultQuiet DEF CloseConn, NetBreak, vars, table, reading
  <2> QED BY ZenonT(40), <2>1, <1>ResultDo, <1>ResultBatch, <1>ResultFrame, <1>ResultReader DEF Next
<1>1. Init => ReaderShape /\ FinishedOnce /\ OneResult
  BY ResultInit
<1>2. TypeOK /\ Shape /\ ReaderShape /\ FinishedOnce /\ [Next]_vars => ReaderShape' /\ FinishedOnce'
  BY ReaderKeeps
<1>3. TypeOK /\ Shape /\ ReaderShape /\ OneResult /\ [Next]_vars => OneResult'
  BY <1>OneResultKept
<1> QED BY <1>1, <1>2, <1>3, TypeCorrect, PTL DEF Spec

---------------------------------------------------------------------------
(***************************************************************************)
(* The connection implements RoundTrip: the initial states map to its own, *)
(* and every step to one of its steps or to none.                          *)
(***************************************************************************)

\* What has been proved of every state.
Known == TypeOK /\ Shape /\ ReaderShape /\ OneResult

Kept == Trip!Step \/ UNCHANGED Trip!tripVars

\* Every behaviour of clientconn.go is one that RoundTrip allows: a Do has one
\* stream and one result, nothing is opened on a connection that has failed, and
\* Close returns with every stream answered.
THEOREM PromiseKept == Spec => KeepsPromise
<1>StartsAsPromised.
      Init => Trip!Start
  BY DEF Init, Trip!Start, Asked
<1>NoneYet. ~(0 > 0) /\ 1 > 0
  OBVIOUS
\* A Do is where it was, to its caller.
<1>AskedSame. ASSUME NEW c \in Callers, done'[c] = done[c],
                     pc'[c] = "idle" <=> pc[c] = "idle", pc'[c] \in Opened <=> pc[c] \in Opened
              PROVE  Asked(c)' = Asked(c)
  BY Zenon, <1>AskedSame DEF Asked
\* A step that those who use the connection do not see.
<1>Unseen. ASSUME UNCHANGED <<owner, nextID>>, streams' \cup ending' = streams \cup ending,
                  \A c \in Callers : Asked(c)' = Asked(c),
                  err' = "nil" <=> err = "nil", closing' = "returned" <=> closing = "returned"
           PROVE  UNCHANGED Trip!tripVars
  <2> USE <1>Unseen
  <2>1. [c \in Callers |-> Asked(c)]' = [c \in Callers |-> Asked(c)]
    OBVIOUS
  <2>2. (err # "nil")' = (err # "nil") /\ (closing = "returned")' = (closing = "returned")
    OBVIOUS
  <2> QED BY <2>1, <2>2 DEF Trip!tripVars
\* One caller goes on, and no other.
<1>Moved. ASSUME NEW c \in Callers, NEW from, NEW to, Asked(c) = from, Asked(c)' = to,
                 \A d \in Callers : d # c => Asked(d)' = Asked(d)
          PROVE  Trip!Moves(c, from, to)
  BY <1>Moved, ZenonT(40) DEF Trip!Moves
\* What a Do changes of the callers is its own.
<1>OthersStay.
      ASSUME TypeOK, NEW c \in Callers, NEW l, Goto(c, l), \A d \in Callers : d # c => done'[d] = done[d]
      PROVE  /\ pc'[c] = l
             /\ \A d \in Callers : d # c => Asked(d)' = Asked(d)
  <2> USE <1>OthersStay
  <2>1. pc'[c] = l /\ \A d \in Callers : d # c => pc'[d] = pc[d]
    BY Zenon DEF Goto, TypeOK
  <2> QED BY Zenon, <2>1, <1>AskedSame
\* A Do that goes on within itself.
<1>DoUnseen. ASSUME TypeOK, NEW c \in Callers, NEW l, Goto(c, l), pc[c] # "idle", l # "idle",
                    l \in Opened <=> pc[c] \in Opened, UNCHANGED <<table, ending, closing, done>>
             PROVE  UNCHANGED Trip!tripVars
  <2> USE <1>DoUnseen
  <2>1. \A d \in Callers : Asked(d)' = Asked(d)
    BY Zenon, <1>OthersStay, <1>AskedSame
  <2> QED BY Zenon, <2>1, <1>Unseen DEF table
\* Nothing that is seen changes.
<1>AllUnseen. ASSUME UNCHANGED <<owner, nextID, pc, done>>, streams' \cup ending' = streams \cup ending,
                     err' = "nil" <=> err = "nil", closing' = "returned" <=> closing = "returned"
              PROVE  UNCHANGED Trip!tripVars
  <2> USE <1>AllUnseen
  <2>1. \A c \in Callers : Asked(c)' = Asked(c)
    BY Zenon, <1>AskedSame
  <2> QED BY Zenon, <2>1, <1>Unseen
\* The connection fails, or has failed before.
<1>Fails. ASSUME UNCHANGED <<owner, nextID, pc, done, closing>>, err' # "nil",
                 streams' \cup ending' = streams \cup ending
          PROVE  Trip!Fail
  <2> USE <1>Fails
  <2>1. \A c \in Callers : Asked(c)' = Asked(c)
    BY Zenon, <1>AskedSame
  <2>2. [c \in Callers |-> Asked(c)]' = [c \in Callers |-> Asked(c)]
    BY Zenon, <2>1
  <2> QED BY Zenon, <2>2 DEF Trip!Fail
\* Do enters, is turned away, is refused, and returns.
<1>EntersAndLeaves.
      ASSUME Known, NEW c \in Callers,
             (\E n \in Bodies : DoCall(c, n)) \/ DoSlot(c) \/ OpenFail(c) \/ DoReturn(c)
      PROVE  Kept
  <2> USE <1>EntersAndLeaves
  <2>1. ASSUME NEW n \in Bodies, DoCall(c, n) PROVE Trip!Enter(c)
    <3>1. /\ Goto(c, "slot") /\ pc[c] = "idle" /\ done' = done
          /\ UNCHANGED <<done, table, ending, closing>>
      BY <2>1 DEF DoCall, env, reading
    <3>2. done[c] = 0 /\ done'[c] = 0
      BY Zenon, <3>1 DEF Known, OneResult, Opened
    <3>3. Asked(c) = "out" /\ Asked(c)' = "in"
      <4>1. pc'[c] = "slot"
        BY Zenon, <3>1, <1>OthersStay DEF Known
      <4> QED BY Zenon, <3>1, <3>2, <4>1, <1>NoneYet DEF Asked, Opened
    <3>4. Trip!Moves(c, "out", "in")
      BY Zenon, <3>1, <3>3, <1>OthersStay, <1>Moved DEF Known
    <3> QED BY Zenon, <3>1, <3>4 DEF Trip!Enter, table
  <2>2. CASE DoSlot(c)
    <3>1. pc[c] = "slot" /\ UNCHANGED <<streams, owner, nextID, err, ending, closing, done>>
      BY Zenon, <2>2 DEF DoSlot, env, reading
    <3>2. CASE UNCHANGED pc
      BY Zenon, <3>1, <3>2, <1>AllUnseen DEF Kept
    <3>3. CASE Goto(c, "open")
      <4>1. \A d \in Callers : Asked(d)' = Asked(d)
        <5>1. pc'[c] = "open" /\ \A d \in Callers : d # c => Asked(d)' = Asked(d)
          BY Zenon, <3>1, <3>3, <1>OthersStay DEF Known
        <5>2. Asked(c)' = Asked(c)
          BY Zenon, <3>1, <5>1, <1>AskedSame DEF Opened
        <5> QED BY Zenon, <5>1, <5>2
      <4> QED BY Zenon, <3>1, <4>1, <1>Unseen DEF Kept
    <3>4. CASE err # "nil" /\ Goto(c, "idle")
      <4>1. done[c] = 0
        BY Zenon, <3>1 DEF Known, OneResult, Opened
      <4>2. Asked(c) = "in" /\ Asked(c)' = "out"
        BY Zenon, <3>1, <3>4, <4>1, <1>OthersStay, <1>NoneYet DEF Known, Asked, Opened
      <4>3. Trip!Moves(c, "in", "out")
        BY Zenon, <3>1, <3>4, <4>2, <1>OthersStay, <1>Moved DEF Known
      <4>4. Trip!TurnAway(c)
        BY Zenon, <3>1, <3>4, <4>3 DEF Trip!TurnAway
      <4> QED BY <4>4 DEF Kept, Trip!Step
    <3> QED BY Zenon, <2>2, <3>2, <3>3, <3>4 DEF DoSlot
  <2>3. CASE OpenFail(c)
    <3>1. /\ pc[c] = "open" /\ (Goto(c, "await") \/ Goto(c, "close")) /\ err' # "nil"
          /\ done' = [done EXCEPT ![c] = @ + 1]
          /\ UNCHANGED <<streams, owner, nextID, ending, closing>>
      BY ZenonT(40), <2>3 DEF OpenFail, FailLocked, env, reading
    <3>2. done[c] = 0 /\ done'[c] = 1 /\ \A d \in Callers : d # c => done'[d] = done[d]
      BY <3>1 DEF Known, OneResult, Opened, TypeOK
    <3>3. pc'[c] \in {"await", "close"} /\ \A d \in Callers : d # c => Asked(d)' = Asked(d)
      BY Zenon, <3>1, <3>2, <1>OthersStay DEF Known
    <3>4. Asked(c) = "in" /\ Asked(c)' = "told"
      BY Zenon, <3>1, <3>2, <3>3, <1>NoneYet DEF Asked, Opened
    <3>5. Trip!Moves(c, "in", "told")
      BY Zenon, <3>3, <3>4, <1>Moved
    <3>6. Trip!Refuse(c)
      BY Zenon, <3>1, <3>5 DEF Trip!Refuse
    <3> QED BY Zenon, <3>6 DEF Kept, Trip!Step
  <2>4. CASE DoReturn(c)
    <3>1. /\ pc[c] = "await" /\ done[c] > 0 /\ Goto(c, "idle")
          /\ done' = [done EXCEPT ![c] = @ - 1] /\ UNCHANGED <<table, ending, closing>>
      BY Zenon, <2>4 DEF DoReturn, env, reading
    <3>2. \A d \in Callers : d # c => done'[d] = done[d]
      BY <3>1 DEF Known, TypeOK
    <3>3. Asked(c) = "told" /\ Asked(c)' = "out"
      BY Zenon, <3>1, <3>2, <1>OthersStay DEF Known, Asked
    <3>4. Trip!Moves(c, "told", "out")
      BY Zenon, <3>1, <3>2, <3>3, <1>OthersStay, <1>Moved DEF Known
    <3>5. Trip!Leave(c)
      BY Zenon, <3>1, <3>4 DEF Trip!Leave, table
    <3> QED BY Zenon, <3>5 DEF Kept, Trip!Step
  <2> QED BY Zenon, <2>1, <2>2, <2>3, <2>4 DEF Kept, Trip!Step
\* A Do opens its stream.
<1>Asks. ASSUME Known, NEW c \in Callers, OpenStream(c)
         PROVE  Kept
  <2> USE <1>Asks
  <2>1. /\ pc[c] = "open" /\ Goto(c, "write") /\ err = "nil" /\ UNCHANGED <<err, ending, closing, done>>
        /\ streams' = streams \cup {nextID} /\ owner' = [owner EXCEPT ![nextID] = c]
        /\ nextID' = nextID + 2
    BY ZenonT(40) DEF OpenStream, env, reading
  <2>2. nextID \in Ids
    BY SMTT(40), Z3T(40), NextIsId, MaxIsNat DEF OpenStream, Exhausted, Known, TypeOK, Shape
  <2>3. done[c] = 0 /\ done'[c] = 0
    BY Zenon, <2>1 DEF Known, OneResult, Opened
  <2>4. Asked(c) = "in" /\ Asked(c)' = "asked"
    <3>1. pc'[c] = "write"
      BY Zenon, <2>1, <1>OthersStay DEF Known
    <3> QED BY Zenon, <2>1, <2>3, <3>1, <1>NoneYet DEF Asked, Opened
  <2>5. Trip!Moves(c, "in", "asked")
    BY Zenon, <2>1, <2>4, <1>OthersStay, <1>Moved DEF Known
  <2>6. Trip!Ask(c)
    BY <2>1, <2>2, <2>5 DEF Trip!Ask
  <2> QED BY <2>6 DEF Kept, Trip!Step
\* A Do writes, waits for window, and closes what it could not write to.
<1>Writes. ASSUME Known, NEW c \in Callers,
                  \/ StreamWrite(c) \/ StreamWritten(c) \/ WriteFail(c)
                  \/ DoBody(c) \/ DataWrite(c) \/ DoClose(c)
           PROVE  Kept
  <2> USE <1>Writes
  <2>1. UNCHANGED <<table, ending, closing, done>>
    BY Zenon DEF StreamWrite, StreamWritten, WriteFail, DoBody, DataWrite, DoClose, env, reading
  <2>2. /\ pc[c] \in {"write", "wrote", "data", "body", "close"}
        /\ UNCHANGED pc \/ \E l \in Opened : Goto(c, l)
    <3>1. CASE StreamWrite(c) \/ WriteFail(c) \/ DoClose(c)
      BY Zenon, <3>1 DEF StreamWrite, WriteFail, DoClose, Opened
    <3>2. CASE StreamWritten(c) \/ DataWrite(c)
      BY Zenon, <3>2 DEF StreamWritten, DataWrite, BodySent, Opened
    <3>3. CASE DoBody(c)
      BY Zenon, <3>3 DEF DoBody, Opened
    <3> QED BY Zenon, <3>1, <3>2, <3>3
  <2>3. CASE UNCHANGED pc
    BY Zenon, <2>1, <2>3, <1>AllUnseen DEF Kept, table
  <2>4. ASSUME NEW l \in Opened, Goto(c, l) PROVE Kept
    BY Zenon, <2>1, <2>2, <2>4, <1>DoUnseen DEF Known, Kept, Opened
  <2> QED BY Zenon, <2>2, <2>3, <2>4
\* WriteBatch.
<1>Batches. ASSUME Known, NEW b \in Batchers, BatchReserve(b) \/ BatchStep(b)
            PROVE  Kept
  <2> USE <1>Batches
  <2>1. CASE BatchReserve(b) \/ BatchWrite(b) \/ BatchWritten(b) \/ BatchClose(b)
    <3>1. UNCHANGED <<streams, owner, nextID, err, ending, closing, pc, done>>
      BY Zenon, <2>1 DEF BatchReserve, BatchWrite, BatchWritten, BatchClose, table, env, reading, doing
    <3> QED BY Zenon, <3>1, <1>AllUnseen DEF Kept
  <2>2. CASE BatchFail(b)
    <3>1. UNCHANGED <<streams, owner, nextID, ending, closing, pc, done>> /\ err' # "nil"
      BY Zenon, <2>2 DEF BatchFail, FailLocked, env, reading, doing
    <3>2. Trip!Fail
      BY <3>1, <1>Fails
    <3> QED BY Zenon, <3>2 DEF Kept, Trip!Step
  <2>3. CASE BatchOpen(b)
    <3>1. /\ UNCHANGED <<err, ending, closing, pc, done>> /\ err = "nil"
          /\ streams' = streams \cup BatchIds(nextID) /\ nextID' = nextID + 2 * BatchSize
          /\ owner' = [i \in Ids |-> IF i \in BatchIds(nextID) THEN b ELSE owner[i]]
      BY Zenon, <2>3 DEF BatchOpen, env, reading, doing
    <3>2. [c \in Callers |-> Asked(c)]' = [c \in Callers |-> Asked(c)]
      BY Zenon, <3>1, <1>AskedSame
    <3>3. Trip!AskMany(b)
      BY <3>1, <3>2 DEF Trip!AskMany, BatchIds
    <3> QED BY Zenon, <3>3 DEF Kept, Trip!Step
  <2> QED BY <2>1, <2>2, <2>3 DEF BatchStep
\* The server's frames: none is seen but GOAWAY, which fails the connection.
<1>Frames. ASSUME Known, ServerFrame
           PROVE  Kept
  <2> USE <1>Frames
  <2>1. ASSUME NEW i \in sent, OnStreamEnd(i) PROVE Kept
    <3>1. ending = {} /\ {i} \in SUBSET streams /\ Remove({i})
      BY <2>1 DEF Known, OnStreamEnd, TakeStream, ReaderShape
    <3>2. streams' \cup ending' = streams \cup ending
      BY <3>1, RemoveMoves DEF Known
    <3> QED BY Zenon, <2>1, <3>2, <1>AllUnseen DEF OnStreamEnd, env, doing, Kept
  <2>2. ASSUME NEW i, OnOwedWrite(i) PROVE Kept
    BY Zenon, <2>2, <1>AllUnseen DEF OnOwedWrite, table, env, doing, Kept
  <2>3. ASSUME NEW w, NEW m, OnSettings(w, m) PROVE Kept
    BY Zenon, <2>3, <1>AllUnseen DEF OnSettings, table, env, doing, Kept
  <2>4. ASSUME NEW i, NEW inc, OnWindowUpdate(i, inc) PROVE Kept
    BY <2>4, <1>AllUnseen DEF OnWindowUpdate, table, env, doing, reading, Kept
  <2>5. ASSUME NEW last, OnGoAway(last) PROVE Kept
    <3> DEFINE refused == {i \in streams : i > last}
    <3>1. ending = {} /\ refused \in SUBSET streams /\ Remove(refused)
      BY <2>5 DEF Known, OnGoAway, ReaderShape
    <3> HIDE DEF refused
    <3>2. streams' \cup ending' = streams \cup ending
      BY Zenon, <3>1, RemoveMoves DEF Known
    <3>3. UNCHANGED <<owner, nextID, pc, done, closing>> /\ err' # "nil"
      BY <2>5 DEF OnGoAway, FailLocked, env, doing
    <3>4. Trip!Fail
      BY Zenon, <3>2, <3>3, <1>Fails
    <3> QED BY Zenon, <3>4 DEF Kept, Trip!Step
  <2>6. CASE ReadError
    BY <2>6, <1>AllUnseen DEF ReadError, table, env, doing, Kept
  <2> QED BY Zenon, <2>1, <2>2, <2>3, <2>4, <2>5, <2>6 DEF ServerFrame
\* The reader gives out a result.
<1>Answers. ASSUME Known, NEW i \in ending, Finish(i)
            PROVE  Kept
  <2> USE <1>Answers
  <2>1. /\ UNCHANGED <<streams, owner, nextID, err, closing, pc>> /\ ending' = ending \ {i}
        /\ done' = [c \in Callers |-> IF owner[i] = c THEN done[c] + 1 ELSE done[c]]
    BY Zenon DEF Finish, table, env
  <2>2. streams' \cup ending' = (streams \cup ending) \ {i}
    BY <2>1 DEF Known, ReaderShape
  <2>3. \A d \in Callers : d # owner[i] => Asked(d)' = Asked(d)
    BY Zenon, <2>1, <1>AskedSame
  <2>4. CASE owner[i] \in Callers
    <3>1. PICK c \in Callers : c = owner[i]
      BY <2>4
    <3>2. i \in Unfinished(c)
      BY <3>1 DEF Unfinished
    <3>3. done[c] = 0 /\ pc[c] \in Opened
      BY Zenon, <3>2 DEF Known, OneResult
    <3>4. Asked(c) = "asked" /\ Asked(c)' = "told"
      BY <2>1, <3>1, <3>3 DEF Asked, Opened
    <3>5. Trip!Moves(c, "asked", "told")
      BY Zenon, <2>3, <3>1, <3>4, <1>Moved
    <3>6. Trip!Answer(i)
      BY Zenon, <2>1, <2>2, <3>1, <3>5 DEF Trip!Answer
    <3> QED BY <3>6 DEF Kept, Trip!Step
  <2>5. CASE owner[i] \notin Callers
    <3>1. [c \in Callers |-> Asked(c)]' = [c \in Callers |-> Asked(c)]
      BY Zenon, <2>3, <2>5
    <3>2. Trip!Answer(i)
      BY Zenon, <2>1, <2>2, <2>5, <3>1 DEF Trip!Answer
    <3> QED BY <3>2 DEF Kept, Trip!Step
  <2> QED BY Zenon, <2>4, <2>5
\* The reader by itself, otherwise.
<1>Reads. ASSUME Known, WriteControl \/ ReaderClose \/ ReaderFail \/ ReaderStop
          PROVE  Kept
  <2> USE <1>Reads
  <2>1. CASE WriteControl
    <3>1. ending = {} /\ UNCHANGED <<owner, nextID, err, pc, done, closing>>
      BY <2>1 DEF WriteControl, Known, ReaderShape, env, doing
    <3>2. CASE TakeStream(rid)
      <4>1. {rid} \in SUBSET streams /\ Remove({rid})
        BY <3>2 DEF TakeStream
      <4>2. streams' \cup ending' = streams \cup ending
        BY <3>1, <4>1, RemoveMoves DEF Known
      <4> QED BY Zenon, <3>1, <4>2, <1>AllUnseen DEF Kept
    <3>3. CASE UNCHANGED <<streams, active, ending, waiters, sendWindow>>
      BY ZenonT(40), <3>1, <3>3, <1>AllUnseen DEF Kept
    <3> QED BY ZenonT(40), <2>1, <3>2, <3>3 DEF WriteControl
  <2>2. CASE ReaderClose \/ ReaderStop
    BY <2>2, <1>AllUnseen DEF ReaderClose, ReaderStop, table, env, doing, Kept
  <2>3. CASE ReaderFail
    <3>1. /\ ending = {} /\ streams \in SUBSET streams /\ Remove(streams) /\ err' # "nil"
          /\ UNCHANGED <<owner, nextID, pc, done, closing>>
      BY <2>3 DEF ReaderFail, FailLocked, Known, ReaderShape, env, doing
    <3>2. streams' \cup ending' = streams \cup ending
      BY <3>1, RemoveMoves DEF Known
    <3>3. Trip!Fail
      BY Zenon, <3>1, <3>2, <1>Fails
    <3> QED BY SMTT(40), Z3T(40), <3>3 DEF Kept, Trip!Step
  <2> QED BY <2>1, <2>2, <2>3
\* Close returns when the reader is done, which leaves nothing unanswered.
<1>Closes. ASSUME Known, CloseConn \/ NetBreak
           PROVE  Kept
  <2> USE <1>Closes
  <2>1. UNCHANGED <<table, pc, done, ending>>
    BY DEF CloseConn, NetBreak, doing, reading
  <2>2. CASE closing' = "returned" <=> closing = "returned"
    BY <2>1, <2>2, <1>AllUnseen DEF Kept, table
  <2>3. CASE closing = "waiting" /\ rpc = "done" /\ closing' = "returned"
    <3>1. streams \cup ending = {} /\ err # "nil"
      BY Zenon, <2>3 DEF Known, ReaderShape
    <3>2. [c \in Callers |-> Asked(c)]' = [c \in Callers |-> Asked(c)]
      BY Zenon, <2>1, <1>AskedSame
    <3>3. Trip!Close
      BY <2>1, <2>3, <3>1, <3>2 DEF Trip!Close, table
    <3> QED BY <3>3 DEF Kept, Trip!Step
  <2> QED BY SMTT(40), Z3T(40), <2>2, <2>3 DEF CloseConn, NetBreak
<1>StepsAsPromised.
      Known /\ [Next]_vars => [Trip!Step]_(Trip!tripVars)
  <2> SUFFICES ASSUME Known, [Next]_vars PROVE Kept
    BY Zenon DEF Kept
  <2>1. CASE UNCHANGED vars
    BY Zenon, <2>1, <1>AllUnseen DEF vars, table, env, doing, reading, Kept
  <2>2. ASSUME NEW c \in Callers, DoStep(c) PROVE Kept
    BY Zenon, <2>2, <1>EntersAndLeaves, <1>Asks, <1>Writes DEF DoStep
  <2>3. CASE ReaderStep
    BY Zenon, <2>3, <1>Answers, <1>Reads DEF ReaderStep
  <2> QED BY Zenon, <2>1, <2>2, <2>3, <1>EntersAndLeaves, <1>Batches, <1>Frames, <1>Closes DEF Next
<1>1. Init => ReaderShape /\ FinishedOnce /\ OneResult
  BY ResultInit
<1>2. TypeOK /\ Shape /\ ReaderShape /\ FinishedOnce /\ [Next]_vars => ReaderShape' /\ FinishedOnce'
  BY ReaderKeeps
<1>3. TypeOK /\ Shape /\ ReaderShape /\ OneResult => Known
  BY DEF Known
<1> QED BY <1>1, <1>2, <1>3, OneResultAlways, TypeCorrect, <1>StartsAsPromised, <1>StepsAsPromised, PTL
        DEF Spec, KeepsPromise, Trip!Promise
=============================================================================
