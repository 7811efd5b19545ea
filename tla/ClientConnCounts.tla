-------------------------- MODULE ClientConnCounts --------------------------
(***************************************************************************)
(* What a ClientConn counts, for any number of callers and batchers, any   *)
(* identifiers, windows and limits: the slots of the streams, and the      *)
(* window of the connection.                                               *)
(***************************************************************************)
EXTENDS ClientConnProofs, CountTheorems

(***************************************************************************)
(* Slots: active counts the streams in the map and those about to be       *)
(* opened, through every interleaving.                                     *)
(***************************************************************************)

\* active counts the streams in the map and the ones about to be opened, for any
\* number of callers and batches: no slot is lost or leaked.
THEOREM SlotsCounted == Spec => []Accounting
\* A batch has BatchSize identifiers, so its streams use up the slots reserved.
<1>BatchIdsCount.
      ASSUME NEW n \in Nat, n % 2 = 1, n + 2 * (BatchSize - 1) <= MaxStreamID
      PROVE  IsFiniteSet(BatchIds(n)) /\ Cardinality(BatchIds(n)) = BatchSize
  <2> USE <1>BatchIdsCount
  <2> DEFINE S == 0..(BatchSize - 1)
             T == BatchIds(n)
             f == [k \in S |-> n + 2 * k]
  <2>0. MaxStreamID \in Nat /\ BatchSize \in Nat /\ BatchSize > 0
    BY ConstantsAssumption
  <2>1. \A k \in S : n + 2 * k \in T
    <3> TAKE k \in S
    <3>1. k \in Nat /\ k <= BatchSize - 1
      BY <2>0
    <3>2. n + 2 * k \in 1..MaxStreamID
      BY <2>0, <3>1
    <3>3. (n + 2 * k) % 2 = 1
      BY <3>1
    <3> QED BY <2>0, <3>1, <3>2, <3>3 DEF BatchIds, Ids
  <2>2. \A t \in T : \E k \in S : n + 2 * k = t
    <3> TAKE t \in T
    <3>1. t \in Nat /\ t % 2 = 1 /\ n <= t /\ t < n + 2 * BatchSize
      BY <2>0 DEF BatchIds, Ids
    <3>2. PICK k \in Nat : n + 2 * k = t
      <4>1. (t - n) \div 2 \in Nat /\ n + 2 * ((t - n) \div 2) = t
        BY <3>1
      <4> QED BY Zenon, <4>1
    <3>3. k \in S
      BY <2>0, <3>1, <3>2
    <3> QED BY <3>2, <3>3
  <2>3. f \in [S -> T]
    BY <2>1
  <2>4. \A a, b \in S : f[a] = f[b] => a = b
    BY <2>0
  <2>5. \A t \in T : \E k \in S : f[k] = t
    BY <2>2
  <2> HIDE DEF T, f
  <2>6. IsFiniteSet(S) /\ Cardinality(S) = BatchSize
    <3>1. 0 \in Int /\ BatchSize - 1 \in Int
      BY <2>0
    <3> QED BY <2>0, <3>1, FS_Interval
  <2> HIDE DEF S
  <2>7. IsFiniteSet(T) /\ Cardinality(T) = Cardinality(S)
    BY Zenon, <2>3, <2>4, <2>5, <2>6, Matched
  <2> QED BY <2>6, <2>7 DEF T
\* All three parts of the count are of finite sets.
<1>Counted. ASSUME TypeOK
            PROVE  /\ IsFiniteSet(streams) /\ Cardinality(streams) \in Nat
                   /\ IsFiniteSet(Opening) /\ Cardinality(Opening) \in Nat
                   /\ IsFiniteSet(BatchesOpening) /\ Cardinality(BatchesOpening) \in Nat
  <2> USE <1>Counted
  <2>1. streams \in SUBSET Ids /\ Opening \in SUBSET Callers /\ BatchesOpening \in SUBSET Batchers
    BY DEF TypeOK, Opening, BatchesOpening
  <2>2. IsFiniteSet(Opening) /\ IsFiniteSet(BatchesOpening)
    BY <2>1, ConstantsAssumption, FS_Subset
  <2> QED BY <2>1, <2>2, IdsFinite, FS_CardinalityType
\* A step that moves nobody to or from "open" has the same sets of openers.
<1>SameOpening.
      ASSUME TypeOK, NEW c \in Callers, NEW l, Goto(c, l), l # "open", pc[c] # "open"
      PROVE  Opening' = Opening
  BY <1>SameOpening DEF TypeOK, Goto, Opening
<1>SameBatchesOpening.
      ASSUME TypeOK, NEW b \in Batchers, NEW l, BGoto(b, l), l # "open", bpc[b] # "open"
      PROVE  BatchesOpening' = BatchesOpening
  BY <1>SameBatchesOpening DEF TypeOK, BGoto, BatchesOpening
\* Leaving "open" takes one out.
<1>OpeningLess.
      ASSUME TypeOK, NEW c \in Callers, NEW l, Goto(c, l), l # "open", pc[c] = "open"
      PROVE  Cardinality(Opening') = Cardinality(Opening) - 1
  <2> USE <1>OpeningLess
  <2>1. Opening' = Opening \ {c} /\ c \in Opening
    BY DEF TypeOK, Goto, Opening
  <2> QED BY Zenon, <2>1, <1>Counted, FS_RemoveElement
<1>BatchesOpeningLess.
      ASSUME TypeOK, NEW b \in Batchers, NEW l, BGoto(b, l), l # "open", bpc[b] = "open"
      PROVE  Cardinality(BatchesOpening') = Cardinality(BatchesOpening) - 1
  <2> USE <1>BatchesOpeningLess
  <2>1. BatchesOpening' = BatchesOpening \ {b} /\ b \in BatchesOpening
    BY DEF TypeOK, BGoto, BatchesOpening
  <2> QED BY Zenon, <2>1, <1>Counted, FS_RemoveElement
\* Streams that leave the map give back as many slots.
<1>RemoveCounts.
      ASSUME TypeOK, Accounting, NEW S \in SUBSET streams, Remove(S), UNCHANGED <<pc, bpc>>
      PROVE  Accounting'
  <2> USE <1>RemoveCounts
  <2>1. streams' = streams \ S /\ active' = active - Cardinality(S)
    BY DEF Remove
  <2>2. streams \cap S = S
    OBVIOUS
  <2>3. IsFiniteSet(S) /\ Cardinality(S) \in Nat
    BY <1>Counted, FS_Subset, FS_CardinalityType
  <2>4. Cardinality(streams') = Cardinality(streams) - Cardinality(S)
    <3>1. IsFiniteSet(streams)
      BY <1>Counted
    <3>2. Cardinality(streams \ S) = Cardinality(streams) - Cardinality(streams \cap S)
      BY <3>1, FS_Difference, Zenon
    <3> QED BY <2>1, <2>2, <3>2
  <2>5. Opening' = Opening /\ BatchesOpening' = BatchesOpening
    BY DEF Opening, BatchesOpening
  <2> QED BY SMTT(40), Z3T(40), <2>1, <2>3, <2>4, <2>5, <1>Counted, SizesAreNat DEF Accounting, TypeOK
<1>SameSlots. ASSUME Accounting, UNCHANGED <<streams, active>>, Opening' = Opening,
                     BatchesOpening' = BatchesOpening
              PROVE  Accounting'
  BY <1>SameSlots DEF Accounting
<1>AccountingInit.
      Init => Accounting
  <2> SUFFICES ASSUME Init PROVE Accounting
    OBVIOUS
  <2>1. streams = {} /\ Opening = {} /\ BatchesOpening = {} /\ active = 0
    BY DEF Init, Opening, BatchesOpening
  <2> QED BY <2>1, FS_EmptySet, SizesAreNat DEF Accounting
\* A Do that neither takes nor gives back a slot.
<1>SlotsMove. ASSUME TypeOK, Shape, Accounting,
                     UNCHANGED <<bpc, streams, active>>, NEW c \in Callers, NEW l, Goto(c, l),
                     l # "open", pc[c] # "open"
              PROVE  Accounting'
  BY <1>SlotsMove, <1>SameOpening, <1>SameSlots DEF BatchesOpening
\* The steps of Do.
<1>SlotsDo. ASSUME TypeOK, Shape, Accounting,
                   \E c \in Callers : DoStep(c) \/ \E n \in Bodies : DoCall(c, n)
            PROVE  Accounting'
  <2> USE <1>SlotsDo
  <2>1. ASSUME NEW c \in Callers, DoSlot(c) PROVE Accounting'
    <3>1. BatchesOpening' = BatchesOpening
      BY <2>1 DEF DoSlot, BatchesOpening, batching
    <3>2. CASE Goto(c, "idle") /\ UNCHANGED active
      BY <2>1, <3>2, <1>SlotsMove DEF DoSlot, batching
    <3>3. CASE UNCHANGED <<pc, active>>
      BY Zenon, <2>1, <3>1, <3>3, <1>SameSlots DEF DoSlot, Opening
    <3>4. CASE active' = active + 1 /\ Goto(c, "open")
      <4>1. Opening' = Opening \cup {c} /\ c \notin Opening
        BY <2>1, <3>4 DEF DoSlot, Goto, Opening, TypeOK
      <4>2. Cardinality(Opening') = Cardinality(Opening) + 1
        BY Zenon, <4>1, <1>Counted, FS_AddElement
      <4>3. streams' = streams
        BY <2>1 DEF DoSlot
      <4> QED BY SMTT(40), Z3T(40), <3>1, <3>4, <4>2, <4>3, <1>Counted, SizesAreNat DEF Accounting
    <3> QED BY Zenon, <2>1, <3>2, <3>3, <3>4 DEF DoSlot
  <2>2. ASSUME NEW c \in Callers, OpenFail(c) PROVE Accounting'
    <3>1. /\ BatchesOpening' = BatchesOpening /\ streams' = streams /\ active' = active - 1
          /\ Goto(c, "await") \/ Goto(c, "close")
      BY <2>2 DEF OpenFail, BatchesOpening, batching
    <3>2. Cardinality(Opening') = Cardinality(Opening) - 1
      BY <2>2, <3>1, <1>OpeningLess DEF OpenFail
    <3> QED BY <3>1, <3>2, <1>Counted, SizesAreNat DEF Accounting
  <2>3. ASSUME NEW c \in Callers, OpenStream(c) PROVE Accounting'
    <3>1. /\ BatchesOpening' = BatchesOpening /\ active' = active
          /\ streams' = streams \cup {nextID} /\ nextID \notin streams
      BY <2>3 DEF OpenStream, BatchesOpening, batching, TypeOK, Shape
    <3>2. Cardinality(Opening') = Cardinality(Opening) - 1
      BY <2>3, <1>OpeningLess DEF OpenStream
    <3>3. Cardinality(streams') = Cardinality(streams) + 1
      BY Zenon, <3>1, <1>Counted, FS_AddElement
    <3> QED BY SMTT(40), Z3T(40), <3>1, <3>2, <3>3, <1>Counted, SizesAreNat DEF Accounting
  <2>4. ASSUME NEW c \in Callers, DoBody(c) PROVE Accounting'
    <3>1. UNCHANGED <<bpc, streams, active>>
      BY <2>4 DEF DoBody, batching, table
    <3>2. CASE UNCHANGED pc
      BY <3>1, <3>2, <1>SameSlots DEF Opening, BatchesOpening
    <3> QED BY Zenon, <2>4, <1>SlotsMove, <3>1, <3>2 DEF DoBody
  <2>5. ASSUME NEW c \in Callers,
               StreamWrite(c) \/ StreamWritten(c) \/ WriteFail(c) \/ DataWrite(c)
               \/ DoClose(c) \/ DoReturn(c)
        PROVE  Accounting'
    <3>1. UNCHANGED <<bpc, streams, active>> /\ pc[c] # "open"
      BY Zenon, <2>5 DEF StreamWrite, StreamWritten, WriteFail, DataWrite, DoClose, DoReturn,
                  batching, table
    <3>2. \/ Goto(c, "wrote") \/ Goto(c, "await") \/ Goto(c, "body")
          \/ Goto(c, "close") \/ Goto(c, "idle")
      BY <2>5 DEF StreamWrite, StreamWritten, WriteFail, DataWrite, BodySent, DoClose, DoReturn
    <3> QED BY Zenon, <1>SlotsMove, <3>1, <3>2
  <2>6. ASSUME NEW c \in Callers, NEW n \in Bodies, DoCall(c, n) PROVE Accounting'
    BY <1>SlotsMove, <2>6 DEF DoCall, batching, table
  <2> QED BY Zenon, <2>1, <2>2, <2>3, <2>4, <2>5, <2>6 DEF DoStep
\* A batch is no longer about to be opened.
<1>SlotsOfBatch.
      ASSUME TypeOK, Shape, Accounting,
             NEW b \in Batchers, bpc[b] = "open", NEW l, BGoto(b, l), l # "open"
      PROVE  /\ BatchSize * Cardinality(BatchesOpening')
                  = BatchSize * Cardinality(BatchesOpening) - BatchSize
             /\ BatchSize * Cardinality(BatchesOpening) \in Nat
  <2> USE <1>SlotsOfBatch
  <2>1. Cardinality(BatchesOpening') = Cardinality(BatchesOpening) - 1
    BY <1>BatchesOpeningLess
  <2> QED BY <2>1, <1>Counted, SizesAreNat
\* WriteBatch.
<1>SlotsBatch.
      ASSUME TypeOK, Shape, Accounting,
             \E b \in Batchers : BatchReserve(b) \/ BatchStep(b)
      PROVE  Accounting'
  <2> USE <1>SlotsBatch
  <2>1. ASSUME NEW b \in Batchers, BatchReserve(b) PROVE Accounting'
    <3>1. Opening' = Opening /\ streams' = streams /\ active' = active + BatchSize
      BY Zenon, <2>1 DEF BatchReserve, Opening, doing
    <3>2. BatchesOpening' = BatchesOpening \cup {b} /\ b \notin BatchesOpening
      BY <2>1 DEF BatchReserve, BGoto, BatchesOpening, TypeOK
    <3>3. Cardinality(BatchesOpening') = Cardinality(BatchesOpening) + 1
      BY Zenon, <3>2, <1>Counted, FS_AddElement
    <3>4. BatchSize * Cardinality(BatchesOpening') = BatchSize * Cardinality(BatchesOpening) + BatchSize
      BY <3>3, <1>Counted, SizesAreNat
    <3>5. BatchSize * Cardinality(BatchesOpening) \in Nat
      BY <1>Counted, SizesAreNat
    <3> QED BY <3>1, <3>4, <3>5, <1>Counted, SizesAreNat DEF Accounting
  <2>2. ASSUME NEW b \in Batchers, BatchFail(b) PROVE Accounting'
    <3>1. Opening' = Opening /\ streams' = streams /\ active' = active - BatchSize
      BY <2>2 DEF BatchFail, Opening, doing
    <3>2. bpc[b] = "open" /\ BGoto(b, "idle")
      BY <2>2 DEF BatchFail
    <3> QED BY SMTT(40), Z3T(40), <1>SlotsOfBatch, <3>1, <3>2, <1>Counted, SizesAreNat DEF Accounting
  <2>3. ASSUME NEW b \in Batchers, BatchOpen(b) PROVE Accounting'
    <3>1. Opening' = Opening /\ streams' = streams \cup BatchIds(nextID) /\ active' = active
      BY Zenon, <2>3 DEF BatchOpen, Opening, doing
    <3>2. bpc[b] = "open" /\ BGoto(b, "write")
      BY Zenon, <2>3 DEF BatchOpen
    <3>3. streams \cap BatchIds(nextID) = {}
      <4>1. \A i \in streams : i \in Ids /\ i < nextID
        BY DEF TypeOK, Shape
      <4> QED BY SMTT(40), Z3T(40), <4>1, IdsAreNat DEF BatchIds, TypeOK
    <3>4. IsFiniteSet(BatchIds(nextID)) /\ Cardinality(BatchIds(nextID)) = BatchSize
      <4>1. nextID \in Nat /\ nextID % 2 = 1 /\ nextID + 2 * (BatchSize - 1) <= MaxStreamID
        BY SMTT(40), Z3T(40), <2>3, MaxIsNat, SizesAreNat DEF BatchOpen, Exhausted, TypeOK, Shape
      <4> QED BY Zenon, <4>1, <1>BatchIdsCount
    <3>5. Cardinality(streams') = Cardinality(streams) + BatchSize
      <4>1. Cardinality(streams \cap BatchIds(nextID)) = 0
        BY <3>3, FS_EmptySet
      <4>2. Cardinality(streams \cup BatchIds(nextID))
              = Cardinality(streams) + Cardinality(BatchIds(nextID))
                - Cardinality(streams \cap BatchIds(nextID))
        BY Zenon, <3>4, <1>Counted, FS_Union
      <4> QED BY SMTT(40), Z3T(40), <3>1, <3>4, <4>1, <4>2, <1>Counted, SizesAreNat
    <3> QED BY SMTT(40), Z3T(40), <1>SlotsOfBatch, <3>1, <3>2, <3>5, <1>Counted, SizesAreNat DEF Accounting
  <2>4. ASSUME NEW b \in Batchers, BatchWrite(b) \/ BatchWritten(b) \/ BatchClose(b)
         PROVE  Accounting'
    <3>1. UNCHANGED <<pc, streams, active>> /\ bpc[b] # "open"
      BY Zenon, <2>4 DEF BatchWrite, BatchWritten, BatchClose, doing, table
    <3>2. BGoto(b, "wrote") \/ BGoto(b, "idle") \/ BGoto(b, "close")
      BY <2>4 DEF BatchWrite, BatchWritten, BatchClose
    <3> QED BY Zenon, <3>1, <3>2, <1>SameBatchesOpening, <1>SameSlots DEF Opening
  <2> QED BY Zenon, <2>1, <2>2, <2>3, <2>4 DEF BatchStep
\* Nothing that Accounting looks at changes.
<1>SlotsQuiet.
      ASSUME TypeOK, Shape, Accounting,
             UNCHANGED <<pc, bpc, streams, active>>
      PROVE  Accounting'
  BY <1>SlotsQuiet, <1>SameSlots DEF Opening, BatchesOpening
\* A frame of the server.
<1>SlotsFrame.
      ASSUME TypeOK, Shape, Accounting,
             ServerFrame
      PROVE  Accounting'
  <2> USE <1>SlotsFrame
  <2>1. ASSUME NEW i \in sent, OnStreamEnd(i) PROVE Accounting'
    <3>1. Remove({i}) /\ {i} \in SUBSET streams /\ UNCHANGED <<pc, bpc>>
      BY <2>1 DEF OnStreamEnd, TakeStream, doing, batching
    <3> QED BY <3>1, <1>RemoveCounts
  <2>2. ASSUME NEW last, OnGoAway(last) PROVE Accounting'
    <3> DEFINE refused == {i \in streams : i > last}
    <3>1. Remove(refused) /\ refused \in SUBSET streams /\ UNCHANGED <<pc, bpc>>
      BY <2>2 DEF OnGoAway, doing, batching
    <3> HIDE DEF refused
    <3> QED BY <3>1, <1>RemoveCounts
  <2>3. ASSUME NEW i, OnOwedWrite(i) PROVE Accounting'
    BY Zenon, <2>3, <1>SlotsQuiet DEF OnOwedWrite, table, doing, batching
  <2>4. ASSUME NEW w, NEW m, OnSettings(w, m) PROVE Accounting'
    BY Zenon, <2>4, <1>SlotsQuiet DEF OnSettings, table, doing, batching
  <2>5. ASSUME NEW i, NEW inc, OnWindowUpdate(i, inc) PROVE Accounting'
    BY <2>5, <1>SlotsQuiet DEF OnWindowUpdate, table, doing, batching
  <2>6. CASE ReadError
    BY <2>6, <1>SlotsQuiet DEF ReadError, table, doing, batching
  <2> QED BY SMTT(40), Z3T(40), <2>1, <2>2, <2>3, <2>4, <2>5, <2>6 DEF ServerFrame
\* The reader by itself.
<1>SlotsReader.
      ASSUME TypeOK, Shape, Accounting,
             ReaderStep
      PROVE  Accounting'
  <2> USE <1>SlotsReader
  <2>1. CASE WriteControl
    <3>1. UNCHANGED <<pc, bpc>>
      BY <2>1 DEF WriteControl, doing, batching
    <3>2. CASE TakeStream(rid)
      <4>1. Remove({rid}) /\ {rid} \in SUBSET streams
        BY <3>2 DEF TakeStream
      <4> QED BY <3>1, <4>1, <1>RemoveCounts
    <3> QED BY Zenon, <2>1, <3>1, <3>2, <1>SlotsQuiet DEF WriteControl
  <2>2. CASE ReaderFail
    <3>1. Remove(streams) /\ UNCHANGED <<pc, bpc>>
      BY Zenon, <2>2 DEF ReaderFail, doing, batching
    <3> QED BY <3>1, <1>RemoveCounts
  <2>3. CASE ReaderClose \/ ReaderStop
    BY Zenon, <2>3, <1>SlotsQuiet DEF ReaderClose, ReaderStop, table, doing, batching
  <2>4. ASSUME NEW i, Finish(i) PROVE Accounting'
    BY <2>4, <1>SlotsQuiet DEF Finish, table, batching
  <2> QED BY Zenon, <2>1, <2>2, <2>3, <2>4 DEF ReaderStep
<1>AccountingKept.
      ASSUME TypeOK, Shape, Accounting, [Next]_vars
      PROVE  Accounting'
  <2> USE <1>AccountingKept
  <2>1. CASE CloseConn \/ NetBreak \/ UNCHANGED vars
    BY <2>1, <1>SlotsQuiet DEF CloseConn, NetBreak, vars, table, doing, batching
  <2> QED BY SMTT(40), Z3T(40), <2>1, <1>SlotsDo, <1>SlotsBatch, <1>SlotsFrame, <1>SlotsReader DEF Next
<1>1. TypeOK /\ Shape /\ Accounting /\ [Next]_vars => Accounting'
  BY <1>AccountingKept
<1> QED BY <1>1, <1>AccountingInit, TypeCorrect, PTL DEF Spec

---------------------------------------------------------------------------
(***************************************************************************)
(* The window of the connection.                                           *)
(***************************************************************************)

\* A connection that has failed has failed for good.
Worse == conn' = "open" /\ err' = "nil" => conn = "open" /\ err = "nil"

\* The connection sends no byte the server has not granted, and a healthy one loses none
\* of the grant, for any number of callers and batches and any windows.
THEOREM WindowConserved == Spec => []ConnWindowKept
\* The sums of what the calls of Do and of WriteBatch have taken are numbers.
<1>TakenTypes.
      ASSUME TypeOK
      PROVE  /\ \A c \in Callers : TakenByDo[c] \in Nat
             /\ \A b \in Batchers : TakenByBatch[b] \in Nat
             /\ SumFunction(TakenByDo) \in Int /\ SumFunction(TakenByBatch) \in Int
             /\ bytesSent \in Int /\ connSendWindow \in Int /\ connGranted \in Int
  <2> USE <1>TakenTypes
  <2>1. BatchSize * BatchBody \in Nat
    BY SizesAreNat
  <2>2. \A c \in Callers : TakenByDo[c] \in Nat
    BY DEF TakenByDo, TypeOK
  <2>3. \A b \in Batchers : TakenByBatch[b] \in Nat
    BY <2>1 DEF TakenByBatch
  <2>4. DOMAIN TakenByDo = Callers /\ DOMAIN TakenByBatch = Batchers
    BY DEF TakenByDo, TakenByBatch
  <2>5. SumFunction(TakenByDo) \in Int
    BY SMTT(40), <2>2, <2>4, SumInt, ConstantsAssumption DEF SumFunction
  <2>6. SumFunction(TakenByBatch) \in Int
    BY SMTT(40), <2>3, <2>4, SumInt, ConstantsAssumption DEF SumFunction
  <2>7. bytesSent \in Int /\ connSendWindow \in Int /\ connGranted \in Int
    BY DEF TypeOK
  <2> QED BY Zenon, <2>2, <2>3, <2>5, <2>6, <2>7
\* The window used moves with what one Do has taken, ...
<1>UsedByDo. ASSUME TypeOK, TypeOK', NEW c \in Callers, UNCHANGED bpc,
                    \A d \in Callers \ {c} : pc'[d] = pc[d] /\ took'[d] = took[d]
             PROVE  WindowUsed' = WindowUsed + (bytesSent' - bytesSent)
                                  + (TakenByDo'[c] - TakenByDo[c]) + (connSendWindow' - connSendWindow)
  <2> USE <1>UsedByDo
  <2>1. DOMAIN TakenByDo = Callers /\ DOMAIN TakenByDo' = Callers
    BY DEF TakenByDo
  <2>2. \A d \in Callers \ {c} : TakenByDo'[d] = TakenByDo[d]
    BY DEF TakenByDo
  <2>3. \A d \in Callers : TakenByDo[d] \in Int
    BY SMTT(40), Z3T(40), <1>TakenTypes
  <2>4. TakenByDo'[c] \in Int
    BY SMTT(40) DEF TakenByDo, TypeOK
  <2>5. SumFunctionOnSet(TakenByDo', Callers)
          = SumFunctionOnSet(TakenByDo, Callers) - TakenByDo[c] + TakenByDo'[c]
    BY SMTT(40), <2>2, <2>3, <2>4, SumUpdate, ConstantsAssumption
  <2>6. SumFunction(TakenByDo)' = SumFunction(TakenByDo) - TakenByDo[c] + TakenByDo'[c]
    BY SMTT(40), <2>1, <2>5 DEF SumFunction
  <2>7. SumFunction(TakenByBatch)' = SumFunction(TakenByBatch)
    <3>1. TakenByBatch' = TakenByBatch
      BY Zenon DEF TakenByBatch
    <3> QED BY <3>1
  <2>8. bytesSent' \in Int /\ connSendWindow' \in Int
    BY SMTT(40) DEF TypeOK
  <2> QED BY SMTT(40), Z3T(40), <2>3, <2>4, <2>6, <2>7, <2>8, <1>TakenTypes DEF WindowUsed
\* ... or one WriteBatch, ...
<1>UsedByBatch.
      ASSUME TypeOK, TypeOK', NEW b \in Batchers, UNCHANGED <<pc, took>>,
             \A d \in Batchers \ {b} : bpc'[d] = bpc[d]
      PROVE  WindowUsed' = WindowUsed + (bytesSent' - bytesSent)
                           + (TakenByBatch'[b] - TakenByBatch[b]) + (connSendWindow' - connSendWindow)
  <2> USE <1>UsedByBatch
  <2>1. DOMAIN TakenByBatch = Batchers /\ DOMAIN TakenByBatch' = Batchers
    BY DEF TakenByBatch
  <2>2. \A d \in Batchers \ {b} : TakenByBatch'[d] = TakenByBatch[d]
    BY DEF TakenByBatch
  <2>3. \A d \in Batchers : TakenByBatch[d] \in Int
    BY <1>TakenTypes
  <2>4. TakenByBatch'[b] \in Int
    <3>1. BatchSize * BatchBody \in Int
      BY SMTT(40), Z3T(40), SizesAreNat
    <3> QED BY <3>1 DEF TakenByBatch
  <2>5. SumFunctionOnSet(TakenByBatch', Batchers)
          = SumFunctionOnSet(TakenByBatch, Batchers) - TakenByBatch[b] + TakenByBatch'[b]
    BY SMTT(40), <2>2, <2>3, <2>4, SumUpdate, ConstantsAssumption
  <2>6. SumFunction(TakenByBatch)' = SumFunction(TakenByBatch) - TakenByBatch[b] + TakenByBatch'[b]
    BY Zenon, <2>1, <2>5 DEF SumFunction
  <2>7. SumFunction(TakenByDo)' = SumFunction(TakenByDo)
    <3>1. TakenByDo' = TakenByDo
      BY Zenon DEF TakenByDo
    <3> QED BY <3>1
  <2>8. bytesSent' \in Int /\ connSendWindow' \in Int
    BY DEF TypeOK
  <2> QED BY SMTT(40), Z3T(40), <2>3, <2>4, <2>6, <2>7, <2>8, <1>TakenTypes DEF WindowUsed
\* ... or with the window itself.
<1>UsedByNone.
      ASSUME TypeOK, TypeOK', UNCHANGED <<pc, took, bpc, bytesSent>>
      PROVE  WindowUsed' = WindowUsed + (connSendWindow' - connSendWindow)
  <2> USE <1>UsedByNone
  <2>1. SumFunction(TakenByDo)' = SumFunction(TakenByDo)
    <3>1. TakenByDo' = TakenByDo
      BY DEF TakenByDo
    <3> QED BY <3>1
  <2>2. SumFunction(TakenByBatch)' = SumFunction(TakenByBatch)
    <3>1. TakenByBatch' = TakenByBatch
      BY SMTT(40), Z3T(40) DEF TakenByBatch
    <3> QED BY <3>1
  <2>3. connSendWindow' \in Int
    BY DEF TypeOK
  <2> QED BY <2>1, <2>2, <2>3, <1>TakenTypes DEF WindowUsed
\* It is a number.
<1>UsedIsInt. ASSUME TypeOK PROVE WindowUsed \in Int
  BY <1>UsedIsInt, <1>TakenTypes DEF WindowUsed
\* What is taken is set aside, what is set aside is sent, and what is granted is there.
<1>WindowBalanced.
      ASSUME TypeOK, TypeOK', ConnWindowKept, Worse, connSendWindow' >= 0
      PROVE  WindowUsed' = WindowUsed + (connGranted' - connGranted) => ConnWindowKept'
  <2> USE <1>WindowBalanced
  <2>1. WindowUsed \in Int /\ connGranted \in Int /\ connGranted' \in Int
    BY <1>UsedIsInt DEF TypeOK
  <2>2. ASSUME WindowUsed' = WindowUsed + (connGranted' - connGranted)
        PROVE  ConnWindowKept'
    <3>1. WindowUsed' \in Int
      BY <2>1, <2>2
    <3>2. /\ WindowUsed <= connGranted => WindowUsed' <= connGranted'
          /\ WindowUsed = connGranted => WindowUsed' = connGranted'
      <4>1. PICK u \in Int, v \in Int : u = WindowUsed /\ v = WindowUsed'
        BY <2>1, <3>1
      <4>2. PICK g \in Int, h \in Int : g = connGranted /\ h = connGranted'
        BY <2>1
      <4>3. v = u + (h - g)
        BY <2>2, <4>1, <4>2
      <4>4. (u <= g => v <= h) /\ (u = g => v = h)
        BY <4>3
      <4> QED BY <4>1, <4>2, <4>4
    <3> QED BY <3>2 DEF ConnWindowKept, Worse
  <2> QED BY ZenonT(40), <2>2
\* What a failed connection set aside is dropped.
<1>WindowDropped.
      ASSUME TypeOK, ConnWindowKept, conn' # "open" \/ err' # "nil",
             UNCHANGED <<connSendWindow, connGranted>>, WindowUsed' \in Int, WindowUsed' <= WindowUsed
      PROVE  ConnWindowKept'
  <2> USE <1>WindowDropped
  <2>1. WindowUsed \in Int /\ connGranted \in Int
    BY Zenon, <1>UsedIsInt, <1>TakenTypes
  <2> QED BY <2>1 DEF ConnWindowKept
\* A step of Do that takes only what is there, and drops nothing.
<1>BalancedDo.
      ASSUME TypeOK, TypeOK', ConnWindowKept, NEW c \in Callers, UNCHANGED <<bpc, connGranted>>,
             \A d \in Callers \ {c} : pc'[d] = pc[d] /\ took'[d] = took[d],
             Worse, connSendWindow' >= 0,
             bytesSent' + TakenByDo'[c] + connSendWindow' = bytesSent + TakenByDo[c] + connSendWindow
      PROVE  ConnWindowKept'
  <2> USE <1>BalancedDo
  <2>1. /\ WindowUsed \in Int /\ TakenByDo[c] \in Int /\ bytesSent \in Int /\ connSendWindow \in Int
        /\ connGranted \in Int
    BY SMTT(40), Z3T(40), <1>UsedIsInt, <1>TakenTypes
  <2>2. TakenByDo'[c] \in Int /\ bytesSent' \in Int /\ connSendWindow' \in Int
    BY DEF TakenByDo, TypeOK
  <2>3. /\ WindowUsed' = WindowUsed + (bytesSent' - bytesSent)
                         + (TakenByDo'[c] - TakenByDo[c]) + (connSendWindow' - connSendWindow)
    BY ZenonT(40), <1>UsedByDo
  <2>4. WindowUsed' = WindowUsed + (connGranted' - connGranted)
    BY SMTT(40), <2>1, <2>2, <2>3
  <2> QED BY Zenon, <2>4, <1>WindowBalanced
\* What is taken from the window is with the writer, then on the socket.
<1>Passes. ASSUME NEW s \in Int, NEW w \in Int, NEW t \in Int
           PROVE  /\ s + t + (w - t) = s + 0 + w /\ (t <= w => w - t >= 0)
                  /\ (s + t) + 0 + w = s + t + w
  BY <1>Passes
<1>NatInt. Nat \subseteq Int /\ 0 \in Int
  OBVIOUS
\* The steps of Do.
<1>WindowDo. ASSUME TypeOK, TypeOK', Shape, ConnWindowKept, NEW c \in Callers,
                    DoStep(c) \/ \E n \in Bodies : DoCall(c, n)
             PROVE  ConnWindowKept'
  <2> USE <1>WindowDo
  <2>0. /\ pc \in [Callers -> {"idle", "slot", "open"} \cup Opened]
        /\ left \in [Callers -> Nat] /\ took \in [Callers -> Nat] /\ streams \subseteq Ids
        /\ bytesSent \in Nat /\ connSendWindow \in Int /\ connSendWindow >= 0
        /\ peerInitialWindow \in Int /\ sendWindow \in [Ids -> Int]
    BY DEF TypeOK, ConnWindowKept
  <2>1. /\ \A d \in Callers \ {c} : pc'[d] = pc[d] /\ took'[d] = took[d]
        /\ UNCHANGED <<bpc, connGranted>>
    BY Zenon, DoAlone
  <2>2. ASSUME NEW take \in Nat, take <= connSendWindow,
               pc[c] \notin {"write", "data"}, pc'[c] \in {"write", "data"}, took'[c] = take,
               connSendWindow' = connSendWindow - take, UNCHANGED <<conn, err, bytesSent>>
        PROVE  ConnWindowKept'
    <3>1. TakenByDo[c] = 0 /\ TakenByDo'[c] = take
      BY Zenon, <2>2 DEF TakenByDo
    <3>2. /\ bytesSent' + TakenByDo'[c] + connSendWindow' = bytesSent + TakenByDo[c] + connSendWindow
          /\ connSendWindow' >= 0
      <4>1. bytesSent \in Int /\ connSendWindow \in Int /\ take \in Int
        BY Zenon, <2>0, <2>2, <1>NatInt
      <4>2. /\ bytesSent + take + (connSendWindow - take) = bytesSent + 0 + connSendWindow
            /\ connSendWindow - take >= 0
        BY ZenonT(40), <2>2, <4>1, <1>Passes
      <4>3. bytesSent' = bytesSent /\ connSendWindow' = connSendWindow - take
        BY Zenon, <2>2
      <4> QED BY Zenon, <3>1, <4>2, <4>3
    <3> QED BY Zenon, <2>1, <2>2, <3>2, <1>BalancedDo DEF Worse
  <2>3. CASE OpenStream(c)
    <3> DEFINE take == Takeable(left[c], connSendWindow, peerInitialWindow)
    <3>1. take \in Nat /\ take <= connSendWindow
      BY Zenon, <2>0, TakeableBounds
    <3>2. /\ pc[c] \notin {"write", "data"} /\ pc'[c] \in {"write", "data"} /\ took'[c] = take
          /\ connSendWindow' = connSendWindow - take /\ UNCHANGED <<conn, err, bytesSent>>
      BY Zenon, <2>0, <2>3 DEF OpenStream, Goto, env, wire
    <3> QED BY Zenon, <2>2, <3>1, <3>2
  <2>4. CASE DoBody(c) /\ pc'[c] = "data"
    <3> DEFINE take == Takeable(left[c], connSendWindow, sendWindow[sid[c]])
    <3>1. /\ pc[c] = "body" /\ sid[c] \in streams /\ took'[c] = take
          /\ connSendWindow' = connSendWindow - take /\ UNCHANGED <<conn, err, bytesSent>>
      BY SMTT(40), Z3T(40), <2>0, <2>4 DEF DoBody, Goto, env, table, wire
    <3>2. take \in Nat /\ take <= connSendWindow
      <4>1. sendWindow[sid[c]] \in Int
        BY Zenon, <2>0, <3>1
      <4> QED BY SMTT(40), <2>0, <4>1, TakeableBounds
    <3> QED BY Zenon, <2>2, <2>4, <3>1, <3>2
  <2>5. CASE StreamWrite(c) \/ DataWrite(c)
    <3>1. /\ pc[c] \in {"write", "data"} /\ pc'[c] \notin {"write", "data"}
          /\ bytesSent' = bytesSent + took[c] /\ UNCHANGED <<conn, err, connSendWindow>>
      BY <2>0, <2>5 DEF StreamWrite, DataWrite, SendBody, BodySent, Goto, env, table, windows
    <3>2. TakenByDo[c] = took[c] /\ TakenByDo'[c] = 0
      BY Zenon, <3>1 DEF TakenByDo
    <3>3. /\ bytesSent' + TakenByDo'[c] + connSendWindow' = bytesSent + TakenByDo[c] + connSendWindow
          /\ connSendWindow' >= 0
      <4>1. bytesSent \in Int /\ connSendWindow \in Int /\ took[c] \in Int
        BY <2>0
      <4>2. (bytesSent + took[c]) + 0 + connSendWindow = bytesSent + took[c] + connSendWindow
        BY Zenon, <4>1, <1>Passes
      <4>3. bytesSent' = bytesSent + took[c] /\ connSendWindow' = connSendWindow
        BY Zenon, <3>1
      <4> QED BY Zenon, <2>0, <3>2, <4>2, <4>3
    <3> QED BY ZenonT(40), <2>1, <3>1, <3>3, <1>BalancedDo DEF Worse
  <2>6. CASE WriteFail(c)
    <3>1. conn' # "open" /\ pc'[c] = "close" /\ UNCHANGED <<connSendWindow, bytesSent>>
      BY Zenon, <2>0, <2>6 DEF WriteFail, WriteErr, Goto, env, windows, wire
    <3>2. TakenByDo[c] \in Nat /\ TakenByDo'[c] = 0
      BY Zenon, <3>1, <1>TakenTypes DEF TakenByDo
    <3>3. /\ WindowUsed' = WindowUsed + (bytesSent' - bytesSent)
                           + (TakenByDo'[c] - TakenByDo[c]) + (connSendWindow' - connSendWindow)
      BY Zenon, <2>1, <1>UsedByDo
    <3>4. WindowUsed' \in Int /\ WindowUsed' <= WindowUsed
      BY SMTT(40), Z3T(40), <2>0, <3>1, <3>2, <3>3, <1>UsedIsInt
    <3> QED BY Zenon, <2>1, <3>1, <3>4, <1>WindowDropped
  <2>7. CASE \/ \E n \in Bodies : DoCall(c, n)
             \/ DoSlot(c) \/ OpenFail(c) \/ StreamWritten(c) \/ DoClose(c) \/ DoReturn(c)
             \/ DoBody(c) /\ pc'[c] # "data"
    <3>1. UNCHANGED <<connSendWindow, bytesSent>>
      BY Zenon, <2>0, <2>7 DEF DoCall, DoSlot, OpenFail, StreamWritten, DoClose, DoReturn, DoBody, Goto,
                        windows, wire
    <3>2. Worse
      BY Zenon, <2>7 DEF DoCall, DoSlot, OpenFail, FailLocked, StreamWritten, DoClose, DoReturn,
                         DoBody, env, table, Worse
    <3>3. pc[c] \notin {"write", "data"} /\ pc'[c] \notin {"write", "data"}
      BY Zenon, <2>0, <2>7 DEF DoCall, DoSlot, OpenFail, StreamWritten, BodySent, DoClose, DoReturn, DoBody,
                        Goto
    <3>4. TakenByDo[c] = 0 /\ TakenByDo'[c] = 0
      BY Zenon, <3>3 DEF TakenByDo
    <3>5. /\ bytesSent' + TakenByDo'[c] + connSendWindow' = bytesSent + TakenByDo[c] + connSendWindow
          /\ connSendWindow' >= 0
      BY Zenon, <2>0, <3>1, <3>4
    <3> QED BY Zenon, <2>1, <3>2, <3>5, <1>BalancedDo
  <2> QED BY ZenonT(40), <2>3, <2>4, <2>5, <2>6, <2>7 DEF DoStep
<1>Enough. \A w, k \in Int : w >= k => w - k >= 0
  OBVIOUS
\* WriteBatch.
<1>WindowBatch.
      ASSUME TypeOK, TypeOK', ConnWindowKept, NEW b \in Batchers, BatchReserve(b) \/ BatchStep(b)
      PROVE  ConnWindowKept'
  <2> USE <1>WindowBatch
  <2> DEFINE K == BatchSize * BatchBody
  <2>0. /\ bpc \in [Batchers -> {"idle", "open", "write", "wrote", "close"}]
        /\ bytesSent \in Nat /\ connSendWindow \in Int /\ connSendWindow >= 0 /\ connGranted \in Int
        /\ WindowUsed \in Int
    BY <1>UsedIsInt DEF TypeOK, ConnWindowKept
  <2>a. K \in Nat
    BY SizesAreNat
  <2>z. /\ bytesSent \in Int /\ connSendWindow \in Int /\ connGranted \in Int /\ WindowUsed \in Int
        /\ K \in Int /\ connSendWindow >= 0
    BY Zenon, <2>0, <2>a, <1>NatInt
  <2>b. TakenByBatch = [d \in Batchers |-> IF bpc[d] \in {"open", "write"} THEN K ELSE 0]
    BY DEF TakenByBatch
  <2>c. TakenByBatch' = [d \in Batchers |-> IF bpc'[d] \in {"open", "write"} THEN K ELSE 0]
    BY DEF TakenByBatch
  <2>d. UNCHANGED <<pc, took>>
    BY Zenon DEF BatchReserve, BatchStep, BatchFail, BatchOpen, BatchWrite, BatchWritten,
                 BatchClose, doing
  <2>e. \A d \in Batchers \ {b} : bpc'[d] = bpc[d]
    BY Zenon, <2>0 DEF BatchReserve, BatchStep, BatchFail, BatchOpen, BatchWrite, BatchWritten,
                BatchClose, BGoto
  <2>f. WindowUsed' = WindowUsed + (bytesSent' - bytesSent)
                      + (TakenByBatch'[b] - TakenByBatch[b]) + (connSendWindow' - connSendWindow)
    BY Zenon, <2>d, <2>e, <1>UsedByBatch
  <2>1. CASE BatchReserve(b)
    <3>1. /\ bpc[b] = "idle" /\ bpc'[b] = "open" /\ connSendWindow' = connSendWindow - K
          /\ connSendWindow >= K
          /\ UNCHANGED <<conn, err, connGranted, bytesSent>>
      BY Zenon, <2>0, <2>1 DEF BatchReserve, BatchRoom, BGoto, env, wire
    <3> HIDE DEF K
    <3>2. TakenByBatch[b] = 0 /\ TakenByBatch'[b] = K
      BY Zenon, <2>b, <2>c, <3>1
    <3>3. WindowUsed' = WindowUsed + (connGranted' - connGranted) /\ connSendWindow' >= 0
      <4>1. WindowUsed' = WindowUsed + (bytesSent - bytesSent) + (K - 0) + ((connSendWindow - K) - connSendWindow)
        BY Zenon, <2>f, <3>1, <3>2
      <4>2. connGranted' - connGranted = connGranted - connGranted
        BY Zenon, <3>1
      <4>3. WindowUsed + (bytesSent - bytesSent) + (K - 0) + ((connSendWindow - K) - connSendWindow)
              = WindowUsed + (connGranted - connGranted)
        BY <2>z
      <4>4. connSendWindow' >= 0
        BY Zenon, <2>z, <3>1, <1>Enough
      <4> QED BY Zenon, <4>1, <4>2, <4>3, <4>4
    <3> QED BY Zenon, <3>1, <3>3, <1>WindowBalanced DEF Worse
  <2>2. CASE BatchWrite(b)
    <3>1. /\ bpc[b] = "write" /\ bpc'[b] = "wrote" /\ bytesSent' = bytesSent + K
          /\ UNCHANGED <<conn, err, connGranted, connSendWindow>>
      BY Zenon, <2>0, <2>2 DEF BatchWrite, BGoto, env, table, windows
    <3> HIDE DEF K
    <3>2. TakenByBatch[b] = K /\ TakenByBatch'[b] = 0
      BY Zenon, <2>b, <2>c, <3>1
    <3>3. WindowUsed' = WindowUsed + (connGranted' - connGranted) /\ connSendWindow' >= 0
      <4>1. WindowUsed' = WindowUsed + ((bytesSent + K) - bytesSent) + (0 - K) + (connSendWindow - connSendWindow)
        BY Zenon, <2>f, <3>1, <3>2
      <4>2. connGranted' - connGranted = connGranted - connGranted
        BY Zenon, <3>1
      <4>3. WindowUsed + ((bytesSent + K) - bytesSent) + (0 - K) + (connSendWindow - connSendWindow)
              = WindowUsed + (connGranted - connGranted)
        BY <2>z
      <4> QED BY Zenon, <2>z, <3>1, <4>1, <4>2, <4>3
    <3> QED BY Zenon, <3>1, <3>3, <1>WindowBalanced DEF Worse
  <2>3. CASE BatchOpen(b) \/ BatchClose(b) \/ (BatchWritten(b) /\ bpc[b] = "wrote")
    <3>1. /\ UNCHANGED <<err, connGranted, connSendWindow, bytesSent>>
      BY Zenon, <2>3 DEF BatchOpen, BatchClose, BatchWritten, table, windows, wire
    <3>2. conn' = conn \/ conn' = "closed"
      BY Zenon, <2>3 DEF BatchOpen, BatchClose, BatchWritten, env
    <3>3. (bpc[b] \in {"open", "write"}) <=> (bpc'[b] \in {"open", "write"})
      BY Zenon, <2>0, <2>3 DEF BatchOpen, BatchClose, BatchWritten, BGoto
    <3> HIDE DEF K
    <3>4. TakenByBatch'[b] = TakenByBatch[b] /\ TakenByBatch[b] \in Int
      BY Zenon, <2>z, <2>b, <2>c, <3>3, <1>NatInt
    <3>5. WindowUsed' = WindowUsed + (connGranted' - connGranted) /\ connSendWindow' >= 0
      <4> DEFINE t == TakenByBatch[b]
      <4>1. WindowUsed' = WindowUsed + (bytesSent - bytesSent) + (t - t) + (connSendWindow - connSendWindow)
        BY Zenon, <2>f, <3>1, <3>4
      <4>2. connGranted' - connGranted = connGranted - connGranted
        BY Zenon, <3>1
      <4>3. t \in Int
        BY Zenon, <3>4
      <4>4. WindowUsed + (bytesSent - bytesSent) + (t - t) + (connSendWindow - connSendWindow)
              = WindowUsed + (connGranted - connGranted)
        BY <2>z, <4>3
      <4> QED BY Zenon, <2>z, <3>1, <4>1, <4>2, <4>4
    <3> QED BY Zenon, <3>1, <3>2, <3>5, <1>WindowBalanced DEF Worse
  <2>4. CASE BatchFail(b) \/ (BatchWritten(b) /\ bpc[b] # "wrote")
    <3>1. /\ UNCHANGED <<connGranted, connSendWindow, bytesSent>>
      BY Zenon, <2>4 DEF BatchFail, BatchWritten, windows, wire
    <3>2. conn' # "open" \/ err' # "nil"
      BY Zenon, <2>4 DEF BatchFail, FailLocked, BatchWritten, WriteErr, env
    <3>3. bpc'[b] \notin {"open", "write"}
      BY Zenon, <2>0, <2>4 DEF BatchFail, BatchWritten, BGoto
    <3> HIDE DEF K
    <3>4. TakenByBatch'[b] = 0 /\ TakenByBatch[b] \in Nat
      BY Zenon, <2>a, <2>b, <2>c, <3>3
    <3>5. WindowUsed' \in Int /\ WindowUsed' <= WindowUsed
      BY SMTT(40), Z3T(40), <2>0, <2>f, <3>1, <3>4
    <3> QED BY Zenon, <3>1, <3>2, <3>5, <1>WindowDropped
  <2> QED BY ZenonT(40), <2>1, <2>2, <2>3, <2>4 DEF BatchStep
\* The reader, and all that is not a write.
<1>WindowRest.
      ASSUME TypeOK, TypeOK', ConnWindowKept,
             ServerFrame \/ ReaderStep \/ CloseConn \/ NetBreak \/ UNCHANGED vars
      PROVE  ConnWindowKept'
  <2> USE <1>WindowRest
  <2>0. /\ connSendWindow \in Int /\ connSendWindow >= 0 /\ connGranted \in Int
        /\ WindowUsed \in Int
    BY <1>UsedIsInt DEF TypeOK, ConnWindowKept
  <2>1. WindowUsed' = WindowUsed + (connSendWindow' - connSendWindow)
    BY Offstage, <1>UsedByNone DEF batching, wire
  <2> DEFINE Quiet == Worse /\ UNCHANGED <<connSendWindow, connGranted>>
  <2>2. CASE \E i \in sent \cup {0}, inc \in Increments : OnWindowUpdate(i, inc)
    <3>1. PICK i \in sent \cup {0}, inc \in Increments : OnWindowUpdate(i, inc)
      BY <2>2
    <3>2. inc \in Nat
      BY Zenon, ConstantsAssumption
    <3>3. UNCHANGED <<conn, err>>
      BY Zenon, <3>1 DEF OnWindowUpdate, env, table
    <3>4. \/ connSendWindow' = connSendWindow + inc /\ connGranted' = connGranted + inc
          \/ connSendWindow' = connSendWindow /\ connGranted' = connGranted
      BY <3>1 DEF OnWindowUpdate
    <3>5. WindowUsed' = WindowUsed + (connGranted' - connGranted) /\ connSendWindow' >= 0
      BY SMTT(40), <2>0, <2>1, <3>2, <3>4
    <3> QED BY Zenon, <3>3, <3>5, <1>WindowBalanced DEF Worse
  <2>3. CASE ~ \E i \in sent \cup {0}, inc \in Increments : OnWindowUpdate(i, inc)
    <3>1. Quiet
      <4>1. ASSUME NEW i, OnStreamEnd(i) \/ OnOwedWrite(i) \/ Finish(i) PROVE Quiet
        BY Zenon, <4>1 DEF OnStreamEnd, OnOwedWrite, Finish, env, table, windows, Worse
      <4>2. ASSUME NEW w, NEW m, NEW last, OnSettings(w, m) \/ OnGoAway(last) PROVE Quiet
        BY Zenon, <4>2 DEF OnSettings, OnGoAway, FailLocked, env, table, windows, Worse
      <4>3. CASE ReadError \/ WriteControl \/ ReaderStop
        BY Zenon, <4>3 DEF ReadError, WriteControl, ReaderStop, env, table, windows, Worse
      <4>4. CASE ReaderClose \/ ReaderFail
        BY Zenon, <4>4 DEF ReaderClose, ReaderFail, FailLocked, env, table, windows, Worse
      <4>5. CASE CloseConn \/ NetBreak \/ UNCHANGED vars
        BY Zenon, <4>5 DEF CloseConn, NetBreak, vars, env, table, windows, Worse
      <4> HIDE DEF Quiet
      <4> QED BY Zenon, <2>3, <4>1, <4>2, <4>3, <4>4, <4>5 DEF ServerFrame, ReaderStep
    <3>2. WindowUsed' = WindowUsed + (connGranted' - connGranted) /\ connSendWindow' >= 0
      BY <2>0, <2>1, <3>1
    <3> QED BY Zenon, <3>1, <3>2, <1>WindowBalanced
  <2> QED BY ZenonT(40), <2>2, <2>3
<1>1. Init => ConnWindowKept
  <2> SUFFICES ASSUME Init PROVE ConnWindowKept
    OBVIOUS
  <2>1. /\ \A c \in Callers : TakenByDo[c] = 0
        /\ \A b \in Batchers : TakenByBatch[b] = 0
    BY DEF Init, TakenByDo, TakenByBatch
  <2>2. DOMAIN TakenByDo = Callers /\ DOMAIN TakenByBatch = Batchers
    BY Zenon DEF TakenByDo, TakenByBatch
  <2>3. SumFunction(TakenByDo) = 0
    BY Zenon, <2>1, <2>2, SumZero, ConstantsAssumption DEF SumFunction
  <2>4. SumFunction(TakenByBatch) = 0
    BY Zenon, <2>1, <2>2, SumZero, ConstantsAssumption DEF SumFunction
  <2>5. ConnWindow \in Nat /\ bytesSent = 0 /\ connSendWindow = ConnWindow
        /\ connGranted = ConnWindow
    BY ConstantsAssumption DEF Init
  <2>6. WindowUsed = ConnWindow
    BY SMTT(40), Z3T(40), <2>3, <2>4, <2>5 DEF WindowUsed
  <2> QED BY SMTT(40), Z3T(40), <2>5, <2>6 DEF ConnWindowKept
<1>2. TypeOK /\ TypeOK' /\ Shape /\ ConnWindowKept /\ [Next]_vars => ConnWindowKept'
  BY <1>WindowDo, <1>WindowBatch, <1>WindowRest DEF Next
<1> QED BY <1>1, <1>2, TypeCorrect, PTL DEF Spec
=============================================================================
