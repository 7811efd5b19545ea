---------------------------- MODULE ClientConn ----------------------------
(***************************************************************************)
(* The Go client's HTTP/2 connection, benchcli-go/protocol/clientconn.go.  *)
(*                                                                         *)
(* Three kinds of goroutine share a ClientConn: the callers of Do, the     *)
(* writer that calls WriteBatch, and the reader, which NewClientConn       *)
(* starts.  What they share is guarded by mu; wmu serialises writes to the *)
(* socket.  A section of code that holds mu is one action, since nothing   *)
(* it touches is touched without mu; a parked cond.Wait is membership of   *)
(* waiters.  wmu is a variable, because writeStream and WriteBatch keep it *)
(* from numbering their streams until the write has returned.  Code that   *)
(* takes wmu around a single write (writeControl, the body loop) is one    *)
(* action, guarded by wmu being free.                                      *)
(*                                                                         *)
(* The server is the environment: any frame the reader handles, in any     *)
(* order, on any stream whose HEADERS have reached the socket.             *)
(***************************************************************************)
EXTENDS Integers, FiniteSets, Functions

CONSTANTS
  Callers,      \* goroutines that call Do
  Batchers,     \* goroutines that call WriteBatch
  NoOne,        \* nobody holds wmu
  MaxStreamID,  \* maxStreamID, 2^31 - 1 in the code
  Bodies,       \* the request body lengths a Do may send
  BatchSize,    \* WriteBatch's n
  BatchBody,    \* len(r.Body) of a batch's request
  ConnWindow,   \* defaultWindow, for the connection
  InitWindow,   \* defaultWindow, for a stream
  MaxStreams,   \* peerMaxStreams until the server says, 100 in the code
  Windows,      \* SETTINGS_INITIAL_WINDOW_SIZE values the server may send
  Limits,       \* SETTINGS_MAX_CONCURRENT_STREAMS values the server may send
  Increments,   \* WINDOW_UPDATE increments the server may send
  MaxGrant      \* bound: no window is raised past it

ASSUME ConstantsAssumption ==
  /\ IsFiniteSet(Callers) /\ IsFiniteSet(Batchers)
  /\ Callers \cap Batchers = {}
  /\ NoOne \notin Callers \cup Batchers
  /\ MaxStreamID \in Nat /\ MaxStreamID % 2 = 1
  /\ Bodies \subseteq Nat
  /\ BatchSize \in Nat \ {0} /\ BatchBody \in Nat
  /\ ConnWindow \in Nat /\ InitWindow \in Nat /\ MaxStreams \in Nat
  /\ Windows \subseteq Nat /\ Limits \subseteq Nat
  /\ Increments \subseteq Nat /\ MaxGrant \in Nat

VARIABLES
  wmu,                         \* who holds the write mutex
  conn,                        \* the socket: open, broken (by the network), closed
  closing,                     \* where a call of Close is
  streams, owner,              \* the identifiers in cc.streams; whose each is
  active, nextID, err, waiters,
  sendWindow, connSendWindow,  \* stream.sendWindow by identifier; the connection's
  peerInitialWindow, peerMaxStreams,
  pc, sid, left, took, done,   \* a Do: where it is, its stream, the body bytes left,
                               \* those it took window for, the tokens in s.done
  bpc, bfirst,                 \* a WriteBatch: where it is, its first identifier
  rpc, rid, ending,            \* the reader: where it is, the stream to end after its
                               \* write, the streams it took out and has to finish
  settingsSeen,
  \* History, for the properties: what has reached the socket, how often a stream
  \* was finished, the highest limit and the connection window granted so far.
  sent, bytesSent, endSent, delivered, hiLimit, connGranted

env == <<conn, closing>>
table == <<streams, owner, active, nextID, err>>
windows == <<sendWindow, connSendWindow, connGranted>>
peer == <<peerInitialWindow, peerMaxStreams, hiLimit>>
doing == <<pc, sid, left, took, done>>
batching == <<bpc, bfirst>>
reading == <<rpc, rid, ending, settingsSeen, delivered>>
wire == <<sent, bytesSent, endSent>>
vars == <<wmu, env, table, waiters, windows, peer, doing, batching, reading, wire>>

\* Identifiers a client may use: the odd ones.
Ids == {i \in 1..MaxStreamID : i % 2 = 1}

\* The identifiers of a batch whose first is i.
BatchIds(i) == {j \in Ids : i <= j /\ j < i + 2 * BatchSize}

MinOf(a, b) == IF a <= b THEN a ELSE b
MaxOf(a, b) == IF a >= b THEN a ELSE b

\* Mutation: the connection's window is not looked at.
TakeableByStream(n, connWin, streamWin) == MinOf(n, MaxOf(streamWin, 0))

\* takeWindowLocked: what of n bytes both windows let through.
Takeable(n, connWin, streamWin) ==
  MinOf(n, MinOf(MaxOf(connWin, 0), MaxOf(streamWin, 0)))

Init ==
  /\ wmu = NoOne /\ conn = "open" /\ closing = "no"
  /\ streams = {} /\ owner = [i \in Ids |-> NoOne]
  /\ active = 0 /\ nextID = 1 /\ err = "nil" /\ waiters = {}
  /\ sendWindow = [i \in Ids |-> 0]
  /\ connSendWindow = ConnWindow /\ connGranted = ConnWindow
  /\ peerInitialWindow = InitWindow
  /\ peerMaxStreams = MaxStreams /\ hiLimit = MaxStreams
  /\ pc = [c \in Callers |-> "idle"]
  /\ sid = [c \in Callers |-> 0]
  /\ left = [c \in Callers |-> 0]
  /\ took = [c \in Callers |-> 0]
  /\ done = [c \in Callers |-> 0]
  /\ bpc = [b \in Batchers |-> "idle"]
  /\ bfirst = [b \in Batchers |-> 0]
  /\ rpc = "read" /\ rid = 0 /\ ending = {} /\ settingsSeen = FALSE
  /\ sent = {} /\ bytesSent = 0 /\ endSent = {}
  /\ delivered = [i \in Ids |-> 0]

Goto(c, l) == pc' = [pc EXCEPT ![c] = l]
BGoto(b, l) == bpc' = [bpc EXCEPT ![b] = l]

\* Mutation: failLocked without its Broadcast.
FailSilently(e) ==
  /\ err' = IF err = "nil" THEN e ELSE err
  /\ UNCHANGED waiters

\* failLocked: the first error stays, and everyone parked is woken.
FailLocked(e) ==
  /\ err' = IF err = "nil" THEN e ELSE err
  /\ waiters' = {}

\* Mutation: the last identifier is taken for one short of it.
ExhaustedLate(n) == nextID + 2 * (n - 1) > MaxStreamID + 2

\* Too few identifiers are left for n streams.
Exhausted(n) == nextID + 2 * (n - 1) > MaxStreamID

\* Mutation: wmu covers the numbering and not the write.
NumberOnly(x) == wmu = NoOne /\ wmu' = NoOne

\* wmu is taken by x, to be kept until its write has returned.
LockWrites(x) == wmu = NoOne /\ wmu' = x

\* What a Write may return: an open socket takes it, a broken one may.
WriteOk == conn # "closed"
WriteErr == conn # "open"

---------------------------------------------------------------------------
(* Do.                                                                      *)

\* A caller enters Do with a body of n bytes and a stream from the pool.
DoCall(c, n) ==
  /\ pc[c] = "idle" /\ Goto(c, "slot")
  /\ left' = [left EXCEPT ![c] = n]
  /\ UNCHANGED <<wmu, env, table, waiters, windows, peer, sid, took, done,
                 batching, reading, wire>>

\* Mutation: one stream more than the limit.
SlotFreeInclusive == active <= peerMaxStreams

\* The server's limit lets one more stream be opened.
SlotFree == active < peerMaxStreams

\* Under mu: park while the server's limit is reached, give up when the
\* connection has failed, or count the stream in active.
DoSlot(c) ==
  /\ pc[c] = "slot" /\ c \notin waiters
  /\ \/ /\ err = "nil" /\ ~SlotFree
        /\ waiters' = waiters \cup {c}
        /\ UNCHANGED <<pc, left, active>>
     \/ /\ err # "nil" /\ Goto(c, "idle")
        /\ left' = [left EXCEPT ![c] = 0]
        /\ UNCHANGED <<waiters, active>>
     \/ /\ err = "nil" /\ SlotFree
        /\ active' = active + 1
        /\ Goto(c, "open")
        /\ UNCHANGED <<waiters, left>>
  /\ UNCHANGED <<wmu, env, streams, owner, nextID, err, windows, peer, sid, took,
                 done, batching, reading, wire>>

\* writeStream finds the connection failed, or no identifier left, which fails
\* it: the slot is given back, and Do's own stream finished here.
OpenFail(c) ==
  /\ pc[c] = "open" /\ wmu = NoOne
  /\ \/ err # "nil" /\ Goto(c, "await") /\ UNCHANGED <<err, waiters>>
     \/ /\ err = "nil" /\ Exhausted(1)
        /\ FailLocked("exhausted")
        /\ Goto(c, "close")
  /\ active' = active - 1
  /\ done' = [done EXCEPT ![c] = @ + 1]
  /\ UNCHANGED <<wmu, env, streams, owner, nextID, windows, peer, sid, left, took,
                 batching, reading, wire>>

\* writeStream numbers the stream, enters it in the map and takes window for
\* what it can of the body; wmu is kept for the write.
OpenStream(c) ==
  /\ pc[c] = "open" /\ LockWrites(c)
  /\ err = "nil" /\ ~Exhausted(1)
  /\ nextID' = nextID + 2
  /\ streams' = streams \cup {nextID}
  /\ owner' = [owner EXCEPT ![nextID] = c]
  /\ sid' = [sid EXCEPT ![c] = nextID]
  /\ LET take == Takeable(left[c], connSendWindow, peerInitialWindow)
     IN  /\ took' = [took EXCEPT ![c] = take]
         /\ connSendWindow' = connSendWindow - take
         /\ sendWindow' = [sendWindow EXCEPT ![nextID] = peerInitialWindow - take]
  /\ Goto(c, "write")
  /\ UNCHANGED <<env, active, err, waiters, connGranted, peer, left, done,
                 batching, reading, wire>>

\* Mutation: END_STREAM with the first DATA.
SendBodyEnding(c) ==
  /\ bytesSent' = bytesSent + took[c]
  /\ endSent' = endSent \cup {sid[c]}

\* The DATA a Do took window for is on the socket, END_STREAM with its last byte.
SendBody(c) ==
  /\ bytesSent' = bytesSent + took[c]
  /\ endSent' = IF took[c] = left[c] THEN endSent \cup {sid[c]} ELSE endSent

\* That write has returned: the loop goes on while there is body left.
BodySent(c) ==
  /\ left' = [left EXCEPT ![c] = @ - took[c]]
  /\ took' = [took EXCEPT ![c] = 0]
  /\ Goto(c, IF left[c] = took[c] THEN "await" ELSE "body")

\* HEADERS and the first DATA reach the socket, before the write returns.
StreamWrite(c) ==
  /\ pc[c] = "write" /\ WriteOk
  /\ sent' = sent \cup {sid[c]}
  /\ SendBody(c)
  /\ Goto(c, "wrote")
  /\ UNCHANGED <<wmu, env, table, waiters, windows, peer, sid, left, took, done,
                 batching, reading>>

\* The write returns, and wmu is released.
StreamWritten(c) ==
  /\ pc[c] = "wrote" /\ wmu' = NoOne
  /\ BodySent(c)
  /\ UNCHANGED <<env, table, waiters, windows, peer, sid, done, batching, reading,
                 wire>>

\* A write fails, its frames sent or not: the stream stays in the map for the
\* reader to fail, and Do goes on to close the connection.
WriteFail(c) ==
  /\ WriteErr
  /\ \/ pc[c] \in {"write", "wrote"} /\ wmu' = NoOne
     \/ pc[c] = "data" /\ wmu = NoOne /\ UNCHANGED wmu
  /\ Goto(c, "close")
  /\ UNCHANGED <<env, table, waiters, windows, peer, sid, left, took, done,
                 batching, reading, wire>>

\* The body loop, under mu: park without window, give up on a connection that
\* failed or a stream that is gone, or take window.
DoBody(c) ==
  /\ pc[c] = "body" /\ c \notin waiters
  /\ \/ /\ err # "nil" \/ sid[c] \notin streams
        /\ Goto(c, "await")
        /\ UNCHANGED <<waiters, took, connSendWindow, sendWindow>>
     \/ /\ err = "nil" /\ sid[c] \in streams
        /\ MinOf(connSendWindow, sendWindow[sid[c]]) <= 0
        /\ waiters' = waiters \cup {c}
        /\ UNCHANGED <<pc, took, connSendWindow, sendWindow>>
     \/ /\ err = "nil" /\ sid[c] \in streams
        /\ MinOf(connSendWindow, sendWindow[sid[c]]) > 0
        /\ LET take == Takeable(left[c], connSendWindow, sendWindow[sid[c]])
           IN  /\ took' = [took EXCEPT ![c] = take]
               /\ connSendWindow' = connSendWindow - take
               /\ sendWindow' = [sendWindow EXCEPT ![sid[c]] = @ - take]
        /\ Goto(c, "data")
        /\ UNCHANGED waiters
  /\ UNCHANGED <<wmu, env, table, connGranted, peer, sid, left, done, batching,
                 reading, wire>>

\* The rest of the body, as far as there was window, is written.
DataWrite(c) ==
  /\ pc[c] = "data" /\ wmu = NoOne /\ WriteOk
  /\ SendBody(c)
  /\ BodySent(c)
  /\ UNCHANGED <<wmu, env, table, waiters, windows, peer, sid, done, batching,
                 reading, sent>>

\* Do closes a connection it could not write to.
DoClose(c) ==
  /\ pc[c] = "close" /\ Goto(c, "await")
  /\ conn' = "closed"
  /\ UNCHANGED <<wmu, closing, table, waiters, windows, peer, sid, left, took,
                 done, batching, reading, wire>>

\* Do has its stream's token: it returns, and the stream goes to the pool.
DoReturn(c) ==
  /\ pc[c] = "await" /\ done[c] > 0 /\ Goto(c, "idle")
  /\ done' = [done EXCEPT ![c] = @ - 1]
  /\ sid' = [sid EXCEPT ![c] = 0]
  /\ left' = [left EXCEPT ![c] = 0]
  /\ took' = [took EXCEPT ![c] = 0]
  /\ UNCHANGED <<wmu, env, table, waiters, windows, peer, batching, reading, wire>>

DoStep(c) ==
  \/ DoSlot(c) \/ OpenFail(c) \/ OpenStream(c) \/ StreamWrite(c)
  \/ StreamWritten(c) \/ WriteFail(c) \/ DoBody(c) \/ DataWrite(c)
  \/ DoClose(c) \/ DoReturn(c)

---------------------------------------------------------------------------
(* WriteBatch.  A call that finds the connection failed, or the batch over  *)
(* a limit, returns at once and changes nothing, so it is no step here.     *)

\* The server's limit and both windows have room for the whole batch.
BatchRoom ==
  /\ active + BatchSize <= peerMaxStreams
  /\ connSendWindow >= BatchSize * BatchBody
  /\ peerInitialWindow >= BatchBody

\* The batch's slots and its window are reserved.
BatchReserve(b) ==
  /\ bpc[b] = "idle" /\ BGoto(b, "open")
  /\ err = "nil" /\ BatchRoom
  /\ active' = active + BatchSize
  /\ connSendWindow' = connSendWindow - BatchSize * BatchBody
  /\ UNCHANGED <<wmu, env, streams, owner, nextID, err, waiters, sendWindow,
                 connGranted, peer, doing, bfirst, reading, wire>>

\* The connection failed meanwhile, or too few identifiers are left, which
\* fails it: the slots are given back.
BatchFail(b) ==
  /\ bpc[b] = "open" /\ wmu = NoOne /\ BGoto(b, "idle")
  /\ \/ err # "nil" /\ UNCHANGED <<err, waiters>>
     \/ /\ err = "nil" /\ Exhausted(BatchSize)
        /\ FailLocked("exhausted")
  /\ active' = active - BatchSize
  /\ UNCHANGED <<wmu, env, streams, owner, nextID, windows, peer, doing, bfirst,
                 reading, wire>>

\* Mutation: the batch is numbered though the connection failed since it was reserved.
BatchOpenUnchecked(b) ==
  /\ bpc[b] = "open" /\ LockWrites(b) /\ BGoto(b, "write")
  /\ ~Exhausted(BatchSize)
  /\ bfirst' = [bfirst EXCEPT ![b] = nextID]
  /\ nextID' = nextID + 2 * BatchSize
  /\ streams' = streams \cup BatchIds(nextID)
  /\ owner' = [i \in Ids |-> IF i \in BatchIds(nextID) THEN b ELSE owner[i]]
  /\ UNCHANGED <<env, active, err, waiters, windows, peer, doing, reading, wire>>

\* The batch is numbered and entered in the map; wmu is kept for the write.
BatchOpen(b) ==
  /\ bpc[b] = "open" /\ LockWrites(b) /\ BGoto(b, "write")
  /\ err = "nil" /\ ~Exhausted(BatchSize)
  /\ bfirst' = [bfirst EXCEPT ![b] = nextID]
  /\ nextID' = nextID + 2 * BatchSize
  /\ LET new == BatchIds(nextID)
     IN  /\ streams' = streams \cup new
         /\ owner' = [i \in Ids |-> IF i \in new THEN b ELSE owner[i]]
         /\ sendWindow' = [i \in Ids |-> IF i \in new THEN peerInitialWindow - BatchBody
                                                      ELSE sendWindow[i]]
  /\ UNCHANGED <<env, active, err, waiters, connSendWindow, connGranted, peer,
                 doing, reading, wire>>

\* The batch, bodies and all, reaches the socket in one write.
BatchWrite(b) ==
  /\ bpc[b] = "write" /\ WriteOk /\ BGoto(b, "wrote")
  /\ sent' = sent \cup BatchIds(bfirst[b])
  /\ endSent' = endSent \cup BatchIds(bfirst[b])
  /\ bytesSent' = bytesSent + BatchSize * BatchBody
  /\ UNCHANGED <<wmu, env, table, waiters, windows, peer, doing, bfirst, reading>>

\* The write returns, and WriteBatch with it; or it fails, its streams left in
\* the map, and the connection has to be closed.
BatchWritten(b) ==
  /\ \/ bpc[b] = "wrote" /\ BGoto(b, "idle")
     \/ bpc[b] \in {"write", "wrote"} /\ WriteErr /\ BGoto(b, "close")
  /\ wmu' = NoOne
  /\ UNCHANGED <<env, table, waiters, windows, peer, doing, bfirst, reading, wire>>

\* WriteBatch closes the connection it could not write to, and returns.
BatchClose(b) ==
  /\ bpc[b] = "close" /\ BGoto(b, "idle")
  /\ conn' = "closed"
  /\ UNCHANGED <<wmu, closing, table, waiters, windows, peer, doing, bfirst,
                 reading, wire>>

BatchStep(b) ==
  BatchFail(b) \/ BatchOpen(b) \/ BatchWrite(b) \/ BatchWritten(b) \/ BatchClose(b)

---------------------------------------------------------------------------
(* The reader, by the kind of frame that read dispatches on.                *)

\* Mutation: the slots are not given back.
RemoveKeepsSlots(S) ==
  /\ streams' = streams \ S
  /\ sendWindow' = [i \in Ids |-> IF i \in S THEN 0 ELSE sendWindow[i]]
  /\ active' = active
  /\ ending' = S

\* Mutation: the streams are dropped, with nobody left to finish them.
RemoveForgets(S) ==
  /\ streams' = streams \ S
  /\ sendWindow' = [i \in Ids |-> IF i \in S THEN 0 ELSE sendWindow[i]]
  /\ active' = active - Cardinality(S)
  /\ ending' = {}

\* The streams in S leave the map, and their slots are free.  Their windows are
\* not looked at again, and putStream clears them.
Remove(S) ==
  /\ streams' = streams \ S
  /\ sendWindow' = [i \in Ids |-> IF i \in S THEN 0 ELSE sendWindow[i]]
  /\ active' = active - Cardinality(S)
  /\ ending' = S

\* Mutation: a frame for a stream that has ended ends it again.
TakeAgain(i) ==
  /\ i # 0
  /\ Remove({i})
  /\ waiters' = {}
  /\ rpc' = "finish"

\* Mutation: take without its Broadcast.
TakeSilently(i) ==
  /\ i \in streams
  /\ Remove({i})
  /\ UNCHANGED waiters
  /\ rpc' = "finish"

\* take: a stream still in the map leaves it, waking everyone parked, and has
\* to be finished.
TakeStream(i) ==
  /\ i \in streams
  /\ Remove({i})
  /\ waiters' = {}
  /\ rpc' = "finish"

\* The frame that ends stream i: END_STREAM on HEADERS or DATA, or RST_STREAM.
OnStreamEnd(i) ==
  /\ rpc = "read"
  /\ TakeStream(i)
  /\ UNCHANGED <<wmu, env, owner, nextID, err, connSendWindow, connGranted, peer, doing, batching, rid,
                 settingsSeen, delivered, wire>>

\* A frame that makes the reader write first: a PING (i is 0), or DATA that has
\* half used the receive window (i is the stream it ends, or 0).
OnOwedWrite(i) ==
  /\ rpc = "read" /\ rpc' = "control" /\ rid' = i
  /\ UNCHANGED <<wmu, env, table, waiters, windows, peer, doing, batching, ending,
                 settingsSeen, delivered, wire>>

\* SETTINGS: a new initial window moves every open stream's by the difference.
\* A setting the frame leaves out comes as its old value.
OnSettings(w, m) ==
  /\ rpc = "read" /\ rpc' = "settingsAck"
  /\ peerInitialWindow' = w
  /\ sendWindow' = [i \in Ids |-> IF i \in streams
                                    THEN sendWindow[i] + (w - peerInitialWindow)
                                    ELSE sendWindow[i]]
  /\ peerMaxStreams' = m
  /\ hiLimit' = MaxOf(hiLimit, m)
  /\ waiters' = {}
  /\ UNCHANGED <<wmu, env, table, connSendWindow, connGranted, doing, batching, rid,
                 ending, settingsSeen, delivered, wire>>

\* writeControl: the frame owed is written, and its handler goes on; or the
\* write fails, and read returns.
WriteControl ==
  /\ rpc \in {"control", "settingsAck"} /\ wmu = NoOne
  /\ rid' = 0
  /\ \/ WriteOk /\ TakeStream(rid)
     \/ /\ \/ WriteOk /\ rid \notin streams /\ rpc' = "read"
           \/ WriteErr /\ rpc' = "exit"
        /\ UNCHANGED <<streams, active, ending, waiters, sendWindow>>
  /\ settingsSeen' = (settingsSeen \/ (rpc = "settingsAck" /\ rpc' = "read"))
  /\ UNCHANGED <<wmu, env, owner, nextID, err, connSendWindow, connGranted, peer, doing, batching,
                 delivered, wire>>

\* WINDOW_UPDATE for the connection (i is 0), or for a stream, open or not.
OnWindowUpdate(i, inc) ==
  /\ rpc = "read"
  /\ IF i = 0
       THEN /\ connGranted + inc <= MaxGrant
            /\ connGranted' = connGranted + inc
            /\ connSendWindow' = connSendWindow + inc
            /\ UNCHANGED sendWindow
       ELSE /\ sendWindow[i] + inc <= MaxGrant
            /\ sendWindow' = [sendWindow EXCEPT ![i] = IF i \in streams THEN @ + inc ELSE @]
            /\ UNCHANGED <<connGranted, connSendWindow>>
  /\ waiters' = {}
  /\ UNCHANGED <<wmu, env, table, peer, doing, batching, reading, wire>>

\* GOAWAY: the connection takes no more streams, and those past last are refused.
OnGoAway(last) ==
  /\ rpc = "read"
  /\ FailLocked("goaway")
  /\ LET refused == {i \in streams : i > last}
     IN  Remove(refused) /\ rpc' = IF refused = {} THEN "read" ELSE "finish"
  /\ UNCHANGED <<wmu, env, owner, nextID, connSendWindow, connGranted, peer, doing, batching, rid,
                 settingsSeen, delivered, wire>>

\* read returns: the socket failed, or the frame was one the client rejects.
ReadError ==
  /\ rpc = "read" /\ rpc' = "exit"
  /\ UNCHANGED <<wmu, env, table, waiters, windows, peer, doing, batching, rid,
                 ending, settingsSeen, delivered, wire>>

\* finish: the result goes to the Do that waits for it, or to OnResult.
Finish(i) ==
  /\ rpc \in {"finish", "failing"} /\ i \in ending
  /\ delivered' = [delivered EXCEPT ![i] = @ + 1]
  /\ done' = [c \in Callers |-> IF owner[i] = c THEN done[c] + 1 ELSE done[c]]
  /\ ending' = ending \ {i}
  /\ rpc' = IF rpc = "finish" /\ ending = {i} THEN "read" ELSE rpc
  /\ UNCHANGED <<wmu, env, table, waiters, windows, peer, pc, sid, left, took,
                 batching, rid, settingsSeen, wire>>

\* readLoop once read has returned: the socket is closed ...
ReaderClose ==
  /\ rpc = "exit" /\ rpc' = "fail"
  /\ conn' = "closed"
  /\ UNCHANGED <<wmu, closing, table, waiters, windows, peer, doing, batching, rid,
                 ending, settingsSeen, delivered, wire>>

\* ... every stream is taken out of the map, for Finish ...
ReaderFail ==
  /\ rpc = "fail" /\ rpc' = "failing"
  /\ FailLocked("closed")
  /\ Remove(streams)
  /\ UNCHANGED <<wmu, env, owner, nextID, connSendWindow, connGranted, peer, doing, batching, rid,
                 settingsSeen, delivered, wire>>

\* ... and settingsSeen and readerDone are closed.
ReaderStop ==
  /\ rpc = "failing" /\ ending = {} /\ rpc' = "done"
  /\ settingsSeen' = TRUE
  /\ UNCHANGED <<wmu, env, table, waiters, windows, peer, doing, batching, rid,
                 ending, delivered, wire>>

---------------------------------------------------------------------------
\* Mutation: Close does not wait for the reader.
CloseAtOnce ==
  /\ \/ closing = "no" /\ closing' = "waiting" /\ conn' = "closed"
     \/ closing = "waiting" /\ closing' = "returned" /\ UNCHANGED conn
  /\ UNCHANGED <<wmu, table, waiters, windows, peer, doing, batching, reading, wire>>

\* Mutation: Close waits for a reader whose socket it has not closed.
CloseLater ==
  /\ \/ closing = "no" /\ closing' = "waiting" /\ UNCHANGED conn
     \/ closing = "waiting" /\ rpc = "done" /\ closing' = "returned" /\ UNCHANGED conn
  /\ UNCHANGED <<wmu, table, waiters, windows, peer, doing, batching, reading, wire>>

\* Close closes the socket and waits for the reader.
CloseConn ==
  /\ \/ closing = "no" /\ closing' = "waiting" /\ conn' = "closed"
     \/ closing = "waiting" /\ rpc = "done" /\ closing' = "returned" /\ UNCHANGED conn
  /\ UNCHANGED <<wmu, table, waiters, windows, peer, doing, batching, reading, wire>>

\* The server or the network ends the connection.
NetBreak ==
  /\ conn = "open" /\ conn' = "broken"
  /\ UNCHANGED <<wmu, closing, table, waiters, windows, peer, doing, batching,
                 reading, wire>>

---------------------------------------------------------------------------
\* What the server may send: it knows the streams whose HEADERS it was sent.
ServerFrame ==
  \/ \E i \in sent : OnStreamEnd(i)
  \/ \E i \in sent \cup {0} : OnOwedWrite(i)
  \/ \E w \in Windows \cup {peerInitialWindow}, m \in Limits \cup {peerMaxStreams} :
        OnSettings(w, m)
  \/ \E i \in sent \cup {0}, inc \in Increments : OnWindowUpdate(i, inc)
  \/ \E last \in sent \cup {0, MaxStreamID} : OnGoAway(last)
  \/ ReadError

\* What the reader does of itself.
ReaderStep ==
  \/ WriteControl \/ ReaderClose \/ ReaderFail \/ ReaderStop
  \/ \E i \in ending : Finish(i)

Next ==
  \/ \E c \in Callers : DoStep(c)
  \/ \E c \in Callers, n \in Bodies : DoCall(c, n)
  \/ \E b \in Batchers : BatchReserve(b) \/ BatchStep(b)
  \/ ServerFrame \/ ReaderStep \/ CloseConn \/ NetBreak

Spec == Init /\ [][Next]_vars

\* Goroutines are scheduled.  A socket that has failed has only so many frames
\* left in the reader's buffer, however they interleave with the reader's writes.
Scheduling ==
  /\ \A c \in Callers : WF_vars(DoStep(c))
  /\ \A b \in Batchers : WF_vars(BatchStep(b))
  /\ WF_vars(ReaderStep)
  /\ SF_vars(conn # "open" /\ ReadError)
  /\ WF_vars(closing = "waiting" /\ CloseConn)

\* The server answers a request it has all of, gives window to a body that waits
\* for it, and ends a connection it has sent GOAWAY on.
ServerAnswers ==
  /\ \A i \in Ids : SF_vars(i \in endSent /\ OnStreamEnd(i))
  /\ \A i \in Ids : SF_vars(sendWindow[i] <= 0 /\ i \in streams
                            /\ \E inc \in Increments : OnWindowUpdate(i, inc))
  /\ SF_vars(connSendWindow = 0 /\ \E inc \in Increments : OnWindowUpdate(0, inc))
  /\ WF_vars(err = "goaway" /\ NetBreak)

FairSpec == Spec /\ Scheduling /\ ServerAnswers

---------------------------------------------------------------------------
\* Where Do has a stream that the reader, or writeStream, has to finish.
Opened == {"write", "wrote", "body", "data", "close", "await"}

\* Every variable has its type.
TypeOK ==
  /\ wmu \in Callers \cup Batchers \cup {NoOne}
  /\ conn \in {"open", "broken", "closed"}
  /\ closing \in {"no", "waiting", "returned"}
  /\ streams \subseteq Ids /\ ending \subseteq Ids
  /\ owner \in [Ids -> Callers \cup Batchers \cup {NoOne}]
  /\ active \in Int /\ nextID \in Nat
  /\ err \in {"nil", "goaway", "exhausted", "closed"}
  /\ waiters \subseteq Callers
  /\ sendWindow \in [Ids -> Int]
  /\ connSendWindow \in Int /\ connGranted \in Int
  /\ peerInitialWindow \in Nat /\ peerMaxStreams \in Nat /\ hiLimit \in Nat
  /\ pc \in [Callers -> {"idle", "slot", "open"} \cup Opened]
  /\ sid \in [Callers -> Ids \cup {0}]
  /\ left \in [Callers -> Nat] /\ took \in [Callers -> Nat]
  /\ done \in [Callers -> Nat]
  /\ bpc \in [Batchers -> {"idle", "open", "write", "wrote", "close"}]
  /\ bfirst \in [Batchers -> Ids \cup {0}]
  /\ rpc \in {"read", "control", "settingsAck", "finish", "exit", "fail", "failing", "done"}
  /\ rid \in Ids \cup {0}
  /\ settingsSeen \in BOOLEAN
  /\ sent \subseteq Ids /\ bytesSent \in Nat /\ endSent \subseteq Ids
  /\ delivered \in [Ids -> Nat]

\* The callers, and the batches, that have slots and no streams yet.
Opening == {c \in Callers : pc[c] = "open"}
BatchesOpening == {b \in Batchers : bpc[b] = "open"}

\* active "counts those [streams in the map], and the ones about to be opened":
\* no interleaving of Do, WriteBatch, GOAWAY and failure loses or leaks a slot.
Accounting ==
  active = Cardinality(streams) + Cardinality(Opening)
           + BatchSize * Cardinality(BatchesOpening)

\* The streams of caller c that somebody still has to finish.
Unfinished(c) == {i \in streams \cup ending : owner[i] = c}

\* A Do that has opened its stream has exactly one result, here or to come; the
\* pool never holds a stream with a token in its done channel, and a send on the
\* channel, whose capacity is one, never blocks the reader.
OneResult ==
  \A c \in Callers :
    IF pc[c] \in Opened
      THEN \/ done[c] = 1 /\ Unfinished(c) = {}
           \/ done[c] = 0 /\ Unfinished(c) = {sid[c]}
      ELSE done[c] = 0 /\ Unfinished(c) = {}

\* A numbered stream is in the map or with the reader, and then has no result
\* yet; or it has been finished once.  Nothing is finished twice or forgotten,
\* whichever of END_STREAM, RST_STREAM, GOAWAY and the reader's exit comes first.
FinishedOnce ==
  \A i \in Ids :
    delivered[i] = IF i < nextID /\ i \notin streams \cup ending THEN 1 ELSE 0

\* Close "waits for the reader, which fails whatever was still in flight": when
\* it has returned every stream ever numbered has its result, for good.
CloseSettles ==
  closing = "returned" => \A i \in Ids : i < nextID => delivered[i] = 1

\* Nobody stays parked on cond once what it waits for has come about, in Do's
\* wait for a slot or writeStream's for window: each Broadcast that is needed is
\* there.
NoLostWakeup ==
  \A c \in waiters :
    /\ err = "nil"
    /\ \/ pc[c] = "slot" /\ active >= peerMaxStreams
       \/ /\ pc[c] = "body" /\ sid[c] \in streams
          /\ MinOf(connSendWindow, sendWindow[sid[c]]) <= 0

\* There are never more streams than the highest limit the server has set, those
\* about to be opened by Do and WriteBatch included.
WithinLimit == active <= hiLimit

\* Streams reach the socket in the order of their identifiers, "since the server
\* refuses a stream whose identifier is lower than one it has already seen".
IncreasingIDs ==
  [][\A i \in sent' \ sent, j \in sent : j < i]_vars

\* A body is sent to its last byte and no further: no DATA is written after
\* END_STREAM, and a Do whose body has not all been sent has not ended its stream.
EndsOnce ==
  \A c \in Callers :
    /\ pc[c] \in {"write", "body", "data"} => sid[c] \notin endSent
    /\ pc[c] \in {"body", "data"} => left[c] > 0 /\ took[c] <= left[c]

\* The window Do and WriteBatch have taken and sent nothing on.
TakenByDo == [c \in Callers |-> IF pc[c] \in {"write", "data"} THEN took[c] ELSE 0]
TakenByBatch ==
  [b \in Batchers |-> IF bpc[b] \in {"open", "write"} THEN BatchSize * BatchBody ELSE 0]

\* What is on the socket, what is set aside for it, and what is left of the window.
WindowUsed ==
  bytesSent + SumFunction(TakenByDo) + SumFunction(TakenByBatch) + connSendWindow

\* The connection never sends more than the server has granted it: what is on the
\* socket, what is set aside for it and what is left of the window make up the
\* grant, less what a failed connection dropped.
ConnWindowKept ==
  /\ connSendWindow >= 0
  /\ WindowUsed <= connGranted
  /\ conn = "open" /\ err = "nil" => WindowUsed = connGranted

\* Every Do returns, if the server answers: no interleaving of slots, windows,
\* the reader's writes and the connection's end leaves a caller waiting.
DoReturns == \A c \in Callers : (pc[c] = "slot") ~> (pc[c] = "idle")

\* Close returns: the reader always comes to its end once the socket is closed.
CloseReturns == (closing = "waiting") ~> (closing = "returned")

\* What writeStream's comment says of a body it gives up on, that the stream "has
\* ended, and the reader has said how".
AbandonedHasEnded ==
  [][\A c \in Callers : pc[c] = "body" /\ pc'[c] = "await" => sid[c] \notin streams]_vars

\* What WriteBatch's comment says, that it "writes nothing, and returns 0, when the
\* batch would take the connection over the server's stream limit".
BatchKeepsLimit ==
  [][\A b \in Batchers : bpc[b] = "open" /\ bpc'[b] = "write" => active' <= peerMaxStreams]_vars

---------------------------------------------------------------------------
(* What the proofs need besides: where each actor's own variables can be.   *)

\* Identifiers are handed out once, in order; Do's chunk is part of its body.
Shape ==
  /\ nextID % 2 = 1
  /\ \A i \in streams \cup ending \cup sent : i < nextID
  /\ \A c \in Callers :
       /\ sid[c] < nextID /\ took[c] <= left[c]
       /\ pc[c] \in {"idle", "slot", "open"} => sid[c] = 0 /\ took[c] = 0
       /\ pc[c] \in {"write", "wrote", "body", "data"} => sid[c] # 0
  /\ \A b \in Batchers :
       bpc[b] \in {"write", "wrote"} => bfirst[b] + 2 * BatchSize <= nextID

\* The reader owes results only while it finishes streams, and once it has
\* emptied the map nothing is entered any more.
ReaderShape ==
  /\ streams \cap ending = {}
  /\ ending # {} => rpc \in {"finish", "failing"}
  /\ rpc \in {"failing", "done"} => streams = {} /\ err # "nil"
  /\ closing = "returned" => rpc = "done"

\* wmu is held by the writer that has numbered streams it has yet to write, and
\* what is on the socket came before them.
WriterShape ==
  /\ \A c \in Callers : (wmu = c) <=> (pc[c] \in {"write", "wrote"})
  /\ \A b \in Batchers : (wmu = b) <=> (bpc[b] \in {"write", "wrote"})
  /\ \A c \in Callers : pc[c] = "write" => \A i \in sent : i < sid[c]
  /\ \A b \in Batchers : bpc[b] = "write" => \A i \in sent : i < bfirst[b]

\* The inductive invariant: all of the safety properties rest on it.
IInv ==
  /\ TypeOK /\ Shape /\ ReaderShape /\ WriterShape
  /\ Accounting /\ OneResult /\ FinishedOnce /\ NoLostWakeup
  /\ peerMaxStreams <= hiLimit /\ WithinLimit
===========================================================================
