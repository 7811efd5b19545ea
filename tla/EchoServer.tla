----------------------------- MODULE EchoServer -----------------------------
(***************************************************************************)
(* Requests as benchcli-go/protocol/http2.go encodes them, on their way      *)
(* through a server's HTTP/2 to the echo handlers of frameworks/handlers.go, *)
(* which read each body into a buffer from one pool and write it back.       *)
(*                                                                          *)
(* Streams 1, 3, 5, ... of one connection each carry one request.  The       *)
(* server's HTTP/2 is external: Frame and Fields say what the RFCs make of   *)
(* the bytes, Receive hands a stream what has arrived for it.                *)
(***************************************************************************)
EXTENDS Framing, FiniteSets

CONSTANTS Requests,     \* records: method, authority, path, body, hasBody, declared
          Count,        \* streams
          Payload       \* -b, the size of a new buffer

VARIABLES request,      \* the request on each stream
          wire,         \* bytes of the connection the server has not read
          arrived,      \* per stream: r.ContentLength, body bytes that wait, ended, reset
          hpc,          \* where each stream's handler is
          held,         \* the buffer it took
          n,            \* bytes it has read into it
          response,     \* what it answered
          pool,         \* BodyPool: the buffers nobody holds
          memory        \* what is in each buffer; its length is the capacity

vars == <<request, wire, arrived, hpc, held, n, response, pool, memory>>

Streams == {2 * i - 1 : i \in 1..Count}
Buffers == 1..Count

Encode(r) ==
    NewRequest(EncodeHeaderBlock(r.method, r.authority, r.path, r.body, r.hasBody), r.body)

\* The requests one after the other, as writes of single requests leave them on the socket.
Written(rs) ==
    LET Upto[i \in Nat] == IF i = 0 THEN <<>> ELSE AppendTo(Encode(rs[2 * i - 1]), Upto[i - 1], 2 * i - 1)
    IN  Upto[Count]

----------------------------------------------------------------------------
(* RFC 9113 section 4.1 and RFC 7541 sections 5 and 6, from the receiver's side. *)

\* The frame that starts at byte p of bytes.
Frame(bytes, p) ==
    LET length == bytes[p] * 65536 + bytes[p + 1] * 256 + bytes[p + 2]
    IN  [typ |-> bytes[p + 3], flags |-> bytes[p + 4],
         id |-> bytes[p + 5] * 16777216 + bytes[p + 6] * 65536 + bytes[p + 7] * 256 + bytes[p + 8],
         payload |-> SubSeq(bytes, p + 9, p + 8 + length), next |-> p + 9 + length]

Frames(bytes) ==
    LET From[p \in Nat] == IF p > Len(bytes) THEN <<>>
                           ELSE <<Frame(bytes, p)>> \o From[Frame(bytes, p).next]
    IN  From[1]

\* The integer of an m-bit prefix at p: its value and where the rest starts.
HpackInt(bytes, p, m) ==
    LET limit == 2^m - 1
        low == bytes[p] % (2^m)
        More[q \in Nat] == IF bytes[q] < 128 THEN [value |-> bytes[q], next |-> q + 1]
                           ELSE LET more == More[q + 1]
                                IN  [value |-> bytes[q] - 128 + 128 * more.value, next |-> more.next]
    IN  IF low < limit THEN [value |-> low, next |-> p + 1]
        ELSE [value |-> limit + More[p + 1].value, next |-> More[p + 1].next]

\* The header fields of a block without Huffman codes: an index and, for a literal, its value.
Fields(block) ==
    LET From[p \in Nat] ==
            IF p > Len(block) THEN <<>>
            ELSE IF block[p] >= 128
            THEN <<[index |-> block[p] - 128, value |-> <<>>]>> \o From[p + 1]
            ELSE LET name == HpackInt(block, p, 4)
                     length == HpackInt(block, name.next, 7)
                     end == length.next + length.value
                 IN  <<[index |-> name.value, value |-> SubSeq(block, length.next, end - 1)]>>
                         \o From[end]
    IN  From[1]

Atoi(digits) ==
    LET Value[i \in Nat] == IF i = 0 THEN 0 ELSE 10 * Value[i - 1] + digits[i] - 48
    IN  Value[Len(digits)]

\* r.ContentLength: the header, 0 for a request that ends with its headers, -1 for neither.
ContentLength(f) ==
    LET fields == Fields(f.payload)
        stated == {fields[i].value : i \in {j \in DOMAIN fields : fields[j].index = 28}}
    IN  IF request[f.id].declared /\ stated # {} THEN Atoi(CHOOSE v \in stated : TRUE)
        ELSE IF f.flags % 2 = 1 THEN 0 ELSE -1

----------------------------------------------------------------------------
Init ==
    /\ request \in [Streams -> Requests]
    /\ wire = Written(request)
    /\ arrived = [s \in Streams |-> [length |-> 0, bytes |-> <<>>,
                                        ended |-> FALSE, reset |-> FALSE]]
    /\ hpc = [s \in Streams |-> "none"]
    /\ held = [s \in Streams |-> 0]
    /\ n = [s \in Streams |-> 0]
    /\ response = [s \in Streams |-> [status |-> 0, body |-> <<>>]]
    /\ pool = {}
    /\ memory = [b \in Buffers |-> <<>>]

\* The server reads a frame: HEADERS start a handler, DATA is handed to it.
Receive ==
    /\ wire # <<>>
    /\ LET f == Frame(wire, 1)
       IN  /\ wire' = SubSeq(wire, f.next, Len(wire))
           /\ hpc' = IF f.typ = frameHeaders THEN [hpc EXCEPT ![f.id] = "get"] ELSE hpc
           /\ arrived' = [arrived EXCEPT
                  ![f.id].length = IF f.typ = frameHeaders THEN ContentLength(f) ELSE @,
                  ![f.id].bytes = IF f.typ = frameData THEN @ \o f.payload ELSE @,
                  ![f.id].ended = f.flags % 2 = 1]
    /\ UNCHANGED <<request, held, n, response, pool, memory>>

\* The client gives a request up, or the connection breaks: the body cannot be read on.
Reset(s) ==
    /\ ~arrived[s].ended
    /\ arrived' = [arrived EXCEPT ![s].reset = TRUE]
    /\ UNCHANGED <<request, wire, hpc, held, n, response, pool, memory>>

\* BodyPool.Get, a new buffer when it has none or has dropped what it had.
PoolGet(s, b) ==
    /\ hpc[s] = "get"
    /\ b \in pool \/ memory[b] = <<>>
    /\ held' = [held EXCEPT ![s] = b]
    /\ pool' = pool \ {b}
    /\ hpc' = [hpc EXCEPT ![s] = "read"]
    /\ LET size == Larger(Payload, Larger(Len(memory[b]), arrived[s].length))
       IN  memory' = [memory EXCEPT ![b] = [i \in 1..size |-> IF i <= Len(@) THEN @[i] ELSE 0]]
    /\ UNCHANGED <<request, wire, arrived, n, response>>

\* How much of what waits one Read may take: up to the length, or the room there is.
Room(s) ==
    IF arrived[s].length >= 0 THEN arrived[s].length - n[s]
    ELSE Larger(Len(memory[held[s]]) - n[s], 1)

\* One Read of the body, which fills part of the buffer; a full one of unknown length grows.
ReadBody(s, k) ==
    /\ hpc[s] = "read"
    /\ k <= Room(s)
    /\ LET old == memory[held[s]]
           bytes == arrived[s].bytes
       IN  memory' = [memory EXCEPT ![held[s]] =
                         [i \in 1..Larger(Len(old), n[s] + k) |->
                             IF i - n[s] \in 1..k THEN bytes[i - n[s]] ELSE old[i]]]
    /\ arrived' = [arrived EXCEPT ![s].bytes = SubSeq(@, k + 1, Len(@))]
    /\ n' = [n EXCEPT ![s] = @ + k]
    /\ UNCHANGED <<request, wire, hpc, held, response, pool>>

\* MUTANT of ReadEnd: the buffer is given back once it is read, before it is written from.
ReadEndPuts(s) ==
    /\ hpc[s] = "read"
    /\ LET atEnd == arrived[s].ended /\ arrived[s].bytes = <<>>
           whole == IF arrived[s].length >= 0 THEN n[s] = arrived[s].length ELSE atEnd
       IN  /\ whole \/ atEnd \/ arrived[s].reset
           /\ hpc' = [hpc EXCEPT ![s] = IF whole THEN "write" ELSE "refuse"]
    /\ pool' = pool \cup {held[s]}
    /\ UNCHANGED <<request, wire, arrived, held, n, response, memory>>

\* ReadBody returns: with the body, or with an error when it ends early or was given up.
ReadEnd(s) ==
    /\ hpc[s] = "read"
    /\ LET atEnd == arrived[s].ended /\ arrived[s].bytes = <<>>
           whole == IF arrived[s].length >= 0 THEN n[s] = arrived[s].length ELSE atEnd
       IN  /\ whole \/ atEnd \/ arrived[s].reset
           /\ hpc' = [hpc EXCEPT ![s] = IF whole THEN "write" ELSE "refuse"]
    /\ UNCHANGED <<request, wire, arrived, held, n, response, pool, memory>>

\* OnEcho writes the body back, out of the buffer it still holds, or 400.
OnEcho(s) ==
    /\ hpc[s] \in {"write", "refuse"}
    /\ response' = [response EXCEPT ![s] =
           IF hpc[s] = "write"
           THEN [status |-> 200, body |-> SubSeq(memory[held[s]], 1, n[s])]
           ELSE [status |-> 400, body |-> <<>>]]
    /\ hpc' = [hpc EXCEPT ![s] = "put"]
    /\ UNCHANGED <<request, wire, arrived, held, n, pool, memory>>

\* The deferred BodyPool.Put.
PoolPut(s) ==
    /\ hpc[s] = "put"
    /\ pool' = pool \cup {held[s]}
    /\ hpc' = [hpc EXCEPT ![s] = "end"]
    /\ UNCHANGED <<request, wire, arrived, held, n, response, memory>>

Done == (\A s \in Streams : hpc[s] = "end") /\ wire = <<>> /\ UNCHANGED vars

Next ==
    \/ Receive
    \/ \E s \in Streams : \/ Reset(s) \/ ReadEnd(s) \/ OnEcho(s) \/ PoolPut(s)
                          \/ \E b \in Buffers : PoolGet(s, b)
                          \/ \E k \in 1..Len(arrived[s].bytes) : ReadBody(s, k)
    \/ Done

Spec == Init /\ [][Next]_vars

----------------------------------------------------------------------------
\* What a server reads off a connection is what was asked: appendHeaders, appendData, NewRequest's
\* offsets and AppendTo leave, for every stream, its header fields in one HEADERS frame and then its
\* body in DATA frames no longer than a frame may be, with END_STREAM on the last frame and on no
\* other; and a batch written by Repeat is the same bytes as its requests written one by one.
DecodesBack ==
    (\A s \in Streams : hpc[s] = "none") =>
        /\ \A s \in Streams :
              LET r == request[s]
                  fs == SelectSeq(Frames(wire), LAMBDA f : f.id = s)
                  Sent[i \in Nat] == IF i = 1 THEN <<>> ELSE Sent[i - 1] \o fs[i].payload
                  fields == <<[index |-> IF r.method = "GET" THEN 2 ELSE 3, value |-> <<>>],
                              [index |-> 6, value |-> <<>>], [index |-> 4, value |-> r.path],
                              [index |-> 1, value |-> r.authority]>>
                  content == <<[index |-> 31, value |-> octetStream],
                               [index |-> 28, value |-> Itoa(Len(r.body))]>>
              IN  /\ fs[1].typ = frameHeaders
                  /\ Fields(fs[1].payload) =
                         IF r.hasBody \/ r.method = "POST" THEN fields \o content ELSE fields
                  /\ \A i \in 2..Len(fs) : /\ fs[i].typ = frameData
                                            /\ Len(fs[i].payload) \in 1..defaultMaxFrameSize
                  /\ \A i \in 1..Len(fs) : (fs[i].flags % 2 = 1) <=> (i = Len(fs))
                  /\ Sent[Len(fs)] = r.body
        /\ \A r \in Requests :
              Repeat(Encode(r), <<>>, 1, Count) = Written([s \in Streams |-> r])

\* A response of ReadBody and OnEcho is the body of its own request, whatever other handlers do with
\* the buffers of the pool meanwhile and whatever a request that was given up left in them.
EchoIsBody ==
    \A s \in Streams : response[s].status = 200 => response[s].body = request[s].body
=============================================================================
