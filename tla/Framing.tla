------------------------------ MODULE Framing ------------------------------
(***************************************************************************)
(* benchcli-go/protocol/http2.go: what the client puts on the wire.  A      *)
(* buffer is a sequence of bytes, numbers below 256; the bytes of a body or *)
(* of a header value are whatever the caller gives.  Positions in a buffer  *)
(* count from 0 in the code and are kept that way in idOffsets.             *)
(***************************************************************************)
EXTENDS Integers, Sequences

CONSTANT defaultMaxFrameSize       \* 16384 in the code

ASSUME FrameSizeAssumption == defaultMaxFrameSize \in Nat \ {0}

frameData == 0
frameHeaders == 1
flagEndStream == 1
flagEndHeaders == 4

Smaller(a, b) == IF a < b THEN a ELSE b
Larger(a, b) == IF a < b THEN b ELSE a

\* binary.BigEndian's uint32, its top bit cleared as the callers do
StreamIDBytes(id) ==
    <<(id \div 16777216) % 128, (id \div 65536) % 256, (id \div 256) % 256, id % 256>>

appendFrameHeader(dst, length, typ, flags, streamID) ==
    dst \o <<(length \div 65536) % 256, (length \div 256) % 256, length % 256, typ, flags>>
        \o StreamIDBytes(streamID)

appendHeaders(dst, streamID, block, endStream) ==
    appendFrameHeader(dst, Len(block), frameHeaders,
                      flagEndHeaders + (IF endStream THEN flagEndStream ELSE 0), streamID)
        \o block

\* The loop, from the bytes of data already written on.
appendData(dst, streamID, data, endStream) ==
    LET Frames[off \in Nat] ==
            LET n == Smaller(Len(data) - off, defaultMaxFrameSize)
                last == off + n = Len(data)
            IN  appendFrameHeader(<<>>, n, frameData,
                                  IF endStream /\ last THEN flagEndStream ELSE 0, streamID)
                    \o SubSeq(data, off + 1, off + n)
                    \o (IF last THEN <<>> ELSE Frames[off + n])
    IN  dst \o Frames[0]

\* An HPACK integer with a prefix of n bits, under a first byte whose other bits are 0.
appendHpackInt(dst, n, v) ==
    LET limit == 2^n - 1
        Rest[w \in Nat] == IF w >= 128 THEN <<(w % 128) + 128>> \o Rest[w \div 128] ELSE <<w>>
    IN  dst \o (IF v < limit THEN <<v>> ELSE <<limit>> \o Rest[v - limit])

appendLiteral(dst, nameIndex, value) ==
    appendHpackInt(appendHpackInt(dst, 4, nameIndex), 7, Len(value)) \o value

\* The digits of strconv.Itoa.
Itoa(n) ==
    LET Digits[m \in Nat] == IF m < 10 THEN <<48 + m>> ELSE Digits[m \div 10] \o <<48 + (m % 10)>>
    IN  Digits[n]

octetStream == [i \in 1..24 |-> 97]         \* "application/octet-stream"

\* hasBody is body # nil, which an empty body may or may not be.
EncodeHeaderBlock(method, authority, path, body, hasBody) ==
    LET start == IF method = "GET" THEN <<130>> ELSE <<131>>
        route == appendLiteral(appendLiteral(Append(start, 134), 4, path), 1, authority)
    IN  IF hasBody \/ method = "POST"
        THEN appendLiteral(appendLiteral(route, 31, octetStream), 28, Itoa(Len(body)))
        ELSE route

\* The request encoded once, and where in it each frame has its stream identifier.
NewRequest(block, body) ==
    LET frames == (Len(body) + defaultMaxFrameSize - 1) \div defaultMaxFrameSize
        Chunk(i) == SubSeq(body, (i - 1) * defaultMaxFrameSize + 1,
                           Smaller(i * defaultMaxFrameSize, Len(body)))
        Encoded[i \in Nat] ==
            IF i = 0
            THEN [encoded |-> appendHeaders(<<>>, 0, block, body = <<>>), idOffsets |-> <<5>>]
            ELSE LET r == Encoded[i - 1]
                 IN  [encoded |-> appendData(r.encoded, 0, Chunk(i), i = frames),
                      idOffsets |-> Append(r.idOffsets, Len(r.encoded) + 5)]
    IN  Encoded[frames]

\* binary.BigEndian.PutUint32(dst[off:], streamID&0x7fffffff)
PutStreamID(dst, off, streamID) ==
    [i \in DOMAIN dst |-> IF i - off \in 1..4 THEN StreamIDBytes(streamID)[i - off] ELSE dst[i]]

\* MUTANT of AppendTo: only the first frame is put on the stream.
AppendToHeaders(r, dst, streamID) == PutStreamID(dst \o r.encoded, Len(dst) + r.idOffsets[1], streamID)

AppendTo(r, dst, streamID) ==
    LET Patched[k \in Nat] ==
            IF k = 0 THEN dst \o r.encoded
            ELSE PutStreamID(Patched[k - 1], Len(dst) + r.idOffsets[k], streamID)
    IN  Patched[Len(r.idOffsets)]

Repeat(r, dst, firstID, n) ==
    LET Written[i \in Nat] ==
            IF i = 0 THEN dst ELSE AppendTo(r, Written[i - 1], firstID + 2 * (i - 1))
    IN  Written[n]

\* MUTANT of BatchSize: the batch need not divide the rate.
BatchSizeAny(reqLen, rate, maxLen) ==
    LET batch == Larger(maxLen \div reqLen, 1) IN <<batch, rate \div batch>>

\* As many requests of reqLen bytes as fit in maxLen and divide rate, and how often a second.
BatchSize(reqLen, rate, maxLen) ==
    LET Divisor[b \in Nat] == IF b > 1 /\ rate % b # 0 THEN Divisor[b - 1] ELSE b
        batch == Divisor[Larger(maxLen \div reqLen, 1)]
    IN  <<batch, rate \div batch>>

\* ValidateBatch's result, as whether it is nil.
ValidateBatch(batch, rate) == batch = 0 \/ (batch > 0 /\ rate % batch = 0)
=============================================================================
