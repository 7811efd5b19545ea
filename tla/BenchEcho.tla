----------------------------- MODULE BenchEcho -----------------------------
(***************************************************************************)
(* The echo benchmark of the Go client: workers (the goroutines of perf's  *)
(* Calculator) that take a connection out of a channel, redial it when it  *)
(* is broken, send one request on it and put it back (benchecho.go), and   *)
(* Conn.Redial (connection.go), which lets one worker replace a connection *)
(* that several found broken.                                              *)
(*                                                                         *)
(* An HTTP/2 connection, a ClientConn, is a number: the how-manieth it is  *)
(* of its Conn.  It is "up", has had "goaway", is "down" when its reader   *)
(* has ended, "closed" by Redial, or not "none" yet dialled.               *)
(***************************************************************************)
EXTENDS Integers, FiniteSets, Sequences

CONSTANTS
    NConns,         \* len(be.Conns)
    Streams,        \* be.Streams, -es
    Workers,        \* the workers, be.Concurrency of them
    Total,          \* be.WarmupTimes + be.Total, the requests to make
    MaxDials        \* bound: connections dialled for one Conn

Conns == 1 .. NConns
Clients == 1 .. MaxDials
Free == "free"

ASSUME ConstantsAssumption ==
    /\ NConns \in Nat \ {0} /\ Streams \in Nat \ {0} /\ Total \in Nat
    /\ MaxDials \in Nat \ {0} /\ Free \notin Workers
    /\ IsFiniteSet(Workers) /\ Cardinality(Workers) <= NConns * Streams

VARIABLES
    chConns,        \* the channel of connections
    jobs,           \* requests the Calculator has not handed out
    success, failed,
    wpc, conn, cc,  \* by worker: where it is, its Conn and its ClientConn
    mu,             \* by Conn: who holds the mutex
    current,        \* by Conn: the ClientConn it is now, Conn.cc
    dialled,        \* by Conn: how many ClientConns there have been
    state           \* by Conn and ClientConn: the state of it

workVars == <<chConns, jobs, success, failed>>
connVars == <<mu, current, dialled, state>>
vars == <<workVars, wpc, conn, cc, connVars>>

\* init puts each connection in once for every stream, round by round.  Total is the
\* calls of Run's warmup and of its benchmark together: a wait between the two only
\* leaves interleavings out.
Init ==
    /\ chConns = [i \in 1 .. NConns * Streams |-> ((i - 1) % NConns) + 1]
    /\ jobs = Total /\ success = 0 /\ failed = 0
    /\ wpc = [w \in Workers |-> "idle"]
    /\ conn = [w \in Workers |-> 0] /\ cc = [w \in Workers |-> 0]
    /\ mu = [c \in Conns |-> Free]
    /\ current = [c \in Conns |-> 1] /\ dialled = [c \in Conns |-> 1]
    /\ state = [c \in Conns |-> [g \in Clients |-> IF g = 1 THEN "up" ELSE "none"]]

Err(c, g) == state[c][g] # "up"
Goto(w, l) == wpc' = [wpc EXCEPT ![w] = l]

(***************************************************************************)
(* doOnce.                                                                 *)
(***************************************************************************)
\* The Calculator has a worker call doOnce.
Begin(w) ==
    /\ wpc[w] = "idle" /\ jobs > 0
    /\ jobs' = jobs - 1
    /\ Goto(w, "take")
    /\ UNCHANGED <<chConns, success, failed, conn, cc, connVars>>

Take(w) ==
    /\ wpc[w] = "take" /\ chConns # <<>>
    /\ conn' = [conn EXCEPT ![w] = Head(chConns)]
    /\ chConns' = Tail(chConns)
    /\ Goto(w, "load")
    /\ UNCHANGED <<jobs, success, failed, cc, connVars>>

Load(w) ==
    /\ wpc[w] = "load"
    /\ cc' = [cc EXCEPT ![w] = current[conn[w]]]
    /\ Goto(w, "err")
    /\ UNCHANGED <<workVars, conn, connVars>>

CheckErr(w) ==
    /\ wpc[w] = "err"
    /\ Goto(w, IF Err(conn[w], cc[w]) THEN "lock" ELSE "do")
    /\ UNCHANGED <<workVars, conn, cc, connVars>>

Reload(w) ==
    /\ wpc[w] = "reload"
    /\ cc' = [cc EXCEPT ![w] = current[conn[w]]]
    /\ Goto(w, "do")
    /\ UNCHANGED <<workVars, conn, connVars>>

\* Do sends the request, unless the connection takes no more.
DoSend(w) ==
    /\ wpc[w] = "do"
    /\ Goto(w, IF Err(conn[w], cc[w]) THEN "failed" ELSE "sent")
    /\ UNCHANGED <<workVars, conn, cc, connVars>>

\* The response is the one that is wanted.
DoAnswered(w) ==
    /\ wpc[w] = "sent" /\ state[conn[w]][cc[w]] \in {"up", "goaway"}
    /\ Goto(w, "ok")
    /\ UNCHANGED <<workVars, conn, cc, connVars>>

\* The connection ended, or its stream did, or the response is another one.
DoFailed(w) ==
    /\ wpc[w] = "sent"
    /\ Goto(w, "failed")
    /\ UNCHANGED <<workVars, conn, cc, connVars>>

PutWhenOk(w) ==
    /\ wpc[w] \in {"ok", "failed"}
    /\ chConns' = IF wpc[w] = "ok" THEN Append(chConns, conn[w]) ELSE chConns
    /\ success' = IF wpc[w] = "ok" THEN success + 1 ELSE success
    /\ failed' = IF wpc[w] = "failed" THEN failed + 1 ELSE failed
    /\ conn' = [conn EXCEPT ![w] = 0] /\ cc' = [cc EXCEPT ![w] = 0]
    /\ Goto(w, "idle")
    /\ UNCHANGED <<jobs, connVars>>

PutUncounted(w) ==
    /\ wpc[w] \in {"ok", "failed"}
    /\ chConns' = Append(chConns, conn[w])
    /\ success' = success + 1
    /\ failed' = IF wpc[w] = "failed" THEN failed + 1 ELSE failed
    /\ conn' = [conn EXCEPT ![w] = 0] /\ cc' = [cc EXCEPT ![w] = 0]
    /\ Goto(w, "idle")
    /\ UNCHANGED <<jobs, connVars>>

\* The deferred put, and the Calculator's count.
Put(w) ==
    /\ wpc[w] \in {"ok", "failed"}
    /\ chConns' = Append(chConns, conn[w])
    /\ success' = IF wpc[w] = "ok" THEN success + 1 ELSE success
    /\ failed' = IF wpc[w] = "failed" THEN failed + 1 ELSE failed
    /\ conn' = [conn EXCEPT ![w] = 0] /\ cc' = [cc EXCEPT ![w] = 0]
    /\ Goto(w, "idle")
    /\ UNCHANGED <<jobs, connVars>>

(***************************************************************************)
(* Redial.                                                                 *)
(***************************************************************************)
Unlock(c) == mu' = [mu EXCEPT ![c] = Free]

Lock(w) ==
    /\ wpc[w] = "lock" /\ mu[conn[w]] = Free
    /\ mu' = [mu EXCEPT ![conn[w]] = w]
    /\ Goto(w, "redial")
    /\ UNCHANGED <<workVars, conn, cc, current, dialled, state>>

ReplacedNever(c, g) == FALSE
Replaced(c, g) == current[c] # g

RedialCurrent(w) ==
    LET c == conn[w] IN
    /\ wpc[w] = "redial"
    /\ state' = [state EXCEPT ![c][current[c]] = "closed"]
    /\ Goto(w, "dial")
    /\ UNCHANGED <<workVars, conn, cc, mu, current, dialled>>

\* Another worker has replaced the connection; or it is closed, which fails what
\* others have in flight on it.
RedialBegin(w) ==
    LET c == conn[w] IN
    /\ wpc[w] = "redial"
    /\ IF Replaced(c, cc[w])
         THEN /\ Unlock(c) /\ Goto(w, "reload") /\ UNCHANGED state
         ELSE /\ state' = [state EXCEPT ![c][cc[w]] = "closed"]
              /\ Goto(w, "dial") /\ UNCHANGED mu
    /\ UNCHANGED <<workVars, conn, cc, current, dialled>>

DialOk(w) ==
    LET c == conn[w] IN
    /\ wpc[w] = "dial" /\ dialled[c] < MaxDials
    /\ dialled' = [dialled EXCEPT ![c] = @ + 1]
    /\ state' = [state EXCEPT ![c][dialled[c] + 1] = "up"]
    /\ Goto(w, "store")
    /\ UNCHANGED <<workVars, conn, cc, mu, current>>

DialKeepsLock(w) ==
    /\ wpc[w] = "dial"
    /\ Goto(w, "failed")
    /\ UNCHANGED <<workVars, conn, cc, connVars>>

DialFailed(w) ==
    /\ wpc[w] = "dial"
    /\ Unlock(conn[w])
    /\ Goto(w, "failed")
    /\ UNCHANGED <<workVars, conn, cc, current, dialled, state>>

Store(w) ==
    LET c == conn[w] IN
    /\ wpc[w] = "store"
    /\ current' = [current EXCEPT ![c] = dialled[c]]
    /\ Unlock(c)
    /\ Goto(w, "reload")
    /\ UNCHANGED <<workVars, conn, cc, dialled, state>>

(***************************************************************************)
(* The server and the network, and the end of the run.                     *)
(***************************************************************************)
GoAway(c, g) ==
    /\ state[c][g] = "up"
    /\ state' = [state EXCEPT ![c][g] = "goaway"]
    /\ UNCHANGED <<workVars, wpc, conn, cc, mu, current, dialled>>

Breaks(c, g) ==
    /\ state[c][g] \in {"up", "goaway"}
    /\ state' = [state EXCEPT ![c][g] = "down"]
    /\ UNCHANGED <<workVars, wpc, conn, cc, mu, current, dialled>>

Finished == jobs = 0 /\ \A w \in Workers : wpc[w] = "idle"

Ended == Finished /\ UNCHANGED vars

DoStep(w) ==
    \/ Begin(w) \/ Take(w) \/ Load(w) \/ CheckErr(w) \/ Reload(w) \/ DoSend(w) \/ Put(w)
    \/ Lock(w) \/ RedialBegin(w) \/ DialOk(w) \/ DialFailed(w) \/ Store(w)

Next ==
    \/ \E w \in Workers : DoStep(w) \/ DoAnswered(w) \/ DoFailed(w)
    \/ \E c \in Conns, g \in Clients : GoAway(c, g) \/ Breaks(c, g)
    \/ Ended

Spec == Init /\ [][Next]_vars

\* Workers go on when they can, a mutex goes to each that waits for it in the end,
\* dial returns, and so does Do: the modules Dial and ClientConn say why.
LiveSpec ==
    /\ Spec
    /\ \A w \in Workers : /\ WF_vars(DoStep(w)) /\ SF_vars(Lock(w)) /\ SF_vars(Take(w))
                          /\ WF_vars(DoAnswered(w) \/ DoFailed(w))

---------------------------------------------------------------------------
Places == {"idle", "take", "load", "err", "lock", "redial", "dial", "store", "reload",
           "do", "sent", "ok", "failed"}

TypeOK ==
    /\ chConns \in Seq(Conns) /\ jobs \in Nat /\ success \in Nat /\ failed \in Nat
    /\ wpc \in [Workers -> Places]
    /\ conn \in [Workers -> Conns \cup {0}] /\ cc \in [Workers -> Clients \cup {0}]
    /\ mu \in [Conns -> Workers \cup {Free}]
    /\ current \in [Conns -> Clients] /\ dialled \in [Conns -> Clients]
    /\ state \in [Conns -> [Clients -> {"none", "up", "goaway", "down", "closed"}]]

Holding(c) == {w \in Workers : conn[w] = c}

\* A connection is in the channel, or with a worker, as many times in all as it has
\* streams: so no more than -es requests are ever in flight on it, through failed
\* requests, failed redials and replaced connections alike.
StreamsKept ==
    \A c \in Conns :
        Cardinality(Holding(c)) + Cardinality({i \in DOMAIN chConns : chConns[i] = c}) = Streams

\* A connection that was dialled is the one its Conn uses, or is closed, or has ended
\* by itself, or is about to be stored: several workers that find one broken do not
\* replace each other's replacement and leave it open with no one to close it.
NoneLeaked ==
    \A c \in Conns, g \in Clients :
        state[c][g] \in {"up", "goaway"} =>
            \/ g = current[c]
            \/ /\ g = dialled[c]
               /\ \E w \in Workers : conn[w] = c /\ wpc[w] = "store" /\ mu[c] = w

\* What NoneLeaked rests on: who is in Redial holds the mutex; the connection that
\* is being replaced is closed, and the one about to be stored is the last dialled.
Redialing(w, c) == conn[w] = c /\ wpc[w] \in {"redial", "dial", "store"}

\* And what HealthyKept rests on: a worker on its way to Redial saw a connection that
\* had been dialled and no longer takes requests, and such a one never does again.
Broken ==
    \A w \in Workers :
        /\ wpc[w] = "err" => state[conn[w]][cc[w]] # "none"
        /\ wpc[w] \in {"lock", "redial"} => state[conn[w]][cc[w]] \notin {"none", "up"}

IInv ==
    /\ TypeOK /\ NoneLeaked /\ Broken
    /\ \A w \in Workers : wpc[w] \notin {"idle", "take"} => conn[w] \in Conns
    /\ \A w \in Workers : wpc[w] \in {"err", "lock", "redial", "dial", "store"} =>
          cc[w] \in Clients
    /\ \A w \in Workers, c \in Conns : Redialing(w, c) <=> mu[c] = w
    /\ \A c \in Conns :
          /\ current[c] <= dialled[c]
          /\ \A g \in Clients : g > dialled[c] <=> state[c][g] = "none"
          /\ dialled[c] > current[c] => \E w \in Workers : mu[c] = w /\ wpc[w] = "store"
          /\ \A w \in Workers : mu[c] = w /\ wpc[w] = "store" => dialled[c] = current[c] + 1
    /\ \A w \in Workers : wpc[w] \in {"dial", "store"} =>
          state[conn[w]][current[conn[w]]] = "closed"

\* Redial closes no connection that still takes requests, so a request fails only when
\* the server or the network ended its connection, or sent GOAWAY on it.
HealthyKept ==
    [][\A c \in Conns, g \in Clients : state[c][g] = "up" => state'[c][g] # "closed"]_vars

\* Each request is counted once, as a success or as a failure.
Counted ==
    jobs + success + failed + Cardinality({w \in Workers : wpc[w] # "idle"}) = Total

\* The run ends, also when every connection breaks and none can be dialled again.
RunEnds == <>Finished
=============================================================================
