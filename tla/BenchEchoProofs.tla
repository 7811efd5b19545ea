-------------------------- MODULE BenchEchoProofs ---------------------------
(***************************************************************************)
(* For any number of connections, streams and workers: Redial leaves no    *)
(* connection open that its Conn no longer uses, and closes none that      *)
(* still takes requests; no stream is lost from the channel, and every     *)
(* request is counted once.                                                *)
(***************************************************************************)
EXTENDS BenchEcho, CountTheorems

InRedial == {"redial", "dial", "store"}

Located == \A w \in Workers : wpc[w] \notin {"idle", "take"} => conn[w] \in Conns

Loaded ==
  \A w \in Workers : wpc[w] \in {"err", "lock", "redial", "dial", "store"} => cc[w] \in Clients

Mutex == \A w \in Workers, c \in Conns : Redialing(w, c) <=> mu[c] = w

Numbered ==
  \A c \in Conns :
     /\ current[c] <= dialled[c]
     /\ \A g \in Clients : g > dialled[c] <=> state[c][g] = "none"
     /\ dialled[c] > current[c] => \E w \in Workers : mu[c] = w /\ wpc[w] = "store"
     /\ \A w \in Workers : mu[c] = w /\ wpc[w] = "store" => dialled[c] = current[c] + 1

OldClosed ==
  \A w \in Workers : wpc[w] \in {"dial", "store"} =>
     state[conn[w]][current[conn[w]]] = "closed"

Rest == NoneLeaked /\ Mutex /\ Numbered /\ OldClosed

LEMMA Parts == IInv <=> TypeOK /\ Located /\ Loaded /\ Rest /\ Broken
BY DEF IInv, Located, Loaded, Rest, Mutex, Numbered, OldClosed

LEMMA ClientsAreNat == \A g \in Clients : g \in Nat /\ g > 0 /\ g <= MaxDials
BY ConstantsAssumption DEF Clients

---------------------------------------------------------------------------

\* The steps of doOnce outside Redial: the worker moves, the connections stay.
WorkStep(w) ==
  \/ Begin(w) \/ Take(w) \/ Load(w) \/ CheckErr(w) \/ Reload(w) \/ DoSend(w) \/ Put(w)
  \/ DoAnswered(w) \/ DoFailed(w)

LEMMA WorkMoves ==
  ASSUME TypeOK, Located, Loaded, NEW w \in Workers, WorkStep(w)
  PROVE  /\ UNCHANGED connVars
         /\ wpc' \in [Workers -> Places] /\ conn' \in [Workers -> Conns \cup {0}]
         /\ cc' \in [Workers -> Clients \cup {0}]
         /\ \A v \in Workers : v # w => /\ wpc'[v] = wpc[v] /\ conn'[v] = conn[v]
                                        /\ cc'[v] = cc[v]
         /\ wpc[w] \notin InRedial /\ wpc'[w] \notin InRedial
         /\ wpc'[w] \notin {"idle", "take"} => conn'[w] \in Conns
         /\ wpc'[w] \in {"err", "lock"} => cc'[w] \in Clients
<1> USE DEF TypeOK, Places, InRedial, Goto
<1>1. CASE Begin(w)
  BY <1>1 DEF Begin
<1>2. CASE Take(w)
  <2>1. Head(chConns) \in Conns
    BY <1>2 DEF Take
  <2> QED BY <1>2, <2>1 DEF Take
<1>3. CASE Load(w)
  <2>1. conn[w] \in Conns /\ current[conn[w]] \in Clients
    BY <1>3 DEF Load, Located
  <2> QED BY <1>3, <2>1 DEF Load
<1>4. CASE CheckErr(w)
  <2>1. conn[w] \in Conns /\ cc[w] \in Clients
    BY <1>4 DEF CheckErr, Located, Loaded
  <2> QED BY <1>4, <2>1 DEF CheckErr
<1>5. CASE Reload(w)
  <2>1. conn[w] \in Conns /\ current[conn[w]] \in Clients
    BY <1>5 DEF Reload, Located
  <2> QED BY <1>5, <2>1 DEF Reload
<1>6. CASE DoSend(w) \/ DoAnswered(w) \/ DoFailed(w)
  <2>1. conn[w] \in Conns
    BY <1>6 DEF DoSend, DoAnswered, DoFailed, Located
  <2> QED BY Zenon, <1>6, <2>1 DEF DoSend, DoAnswered, DoFailed
<1>7. CASE Put(w)
  BY <1>7 DEF Put
<1> QED BY <1>1, <1>2, <1>3, <1>4, <1>5, <1>6, <1>7 DEF WorkStep

---------------------------------------------------------------------------
(***************************************************************************)
(* Redial.                                                                 *)
(***************************************************************************)

---------------------------------------------------------------------------
(***************************************************************************)
(* Broken, and HealthyKept.                                                *)
(***************************************************************************)

\* No connection comes back: from "none" it goes up, and from there only on.
LEMMA StateOnward ==
  ASSUME IInv, Next, NEW c \in Conns, NEW g \in Clients
  PROVE  /\ state[c][g] # "none" => state'[c][g] # "none"
         /\ state[c][g] \notin {"none", "up"} => state'[c][g] \notin {"none", "up"}
         /\ state[c][g] = "up" => state'[c][g] # "closed"
<1> USE Parts
<1>1. state \in [Conns -> [Clients -> {"none", "up", "goaway", "down", "closed"}]]
  BY DEF TypeOK
<1>2. CASE \E w \in Workers : WorkStep(w) \/ Lock(w) \/ DialFailed(w) \/ Store(w)
  <2>1. state' = state
    BY <1>2, WorkMoves DEF connVars, Lock, DialFailed, Store
  <2> QED BY <2>1
<1>3. CASE \E w \in Workers : RedialBegin(w)
  <2>1. PICK w \in Workers : RedialBegin(w)
    BY <1>3
  <2>2. conn[w] \in Conns /\ cc[w] \in Clients /\ state[conn[w]][cc[w]] \notin {"none", "up"}
    BY <2>1 DEF RedialBegin, Located, Loaded, Broken
  <2>3. state' = state \/ state' = [state EXCEPT ![conn[w]][cc[w]] = "closed"]
    BY <2>1 DEF RedialBegin
  <2> QED BY <1>1, <2>2, <2>3
<1>4. CASE \E w \in Workers : DialOk(w)
  <2>1. PICK w \in Workers : DialOk(w)
    BY <1>4
  <2>2. PICK d \in Conns, n \in Clients : d = conn[w] /\ n = dialled[d]
    BY Zenon, <2>1 DEF DialOk, Located, TypeOK
  <2>3. n + 1 \in Clients /\ n + 1 > n
    BY <2>1, <2>2, ClientsAreNat, ConstantsAssumption DEF DialOk, Clients
  <2>4. state[d][n + 1] = "none"
    BY <2>2, <2>3 DEF Rest, Numbered
  <2>5. state' = [state EXCEPT ![d][n + 1] = "up"]
    BY <2>1, <2>2 DEF DialOk
  <2> QED BY <1>1, <2>3, <2>4, <2>5
<1>5. CASE \E d \in Conns, h \in Clients : GoAway(d, h) \/ Breaks(d, h)
  BY <1>1, <1>5 DEF GoAway, Breaks
<1>6. CASE Ended
  BY <1>6 DEF Ended, vars, connVars
<1> QED BY <1>2, <1>3, <1>4, <1>5, <1>6 DEF Next, DoStep, WorkStep

---------------------------------------------------------------------------

LEMMA InvInit == Init => IInv
<1> SUFFICES ASSUME Init
             PROVE  IInv
  OBVIOUS
<1>1. 1 \in Clients
  BY ConstantsAssumption DEF Clients
<1>2. chConns \in Seq(Conns)
  <2>1. NConns * Streams \in Nat
    BY ConstantsAssumption
  <2>2. \A i \in 1 .. NConns * Streams : ((i - 1) % NConns) + 1 \in Conns
    <3> SUFFICES ASSUME NEW i \in 1 .. NConns * Streams
                 PROVE  ((i - 1) % NConns) + 1 \in Conns
      OBVIOUS
    <3>1. i - 1 \in Int /\ NConns \in Nat /\ NConns > 0
      BY <2>1, ConstantsAssumption
    <3>2. (i - 1) % NConns \in 0 .. NConns - 1
      BY <3>1
    <3> QED BY <3>1, <3>2 DEF Conns
  <2> QED BY <2>1, <2>2 DEF Init
<1>3. TypeOK
  BY <1>1, <1>2, ConstantsAssumption DEF Init, TypeOK, Places
<1>4. Located /\ Loaded /\ Broken
  BY DEF Init, Located, Loaded, Broken
<1>5. Mutex
  BY ConstantsAssumption DEF Init, Mutex, Redialing
<1>6. Numbered
  BY <1>1, ClientsAreNat DEF Init, Numbered
<1>7. OldClosed /\ NoneLeaked
  BY DEF Init, OldClosed, NoneLeaked
<1> QED BY <1>3, <1>4, <1>5, <1>6, <1>7, Parts DEF Rest

LEMMA InvStep == IInv /\ [Next]_vars => IInv'
<1>WorkTypes. ASSUME TypeOK, Located, NEW w \in Workers, WorkStep(w)
              PROVE  chConns' \in Seq(Conns) /\ jobs' \in Nat /\ success' \in Nat /\ failed' \in Nat
  <2> USE <1>WorkTypes
  <2> USE DEF TypeOK
  <2>1. CASE Begin(w)
    BY <2>1 DEF Begin
  <2>2. CASE Take(w)
    BY <2>2 DEF Take
  <2>3. CASE Put(w)
    <3>1. conn[w] \in Conns
      BY Zenon, <2>3 DEF Put, Located
    <3>2. chConns' \in Seq(Conns)
      BY <2>3, <3>1 DEF Put
    <3> QED BY <2>3, <3>2 DEF Put
  <2>4. CASE Load(w) \/ CheckErr(w) \/ Reload(w) \/ DoSend(w) \/ DoAnswered(w) \/ DoFailed(w)
    BY <2>4 DEF Load, CheckErr, Reload, DoSend, DoAnswered, DoFailed, workVars
  <2> QED BY <2>1, <2>2, <2>3, <2>4 DEF WorkStep
<1>WorkKeeps. ASSUME IInv, NEW w \in Workers, WorkStep(w)
              PROVE  (TypeOK /\ Located /\ Loaded /\ Rest)'
  <2> USE <1>WorkKeeps
  <2> USE Parts
  <2>1. UNCHANGED <<mu, current, dialled, state>>
    BY WorkMoves DEF connVars
  <2>2. TypeOK'
    BY <2>1, WorkMoves, <1>WorkTypes DEF TypeOK
  <2>3. Located' /\ Loaded'
    BY WorkMoves DEF Located, Loaded, InRedial
  <2>4. \A v \in Workers, c \in Conns : Redialing(v, c)' <=> Redialing(v, c)
    BY WorkMoves DEF Redialing, InRedial
  <2>5. Mutex'
    BY <2>1, <2>4 DEF Rest, Mutex
  <2>6. \A v \in Workers : wpc'[v] = "store" <=> wpc[v] = "store"
    BY WorkMoves DEF InRedial
  <2>7. Numbered'
    BY <2>1, <2>6 DEF Rest, Numbered
  <2>8. OldClosed'
    BY <2>1, WorkMoves DEF Rest, OldClosed, InRedial
  <2>9. NoneLeaked'
    <3> SUFFICES ASSUME NEW c \in Conns, NEW g \in Clients, state[c][g] \in {"up", "goaway"},
                        g # current[c]
                 PROVE  /\ g = dialled[c]
                        /\ \E v \in Workers : conn'[v] = c /\ wpc'[v] = "store" /\ mu'[c] = v
      BY <2>1 DEF NoneLeaked
    <3>1. PICK v \in Workers : g = dialled[c] /\ conn[v] = c /\ wpc[v] = "store" /\ mu[c] = v
      BY DEF Rest, NoneLeaked
    <3>2. v # w
      BY <3>1, WorkMoves DEF InRedial
    <3> QED BY <2>1, <3>1, <3>2, WorkMoves
  <2> QED BY Zenon, <2>2, <2>3, <2>5, <2>7, <2>8, <2>9 DEF Rest
\* Only the worker that holds a Conn's mutex is in Redial on it.
<1>OneRedial. ASSUME Mutex, Located, NEW v \in Workers, NEW w \in Workers,
                     wpc[v] \in InRedial, wpc[w] \in InRedial, conn[v] = conn[w]
              PROVE  v = w
  <2> USE <1>OneRedial
  <2>1. conn[w] \in Conns
    BY DEF Located, InRedial
  <2>2. mu[conn[w]] = v /\ mu[conn[w]] = w
    BY <2>1 DEF Mutex, Redialing, InRedial
  <2> QED BY <2>2
<1>LockKeeps. ASSUME IInv, NEW w \in Workers, Lock(w)
              PROVE  (TypeOK /\ Located /\ Loaded /\ Rest)'
  <2> USE <1>LockKeeps
  <2> USE Parts
  <2> USE DEF Lock, Goto
  <2>1. PICK c \in Conns : c = conn[w]
    BY DEF Located
  <2>2. UNCHANGED <<conn, cc, current, dialled, state>> /\ mu[c] = Free
        /\ wpc[w] = "lock" /\ wpc' = [wpc EXCEPT ![w] = "redial"] /\ mu' = [mu EXCEPT ![c] = w]
    BY <2>1
  <2>3. TypeOK'
    <3>1. mu \in [Conns -> Workers \cup {Free}] /\ wpc \in [Workers -> Places]
      BY DEF TypeOK
    <3>2. mu' \in [Conns -> Workers \cup {Free}]
      BY Zenon, <2>2, <3>1
    <3>3. wpc' \in [Workers -> Places]
      BY <2>2, <3>1 DEF Places
    <3> QED BY <2>2, <3>2, <3>3 DEF TypeOK, workVars
  <2>4. Located' /\ Loaded'
    BY <2>2 DEF Located, Loaded, TypeOK
  <2>5. Mutex'
    <3> SUFFICES ASSUME NEW v \in Workers, NEW d \in Conns
                 PROVE  Redialing(v, d)' <=> mu'[d] = v
      BY DEF Mutex
    <3>1. Redialing(v, d) <=> mu[d] = v
      BY DEF Rest, Mutex
    <3>2. CASE d = c
      <4>1. ~Redialing(v, d)
        BY <2>2, <3>1, <3>2, ConstantsAssumption
      <4>2. mu'[d] = w
        BY <2>2, <3>2 DEF TypeOK
      <4> QED BY <2>1, <2>2, <3>2, <4>1, <4>2 DEF Redialing, TypeOK
    <3>3. CASE d # c
      <4>1. mu'[d] = mu[d]
        BY <2>2, <3>3 DEF TypeOK
      <4>2. Redialing(v, d)' <=> Redialing(v, d)
        BY <2>1, <2>2, <3>3 DEF Redialing, TypeOK
      <4> QED BY <3>1, <4>1, <4>2
    <3> QED BY <3>2, <3>3
  <2>6. \A v \in Workers, d \in Conns : wpc'[v] = "store" /\ mu'[d] = v <=> wpc[v] = "store" /\ mu[d] = v
    <3> SUFFICES ASSUME NEW v \in Workers, NEW d \in Conns
                 PROVE  wpc'[v] = "store" /\ mu'[d] = v <=> wpc[v] = "store" /\ mu[d] = v
      OBVIOUS
    <3>1. CASE v = w
      BY <2>2, <3>1 DEF TypeOK
    <3>2. CASE v # w
      <4>1. wpc'[v] = wpc[v]
        BY <2>2, <3>2 DEF TypeOK
      <4>2. d # c => mu'[d] = mu[d]
        BY <2>2 DEF TypeOK
      <4>3. d = c => mu'[d] = w /\ mu[d] = Free
        BY Zenon, <2>2 DEF TypeOK
      <4> QED BY Zenon, <3>2, <4>1, <4>2, <4>3, ConstantsAssumption
    <3> QED BY <3>1, <3>2
  <2>7. Numbered'
    BY <2>2, <2>6 DEF Rest, Numbered
  <2>8. OldClosed'
    BY <2>2 DEF Rest, OldClosed, TypeOK
  <2>9. NoneLeaked'
    BY <2>2, <2>6 DEF Rest, NoneLeaked
  <2> QED BY Zenon, <2>3, <2>4, <2>5, <2>7, <2>8, <2>9 DEF Rest
\* The mutex stays with who is in Redial, and is free once they leave it.
<1>RedialMoves.
      ASSUME TypeOK, Located, Mutex, NEW w \in Workers, NEW l, wpc[w] \in InRedial,
             UNCHANGED conn, wpc' = [wpc EXCEPT ![w] = l],
             IF l \in InRedial THEN UNCHANGED mu ELSE mu' = [mu EXCEPT ![conn[w]] = Free]
      PROVE  /\ Mutex' /\ mu' \in [Conns -> Workers \cup {Free}]
             /\ \A v \in Workers : v # w => wpc'[v] = wpc[v]
             /\ \A v \in Workers, d \in Conns : v # w => (mu'[d] = v <=> mu[d] = v)
  <2> USE <1>RedialMoves
  <2>1. PICK c \in Conns : c = conn[w]
    BY DEF Located, InRedial
  <2>2. mu[c] = w
    BY <2>1 DEF Mutex, Redialing, InRedial
  <2>3. \A v \in Workers : v # w => wpc'[v] = wpc[v]
    BY DEF TypeOK
  <2>4. mu' \in [Conns -> Workers \cup {Free}]
    <3>1. mu \in [Conns -> Workers \cup {Free}]
      BY DEF TypeOK
    <3>2. CASE l \in InRedial
      BY <3>1, <3>2
    <3>3. CASE l \notin InRedial
      BY <3>1, <3>3
    <3> QED BY <3>2, <3>3
  <2>5. \A v \in Workers, d \in Conns : v # w => (mu'[d] = v <=> mu[d] = v)
    BY <2>1, <2>2, ConstantsAssumption DEF TypeOK
  <2>6. Mutex'
    <3> SUFFICES ASSUME NEW v \in Workers, NEW d \in Conns
                 PROVE  Redialing(v, d)' <=> mu'[d] = v
      BY DEF Mutex
    <3>1. CASE v # w
      BY <2>3, <2>5, <3>1 DEF Mutex, Redialing
    <3>2. CASE v = w /\ l \in InRedial
      <4>1. wpc'[w] \in InRedial
        BY <3>2 DEF TypeOK
      <4> QED BY <3>2, <4>1 DEF Mutex, Redialing, InRedial
    <3>3. CASE v = w /\ l \notin InRedial
      <4>1. wpc'[w] \notin InRedial
        BY <3>3 DEF TypeOK
      <4>2. mu'[c] = Free /\ (d # c => mu'[d] = mu[d])
        BY <2>1, <3>3 DEF TypeOK
      <4>3. d # c => mu[d] # w
        BY <2>1 DEF Mutex, Redialing
      <4>4. mu'[d] # w
        BY <4>2, <4>3, ConstantsAssumption
      <4> QED BY <3>3, <4>1, <4>4 DEF Redialing, InRedial
    <3> QED BY <3>1, <3>2, <3>3
  <2> QED BY <2>3, <2>4, <2>5, <2>6
\* Redial leaves without a new connection: another worker has replaced the broken
\* one, or the dial failed.
<1>LeaveKeeps.
      ASSUME IInv, NEW w \in Workers, NEW l \in {"reload", "failed"},
             wpc[w] \in {"redial", "dial"}, wpc' = [wpc EXCEPT ![w] = l],
             mu' = [mu EXCEPT ![conn[w]] = Free],
             UNCHANGED <<workVars, conn, cc, current, dialled, state>>
      PROVE  (TypeOK /\ Located /\ Loaded /\ Rest)'
  <2> USE <1>LeaveKeeps
  <2> USE Parts
  <2>1. /\ Mutex' /\ mu' \in [Conns -> Workers \cup {Free}]
        /\ \A v \in Workers : v # w => wpc'[v] = wpc[v]
        /\ \A v \in Workers, d \in Conns : v # w => (mu'[d] = v <=> mu[d] = v)
    <3>1. TypeOK /\ Located /\ Mutex /\ wpc[w] \in InRedial /\ l \notin InRedial /\ UNCHANGED conn
      BY DEF Rest, InRedial
    <3> QED BY Zenon, <3>1, <1>RedialMoves
  <2>2. wpc'[w] = l /\ wpc' \in [Workers -> Places]
    BY DEF TypeOK, Places
  <2>3. TypeOK'
    BY <2>1, <2>2 DEF TypeOK, workVars
  <2>4. Located' /\ Loaded'
    BY <2>1, <2>2 DEF Located, Loaded
  <2>5. \A v \in Workers, d \in Conns : wpc'[v] = "store" /\ mu'[d] = v <=> wpc[v] = "store" /\ mu[d] = v
    BY Zenon, <2>1, <2>2
  <2>6. Numbered'
    BY <2>5 DEF Rest, Numbered
  <2>7. OldClosed'
    BY Zenon, <2>1, <2>2 DEF Rest, OldClosed
  <2>8. NoneLeaked'
    BY <2>5 DEF Rest, NoneLeaked
  <2> QED BY Zenon, <2>1, <2>3, <2>4, <2>6, <2>7, <2>8 DEF Rest
\* A connection leaves "up" or "goaway" and is not dialled anew: nothing is leaked by it.
<1>EndKeeps. ASSUME IInv, NEW c \in Conns, NEW g \in Clients, NEW s \in {"goaway", "down", "closed"},
                    state[c][g] # "none", s # "closed" => state[c][g] \in {"up", "goaway"},
                    s = "goaway" => state[c][g] = "up",
                    state' = [state EXCEPT ![c][g] = s], UNCHANGED <<current, dialled>>
             PROVE  /\ state' \in [Conns -> [Clients -> {"none", "up", "goaway", "down", "closed"}]]
                    /\ \A d \in Conns, h \in Clients :
                         /\ state'[d][h] = "none" <=> state[d][h] = "none"
                         /\ state[d][h] = "closed" => state'[d][h] = "closed"
                         /\ state'[d][h] \in {"up", "goaway"} => state[d][h] \in {"up", "goaway"}
  <2> USE <1>EndKeeps
  <2> USE Parts
  <2>1. state \in [Conns -> [Clients -> {"none", "up", "goaway", "down", "closed"}]]
    BY DEF TypeOK
  <2>2. \A d \in Conns, h \in Clients :
           state'[d][h] = IF d = c /\ h = g THEN s ELSE state[d][h]
    BY <2>1
  <2>3. state' \in [Conns -> [Clients -> {"none", "up", "goaway", "down", "closed"}]]
    BY <2>1
  <2> QED BY <2>2, <2>3
<1>ServerKeeps.
      ASSUME IInv, NEW c \in Conns, NEW g \in Clients, GoAway(c, g) \/ Breaks(c, g)
      PROVE  (TypeOK /\ Located /\ Loaded /\ Rest)'
  <2> USE <1>ServerKeeps
  <2> USE Parts
  <2>1. UNCHANGED <<workVars, wpc, conn, cc, mu, current, dialled>>
    BY Zenon DEF GoAway, Breaks
  <2>2. /\ state' \in [Conns -> [Clients -> {"none", "up", "goaway", "down", "closed"}]]
        /\ \A d \in Conns, h \in Clients :
             /\ state'[d][h] = "none" <=> state[d][h] = "none"
             /\ state[d][h] = "closed" => state'[d][h] = "closed"
             /\ state'[d][h] \in {"up", "goaway"} => state[d][h] \in {"up", "goaway"}
    BY <1>EndKeeps DEF GoAway, Breaks
  <2>3. TypeOK' /\ Located' /\ Loaded'
    BY <2>1, <2>2 DEF TypeOK, Located, Loaded, workVars
  <2>4. Mutex'
    BY <2>1 DEF Rest, Mutex, Redialing
  <2>5. Numbered'
    BY <2>1, <2>2 DEF Rest, Numbered
  <2>6. OldClosed'
    <3> SUFFICES ASSUME NEW w \in Workers, wpc[w] \in {"dial", "store"}
                 PROVE  state'[conn[w]][current[conn[w]]] = "closed"
      BY <2>1 DEF OldClosed
    <3>1. conn[w] \in Conns /\ current[conn[w]] \in Clients
      BY DEF Located, TypeOK
    <3> QED BY Zenon, <2>2, <3>1 DEF Rest, OldClosed
  <2>7. NoneLeaked'
    BY <2>1, <2>2 DEF Rest, NoneLeaked
  <2> QED BY Zenon, <2>3, <2>4, <2>5, <2>6, <2>7 DEF Rest
\* Redial closes the connection that is still its Conn's.
<1>CloseKeeps.
      ASSUME IInv, NEW w \in Workers, RedialBegin(w), ~Replaced(conn[w], cc[w])
      PROVE  (TypeOK /\ Located /\ Loaded /\ Rest)'
  <2> USE <1>CloseKeeps
  <2> USE Parts
  <2>1. PICK c \in Conns, g \in Clients : c = conn[w] /\ g = cc[w]
    BY DEF RedialBegin, Located, Loaded
  <2>2. /\ wpc[w] = "redial" /\ wpc' = [wpc EXCEPT ![w] = "dial"] /\ current[c] = g
        /\ state' = [state EXCEPT ![c][g] = "closed"]
        /\ UNCHANGED <<workVars, conn, cc, mu, current, dialled>>
    BY <2>1 DEF RedialBegin, Goto, Replaced
  <2>3. state[c][g] # "none"
    BY <2>1, <2>2 DEF Broken
  <2>4. /\ state' \in [Conns -> [Clients -> {"none", "up", "goaway", "down", "closed"}]]
        /\ \A d \in Conns, h \in Clients :
             /\ state'[d][h] = "none" <=> state[d][h] = "none"
             /\ state[d][h] = "closed" => state'[d][h] = "closed"
             /\ state'[d][h] \in {"up", "goaway"} => state[d][h] \in {"up", "goaway"}
    BY Zenon, <2>2, <2>3, <1>EndKeeps
  <2>5. /\ Mutex' /\ \A v \in Workers : v # w => wpc'[v] = wpc[v]
    <3>1. TypeOK /\ Located /\ Mutex /\ wpc[w] \in InRedial /\ "dial" \in InRedial
      BY <2>2 DEF Rest, InRedial
    <3> QED BY Zenon, <2>2, <3>1, <1>RedialMoves
  <2>6. wpc'[w] = "dial" /\ wpc' \in [Workers -> Places]
    BY Zenon, <2>2 DEF TypeOK, Places
  <2>7. TypeOK'
    BY Zenon, <2>2, <2>4, <2>6 DEF TypeOK, workVars
  <2>8. Located' /\ Loaded'
    BY Zenon, <2>2, <2>5, <2>6 DEF Located, Loaded
  <2>9. \A v \in Workers : wpc'[v] = "store" <=> wpc[v] = "store"
    BY Zenon, <2>2, <2>5, <2>6
  <2>10. Numbered'
    BY <2>2, <2>4, <2>9 DEF Rest, Numbered
  <2>11. OldClosed'
    <3> SUFFICES ASSUME NEW v \in Workers, wpc'[v] \in {"dial", "store"}
                 PROVE  state'[conn[v]][current[conn[v]]] = "closed"
      BY <2>2 DEF OldClosed
    <3>1. CASE v = w
      BY Zenon, <2>1, <2>2, <3>1 DEF TypeOK
    <3>2. CASE v # w
      <4>1. wpc[v] \in {"dial", "store"} /\ state[conn[v]][current[conn[v]]] = "closed"
        BY <2>5, <3>2 DEF Rest, OldClosed
      <4>2. conn[v] \in Conns /\ current[conn[v]] \in Clients
        <5>1. conn[v] \in Conns
          BY Zenon, <4>1 DEF Located
        <5> QED BY Zenon, <5>1 DEF TypeOK
      <4> QED BY SMTT(40), <2>4, <4>1, <4>2
    <3> QED BY Zenon, <3>1, <3>2
  <2>12. NoneLeaked'
    <3>1. NoneLeaked
      BY Zenon DEF Rest
    <3> QED BY SMTT(40), <2>2, <2>4, <2>9, <3>1 DEF NoneLeaked
  <2> QED BY Zenon, <2>5, <2>7, <2>8, <2>10, <2>11, <2>12 DEF Rest
<1>DialOkKeeps.
      ASSUME IInv, NEW w \in Workers, DialOk(w)
      PROVE  (TypeOK /\ Located /\ Loaded /\ Rest)'
  <2> USE <1>DialOkKeeps
  <2> USE Parts
  <2>1. PICK c \in Conns : c = conn[w]
    BY DEF DialOk, Located
  <2>2. PICK n \in Clients : n = dialled[c]
    BY DEF TypeOK
  <2>3. n + 1 \in Clients /\ n \in Nat
    BY SMTT(40), <2>1, <2>2, ConstantsAssumption DEF DialOk, Clients
  <2>4. /\ wpc[w] = "dial" /\ wpc' = [wpc EXCEPT ![w] = "store"]
        /\ dialled' = [dialled EXCEPT ![c] = n + 1]
        /\ state' = [state EXCEPT ![c][n + 1] = "up"]
        /\ UNCHANGED <<workVars, conn, cc, mu, current>>
    BY <2>1, <2>2 DEF DialOk, Goto
  <2>5. /\ Mutex' /\ \A v \in Workers : v # w => wpc'[v] = wpc[v]
    <3>1. TypeOK /\ Located /\ Mutex /\ wpc[w] \in InRedial /\ "store" \in InRedial
      BY <2>4 DEF Rest, InRedial
    <3> QED BY Zenon, <2>4, <3>1, <1>RedialMoves
  <2>6. wpc'[w] = "store" /\ wpc' \in [Workers -> Places]
    BY <2>4 DEF TypeOK, Places
  <2>7. /\ dialled' \in [Conns -> Clients]
        /\ \A d \in Conns : dialled'[d] = IF d = c THEN n + 1 ELSE dialled[d]
    BY SMTT(40), <2>3, <2>4 DEF TypeOK
  <2>8. state \in [Conns -> [Clients -> {"none", "up", "goaway", "down", "closed"}]]
    BY DEF TypeOK
  <2>9. /\ state' \in [Conns -> [Clients -> {"none", "up", "goaway", "down", "closed"}]]
        /\ \A d \in Conns, h \in Clients :
              state'[d][h] = IF d = c /\ h = n + 1 THEN "up" ELSE state[d][h]
    BY Zenon, <2>3, <2>4, <2>8
  <2>10. TypeOK'
    BY SMTT(40), <2>4, <2>6, <2>7, <2>9 DEF TypeOK, workVars
  <2>11. Located' /\ Loaded'
    BY Zenon, <2>4, <2>5, <2>6 DEF Located, Loaded
  <2>12. mu[c] = w
    BY Zenon, <2>1, <2>4 DEF Rest, Mutex, Redialing
  <2>13. current[c] = n
    <3>1. ~(dialled[c] > current[c])
      BY SMTT(40), <2>4, <2>12 DEF Rest, Numbered
    <3>2. current[c] <= dialled[c] /\ current[c] \in Nat
      BY ClientsAreNat DEF Rest, Numbered, TypeOK
    <3> QED BY SMTT(40), <2>2, <2>3, <3>1, <3>2
  <2>14. \A v \in Workers, d \in Conns : d # c /\ mu[d] = v => v # w
    BY <2>1, <2>4 DEF Rest, Mutex, Redialing
  <2>15. Numbered'
    <3> SUFFICES ASSUME NEW d \in Conns
                 PROVE  /\ current[d] <= dialled'[d]
                        /\ \A g \in Clients : g > dialled'[d] <=> state'[d][g] = "none"
                        /\ dialled'[d] > current[d] => \E v \in Workers : mu[d] = v /\ wpc'[v] = "store"
                        /\ \A v \in Workers : mu[d] = v /\ wpc'[v] = "store" =>
                              dialled'[d] = current[d] + 1
      BY <2>4 DEF Numbered
    <3>0. Numbered
      BY DEF Rest
    <3>1. CASE d = c
      <4>1. \A g \in Clients : g > n <=> state[c][g] = "none"
        BY SMTT(40), <2>2, <3>0 DEF Numbered
      <4>2. \A g \in Clients : g > n + 1 <=> state'[c][g] = "none"
        BY SMTT(40), <2>3, <2>9, <4>1, ClientsAreNat
      <4> QED BY SMTT(40), Z3T(40), <2>3, <2>6, <2>7, <2>12, <2>13, <3>1, <4>2
    <3>2. CASE d # c
      <4>1. dialled'[d] = dialled[d] /\ \A g \in Clients : state'[d][g] = state[d][g]
        BY Zenon, <2>7, <2>9, <3>2
      <4>2. \A v \in Workers : mu[d] = v => wpc'[v] = wpc[v]
        BY <2>5, <2>14, <3>2
      <4> QED BY <3>0, <4>1, <4>2 DEF Numbered
    <3> QED BY Zenon, <3>1, <3>2
  <2>16. OldClosed'
    <3> SUFFICES ASSUME NEW v \in Workers, wpc'[v] \in {"dial", "store"}
                 PROVE  state'[conn[v]][current[conn[v]]] = "closed"
      BY <2>4 DEF OldClosed
    <3>1. wpc[v] \in {"dial", "store"}
      BY <2>4, <2>5
    <3>2. conn[v] \in Conns /\ current[conn[v]] \in Clients
      <4>1. conn[v] \in Conns
        BY Zenon, <3>1 DEF Located
      <4> QED BY <4>1 DEF TypeOK
    <3>3. state[conn[v]][current[conn[v]]] = "closed"
      BY Zenon, <3>1 DEF Rest, OldClosed
    <3>4. state[c][n + 1] = "none"
      BY <2>2, <2>3 DEF Rest, Numbered
    <3> QED BY Zenon, <2>3, <2>9, <3>2, <3>3, <3>4
  <2>17. NoneLeaked'
    <3> SUFFICES ASSUME NEW d \in Conns, NEW g \in Clients, state'[d][g] \in {"up", "goaway"},
                        g # current[d]
                 PROVE  /\ g = dialled'[d]
                        /\ \E v \in Workers : conn[v] = d /\ wpc'[v] = "store" /\ mu[d] = v
      BY <2>4 DEF NoneLeaked
    <3>1. CASE d = c
      <4>1. g = n + 1
        <5>1. g # n + 1 => state[c][g] \in {"up", "goaway"} /\ g = n
          BY Zenon, <2>2, <2>9, <2>13, <3>1 DEF Rest, NoneLeaked
        <5> QED BY Zenon, <2>13, <3>1, <5>1
      <4> QED BY Zenon, <2>1, <2>6, <2>7, <2>12, <3>1, <4>1
    <3>2. CASE d # c
      <4>1. PICK v \in Workers : g = dialled[d] /\ conn[v] = d /\ wpc[v] = "store" /\ mu[d] = v
        BY <2>9, <3>2 DEF Rest, NoneLeaked
      <4> QED BY Zenon, <2>5, <2>7, <2>14, <3>2, <4>1
    <3> QED BY Zenon, <3>1, <3>2
  <2> QED BY Zenon, <2>5, <2>10, <2>11, <2>15, <2>16, <2>17 DEF Rest
<1>StoreKeeps.
      ASSUME IInv, NEW w \in Workers, Store(w)
      PROVE  (TypeOK /\ Located /\ Loaded /\ Rest)'
  <2> USE <1>StoreKeeps
  <2> USE Parts
  <2>1. PICK c \in Conns : c = conn[w]
    BY DEF Store, Located
  <2>2. PICK n \in Clients : n = dialled[c]
    BY DEF TypeOK
  <2>3. /\ wpc[w] = "store" /\ wpc' = [wpc EXCEPT ![w] = "reload"]
        /\ current' = [current EXCEPT ![c] = n] /\ mu' = [mu EXCEPT ![c] = Free]
        /\ UNCHANGED <<workVars, conn, cc, dialled, state>>
    BY <2>1, <2>2 DEF Store, Goto, Unlock
  <2>4. /\ Mutex' /\ mu' \in [Conns -> Workers \cup {Free}]
        /\ \A v \in Workers : v # w => wpc'[v] = wpc[v]
        /\ \A v \in Workers, d \in Conns : v # w => (mu'[d] = v <=> mu[d] = v)
    <3>1. TypeOK /\ Located /\ Mutex /\ wpc[w] \in InRedial /\ "reload" \notin InRedial
          /\ UNCHANGED conn
      BY <2>3 DEF Rest, InRedial
    <3>2. mu' = [mu EXCEPT ![conn[w]] = Free]
      BY Zenon, <2>1, <2>3
    <3> HIDE DEF InRedial
    <3> QED BY Zenon, <2>3, <3>1, <3>2, <1>RedialMoves
  <2>5. wpc'[w] = "reload" /\ wpc' \in [Workers -> Places]
    BY Zenon, <2>3 DEF TypeOK, Places
  <2>6. /\ current' \in [Conns -> Clients]
        /\ \A d \in Conns : current'[d] = IF d = c THEN n ELSE current[d]
    BY Zenon, <2>3 DEF TypeOK
  <2>7. TypeOK'
    BY SMTT(40), Z3T(40), <2>3, <2>4, <2>5, <2>6 DEF TypeOK, workVars
  <2>8. Located' /\ Loaded'
    BY <2>3, <2>4, <2>5 DEF Located, Loaded
  <2>9. mu[c] = w
    BY Zenon, <2>1, <2>3 DEF Rest, Mutex, Redialing
  <2>10. \A v \in Workers, d \in Conns : mu'[d] = v => v # w /\ d # c /\ mu[d] = v
    <3> SUFFICES ASSUME NEW v \in Workers, NEW d \in Conns, mu'[d] = v
                 PROVE  v # w /\ d # c /\ mu[d] = v
      OBVIOUS
    <3>1. v # w
      BY <2>4, <2>5 DEF Mutex, Redialing
    <3>2. mu[d] = v
      BY Zenon, <2>4, <3>1
    <3> QED BY <2>9, <3>1, <3>2
  <2>11. Numbered'
    <3> SUFFICES ASSUME NEW d \in Conns
                 PROVE  /\ current'[d] <= dialled[d]
                        /\ \A g \in Clients : g > dialled[d] <=> state[d][g] = "none"
                        /\ dialled[d] > current'[d] => \E v \in Workers : mu'[d] = v /\ wpc'[v] = "store"
                        /\ \A v \in Workers : mu'[d] = v /\ wpc'[v] = "store" =>
                              dialled[d] = current'[d] + 1
      BY <2>3 DEF Numbered
    <3>0. Numbered
      BY DEF Rest
    <3>1. CASE d = c
      <4>1. current'[d] = n /\ dialled[d] = n /\ n \in Nat
        BY Zenon, <2>2, <2>6, <3>1, ClientsAreNat
      <4>2. \A v \in Workers : mu'[d] # v
        BY <2>10, <3>1
      <4>3. \A g \in Clients : g > dialled[d] <=> state[d][g] = "none"
        BY Zenon, <3>0 DEF Numbered
      <4> QED BY <4>1, <4>2, <4>3
    <3>2. CASE d # c
      <4>1. current'[d] = current[d]
        BY <2>6, <3>2
      <4>2. \A v \in Workers : mu[d] = v => v # w
        BY SMTT(40), <2>1, <3>2 DEF Rest, Mutex, Redialing
      <4>3. \A v \in Workers : mu[d] = v <=> mu'[d] = v
        BY Zenon, <2>4, <2>10, <4>2
      <4>4. \A v \in Workers : mu[d] = v => wpc'[v] = wpc[v]
        BY Zenon, <2>4, <4>2
      <4> QED BY <3>0, <4>1, <4>3, <4>4 DEF Numbered
    <3> QED BY Zenon, <3>1, <3>2
  <2>12. OldClosed'
    <3> SUFFICES ASSUME NEW v \in Workers, wpc'[v] \in {"dial", "store"}
                 PROVE  state[conn[v]][current'[conn[v]]] = "closed"
      BY Zenon, <2>3 DEF OldClosed
    <3>1. v # w /\ wpc[v] \in {"dial", "store"}
      BY Zenon, <2>4, <2>5
    <3>2. conn[v] \in Conns /\ state[conn[v]][current[conn[v]]] = "closed"
      BY <3>1 DEF Located, Rest, OldClosed
    <3>3. conn[v] # c
      <4>1. wpc[v] \in InRedial /\ wpc[w] \in InRedial /\ Mutex
        BY Zenon, <2>3, <3>1 DEF InRedial, Rest
      <4> QED BY Zenon, <2>1, <3>1, <4>1, <1>OneRedial
    <3> QED BY Zenon, <2>6, <3>2, <3>3
  <2>13. NoneLeaked'
    <3> SUFFICES ASSUME NEW d \in Conns, NEW g \in Clients, state[d][g] \in {"up", "goaway"},
                        g # current'[d]
                 PROVE  /\ g = dialled[d]
                        /\ \E v \in Workers : conn[v] = d /\ wpc'[v] = "store" /\ mu'[d] = v
      BY <2>3 DEF NoneLeaked
    <3>1. d # c
      <4> SUFFICES ASSUME d = c
                   PROVE  FALSE
        BY Zenon
      <4>1. state[c][current[c]] = "closed"
        BY Zenon, <2>1, <2>3 DEF Rest, OldClosed
      <4>2. g = n
        BY SMTT(40), <2>2, <4>1 DEF Rest, NoneLeaked
      <4> QED BY <2>6, <4>2
    <3>2. PICK v \in Workers : g = dialled[d] /\ conn[v] = d /\ wpc[v] = "store" /\ mu[d] = v
      BY SMTT(40), Z3T(40), <2>6, <3>1 DEF Rest, NoneLeaked
    <3>3. v # w
      BY <2>1, <3>1, <3>2
    <3> QED BY Zenon, <2>4, <3>2, <3>3
  <2> QED BY SMTT(40), Z3T(40), <2>4, <2>7, <2>8, <2>11, <2>12, <2>13 DEF Rest
<1>BrokenStep.
      ASSUME IInv, Next
      PROVE  Broken'
  <2> USE <1>BrokenStep
  <2> USE Parts
  <2> SUFFICES ASSUME NEW w \in Workers
               PROVE  /\ wpc'[w] = "err" => state'[conn'[w]][cc'[w]] # "none"
                      /\ wpc'[w] \in {"lock", "redial"} =>
                            state'[conn'[w]][cc'[w]] \notin {"none", "up"}
    BY Zenon DEF Broken
  <2>1. CASE wpc'[w] = wpc[w] /\ conn'[w] = conn[w] /\ cc'[w] = cc[w]
    <3>1. wpc[w] \in {"err", "lock", "redial"} => conn[w] \in Conns /\ cc[w] \in Clients
      BY Zenon DEF Located, Loaded
    <3> QED BY Zenon, <2>1, <3>1, StateOnward DEF Broken
  <2>2. CASE wpc'[w] \notin {"err", "lock", "redial"}
    BY <2>2
  <2>3. CASE Load(w)
    <3>1. PICK c \in Conns, g \in Clients : c = conn[w] /\ g = current[c]
      BY Zenon, <2>3 DEF Load, Located, TypeOK
    <3>2. state' = state /\ conn'[w] = c /\ cc'[w] = g /\ wpc'[w] = "err"
      BY Zenon, <2>3, <3>1 DEF Load, Goto, TypeOK, connVars
    <3>3. g <= dialled[c]
      BY <3>1 DEF Rest, Numbered
    <3>4. dialled[c] \in Nat /\ g \in Nat
      BY Zenon, ClientsAreNat DEF TypeOK
    <3>5. state[c][g] # "none"
      BY SMTT(40), <3>1, <3>3, <3>4 DEF Rest, Numbered
    <3> QED BY Zenon, <3>2, <3>5
  <2>4. CASE CheckErr(w)
    <3>1. state' = state /\ conn' = conn /\ cc' = cc /\ wpc[w] = "err"
      BY <2>4 DEF CheckErr, connVars
    <3>2. wpc'[w] = IF Err(conn[w], cc[w]) THEN "lock" ELSE "do"
      BY Zenon, <2>4 DEF CheckErr, Goto, TypeOK
    <3> QED BY SMTT(40), <3>1, <3>2 DEF Broken, Err
  <2>5. CASE Lock(w)
    <3>1. state' = state /\ conn' = conn /\ cc' = cc /\ wpc[w] = "lock" /\ wpc'[w] = "redial"
      BY Zenon, <2>5 DEF Lock, Goto, TypeOK
    <3> QED BY <3>1 DEF Broken
  <2>6. CASE \E v \in Workers : v # w /\ (WorkStep(v) \/ Lock(v))
    BY Zenon, <2>1, <2>6, WorkMoves DEF Lock, Goto, TypeOK
  <2>7. CASE \E v \in Workers : v # w /\ (RedialBegin(v) \/ DialOk(v) \/ DialFailed(v) \/ Store(v))
    BY Zenon, <2>1, <2>7 DEF RedialBegin, DialOk, DialFailed, Store, Goto, TypeOK
  <2>8. CASE RedialBegin(w) \/ DialOk(w) \/ DialFailed(w) \/ Store(w)
    BY Zenon, <2>2, <2>8 DEF RedialBegin, DialOk, DialFailed, Store, Goto, TypeOK
  <2>9. CASE Begin(w) \/ Take(w) \/ Reload(w) \/ DoSend(w) \/ DoAnswered(w) \/ DoFailed(w) \/ Put(w)
    BY ZenonT(40), <2>2, <2>9 DEF Begin, Take, Reload, DoSend, DoAnswered, DoFailed, Put, Goto, TypeOK
  <2>10. CASE Ended \/ \E c \in Conns, g \in Clients : GoAway(c, g) \/ Breaks(c, g)
    BY SMTT(40), <2>1, <2>10 DEF Ended, vars, GoAway, Breaks
  <2> QED BY ZenonT(40), <2>3, <2>4, <2>5, <2>6, <2>7, <2>8, <2>9, <2>10 DEF Next, DoStep, WorkStep
<1> SUFFICES ASSUME IInv, [Next]_vars
             PROVE  IInv'
  OBVIOUS
<1>1. CASE Next
  <2>1. (TypeOK /\ Located /\ Loaded /\ Rest)'
    <3>1. CASE \E w \in Workers : WorkStep(w)
      BY SMTT(40), <3>1, <1>WorkKeeps
    <3>2. CASE \E w \in Workers : Lock(w)
      BY SMTT(40), <3>2, <1>LockKeeps
    <3>3. CASE \E w \in Workers : RedialBegin(w)
      <4>1. PICK w \in Workers : RedialBegin(w)
        BY Zenon, <3>3
      <4>2. CASE Replaced(conn[w], cc[w])
        BY Zenon, <4>1, <4>2, <1>LeaveKeeps DEF RedialBegin, Goto, Unlock
      <4>3. CASE ~Replaced(conn[w], cc[w])
        BY Zenon, <4>1, <4>3, <1>CloseKeeps
      <4> QED BY <4>2, <4>3
    <3>4. CASE \E w \in Workers : DialOk(w)
      BY <3>4, <1>DialOkKeeps
    <3>5. CASE \E w \in Workers : DialFailed(w)
      BY Zenon, <3>5, <1>LeaveKeeps DEF DialFailed, Goto, Unlock
    <3>6. CASE \E w \in Workers : Store(w)
      BY <3>6, <1>StoreKeeps
    <3>7. CASE \E c \in Conns, g \in Clients : GoAway(c, g) \/ Breaks(c, g)
      BY Zenon, <3>7, <1>ServerKeeps
    <3>8. CASE Ended
      BY SMTT(40), <3>8, Parts DEF Ended, vars, workVars, connVars, TypeOK, Located, Loaded, Rest,
           NoneLeaked, Mutex, Redialing, Numbered, OldClosed
    <3> QED BY Zenon, <1>1, <3>1, <3>2, <3>3, <3>4, <3>5, <3>6, <3>7, <3>8 DEF Next, DoStep, WorkStep
  <2>2. Broken'
    BY Zenon, <1>1, <1>BrokenStep
  <2> QED BY Zenon, <2>1, <2>2 DEF IInv, Located, Loaded, Rest, Mutex, Numbered, OldClosed
<1>2. CASE UNCHANGED vars
  BY SMTT(40), Z3T(40), <1>2 DEF vars, workVars, connVars, IInv, TypeOK, NoneLeaked, Broken, Redialing
<1> QED BY <1>1, <1>2

\* However many workers find a connection broken at once, Redial (connection.go) leaves
\* none of the connections it dials open and out of use.
THEOREM NoConnectionLeaks == Spec => [](TypeOK /\ NoneLeaked)
<1>1. IInv => TypeOK /\ NoneLeaked
  BY Zenon DEF IInv
<1> QED BY <1>1, InvInit, InvStep, PTL DEF Spec

\* Redial (connection.go) never closes a connection on which Do still sends requests.
THEOREM HealthyConnectionsKept == Spec => HealthyKept
<1>1. IInv /\ [Next]_vars =>
        [\A c \in Conns, g \in Clients : state[c][g] = "up" => state'[c][g] # "closed"]_vars
  BY StateOnward
<1> QED BY <1>1, InvInit, InvStep, PTL DEF Spec, HealthyKept

---------------------------------------------------------------------------
(***************************************************************************)
(* The channel, and the Calculator's counts.  A worker has a connection    *)
(* from Take to Put and no other time.                                     *)
(***************************************************************************)

Empty == \A w \in Workers : wpc[w] \in {"idle", "take"} => conn[w] = 0

Busy == {w \in Workers : wpc[w] # "idle"}

OtherStep(w) ==
  \/ Load(w) \/ CheckErr(w) \/ Reload(w) \/ DoSend(w) \/ DoAnswered(w) \/ DoFailed(w)
  \/ Lock(w) \/ RedialBegin(w) \/ DialOk(w) \/ DialFailed(w) \/ Store(w)

\* The steps from Take to Put leave the channel alone, and the worker with what it has.
LEMMA OtherMoves ==
  ASSUME TypeOK, NEW w \in Workers, OtherStep(w)
  PROVE  /\ UNCHANGED <<chConns, jobs, success, failed, conn>>
         /\ wpc[w] \notin {"idle", "take"} /\ wpc'[w] \notin {"idle", "take"}
         /\ \A v \in Workers : v # w => wpc'[v] = wpc[v]
<1> USE DEF TypeOK, Goto, workVars
<1>1. CASE Load(w) \/ CheckErr(w) \/ Reload(w) \/ DoSend(w)
  BY Zenon, <1>1 DEF Load, CheckErr, Reload, DoSend
<1>2. CASE DoAnswered(w) \/ DoFailed(w) \/ Lock(w) \/ DialOk(w)
  BY Zenon, <1>2 DEF DoAnswered, DoFailed, Lock, DialOk
<1>3. CASE RedialBegin(w) \/ DialFailed(w) \/ Store(w)
  BY Zenon, <1>3 DEF RedialBegin, DialFailed, Store
<1> QED BY Zenon, <1>1, <1>2, <1>3 DEF OtherStep

LEMMA EchoSteps ==
  ASSUME [Next]_vars
  PROVE  \/ \E w \in Workers : Begin(w) \/ Take(w) \/ Put(w) \/ OtherStep(w)
         \/ UNCHANGED <<chConns, jobs, success, failed, conn, wpc>>
<1>1. CASE Ended \/ UNCHANGED vars
  BY SMTT(40), <1>1 DEF Ended, vars, workVars
<1>2. CASE \E c \in Conns, g \in Clients : GoAway(c, g) \/ Breaks(c, g)
  BY SMTT(40), <1>2 DEF GoAway, Breaks, workVars
<1>3. CASE \E w \in Workers : DoStep(w) \/ DoAnswered(w) \/ DoFailed(w)
  BY SMTT(40), <1>3 DEF DoStep, OtherStep
<1> QED BY SMTT(40), <1>1, <1>2, <1>3 DEF Next

LEMMA SetsOfWorkers ==
  ASSUME NEW S \in SUBSET Workers, NEW w \in Workers
  PROVE  /\ Cardinality(S) \in Nat
         /\ w \notin S => Cardinality(S \cup {w}) = Cardinality(S) + 1
         /\ w \in S => Cardinality(S \ {w}) = Cardinality(S) - 1
<1>1. IsFiniteSet(S)
  BY SMTT(40), ConstantsAssumption, FS_Subset
<1> QED BY SMTT(40), <1>1, FS_CardinalityType, FS_AddElement, FS_RemoveElement

InChannel(c) == Cardinality(At(chConns, c))

LEMMA StreamsKeptIs ==
  StreamsKept <=> \A c \in Conns : Cardinality(Holding(c)) + InChannel(c) = Streams
BY DEF StreamsKept, InChannel, At

LEMMA StreamsInit == Init => Empty /\ StreamsKept /\ Counted
<1> SUFFICES ASSUME Init PROVE Empty /\ StreamsKept /\ Counted
  OBVIOUS
<1>1. Empty
  BY SMTT(40) DEF Init, Empty
<1>2. Counted
  <2>1. Busy = {}
    BY DEF Init, Busy
  <2>2. Cardinality({w \in Workers : wpc[w] # "idle"}) = 0
    BY SMTT(40), <2>1, FS_EmptySet DEF Busy
  <2> QED BY SMTT(40), <2>2, ConstantsAssumption DEF Init, Counted
<1>3. StreamsKept
  <2> SUFFICES ASSUME NEW c \in Conns
               PROVE  Cardinality(Holding(c)) + InChannel(c) = Streams
    BY SMTT(40), StreamsKeptIs
  <2>1. Holding(c) = {}
    BY SMTT(40), ConstantsAssumption DEF Init, Holding, Conns
  <2>2. Cardinality(Holding(c)) = 0
    BY <2>1, FS_EmptySet
  <2>3. NConns \in Nat \ {0} /\ Streams \in Nat
    BY SMTT(40), ConstantsAssumption
  <2>4. DOMAIN chConns = 1 .. NConns * Streams /\ \A i \in DOMAIN chConns : chConns[i] = ((i - 1) % NConns) + 1
    BY DEF Init
  <2>5. InChannel(c) = Streams
    BY Zenon, <2>3, <2>4, AtRound DEF InChannel, Conns
  <2> QED BY SMTT(40), <2>2, <2>3, <2>5
<1> QED BY SMTT(40), <1>1, <1>2, <1>3

\* A connection is in the channel or with a worker as often, in all, as it has streams:
\* doOnce (benchecho.go) loses none and doubles none, whatever fails.
THEOREM StreamsNeverLost == Spec => []StreamsKept
<1>EmptyStep. ASSUME TypeOK, Empty, [Next]_vars
              PROVE  Empty'
  <2> USE <1>EmptyStep
  <2>1. ASSUME NEW w \in Workers, Begin(w) PROVE Empty'
    BY <2>1 DEF Begin, Goto, TypeOK, Empty
  <2>2. ASSUME NEW w \in Workers, Take(w) \/ Put(w) PROVE Empty'
    BY Zenon, <2>2 DEF Take, Put, Goto, TypeOK, Empty
  <2>3. ASSUME NEW w \in Workers, OtherStep(w) PROVE Empty'
    BY SMTT(40), <2>3, OtherMoves DEF Empty
  <2>4. CASE UNCHANGED <<chConns, jobs, success, failed, conn, wpc>>
    BY <2>4 DEF Empty
  <2> QED BY Zenon, <2>1, <2>2, <2>3, <2>4, EchoSteps
\* A worker's connection becomes d: Holding changes by what it was and what it is.
<1>HoldingMoves.
      ASSUME NEW w \in Workers, NEW d, conn \in [Workers -> Conns \cup {0}],
             conn' = [conn EXCEPT ![w] = d], conn[w] # d, NEW c \in Conns
      PROVE  /\ Cardinality(Holding(c)) \in Nat
             /\ Cardinality(Holding(c))' =
                  Cardinality(Holding(c)) - (IF conn[w] = c THEN 1 ELSE 0) + (IF d = c THEN 1 ELSE 0)
  <2> USE <1>HoldingMoves
  <2>1. Holding(c) \in SUBSET Workers
    BY DEF Holding
  <2>2. Cardinality(Holding(c)) \in Nat
    BY Zenon, <2>1, SetsOfWorkers
  <2>3. CASE conn[w] = c
    <3>1. Holding(c)' = Holding(c) \ {w} /\ w \in Holding(c)
      BY Zenon, <2>3 DEF Holding
    <3>2. Cardinality(Holding(c))' = Cardinality(Holding(c)) - 1
      BY Zenon, <2>1, <3>1, SetsOfWorkers
    <3> QED BY <2>2, <2>3, <3>2
  <2>4. CASE d = c
    <3>1. Holding(c)' = Holding(c) \cup {w} /\ w \notin Holding(c)
      BY Zenon, <2>4 DEF Holding
    <3>2. Cardinality(Holding(c))' = Cardinality(Holding(c)) + 1
      BY Zenon, <2>1, <3>1, SetsOfWorkers
    <3> QED BY <2>2, <2>4, <3>2
  <2>5. CASE conn[w] # c /\ d # c
    <3>1. Holding(c)' = Holding(c)
      BY <2>5 DEF Holding
    <3> QED BY SMTT(40), <2>2, <2>5, <3>1
  <2> QED BY Zenon, <2>3, <2>4, <2>5
<1>StreamsStep.
      ASSUME IInv, Empty, StreamsKept, [Next]_vars
      PROVE  StreamsKept'
  <2> USE <1>StreamsStep
  <2>0. /\ TypeOK /\ Located /\ chConns \in Seq(Conns) /\ conn \in [Workers -> Conns \cup {0}]
        /\ 0 \notin Conns
    BY Parts, ConstantsAssumption DEF TypeOK, Conns
  <2>1. ASSUME UNCHANGED <<chConns, conn>> PROVE StreamsKept'
    BY Zenon, <2>1 DEF StreamsKept, Holding
  <2>2. ASSUME NEW w \in Workers, Take(w) PROVE StreamsKept'
    <3>1. PICK d \in Conns : d = Head(chConns)
      BY SMTT(40), <2>0, <2>2 DEF Take
    <3>2. conn' = [conn EXCEPT ![w] = d] /\ chConns' = Tail(chConns) /\ chConns # <<>>
      BY SMTT(40), <2>2, <3>1 DEF Take
    <3>3. conn[w] = 0
      BY SMTT(40), <2>2 DEF Take, Empty
    <3>4. ASSUME NEW c \in Conns
          PROVE  Cardinality(Holding(c))' + InChannel(c)' = Streams
      <4>1. /\ Cardinality(Holding(c)) \in Nat
            /\ Cardinality(Holding(c))' = Cardinality(Holding(c)) + (IF d = c THEN 1 ELSE 0)
        <5>1. conn[w] # d /\ conn[w] # c
          BY <2>0, <3>3
        <5>2. /\ Cardinality(Holding(c)) \in Nat
              /\ Cardinality(Holding(c))' =
                   Cardinality(Holding(c)) - (IF conn[w] = c THEN 1 ELSE 0) + (IF d = c THEN 1 ELSE 0)
          BY Zenon, <2>0, <3>2, <5>1, <1>HoldingMoves
        <5> QED BY SMTT(40), <5>1, <5>2
      <4>2. InChannel(c)' = InChannel(c) - (IF d = c THEN 1 ELSE 0)
        BY <2>0, <3>1, <3>2, AtTail DEF InChannel
      <4>3. InChannel(c) \in Nat
        BY Zenon, <2>0, AtFinite DEF InChannel
      <4> QED BY SMTT(40), <4>1, <4>2, <4>3, StreamsKeptIs
    <3> QED BY <3>4 DEF StreamsKept, InChannel, At
  <2>3. ASSUME NEW w \in Workers, Put(w) PROVE StreamsKept'
    <3>1. PICK d \in Conns : d = conn[w]
      BY SMTT(40), <2>0, <2>3 DEF Put, Located
    <3>2. conn' = [conn EXCEPT ![w] = 0] /\ chConns' = Append(chConns, d)
      BY SMTT(40), <2>3, <3>1 DEF Put
    <3>3. ASSUME NEW c \in Conns
          PROVE  Cardinality(Holding(c))' + InChannel(c)' = Streams
      <4>1. /\ Cardinality(Holding(c)) \in Nat
            /\ Cardinality(Holding(c))' = Cardinality(Holding(c)) - (IF d = c THEN 1 ELSE 0)
        <5>0. PICK z : z = 0
          OBVIOUS
        <5>1. conn[w] # z /\ z # c /\ conn' = [conn EXCEPT ![w] = z]
          BY SMTT(40), <2>0, <3>1, <3>2, <5>0
        <5>2. /\ Cardinality(Holding(c)) \in Nat
              /\ Cardinality(Holding(c))' =
                   Cardinality(Holding(c)) - (IF conn[w] = c THEN 1 ELSE 0) + (IF z = c THEN 1 ELSE 0)
          BY Zenon, <2>0, <5>1, <1>HoldingMoves
        <5> QED BY SMTT(40), <3>1, <5>1, <5>2
      <4>2. InChannel(c)' = InChannel(c) + (IF d = c THEN 1 ELSE 0)
        BY <2>0, <3>2, AtAppend DEF InChannel
      <4>3. InChannel(c) \in Nat
        BY <2>0, AtFinite DEF InChannel
      <4> QED BY SMTT(40), Z3T(40), <4>1, <4>2, <4>3, StreamsKeptIs
    <3> QED BY <3>3 DEF StreamsKept, InChannel, At
  <2>4. ASSUME NEW w \in Workers, Begin(w) \/ OtherStep(w) PROVE StreamsKept'
    BY Zenon, <2>0, <2>1, <2>4, OtherMoves DEF Begin
  <2> QED BY Zenon, <2>1, <2>2, <2>3, <2>4, EchoSteps
<1>1. Init => IInv /\ Empty /\ StreamsKept
  BY InvInit, StreamsInit
<1>2. IInv /\ Empty /\ StreamsKept /\ [Next]_vars => (IInv /\ Empty /\ StreamsKept)'
  <2>1. IInv => TypeOK
    BY Parts
  <2> QED BY <2>1, InvStep, <1>EmptyStep, <1>StreamsStep
<1> QED BY <1>1, <1>2, PTL DEF Spec

\* Every request is counted once, as a success or as a failure.
THEOREM RequestsCounted == Spec => []Counted
<1>CountedStep.
      ASSUME TypeOK, Counted, [Next]_vars
      PROVE  Counted'
  <2> USE <1>CountedStep
  <2>0. Busy \in SUBSET Workers /\ Busy' \in SUBSET Workers
    BY SMTT(40) DEF Busy
  <2>1. jobs \in Nat /\ success \in Nat /\ failed \in Nat /\ Total \in Nat
    BY ConstantsAssumption DEF TypeOK
  <2>2. Counted <=> jobs + success + failed + Cardinality(Busy) = Total
    BY DEF Counted, Busy
  <2>3. Counted' <=> jobs' + success' + failed' + Cardinality(Busy)' = Total
    BY Zenon DEF Counted, Busy
  <2>4. ASSUME NEW w \in Workers, Begin(w) PROVE Counted'
    <3>1. Busy' = Busy \cup {w} /\ w \notin Busy
      BY <2>4 DEF Begin, Goto, TypeOK, Busy
    <3>2. Cardinality(Busy)' = Cardinality(Busy) + 1 /\ Cardinality(Busy) \in Nat
      BY Zenon, <2>0, <3>1, SetsOfWorkers
    <3>3. jobs' = jobs - 1 /\ UNCHANGED <<success, failed>>
      BY <2>4 DEF Begin
    <3> QED BY SMTT(40), Z3T(40), <2>1, <2>2, <2>3, <3>2, <3>3
  <2>5. ASSUME NEW w \in Workers, Put(w) PROVE Counted'
    <3>1. Busy' = Busy \ {w} /\ w \in Busy
      BY Zenon, <2>5 DEF Put, Goto, TypeOK, Busy
    <3>2. Cardinality(Busy)' = Cardinality(Busy) - 1 /\ Cardinality(Busy) \in Nat
      BY Zenon, <2>0, <3>1, SetsOfWorkers
    <3>3. jobs' = jobs /\ success' + failed' = success + failed + 1
          /\ success' \in Nat /\ failed' \in Nat
      BY <2>1, <2>5 DEF Put
    <3>4. PICK a \in Nat, b \in Nat, k \in Nat : a = success' /\ b = failed' /\ k = Cardinality(Busy)'
      <4>1. Cardinality(Busy)' \in Nat
        BY Zenon, <2>0, SetsOfWorkers
      <4> QED BY Zenon, <3>3, <4>1
    <3>5. jobs + a + b + k = Total
      <4>1. a + b = success + failed + 1 /\ k = Cardinality(Busy) - 1
        BY Zenon, <3>2, <3>3, <3>4
      <4> QED BY <2>1, <2>2, <3>2, <4>1
    <3> QED BY SMTT(40), <2>3, <3>3, <3>4, <3>5
  <2>6. ASSUME NEW w \in Workers, Take(w) \/ OtherStep(w) PROVE Counted'
    <3>1. Busy' = Busy
      BY Zenon, <2>6, OtherMoves DEF Take, Goto, TypeOK, Busy
    <3>2. UNCHANGED <<jobs, success, failed>>
      BY Zenon, <2>6, OtherMoves DEF Take
    <3> QED BY Zenon, <2>2, <2>3, <3>1, <3>2
  <2>7. CASE UNCHANGED <<chConns, jobs, success, failed, conn, wpc>>
    BY <2>7 DEF Counted
  <2> QED BY Zenon, <2>4, <2>5, <2>6, <2>7, EchoSteps
<1>1. Init => IInv /\ Counted
  BY InvInit, StreamsInit
<1>2. IInv /\ Counted /\ [Next]_vars => (IInv /\ Counted)'
  <2>1. IInv => TypeOK
    BY Parts
  <2> QED BY SMTT(40), <2>1, InvStep, <1>CountedStep
<1> QED BY <1>1, <1>2, PTL DEF Spec
=============================================================================
