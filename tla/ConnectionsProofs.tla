------------------------- MODULE ConnectionsProofs --------------------------
(***************************************************************************)
(* For any number of workers, connections, retries and addresses: each     *)
(* success of doOnce leaves one connection, the limits Run finds are the   *)
(* highest and the fewest there are, and the dials are spread evenly over  *)
(* the addresses; and for every timeout, what one dial promises.           *)
(***************************************************************************)
EXTENDS Connections, Dial, CountTheorems

(***************************************************************************)
(* What dial promises, for every timeout.                                  *)
(***************************************************************************)

\* What dial knows at each point: the answer before it waits for SETTINGS, that these
\* came before it clears the deadline, and that nothing runs before the preface is out.
Progress ==
    /\ pc \in {"settings", "clear", "returned"} => answer = "ok"
    /\ pc \in {"clear", "returned"} => gotSettings
    /\ pc = "connect" => sock = "none"
    /\ pc \in {"connect", "open"} => rpc = "none"
    /\ pc = "closing" => sock = "closed"

\* A failing reader says so in cc.err before it closes the channel of the SETTINGS.
ReaderOrder ==
    /\ rpc \in {"failing", "seen", "done"} => ccErr
    /\ settingsSeen /\ ~gotSettings => rpc = "done"

\* The clock against the deadline that holds where dial is.
Timing ==
    /\ clock \in Nat /\ deadline \in Nat
    /\ pc = "connect" => clock <= DialTimeout
    /\ pc \in {"open", "do", "settings"} => deadline \in DialTimeout .. 2 * DialTimeout

DialInv == Progress /\ ReaderOrder /\ Timing /\ NothingLeftOpen /\ WithinTwoTimeouts

USE DEF NoDeadline

\* DialInv holds throughout a dial.
LEMMA DialInvariant == DialSpec => []DialInv
\* A dial that begins has done nothing yet.
<1>DialStarts.
      DialInit => DialInv
  BY DialTimeoutAssumption
     DEF DialInit, DialInv, Progress, ReaderOrder, Timing, NothingLeftOpen, WithinTwoTimeouts
\* The steps of dial itself.
<1>DialKeeps. ASSUME DialInv, Connected \/ ConnectFailed \/ DialStep
              PROVE  DialInv'
  <2> USE <1>DialKeeps
  <2> USE DialTimeoutAssumption
  <2>1. CASE Connected
    BY <2>1 DEF Connected, DialInv, Progress, ReaderOrder, Timing, NothingLeftOpen, WithinTwoTimeouts
  <2>2. CASE ConnectFailed
    BY <2>2 DEF ConnectFailed, connVars, DialInv, Progress, ReaderOrder, Timing, NothingLeftOpen,
                WithinTwoTimeouts
  <2>3. CASE PrefaceFailed
    BY <2>3 DEF PrefaceFailed, DialInv, Progress, ReaderOrder, Timing, NothingLeftOpen,
                WithinTwoTimeouts
  <2>4. CASE PrefaceWritten
    BY <2>4 DEF PrefaceWritten, DialInv, Progress, ReaderOrder, Timing, NothingLeftOpen,
                WithinTwoTimeouts
  <2>5. CASE DoReturned
    BY <2>5 DEF DoReturned, connVars, DialInv, Progress, ReaderOrder, Timing, NothingLeftOpen,
                WithinTwoTimeouts
  <2>6. CASE SettingsWaited
    BY <2>6 DEF SettingsWaited, connVars, DialInv, Progress, ReaderOrder, Timing, NothingLeftOpen,
                WithinTwoTimeouts
  <2>7. CASE CloseSocket
    BY <2>7 DEF CloseSocket, DialInv, Progress, ReaderOrder, Timing, NothingLeftOpen,
                WithinTwoTimeouts
  <2>8. CASE Closed
    BY <2>8 DEF Closed, connVars, DialInv, Progress, ReaderOrder, Timing, NothingLeftOpen,
                WithinTwoTimeouts
  <2>9. CASE ClearDeadline
    BY <2>9 DEF ClearDeadline, connVars, DialInv, Progress, ReaderOrder, Timing, NothingLeftOpen,
                WithinTwoTimeouts
  <2> QED BY Zenon, <2>1, <2>2, <2>3, <2>4, <2>5, <2>6, <2>7, <2>8, <2>9 DEF DialStep
\* The steps of the connection's reader, whatever the server sends it.
<1>ReaderKeeps.
      ASSUME DialInv,
             \/ ReadSettings \/ ReaderStep \/ ReadFailed
             \/ \E result \in {"ok", "status", "err"} : ReadAnswer(result)
             \/ \E kept \in BOOLEAN : ReadGoAway(kept)
      PROVE  DialInv'
  <2> USE <1>ReaderKeeps
  <2>1. UNCHANGED <<pc, clock, deadline>>
    BY Zenon DEF ReadSettings, ReaderStep, ReaderFails, ReaderFinishes, ReaderStops, ReadFailed,
                 ReadAnswer, ReadGoAway
  <2>2. Timing' /\ WithinTwoTimeouts'
    BY <2>1 DEF DialInv, Timing, WithinTwoTimeouts
  <2>3. Progress' /\ ReaderOrder' /\ NothingLeftOpen'
    <3>1. CASE ReadSettings
      BY Zenon, <3>1, <2>1 DEF ReadSettings, Reading, DialInv, Progress, ReaderOrder, NothingLeftOpen
    <3>2. CASE ReaderStep
      BY <3>2, <2>1 DEF ReaderStep, ReaderFails, ReaderFinishes, ReaderStops, DialInv, Progress,
                        ReaderOrder, NothingLeftOpen
    <3>3. CASE ReadFailed
      BY Zenon, <3>3, <2>1 DEF ReadFailed, DialInv, Progress, ReaderOrder, NothingLeftOpen
    <3>4. ASSUME NEW result \in {"ok", "status", "err"}, ReadAnswer(result)
          PROVE  Progress' /\ ReaderOrder' /\ NothingLeftOpen'
      BY Zenon, <3>4, <2>1 DEF ReadAnswer, Reading, DialInv, Progress, ReaderOrder, NothingLeftOpen
    <3>5. ASSUME NEW kept \in BOOLEAN, ReadGoAway(kept)
          PROVE  Progress' /\ ReaderOrder' /\ NothingLeftOpen'
      BY <3>5, <2>1 DEF ReadGoAway, Reading, DialInv, Progress, ReaderOrder, NothingLeftOpen
    <3> QED BY Zenon, <3>1, <3>2, <3>3, <3>4, <3>5
  <2> QED BY Zenon, <2>2, <2>3 DEF DialInv
\* Time passes while dial waits, and no further than the deadline.
<1>TickKeeps. DialInv /\ Tick => DialInv'
  <2> SUFFICES ASSUME DialInv, Tick PROVE DialInv'
    OBVIOUS
  <2>1. clock' = clock + 1 /\ UNCHANGED <<pc, deadline, connVars>>
    BY DEF Tick
  <2>2. Progress' /\ ReaderOrder' /\ NothingLeftOpen'
    BY <2>1 DEF connVars, DialInv, Progress, ReaderOrder, NothingLeftOpen
  <2>3. Timing' /\ WithinTwoTimeouts'
    <3>1. CASE pc = "connect"
      BY <3>1, <2>1, DialTimeoutAssumption
         DEF Tick, Waiting, DialInv, Timing, WithinTwoTimeouts
    <3>2. CASE pc # "connect"
      <4>1. pc \in {"open", "do", "settings"} /\ BeforeDeadline
        BY <3>2 DEF Tick, Waiting
      <4>2. clock < deadline /\ deadline <= 2 * DialTimeout
        BY <4>1, DialTimeoutAssumption DEF DialInv, Timing, BeforeDeadline
      <4> QED BY <2>1, <3>2, <4>2, DialTimeoutAssumption DEF DialInv, Timing, WithinTwoTimeouts
    <3> QED BY Zenon, <3>1, <3>2
  <2> QED BY Zenon, <2>2, <2>3 DEF DialInv
\* No step of dial, its reader or the clock leaves the invariant.
<1>DialNextKeeps.
      DialInv /\ [DialNext]_dialVars => DialInv'
  <2> SUFFICES ASSUME DialInv, [DialNext]_dialVars PROVE DialInv'
    OBVIOUS
  <2>1. CASE UNCHANGED dialVars
    BY <2>1 DEF dialVars, connVars, DialInv, Progress, ReaderOrder, Timing, NothingLeftOpen,
                WithinTwoTimeouts
  <2>2. CASE DialNext
    BY <2>1, <2>2, <1>DialKeeps, <1>ReaderKeeps, <1>TickKeeps DEF DialNext, Done
  <2> QED BY <2>1, <2>2
<1> QED BY <1>DialStarts, <1>DialNextKeeps, PTL DEF DialSpec

\* A connection that dial returns has had its request answered and the server's SETTINGS,
\* whatever the server sent, in whatever order, and wherever the reader failed.
THEOREM DialServed == DialSpec => []ServedAndSet
<1>1. DialInv => ServedAndSet
  BY DEF DialInv, Progress, ServedAndSet
<1> QED BY <1>1, DialInvariant, PTL

\* A dial that fails, at whichever step, has closed its socket and waited for its reader.
THEOREM DialCleansUp == DialSpec => []NothingLeftOpen
<1>1. DialInv => NothingLeftOpen
  BY Zenon DEF DialInv
<1> QED BY <1>1, DialInvariant, PTL

\* No dial waits longer than two timeouts, for every timeout.
THEOREM DialBounded == DialSpec => []WithinTwoTimeouts
<1>1. DialInv => WithinTwoTimeouts
  BY DEF DialInv
<1> QED BY <1>1, DialInvariant, PTL

---------------------------------------------------------------------------
(***************************************************************************)
(* What Run leaves behind.                                                 *)
(***************************************************************************)

LEMMA Sizes ==
  /\ NAddrs \in Nat \ {0} /\ IdxRange \in Nat \ {0} /\ NumConnections \in Nat
  /\ 0 \in Addrs /\ \A a \in Addrs : a \in Int
BY ConstantsAssumption DEF Addrs

\* What the variables are.  The two limits are left to LimitsFound.
TypeOK ==
  /\ jobs \in Nat /\ success \in Nat /\ failed \in Nat
  /\ wpc \in [Workers -> {"idle", "next", "dial", "ok", "failed"}]
  /\ try \in [Workers -> Nat] /\ addr \in [Workers -> Addrs]
  /\ serverIdx \in 0 .. IdxRange - 1 /\ conns \in Seq(Nat) /\ phase \in {"dial", "done"}
  /\ dials \in [Addrs -> Nat]

LEMMA TypeInit == Init => TypeOK
<1> SUFFICES ASSUME Init PROVE TypeOK
  OBVIOUS
<1>1. 0 \in Addrs /\ 0 \in 0 .. IdxRange - 1 /\ NumConnections \in Nat
  BY Sizes
<1>2. wpc \in [Workers -> {"idle", "next", "dial", "ok", "failed"}] /\ conns \in Seq(Nat)
  BY DEF Init
<1>3. addr \in [Workers -> Addrs] /\ try \in [Workers -> Nat] /\ dials \in [Addrs -> Nat]
  BY <1>1 DEF Init
<1> QED BY Zenon, <1>1, <1>2, <1>3 DEF Init, TypeOK

\* A worker's step changes where that worker is, and no other.
LEMMA GoesTo ==
  ASSUME TypeOK, NEW w \in Workers, NEW l \in {"idle", "next", "dial", "ok", "failed"}, Goto(w, l)
  PROVE  /\ wpc' \in [Workers -> {"idle", "next", "dial", "ok", "failed"}]
         /\ wpc'[w] = l /\ \A v \in Workers \ {w} : wpc'[v] = wpc[v]
BY DEF TypeOK, Goto

LEMMA NextIsIndex ==
  ASSUME TypeOK, NEW w \in Workers
  PROVE  NextIdx(w) \in 0 .. IdxRange - 1 /\ NextIdx(w) % NAddrs \in Addrs
<1>1. serverIdx + 1 \in Int
  BY Sizes DEF TypeOK
<1>2. NextIdx(w) \in 0 .. IdxRange - 1
  BY Zenon, <1>1, Sizes, DivMod DEF NextIdx
<1>3. NextIdx(w) \in Int
  BY <1>2, Sizes
<1> QED BY Zenon, <1>2, <1>3, Sizes, DivMod DEF Addrs

---------------------------------------------------------------------------
(***************************************************************************)
(* The loop over the connections' limits.  Its recursion goes down the     *)
(* sets of indices; what it computes is the value at the index that has    *)
(* the highest limit, or the lowest one.                                   *)
(***************************************************************************)

AtLeast(most, m, n) == IF most THEN m >= n ELSE m <= n

Better(most, m, n) == IF most THEN Most(m, n) ELSE Fewest(m, n)

Best(most, s, u, i) == i \in u /\ \A j \in u : AtLeast(most, s[i], s[j])

BestOf(most, s, u) == s[CHOOSE i \in u : Best(most, s, u, i)]

\* The recursion of Loop, over the indices D of s.
Folds(most, s, D, g) ==
  g = [u \in SUBSET D |->
         IF u = {} THEN 0 ELSE Better(most, g[u \ {Max(u)}], s[Max(u)])]

\* The limits a fold goes over; the fewest of them is told apart from 0, none so far.
Foldable(most, s, D) ==
  /\ IsFiniteSet(D) /\ D \subseteq Int
  /\ \A i \in D : s[i] \in Nat /\ (~most => s[i] # 0)

---------------------------------------------------------------------------
(***************************************************************************)
(* The Calculator's count, and the connections that were collected.        *)
(***************************************************************************)

Busy == {w \in Workers : wpc[w] # "idle"}

Dialled == {w \in Workers : wpc[w] = "ok"}

Tally ==
  /\ jobs + success + failed + Cardinality(Busy) = NumConnections
  /\ Len(conns) = success + Cardinality(Dialled)
  /\ phase = "dial" => maxStreams = 0 /\ minMaxStreams = 0
  /\ phase = "done" =>
        /\ jobs = 0 /\ \A w \in Workers : wpc[w] = "idle"
        /\ maxStreams = Loop(Most, 0, conns)
        /\ minMaxStreams = Loop(Fewest, 0, conns)

LEMMA SetsOfWorkers ==
  ASSUME NEW S \in SUBSET Workers
  PROVE  /\ IsFiniteSet(S) /\ Cardinality(S) \in Nat
         /\ \A w : w \notin S => Cardinality(S \cup {w}) = Cardinality(S) + 1
         /\ \A w : w \in S => Cardinality(S \ {w}) = Cardinality(S) - 1
<1>1. IsFiniteSet(S)
  BY Zenon, ConstantsAssumption, FS_Subset
<1> QED BY Zenon, <1>1, FS_CardinalityType, FS_AddElement, FS_RemoveElement

\* A step of the tally: by how much each of its numbers changes.
Moves(j, f, s, b, d, n) ==
  /\ jobs' = jobs + j /\ failed' = failed + f /\ success' = success + s
  /\ Cardinality(Busy') = Cardinality(Busy) + b
  /\ Cardinality(Dialled') = Cardinality(Dialled) + d
  /\ Len(conns') = Len(conns) + n

LEMMA TypeStep ==
  ASSUME TypeOK, [Next]_vars
  PROVE  TypeOK'
<1> USE DEF TypeOK
<1>1. CASE Stats \/ Ended \/ UNCHANGED vars
  BY Zenon, <1>1 DEF Stats, Ended, vars, workVars
<1>2. ASSUME NEW w \in Workers, Begin(w) \/ Return(w) PROVE TypeOK'
  <2>1. wpc' \in [Workers -> {"idle", "next", "dial", "ok", "failed"}]
    BY Zenon, <1>2 DEF Begin, Return, Goto
  <2>2. CASE Begin(w)
    BY SMTT(40), <2>1, <2>2 DEF Begin
  <2>3. CASE Return(w)
    BY SMTT(40), <2>1, <2>3 DEF Return
  <2> QED BY Zenon, <1>2, <2>2, <2>3
<1>3. ASSUME NEW w \in Workers, TakeAddr(w) PROVE TypeOK'
  <2>1. wpc' \in [Workers -> {"idle", "next", "dial", "ok", "failed"}]
    BY Zenon, <1>3 DEF TakeAddr, Goto
  <2>2. serverIdx' \in 0 .. IdxRange - 1 /\ serverIdx' % NAddrs \in Addrs
    BY Zenon, <1>3, NextIsIndex DEF TakeAddr
  <2>3. addr' \in [Workers -> Addrs]
    BY Zenon, <1>3, <2>2 DEF TakeAddr
  <2> QED BY Zenon, <1>3, <2>1, <2>2, <2>3 DEF TakeAddr, workVars
<1>4. ASSUME NEW w \in Workers, Dialling(w) PROVE TypeOK'
  <2>1. wpc' \in [Workers -> {"idle", "next", "dial", "ok", "failed"}]
    BY Zenon, <1>4 DEF Dialling, DialOk, DialFailed, Goto
  <2>2. dials' \in [Addrs -> Nat] /\ try' \in [Workers -> Nat]
    <3>1. dials' = [dials EXCEPT ![addr[w]] = @ + 1] /\ addr[w] \in Addrs
      BY Zenon, <1>4 DEF Dialling, DialOk, DialFailed
    <3>2. dials' \in [Addrs -> Nat]
      BY <3>1
    <3>3. try' = try \/ try' = [try EXCEPT ![w] = @ + 1]
      BY Zenon, <1>4 DEF Dialling, DialOk, DialFailed
    <3>4. try' \in [Workers -> Nat]
      BY <3>3
    <3> QED BY Zenon, <3>2, <3>4
  <2>3. conns' \in Seq(Nat)
    <3>1. CASE DialFailed(w)
      BY Zenon, <3>1 DEF DialFailed
    <3>2. ASSUME NEW n \in Limits, DialOk(w, n) PROVE conns' \in Seq(Nat)
      <4>1. n \in Nat
        BY Zenon, ConstantsAssumption
      <4> QED BY <3>2, <4>1 DEF DialOk, Collect
    <3> QED BY Zenon, <1>4, <3>1, <3>2 DEF Dialling
  <2>4. UNCHANGED <<jobs, success, failed, addr, serverIdx, phase>>
    BY Zenon, <1>4 DEF Dialling, DialOk, DialFailed, workVars
  <2> QED BY Zenon, <2>1, <2>2, <2>3, <2>4
<1> QED BY Zenon, <1>1, <1>2, <1>3, <1>4 DEF Next

\* When Run is over every call has been counted, each success left one connection, and
\* MaxStreams and MinMaxStreams are the highest and the fewest of their limits.
THEOREM RunCollects == Spec => []Collected
<1>HasBest. ASSUME NEW most \in BOOLEAN, NEW D, IsFiniteSet(D), NEW s, \A i \in D : s[i] \in Int, D # {}
            PROVE  \E i \in D : Best(most, s, D, i)
  <2> USE <1>HasBest
  <2> DEFINE T == {u \in SUBSET D : u # {} /\ ~ \E i \in u : Best(most, s, u, i)}
  <2>0. T \subseteq SUBSET D
    OBVIOUS
  <2>1. ASSUME T # {} PROVE FALSE
    <3> HIDE DEF T
    <3>1. PICK u \in T : \A v \in T : v \subseteq u => v = u
      BY <2>0, <2>1, LeastSet
    <3> USE DEF T
    <3>2. PICK x : x \in u /\ u \in SUBSET D /\ s[x] \in Int
      BY Zenon, <3>1
    <3>3. u \ {x} \notin T
      BY Zenon, <3>1, <3>2
    <3>4. CASE u \ {x} = {}
      <4>1. \A j \in u : j = x
        BY <3>4
      <4>2. Best(most, s, u, x)
        BY <3>2, <4>1 DEF Best, AtLeast
      <4> QED BY <3>1, <3>2, <4>2
    <3>5. CASE u \ {x} # {}
      <4>1. PICK y \in u \ {x} : Best(most, s, u \ {x}, y)
        BY Zenon, <3>2, <3>3, <3>5
      <4>2. \A j \in u : j = x \/ (j \in u \ {x} /\ s[j] \in Int)
        BY <3>2
      <4>3. s[y] \in Int
        BY <3>2
      <4>4. CASE AtLeast(most, s[y], s[x])
        <5>1. Best(most, s, u, y)
          BY <4>1, <4>2, <4>4 DEF Best
        <5> QED BY Zenon, <3>1, <4>1, <5>1
      <4>5. CASE ~AtLeast(most, s[y], s[x])
        <5>1. \A j \in u \ {x} : AtLeast(most, s[x], s[j])
          BY <3>2, <4>1, <4>2, <4>3, <4>5 DEF Best, AtLeast
        <5>2. Best(most, s, u, x)
          BY <3>2, <4>2, <5>1 DEF Best, AtLeast
        <5> QED BY Zenon, <3>1, <3>2, <5>2
      <4> QED BY Zenon, <4>4, <4>5
    <3> QED BY <3>4, <3>5
  <2> QED BY <2>1
\* Max is in its set.
<1>MaxIn. ASSUME NEW u, IsFiniteSet(u), u \subseteq Int, u # {}
          PROVE  Max(u) \in u
  <2> USE <1>MaxIn
  <2> DEFINE s == [i \in u |-> i]
  <2>1. \A i \in u : s[i] = i /\ s[i] \in Int
    OBVIOUS
  <2> HIDE DEF s
  <2>2. PICK i \in u : Best(TRUE, s, u, i)
    BY Zenon, <2>1, <1>HasBest
  <2>3. \A j \in u : i >= j
    BY <2>1, <2>2 DEF Best, AtLeast
  <2> QED BY Zenon, <2>3 DEF Max
\* The best value of a set of indices is that of any best index.
<1>BestIs. ASSUME NEW most \in BOOLEAN, NEW u, NEW s, \A i \in u : s[i] \in Int,
                  NEW i, Best(most, s, u, i)
           PROVE  BestOf(most, s, u) = s[i]
  <2> USE <1>BestIs
  <2>1. PICK k : k = CHOOSE j \in u : Best(most, s, u, j)
    OBVIOUS
  <2>2. Best(most, s, u, k)
    BY <2>1 DEF Best
  <2>3. AtLeast(most, s[i], s[k]) /\ AtLeast(most, s[k], s[i]) /\ s[i] \in Int /\ s[k] \in Int
    BY <2>2 DEF Best
  <2>4. s[i] = s[k]
    BY <2>3 DEF AtLeast
  <2> QED BY <2>1, <2>4 DEF BestOf
<1>FoldMost. ASSUME NEW s
             PROVE  Loop(Most, 0, s) = (CHOOSE g : Folds(TRUE, s, DOMAIN s, g))[DOMAIN s]
  BY <1>FoldMost DEF Loop, MapThenFoldSet, Folds, Better
<1>FoldFewest.
      ASSUME NEW s
      PROVE  Loop(Fewest, 0, s) = (CHOOSE g : Folds(FALSE, s, DOMAIN s, g))[DOMAIN s]
  BY <1>FoldFewest DEF Loop, MapThenFoldSet, Folds, Better
\* One index more: the better of the best so far and of the new value is the best.
<1>BestGrows. ASSUME NEW most \in BOOLEAN, NEW s, NEW u, Foldable(most, s, u), NEW x \in u
              PROVE  BestOf(most, s, u) =
                       Better(most, IF u \ {x} = {} THEN 0 ELSE BestOf(most, s, u \ {x}), s[x])
  <2> USE <1>BestGrows
  <2>1. \A i \in u : s[i] \in Nat /\ s[i] \in Int /\ (~most => s[i] # 0)
    BY DEF Foldable
  <2>2. CASE u \ {x} = {}
    <3>1. \A j \in u : j = x
      BY <2>2
    <3>2. Best(most, s, u, x)
      BY <2>1, <3>1 DEF Best, AtLeast
    <3>3. BestOf(most, s, u) = s[x]
      BY <2>1, <3>2, <1>BestIs
    <3>4. Better(most, 0, s[x]) = s[x]
      BY <2>1 DEF Better, Most, Fewest
    <3> QED BY <2>2, <3>3, <3>4
  <2>3. CASE u \ {x} # {}
    <3>1. IsFiniteSet(u \ {x})
      BY FS_Subset DEF Foldable
    <3>2. PICK y \in u \ {x} : Best(most, s, u \ {x}, y)
      BY Zenon, <2>1, <2>3, <3>1, <1>HasBest
    <3>3. BestOf(most, s, u \ {x}) = s[y]
      BY <2>1, <3>2, <1>BestIs
    <3>4. PICK m \in Nat, n \in Nat : m = s[y] /\ n = s[x] /\ (~most => m # 0)
      BY Zenon, <2>1
    <3>5. CASE AtLeast(most, m, n)
      <4>1. Best(most, s, u, y)
        BY Zenon, <3>2, <3>4, <3>5 DEF Best
      <4>2. BestOf(most, s, u) = m
        BY <2>1, <3>4, <4>1, <1>BestIs
      <4>3. Better(most, m, n) = m
        BY <3>4, <3>5 DEF Better, Most, Fewest, AtLeast
      <4> QED BY Zenon, <2>3, <3>3, <3>4, <4>2, <4>3
    <3>6. CASE ~AtLeast(most, m, n)
      <4>1. \A j \in u \ {x} : AtLeast(most, n, s[j])
        <5> SUFFICES ASSUME NEW j \in u \ {x} PROVE AtLeast(most, n, s[j])
          BY Zenon
        <5>1. AtLeast(most, m, s[j]) /\ s[j] \in Nat
          BY Zenon, <2>1, <3>2, <3>4 DEF Best
        <5> QED BY <3>6, <5>1 DEF AtLeast
      <4>2. Best(most, s, u, x)
        BY <3>4, <4>1 DEF Best, AtLeast
      <4>3. BestOf(most, s, u) = n
        BY <2>1, <3>4, <4>2, <1>BestIs
      <4>4. Better(most, m, n) = n
        BY <3>4, <3>6 DEF Better, Most, Fewest, AtLeast
      <4> QED BY Zenon, <2>3, <3>3, <3>4, <4>3, <4>4
    <3> QED BY <3>5, <3>6
  <2> QED BY Zenon, <2>2, <2>3
<1>FoldableWithin.
      ASSUME NEW most \in BOOLEAN, NEW s, NEW D, Foldable(most, s, D), NEW u \in SUBSET D
      PROVE  Foldable(most, s, u) /\ (u # {} => Max(u) \in u)
  <2> USE <1>FoldableWithin
  <2>1. IsFiniteSet(u)
    BY Zenon, FS_Subset DEF Foldable
  <2>2. u \subseteq Int /\ Foldable(most, s, u)
    BY <2>1 DEF Foldable
  <2> QED BY Zenon, <2>1, <2>2, <1>MaxIn
\* So the function of the best values is one the recursion allows,
<1>FoldsExists.
      ASSUME NEW most \in BOOLEAN, NEW s, NEW D, Foldable(most, s, D)
      PROVE  \E g : Folds(most, s, D, g)
  <2> USE <1>FoldsExists
  <2> DEFINE B(u) == IF u = {} THEN 0 ELSE BestOf(most, s, u)
             b == [u \in SUBSET D |-> B(u)]
  <2>1. ASSUME NEW u \in SUBSET D
        PROVE  B(u) = IF u = {} THEN 0 ELSE Better(most, b[u \ {Max(u)}], s[Max(u)])
    <3>1. CASE u = {}
      BY <3>1
    <3>2. CASE u # {}
      <4>1. Foldable(most, s, u) /\ Max(u) \in u
        BY <3>2, <1>FoldableWithin
      <4>2. BestOf(most, s, u) =
              Better(most, IF u \ {Max(u)} = {} THEN 0 ELSE BestOf(most, s, u \ {Max(u)}), s[Max(u)])
        BY <4>1, <1>BestGrows
      <4>3. u \ {Max(u)} \in SUBSET D
        OBVIOUS
      <4>4. b[u \ {Max(u)}] = IF u \ {Max(u)} = {} THEN 0 ELSE BestOf(most, s, u \ {Max(u)})
        BY Zenon, <4>3
      <4> QED BY Zenon, <3>2, <4>2, <4>4
    <3> QED BY <3>1, <3>2
  <2>2. b = [u \in SUBSET D |-> IF u = {} THEN 0 ELSE Better(most, b[u \ {Max(u)}], s[Max(u)])]
    BY Zenon, <2>1
  <2> QED BY Zenon, <2>2 DEF Folds
\* and every one it allows has the best values.
<1>FoldsBest. ASSUME NEW most \in BOOLEAN, NEW s, NEW D, Foldable(most, s, D), NEW g,
                  Folds(most, s, D, g), D # {}
              PROVE  g[D] = BestOf(most, s, D)
  <2> USE <1>FoldsBest
  <2> DEFINE T == {u \in SUBSET D : u # {} /\ g[u] # BestOf(most, s, u)}
  <2>0. T \subseteq SUBSET D /\ IsFiniteSet(D)
    BY DEF Foldable
  <2>1. ASSUME T # {} PROVE FALSE
    <3> HIDE DEF T
    <3>1. PICK u \in T : \A v \in T : v \subseteq u => v = u
      BY <2>0, <2>1, LeastSet
    <3> USE DEF T
    <3>2. u \in SUBSET D /\ u # {} /\ g[u] # BestOf(most, s, u)
      BY Zenon, <3>1
    <3>3. Foldable(most, s, u) /\ Max(u) \in u
      BY <3>2, <1>FoldableWithin
    <3>a. PICK v : v = u \ {Max(u)}
      BY Zenon
    <3>4. v \in SUBSET D /\ v = u \ {Max(u)} /\ v # u
      BY Zenon, <3>2, <3>3, <3>a
    <3>5. g[u] = Better(most, g[v], s[Max(u)])
      BY Zenon, <3>2, <3>4 DEF Folds
    <3>6. g[{}] = 0
      BY Zenon DEF Folds
    <3>7. g[v] = IF v = {} THEN 0 ELSE BestOf(most, s, v)
      BY Zenon, <3>1, <3>4, <3>6
    <3>8. BestOf(most, s, u) = Better(most, IF v = {} THEN 0 ELSE BestOf(most, s, v), s[Max(u)])
      BY SMTT(40), Z3T(40), <3>3, <3>4, <1>BestGrows
    <3> QED BY Zenon, <3>2, <3>5, <3>7, <3>8
  <2> QED BY <2>1
\* Stats (Run) finds the highest limit, and the fewest where no limit is 0.
<1>LimitsFound.
      ASSUME NEW s \in Seq(Nat), s # <<>>, NEW L, L = {s[i] : i \in 1 .. Len(s)}
      PROVE  /\ Loop(Most, 0, s) = Max(L)
             /\ 0 \notin L => Loop(Fewest, 0, s) = Min(L)
  <2> USE <1>LimitsFound
  <2> DEFINE D == DOMAIN s
  <2>1. /\ D = 1 .. Len(s) /\ Len(s) \in Nat /\ Len(s) > 0 /\ 1 \in D
        /\ \A i \in D : s[i] \in Nat /\ s[i] \in L
        /\ \A n \in L : \E i \in D : s[i] = n
    OBVIOUS
  <2>2. IsFiniteSet(D) /\ D \subseteq Int /\ D # {} /\ \A i \in D : s[i] \in Int
    <3>1. D = 1 .. Len(s) /\ Len(s) \in Int /\ 1 \in Int
      BY <2>1
    <3>2. IsFiniteSet(D)
      BY Zenon, <3>1, FS_Interval
    <3> QED BY <2>1, <3>1, <3>2
  <2>3. ASSUME NEW most \in BOOLEAN, ~most => 0 \notin L
        PROVE  \E i \in D : /\ (CHOOSE g : Folds(most, s, D, g))[D] = s[i]
                            /\ \A n \in L : AtLeast(most, s[i], n)
    <3>1. Foldable(most, s, D)
      BY <2>1, <2>2, <2>3 DEF Foldable
    <3>2. PICK g : g = CHOOSE h : Folds(most, s, D, h)
      OBVIOUS
    <3>3. Folds(most, s, D, g)
      BY Zenon, <3>1, <3>2, <1>FoldsExists
    <3>4. g[D] = BestOf(most, s, D)
      BY Zenon, <2>2, <3>1, <3>3, <1>FoldsBest
    <3>5. PICK i \in D : Best(most, s, D, i)
      BY Zenon, <2>2, <1>HasBest
    <3>6. BestOf(most, s, D) = s[i]
      BY <2>1, <3>5, <1>BestIs
    <3>7. \A n \in L : AtLeast(most, s[i], n)
      BY <2>1, <3>5 DEF Best
    <3> QED BY Zenon, <3>2, <3>4, <3>6, <3>7
  <2>4. Loop(Most, 0, s) = Max(L)
    <3>1. PICK i \in D : /\ (CHOOSE g : Folds(TRUE, s, D, g))[D] = s[i]
                         /\ \A n \in L : AtLeast(TRUE, s[i], n)
      BY Zenon, <2>3
    <3>2. PICK m \in Nat : m = s[i] /\ m \in L /\ \A n \in L : m >= n
      BY <2>1, <3>1 DEF AtLeast
    <3>3. \A x, y \in L : x \in Nat /\ y \in Nat
      BY <2>1
    <3>4. Max(L) = m
      BY SMTT(40), Z3T(40), <3>2, <3>3 DEF Max
    <3> QED BY Zenon, <3>1, <3>2, <3>4, <1>FoldMost
  <2>5. ASSUME 0 \notin L PROVE Loop(Fewest, 0, s) = Min(L)
    <3>1. PICK i \in D : /\ (CHOOSE g : Folds(FALSE, s, D, g))[D] = s[i]
                         /\ \A n \in L : AtLeast(FALSE, s[i], n)
      BY Zenon, <2>3, <2>5
    <3>2. PICK m \in Nat : m = s[i] /\ m \in L /\ \A n \in L : m <= n
      BY Zenon, <2>1, <3>1 DEF AtLeast
    <3>3. \A x, y \in L : x \in Nat /\ y \in Nat
      BY <2>1
    <3>4. Min(L) = m
      BY SMTT(40), Z3T(40), <3>2, <3>3 DEF Min
    <3> QED BY Zenon, <3>1, <3>2, <3>4, <1>FoldFewest
  <2> QED BY Zenon, <2>4, <2>5
<1>TallyInit. Init => Tally
  <2> SUFFICES ASSUME Init PROVE Tally
    OBVIOUS
  <2>1. Busy = {} /\ Dialled = {}
    BY DEF Init, Busy, Dialled
  <2>2. Cardinality(Busy) = 0 /\ Cardinality(Dialled) = 0
    BY <2>1, FS_EmptySet
  <2>3. Len(conns) = 0 /\ phase = "dial" /\ jobs = NumConnections
    BY Zenon DEF Init
  <2> QED BY <2>2, <2>3, Sizes DEF Init, Tally
\* What a worker's step does to the sets of workers, and that Run is not over.
<1>Moving. ASSUME TypeOK, Tally, NEW w \in Workers, Begin(w) \/ TakeAddr(w) \/ Dialling(w) \/ Return(w)
           PROVE  /\ phase = "dial" /\ UNCHANGED <<phase, maxStreams, minMaxStreams>>
                  /\ Busy \in SUBSET Workers /\ Dialled \in SUBSET Workers
  <2> USE <1>Moving
  <2>1. jobs > 0 \/ wpc[w] # "idle"
    BY Zenon DEF Begin, TakeAddr, Dialling, DialOk, DialFailed, Return
  <2>2. jobs > 0 => jobs # 0
    BY DEF TypeOK
  <2>3. phase = "dial"
    BY <2>1, <2>2 DEF Tally, TypeOK
  <2>4. UNCHANGED <<phase, maxStreams, minMaxStreams>>
    BY Zenon DEF Begin, TakeAddr, Dialling, DialOk, DialFailed, Return, limitVars
  <2> QED BY SMTT(40), <2>3, <2>4 DEF Busy, Dialled
<1>TallyMoves.
      ASSUME TypeOK, TypeOK', Tally, phase = "dial", UNCHANGED <<phase, maxStreams, minMaxStreams>>,
             NEW j \in Int, NEW f \in Int, NEW s \in Int, NEW b \in Int, NEW d \in Int, NEW n \in Int,
             Moves(j, f, s, b, d, n), j + f + s + b = 0, n = s + d
      PROVE  Tally'
  <2> USE <1>TallyMoves
  <2>1. Busy \in SUBSET Workers /\ Dialled \in SUBSET Workers
    BY Zenon DEF Busy, Dialled
  <2>2. Cardinality(Busy) \in Nat /\ Cardinality(Dialled) \in Nat
    BY SMTT(40), <2>1, SetsOfWorkers
  <2>3. jobs \in Nat /\ success \in Nat /\ failed \in Nat /\ Len(conns) \in Nat /\ NumConnections \in Nat
    BY Sizes DEF TypeOK
  <2>4. (jobs + j) + (success + s) + (failed + f) + (Cardinality(Busy) + b) = NumConnections
    <3>1. jobs + success + failed + Cardinality(Busy) = NumConnections
      BY DEF Tally
    <3>2. /\ jobs \in Int /\ success \in Int /\ failed \in Int
          /\ Cardinality(Busy) \in Int
      BY <2>2, <2>3
    <3>3. (jobs + j) + (success + s) + (failed + f) + (Cardinality(Busy) + b)
            = jobs + success + failed + Cardinality(Busy)
      BY SMTT(40), <3>2
    <3> QED BY Zenon, <3>1, <3>3
  <2>5. Len(conns) + n = (success + s) + (Cardinality(Dialled) + d)
    <3>1. Len(conns) = success + Cardinality(Dialled)
      BY Zenon DEF Tally
    <3>2. success \in Int /\ Cardinality(Dialled) \in Int
      BY <2>2, <2>3
    <3>3. (success + Cardinality(Dialled)) + (s + d) = (success + s) + (Cardinality(Dialled) + d)
      BY SMTT(40), <3>2
    <3> QED BY Zenon, <3>1, <3>3
  <2>6. jobs' + success' + failed' + Cardinality(Busy)' = NumConnections
    BY <2>4 DEF Moves
  <2>7. Len(conns)' = success' + Cardinality(Dialled)'
    BY <2>5 DEF Moves
  <2> QED BY Zenon, <2>6, <2>7 DEF Tally
<1>TallyWork. ASSUME TypeOK, TypeOK', Tally, NEW w \in Workers,
                     Begin(w) \/ TakeAddr(w) \/ Dialling(w) \/ Return(w)
              PROVE  Tally'
  <2> USE <1>TallyWork
  <2>0. /\ phase = "dial" /\ UNCHANGED <<phase, maxStreams, minMaxStreams>>
        /\ Busy \in SUBSET Workers /\ Dialled \in SUBSET Workers
    BY <1>Moving
  <2>1. /\ Cardinality(Busy) \in Nat /\ Cardinality(Dialled) \in Nat
        /\ Len(conns) \in Nat /\ jobs \in Nat /\ success \in Nat /\ failed \in Nat
    <3>1. Cardinality(Busy) \in Nat /\ Cardinality(Dialled) \in Nat
      BY Zenon, <2>0, SetsOfWorkers
    <3> QED BY <3>1 DEF TypeOK
  <2>2. CASE Begin(w)
    <3>1. Busy' = Busy \cup {w} /\ w \notin Busy /\ Dialled' = Dialled
      BY SMTT(40), Z3T(40), <2>2, GoesTo DEF Begin, TypeOK, Goto, Busy, Dialled
    <3>2. Cardinality(Busy') = Cardinality(Busy) + 1
      BY Zenon, <2>0, <3>1, SetsOfWorkers
    <3>3. Moves(-1, 0, 0, 1, 0, 0)
      BY SMTT(60), <2>1, <2>2, <3>1, <3>2 DEF Moves, Begin
    <3> QED BY <2>0, <3>3, <1>TallyMoves
  <2>3. CASE TakeAddr(w)
    <3>1. Busy' = Busy /\ Dialled' = Dialled
      BY Zenon, <2>3 DEF TakeAddr, TypeOK, Goto, Busy, Dialled
    <3>2. Moves(0, 0, 0, 0, 0, 0)
      BY SMTT(40), Z3T(40), <2>1, <2>3, <3>1 DEF Moves, TakeAddr, workVars
    <3> QED BY <2>0, <3>2, <1>TallyMoves
  <2>4. CASE DialFailed(w)
    <3>1. Busy' = Busy /\ Dialled' = Dialled
      BY SMTT(40), <2>4 DEF DialFailed, TypeOK, Goto, Busy, Dialled
    <3>2. Moves(0, 0, 0, 0, 0, 0)
      BY SMTT(60), <2>1, <2>4, <3>1 DEF Moves, DialFailed, workVars
    <3> QED BY <2>0, <3>2, <1>TallyMoves
  <2>5. ASSUME NEW n \in Limits, DialOk(w, n) PROVE Tally'
    <3>1. Busy' = Busy /\ Dialled' = Dialled \cup {w} /\ w \notin Dialled
      BY SMTT(40), Z3T(40), <2>5 DEF DialOk, TypeOK, Goto, Busy, Dialled
    <3>2. Cardinality(Dialled') = Cardinality(Dialled) + 1
      BY Zenon, <2>0, <3>1, SetsOfWorkers
    <3>3. Len(conns') = Len(conns) + 1
      <4>1. conns \in Seq(Nat) /\ n \in Nat
        BY ZenonT(40), ConstantsAssumption DEF TypeOK
      <4> QED BY <2>5, <4>1 DEF DialOk, Collect
    <3>4. Moves(0, 0, 0, 0, 1, 1)
      BY SMTT(60), <2>1, <2>5, <3>1, <3>2, <3>3 DEF Moves, DialOk, workVars
    <3> QED BY SMTT(40), <2>0, <3>4, <1>TallyMoves
  <2>6. CASE Return(w)
    <3>1. Busy' = Busy \ {w} /\ w \in Busy
      BY Zenon, <2>6 DEF Return, TypeOK, Goto, Busy
    <3>2. Cardinality(Busy') = Cardinality(Busy) - 1
      BY Zenon, <2>0, <3>1, SetsOfWorkers
    <3>3. CASE wpc[w] = "ok"
      <4>1. Dialled' = Dialled \ {w} /\ w \in Dialled
        BY <2>6, <3>3 DEF Return, TypeOK, Goto, Dialled
      <4>2. Cardinality(Dialled') = Cardinality(Dialled) - 1
        BY Zenon, <2>0, <4>1, SetsOfWorkers
      <4>3. Moves(0, 0, 1, -1, -1, 0)
        BY SMTT(40), <2>1, <2>6, <3>2, <3>3, <4>2 DEF Moves, Return
      <4> QED BY SMTT(40), <2>0, <4>3, <1>TallyMoves
    <3>4. CASE wpc[w] = "failed"
      <4>1. Dialled' = Dialled
        BY Zenon, <2>6, <3>4 DEF Return, TypeOK, Goto, Dialled
      <4>2. Moves(0, 1, 0, -1, 0, 0)
        BY SMTT(40), <2>1, <2>6, <3>2, <3>4, <4>1 DEF Moves, Return
      <4> QED BY SMTT(40), <2>0, <4>2, <1>TallyMoves
    <3> QED BY Zenon, <2>6, <3>3, <3>4 DEF Return
  <2> QED BY Zenon, <2>2, <2>3, <2>4, <2>5, <2>6 DEF Dialling
<1>TallyStep. ASSUME TypeOK, TypeOK', Tally, [Next]_vars
              PROVE  Tally'
  <2> USE <1>TallyStep
  <2>1. CASE Stats
    <3>1. /\ phase = "dial" /\ phase' = "done" /\ jobs = 0 /\ \A w \in Workers : wpc[w] = "idle"
          /\ maxStreams' = Loop(Most, maxStreams, conns)
          /\ minMaxStreams' = Loop(Fewest, minMaxStreams, conns)
          /\ UNCHANGED <<jobs, success, failed, wpc, conns>>
      BY Zenon, <2>1 DEF Stats, workVars
    <3>2. maxStreams = 0 /\ minMaxStreams = 0
      BY Zenon, <3>1 DEF Tally
    <3>3. Busy' = Busy /\ Dialled' = Dialled
      BY Zenon, <3>1 DEF Busy, Dialled
    <3> QED BY Zenon, <3>1, <3>2, <3>3 DEF Tally
  <2>2. CASE Ended \/ UNCHANGED vars
    <3>1. UNCHANGED <<jobs, success, failed, wpc, conns, phase, maxStreams, minMaxStreams>>
      BY Zenon, <2>2 DEF Ended, vars, workVars, limitVars
    <3>2. Busy' = Busy /\ Dialled' = Dialled
      BY Zenon, <3>1 DEF Busy, Dialled
    <3> QED BY Zenon, <3>1, <3>2 DEF Tally
  <2> QED BY <2>1, <2>2, <1>TallyWork DEF Next
<1>CollectedHolds.
      TypeOK /\ Tally => Collected
  <2> SUFFICES ASSUME TypeOK, Tally, phase = "done" PROVE Collected
    BY Zenon DEF Collected
  <2> DEFINE limits == {conns[i] : i \in 1 .. Len(conns)}
  <2>1. Busy = {} /\ Dialled = {}
    BY Zenon DEF Tally, Busy, Dialled
  <2>2. Cardinality(Busy) = 0 /\ Cardinality(Dialled) = 0
    BY Zenon, <2>1, FS_EmptySet
  <2>3. success \in Nat /\ failed \in Nat /\ conns \in Seq(Nat)
    BY Zenon DEF TypeOK
  <2>4. success + failed = NumConnections /\ Len(conns) = success
    BY <2>2, <2>3 DEF Tally
  <2>5. ASSUME limits # {}
        PROVE  /\ maxStreams = Max(limits)
               /\ 0 \notin limits => minMaxStreams = Min(limits)
    <3>1. conns # <<>>
      BY <2>5
    <3>2. PICK L : L = limits
      BY Zenon
    <3>3. /\ Loop(Most, 0, conns) = Max(L)
          /\ 0 \notin L => Loop(Fewest, 0, conns) = Min(L)
      BY Zenon, <2>3, <3>1, <3>2, <1>LimitsFound
    <3> QED BY Zenon, <3>2, <3>3 DEF Tally
  <2> QED BY Zenon, <2>4, <2>5 DEF Collected
<1>1. Init => TypeOK /\ Tally
  BY Zenon, TypeInit, <1>TallyInit
<1>2. TypeOK /\ Tally /\ [Next]_vars => (TypeOK /\ Tally)'
  BY Zenon, TypeStep, <1>TallyStep
<1> QED BY <1>1, <1>2, <1>CollectedHolds, PTL DEF Spec

---------------------------------------------------------------------------
(***************************************************************************)
(* The spread of the dials.  The index has gone round its range q times    *)
(* and stands at serverIdx; the address that was taken last is its         *)
(* remainder.  Of two addresses the lower one is ahead by one while the    *)
(* last is between the two, and by one more for each round that ended      *)
(* between them.  Ahead counts one for address 0, which the first dial     *)
(* passes over.                                                            *)
(***************************************************************************)

Wrap == (IdxRange - 1) % NAddrs

Turn == serverIdx % NAddrs

One(p) == IF p THEN 1 ELSE 0

Ahead(a) == Taken[a] + One(a = 0)

Lead(a, b, q, t) == (IF a <= Wrap /\ Wrap < b THEN q ELSE 0) + One(a <= t /\ t < b)

Spread(q) ==
  /\ SumFunction(Taken) = (q * IdxRange) + serverIdx
  /\ \A a, b \in Addrs : a <= b => Ahead(a) - Ahead(b) = Lead(a, b, q, Turn)

---------------------------------------------------------------------------

\* The invariant: the index has gone round some number of times.
InTurn == \E q \in Nat : Spread(q)

\* The shared serverIdx spreads the attempts of all workers evenly over the
\* addresses, however first calls and retries interleave: two addresses differ by
\* at most one attempt, and one more for each time the index has wrapped.
THEOREM DialsSpread == Spec => []EvenlySpread
<1>TurnTypes. ASSUME TypeOK
              PROVE  /\ Turn \in Addrs /\ Wrap \in Addrs /\ serverIdx \in Int
                     /\ NAddrs \in Int /\ IdxRange \in Int /\ \A a \in Addrs : a \in Int /\ 0 <= a /\ a <= NAddrs - 1
  <2> USE <1>TurnTypes
  <2>1. serverIdx \in Int /\ IdxRange - 1 \in Int
    BY Sizes DEF TypeOK
  <2> QED BY SMTT(40), <2>1, Sizes, DivMod DEF Turn, Wrap, Addrs
<1>ZeroTurn. 0 % NAddrs = 0
  <2>1. 0 \in Int /\ 0 \in 0 .. NAddrs - 1 /\ (0 * NAddrs) + 0 = 0
    BY Sizes
  <2> QED BY <2>1, Sizes, Remainder
\* The next index, and the address it gives.
<1>NextTurn. ASSUME TypeOK, NEW w \in Workers, TakeAddr(w)
             PROVE  \/ /\ serverIdx' = serverIdx + 1
                       /\ Turn' = IF Turn = NAddrs - 1 THEN 0 ELSE Turn + 1
                    \/ /\ serverIdx = IdxRange - 1 /\ serverIdx' = 0
                       /\ Turn = Wrap /\ Turn' = 0
  <2> USE <1>NextTurn
  <2>1. serverIdx' = (serverIdx + 1) % IdxRange
    BY DEF TakeAddr, NextIdx
  <2>2. serverIdx \in Int /\ serverIdx \in 0 .. IdxRange - 1 /\ IdxRange \in Nat \ {0}
    BY Sizes DEF TypeOK
  <2>3. serverIdx % IdxRange = serverIdx
    <3>1. 0 \in Int /\ (0 * IdxRange) + serverIdx = serverIdx
      BY <2>2
    <3> QED BY <2>2, <3>1, Remainder
  <2>4. (serverIdx + 1) % IdxRange = IF serverIdx = IdxRange - 1 THEN 0 ELSE serverIdx + 1
    BY Zenon, <2>2, <2>3, NextRemainder
  <2>5. (serverIdx + 1) % NAddrs = IF Turn = NAddrs - 1 THEN 0 ELSE Turn + 1
    BY Zenon, <2>2, Sizes, NextRemainder DEF Turn
  <2>6. CASE serverIdx = IdxRange - 1
    BY Zenon, <2>1, <2>4, <2>6, <1>ZeroTurn DEF Turn, Wrap
  <2>7. CASE serverIdx # IdxRange - 1
    BY Zenon, <2>1, <2>4, <2>5, <2>7 DEF Turn
  <2> QED BY SMTT(40), <2>6, <2>7
\* Taking address t moves the leads as it moves the counts.
<1>NextLead. ASSUME TypeOK, NEW a \in Addrs, NEW b \in Addrs, a <= b, NEW q \in Nat, NEW r \in Nat,
                    NEW t \in Addrs, NEW u \in Addrs,
                    \/ r = q /\ u = (IF t = NAddrs - 1 THEN 0 ELSE t + 1)
                    \/ r = q + 1 /\ t = Wrap /\ u = 0
             PROVE  Lead(a, b, r, u) = Lead(a, b, q, t) + One(a = u) - One(b = u)
  <2> USE <1>NextLead
  <2>1. /\ a \in Int /\ b \in Int /\ t \in Int /\ u \in Int /\ Wrap \in Int /\ NAddrs \in Int
        /\ 0 <= a /\ b <= NAddrs - 1
    BY <1>TurnTypes
  <2>2. PICK k \in Int : k = Wrap
    BY <2>1
  <2> QED BY SMTT(40), <2>1, <2>2 DEF Lead, One
<1>TakenTypes.
      ASSUME TypeOK
      PROVE  /\ DOMAIN Taken = Addrs /\ IsFiniteSet(Addrs)
             /\ \A a \in Addrs : Taken[a] = dials[a] + Cardinality(Underway(a))
             /\ \A a \in Addrs : Underway(a) \in SUBSET Workers
             /\ \A a \in Addrs : Taken[a] \in Nat
  <2> USE <1>TakenTypes
  <2>1. DOMAIN Taken = Addrs /\ \A a \in Addrs : Taken[a] = dials[a] + Cardinality(Underway(a))
    BY DEF Taken
  <2>2. \A a \in Addrs : Underway(a) \in SUBSET Workers
    BY DEF Underway
  <2>3. \A a \in Addrs : Cardinality(Underway(a)) \in Nat /\ dials[a] \in Nat
    BY SMTT(40), <2>2, SetsOfWorkers DEF TypeOK
  <2>4. IsFiniteSet(Addrs)
    BY Sizes, FS_Interval DEF Addrs
  <2> QED BY SMTT(40), <2>1, <2>2, <2>3, <2>4
<1>TakenPrime.
      ASSUME NEW a \in Addrs
      PROVE  Taken'[a] = dials'[a] + Cardinality(Underway(a)')
  BY Zenon, <1>TakenPrime DEF Taken
\* Taking an address counts one there.
<1>TakenGrows.
      ASSUME TypeOK, NEW w \in Workers, TakeAddr(w)
      PROVE  /\ Turn' \in Addrs /\ Taken'[Turn'] = Taken[Turn'] + 1
             /\ \A a \in Addrs \ {Turn'} : Taken'[a] = Taken[a]
  <2> USE <1>TakenGrows
  <2>1. Turn' \in Addrs /\ addr' = [addr EXCEPT ![w] = Turn'] /\ dials' = dials
    BY SMTT(40), NextIsIndex DEF TakeAddr, Turn
  <2>2. /\ wpc[w] = "next" /\ wpc'[w] = "dial" /\ \A v \in Workers \ {w} : wpc'[v] = wpc[v]
    BY GoesTo DEF TakeAddr
  <2>3. addr'[w] = Turn' /\ \A v \in Workers \ {w} : addr'[v] = addr[v]
    BY <2>1 DEF TypeOK
  <2>4. PICK t \in Addrs : t = Turn'
    BY Zenon, <2>1
  <2>5. w \notin Underway(t) /\ Underway(t)' = Underway(t) \cup {w}
    BY <2>2, <2>3, <2>4 DEF Underway
  <2>6. \A a \in Addrs \ {t} : Underway(a)' = Underway(a)
    BY Zenon, <2>2, <2>3, <2>4 DEF Underway
  <2>7. Cardinality(Underway(t) \cup {w}) = Cardinality(Underway(t)) + 1
    BY Zenon, <2>5, <1>TakenTypes, SetsOfWorkers
  <2>8. dials[t] \in Nat /\ Cardinality(Underway(t)) \in Nat
    BY <1>TakenTypes, SetsOfWorkers DEF TypeOK
  <2>9. Taken'[t] = dials[t] + (Cardinality(Underway(t)) + 1)
    BY Zenon, <2>1, <2>5, <2>7, <1>TakenPrime
  <2>10. Taken'[t] = Taken[t] + 1
    BY <2>8, <2>9, <1>TakenTypes
  <2>11. \A a \in Addrs \ {t} : Taken'[a] = Taken[a]
    BY Zenon, <2>1, <2>6, <1>TakenPrime, <1>TakenTypes
  <2> QED BY Zenon, <2>4, <2>10, <2>11
\* Every other step leaves the counts.
<1>TakenStays.
      ASSUME TypeOK, [Next]_vars, ~ \E w \in Workers : TakeAddr(w)
      PROVE  serverIdx' = serverIdx /\ \A a \in Addrs : Taken'[a] = Taken[a]
  <2> USE <1>TakenStays
  <2>1. CASE Stats \/ Ended \/ UNCHANGED vars
    <3>1. UNCHANGED <<wpc, addr, serverIdx, dials>>
      BY Zenon, <2>1 DEF Stats, Ended, vars
    <3> QED BY Zenon, <3>1 DEF Taken, Underway
  <2>2. ASSUME NEW w \in Workers, Begin(w) \/ Return(w)
        PROVE  serverIdx' = serverIdx /\ \A a \in Addrs : Taken'[a] = Taken[a]
    <3>1. UNCHANGED <<addr, serverIdx, dials>>
      BY Zenon, <2>2 DEF Begin, Return
    <3>2. wpc[w] # "dial" /\ wpc'[w] # "dial" /\ \A v \in Workers \ {w} : wpc'[v] = wpc[v]
      BY Zenon, <2>2 DEF Begin, Return, Goto, TypeOK
    <3>3. \A a \in Addrs : Underway(a)' = Underway(a)
      BY <3>1, <3>2 DEF Underway
    <3> QED BY Zenon, <3>1, <3>3, <1>TakenPrime, <1>TakenTypes
  <2>3. ASSUME NEW w \in Workers, Dialling(w)
        PROVE  serverIdx' = serverIdx /\ \A a \in Addrs : Taken'[a] = Taken[a]
    <3>1. /\ UNCHANGED <<addr, serverIdx>> /\ wpc[w] = "dial"
          /\ dials' = [dials EXCEPT ![addr[w]] = dials[addr[w]] + 1]
      BY Zenon, <2>3 DEF Dialling, DialOk, DialFailed
    <3>2. wpc'[w] # "dial" /\ \A v \in Workers \ {w} : wpc'[v] = wpc[v]
      BY Zenon, <2>3 DEF Dialling, DialOk, DialFailed, Goto, TypeOK
    <3>3. PICK d \in Addrs : d = addr[w]
      BY DEF TypeOK
    <3>4. dials'[d] = dials[d] + 1 /\ \A a \in Addrs \ {d} : dials'[a] = dials[a]
      BY Zenon, <3>1, <3>3 DEF TypeOK
    <3>5. w \in Underway(d) /\ Underway(d)' = Underway(d) \ {w}
      BY Zenon, <3>1, <3>2, <3>3 DEF Underway
    <3>6. \A a \in Addrs \ {d} : Underway(a)' = Underway(a)
      BY Zenon, <3>1, <3>2, <3>3 DEF Underway
    <3>7. Cardinality(Underway(d) \ {w}) = Cardinality(Underway(d)) - 1
      BY Zenon, <3>5, <1>TakenTypes, SetsOfWorkers
    <3>8. dials[d] \in Nat /\ Cardinality(Underway(d)) \in Nat
      BY Zenon, <1>TakenTypes, SetsOfWorkers DEF TypeOK
    <3>9. Taken'[d] = (dials[d] + 1) + (Cardinality(Underway(d)) - 1)
      BY SMTT(40), Z3T(40), <3>4, <3>5, <3>7, <1>TakenPrime
    <3>10. Taken'[d] = Taken[d]
      BY <3>8, <3>9, <1>TakenTypes
    <3>11. \A a \in Addrs \ {d} : Taken'[a] = Taken[a]
      BY Zenon, <3>4, <3>6, <1>TakenPrime, <1>TakenTypes
    <3> QED BY Zenon, <3>1, <3>10, <3>11
  <2> QED BY Zenon, <2>1, <2>2, <2>3 DEF Next
\* So the sum grows by one with each address taken.
<1>TakenSum. ASSUME TypeOK, [Next]_vars
             PROVE  /\ SumFunction(Taken) \in Int
                    /\ (\E w \in Workers : TakeAddr(w)) => SumFunction(Taken)' = SumFunction(Taken) + 1
                    /\ (~ \E w \in Workers : TakeAddr(w)) => SumFunction(Taken)' = SumFunction(Taken)
  <2> USE <1>TakenSum
  <2>1. DOMAIN Taken = Addrs /\ DOMAIN Taken' = Addrs
    BY DEF Taken
  <2>2. /\ SumFunction(Taken) = SumFunctionOnSet(Taken, Addrs)
        /\ SumFunction(Taken)' = SumFunctionOnSet(Taken', Addrs)
    BY <2>1, Zenon DEF SumFunction
  <2>3. IsFiniteSet(Addrs) /\ \A a \in Addrs : Taken[a] \in Int
    BY <1>TakenTypes
  <2>4. SumFunctionOnSet(Taken, Addrs) \in Int
    BY Zenon, <2>3, SumInt
  <2>5. ASSUME NEW w \in Workers, TakeAddr(w)
        PROVE  SumFunctionOnSet(Taken', Addrs) = SumFunctionOnSet(Taken, Addrs) + 1
    <3>1. PICK t \in Addrs : /\ Taken'[t] = Taken[t] + 1
                             /\ \A a \in Addrs \ {t} : Taken'[a] = Taken[a]
      BY Zenon, <2>5, <1>TakenGrows
    <3>2. Taken'[t] \in Int
      BY <2>3, <3>1
    <3>3. SumFunctionOnSet(Taken', Addrs) = SumFunctionOnSet(Taken, Addrs) - Taken[t] + Taken'[t]
      BY <2>3, <3>1, <3>2, SumUpdate
    <3> QED BY <2>3, <2>4, <3>1, <3>3
  <2>6. ASSUME ~ \E w \in Workers : TakeAddr(w)
        PROVE  SumFunctionOnSet(Taken', Addrs) = SumFunctionOnSet(Taken, Addrs)
    <3>1. \A a \in Addrs : Taken'[a] = Taken[a]
      BY <2>6, <1>TakenStays
    <3> QED BY Zenon, <2>3, <3>1, SumAgree
  <2> QED BY Zenon, <2>2, <2>4, <2>5, <2>6
<1>SpreadInit.
      Init => TypeOK /\ Spread(0)
  <2> SUFFICES ASSUME Init PROVE TypeOK /\ Spread(0)
    OBVIOUS
  <2>1. TypeOK
    BY Zenon, TypeInit
  <2>2. \A a \in Addrs : Underway(a) = {} /\ dials[a] = 0
    BY Zenon DEF Init, Underway
  <2>3. \A a \in Addrs : Taken[a] = 0
    BY <2>1, <2>2, <1>TakenTypes, FS_EmptySet
  <2>4. SumFunction(Taken) = 0
    BY Zenon, <2>1, <2>3, <1>TakenTypes, SumZero DEF SumFunction
  <2>5. serverIdx = 0 /\ Turn = 0
    BY <1>ZeroTurn DEF Init, Turn
  <2>6. (0 * IdxRange) + serverIdx = 0
    BY <2>5, Sizes
  <2>7. ASSUME NEW a \in Addrs, NEW b \in Addrs, a <= b
        PROVE  Ahead(a) - Ahead(b) = Lead(a, b, 0, Turn)
    <3>1. a \in Int /\ b \in Int /\ 0 <= a /\ Wrap \in Int
      BY <2>1, <1>TurnTypes, Sizes
    <3>2. PICK k \in Int : k = Wrap
      BY <3>1
    <3> QED BY <2>3, <2>5, <2>7, <3>1, <3>2 DEF Ahead, Lead, One
  <2> QED BY Zenon, <2>1, <2>4, <2>6, <2>7 DEF Spread
\* Taking an address goes on from one spread to the next.
<1>SpreadTake.
      ASSUME TypeOK, TypeOK', NEW q \in Nat, Spread(q), NEW w \in Workers, TakeAddr(w)
      PROVE  \E r \in Nat : Spread(r)'
  <2> USE <1>SpreadTake
  <2>1. PICK r \in Nat :
          \/ r = q /\ serverIdx' = serverIdx + 1 /\ Turn' = (IF Turn = NAddrs - 1 THEN 0 ELSE Turn + 1)
          \/ r = q + 1 /\ serverIdx = IdxRange - 1 /\ serverIdx' = 0 /\ Turn = Wrap /\ Turn' = 0
    <3>1. q + 1 \in Nat
      OBVIOUS
    <3> QED BY <3>1, <1>NextTurn, Zenon
  <2>2. PICK u \in Addrs : /\ u = Turn' /\ Taken'[u] = Taken[u] + 1
                           /\ \A a \in Addrs \ {u} : Taken'[a] = Taken[a]
    BY <1>TakenGrows
  <2>3. PICK n \in Int, m \in Int : n = serverIdx /\ m = serverIdx'
    BY <1>TurnTypes, Sizes DEF TypeOK
  <2>4. SumFunction(Taken)' = (r * IdxRange) + serverIdx'
    <3>1. SumFunction(Taken)' = SumFunction(Taken) + 1
      BY <1>TakenSum DEF Next
    <3>2. SumFunction(Taken)' = (q * IdxRange) + n + 1
      BY <2>3, <3>1 DEF Spread
    <3>3. (q * IdxRange) + n + 1 = (r * IdxRange) + m
      <4>1. \/ r = q /\ m = n + 1
            \/ r = q + 1 /\ n = IdxRange - 1 /\ m = 0
        BY <2>1, <2>3
      <4>2. IdxRange \in Int
        BY Sizes
      <4>3. (q + 1) * IdxRange = (q * IdxRange) + IdxRange
        BY <4>2
      <4>4. PICK p \in Int : p = q * IdxRange
        BY <4>2
      <4> QED BY <4>1, <4>2, <4>3, <4>4
    <3> QED BY Zenon, <2>3, <3>2, <3>3
  <2>5. ASSUME NEW a \in Addrs, NEW b \in Addrs, a <= b
        PROVE  (Ahead(a) - Ahead(b) = Lead(a, b, r, Turn))'
    <3>1. Turn \in Addrs
      BY Zenon, <1>TurnTypes
    <3>2. Lead(a, b, r, u) = Lead(a, b, q, Turn) + One(a = u) - One(b = u)
      BY SMTT(40), Z3T(40), <2>1, <2>2, <2>5, <3>1, <1>NextLead
    <3>3. Ahead(a) - Ahead(b) = Lead(a, b, q, Turn)
      BY Zenon, <2>5 DEF Spread
    <3>4. Taken[a] \in Int /\ Taken[b] \in Int
      BY SMTT(40), Z3T(40), <1>TakenTypes
    <3>5. Taken'[a] = Taken[a] + One(a = u) /\ Taken'[b] = Taken[b] + One(b = u)
      BY <2>2, <3>4 DEF One
    <3>6. Ahead(a)' = Taken'[a] + One(a = 0) /\ Ahead(b)' = Taken'[b] + One(b = 0)
      BY DEF Ahead, One
    <3>7. Lead(a, b, r, Turn)' = Lead(a, b, r, u)
      BY <2>2 DEF Lead, One, Wrap
    <3>8. /\ One(a = u) \in Int /\ One(b = u) \in Int /\ One(a = 0) \in Int /\ One(b = 0) \in Int
      BY DEF One
    <3>9. Ahead(a)' = Ahead(a) + One(a = u) /\ Ahead(b)' = Ahead(b) + One(b = u)
      BY SMTT(40), Z3T(40), <3>4, <3>5, <3>6, <3>8 DEF Ahead
    <3>10. Ahead(a) \in Int /\ Ahead(b) \in Int
      BY SMTT(40), Z3T(40), <3>4, <3>8 DEF Ahead
    <3>11. Ahead(a)' - Ahead(b)' = Lead(a, b, r, u)
      BY SMTT(40), Z3T(40), <3>2, <3>3, <3>8, <3>9, <3>10
    <3> QED BY <3>7, <3>11
  <2>6. Spread(r)'
    BY <2>4, <2>5 DEF Spread
  <2> QED BY <2>6
<1>InTurnStep.
      ASSUME TypeOK, TypeOK', InTurn, [Next]_vars
      PROVE  InTurn'
  <2> USE <1>InTurnStep
  <2>1. PICK q \in Nat : Spread(q)
    BY DEF InTurn
  <2>2. CASE \E w \in Workers : TakeAddr(w)
    BY <2>1, <2>2, <1>SpreadTake DEF InTurn
  <2>3. CASE ~ \E w \in Workers : TakeAddr(w)
    <3>1. serverIdx' = serverIdx /\ \A a \in Addrs : Taken'[a] = Taken[a]
      BY <2>3, <1>TakenStays
    <3>2. SumFunction(Taken)' = SumFunction(Taken)
      BY <2>3, <1>TakenSum
    <3>3. Turn' = Turn
      BY <3>1 DEF Turn
    <3>4. \A a \in Addrs : Ahead(a)' = Ahead(a)
      BY <3>1 DEF Ahead, One
    <3>5. \A a, b \in Addrs : Lead(a, b, q, Turn)' = Lead(a, b, q, Turn)
      BY <3>3 DEF Lead, One, Wrap
    <3>6. Spread(q)'
      BY Zenon, <2>1, <3>1, <3>2, <3>4, <3>5 DEF Spread
    <3> QED BY Zenon, <3>6 DEF InTurn
  <2> QED BY <2>2, <2>3
<1>SpreadHolds.
      TypeOK /\ InTurn => EvenlySpread
  <2> SUFFICES ASSUME TypeOK, InTurn, NEW a \in Addrs, NEW b \in Addrs
               PROVE  Taken[a] <= Taken[b] + 1 + (SumFunction(Taken) \div IdxRange)
    BY DEF EvenlySpread
  <2>1. PICK q \in Nat : Spread(q)
    BY DEF InTurn
  <2>2. SumFunction(Taken) \div IdxRange = q
    <3>1. serverIdx \in 0 .. IdxRange - 1 /\ q \in Int /\ IdxRange \in Nat \ {0}
      BY Sizes DEF TypeOK
    <3> QED BY <2>1, <3>1, Remainder DEF Spread
  <2>3. /\ Taken[a] \in Int /\ Taken[b] \in Int /\ a \in Int /\ b \in Int
        /\ 0 <= a /\ 0 <= b
    BY <1>TakenTypes, <1>TurnTypes
  <2>4. Taken[a] <= Taken[b] + 1 + q
    <3>1. PICK k \in Int, t \in Int : k = Wrap /\ t = Turn
      BY <1>TurnTypes
    <3>2. a <= b => Ahead(a) - Ahead(b) = Lead(a, b, q, t)
      BY <2>1, <3>1 DEF Spread
    <3>3. b <= a => Ahead(b) - Ahead(a) = Lead(b, a, q, t)
      BY <2>1, <3>1 DEF Spread
    <3>4. CASE a <= b
      BY <2>3, <3>1, <3>2, <3>4 DEF Ahead, Lead, One
    <3>5. CASE b <= a
      BY <2>3, <3>1, <3>3, <3>5 DEF Ahead, Lead, One
    <3> QED BY <2>3, <3>4, <3>5
  <2> QED BY <2>2, <2>4
<1>1. Init => TypeOK /\ InTurn
  <2>1. 0 \in Nat
    OBVIOUS
  <2> QED BY <2>1, <1>SpreadInit DEF InTurn
<1>2. TypeOK /\ InTurn /\ [Next]_vars => (TypeOK /\ InTurn)'
  BY TypeStep, <1>InTurnStep
<1> QED BY <1>1, <1>2, <1>SpreadHolds, PTL DEF Spec
=============================================================================
