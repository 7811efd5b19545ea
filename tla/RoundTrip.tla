----------------------------- MODULE RoundTrip -----------------------------
(***************************************************************************)
(* What a connection promises to those who use it, with nothing of how: no *)
(* locks, no windows, no limits, no frames.  A Do opens one stream or none *)
(* and comes back with one result; a batch opens streams whose results are *)
(* given out one by one; a connection that has failed opens nothing more;  *)
(* and Close comes back when every stream has its result.                  *)
(***************************************************************************)
EXTENDS Integers

CONSTANTS Callers, Batchers, Ids, BatchSize

VARIABLES
  ask,      \* by caller: out, in (a Do without a stream), asked, told (its result is there)
  open,     \* the streams without a result
  whose,    \* by stream, who opened it
  next,     \* the first identifier that is not used
  failed,   \* no stream is opened any more
  closed    \* Close has returned

tripVars == <<ask, open, whose, next, failed, closed>>

Start ==
  /\ ask = [c \in Callers |-> "out"]
  /\ open = {} /\ next = 1
  /\ failed = FALSE /\ closed = FALSE

Moves(c, from, to) == ask[c] = from /\ ask' = [ask EXCEPT ![c] = to]

Enter(c) ==
  /\ Moves(c, "out", "in")
  /\ UNCHANGED <<open, whose, next, failed, closed>>

\* A Do that finds the connection failed is back without a stream.
TurnAway(c) ==
  /\ failed /\ Moves(c, "in", "out")
  /\ UNCHANGED <<open, whose, next, failed, closed>>

\* The same, with an error in the stream it would have opened.
Refuse(c) ==
  /\ Moves(c, "in", "told")
  /\ failed' = TRUE
  /\ UNCHANGED <<open, whose, next, closed>>

Ask(c) ==
  /\ ~failed /\ Moves(c, "in", "asked")
  /\ next \in Ids
  /\ open' = open \cup {next}
  /\ whose' = [whose EXCEPT ![next] = c]
  /\ next' = next + 2
  /\ UNCHANGED <<failed, closed>>

AskMany(b) ==
  /\ ~failed
  /\ LET new == {i \in Ids : next <= i /\ i < next + 2 * BatchSize}
     IN  /\ open' = open \cup new
         /\ whose' = [i \in Ids |-> IF i \in new THEN b ELSE whose[i]]
  /\ next' = next + 2 * BatchSize
  /\ UNCHANGED <<ask, failed, closed>>

\* A result, to the one who asked and still waits for it.
Answer(i) ==
  /\ i \in open
  /\ open' = open \ {i}
  /\ \/ \E c \in Callers : whose[i] = c /\ Moves(c, "asked", "told")
     \/ whose[i] \notin Callers /\ UNCHANGED ask
  /\ UNCHANGED <<whose, next, failed, closed>>

Leave(c) ==
  /\ Moves(c, "told", "out")
  /\ UNCHANGED <<open, whose, next, failed, closed>>

Fail ==
  /\ failed' = TRUE
  /\ UNCHANGED <<ask, open, whose, next, closed>>

Close ==
  /\ failed /\ open = {}
  /\ closed' = TRUE
  /\ UNCHANGED <<ask, open, whose, next, failed>>

Step ==
  \/ \E c \in Callers : Enter(c) \/ TurnAway(c) \/ Refuse(c) \/ Ask(c) \/ Leave(c)
  \/ \E b \in Batchers : AskMany(b)
  \/ \E i \in open : Answer(i)
  \/ Fail \/ Close

Promise == Start /\ [][Step]_tripVars
=============================================================================
