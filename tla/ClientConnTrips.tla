-------------------------- MODULE ClientConnTrips --------------------------
(* ClientConn as an implementation of RoundTrip.                            *)
EXTENDS ClientConn

\* What a caller of Do sees of it: a stream is its own from the moment it is
\* entered in the map, a result is there once its token is in s.done.
Asked(c) ==
  IF pc[c] = "idle" THEN "out"
  ELSE IF done[c] > 0 THEN "told"
  ELSE IF pc[c] \in Opened THEN "asked"
  ELSE "in"

Trip == INSTANCE RoundTrip WITH
  ask <- [c \in Callers |-> Asked(c)],
  open <- streams \cup ending,
  whose <- owner,
  next <- nextID,
  failed <- err # "nil",
  closed <- closing = "returned"

\* clientconn.go keeps RoundTrip's promise: through locks, windows, limits, GOAWAY
\* and failure, each step is one of its steps or is not seen by those who use the
\* connection.  No stream is opened once err is set, a result goes to the Do that
\* waits for it and to no other, and Close returns with nothing unanswered.
KeepsPromise == Trip!Promise
===========================================================================
