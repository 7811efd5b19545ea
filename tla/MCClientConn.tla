--------------------------- MODULE MCClientConn ---------------------------
(* Instances of ClientConn for TLC.                                         *)
EXTENDS ClientConnTrips, TLC

CONSTANTS c1, c2, b1

OneCaller == {c1}
TwoCallers == {c1, c2}
OneBatcher == {b1}
NoBatcher == {}
CallerSymmetry == Permutations(TwoCallers)
===========================================================================
