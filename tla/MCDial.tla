------------------------------- MODULE MCDial -------------------------------
(* The instance of Dial for TLC. *)
EXTENDS Dial
=============================================================================
