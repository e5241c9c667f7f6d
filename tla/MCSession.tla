----------------------------- MODULE MCSession -----------------------------
(* Instances of Session, and of the round it implements, for TLC.          *)
EXTENDS SessionRound

CONSTANTS c1, c2, b1, b2, b3
=============================================================================
