---------------------------- MODULE MCDeltaCode ----------------------------
(* An instance of DeltaCode for TLC: every difference of up to three       *)
(* units of length in steps of 1/32 of a unit of the code, and those that  *)
(* are too small to be sent, one by one.                                   *)
EXTENDS DeltaCode

Differences == {128 * k : k \in -1920 .. 1920} \cup -600 .. 600
=============================================================================
