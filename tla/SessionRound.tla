---------------------------- MODULE SessionRound ----------------------------
(***************************************************************************)
(* The session implements the round: the refinement mapping reads the      *)
(* stage, the entities and the players off the server and takes the        *)
(* commands for accepted when cbOpenClose and setForce act on them.        *)
(***************************************************************************)
EXTENDS Session

R == INSTANCE Round WITH
       stage   <- state,
       here    <- entities,
       playing <- inGame,
       open    <- AcceptsInput

(* Every behaviour of the session is a behaviour of the round: in          *)
(* particular a round that has been closed to commands stays closed until  *)
(* the next one, whatever resets, forced ends and departures come between. *)
ImplementsRound == R!RoundSpec
=============================================================================
