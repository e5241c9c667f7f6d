------------------------------- MODULE Round -------------------------------
(***************************************************************************)
(* What the session promises its players, without saying how: the rounds   *)
(* follow one another through five stages, the players of a game are those *)
(* who were there when it started less those who are out, and the commands *)
(* of the players are accepted during one stretch of time in each round,   *)
(* which opens after the levels are loaded and closes for good when the    *)
(* game ends.  Readiness, timers, bots, administrators, the away-from-     *)
(* keyboard count and the replays are not seen here.                       *)
(***************************************************************************)
CONSTANT Entity

VARIABLES
    stage,    \* where the round is
    here,     \* who is connected
    playing,  \* who is in the game
    open      \* whether the commands of the players are accepted

roundVars == <<stage, here, playing, open>>

Stage == {"WaitingClients", "WaitingReady", "WaitingStart", "Running", "Ending"}

RoundTypeOK ==
    /\ stage \in Stage
    /\ here \subseteq Entity
    /\ playing \subseteq here
    /\ open \in BOOLEAN

RoundInit ==
    /\ stage = "WaitingClients"
    /\ here = {}
    /\ playing = {}
    /\ open = FALSE

(* Entities come; none of them is in the game already. *)
Arrive(S) ==
    /\ here' = here \cup S
    /\ UNCHANGED <<stage, playing, open>>

(* Entities go, in a step of their own or while the stage changes. *)
Go(S) ==
    /\ here' = here \ S
    /\ playing' = playing \ S

Depart(S) ==
    /\ Go(S)
    /\ UNCHANGED <<stage, open>>

(* A player is out of the game. *)
Out(S) ==
    /\ playing' = playing \ S
    /\ UNCHANGED <<stage, here, open>>

(* The level is chosen and loaded: the game is empty. *)
Begin ==
    /\ stage = "WaitingClients"
    /\ stage' = "WaitingReady"
    /\ playing' = {}
    /\ UNCHANGED <<here, open>>

(* The countdown starts; some may have been sent away. *)
CountDown(S) ==
    /\ stage = "WaitingReady"
    /\ stage' = "WaitingStart"
    /\ Go(S)
    /\ open' \in BOOLEAN

(* The countdown is over: commands are accepted from now on. *)
Open ==
    /\ stage \in {"WaitingStart", "Running"}
    /\ open' = TRUE
    /\ UNCHANGED <<stage, here, playing>>

(* Whoever is here plays. *)
Play ==
    /\ stage = "WaitingStart"
    /\ stage' = "Running"
    /\ playing' = here
    /\ UNCHANGED <<here, open>>

(* The game ends, and with it the time for commands. *)
End(S) ==
    /\ stage = "Running"
    /\ stage' = "Ending"
    /\ Go(S)
    /\ open' = FALSE

(* The results have been shown, or the round is abandoned. *)
Abandon ==
    /\ stage' = "WaitingClients"
    /\ open' = FALSE
    /\ UNCHANGED <<here, playing>>

RoundNext ==
    \/ \E S \in SUBSET Entity :
         Arrive(S) \/ Depart(S) \/ Out(S) \/ CountDown(S) \/ End(S)
    \/ Begin \/ Open \/ Play \/ Abandon

RoundSpec == RoundInit /\ [][RoundNext]_roundVars
=============================================================================
