------------------------------ MODULE Arrivals ------------------------------
(***************************************************************************)
(* Every list of entities that may be there at the end of a game, with     *)
(* every order and every combination of arrival times, to compare the      *)
(* bonuses of Ranking with those of a sorted list.                         *)
(***************************************************************************)
EXTENDS Ranking

CONSTANTS
    Entity,     \* the players and bots
    ArrivalTime \* the times at which they may arrive; 0 is "never"

ASSUME ArrivalsAssumption ==
    /\ NoOne \notin Entity
    /\ MinTimeNeeded \in Nat
    /\ ArrivalTime \subseteq Nat
    /\ 0 \in ArrivalTime

vars == <<list, arrival, score>>

Init ==
    /\ list = <<>>
    /\ arrival = [e \in Entity |-> 0]
    /\ score = [e \in Entity |-> 0]

(* One more entity, which arrived at time t, and is on a target or not at  *)
(* the end (it may have slid off since).                                   *)
Enter(e) ==
    /\ e \notin ToSet(list)
    /\ list' = Append(list, e)
    /\ \E t \in ArrivalTime : arrival' = [arrival EXCEPT ![e] = t]
    /\ \E points \in {0, 1} : score' = [score EXCEPT ![e] = points]

Next == \E e \in Entity : Enter(e)

Spec == Init /\ [][Next]_vars

-----------------------------------------------------------------------------
(* Claimed by docs/SCORING_INVESTIGATION.md, "Additional bonus for         *)
(* placement (1st/2nd/3rd)": who arrives second of those that count has    *)
(* the second bonus.  The pass over the list drops a former best.          *)
SecondIsSecond ==
    \A e, f \in Counted :
       (arrival[f] < arrival[e] /\ Faster(e) = {f}
          /\ \A g \in Counted \ {e} : arrival[g] # arrival[e])
       => Bonus(e) = Prizes(Len(list))[2]
=============================================================================
