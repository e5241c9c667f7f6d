------------------------------ MODULE Ranking ------------------------------
(***************************************************************************)
(* The time bonus of CRunningSessionState::update(): one pass over the     *)
(* list of entities picks the three best arrival times, and the number of  *)
(* entities says what they are worth.                                      *)
(***************************************************************************)
EXTENDS Integers, Sequences, SequencesExt, FiniteSets, FiniteSetsExt

CONSTANTS
    NoOne,         \* entities().end()
    MinTimeNeeded  \* 11 seconds: who arrives sooner has not flown

VARIABLES
    list,    \* the entities of CEntityManager
    score,   \* CEntity::CurrentScore
    arrival  \* CEntity::ArrivalTime

-----------------------------------------------------------------------------
(* Only an entity with points and an arrival time late enough counts.      *)
Counts(e, points, time) == points[e] > 0 /\ time[e] > MinTimeNeeded

Slower(podium, e, time) ==  \* a mutant
    {i \in 1 .. 3 : podium[i] = NoOne \/ time[podium[i]] < time[e]}

(* The places an entity takes from who holds them, or finds empty.         *)
Beaten(podium, e, time) ==
    {i \in 1 .. 3 : podium[i] = NoOne \/ time[podium[i]] > time[e]}

KeepPlace(podium, e, time) ==  \* a mutant
    LET free == {i \in 1 .. 3 : podium[i] = NoOne}
    IN  IF free = {} THEN podium ELSE [podium EXCEPT ![Min(free)] = e]

(* The entity takes the first of these places; who held it is dropped,     *)
(* and not moved down.                                                     *)
Place(podium, e, time) ==
    LET beaten == Beaten(podium, e, time)
    IN  IF beaten = {} THEN podium ELSE [podium EXCEPT ![Min(beaten)] = e]

(* bestit1, bestit2 and bestit3 after one turn of the pass, and after the  *)
(* pass over the entities order.                                           *)
Turn(podium, e, points, time) ==
    IF Counts(e, points, time) THEN Place(podium, e, time) ELSE podium

Podium(order, points, time) ==
    FoldLeft(LAMBDA podium, e : Turn(podium, e, points, time),
             <<NoOne, NoOne, NoOne>>, order)

(* The bonuses of the three places among n entities.                       *)
Prizes(n) ==
    CASE n < 2 -> <<0, 0, 0>>
      [] n = 2 -> <<50, 0, 0>>
      [] n = 3 -> <<100, 50, 0>>
      [] OTHER -> <<150, 100, 50>>

TimeBonus(e, order, points, time) ==
    LET podium == Podium(order, points, time)
        places == {i \in 1 .. 3 : podium[i] = e}
    IN  IF places = {} THEN 0 ELSE Prizes(Len(order))[Min(places)]

-----------------------------------------------------------------------------
(* What each would have if the game ended now.                             *)
Bonus(e) == TimeBonus(e, list, score, arrival)
Counted == {e \in ToSet(list) : Counts(e, score, arrival)}

(* Those that count and arrived before e.                                  *)
Faster(e) == {f \in Counted : arrival[f] < arrival[e]}

(* The largest bonus goes to the fastest, whatever the list's order, and   *)
(* only who has points and flew long enough has a bonus.                   *)
FastestIsFirst ==
    /\ \A e \in ToSet(list) \ Counted : Bonus(e) = 0
    /\ Counted # {} =>
         \E e \in Counted :
            /\ Faster(e) = {}
            /\ Bonus(e) = Prizes(Len(list))[1]
            /\ \A f \in Counted \ {e} : Bonus(f) <= Prizes(Len(list))[2]

(* In a list that happens to be sorted by arrival, the three best have the *)
(* bonuses of their places, and nobody else has one.                       *)
SortedIsFair ==
    (\A i, j \in DOMAIN list : i < j => arrival[list[i]] < arrival[list[j]])
       => \A e \in Counted :
            LET rank == Cardinality(Faster(e)) + 1
            IN  Bonus(e) = IF rank <= 3 THEN Prizes(Len(list))[rank] ELSE 0
=============================================================================
