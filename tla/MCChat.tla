------------------------------- MODULE MCChat -------------------------------
(* Instances of Chat for TLC. *)
EXTENDS Chat, TLC

CONSTANTS o1, o2, o3, Ann, Bob

Alike == Permutations(Object)

(* Bounds: what happens after a step the code does not put right is not    *)
(* followed.  Nobody is named Bob: it is the second name of an empty       *)
(* channel, or a channel that is used, by one who is registered and one    *)
(* who is not and with no signal.  There are no more than two objects      *)
(* while Bob is used, nor when the server has moved.                       *)
Two     == \E o \in Object : where[o] = "none"
Plain   == \A x \in DOMAIN rooms : rooms[x].flags = {}
BobUsed == \E o \in Object : Bob \in {invite[o], channel[o]}

Bounds ==
    /\ ~astray
    /\ \A o \in Object : id[o] # Bob
    /\ Bob \in DOMAIN rooms => Two /\ (Plain \/ DOMAIN rooms = {Hall, Bob})
    /\ BobUsed => Two /\ Plain /\ ~leaving /\ Cardinality(registered) = 1
    /\ moved => Two /\ ~BobUsed

Within == Bounds'
=============================================================================
