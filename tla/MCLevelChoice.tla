--------------------------- MODULE MCLevelChoice ---------------------------
(* Instances of LevelChoice for TLC.                                       *)
EXTENDS LevelChoice, TLC

CONSTANTS p1, p2, p3, l1, l2, l3, l4, m1, m2, m3

(* A playlist of four in another order than that of the files, one of      *)
(* which does not load, and one played twice.  One entry matches two files *)
(* and one none.                                                           *)
FourFiles    == <<l1, l2, l3, l4>>
FourPlaylist == <<{l3}, {l1, l4}, {}, {l4}, {l2}>>
NoPlaylist   == <<>>
OnceEach     == [l \in {l1, l2, l3, l4} |-> 0]
TwiceL1      == [l \in {l1, l2, l3, l4} |-> IF l = l1 THEN 2 ELSE 0]

(* Names that match one file each, and one that matches none.              *)
Unique == [m \in {m1, m2, m3} |->
             CASE m = m1 -> {l1} [] m = m2 -> {l2} [] m = m3 -> {}]

Unique1 == [m \in {m1} |-> {l1}]

(* No definition tells one player from another.                            *)
Symmetry == Permutations(Player)

(* An entry that matches two files, of which the first is taken.           *)
WidePlaylist == <<{l3}, {l1, l2}>>
Second == [m \in {m2} |-> {l2}]

(* A name that matches two files.                                          *)
Ambiguous == [m \in {m1} |-> {l1, l3}]

ThreeFiles == <<l1, l2, l3>>
ThreePlaylist == <<{l1}, {l2}, {l3}>>
OnceOfThree == [l \in {l1, l2, l3} |-> 0]
NoName == [m \in {} |-> {}]
=============================================================================
