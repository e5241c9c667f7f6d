------------------------------ MODULE MCScores ------------------------------
(* Instances of Scores for TLC.                                            *)
EXTENDS Scores

CONSTANTS c1, c2, b1

(* Bound: at most two entities at once.                                    *)
TwoAtOnce == Len(list) <= 2
=============================================================================
