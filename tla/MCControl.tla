----------------------------- MODULE MCControl -----------------------------
(* Instances of Control for TLC. *)
EXTENDS Control, TLC

CONSTANTS c1, c2, b1

(* The clients differ in nothing. *)
Clients == Permutations({c1, c2})

(* Bound: at most two entities at once, two clients or a client and a bot. *)
TwoAtOnce == \A x, y, z \in entities : x = y \/ y = z \/ x = z
=============================================================================
