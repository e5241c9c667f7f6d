----------------------------- MODULE MCMirror ------------------------------
(* Instances of Mirror for TLC. *)
EXTENDS Mirror, TLC

CONSTANTS c1, c2, b1, nobody

(* The clients differ in nothing. *)
Clients == Permutations({c1, c2})
=============================================================================
