----------------------------- MODULE MCArrivals -----------------------------
(* Instances of Arrivals for TLC.                                          *)
EXTENDS Arrivals, TLC

CONSTANTS e1, e2, e3, e4

(* No definition tells one entity from another.                            *)
Symmetry == Permutations(Entity)
=============================================================================
