----------------------------- MODULE MCRealtime -----------------------------
(* Instances of Realtime for TLC.                                          *)
EXTENDS Realtime, TLC

CONSTANTS a1, a2

(* The home page, on which another auction was listed, then the page.      *)
MCVisited == <<Feed, a2, a1>>

(* top is looked at only to set spoiled: once that is set, states that     *)
(* differ in nothing else have the same futures.                           *)
View == <<vars, open, shown, from, fetching, joined, wire, spoiled, IF spoiled THEN New ELSE top>>

(* Goroutines are interchangeable.                                         *)
Symmetry == Permutations(Requests)
=============================================================================
