---------------------------- MODULE MCRateLimit ----------------------------
(* Instances of RateLimit for TLC.                                         *)
EXTENDS RateLimit

(* Numbers below, at and above the limits, and one whose offset wraps.     *)
MCNumbers == {-1, 0, 1, 2, 4, 5, 9}
=============================================================================
