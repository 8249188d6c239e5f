-------------------------- MODULE MCAuctionSystem --------------------------
(* Instances of AuctionSystem for TLC.                                     *)
EXTENDS AuctionSystem, TLC

CONSTANTS Cents  \* the balance every user starts with

MCStartBalance == [u \in Users |-> Cents]

(* Goroutines are interchangeable.                                         *)
Symmetry == Permutations(BidReqs) \cup Permutations(Withdrawers) \cup Permutations(Hooks)
=============================================================================
