----------------------------- MODULE MCBidding -----------------------------
(* Small instances of Bidding for TLC.                                     *)
EXTENDS Bidding, TLC

CONSTANTS Cents  \* balance every user starts with

MCStartBalance == [u \in Users |-> Cents]

(* Users and bids are interchangeable.                                     *)
Symmetry == Permutations(Users) \cup Permutations(BidReqs)
=============================================================================
