------------------------------ MODULE MCWallet ------------------------------
(* Instances of Wallet for TLC.                                            *)
EXTENDS Wallet

CONSTANTS Cents  \* the balance every user starts with

MCStartBalance == [u \in Users |-> Cents]
=============================================================================
