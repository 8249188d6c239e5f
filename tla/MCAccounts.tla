----------------------------- MODULE MCAccounts -----------------------------
(* Instances of Accounts for TLC.                                          *)
EXTENDS Accounts, TLC

(* Goroutines and the backup codes of a set are interchangeable.           *)
Symmetry == Permutations(Requests) \cup Permutations(Slots)
=============================================================================
