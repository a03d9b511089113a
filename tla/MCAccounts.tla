------------------------------ MODULE MCAccounts ------------------------------
(* An instance of Accounts for TLC.                                        *)
EXTENDS Accounts, TLC

Symmetry == Permutations(Sessions) \cup Permutations(Passwords)
===============================================================================
