------------------------------ MODULE MCAccount ------------------------------
(* Values for the constants of Account.                                    *)
EXTENDS Account, TLC

Symmetry == Permutations(Sessions) \cup Permutations(Names)
=============================================================================
