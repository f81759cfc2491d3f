------------------------------- MODULE MCCart -------------------------------
(* Values for the constants of Cart.                                       *)
EXTENDS CartRefinesShop, TLC

CONSTANTS s1, s2, u1, p1, p2

(* One browser per user: each session is its own user.                     *)
OwnUser == [s \in Sessions |-> s]

(* Every session belongs to the same user.                                 *)
SameUser == [s \in Sessions |-> u1]

Stock1 == [p \in Products |-> 1]
Stock2 == [p \in Products |-> 2]

One == {1}
ZeroTwo == {0, 2}

SessionSymmetry == Permutations(Sessions)
Symmetry == SessionSymmetry \cup Permutations(Products)
=============================================================================
