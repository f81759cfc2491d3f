----------------------------- MODULE MCCartPage -----------------------------
(* Values for the constants of CartPage.                                   *)
EXTENDS CartPage, TLC

CONSTANTS s1, s2, u1, p1, p2, game

(* One customer in every browser.                                          *)
SameUser == [s \in Sessions |-> u1]

Stock1 == [p \in Products |-> 1]

(* p1 and p2 are two platforms of one game.                                *)
SameName == [p \in Products |-> game]
SamePrice == [p \in Products |-> 10]
TwoPrices == [p \in Products |-> IF p = p1 THEN 10 ELSE 15]

UpTo3 == 0 .. 3

TabSymmetry == Permutations(Tabs) \cup Permutations(Sessions)
Symmetry == TabSymmetry \cup Permutations(Products)
=============================================================================
