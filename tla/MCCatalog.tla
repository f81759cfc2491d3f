------------------------------ MODULE MCCatalog ------------------------------
(* Values for the constants of Catalog: one user in two browsers.           *)
EXTENDS Catalog, TLC

CONSTANT u1

OneUser == [s \in Sessions |-> u1]

(* Bound: two browsers at once are used for product pages only.  The other  *)
(* pages write nothing, and one browser makes all the visits they look at.  *)
TogetherOnProducts ==
  \/ \A s \in Sessions : pagina[s] = NoPage \/ pagina[s].kind \in {"opened", "product"}
  \/ Cardinality({s \in Sessions : pagina[s] # NoPage}) = 1

Symmetry ==
  Permutations(Names) \cup Permutations(Categories)
    \cup Permutations(Sessions) \cup Permutations(Admins)
=============================================================================
