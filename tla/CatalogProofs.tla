---------------------------- MODULE CatalogProofs ----------------------------
(***************************************************************************)
(* Proofs about Catalog for any number of names, platforms, visitors and   *)
(* submissions.                                                            *)
(***************************************************************************)
EXTENDS Catalog, TLAPS, FiniteSetTheorems, SequenceTheorems, WellFoundedInduction

ProductRows == [nome : Names, piattaforma : Platforms]

(* The requests that have still to insert a row for a platform of a game,  *)
(* and those that have done so.                                            *)
Asking(g) == {r \in admin : g \in Checked(r.nome, r.left)}
Serving(g) == {r \in admin : g \in Checked(r.nome, r.spuntate \ r.left)}

Shapes ==
  /\ prodotti \in Seq(ProductRows)
  /\ admin \subseteq Requests /\ IsFiniteSet(admin)
  /\ \A r, q \in admin : r.by = q.by => r = q
  /\ \A r \in admin : r.left \subseteq r.spuntate
  /\ submitted \in [Games -> Nat]
  /\ completed \in [Games -> Nat]

(* SubmissionsAccounted, with the requests that run taken into account.    *)
Accounts ==
  \A g \in Games :
    /\ completed[g] + Cardinality(Serving(g)) <= Cardinality(RowsOf(g))
    /\ Cardinality(RowsOf(g)) + Cardinality(Asking(g)) <= submitted[g]

-----------------------------------------------------------------------------
(* There are finitely many rows of a game.                                 *)
LEMMA RowsFinite ==
  ASSUME Shapes, NEW g
  PROVE  IsFiniteSet(RowsOf(g)) /\ Cardinality(RowsOf(g)) \in Nat
  <1>1. Len(prodotti) \in Nat /\ DOMAIN prodotti = 1 .. Len(prodotti)
    BY DEF Shapes
  <1>2. IsFiniteSet(1 .. Len(prodotti))
    BY <1>1, FS_Interval
  <1>3. RowsOf(g) \subseteq 1 .. Len(prodotti)
    BY <1>1 DEF RowsOf, Ids
  <1>4. IsFiniteSet(RowsOf(g))
    BY <1>2, <1>3, FS_Subset
  <1> QED
    BY <1>4, FS_CardinalityType

(* An INSERT adds one row to its own game and none to another.             *)
LEMMA RowsAppend ==
  ASSUME Shapes, NEW e \in ProductRows, prodotti' = Append(prodotti, e), NEW g
  PROVE  Cardinality(RowsOf(g)') =
           Cardinality(RowsOf(g)) +
           (IF <<e.nome, e.piattaforma>> = g THEN 1 ELSE 0)
  <1> DEFINE n == Len(prodotti) + 1
  <1>1. /\ Len(prodotti) \in Nat /\ DOMAIN prodotti = 1 .. Len(prodotti)
        /\ DOMAIN prodotti' = 1 .. n
        /\ prodotti'[n] = e
        /\ \A i \in 1 .. Len(prodotti) : prodotti'[i] = prodotti[i]
    BY AppendProperties DEF Shapes
  <1>2. n \notin RowsOf(g)
    BY <1>1 DEF RowsOf, Ids
  <1>3. CASE <<e.nome, e.piattaforma>> = g
    <2>1. RowsOf(g)' = RowsOf(g) \cup {n}
      BY <1>1, <1>3 DEF RowsOf, Ids
    <2> QED
      BY <1>2, <1>3, <2>1, RowsFinite, FS_AddElement
  <1>4. CASE <<e.nome, e.piattaforma>> # g
    <2>1. RowsOf(g)' = RowsOf(g)
      BY <1>1, <1>4 DEF RowsOf, Ids
    <2> QED
      BY <1>4, <2>1, RowsFinite
  <1> QED
    BY <1>3, <1>4

(* One element of a finite set is replaced by another, left out or added.  *)
LEMMA CountSwap ==
  ASSUME NEW S, IsFiniteSet(S), NEW T, NEW r, NEW q, T \ {q} = S \ {r}
  PROVE  /\ Cardinality(S) \in Nat /\ Cardinality(T) \in Nat
         /\ Cardinality(T) + (IF r \in S THEN 1 ELSE 0)
              = Cardinality(S) + (IF q \in T THEN 1 ELSE 0)
  <1>0. PICK D : D = S \ {r}
    OBVIOUS
  <1>1. IsFiniteSet(D) /\ Cardinality(D) \in Nat
    BY <1>0, FS_RemoveElement, FS_CardinalityType
  <1>2. /\ Cardinality(S) \in Nat
        /\ Cardinality(S) = Cardinality(D) + (IF r \in S THEN 1 ELSE 0)
    <2>1. CASE r \in S
      <3>1. S = D \cup {r} /\ r \notin D
        BY <1>0, <2>1
      <3>2. Cardinality(D \cup {r}) = Cardinality(D) + 1
        BY <1>1, <3>1, FS_AddElement
      <3> QED
        BY <1>1, <2>1, <3>1, <3>2
    <2>2. CASE r \notin S
      <3>1. D = S
        BY <1>0, <2>2
      <3> QED
        BY <1>1, <2>2, <3>1
    <2> QED
      BY <2>1, <2>2
  <1>3. /\ Cardinality(T) \in Nat
        /\ Cardinality(T) = Cardinality(D) + (IF q \in T THEN 1 ELSE 0)
    <2>1. CASE q \in T
      <3>1. T = D \cup {q} /\ q \notin D
        BY <1>0, <2>1
      <3>2. Cardinality(D \cup {q}) = Cardinality(D) + 1
        BY <1>1, <3>1, FS_AddElement
      <3> QED
        BY <1>1, <2>1, <3>1, <3>2
    <2>2. CASE q \notin T
      <3>1. T = D
        BY <1>0, <2>2
      <3> QED
        BY <1>1, <2>2, <3>1
    <2> QED
      BY <2>1, <2>2
  <1> QED
    BY <1>1, <1>2, <1>3

(* The requests for a game are finitely many.                              *)
LEMMA RequestsFinite ==
  ASSUME Shapes, NEW g
  PROVE  /\ IsFiniteSet(Asking(g)) /\ Cardinality(Asking(g)) \in Nat
         /\ IsFiniteSet(Serving(g)) /\ Cardinality(Serving(g)) \in Nat
  <1>1. Asking(g) \subseteq admin /\ Serving(g) \subseteq admin
    BY DEF Asking, Serving
  <1> QED
    BY <1>1, FS_Subset, FS_CardinalityType DEF Shapes

(* An empty table has no rows.                                             *)
LEMMA InitAccounts == Init => Shapes /\ Accounts
  <1> SUFFICES ASSUME Init PROVE Shapes /\ Accounts
    OBVIOUS
  <1>1. Shapes
    BY FS_EmptySet DEF Init, Shapes
  <1>2. ASSUME NEW g \in Games
        PROVE  /\ completed[g] = 0 /\ submitted[g] = 0
               /\ Serving(g) = {} /\ Asking(g) = {}
               /\ RowsOf(g) = {}
    BY DEF Init, Serving, Asking, RowsOf, Ids
  <1>3. Cardinality({}) = 0
    BY FS_EmptySet
  <1>4. Accounts
    <2> SUFFICES ASSUME NEW g \in Games
                 PROVE  /\ completed[g] + Cardinality(Serving(g)) <= Cardinality(RowsOf(g))
                        /\ Cardinality(RowsOf(g)) + Cardinality(Asking(g)) <= submitted[g]
      BY DEF Accounts
    <2>1. /\ completed[g] = 0 /\ submitted[g] = 0
          /\ Serving(g) = {} /\ Asking(g) = {} /\ RowsOf(g) = {}
      BY <1>2
    <2> QED
      BY <1>3, <2>1
  <1> QED
    BY <1>1, <1>4

(* A form is accepted: its games become pending.                           *)
LEMMA SubmitStep ==
  ASSUME Shapes, Accounts, NEW a \in Admins, NEW n \in Names,
         NEW boxes \in SUBSET Platforms, Submit(a, n, boxes)
  PROVE  Shapes' /\ Accounts'
  <1>1. PICK r : r = [by |-> a, nome |-> n, spuntate |-> boxes, left |-> boxes]
    OBVIOUS
  <1>2. /\ r.by = a /\ r.nome = n /\ r.spuntate = boxes /\ r.left = boxes
        /\ r \in Requests
    BY <1>1 DEF Requests
  <1>3. /\ \A q \in admin : q.by # a
        /\ admin' = admin \cup {r} /\ UNCHANGED <<prodotti, completed>>
        /\ submitted' = [g \in Games |->
             submitted[g] + IF g \in Checked(n, boxes) THEN 1 ELSE 0]
    BY <1>1 DEF Submit, tables
  <1>4. r \notin admin
    BY <1>2, <1>3
  <1>5. Shapes'
    <2>1. IsFiniteSet(admin')
      BY <1>3, FS_AddElement DEF Shapes
    <2>2. submitted' \in [Games -> Nat]
      BY <1>3 DEF Shapes
    <2> QED
      BY <1>2, <1>3, <2>1, <2>2 DEF Shapes
  <1>6. ASSUME NEW g \in Games
        PROVE  /\ completed'[g] + Cardinality(Serving(g)') <= Cardinality(RowsOf(g)')
               /\ Cardinality(RowsOf(g)') + Cardinality(Asking(g)') <= submitted'[g]
    <2>1. RowsOf(g)' = RowsOf(g)
      BY <1>3 DEF RowsOf, Ids
    <2>2. Serving(g)' = Serving(g)
      BY <1>2, <1>3 DEF Serving, Checked
    <2>3. /\ Asking(g)' \ {r} = Asking(g) \ {r} /\ r \notin Asking(g)
          /\ r \in Asking(g)' <=> g \in Checked(n, boxes)
      BY <1>2, <1>3, <1>4 DEF Asking
    <2>4. Cardinality(Asking(g)')
            = Cardinality(Asking(g)) + (IF r \in Asking(g)' THEN 1 ELSE 0)
      BY <2>3, RequestsFinite, CountSwap
    <2>5. submitted'[g] = submitted[g] + (IF r \in Asking(g)' THEN 1 ELSE 0)
      BY <1>3, <2>3
    <2>6. submitted[g] \in Nat /\ completed'[g] = completed[g]
      BY <1>3 DEF Shapes
    <2>7. /\ completed[g] + Cardinality(Serving(g)) <= Cardinality(RowsOf(g))
          /\ Cardinality(RowsOf(g)) + Cardinality(Asking(g)) <= submitted[g]
          /\ Cardinality(RowsOf(g)) \in Nat /\ Cardinality(Asking(g)) \in Nat
      BY RowsFinite, RequestsFinite DEF Accounts
    <2> QED
      BY <2>1, <2>2, <2>4, <2>5, <2>6, <2>7
  <1> QED
    BY <1>5, <1>6 DEF Accounts

(* One INSERT: its platform moves from pending to done.                    *)
LEMMA InsertStep ==
  ASSUME Shapes, Accounts, NEW r \in admin, InsertProduct(r)
  PROVE  Shapes' /\ Accounts'
  <1>1. PICK x \in r.left :
          /\ prodotti' = Append(prodotti, [nome |-> r.nome, piattaforma |-> x])
          /\ admin' = (admin \ {r}) \cup {[r EXCEPT !.left = r.left \ {x}]}
    BY DEF InsertProduct, Rest
  <1> DEFINE e == [nome |-> r.nome, piattaforma |-> x]
  <1>2. UNCHANGED <<submitted, completed>>
    BY DEF InsertProduct
  <1>3. r \in Requests /\ x \in r.spuntate /\ r.left \subseteq r.spuntate
    BY <1>1 DEF Shapes
  <1>4. e \in ProductRows
    BY <1>3 DEF Requests, ProductRows
  <1>5. PICK q : q = [r EXCEPT !.left = r.left \ {x}]
    OBVIOUS
  <1>6. /\ q \in Requests /\ q.by = r.by /\ q.nome = r.nome
        /\ q.spuntate = r.spuntate /\ q.left = r.left \ {x}
    BY <1>3, <1>5 DEF Requests
  <1>7. /\ q \notin admin \ {r}
        /\ admin' = (admin \ {r}) \cup {q}
    BY <1>1, <1>5, <1>6 DEF Shapes
  <1>8. Shapes'
    <2>1. prodotti' \in Seq(ProductRows)
      BY <1>1, <1>4, AppendProperties DEF Shapes
    <2>2. IsFiniteSet(admin')
      BY <1>7, FS_RemoveElement, FS_AddElement DEF Shapes
    <2>3. \A z, w \in admin' : z.by = w.by => z = w
      BY <1>6, <1>7 DEF Shapes
    <2> QED
      BY <1>2, <1>3, <1>6, <1>7, <2>1, <2>2, <2>3 DEF Shapes
  <1>9. ASSUME NEW g \in Games
        PROVE  /\ completed'[g] + Cardinality(Serving(g)') <= Cardinality(RowsOf(g)')
               /\ Cardinality(RowsOf(g)') + Cardinality(Asking(g)') <= submitted'[g]
    <2> DEFINE k == IF <<r.nome, x>> = g THEN 1 ELSE 0
    <2>1. Cardinality(RowsOf(g)') = Cardinality(RowsOf(g)) + k
      BY <1>1, <1>4, RowsAppend
    <2>2. /\ Asking(g)' \ {q} = Asking(g) \ {r}
          /\ r \in Asking(g) <=> g \in Checked(r.nome, r.left)
          /\ q \in Asking(g)' <=> g \in Checked(r.nome, r.left \ {x})
      BY <1>6, <1>7 DEF Asking
    <2>3. /\ Serving(g)' \ {q} = Serving(g) \ {r}
          /\ r \in Serving(g) <=> g \in Checked(r.nome, r.spuntate \ r.left)
          /\ q \in Serving(g)' <=>
               g \in Checked(r.nome, r.spuntate \ (r.left \ {x}))
      BY <1>6, <1>7 DEF Serving
    <2>4. /\ Cardinality(Asking(g)') + (IF r \in Asking(g) THEN 1 ELSE 0)
               = Cardinality(Asking(g)) + (IF q \in Asking(g)' THEN 1 ELSE 0)
          /\ Cardinality(Asking(g)') \in Nat
      BY <2>2, RequestsFinite, CountSwap
    <2>5. /\ Cardinality(Serving(g)') + (IF r \in Serving(g) THEN 1 ELSE 0)
               = Cardinality(Serving(g)) + (IF q \in Serving(g)' THEN 1 ELSE 0)
          /\ Cardinality(Serving(g)') \in Nat
      BY <2>3, RequestsFinite, CountSwap
    <2>6. /\ completed'[g] = completed[g] /\ submitted'[g] = submitted[g]
          /\ completed[g] \in Nat /\ submitted[g] \in Nat
          /\ Cardinality(RowsOf(g)) \in Nat
          /\ Cardinality(Asking(g)) \in Nat /\ Cardinality(Serving(g)) \in Nat
          /\ completed[g] + Cardinality(Serving(g)) <= Cardinality(RowsOf(g))
          /\ Cardinality(RowsOf(g)) + Cardinality(Asking(g)) <= submitted[g]
      BY <1>2, RowsFinite, RequestsFinite DEF Accounts, Shapes
    <2>7. CASE <<r.nome, x>> = g
      <3>1. /\ r \in Asking(g) /\ r \notin Serving(g)
            /\ q \notin Asking(g)' /\ q \in Serving(g)'
        BY <1>1, <1>3, <2>2, <2>3, <2>7 DEF Checked
      <3> QED
        BY <2>1, <2>4, <2>5, <2>6, <2>7, <3>1
    <2>8. CASE <<r.nome, x>> # g
      <3>1. /\ r \in Asking(g) <=> q \in Asking(g)'
            /\ r \in Serving(g) <=> q \in Serving(g)'
        BY <2>2, <2>3, <2>8 DEF Checked
      <3> QED
        BY <2>1, <2>4, <2>5, <2>6, <2>8, <3>1
    <2> QED
      BY <2>7, <2>8
  <1> QED
    BY <1>8, <1>9 DEF Accounts

(* A request ends, with all its rows or without.                           *)
LEMMA EndStep ==
  ASSUME Shapes, Accounts, NEW r \in admin, EndSubmit(r) \/ SubmitDies(r)
  PROVE  Shapes' /\ Accounts'
  <1>1. admin' = admin \ {r} /\ UNCHANGED <<prodotti, submitted>>
    BY DEF EndSubmit, SubmitDies, tables
  <1>2. completed' \in [Games -> Nat]
    BY SMTT(30) DEF EndSubmit, SubmitDies, Shapes
  <1>3. Shapes'
    <2>1. IsFiniteSet(admin')
      BY <1>1, FS_RemoveElement DEF Shapes
    <2> QED
      BY <1>1, <1>2, <2>1 DEF Shapes
  <1>4. ASSUME NEW g \in Games
        PROVE  /\ completed'[g] + Cardinality(Serving(g)') <= Cardinality(RowsOf(g)')
               /\ Cardinality(RowsOf(g)') + Cardinality(Asking(g)') <= submitted'[g]
    <2>1. /\ Asking(g)' = Asking(g) \ {r} /\ Serving(g)' = Serving(g) \ {r}
          /\ RowsOf(g)' = RowsOf(g)
      BY <1>1 DEF Serving, Asking, RowsOf, Ids
    <2>2. /\ Cardinality(Asking(g)') \in Nat /\ Cardinality(Serving(g)') \in Nat
          /\ Cardinality(Asking(g)') <= Cardinality(Asking(g))
          /\ Cardinality(Serving(g)') + (IF r \in Serving(g) THEN 1 ELSE 0)
               = Cardinality(Serving(g))
      <3>1. /\ Asking(g)' \ {r} = Asking(g) \ {r} /\ r \notin Asking(g)'
            /\ Serving(g)' \ {r} = Serving(g) \ {r} /\ r \notin Serving(g)'
        BY <2>1
      <3>2. /\ Cardinality(Asking(g)') \in Nat /\ Cardinality(Asking(g)) \in Nat
            /\ Cardinality(Asking(g)') + (IF r \in Asking(g) THEN 1 ELSE 0)
                 = Cardinality(Asking(g))
        BY <3>1, RequestsFinite, CountSwap
      <3>3. /\ Cardinality(Serving(g)') \in Nat
            /\ Cardinality(Serving(g)') + (IF r \in Serving(g) THEN 1 ELSE 0)
                 = Cardinality(Serving(g))
        BY <3>1, RequestsFinite, CountSwap
      <3> QED
        BY <3>2, <3>3
    <2>3. completed'[g] <= completed[g] + (IF r \in Serving(g) THEN 1 ELSE 0)
      <3>1. CASE EndSubmit(r)
        <4>1. /\ r.left = {}
              /\ completed' = [h \in Games |->
                   completed[h] + IF h \in Checked(r.nome, r.spuntate) THEN 1 ELSE 0]
          BY <3>1 DEF EndSubmit
        <4>2. r.spuntate \ r.left = r.spuntate
          BY <4>1
        <4>3. r \in Serving(g) <=> g \in Checked(r.nome, r.spuntate)
          BY <4>2 DEF Serving
        <4> QED
          BY <4>1, <4>3 DEF Shapes
      <3>2. CASE SubmitDies(r)
        BY <3>2 DEF SubmitDies, Shapes
      <3> QED
        BY <3>1, <3>2
    <2>4. /\ completed[g] + Cardinality(Serving(g)) <= Cardinality(RowsOf(g))
          /\ Cardinality(RowsOf(g)) + Cardinality(Asking(g)) <= submitted[g]
          /\ completed[g] \in Nat /\ submitted[g] \in Nat /\ completed'[g] \in Nat
          /\ Cardinality(RowsOf(g)) \in Nat
          /\ Cardinality(Asking(g)) \in Nat /\ Cardinality(Serving(g)) \in Nat
      BY <1>2, RowsFinite, RequestsFinite DEF Accounts, Shapes
    <2> QED
      BY <1>1, <2>1, <2>2, <2>3, <2>4
  <1> QED
    BY <1>3, <1>4 DEF Accounts

(* Nothing else touches prodotti or a request.                             *)
LEMMA AccountsNext == Shapes /\ Accounts /\ [Next]_vars => Shapes' /\ Accounts'
  <1> SUFFICES ASSUME Shapes, Accounts, [Next]_vars PROVE Shapes' /\ Accounts'
    OBVIOUS
  <1>1. ASSUME UNCHANGED <<prodotti, admin, submitted, completed>>
        PROVE  Shapes' /\ Accounts'
    BY <1>1 DEF Shapes, Accounts, Asking, Serving, RowsOf, Ids
  <1>2. ASSUME NEW a \in Admins, NEW n \in Names, NEW boxes \in SUBSET Platforms,
               Submit(a, n, boxes)
        PROVE  Shapes' /\ Accounts'
    BY <1>2, SubmitStep
  <1>3. ASSUME NEW r \in admin, InsertProduct(r) \/ EndSubmit(r) \/ SubmitDies(r)
        PROVE  Shapes' /\ Accounts'
    BY <1>3, InsertStep, EndStep
  <1>4. ASSUME NEW p, NEW c, AddImages(p) \/ Classify(p, c)
        PROVE  UNCHANGED <<prodotti, admin, submitted, completed>>
    BY <1>4 DEF AddImages, Classify
  <1>5. ASSUME NEW s, NEW f, NEW k, Count(s, f, k)
        PROVE  UNCHANGED <<prodotti, admin, submitted, completed>>
    BY <1>5 DEF Count, tables
  <1>6. ASSUME NEW s, NEW p,
               List(s) \/ ShowProfile(s) \/ ReadHistory(s, p) \/ RecordVisit(s)
        PROVE  UNCHANGED <<prodotti, admin, submitted, completed>>
    BY <1>6 DEF List, ShowProfile, ReadHistory, RecordVisit, tables
  <1>7. ASSUME NEW s, FollowMenu(s) \/ FollowPage(s)
        PROVE  UNCHANGED <<prodotti, admin, submitted, completed>>
    BY <1>5, <1>7 DEF FollowMenu, FollowPage
  <1>8. CASE UNCHANGED vars
    BY <1>1, <1>8 DEF vars, tables
  <1>9. CASE Administer
    BY <1>1, <1>2, <1>3, <1>4, <1>9 DEF Administer
  <1>10. CASE \E s \in Sessions : Browse(s)
    BY <1>1, <1>6, <1>7, <1>10 DEF Browse
  <1> QED
    BY <1>8, <1>9, <1>10 DEF Next

(* add_prodotto.php adds a row for every platform of a request that came   *)
(* to its end, and never more rows than were submitted, although its loop  *)
(* is no transaction and may stop after any statement.                     *)
THEOREM SubmissionsAreAccounted == Spec => []SubmissionsAccounted
  <1>1. Shapes /\ Accounts => SubmissionsAccounted
    <2> SUFFICES ASSUME Shapes, Accounts, NEW g \in Games
                 PROVE  /\ completed[g] <= Cardinality(RowsOf(g))
                        /\ Cardinality(RowsOf(g)) <= submitted[g]
      BY DEF SubmissionsAccounted
    <2>1. Cardinality(Asking(g)) \in Nat /\ Cardinality(Serving(g)) \in Nat
      BY RequestsFinite
    <2> QED
      BY <2>1, RowsFinite DEF Accounts, Shapes
  <1> QED
    BY InitAccounts, AccountsNext, <1>1, PTL DEF Spec

-----------------------------------------------------------------------------
(* A set of numbers has a least one, which MIN(p.productId) is.            *)
LEMMA MinIsLeast ==
  ASSUME NEW S \in SUBSET Nat, S # {}
  PROVE  Min(S) \in S /\ \A y \in S : Min(S) <= y
  <1> DEFINE R == {ss \in Nat \X Nat : ss[1] < ss[2]}
  <1>1. IsWellFoundedOn(R, Nat)
    BY NatLessThanWellFounded DEF OpToRel
  <1> HIDE DEF R
  <1>2. PICK x \in S : \A y \in S : ~ (<<y, x>> \in R)
    BY <1>1, WFMin
  <1>3. ASSUME NEW y \in S
        PROVE  x <= y
    <2> DEFINE yx == <<y, x>>
    <2>1. yx \in Nat \X Nat /\ yx[1] = y /\ yx[2] = x
      OBVIOUS
    <2>2. yx \notin R
      BY <1>2
    <2> HIDE DEF yx
    <2>3. ~ (y < x)
      BY <2>1, <2>2 DEF R
    <2> QED
      BY <2>3
  <1> QED
    BY <1>3 DEF Min

(* The page numbers reach as far as the games that are counted, and the    *)
(* last page is not empty.                                                 *)
LEMMA PagesReach ==
  ASSUME NEW n \in Nat
  PROVE  /\ TotalPages(n) \in Nat \ {0}
         /\ n <= TotalPages(n) * PerPage
         /\ n > 0 => (TotalPages(n) - 1) * PerPage < n
  <1> DEFINE k == (n + PerPage - 1) \div PerPage
             t == TotalPages(n)
  <1>1. PerPage \in Nat /\ PerPage > 0
    BY CatalogAssumption
  <1>2. k \in Int /\ k * PerPage <= n + PerPage - 1 /\ n + PerPage - 1 < (k + 1) * PerPage
    BY <1>1
  <1>3. \E x \in {1, k} : \A y \in {1, k} : x >= y
    BY <1>2
  <1>4. t \in {1, k} /\ t >= 1 /\ t >= k
    BY <1>3 DEF TotalPages, Max
  <1>5. k = 0 \/ k > 0
    BY <1>1, <1>2
  <1>6. CASE k = 0
    BY <1>1, <1>2, <1>4, <1>6
  <1>7. CASE k > 0
    BY <1>1, <1>2, <1>4, <1>7
  <1> QED
    BY <1>5, <1>6, <1>7

(* More games never have fewer pages.                                      *)
LEMMA PagesGrow ==
  ASSUME NEW m \in Nat, NEW n \in Nat, m <= n
  PROVE  TotalPages(m) <= TotalPages(n)
  <1> DEFINE a == TotalPages(m)
             b == TotalPages(n)
  <1>1. PerPage \in Nat /\ PerPage > 0
    BY CatalogAssumption
  <1>2. /\ a \in Nat \ {0} /\ b \in Nat \ {0}
        /\ m > 0 => (a - 1) * PerPage < m
        /\ n <= b * PerPage
    BY PagesReach
  <1> HIDE DEF a, b
  <1>3. CASE m = 0
    <2>1. a = 1
      <3>1. (0 + PerPage - 1) \div PerPage = 0
        BY <1>1
      <3>2. a = Max({1, 0})
        BY <1>3, <3>1 DEF TotalPages, a
      <3>3. \E x \in {1, 0} : \A y \in {1, 0} : x >= y
        OBVIOUS
      <3> QED
        BY <3>2, <3>3 DEF Max
    <2> QED
      BY <1>2, <2>1 DEF a, b
  <1>4. CASE m > 0
    <2>1. (a - 1) * PerPage < b * PerPage
      BY <1>1, <1>2, <1>4
    <2>2. ASSUME a > b PROVE FALSE
      <3>1. (a - 1) * PerPage >= b * PerPage
        BY <1>1, <1>2, <2>2
      <3> QED
        BY <1>1, <1>2, <2>1, <3>1
    <2> QED
      BY <1>2, <2>2 DEF a, b
  <1> QED
    BY <1>3, <1>4

(* There are finitely many products and names of them.                     *)
LEMMA RowNamesFinite ==
  ASSUME NEW rows \in Seq(ProductRows), NEW S \in SUBSET DOMAIN rows
  PROVE  IsFiniteSet({rows[p].nome : p \in S})
  <1>1. Len(rows) \in Nat /\ DOMAIN rows = 1 .. Len(rows)
    OBVIOUS
  <1>2. IsFiniteSet(1 .. Len(rows))
    BY <1>1, FS_Interval
  <1>3. IsFiniteSet(S)
    BY <1>1, <1>2, FS_Subset
  <1> DEFINE f == [p \in S |-> rows[p].nome]
  <1>4. f \in Surjection(S, {rows[p].nome : p \in S})
    BY DEF Surjection
  <1> QED
    BY <1>3, <1>4, FS_Surjection

LEMMA NamesFinite ==
  ASSUME prodotti \in Seq(ProductRows), NEW S \in SUBSET Ids
  PROVE  IsFiniteSet(NamesOf(S)) /\ Cardinality(NamesOf(S)) \in Nat
  <1>1. IsFiniteSet({prodotti[p].nome : p \in S})
    BY RowNamesFinite DEF Ids
  <1> QED
    BY <1>1, FS_CardinalityType DEF NamesOf

-----------------------------------------------------------------------------
(* The types: TypeOK is inductive.                                         *)
AnyPage == {NoPage} \cup CatalogPages \cup ProductPages \cup ProfilePages

(* The pages of the catalogue are those that were counted.                 *)
LEMMA CatalogsShape ==
  ASSUME TypeOK, NEW s \in Sessions
  PROVE  /\ s \in Catalogs <=> pagina[s] \in CatalogPages
         /\ s \in Listings => s \in Catalogs
  <1>1. pagina[s] \in AnyPage
    BY DEF TypeOK, AnyPage
  <1>2. pagina[s] \in CatalogPages <=> pagina[s].kind \in {"counted", "listed"}
    BY <1>1 DEF AnyPage, CatalogPages, ProductPages, ProfilePages, NoPage
  <1> QED
    BY <1>2 DEF Catalogs, Listings

(* Tables that grow leave pages as they are, but for their age.            *)
LEMMA AgeShape ==
  ASSUME TypeOK, Age
  PROVE  /\ pagina' \in [Sessions -> AnyPage]
         /\ \A s \in Sessions :
              IF s \in Catalogs
              THEN /\ pagina'[s] \in CatalogPages
                   /\ pagina'[s] = [pagina[s] EXCEPT !.fresh = FALSE]
              ELSE pagina'[s] = pagina[s]
  <1>1. ASSUME NEW s \in Sessions, s \in Catalogs
        PROVE  [pagina[s] EXCEPT !.fresh = FALSE] \in CatalogPages
    BY <1>1, CatalogsShape DEF CatalogPages
  <1>2. pagina \in [Sessions -> AnyPage]
    BY DEF TypeOK, AnyPage
  <1> QED
    BY <1>1, <1>2 DEF Age, AnyPage

(* A form, its INSERTs and its end.                                        *)
LEMMA FormTyped ==
  ASSUME TypeOK,
         \/ \E a \in Admins, n \in Names, boxes \in SUBSET Platforms :
              Submit(a, n, boxes)
         \/ \E r \in admin : InsertProduct(r) \/ EndSubmit(r) \/ SubmitDies(r)
  PROVE  TypeOK'
  <1>1. ASSUME NEW a \in Admins, NEW n \in Names, NEW boxes \in SUBSET Platforms,
               Submit(a, n, boxes)
        PROVE  TypeOK'
    <2>1. [by |-> a, nome |-> n, spuntate |-> boxes, left |-> boxes] \in Requests
      BY DEF Requests
    <2>2. submitted' \in [Games -> Nat]
      BY <1>1 DEF Submit, TypeOK
    <2>3. admin' \subseteq Requests
      BY <1>1, <2>1 DEF Submit, TypeOK
    <2>4. UNCHANGED <<tables, interazioni, pagina, completed>>
      BY <1>1 DEF Submit
    <2> QED
      BY <2>2, <2>3, <2>4 DEF TypeOK, Ids, tables
  <1>2. ASSUME NEW r \in admin, InsertProduct(r)
        PROVE  TypeOK'
    <2>1. PICK x \in r.left :
            /\ prodotti' = Append(prodotti, [nome |-> r.nome, piattaforma |-> x])
            /\ admin' = (admin \ {r}) \cup {[r EXCEPT !.left = r.left \ {x}]}
      BY <1>2 DEF InsertProduct, Rest
    <2>2. /\ [r EXCEPT !.left = r.left \ {x}] \in Requests
          /\ [nome |-> r.nome, piattaforma |-> x] \in ProductRows
      BY <2>1 DEF TypeOK, Requests, ProductRows
    <2>3. /\ prodotti' \in Seq(ProductRows)
          /\ Len(prodotti') = Len(prodotti) + 1 /\ Len(prodotti) \in Nat
          /\ Ids \subseteq Ids'
      BY <2>1, <2>2, AppendProperties DEF TypeOK, ProductRows, Ids
    <2>4. Len(prodotti') <= MaxProducts
      BY <1>2, <2>3, CatalogAssumption DEF InsertProduct
    <2>5. pagina' \in [Sessions -> AnyPage]
      BY <1>2, AgeShape DEF InsertProduct
    <2>6. admin' \subseteq Requests
      BY <2>1, <2>2 DEF TypeOK
    <2>7. UNCHANGED <<immagini, appartenenze, interazioni, submitted, completed>>
      BY <1>2 DEF InsertProduct
    <2> QED
      BY <2>3, <2>4, <2>5, <2>6, <2>7 DEF TypeOK, AnyPage, ProductRows
  <1>3. ASSUME NEW r \in admin, EndSubmit(r) \/ SubmitDies(r)
        PROVE  TypeOK'
    <2>1. completed' \in [Games -> Nat] /\ admin' \subseteq Requests
      <3>1. CASE EndSubmit(r)
        BY <3>1 DEF EndSubmit, TypeOK
      <3>2. CASE SubmitDies(r)
        BY <3>2 DEF SubmitDies, TypeOK
      <3> QED
        BY <1>3, <3>1, <3>2
    <2>2. UNCHANGED <<tables, interazioni, pagina, submitted>>
      BY <1>3 DEF EndSubmit, SubmitDies
    <2> QED
      BY <2>1, <2>2 DEF TypeOK, Ids, tables
  <1> QED
    BY <1>1, <1>2, <1>3

(* Pictures and categories belong to products that are there.              *)
LEMMA PicturesTyped ==
  ASSUME TypeOK, NEW p \in Ids,
         AddImages(p) \/ \E c \in Categories : Classify(p, c)
  PROVE  TypeOK'
  <1>1. pagina' \in [Sessions -> AnyPage]
    BY AgeShape DEF AddImages, Classify
  <1>2. UNCHANGED <<prodotti, interazioni, admin, submitted, completed>>
    BY DEF AddImages, Classify
  <1>3. immagini' \subseteq Ids /\ appartenenze' \subseteq Ids \X Categories
    <2>1. CASE AddImages(p)
      BY <2>1 DEF AddImages, TypeOK
    <2>2. ASSUME NEW c \in Categories, Classify(p, c)
          PROVE  immagini' \subseteq Ids /\ appartenenze' \subseteq Ids \X Categories
      BY <2>2 DEF Classify, TypeOK
    <2> QED
      BY <2>1, <2>2
  <1> QED
    BY <1>1, <1>2, <1>3 DEF TypeOK, AnyPage, Ids

(* A page of another kind.                                                 *)
LEMMA PageTyped ==
  ASSUME TypeOK, NEW s \in Sessions, NEW pg \in AnyPage,
         pagina' = [pagina EXCEPT ![s] = pg],
         UNCHANGED <<tables, admin, submitted, completed>>,
         interazioni' \in [Users -> [AllIds -> Nat]]
  PROVE  TypeOK'
  BY DEF TypeOK, AnyPage, Ids, tables

(* The first query of a page of the catalogue.                             *)
LEMMA CountTyped ==
  ASSUME TypeOK, NEW s \in Sessions, NEW f \in Filters, NEW k \in Nat \ {0},
         Count(s, f, k)
  PROVE  /\ TypeOK'
         /\ Cardinality(CountedGames(f)) \in Nat
  <1> DEFINE t == Cardinality(CountedGames(f))
             pg == [kind |-> "counted", filtro |-> f, numero |-> k, totale |-> t,
                    giochi |-> {}, fresh |-> TRUE]
  <1>1. t \in Nat
    <2>1. Matching(f) \subseteq Ids /\ prodotti \in Seq(ProductRows)
      BY DEF Matching, TypeOK, ProductRows
    <2> QED
      BY <2>1, NamesFinite DEF CountedGames
  <1>2. /\ pagina' = [pagina EXCEPT ![s] = pg]
        /\ UNCHANGED <<tables, interazioni, admin, submitted, completed>>
    BY DEF Count
  <1> HIDE DEF t
  <1>3. pg \in AnyPage
    BY <1>1 DEF AnyPage, CatalogPages
  <1>4. TypeOK'
    BY <1>2, <1>3, PageTyped DEF TypeOK
  <1> QED
    BY <1>1, <1>4 DEF t

(* Menus and page links ask for page numbers from 1 and for filters.       *)
LEMMA LinksAsk ==
  ASSUME TypeOK, NEW s \in Sessions
  PROVE  /\ NoFilter \in Filters
         /\ FollowMenu(s) => \E f \in Filters : Count(s, f, 1)
         /\ FollowPage(s) =>
              \E k \in Nat \ {0} :
                 /\ s \in Listings /\ pagina[s] \in CatalogPages
                 /\ k \in PageLinks(pagina[s])
                 /\ Count(s, NoFilter, k)
  <1>1. /\ NoFilter \in Filters
        /\ \A c \in Categories : [NoFilter EXCEPT !.categoria = c] \in Filters
        /\ \A x \in Platforms : [NoFilter EXCEPT !.piattaforma = x] \in Filters
    BY DEF NoFilter, Filters
  <1>2. \A p \in Ids : prodotti[p].piattaforma \in Platforms
    <2>1. prodotti \in Seq(ProductRows)
      BY DEF TypeOK, ProductRows
    <2>2. \A p \in Ids : prodotti[p] \in ProductRows
      BY <2>1 DEF Ids
    <2> QED
      BY <2>2 DEF ProductRows
  <1>3. ASSUME FollowMenu(s) PROVE \E f \in Filters : Count(s, f, 1)
    BY <1>1, <1>2, <1>3 DEF FollowMenu
  <1>4. ASSUME FollowPage(s)
        PROVE  \E k \in Nat \ {0} :
                 /\ s \in Listings /\ pagina[s] \in CatalogPages
                 /\ k \in PageLinks(pagina[s])
                 /\ Count(s, NoFilter, k)
    <2>1. s \in Listings /\ pagina[s] \in CatalogPages
      BY <1>4, CatalogsShape DEF FollowPage
    <2>2. PageLinks(pagina[s]) \subseteq Nat \ {0}
      <3>1. pagina[s].numero \in Nat \ {0} /\ pagina[s].totale \in Nat
        BY <2>1 DEF CatalogPages
      <3>2. TotalPages(pagina[s].totale) \in Nat
        BY <3>1, PagesReach
      <3> QED
        BY <3>1, <3>2 DEF PageLinks
    <2> QED
      BY <1>4, <2>1, <2>2 DEF FollowPage
  <1> QED
    BY <1>1, <1>3, <1>4

(* A link of the list names a product that matches the filter, with the    *)
(* platform of a product of the same game that does.                       *)
LinkHolds(f, l) ==
  /\ l.productId \in Matching(f)
  /\ prodotti[l.productId].nome = l.nome
  /\ \E q \in Matching(f) :
       prodotti[q] = [nome |-> l.nome, piattaforma |-> l.piattaforma]

LEMMA LinksShape ==
  ASSUME TypeOK, NEW f, NEW n \in ListedGames(f), NEW l \in LinksOf(f, n)
  PROVE  l \in Links /\ l.nome = n /\ LinkHolds(f, l)
  <1> DEFINE rows == {p \in Matching(f) \cap immagini : prodotti[p].nome = n}
  <1>1. rows \subseteq Matching(f) /\ rows # {}
    BY DEF ListedGames, NamesOf
  <1>2. /\ Matching(f) \subseteq Ids /\ Ids \subseteq Nat /\ Ids \subseteq AllIds
        /\ \A p \in Ids : prodotti[p] \in ProductRows
    <2>1. /\ prodotti \in Seq(ProductRows) /\ Len(prodotti) <= MaxProducts
          /\ MaxProducts \in Nat
      BY CatalogAssumption DEF TypeOK, ProductRows
    <2> QED
      BY <2>1 DEF Matching, Ids, AllIds
  <1>3. Min(rows) \in rows
    BY <1>1, <1>2, MinIsLeast
  <1>4. PICK q \in rows :
          l = [productId |-> Min(rows), piattaforma |-> prodotti[q].piattaforma,
               nome |-> n]
    BY DEF LinksOf
  <1> DEFINE m == Min(rows)
  <1> HIDE DEF m
  <1>5. /\ m \in Matching(f) /\ prodotti[m].nome = n
        /\ l.productId = m /\ l.nome = n /\ l.piattaforma = prodotti[q].piattaforma
        /\ l = [productId |-> m, piattaforma |-> prodotti[q].piattaforma, nome |-> n]
    BY <1>3, <1>4 DEF m
  <1>6. /\ q \in Matching(f) /\ prodotti[q].nome = n /\ prodotti[q] \in ProductRows
        /\ prodotti[m] \in ProductRows /\ m \in AllIds
    BY <1>1, <1>2, <1>5
  <1>7. prodotti[q] = [nome |-> n, piattaforma |-> prodotti[q].piattaforma]
    BY <1>6 DEF ProductRows
  <1>8. l \in Links
    BY <1>5, <1>6 DEF Links, ProductRows
  <1> QED
    BY <1>5, <1>6, <1>7, <1>8 DEF LinkHolds

(* A first page on which all games fit lists each of them once.            *)
ListsAll(giochi, games) ==
  {l.nome : l \in giochi} = games /\ Cardinality(giochi) = Cardinality(games)

(* The second query of a page.  A page without games is one whose offset   *)
(* lies behind the last game.                                              *)
LEMMA ListShape ==
  ASSUME TypeOK, NEW s \in Sessions, List(s)
  PROVE  /\ TypeOK' /\ pagina[s] \in CatalogPages
         /\ \E giochi \in SUBSET Links :
              /\ pagina' = [pagina EXCEPT ![s] =
                   [pagina[s] EXCEPT !.kind = "listed", !.giochi = giochi]]
              /\ \A l \in giochi : LinkHolds(pagina[s].filtro, l)
              /\ giochi = {} =>
                   Cardinality(ListedGames(pagina[s].filtro))
                     <= Offset(pagina[s].numero)
              /\ /\ pagina[s].numero = 1
                 /\ Cardinality(ListedGames(pagina[s].filtro)) <= PerPage
                 => ListsAll(giochi, ListedGames(pagina[s].filtro))
  <1> DEFINE f == pagina[s].filtro
             k == pagina[s].numero
             all == Cardinality(ListedGames(f))
             left == all - Offset(k)
             inner == Min({PerPage, left})
             size == Max({0, inner})
  <1>1. pagina[s] \in CatalogPages
    BY CatalogsShape DEF List, Catalogs
  <1>2. k \in Nat /\ k > 0 /\ f \in Filters
    BY <1>1 DEF CatalogPages
  <1>3. all \in Nat /\ IsFiniteSet(ListedGames(f))
    <2>1. Matching(f) \cap immagini \subseteq Ids /\ prodotti \in Seq(ProductRows)
      BY DEF Matching, TypeOK, ProductRows
    <2> QED
      BY <2>1, NamesFinite DEF ListedGames
  <1>4. Offset(k) \in Int /\ left \in Int /\ PerPage \in Nat /\ PerPage > 0
    BY <1>2, <1>3, CatalogAssumption DEF Offset
  <1>5. /\ size = 0 => all <= Offset(k)
        /\ k = 1 /\ all <= PerPage => size = all
    <2>1. inner \in {PerPage, left} /\ inner <= PerPage /\ inner <= left
      <3>1. \E x \in {PerPage, left} : \A y \in {PerPage, left} : x <= y
        BY <1>4
      <3> QED
        BY <3>1 DEF Min
    <2>2. size \in {0, inner} /\ size >= inner
      <3>1. \E x \in {0, inner} : \A y \in {0, inner} : x >= y
        BY <1>4, <2>1
      <3> QED
        BY <3>1 DEF Max
    <2> HIDE DEF inner, size
    <2>3. size = 0 => left <= 0
      BY <1>4, <2>1, <2>2
    <2>4. k = 1 => left = all
      BY <1>3, <1>4 DEF Offset
    <2>5. k = 1 /\ all <= PerPage => size = all
      BY <1>3, <1>4, <2>1, <2>2, <2>4
    <2> QED
      BY <1>3, <1>4, <2>3, <2>5
  <1>60. PICK names \in kSubset(size, ListedGames(f)) :
          \E link \in [names -> UNION {LinksOf(f, n) : n \in names}] :
          /\ \A n \in names : link[n] \in LinksOf(f, n)
          /\ pagina' = [pagina EXCEPT ![s] =
               [pagina[s] EXCEPT !.kind = "listed",
                                 !.giochi = {link[n] : n \in names}]]
    BY Zenon DEF List
  <1>6. PICK link \in [names -> UNION {LinksOf(f, n) : n \in names}] :
          /\ \A n \in names : link[n] \in LinksOf(f, n)
          /\ pagina' = [pagina EXCEPT ![s] =
               [pagina[s] EXCEPT !.kind = "listed",
                                 !.giochi = {link[n] : n \in names}]]
    BY <1>60, Zenon
  <1> DEFINE giochi == {link[n] : n \in names}
  <1>7. names \subseteq ListedGames(f) /\ Cardinality(names) = size
    BY <1>60 DEF kSubset
  <1> HIDE DEF size
  <1>8. \A l \in giochi : l \in Links /\ LinkHolds(f, l)
    BY <1>6, <1>7, LinksShape
  <1>9. giochi = {} => all <= Offset(k)
    <2>1. giochi = {} => names = {}
      OBVIOUS
    <2> QED
      BY <1>5, <1>7, <2>1, FS_EmptySet
  <1>10. pagina' = [pagina EXCEPT ![s] =
           [pagina[s] EXCEPT !.kind = "listed", !.giochi = giochi]]
    BY <1>6
  <1>14. k = 1 /\ all <= PerPage => ListsAll(giochi, ListedGames(f))
    <2> SUFFICES ASSUME k = 1, all <= PerPage
                 PROVE  ListsAll(giochi, ListedGames(f))
      OBVIOUS
    <2>1. names = ListedGames(f)
      BY <1>3, <1>5, <1>7, FS_Subset
    <2>2. \A n \in names : link[n].nome = n
      BY <1>6, <1>7, LinksShape
    <2>3. {l.nome : l \in giochi} = names
      BY <2>2
    <2> DEFINE g == [n \in names |-> link[n]]
    <2>4. g \in Bijection(names, giochi)
      <3>1. g \in [names -> giochi]
        OBVIOUS
      <3>2. \A m, n \in names : g[m] = g[n] => m = n
        BY <2>2
      <3>3. \A l \in giochi : \E n \in names : g[n] = l
        OBVIOUS
      <3> QED
        BY <3>1, <3>2, <3>3, Zenon
           DEF Bijection, Injection, Surjection, IsInjective
    <2>5. ExistsBijection(names, giochi)
      BY <2>4 DEF ExistsBijection
    <2>6. Cardinality(giochi) = Cardinality(names)
      BY <1>3, <2>1, <2>5, FS_Bijection
    <2> QED
      BY <2>1, <2>3, <2>6 DEF ListsAll
  <1> HIDE DEF giochi, f, k, all
  <1>11. [pagina[s] EXCEPT !.kind = "listed", !.giochi = giochi] \in AnyPage
    BY <1>1, <1>8 DEF AnyPage, CatalogPages
  <1>12. UNCHANGED <<tables, interazioni, admin, submitted, completed>>
    BY DEF List
  <1>13. TypeOK'
    BY <1>10, <1>11, <1>12, PageTyped DEF TypeOK
  <1> QED
    BY <1>1, <1>8, <1>9, <1>10, <1>13, <1>14 DEF f, k, all

(* The INSERT of a visit: the product is counted once more.                *)
LEMMA VisitShape ==
  ASSUME TypeOK, NEW s \in Sessions, RecordVisit(s)
  PROVE  \E pg \in ProductPages :
           /\ pg.kind = "product" /\ pagina[s] \in ProductPages
           /\ pagina[s].kind = "opened"
           /\ pg.productId = pagina[s].productId /\ pg.visti = pagina[s].visti
           /\ pagina' = [pagina EXCEPT ![s] = pg]
           /\ interazioni' \in [Users -> [AllIds -> Nat]]
           /\ \A v \in Users, p \in AllIds :
                interazioni'[v][p] = interazioni[v][p] +
                  IF v = UserOf[s] /\ p = pg.productId THEN 1 ELSE 0
  <1>1. PICK old : old = pagina[s]
    OBVIOUS
  <1>2. old \in ProductPages /\ old.kind = "opened"
    <2>1. old \in AnyPage /\ old.kind = "opened"
      BY <1>1 DEF TypeOK, AnyPage, RecordVisit
    <2> QED
      BY <2>1 DEF AnyPage, CatalogPages, ProductPages, ProfilePages, NoPage
  <1>3. PICK pg : pg = [old EXCEPT !.kind = "product"]
    OBVIOUS
  <1>4. /\ pg \in ProductPages /\ pg.kind = "product"
        /\ pg.productId = old.productId /\ pg.visti = old.visti
        /\ old.productId \in AllIds
    BY <1>2, <1>3 DEF ProductPages
  <1>5. pagina' = [pagina EXCEPT ![s] = pg]
    BY <1>1, <1>3 DEF RecordVisit
  <1> DEFINE w == UserOf[s]
  <1>6. w \in Users /\ interazioni \in [Users -> [AllIds -> Nat]]
    BY CatalogAssumption DEF TypeOK
  <1>7. interazioni' = [interazioni EXCEPT ![w] =
          [interazioni[w] EXCEPT ![old.productId] = interazioni[w][old.productId] + 1]]
    BY <1>1 DEF RecordVisit
  <1> HIDE DEF w
  <1>8. interazioni' \in [Users -> [AllIds -> Nat]]
    <2>1. [interazioni[w] EXCEPT ![old.productId] = interazioni[w][old.productId] + 1]
            \in [AllIds -> Nat]
      BY <1>4, <1>6
    <2> QED
      BY <1>6, <1>7, <2>1
  <1>9. \A v \in Users, p \in AllIds :
          interazioni'[v][p] = interazioni[v][p] +
            IF v = w /\ p = old.productId THEN 1 ELSE 0
    BY <1>4, <1>6, <1>7
  <1>10. /\ pg \in ProductPages /\ pagina[s] \in ProductPages
         /\ pagina[s].kind = "opened"
         /\ pg.productId = pagina[s].productId /\ pg.visti = pagina[s].visti
         /\ pg.productId = old.productId
    BY <1>1, <1>2, <1>4
  <1>11. \A v \in Users, p \in AllIds :
           interazioni'[v][p] = interazioni[v][p] +
             IF v = UserOf[s] /\ p = pg.productId THEN 1 ELSE 0
    BY <1>9, <1>10 DEF w
  <1>12. pg.kind = "product"
    BY <1>4
  <1> QED
    BY <1>5, <1>8, <1>10, <1>11, <1>12

(* The profile and the page of a product.                                  *)
LEMMA ProfileTyped ==
  ASSUME TypeOK, NEW s \in Sessions,
         ShowProfile(s) \/ RecordVisit(s) \/ \E p \in Ids : ReadHistory(s, p)
  PROVE  /\ TypeOK' /\ UNCHANGED tables
         /\ \E pg : /\ pg \in ProductPages \cup ProfilePages
                   /\ pagina' = [pagina EXCEPT ![s] = pg]
  <1>1. Ids \subseteq AllIds
    <2>1. prodotti \in Seq(ProductRows) /\ Len(prodotti) <= MaxProducts
      BY DEF TypeOK, ProductRows
    <2> QED
      BY <2>1, CatalogAssumption DEF Ids, AllIds
  <1>2. CASE ShowProfile(s)
    <2>1. PICK top : \E games \in Best(Candidates(top), Suggestions,
                                      [p \in Ids |-> InTop(p, top)]) :
            pagina' = [pagina EXCEPT ![s] =
              [kind |-> "profile", giochi |-> games,
               due |-> ViewedCategories(UserOf[s]) # {}]]
      BY <1>2, Zenon DEF ShowProfile
    <2>2. PICK games \in Best(Candidates(top), Suggestions,
                             [p \in Ids |-> InTop(p, top)]) :
            pagina' = [pagina EXCEPT ![s] =
              [kind |-> "profile", giochi |-> games,
               due |-> ViewedCategories(UserOf[s]) # {}]]
      BY <2>1
    <2> DEFINE due == ViewedCategories(UserOf[s]) # {}
               pg == [kind |-> "profile", giochi |-> games, due |-> due]
    <2>3. games \subseteq AllIds
      BY <1>1, <2>2 DEF Best, kSubset, Candidates
    <2>4. due \in BOOLEAN /\ pagina' = [pagina EXCEPT ![s] = pg]
      BY <2>2
    <2> HIDE DEF due
    <2>5. pg \in ProfilePages
      BY <2>3, <2>4 DEF ProfilePages
    <2>6. UNCHANGED <<tables, interazioni, admin, submitted, completed>>
      BY <1>2 DEF ShowProfile
    <2> QED
      BY <2>4, <2>5, <2>6, PageTyped DEF AnyPage, TypeOK
  <1>3. ASSUME NEW p \in Ids, ReadHistory(s, p)
        PROVE  /\ TypeOK' /\ UNCHANGED tables
               /\ \E pg : /\ pg \in ProductPages \cup ProfilePages
                         /\ pagina' = [pagina EXCEPT ![s] = pg]
    <2>1. PICK visti \in SUBSET (Viewed(UserOf[s]) \cap immagini) :
            pagina' = [pagina EXCEPT ![s] =
              [kind |-> "opened", productId |-> p, visti |-> visti]]
      BY <1>3 DEF ReadHistory
    <2> DEFINE pg == [kind |-> "opened", productId |-> p, visti |-> visti]
    <2>2. pg \in ProductPages
      BY <1>1, <2>1 DEF ProductPages, Viewed
    <2>3. UNCHANGED <<tables, interazioni, admin, submitted, completed>>
      BY <1>3 DEF ReadHistory
    <2> QED
      BY <2>1, <2>2, <2>3, PageTyped DEF AnyPage, TypeOK
  <1>4. CASE RecordVisit(s)
    <2>1. PICK pg \in ProductPages :
            /\ pagina' = [pagina EXCEPT ![s] = pg]
            /\ interazioni' \in [Users -> [AllIds -> Nat]]
      BY <1>4, VisitShape
    <2>2. UNCHANGED <<tables, admin, submitted, completed>>
      BY <1>4 DEF RecordVisit
    <2> QED
      BY <2>1, <2>2, PageTyped DEF AnyPage
  <1> QED
    BY <1>2, <1>3, <1>4

-----------------------------------------------------------------------------
(* What holds of a page of the catalogue, whatever happens after it was    *)
(* counted: the games can only have become more.                           *)
PageHolds(pg) ==
  /\ pg.numero <= TotalPages(pg.totale)
  /\ pg.totale <= Cardinality(CountedGames(NoFilter))
  /\ pg.fresh => pg.totale = Cardinality(CountedGames(pg.filtro))
  /\ pg.kind = "listed" /\ pg.fresh /\ pg.giochi = {} =>
       Cardinality(ListedGames(pg.filtro)) <= Offset(pg.numero)
  /\ /\ pg.kind = "listed" /\ pg.fresh /\ pg.numero = 1
     /\ Cardinality(ListedGames(pg.filtro)) <= PerPage
     => ListsAll(pg.giochi, ListedGames(pg.filtro))
  /\ \A l \in pg.giochi : LinkHolds(pg.filtro, l)

CatalogInv ==
  /\ TypeOK
  /\ \A s \in Catalogs : PageHolds(pagina[s])

(* A filter only leaves games out.                                         *)
LEMMA FilterLeavesOut ==
  ASSUME TypeOK, NEW f
  PROVE  /\ Cardinality(CountedGames(f)) \in Nat
         /\ Cardinality(CountedGames(NoFilter)) \in Nat
         /\ Cardinality(CountedGames(f)) <= Cardinality(CountedGames(NoFilter))
  <1>1. /\ prodotti \in Seq(ProductRows)
        /\ Matching(f) \subseteq Ids /\ Matching(NoFilter) \subseteq Ids
    BY DEF TypeOK, ProductRows, Matching
  <1>2. Matching(f) \subseteq Matching(NoFilter)
    BY DEF Matching, NoFilter
  <1>3. CountedGames(f) \subseteq CountedGames(NoFilter)
    BY <1>2 DEF CountedGames, NamesOf
  <1>4. /\ IsFiniteSet(CountedGames(NoFilter))
        /\ Cardinality(CountedGames(f)) \in Nat
        /\ Cardinality(CountedGames(NoFilter)) \in Nat
    BY <1>1, NamesFinite DEF CountedGames
  <1> QED
    BY <1>3, <1>4, FS_Subset

(* Rows are added to the tables and none is taken away or changed.         *)
LEMMA TablesGrow ==
  ASSUME TypeOK, TypeOK',
         \/ \E r \in admin : InsertProduct(r)
         \/ \E p : AddImages(p) \/ \E c : Classify(p, c)
  PROVE  /\ Cardinality(CountedGames(NoFilter))
              <= Cardinality(CountedGames(NoFilter)')
         /\ \A f, l : LinkHolds(f, l) => LinkHolds(f, l)'
  <1>1. /\ Ids \subseteq Ids'
        /\ \A p \in Ids : prodotti'[p] = prodotti[p]
        /\ appartenenze \subseteq appartenenze'
    <2>1. ASSUME NEW r \in admin, InsertProduct(r)
          PROVE  /\ Ids \subseteq Ids' /\ appartenenze' = appartenenze
                 /\ \A p \in Ids : prodotti'[p] = prodotti[p]
      <3>1. PICK e : prodotti' = Append(prodotti, e)
        BY <2>1 DEF InsertProduct
      <3>2. prodotti \in Seq(ProductRows)
        BY DEF TypeOK, ProductRows
      <3> QED
        BY <2>1, <3>1, <3>2 DEF InsertProduct, Ids
    <2>2. ASSUME NEW p, AddImages(p) \/ \E c : Classify(p, c)
          PROVE  /\ prodotti' = prodotti
                 /\ appartenenze \subseteq appartenenze'
      BY <2>2 DEF AddImages, Classify
    <2> QED
      BY <2>1, <2>2 DEF Ids
  <1>2. \A f : Matching(f) \subseteq Matching(f)'
    BY <1>1 DEF Matching
  <1>3. \A f : Matching(f) \subseteq Ids
    BY DEF Matching
  <1>4. CountedGames(NoFilter) \subseteq CountedGames(NoFilter)'
    <2>1. \A p \in Matching(NoFilter) :
            p \in Matching(NoFilter)' /\ prodotti'[p] = prodotti[p]
      BY <1>1, <1>2, <1>3
    <2> QED
      BY <2>1 DEF CountedGames, NamesOf
  <1>5. IsFiniteSet(CountedGames(NoFilter)')
    <2>1. /\ prodotti' \in Seq(ProductRows)
          /\ Matching(NoFilter)' \subseteq DOMAIN prodotti'
      BY DEF TypeOK, ProductRows, Matching, Ids
    <2>2. IsFiniteSet({prodotti'[p].nome : p \in Matching(NoFilter)'})
      BY <2>1, RowNamesFinite
    <2> QED
      BY <2>2 DEF CountedGames, NamesOf
  <1>6. \A f, l : LinkHolds(f, l) => LinkHolds(f, l)'
    BY <1>1, <1>2, <1>3 DEF LinkHolds
  <1> QED
    BY <1>4, <1>5, <1>6, FS_Subset

(* A page after a step, named by a constant.                               *)
LEMMA PageNamed ==
  ASSUME NEW s, NEW q, q = pagina'[s], PageHolds(q)'
  PROVE  PageHolds(pagina[s])'
  BY ZenonT(40) DEF PageHolds, LinkHolds, CountedGames, ListedGames, NamesOf, Matching, Ids,
         ListsAll

(* A page that is out of date holds on to what it shows.                   *)
LEMMA AgedHolds ==
  ASSUME TypeOK, TypeOK',
         \/ \E r \in admin : InsertProduct(r)
         \/ \E p : AddImages(p) \/ \E c : Classify(p, c),
         NEW pg \in CatalogPages, PageHolds(pg)
  PROVE  PageHolds([pg EXCEPT !.fresh = FALSE])'
  <1>1. PICK qg : qg = [pg EXCEPT !.fresh = FALSE]
    OBVIOUS
  <1>2. /\ qg.numero = pg.numero /\ qg.totale = pg.totale /\ ~qg.fresh
        /\ qg.giochi = pg.giochi /\ qg.filtro = pg.filtro
        /\ pg.totale \in Nat
    BY <1>1 DEF CatalogPages
  <1>3. /\ Cardinality(CountedGames(NoFilter)) \in Nat
        /\ Cardinality(CountedGames(NoFilter))
             <= Cardinality(CountedGames(NoFilter)')
        /\ \A l : LinkHolds(pg.filtro, l) => LinkHolds(pg.filtro, l)'
    BY FilterLeavesOut, TablesGrow
  <1>4. Cardinality(CountedGames(NoFilter)') \in Nat
    <2>1. /\ prodotti' \in Seq(ProductRows)
          /\ Matching(NoFilter)' \subseteq DOMAIN prodotti'
      BY DEF TypeOK, ProductRows, Matching, Ids
    <2>2. IsFiniteSet({prodotti'[p].nome : p \in Matching(NoFilter)'})
      BY <2>1, RowNamesFinite
    <2> QED
      BY <2>2, FS_CardinalityType DEF CountedGames, NamesOf
  <1>5. qg.totale <= Cardinality(CountedGames(NoFilter)')
    BY <1>2, <1>3, <1>4 DEF PageHolds
  <1>6. \A l \in qg.giochi : LinkHolds(pg.filtro, l)'
    BY <1>2, <1>3 DEF PageHolds
  <1>7. \A l \in qg.giochi : LinkHolds(qg.filtro, l)'
    BY <1>2, <1>6
  <1>8. qg.numero <= TotalPages(qg.totale)
    BY <1>2 DEF PageHolds
  <1>9. PageHolds(qg)'
    BY <1>2, <1>5, <1>7, <1>8 DEF PageHolds
  <1> QED
    BY <1>1, <1>9

(* A change of the tables ages the pages.                                  *)
LEMMA GrowKeepsPages ==
  ASSUME CatalogInv, TypeOK',
         \/ \E r \in admin : InsertProduct(r)
         \/ \E p : AddImages(p) \/ \E c : Classify(p, c)
  PROVE  CatalogInv'
  <1>1. TypeOK /\ Age
    BY DEF CatalogInv, InsertProduct, AddImages, Classify
  <1>2. ASSUME NEW s \in Sessions, s \in Catalogs'
        PROVE  PageHolds(pagina[s])'
    <2>1. s \in Catalogs
      BY <1>1, <1>2, AgeShape DEF Catalogs
    <2>2. pagina'[s] = [pagina[s] EXCEPT !.fresh = FALSE]
      BY <1>1, <2>1, AgeShape
    <2>3. PICK pg : pg = pagina[s]
      OBVIOUS
    <2>4. pg \in CatalogPages /\ PageHolds(pg)
      BY <1>1, <2>1, <2>3, CatalogsShape DEF CatalogInv
    <2>5. PageHolds([pg EXCEPT !.fresh = FALSE])'
      BY <1>1, <2>4, AgedHolds
    <2> QED
      BY <2>2, <2>3, <2>5, PageNamed
  <1> QED
    BY <1>2 DEF CatalogInv, Catalogs

(* Another page for one user, without a change of the tables.              *)
LEMMA PageKeepsPages ==
  ASSUME CatalogInv, TypeOK', UNCHANGED tables,
         NEW s \in Sessions, NEW pg,
         pagina' = [pagina EXCEPT ![s] = pg],
         pg \in CatalogPages => PageHolds(pg)
  PROVE  CatalogInv'
  <1>1. /\ DOMAIN pagina = Sessions
        /\ pagina'[s] = pg
        /\ \A v \in Sessions \ {s} : pagina'[v] = pagina[v]
    BY DEF CatalogInv, TypeOK
  <1>2. ASSUME NEW q, PageHolds(q) PROVE PageHolds(q)'
    <2>1. ASSUME NEW f
          PROVE  /\ CountedGames(f)' = CountedGames(f)
                 /\ ListedGames(f)' = ListedGames(f)
                 /\ \A l : LinkHolds(f, l)' <=> LinkHolds(f, l)
      <3>1. Matching(f)' = Matching(f) /\ UNCHANGED <<prodotti, immagini>>
        BY DEF Matching, Ids, tables
      <3> QED
        BY <3>1 DEF CountedGames, ListedGames, NamesOf, LinkHolds
    <2> QED
      BY <1>2, <2>1 DEF PageHolds
  <1>3. ASSUME NEW v \in Sessions, v \in Catalogs'
        PROVE  PageHolds(pagina[v])'
    <2>1. PICK q : q = pagina'[v]
      OBVIOUS
    <2>2. q \in AnyPage /\ q.kind \in {"counted", "listed"}
      BY <1>3, <2>1 DEF TypeOK, AnyPage, Catalogs
    <2>3. q \in CatalogPages
      BY <2>2 DEF AnyPage, CatalogPages, ProductPages, ProfilePages, NoPage
    <2>4. PageHolds(q)
      <3>1. CASE v = s
        BY <1>1, <2>1, <2>3, <3>1
      <3>2. CASE v # s
        <4>1. q = pagina[v] /\ v \in Catalogs
          BY <1>1, <2>1, <2>2, <3>2 DEF Catalogs
        <4> QED
          BY <4>1 DEF CatalogInv
      <3> QED
        BY <3>1, <3>2
    <2> QED
      BY <1>2, <2>1, <2>4, PageNamed
  <1> QED
    BY <1>3 DEF CatalogInv, Catalogs

(* A page that has just been counted: its number is 1, or comes from the   *)
(* links of a page whose games are still there.                            *)
LEMMA CountKeepsPages ==
  ASSUME CatalogInv, NEW s \in Sessions, NEW f \in Filters, NEW k \in Nat \ {0},
         Count(s, f, k),
         k <= TotalPages(Cardinality(CountedGames(f)))
  PROVE  CatalogInv'
  <1> DEFINE t == Cardinality(CountedGames(f))
             pg == [kind |-> "counted", filtro |-> f, numero |-> k, totale |-> t,
                    giochi |-> {}, fresh |-> TRUE]
  <1>1. TypeOK'
    BY CountTyped DEF CatalogInv
  <1>2. pagina' = [pagina EXCEPT ![s] = pg] /\ UNCHANGED tables
    BY DEF Count
  <1>3. t <= Cardinality(CountedGames(NoFilter))
    BY FilterLeavesOut DEF CatalogInv
  <1>4. t = Cardinality(CountedGames(f)) /\ k <= TotalPages(t)
    OBVIOUS
  <1> HIDE DEF t
  <1>5. PageHolds(pg)
    BY <1>3, <1>4 DEF PageHolds
  <1> QED
    BY <1>1, <1>2, <1>5, PageKeepsPages

(* Every step keeps what the pages promise.                                *)
LEMMA CatalogNext == CatalogInv /\ [Next]_vars => CatalogInv'
  <1> SUFFICES ASSUME CatalogInv, [Next]_vars PROVE CatalogInv'
    OBVIOUS
  <1>1. TypeOK
    BY DEF CatalogInv
  <1>2. ASSUME UNCHANGED <<tables, pagina>>, TypeOK' PROVE CatalogInv'
    <2>1. Catalogs' = Catalogs
      BY <1>2 DEF Catalogs
    <2>2. ASSUME NEW s \in Catalogs
          PROVE  PageHolds(pagina[s])'
      <3>1. PICK q : q = pagina[s]
        OBVIOUS
      <3>2. PageHolds(q) /\ q = pagina'[s]
        BY <1>2, <3>1 DEF CatalogInv
      <3>3. ASSUME NEW f
            PROVE  /\ CountedGames(f)' = CountedGames(f)
                   /\ ListedGames(f)' = ListedGames(f)
                   /\ \A l : LinkHolds(f, l)' <=> LinkHolds(f, l)
        <4>1. Matching(f)' = Matching(f) /\ UNCHANGED <<prodotti, immagini>>
          BY <1>2 DEF Matching, Ids, tables
        <4> QED
          BY <4>1 DEF CountedGames, ListedGames, NamesOf, LinkHolds
      <3>4. PageHolds(q)'
        BY <3>2, <3>3 DEF PageHolds
      <3> QED
        BY <3>2, <3>4, PageNamed
    <2> QED
      BY <1>2, <2>1, <2>2 DEF CatalogInv
  <1>3. ASSUME NEW a \in Admins, NEW n \in Names, NEW boxes \in SUBSET Platforms,
               Submit(a, n, boxes)
        PROVE  CatalogInv'
    BY <1>1, <1>2, <1>3, FormTyped DEF Submit
  <1>4. ASSUME NEW r \in admin, InsertProduct(r)
        PROVE  CatalogInv'
    BY <1>1, <1>4, FormTyped, GrowKeepsPages
  <1>5. ASSUME NEW r \in admin, EndSubmit(r) \/ SubmitDies(r)
        PROVE  CatalogInv'
    <2>1. UNCHANGED <<tables, pagina>>
      BY <1>5 DEF EndSubmit, SubmitDies
    <2>2. TypeOK'
      BY <1>1, <1>5, FormTyped
    <2> QED
      BY <1>2, <2>1, <2>2
  <1>6. ASSUME NEW p \in Ids, AddImages(p) \/ \E c \in Categories : Classify(p, c)
        PROVE  CatalogInv'
    <2>1. TypeOK'
      BY <1>1, <1>6, PicturesTyped
    <2> QED
      BY <1>6, <2>1, GrowKeepsPages
  <1>7. ASSUME NEW s \in Sessions, FollowMenu(s)
        PROVE  CatalogInv'
    <2>1. PICK f \in Filters : Count(s, f, 1)
      BY <1>1, <1>7, LinksAsk
    <2>2. Cardinality(CountedGames(f)) \in Nat
      BY <1>1, FilterLeavesOut
    <2>3. 1 <= TotalPages(Cardinality(CountedGames(f)))
      BY <2>2, PagesReach
    <2> QED
      BY <2>1, <2>3, CountKeepsPages
  <1>8. ASSUME NEW s \in Sessions, FollowPage(s)
        PROVE  CatalogInv'
    <2>1. PICK k \in Nat \ {0} :
            /\ s \in Listings /\ pagina[s] \in CatalogPages
            /\ k \in PageLinks(pagina[s])
            /\ Count(s, NoFilter, k)
      BY <1>1, <1>8, LinksAsk
    <2>2. PICK pg : pg = pagina[s]
      OBVIOUS
    <2>3. /\ pg.numero \in Nat /\ pg.totale \in Nat /\ PageHolds(pg)
      BY <1>1, <2>1, <2>2, CatalogsShape DEF CatalogInv, CatalogPages
    <2>4. k <= TotalPages(pg.totale) /\ TotalPages(pg.totale) \in Nat
      BY <2>1, <2>2, <2>3, PagesReach DEF PageHolds, PageLinks
    <2> DEFINE t == Cardinality(CountedGames(NoFilter))
    <2>5. t \in Nat /\ pg.totale <= t
      BY <1>1, <2>3, FilterLeavesOut DEF PageHolds
    <2> HIDE DEF t
    <2>6. TotalPages(pg.totale) <= TotalPages(t) /\ TotalPages(t) \in Nat
      BY <2>3, <2>5, PagesGrow, PagesReach
    <2>7. k <= TotalPages(t)
      BY <2>4, <2>6
    <2>8. NoFilter \in Filters
      BY <1>1, LinksAsk
    <2> QED
      BY <2>1, <2>7, <2>8, CountKeepsPages DEF t
  <1>9. ASSUME NEW s \in Sessions, List(s)
        PROVE  CatalogInv'
    <2>1. /\ TypeOK' /\ pagina[s] \in CatalogPages /\ UNCHANGED tables
      BY <1>1, <1>9, ListShape DEF List
    <2>2. PICK giochi \in SUBSET Links :
            /\ pagina' = [pagina EXCEPT ![s] =
                 [pagina[s] EXCEPT !.kind = "listed", !.giochi = giochi]]
            /\ \A l \in giochi : LinkHolds(pagina[s].filtro, l)
            /\ giochi = {} =>
                 Cardinality(ListedGames(pagina[s].filtro))
                   <= Offset(pagina[s].numero)
            /\ /\ pagina[s].numero = 1
               /\ Cardinality(ListedGames(pagina[s].filtro)) <= PerPage
               => ListsAll(giochi, ListedGames(pagina[s].filtro))
      BY <1>1, <1>9, ListShape
    <2>3. PICK pg : pg = pagina[s]
      OBVIOUS
    <2>4. PageHolds(pg) /\ pg \in CatalogPages
      BY <1>1, <2>1, <2>3, CatalogsShape DEF CatalogInv
    <2> DEFINE qg == [pg EXCEPT !.kind = "listed", !.giochi = giochi]
    <2>5. /\ qg.numero = pg.numero /\ qg.totale = pg.totale
          /\ qg.filtro = pg.filtro /\ qg.fresh = pg.fresh /\ qg.giochi = giochi
      BY <2>4 DEF CatalogPages
    <2>6. pagina' = [pagina EXCEPT ![s] = qg]
      BY <2>2, <2>3
    <2> HIDE DEF qg
    <2>7. /\ \A l \in giochi : LinkHolds(pg.filtro, l)
          /\ giochi = {} =>
               Cardinality(ListedGames(pg.filtro)) <= Offset(pg.numero)
          /\ pg.numero = 1 /\ Cardinality(ListedGames(pg.filtro)) <= PerPage
             => ListsAll(giochi, ListedGames(pg.filtro))
      BY <2>2, <2>3
    <2>8. PageHolds(qg)
      BY <2>4, <2>5, <2>7 DEF PageHolds
    <2> QED
      BY <2>1, <2>6, <2>8, PageKeepsPages
  <1>10. ASSUME NEW s \in Sessions,
                ShowProfile(s) \/ RecordVisit(s) \/ \E p \in Ids : ReadHistory(s, p)
         PROVE  CatalogInv'
    <2>1. TypeOK' /\ UNCHANGED tables
      BY <1>1, <1>10, ProfileTyped
    <2>2. PICK pg : /\ pg \in ProductPages \cup ProfilePages
                    /\ pagina' = [pagina EXCEPT ![s] = pg]
      BY <1>1, <1>10, ProfileTyped
    <2>3. pg \notin CatalogPages
      BY <2>2 DEF CatalogPages, ProductPages, ProfilePages
    <2> QED
      BY <2>1, <2>2, <2>3, PageKeepsPages
  <1>11. CASE UNCHANGED vars
    BY <1>1, <1>2, <1>11 DEF vars, TypeOK, Ids, tables
  <1>12. CASE Administer
    BY <1>3, <1>4, <1>5, <1>6, <1>12 DEF Administer
  <1>13. CASE \E s \in Sessions : Browse(s)
    BY <1>7, <1>8, <1>9, <1>10, <1>13 DEF Browse
  <1> QED
    BY <1>11, <1>12, <1>13 DEF Next

(* An empty shop without pages.                                            *)
LEMMA CatalogInit == Init => CatalogInv
  <1> SUFFICES ASSUME Init PROVE CatalogInv
    OBVIOUS
  <1>1. TypeOK
    BY CatalogAssumption DEF Init, TypeOK, Ids
  <1>2. Catalogs = {}
    BY DEF Init, Catalogs, NoPage
  <1> QED
    BY <1>1, <1>2 DEF CatalogInv

(* The types of Catalog, for shops of any size.                            *)
THEOREM CatalogTypes == Spec => []TypeOK
  <1>1. CatalogInv => TypeOK
    BY DEF CatalogInv
  <1> QED
    BY CatalogInit, CatalogNext, <1>1, PTL DEF Spec

(* catalogo.php: whoever follows menus and page links never asks for a     *)
(* page beyond the last one, whatever is added to the shop meanwhile, and  *)
(* a page without games means that none matches or a picture is missing.   *)
THEOREM LinksInRange == Spec => []LinksStayInRange
  <1>1. ASSUME CatalogInv, NEW s \in Catalogs
        PROVE  /\ pagina[s].numero <= TotalPages(pagina[s].totale)
               /\ s \in Listings /\ pagina[s].fresh /\ pagina[s].giochi = {} =>
                    \/ pagina[s].totale = 0
                    \/ ListedGames(pagina[s].filtro) # CountedGames(pagina[s].filtro)
    <2>1. PICK pg : pg = pagina[s]
      OBVIOUS
    <2>2. pg \in CatalogPages /\ PageHolds(pg)
      BY <1>1, <2>1, CatalogsShape DEF CatalogInv, Catalogs
    <2>3. pg.numero \in Nat /\ pg.totale \in Nat
      BY <2>2 DEF CatalogPages
    <2>4. ASSUME s \in Listings, pg.fresh, pg.giochi = {}, pg.totale # 0,
                 ListedGames(pg.filtro) = CountedGames(pg.filtro)
          PROVE  FALSE
      <3> DEFINE a == pg.numero - 1
                 b == TotalPages(pg.totale) - 1
      <3>1. pg.totale <= (pg.numero - 1) * PerPage
        BY <2>1, <2>2, <2>4 DEF PageHolds, Listings, Offset
      <3>2. /\ TotalPages(pg.totale) \in Nat
            /\ (TotalPages(pg.totale) - 1) * PerPage < pg.totale
        BY <2>3, <2>4, PagesReach
      <3>3. a \in Int /\ b \in Int /\ a <= b
        BY <2>2, <2>3, <3>2 DEF PageHolds
      <3>4. pg.totale <= a * PerPage /\ b * PerPage < pg.totale
        BY <3>1, <3>2
      <3> HIDE DEF a, b
      <3>5. a * PerPage <= b * PerPage
        BY <3>3, CatalogAssumption
      <3> QED
        BY <2>3, <3>3, <3>4, <3>5, CatalogAssumption
    <2> QED
      BY <2>1, <2>2, <2>4 DEF PageHolds
  <1>2. CatalogInv => LinksStayInRange
    BY <1>1 DEF LinksStayInRange
  <1> QED
    BY CatalogInit, CatalogNext, <1>2, PTL DEF Spec

(* catalogo.php: MIN(productId) and the platform of another row of the     *)
(* group still make a link to the game that it names.                      *)
THEOREM LinksLeadToTheirGame == Spec => []LinksNameTheirGame
  <1>1. ASSUME CatalogInv, NEW s \in Catalogs, NEW l \in pagina[s].giochi
        PROVE  /\ l.productId \in Matching(pagina[s].filtro)
               /\ prodotti[l.productId].nome = l.nome
               /\ \E q \in Ids : prodotti[q] = [nome |-> l.nome,
                                               piattaforma |-> l.piattaforma]
               /\ pagina[s].filtro.piattaforma # Unset =>
                    prodotti[l.productId].piattaforma = l.piattaforma
    <2>1. PICK f : f = pagina[s].filtro
      OBVIOUS
    <2>2. LinkHolds(f, l)
      BY <1>1, <2>1 DEF CatalogInv, PageHolds
    <2>3. PICK q \in Matching(f) :
            prodotti[q] = [nome |-> l.nome, piattaforma |-> l.piattaforma]
      BY <2>2 DEF LinkHolds
    <2>4. q \in Ids /\ prodotti[q].piattaforma = l.piattaforma
      BY <2>3 DEF Matching
    <2>5. ASSUME f.piattaforma # Unset
          PROVE  prodotti[l.productId].piattaforma = l.piattaforma
      <3>1. /\ f.piattaforma = prodotti[q].piattaforma
            /\ f.piattaforma = prodotti[l.productId].piattaforma
        BY <2>2, <2>3, <2>5 DEF LinkHolds, Matching
      <3> QED
        BY <2>4, <3>1
    <2> QED
      BY <2>1, <2>2, <2>3, <2>4, <2>5 DEF LinkHolds
  <1>2. CatalogInv => LinksNameTheirGame
    BY <1>1 DEF LinksNameTheirGame
  <1> QED
    BY CatalogInit, CatalogNext, <1>2, PTL DEF Spec

(* catalogo.php: the page numbers come from a query that also counts games *)
(* without a picture, so they reach every game that can be listed; and one *)
(* page lists all of them, once each.                                      *)
THEOREM GamesHaveAPage == Spec => []EveryGameHasAPage
  <1>1. ASSUME CatalogInv, NEW s \in Listings, pagina[s].fresh
        PROVE  /\ Cardinality(ListedGames(pagina[s].filtro))
                    <= TotalPages(pagina[s].totale) * PerPage
               /\ pagina[s].numero = 1 /\ TotalPages(pagina[s].totale) = 1 =>
                    ListsAll(pagina[s].giochi, ListedGames(pagina[s].filtro))
    <2>1. PICK pg : pg = pagina[s]
      OBVIOUS
    <2>2. pg \in CatalogPages /\ PageHolds(pg) /\ pg.kind = "listed" /\ pg.fresh
      BY <1>1, <2>1, CatalogsShape DEF CatalogInv, Listings
    <2> DEFINE f == pg.filtro
               n == Cardinality(ListedGames(f))
    <2>3. n \in Nat /\ pg.totale \in Nat /\ n <= pg.totale
      <3>1. /\ prodotti \in Seq(ProductRows)
            /\ Matching(f) \subseteq Ids /\ Matching(f) \cap immagini \subseteq Ids
        BY <1>1 DEF CatalogInv, TypeOK, ProductRows, Matching
      <3>2. /\ IsFiniteSet(CountedGames(f)) /\ n \in Nat
            /\ Cardinality(CountedGames(f)) \in Nat
        BY <3>1, NamesFinite DEF CountedGames, ListedGames
      <3>3. ListedGames(f) \subseteq CountedGames(f)
        BY DEF ListedGames, CountedGames, NamesOf
      <3>4. n <= Cardinality(CountedGames(f))
        BY <3>2, <3>3, FS_Subset
      <3>5. pg.totale = Cardinality(CountedGames(f))
        BY <2>2 DEF PageHolds
      <3> QED
        BY <3>2, <3>4, <3>5
    <2> DEFINE reach == TotalPages(pg.totale) * PerPage
    <2>4. TotalPages(pg.totale) \in Nat /\ pg.totale <= reach /\ PerPage \in Nat
      BY <2>3, PagesReach, CatalogAssumption
    <2>5. n <= reach
      <3>1. reach \in Nat
        BY <2>4
      <3> HIDE DEF reach, n
      <3> QED
        BY <2>3, <2>4, <3>1
    <2>6. ASSUME pg.numero = 1, TotalPages(pg.totale) = 1
          PROVE  ListsAll(pg.giochi, ListedGames(f))
      <3>1. n <= PerPage
        BY <2>4, <2>5, <2>6
      <3> QED
        BY <2>2, <2>6, <3>1 DEF PageHolds
    <2> QED
      BY <2>1, <2>5, <2>6
  <1>2. CatalogInv => EveryGameHasAPage
    BY <1>1 DEF EveryGameHasAPage, ListsAll
  <1> QED
    BY CatalogInit, CatalogNext, <1>2, PTL DEF Spec

-----------------------------------------------------------------------------
(* What is suggested to a user on a profile page, which stays true while   *)
(* visits and categories become more.                                      *)
RelatedTo(u, p) ==
  \E v \in Viewed(u), c \in Categories :
    <<p, c>> \in appartenenze /\ <<v, c>> \in appartenenze

ProfileHolds(u, pg) ==
  /\ \A p \in pg.giochi : RelatedTo(u, p)
  /\ pg.due => pg.giochi # {}

(* The best k of a set that is not empty are not nobody.                   *)
LEMMA BestIsSome ==
  ASSUME NEW S, IsFiniteSet(S), S # {}, NEW k \in Nat \ {0}, NEW w,
         NEW T \in Best(S, k, w)
  PROVE  T \subseteq S /\ T # {}
  <1> DEFINE n == Cardinality(S)
             m == Min({k, n})
  <1>1. n \in Nat /\ n # 0
    BY FS_CardinalityType, FS_EmptySet
  <1>2. m \in {k, n}
    <2>1. \E x \in {k, n} : \A y \in {k, n} : x <= y
      BY <1>1
    <2> QED
      BY <2>1 DEF Min
  <1>3. T \subseteq S /\ Cardinality(T) = m
    BY DEF Best, kSubset
  <1> HIDE DEF m, n
  <1>4. Cardinality(T) # 0
    BY <1>1, <1>2, <1>3
  <1> QED
    BY <1>3, <1>4, FS_EmptySet

(* get_suggested_products.php                                              *)
LEMMA SuggestionsHold ==
  ASSUME TypeOK, NEW s \in Sessions, ShowProfile(s)
  PROVE  \E pg : pagina' = [pagina EXCEPT ![s] = pg] /\ ProfileHolds(UserOf[s], pg)
  <1> DEFINE due == ViewedCategories(UserOf[s]) # {}
  <1>1. PICK top \in Best(ViewedCategories(UserOf[s]), TopCategories,
                         [c \in Categories |-> ViewCount(UserOf[s], c)]) :
          \E games \in Best(Candidates(top), Suggestions,
                            [p \in Ids |-> InTop(p, top)]) :
            pagina' = [pagina EXCEPT ![s] =
              [kind |-> "profile", giochi |-> games, due |-> due]]
    BY Zenon DEF ShowProfile
  <1>2. PICK games \in Best(Candidates(top), Suggestions,
                           [p \in Ids |-> InTop(p, top)]) :
          pagina' = [pagina EXCEPT ![s] =
            [kind |-> "profile", giochi |-> games, due |-> due]]
    BY <1>1
  <1>3. top \subseteq ViewedCategories(UserOf[s]) /\ games \subseteq Candidates(top)
    BY <1>1, <1>2 DEF Best, kSubset
  <1>4. \A p \in games : RelatedTo(UserOf[s], p)
    BY <1>3 DEF Candidates, ViewedCategories, RelatedTo
  <1>5. ASSUME due PROVE games # {}
    <2>1. IsFiniteSet(ViewedCategories(UserOf[s]))
      BY CatalogAssumption, FS_Subset DEF ViewedCategories
    <2>2. TopCategories \in Nat \ {0} /\ Suggestions \in Nat \ {0}
      BY CatalogAssumption
    <2>3. top # {}
      BY <1>1, <1>5, <2>1, <2>2, BestIsSome
    <2>4. PICK c \in top : \E v \in Viewed(UserOf[s]) : <<v, c>> \in appartenenze
      BY <1>3, <2>3 DEF ViewedCategories
    <2>5. Candidates(top) # {}
      BY <2>4 DEF Candidates, TypeOK
    <2>6. IsFiniteSet(Candidates(top))
      <3>1. prodotti \in Seq(ProductRows)
        BY DEF TypeOK, ProductRows
      <3>2. IsFiniteSet(Ids)
        BY <3>1, FS_Interval DEF Ids
      <3> QED
        BY <3>2, FS_Subset DEF Candidates
    <2> QED
      BY <1>2, <2>2, <2>5, <2>6, BestIsSome
  <1> DEFINE pg == [kind |-> "profile", giochi |-> games, due |-> due]
  <1>6. ProfileHolds(UserOf[s], pg)
    BY <1>4, <1>5 DEF ProfileHolds
  <1> QED
    BY <1>2, <1>6

(* Visits and categories only become more, and a step shows a session the  *)
(* profile or the page of a product, or leaves such a page as it is.       *)
LEMMA VisitsGrow ==
  ASSUME CatalogInv, CatalogInv', [Next]_vars
  PROVE  /\ \A u \in Users, p \in AllIds :
              /\ interazioni[u][p] \in Nat /\ interazioni'[u][p] \in Nat
              /\ interazioni'[u][p] >= interazioni[u][p]
         /\ appartenenze \subseteq appartenenze'
  <1>1. TypeOK /\ TypeOK'
    BY DEF CatalogInv
  <1>2. appartenenze \subseteq appartenenze'
    BY DEF Next, Administer, Browse, Submit, InsertProduct, EndSubmit,
           SubmitDies, AddImages, Classify, FollowMenu, FollowPage, Count, List,
           ShowProfile, ReadHistory, RecordVisit, tables, vars
  <1>3. /\ interazioni \in [Users -> [AllIds -> Nat]]
        /\ interazioni' \in [Users -> [AllIds -> Nat]]
    BY <1>1 DEF TypeOK
  <1>4. ASSUME NEW u \in Users, NEW p \in AllIds
        PROVE  interazioni'[u][p] >= interazioni[u][p]
    <2>1. CASE UNCHANGED interazioni
      BY <1>3, <2>1
    <2>2. ASSUME NEW s \in Sessions, RecordVisit(s)
          PROVE  interazioni'[u][p] >= interazioni[u][p]
      <3>1. PICK pg \in ProductPages :
              interazioni'[u][p] = interazioni[u][p] +
                IF u = UserOf[s] /\ p = pg.productId THEN 1 ELSE 0
        BY <1>1, <2>2, VisitShape
      <3> QED
        BY <1>3, <3>1
    <2> QED
      BY <2>1, <2>2
         DEF Next, Administer, Browse, Submit, InsertProduct, EndSubmit,
             SubmitDies, AddImages, Classify, FollowMenu, FollowPage, Count,
             List, ShowProfile, ReadHistory, vars
  <1> QED
    BY <1>2, <1>3, <1>4

OwnPages == {"profile", "opened", "product"}

LEMMA OwnPagesStay ==
  ASSUME CatalogInv, CatalogInv', Next, NEW s \in Sessions
  PROVE  \/ ShowProfile(s) \/ RecordVisit(s) \/ \E p \in Ids : ReadHistory(s, p)
         \/ pagina'[s].kind \in OwnPages => pagina'[s] = pagina[s]
  <1>1. TypeOK /\ TypeOK' /\ pagina \in [Sessions -> AnyPage]
    BY DEF CatalogInv, TypeOK, AnyPage
  <1>2. CASE Age
    <2>1. CASE s \in Catalogs
      <3>1. pagina[s] \in CatalogPages
        BY <1>1, <2>1, CatalogsShape
      <3>2. [pagina[s] EXCEPT !.fresh = FALSE].kind \notin OwnPages
        BY <3>1 DEF CatalogPages, OwnPages
      <3> QED
        BY <1>1, <1>2, <2>1, <3>2, AgeShape
    <2>2. CASE s \notin Catalogs
      BY <1>1, <1>2, <2>2, AgeShape
    <2> QED
      BY <2>1, <2>2
  <1>3. ASSUME NEW v \in Sessions, NEW f, NEW k, Count(v, f, k)
        PROVE  pagina'[s].kind \in OwnPages => pagina'[s] = pagina[s]
    BY <1>1, <1>3 DEF Count, OwnPages
  <1>4. ASSUME NEW v \in Sessions, List(v)
        PROVE  pagina'[s].kind \in OwnPages => pagina'[s] = pagina[s]
    <2>1. PICK giochi \in SUBSET Links :
            pagina' = [pagina EXCEPT ![v] =
              [pagina[v] EXCEPT !.kind = "listed", !.giochi = giochi]]
      BY <1>1, <1>4, ListShape
    <2>2. pagina[v] \in CatalogPages
      BY <1>1, <1>4, ListShape
    <2>3. [pagina[v] EXCEPT !.kind = "listed", !.giochi = giochi].kind = "listed"
      BY <2>2 DEF CatalogPages
    <2> QED
      BY <1>1, <2>1, <2>3 DEF OwnPages
  <1>5. ASSUME NEW v \in Sessions, v # s,
               ShowProfile(v) \/ RecordVisit(v) \/ \E p \in Ids : ReadHistory(v, p)
        PROVE  pagina'[s] = pagina[s]
    <2>1. PICK pg : pagina' = [pagina EXCEPT ![v] = pg]
      BY <1>1, <1>5, ProfileTyped
    <2> QED
      BY <1>1, <1>5, <2>1
  <1>6. CASE UNCHANGED pagina
    BY <1>6
  <1> QED
    BY <1>2, <1>3, <1>4, <1>5, <1>6
       DEF Next, Administer, Browse, Submit, InsertProduct, EndSubmit,
           SubmitDies, AddImages, Classify, FollowMenu, FollowPage

(* get_suggested_products.php: games suggested share a category with one   *)
(* that was looked at, and whoever looked at a game with a category gets   *)
(* suggestions.                                                            *)
THEOREM SuggestionsAreRelated == Spec => []SuggestedAreRelated
  <1> DEFINE Related ==
        \A s \in Sessions :
          pagina[s].kind = "profile" => ProfileHolds(UserOf[s], pagina[s])
  <1>1. Init => Related
    BY DEF Init, NoPage
  <1>2. CatalogInv /\ CatalogInv' /\ Related /\ [Next]_vars => Related'
    <2> SUFFICES ASSUME CatalogInv, CatalogInv', Related, [Next]_vars,
                        NEW s \in Sessions, pagina'[s].kind = "profile"
                 PROVE  ProfileHolds(UserOf[s], pagina[s])'
      OBVIOUS
    <2>1. PICK q : q = pagina'[s]
      OBVIOUS
    <2>2. UserOf[s] \in Users
      BY CatalogAssumption
    <2>3. \A p : RelatedTo(UserOf[s], p) => RelatedTo(UserOf[s], p)'
      <3>1. Viewed(UserOf[s]) \subseteq Viewed(UserOf[s])'
        BY <2>2, VisitsGrow DEF Viewed, AllIds
      <3> QED
        BY <3>1, VisitsGrow DEF RelatedTo
    <2>4. ProfileHolds(UserOf[s], q)
      <3>1. TypeOK /\ DOMAIN pagina = Sessions
        BY DEF CatalogInv, TypeOK
      <3>2. CASE ShowProfile(s)
        <4>1. PICK pg : /\ pagina' = [pagina EXCEPT ![s] = pg]
                        /\ ProfileHolds(UserOf[s], pg)
          BY <3>1, <3>2, SuggestionsHold
        <4>2. q = pg
          BY <2>1, <3>1, <4>1
        <4> QED
          BY <4>1, <4>2
      <3>3. CASE RecordVisit(s)
        BY <3>1, <3>3, VisitShape
      <3>4. ASSUME NEW p, ReadHistory(s, p) PROVE FALSE
        BY <3>1, <3>4 DEF ReadHistory
      <3>5. CASE pagina'[s] = pagina[s]
        BY <2>1, <3>5
      <3>6. CASE UNCHANGED vars
        BY <3>5, <3>6 DEF vars
      <3> QED
        BY <3>2, <3>3, <3>4, <3>5, <3>6, OwnPagesStay DEF OwnPages
    <2>5. ProfileHolds(UserOf[s], q)'
      BY <2>3, <2>4 DEF ProfileHolds
    <2> QED
      BY <2>1, <2>5 DEF ProfileHolds, RelatedTo, Viewed
  <1>3. Related => SuggestedAreRelated
    BY DEF ProfileHolds, RelatedTo, SuggestedAreRelated
  <1> QED
    BY CatalogInit, CatalogNext, <1>1, <1>2, <1>3, PTL DEF Spec

-----------------------------------------------------------------------------
(* FirstVisitIsNotHistory, with what holds before the visit is recorded.   *)
History ==
  \A s \in Sessions : \A p \in AllIds :
    /\ pagina[s].kind \in {"opened", "product"}
    /\ p = pagina[s].productId /\ p \in pagina[s].visti
    => interazioni[UserOf[s]][p] >= IF pagina[s].kind = "product" THEN 2 ELSE 1

(* A page is opened with products that had been visited, and its own visit *)
(* comes on top; visits of other sessions only add to them.                *)
LEMMA HistoryNext ==
  CatalogInv /\ CatalogInv' /\ History /\ [Next]_vars => History'
  <1> SUFFICES ASSUME CatalogInv, CatalogInv', History, [Next]_vars,
                      NEW s \in Sessions, NEW p \in AllIds,
                      pagina'[s].kind \in {"opened", "product"},
                      p = pagina'[s].productId, p \in pagina'[s].visti
               PROVE  interazioni'[UserOf[s]][p]
                        >= IF pagina'[s].kind = "product" THEN 2 ELSE 1
    BY DEF History
  <1> DEFINE w == UserOf[s]
  <1>1. /\ w \in Users
        /\ interazioni[w][p] \in Nat /\ interazioni'[w][p] \in Nat
        /\ interazioni'[w][p] >= interazioni[w][p]
    BY CatalogAssumption, VisitsGrow
  <1>2. TypeOK /\ DOMAIN pagina = Sessions
    BY DEF CatalogInv, TypeOK
  <1>3. CASE ShowProfile(s)
    BY <1>2, <1>3 DEF ShowProfile
  <1>4. CASE RecordVisit(s)
    <2>1. PICK pg \in ProductPages :
            /\ pagina[s].kind = "opened"
            /\ pg.productId = pagina[s].productId /\ pg.visti = pagina[s].visti
            /\ pagina' = [pagina EXCEPT ![s] = pg]
            /\ \A v \in Users, q \in AllIds :
                 interazioni'[v][q] = interazioni[v][q] +
                   IF v = UserOf[s] /\ q = pg.productId THEN 1 ELSE 0
      BY <1>2, <1>4, VisitShape
    <2>2. pagina'[s] = pg
      BY <1>2, <2>1
    <2>3. interazioni[w][p] >= 1
      BY <2>1, <2>2 DEF History
    <2>4. interazioni'[w][p] = interazioni[w][p] + 1
      BY <1>1, <2>1, <2>2
    <2> QED
      BY <1>1, <2>3, <2>4
  <1>5. ASSUME NEW r \in Ids, ReadHistory(s, r)
        PROVE  interazioni'[w][p] >= IF pagina'[s].kind = "product" THEN 2 ELSE 1
    <2>1. PICK visti \in SUBSET (Viewed(w) \cap immagini) :
            pagina' = [pagina EXCEPT ![s] =
              [kind |-> "opened", productId |-> r, visti |-> visti]]
      BY <1>5 DEF ReadHistory
    <2>2. pagina'[s].kind = "opened" /\ pagina'[s].visti = visti
      BY <1>2, <2>1
    <2>3. interazioni[w][p] > 0
      BY <2>1, <2>2 DEF Viewed
    <2> QED
      BY <1>1, <2>2, <2>3
  <1>6. CASE pagina'[s] = pagina[s]
    BY <1>1, <1>6 DEF History
  <1>7. CASE UNCHANGED vars
    BY <1>6, <1>7 DEF vars
  <1> QED
    BY <1>3, <1>4, <1>5, <1>6, <1>7, OwnPagesStay DEF OwnPages

(* mostra-prodotti.php reads the history before it records the visit: a    *)
(* product is not among the games seen before on its own first page, in    *)
(* whatever browsers its user has it open.                                 *)
THEOREM FirstVisits == Spec => []FirstVisitIsNotHistory
  <1>1. Init => History
    BY DEF Init, NoPage, History
  <1>2. CatalogInv /\ History => FirstVisitIsNotHistory
    <2> SUFFICES ASSUME CatalogInv, History, NEW s \in Sessions,
                        pagina[s].kind = "product",
                        pagina[s].productId \in pagina[s].visti
                 PROVE  interazioni[UserOf[s]][pagina[s].productId] > 1
      BY DEF FirstVisitIsNotHistory
    <2>1. pagina[s] \in ProductPages
      <3>1. pagina[s] \in AnyPage
        BY DEF CatalogInv, TypeOK, AnyPage
      <3> QED
        BY <3>1 DEF AnyPage, CatalogPages, ProfilePages, NoPage
    <2>2. /\ pagina[s].productId \in AllIds
          /\ interazioni[UserOf[s]][pagina[s].productId] \in Nat
      BY <2>1, CatalogAssumption DEF CatalogInv, TypeOK, ProductPages
    <2> QED
      BY <2>2 DEF History
  <1> QED
    BY CatalogInit, CatalogNext, <1>1, HistoryNext, <1>2, PTL DEF Spec

=============================================================================
