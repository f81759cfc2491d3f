------------------------------- MODULE Catalog -------------------------------
(***************************************************************************)
(* The products of the shop as visitors find them: catalogo.php, the       *)
(* product pages and the suggestions of a user, while the administrator    *)
(* adds products and pictures (add_prodotto.php, add_img.php).             *)
(*                                                                         *)
(* Nothing here is a transaction: a form of add_prodotto.php is one INSERT *)
(* per platform, and a page of the catalogue is a count and then a list.   *)
(* The columns outside GROUP BY are taken from any row of the group        *)
(* (sql_mode without ONLY_FULL_GROUP_BY, or every query here would fail).  *)
(***************************************************************************)
EXTENDS Integers, Sequences, FiniteSets, FiniteSetsExt, Functions

CONSTANTS
  Sessions,       \* PHP sessions that are logged in
  Users,          \* rows of utenti
  UserOf,         \* $_SESSION['userId'] of each session
  Admins,         \* PHP sessions that post to add_prodotto.php
  Names,          \* prodotti.nome
  Platforms,      \* the checkboxes of add_prodotto.php, in their order
  Categories,     \* rows of categorie
  Unset,          \* a filter that is not set
  PerPage,        \* $giochiPerPagina, 20 in the code
  TopCategories,  \* LIMIT of top_categories, 3 in the code
  Suggestions,    \* LIMIT of the suggestions and of the history, 5 in the code
  MaxProducts,    \* bound: rows of prodotti
  MaxBoxes,       \* bound: platforms checked in all forms together
  MaxVisits       \* bound: visits of one user to product pages

ASSUME CatalogAssumption ==
  /\ UserOf \in [Sessions -> Users]
  /\ Platforms \subseteq Nat
  /\ IsFiniteSet(Platforms)
  /\ IsFiniteSet(Categories)
  /\ Unset \notin Platforms \cup Categories
  /\ PerPage \in Nat \ {0}
  /\ TopCategories \in Nat \ {0}
  /\ Suggestions \in Nat \ {0}
  /\ MaxProducts \in Nat
  /\ MaxBoxes \in Nat
  /\ MaxVisits \in Nat

VARIABLES
  prodotti,      \* prodotti: the rows 1 .. n by productId
  immagini,      \* products with a row in immagini
  appartenenze,  \* appartenenze: <<productId, categoryId>>
  interazioni,   \* interazioni with tipologia 'visualizzato', counted
  admin,         \* the requests of add_prodotto.php that run
  pagina,        \* the page in the browser of each session
  submitted,     \* history: submissions of each name and platform
  completed      \* history: those whose request came to its end

tables == <<prodotti, immagini, appartenenze>>
vars == <<tables, interazioni, admin, pagina, submitted, completed>>

Ids == DOMAIN prodotti
AllIds == 1 .. MaxProducts
Games == Names \X Platforms

Filters == [categoria : Categories \cup {Unset}, piattaforma : Platforms \cup {Unset}]
NoFilter == [categoria |-> Unset, piattaforma |-> Unset]

Requests == [by : Admins, nome : Names,
             spuntate : SUBSET Platforms, left : SUBSET Platforms]
Links == [productId : AllIds, piattaforma : Platforms, nome : Names]

(* A page of the catalogue after its first and its second query, with      *)
(* "fresh" as history: no table has changed since the first one.           *)
CatalogPages ==
  [kind : {"counted", "listed"}, filtro : Filters, numero : Nat \ {0},
   totale : Nat, giochi : SUBSET Links, fresh : BOOLEAN]

(* The page of a product with the games seen before, without and with the  *)
(* visit recorded.                                                         *)
ProductPages ==
  [kind : {"opened", "product"}, productId : AllIds, visti : SUBSET AllIds]

(* The profile page; "due" is history: some viewed game has a category.    *)
ProfilePages == [kind : {"profile"}, giochi : SUBSET AllIds, due : BOOLEAN]

NoPage == [kind |-> "none"]

Init ==
  /\ prodotti = <<>>
  /\ immagini = {}
  /\ appartenenze = {}
  /\ interazioni = [u \in Users |-> [p \in AllIds |-> 0]]
  /\ admin = {}
  /\ pagina = [s \in Sessions |-> NoPage]
  /\ submitted = [g \in Games |-> 0]
  /\ completed = [g \in Games |-> 0]

Catalogs == {s \in Sessions : pagina[s].kind \in {"counted", "listed"}}
Listings == {s \in Sessions : pagina[s].kind = "listed"}

(* A table has changed: pages that were counted before are out of date.    *)
Age == pagina' = [s \in Sessions |->
  IF s \in Catalogs THEN [pagina[s] EXCEPT !.fresh = FALSE] ELSE pagina[s]]

-----------------------------------------------------------------------------
(* add_prodotto.php asks nobody for a login, so that any session may post: *)
(* its lock admits one request of each at a time.                          *)

Checked(n, boxes) == {<<n, b>> : b \in boxes}

(* A form with a name and at least one platform; others change nothing.    *)
Submit(a, n, boxes) ==
  /\ \A r \in admin : r.by # a
  /\ boxes # {}
  /\ SumFunction(submitted) + Cardinality(boxes) <= MaxBoxes
  /\ admin' = admin \cup
       {[by |-> a, nome |-> n, spuntate |-> boxes, left |-> boxes]}
  /\ submitted' = [g \in Games |->
       submitted[g] + IF g \in Checked(n, boxes) THEN 1 ELSE 0]
  /\ UNCHANGED <<tables, interazioni, pagina, completed>>

(* Mutant of Rest: the loop ends after its first statement.                *)
Rest_None(left, x) == {}

(* The platforms that remain after $piattaforma.                           *)
Rest(left, x) == left \ {x}

(* foreach ($piattaforme as $piattaforma): one INSERT INTO prodotti.       *)
InsertProduct(r) ==
  /\ Len(prodotti) < MaxProducts
  /\ \E x \in r.left :
       /\ \A y \in r.left : x <= y
       /\ prodotti' = Append(prodotti, [nome |-> r.nome, piattaforma |-> x])
       /\ admin' = (admin \ {r}) \cup {[r EXCEPT !.left = Rest(@, x)]}
  /\ Age
  /\ UNCHANGED <<immagini, appartenenze, interazioni, submitted, completed>>

EndSubmit(r) ==
  /\ r.left = {}
  /\ admin' = admin \ {r}
  /\ completed' = [g \in Games |->
       completed[g] + IF g \in Checked(r.nome, r.spuntate) THEN 1 ELSE 0]
  /\ UNCHANGED <<tables, interazioni, pagina, submitted>>

(* A statement throws or the script stops; what was inserted stays.        *)
SubmitDies(r) ==
  /\ r.left # {}
  /\ admin' = admin \ {r}
  /\ UNCHANGED <<tables, interazioni, pagina, submitted, completed>>

(* add_img.php: up to three INSERTs INTO immagini for one product.  The    *)
(* pages ask whether a product has any picture.                            *)
AddImages(p) ==
  /\ p \in Ids \ immagini
  /\ immagini' = immagini \cup {p}
  /\ Age
  /\ UNCHANGED <<prodotti, appartenenze, interazioni, admin, submitted, completed>>

(* External: rows of appartenenze are added to the database by hand.       *)
Classify(p, c) ==
  /\ p \in Ids
  /\ <<p, c>> \notin appartenenze
  /\ appartenenze' = appartenenze \cup {<<p, c>>}
  /\ Age
  /\ UNCHANGED <<prodotti, immagini, interazioni, admin, submitted, completed>>

-----------------------------------------------------------------------------
(* catalogo.php                                                            *)

(* Mutant of Matching: the second filter replaces the first one.           *)
Matching_Overwritten(f) ==
  {p \in Ids : \E c \in Categories :
     <<p, c>> \in appartenenze /\ f.categoria \in {Unset, c}}

(* $whereClause, over prodotti JOIN appartenenze.                          *)
Matching(f) ==
  {p \in Ids : \E c \in Categories :
     /\ <<p, c>> \in appartenenze
     /\ f.categoria \in {Unset, c}
     /\ f.piattaforma \in {Unset, prodotti[p].piattaforma}}

NamesOf(S) == {prodotti[p].nome : p \in S}

(* COUNT(DISTINCT p.nome): also games that have no picture.                *)
CountedGames(f) == NamesOf(Matching(f))

(* GROUP BY p.nome of the list query, which joins immagini.                *)
ListedGames(f) == NamesOf(Matching(f) \cap immagini)

(* MIN(p.productId) with the platform of any row of the group.             *)
LinksOf(f, n) ==
  LET rows == {p \in Matching(f) \cap immagini : prodotti[p].nome = n} IN
  {[productId |-> Min(rows), piattaforma |-> prodotti[q].piattaforma, nome |-> n] :
     q \in rows}

(* max(1, ceil($totaleGiochi / $giochiPerPagina))                          *)
TotalPages(totale) == Max({1, (totale + PerPage - 1) \div PerPage})

(* Mutant of Offset: a page is skipped.                                    *)
Offset_Next(k) == k * PerPage

(* ($paginaCorrente - 1) * $giochiPerPagina                                *)
Offset(k) == (k - 1) * PerPage

(* The session lock: its request has run all its queries.                  *)
Idle(s) == pagina[s].kind \notin {"counted", "opened"}

(* Mutant of Count: the pages are numbered from zero.                      *)
Count_FromZero(s, f, k) ==
  /\ Idle(s)
  /\ pagina' = [pagina EXCEPT ![s] =
       [kind |-> "counted", filtro |-> f, numero |-> k - 1,
        totale |-> Cardinality(CountedGames(f)), giochi |-> {}, fresh |-> TRUE]]
  /\ UNCHANGED <<tables, interazioni, admin, submitted, completed>>

(* The first query of a request.                                           *)
Count(s, f, k) ==
  /\ Idle(s)
  /\ pagina' = [pagina EXCEPT ![s] =
       [kind |-> "counted", filtro |-> f, numero |-> k,
        totale |-> Cardinality(CountedGames(f)), giochi |-> {}, fresh |-> TRUE]]
  /\ UNCHANGED <<tables, interazioni, admin, submitted, completed>>

(* The second one: LIMIT and OFFSET without ORDER BY take any games, as    *)
(* many as there are left.                                                 *)
List(s) ==
  LET pg == pagina[s]
      left == Cardinality(ListedGames(pg.filtro)) - Offset(pg.numero)
      size == Max({0, Min({PerPage, left})})
  IN /\ pg.kind = "counted"
     /\ \E names \in kSubset(size, ListedGames(pg.filtro)) :
        \E link \in [names -> UNION {LinksOf(pg.filtro, n) : n \in names}] :
          /\ \A n \in names : link[n] \in LinksOf(pg.filtro, n)
          /\ pagina' = [pagina EXCEPT ![s] =
               [pg EXCEPT !.kind = "listed",
                          !.giochi = {link[n] : n \in names}]]
     /\ UNCHANGED <<tables, interazioni, admin, submitted, completed>>

(* Mutant of PageLinks: there is a next page after the last one.           *)
PageLinks_Next(pg) == 1 .. TotalPages(pg.totale) + 1

(* Prima, Precedente, the numbers, Successivo, Ultima.                     *)
PageLinks(pg) ==
  1 .. TotalPages(pg.totale) \cup (IF pg.numero > 1 THEN {pg.numero - 1} ELSE {})

(* "?pagina=" drops the filters of the page.                               *)
FollowPage(s) ==
  /\ s \in Listings
  /\ \E k \in PageLinks(pagina[s]) : Count(s, NoFilter, k)

(* The menus of header_check.php and the home page: one filter or none.    *)
FollowMenu(s) ==
  \/ Count(s, NoFilter, 1)
  \/ \E c \in Categories : Count(s, [NoFilter EXCEPT !.categoria = c], 1)
  \/ \E x \in {prodotti[p].piattaforma : p \in Ids} :
       Count(s, [NoFilter EXCEPT !.piattaforma = x], 1)

-----------------------------------------------------------------------------
(* mostra-prodotti.php, get_history.php, get_suggested_products.php        *)

Viewed(u) == {p \in AllIds : interazioni[u][p] > 0}

(* ORDER BY weight DESC LIMIT k: ties are broken either way.               *)
Best(S, k, weight) ==
  {T \in kSubset(Min({k, Cardinality(S)}), S) :
     \A x \in T, y \in S \ T : weight[x] >= weight[y]}

(* Mutant of ReadHistory: the visit is recorded before the history is read. *)
ReadHistory_Recorded(s, p) ==
  /\ p \in Ids
  /\ Idle(s)
  /\ \E visti \in SUBSET ((Viewed(UserOf[s]) \cup {p}) \cap immagini) :
       /\ Cardinality(visti) <= Suggestions
       /\ pagina' = [pagina EXCEPT ![s] =
            [kind |-> "opened", productId |-> p, visti |-> visti]]
  /\ UNCHANGED <<tables, interazioni, admin, submitted, completed>>

(* get_history.php is included before the INSERT of the visit.  It orders  *)
(* by the time of any one visit to each product.                           *)
ReadHistory(s, p) ==
  /\ p \in Ids
  /\ Idle(s)
  /\ \E visti \in SUBSET (Viewed(UserOf[s]) \cap immagini) :
       /\ Cardinality(visti) <= Suggestions
       /\ pagina' = [pagina EXCEPT ![s] =
            [kind |-> "opened", productId |-> p, visti |-> visti]]
  /\ UNCHANGED <<tables, interazioni, admin, submitted, completed>>

(* INSERT INTO interazioni ... 'visualizzato', when other sessions of the  *)
(* user may have recorded theirs since.                                    *)
RecordVisit(s) ==
  /\ pagina[s].kind = "opened"
  /\ SumFunction(interazioni[UserOf[s]]) < MaxVisits
  /\ interazioni' = [interazioni EXCEPT ![UserOf[s]][pagina[s].productId] = @ + 1]
  /\ pagina' = [pagina EXCEPT ![s].kind = "product"]
  /\ UNCHANGED <<tables, admin, submitted, completed>>

(* view_count: the visits to the products of a category.                   *)
ViewCount(u, c) ==
  LET Visits(p) == interazioni[u][p]
  IN  MapThenSumSet(Visits, {p \in Ids : <<p, c>> \in appartenenze})

ViewedCategories(u) ==
  {c \in Categories : \E p \in Viewed(u) : <<p, c>> \in appartenenze}

(* Mutant of Candidates: LEFT JOIN instead of INNER JOIN top_categories.   *)
Candidates_LeftJoin(top) == {p \in Ids : \E c \in Categories : <<p, c>> \in appartenenze}

(* No row has tipologia 'acquistato', so that purchased_products is empty. *)
Candidates(top) == {p \in Ids : \E c \in top : <<p, c>> \in appartenenze}

(* COUNT( * ) of the outer query: the top categories of a product.         *)
InTop(p, top) == Cardinality({c \in top : <<p, c>> \in appartenenze})

ShowProfile(s) ==
  /\ Idle(s)
  /\ \E top \in Best(ViewedCategories(UserOf[s]), TopCategories,
                    [c \in Categories |-> ViewCount(UserOf[s], c)]) :
       \E games \in Best(Candidates(top), Suggestions,
                         [p \in Ids |-> InTop(p, top)]) :
         pagina' = [pagina EXCEPT ![s] =
           [kind |-> "profile", giochi |-> games,
            due |-> ViewedCategories(UserOf[s]) # {}]]
  /\ UNCHANGED <<tables, interazioni, admin, submitted, completed>>

-----------------------------------------------------------------------------
Administer ==
  \/ \E a \in Admins, n \in Names, boxes \in SUBSET Platforms : Submit(a, n, boxes)
  \/ \E r \in admin : InsertProduct(r) \/ EndSubmit(r) \/ SubmitDies(r)
  \/ \E p \in Ids : AddImages(p) \/ \E c \in Categories : Classify(p, c)

Browse(s) ==
  \/ FollowMenu(s) \/ FollowPage(s) \/ List(s) \/ ShowProfile(s)
  \/ RecordVisit(s) \/ \E p \in Ids : ReadHistory(s, p)

Next == Administer \/ \E s \in Sessions : Browse(s)

Spec == Init /\ [][Next]_vars

-----------------------------------------------------------------------------
(* Every variable holds rows of its table or what a page prints.           *)
TypeOK ==
  /\ prodotti \in Seq([nome : Names, piattaforma : Platforms])
  /\ Len(prodotti) <= MaxProducts
  /\ immagini \subseteq Ids
  /\ appartenenze \subseteq Ids \X Categories
  /\ interazioni \in [Users -> [AllIds -> Nat]]
  /\ admin \subseteq Requests
  /\ pagina \in [Sessions -> {NoPage} \cup CatalogPages \cup ProductPages \cup ProfilePages]
  /\ submitted \in [Games -> Nat]
  /\ completed \in [Games -> Nat]

(* The page numbers reach every game that can be listed, although they     *)
(* come from another query than the list; and when there is one page only, *)
(* that page lists all of them, once each.                                 *)
EveryGameHasAPage ==
  \A s \in Listings :
    LET pg == pagina[s] IN
    pg.fresh =>
      /\ Cardinality(ListedGames(pg.filtro)) <= TotalPages(pg.totale) * PerPage
      /\ pg.numero = 1 /\ TotalPages(pg.totale) = 1 =>
           /\ {l.nome : l \in pg.giochi} = ListedGames(pg.filtro)
           /\ Cardinality(pg.giochi) = Cardinality(ListedGames(pg.filtro))

(* Whoever follows the links of the pages stays within the page numbers,   *)
(* although a link of a filtered page drops the filter and products are    *)
(* added between two clicks: "Siamo spiacenti" is only seen where no game  *)
(* matches or one that was counted has no picture.                         *)
LinksStayInRange ==
  \A s \in Catalogs :
    /\ pagina[s].numero <= TotalPages(pagina[s].totale)
    /\ s \in Listings /\ pagina[s].fresh /\ pagina[s].giochi = {} =>
         \/ pagina[s].totale = 0
         \/ ListedGames(pagina[s].filtro) # CountedGames(pagina[s].filtro)

(* A link of the catalogue leads to a product of the game it names, and    *)
(* its platform is one that the game has.  On a page that is filtered by   *)
(* platform it is the platform of that very product; otherwise MIN and     *)
(* GROUP BY may pair the product with another platform of the game.        *)
LinksNameTheirGame ==
  \A s \in Catalogs : \A l \in pagina[s].giochi :
    /\ l.productId \in Matching(pagina[s].filtro)
    /\ prodotti[l.productId].nome = l.nome
    /\ \E q \in Ids : prodotti[q] = [nome |-> l.nome, piattaforma |-> l.piattaforma]
    /\ pagina[s].filtro.piattaforma # Unset =>
         prodotti[l.productId].piattaforma = l.piattaforma

RowsOf(g) == {p \in Ids : <<prodotti[p].nome, prodotti[p].piattaforma>> = g}

(* A submission adds at most one row per platform, and exactly one if its  *)
(* request comes to its end: only a request that died leaves platforms     *)
(* out, and only submitting again makes duplicates.                        *)
SubmissionsAccounted ==
  \A g \in Games :
    /\ completed[g] <= Cardinality(RowsOf(g))
    /\ Cardinality(RowsOf(g)) <= submitted[g]

(* Games suggested to a user share a category with one that the user has   *)
(* looked at, and somebody who has looked at a game with a category does   *)
(* get suggestions.                                                        *)
SuggestedAreRelated ==
  \A s \in {v \in Sessions : pagina[v].kind = "profile"} :
    /\ \A p \in pagina[s].giochi : \E v \in Viewed(UserOf[s]), c \in Categories :
         <<p, c>> \in appartenenze /\ <<v, c>> \in appartenenze
    /\ pagina[s].due => pagina[s].giochi # {}

(* "VISUALIZZATI IN PRECEDENZA": a product that is looked at for the first *)
(* time is not among the games seen before.                                *)
FirstVisitIsNotHistory ==
  \A s \in {v \in Sessions : pagina[v].kind = "product"} :
    LET p == pagina[s].productId IN
    p \in pagina[s].visti => interazioni[UserOf[s]][p] > 1

=============================================================================
