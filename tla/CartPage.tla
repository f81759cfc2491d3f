------------------------------ MODULE CartPage ------------------------------
(***************************************************************************)
(* The pages that show the cart (carrello.php, mostra-prodotti.php,        *)
(* checkout_succes.php) in the browser tabs of customers, composed with    *)
(* the handler of module Cart.                                             *)
(*                                                                         *)
(* A page is a copy of the cart that nothing refreshes.  Its forms post    *)
(* quantities computed from the copy, several forms of one page may be on  *)
(* their way, and a later navigation of a tab replaces an earlier one: the *)
(* answer of the earlier one is not shown, and a form that has not left    *)
(* the browser is never sent.                                              *)
(***************************************************************************)
EXTENDS Cart, Sequences

CONSTANTS
  Tabs,        \* browser tabs
  NoTab,       \* no tab
  NameOf,      \* prodotti.nome: platforms of one game share it
  PriceOf,     \* prodotti.prezzo
  Undefined,   \* the product id 'undefined' of a form, (int) 0 in SQL
  MaxClicks    \* bound: clicks on buttons that submit forms

ASSUME PageAssumption ==
  /\ IsFiniteSet(Products)
  /\ DOMAIN NameOf = Products
  /\ PriceOf \in [Products -> Nat]
  /\ Undefined \in PostedIds \ Products
  /\ NoTab \notin Tabs
  /\ MaxClicks \in Nat

VARIABLES
  sessionOf,  \* the session cookie of each tab; never changes
  page,       \* what each tab shows
  going,      \* the navigation each tab waits for
  sent,       \* forms submitted by each tab and not received yet
  turn,       \* the tab and the click that a session's request comes from
  fresh,      \* history: the page shows the cart as it is, and at most one
              \* form has left it
  asked,      \* history: how many clicks of each user asked for a unit of
              \* each product
  clicks      \* history: clicks on buttons that submit forms

pageVars == <<page, going, sent, turn, fresh, asked, clicks>>
allVars == <<vars, sessionOf, pageVars>>

-----------------------------------------------------------------------------
(* A page shows quantities; "rows" are the products that have buttons.     *)
Pages == [kind : {"blank", "cart", "product", "success"},
          product : Products \cup {NoProduct},
          quantity : [Products -> Nat], rows : SUBSET Products]

Blank == [kind |-> "blank", product |-> NoProduct, quantity |-> Zero,
          rows |-> {}]

Places == [kind : {"none", "answer", "error", "cart", "product", "success"},
           product : Products \cup {NoProduct}]

Place(k) == [kind |-> k, product |-> NoProduct]
Nowhere == Place("none")

(* "by" is history: the change of the quantity that the user asked for.    *)
Forms == [action : {"add", "update", "remove", "checkout"},
          product : PostedIds, quantity : Int, by : {-1, 0, 1}]

NoTurn == [tab |-> NoTab, by |-> 0]

PageInit ==
  /\ Init
  /\ sessionOf \in [Tabs -> Sessions]
  /\ page = [t \in Tabs |-> Blank]
  /\ going = [t \in Tabs |-> Nowhere]
  /\ sent = [t \in Tabs |-> <<>>]
  /\ turn = [s \in Sessions |-> NoTurn]
  /\ fresh = [t \in Tabs |-> FALSE]
  /\ asked = [u \in Users |-> Zero]
  /\ clicks = 0

(* The user whose session cookie the browser of a tab holds.               *)
Owner(t) == UserOf[sessionOf[t]]

(* The lines of a user, joined with prodotti and carrelli.                 *)
CartRows(s) ==
  {[product |-> i.product, cart |-> i.cart, quantity |-> carrelli[i.cart]] :
     i \in {l \in interazioni : /\ l.user = UserOf[s]
                                /\ l.product \in Products
                                /\ l.cart \in DOMAIN carrelli}}

InCart(s) == {r.product : r \in CartRows(s)}

(* A write to the cart of a user makes the pages of that user stale.       *)
Age == fresh' = [t \in Tabs |->
  fresh[t] /\ CartRows(sessionOf[t]) = CartRows(sessionOf[t])']

-----------------------------------------------------------------------------
(* change_cart_total.js                                                    *)

(* Mutant of Merged: every row stays.                                      *)
Merged_Nothing(shown) == {shown}

(* mergeDuplicateItems: of the rows with one name the first one stays; the *)
(* query orders them by timestamp, which says nothing within a second.     *)
Merged(shown) ==
  {R \in SUBSET shown :
     \A p \in shown : Cardinality({r \in R : NameOf[r] = NameOf[p]}) = 1}

(* Mutant of ShownQuantity: the rows that go away are not added up.        *)
ShownQuantity_First(pg, p) == pg.quantity[p]

ShownQuantity(pg, p) ==
  SumFunctionOnSet(pg.quantity, {q \in Products : NameOf[q] = NameOf[p]})

(* updateCartTotal: the price of the row that stayed.                      *)
Total(pg) ==
  SumFunction([p \in pg.rows |-> PriceOf[p] * ShownQuantity(pg, p)])

-----------------------------------------------------------------------------
(* Rendering.                                                              *)

(* get_cart.php: GROUP BY productId takes the quantity of any one line of  *)
(* the product.  Also the SELECT ... LIMIT 1 of mostra-prodotti.php.       *)
Rendered(s) ==
  LET picks == {k \in [InCart(s) -> DOMAIN carrelli] :
                  \A p \in InCart(s) : k[p] \in CartsOf(s, p)}
  IN  {[p \in Products |-> IF p \in InCart(s) THEN carrelli[k[p]] ELSE 0] :
         k \in picks}

Show(t, pg) ==
  /\ page' = [page EXCEPT ![t] = pg]
  /\ going' = [going EXCEPT ![t] = Nowhere]
  /\ fresh' = [fresh EXCEPT ![t] = pg.kind \in {"cart", "product"}]
  /\ UNCHANGED <<sessionOf, sent, turn, asked, clicks>>

(* carrello.php                                                            *)
LoadCart(t) ==
  /\ going[t].kind = "cart"
  /\ pc[sessionOf[t]] = "idle"
  /\ \E q \in Rendered(sessionOf[t]) :
       \E R \in Merged({p \in Products : q[p] > 0}) :
         Show(t, [kind |-> "cart", product |-> NoProduct,
                  quantity |-> q, rows |-> R])
  /\ UNCHANGED vars

(* mostra-prodotti.php                                                     *)
LoadProduct(t) ==
  LET p == going[t].product IN
  /\ going[t].kind = "product"
  /\ pc[sessionOf[t]] = "idle"
  /\ \E q \in Rendered(sessionOf[t]) :
       Show(t, [kind |-> "product", product |-> p,
                quantity |-> [Zero EXCEPT ![p] = q[p]], rows |-> {p}])
  /\ UNCHANGED vars

(* checkout_succes.php congratulates if the flag is set and takes it;      *)
(* otherwise it redirects to carrello.php of its own directory, which does *)
(* not exist.                                                              *)
LoadSuccess(t) ==
  /\ going[t].kind = "success"
  /\ \/ /\ ShowSuccess(sessionOf[t])
        /\ Show(t, [Blank EXCEPT !.kind = "success"])
     \/ /\ pc[sessionOf[t]] = "idle"
        /\ ~confirm[sessionOf[t]]
        /\ Show(t, Blank)
        /\ UNCHANGED vars

(* What a script that died leaves on the screen.                           *)
LoadError(t) ==
  /\ going[t].kind = "error"
  /\ Show(t, Blank)
  /\ UNCHANGED vars

(* The user follows a link, with no answer on its way.                     *)
Open(t) ==
  /\ going[t] = Nowhere
  /\ \E to \in {Place("cart")} \cup
               {[kind |-> "product", product |-> p] : p \in Products} :
       going' = [going EXCEPT ![t] = to]
  /\ UNCHANGED <<vars, sessionOf, page, sent, turn, fresh, asked, clicks>>

-----------------------------------------------------------------------------
(* Forms.                                                                  *)

Form(a, p, q, d) == [action |-> a, product |-> p, quantity |-> q, by |-> d]

(* Forms submitted at once leave in order; each navigation may cancel what *)
(* the tab has not sent yet, so that any suffix of the forms may be left.  *)
Submit(t, forms) ==
  /\ clicks < MaxClicks
  /\ clicks' = clicks + 1
  /\ \E keep \in {sent[t], <<>>}, skip \in 0 .. Len(forms) - 1 :
       LET q == keep \o SubSeq(forms, skip + 1, Len(forms)) IN
       /\ skip > 0 => keep = <<>>
       /\ sent' = [sent EXCEPT ![t] = q]
  /\ going' = [going EXCEPT ![t] = Place("answer")]
  /\ fresh' = [fresh EXCEPT ![t] = @ /\ going[t] = Nowhere]
  /\ UNCHANGED <<vars, sessionOf, turn>>

(* A click by which the user of a tab asks for a unit.                     *)
Ask(t, p) == asked' = [asked EXCEPT ![Owner(t)][p] = @ + 1]

(* Mutant of CartButtons: the forms hold the quantity that the row shows.  *)
CartButtons_Merged(t) ==
  /\ page[t].kind = "cart"
  /\ \E p \in page[t].rows :
       LET q == ShownQuantity(page[t], p) IN
       \/ Submit(t, <<Form("update", p, q - 1, -1)>>) /\ UNCHANGED asked
       \/ Submit(t, <<Form("update", p, q + 1, 1)>>) /\ Ask(t, p)
       \/ Submit(t, <<Form("remove", p, 1, 0)>>) /\ UNCHANGED asked
  /\ UNCHANGED page

(* The minus and plus forms of carrello.php hold the quantity of the line, *)
(* less or plus one, from before the rows were merged.                     *)
CartButtons(t) ==
  /\ page[t].kind = "cart"
  /\ \E p \in page[t].rows :
       LET q == page[t].quantity[p] IN
       \/ Submit(t, <<Form("update", p, q - 1, -1)>>) /\ UNCHANGED asked
       \/ Submit(t, <<Form("update", p, q + 1, 1)>>) /\ Ask(t, p)
       \/ Submit(t, <<Form("remove", p, 1, 0)>>) /\ UNCHANGED asked
  /\ UNCHANGED page

(* Mutant of CheckoutButton: the page of an empty cart has the button too. *)
CheckoutButton_Always(t) ==
  /\ page[t].kind = "cart"
  /\ Submit(t, <<Form("checkout", Undefined, 1, 0)>>)
  /\ UNCHANGED <<page, asked>>

CheckoutButton(t) ==
  /\ page[t].kind = "cart"
  /\ page[t].rows # {}
  /\ Submit(t, <<Form("checkout", Undefined, 1, 0)>>)
  /\ UNCHANGED <<page, asked>>

WithQuantity(pg, p, q) == [pg EXCEPT !.quantity = [@ EXCEPT ![p] = q]]

(* updateCart of product_functions.js: the number on the page changes with *)
(* the form, and is never less than 1.                                     *)
QuantityButtons(t) ==
  LET p == page[t].product IN
  /\ page[t].kind = "product"
  /\ page[t].quantity[p] > 0
  /\ \/ \E d \in {-1, 1} :
          LET q == EffectiveQuantity(page[t].quantity[p] + d) IN
          /\ q <= MaxQuantity
          /\ page' = [page EXCEPT ![t] = WithQuantity(@, p, q)]
          /\ Submit(t, <<Form("update", p, q, d)>>)
          /\ IF d = 1 THEN Ask(t, p) ELSE UNCHANGED asked
     \/ Submit(t, <<Form("remove", p, 1, 0)>>) /\ UNCHANGED <<page, asked>>

(* Mutant of AddForms: the first listener knows the product as well.       *)
AddForms_Twice(p) == <<Form("add", p, 1, 1), Form("add", p, 1, 1)>>

(* Both scripts listen to the button.  The listener of                     *)
(* seleziona_quantita.js calls addToCart without arguments, and by then    *)
(* addToCart is the one of product_functions.js.                           *)
AddForms(p) == <<Form("add", Undefined, 1, 0), Form("add", p, 1, 1)>>

AddButton(t) ==
  LET p == page[t].product IN
  /\ page[t].kind = "product"
  /\ page[t].quantity[p] = 0
  /\ Submit(t, AddForms(p))
  /\ Ask(t, p)
  /\ UNCHANGED page

-----------------------------------------------------------------------------
(* The handler, for the forms of tabs.                                     *)

(* The answer of a request replaces the page, unless the tab has moved on. *)
Answer(t, waiting, to) ==
  going' = IF going[t].kind = "answer" /\ waiting = <<>>
           THEN [going EXCEPT ![t] = to] ELSE going

(* $_POST['redirect'] of the forms names the page that they are on.        *)
Back(t) == [kind |-> page[t].kind, product |-> page[t].product]

(* First statement of a request.                                           *)
Handle(s, f) ==
  \/ f.action = "add" /\ AddSelect(s, f.product, f.quantity)
  \/ f.action = "update" /\ UpdateSelect(s, f.product, f.quantity)
  \/ f.action = "remove" /\ RemoveSelect(s, f.product)
  \/ f.action = "checkout" /\ CheckoutSelect(s)

(* No line to update or to remove: the handler only redirects.             *)
NothingToDo(s, f) ==
  /\ pc[s] = "idle"
  /\ f.action \in {"update", "remove"}
  /\ CartsOf(s, f.product) = {}
  /\ f.action = "remove" => LinesOf(s, f.product) = {}

Receive(t) ==
  LET s == sessionOf[t]
      f == Head(sent[t])
  IN /\ sent[t] # <<>>
     /\ sent' = [sent EXCEPT ![t] = Tail(@)]
     /\ f.quantity \in Quantities
     /\ \/ /\ Handle(s, f)
           /\ turn' = [turn EXCEPT ![s] = [tab |-> t, by |-> f.by]]
           /\ UNCHANGED going
        \/ /\ NothingToDo(s, f)
           /\ Answer(t, Tail(sent[t]), Back(t))
           /\ UNCHANGED <<vars, turn>>
     /\ UNCHANGED <<sessionOf, page, fresh, asked, clicks>>

(* A statement in the middle of a request, and the last one.               *)
Continue(s, Statement) ==
  /\ Statement
  /\ pc'[s] # "idle"
  /\ UNCHANGED <<sessionOf, page, going, sent, turn, asked, clicks>>
  /\ Age

Finish(s, Statement, to) ==
  /\ Statement
  /\ pc'[s] = "idle"
  /\ Answer(turn[s].tab, sent[turn[s].tab], to)
  /\ turn' = [turn EXCEPT ![s] = NoTurn]
  /\ UNCHANGED <<sessionOf, page, sent, asked, clicks>>
  /\ Age

(* Mutant of AfterRollback: success, whatever became of the checkout.      *)
AfterRollback_Success(s) == Place("success")

(* Out of stock and failed checkouts show carrello.php with a message.     *)
AfterRollback(s) == Place("cart")

Run(s) ==
  /\ turn[s].tab # NoTab
  /\ \/ Continue(s, CartStep(s) \/ CheckoutStep(s))
     \/ Finish(s, CartStep(s), Back(turn[s].tab))
     \/ Finish(s, RollbackOutOfStock(s) \/ CheckoutException(s),
               AfterRollback(s))
     \/ Finish(s, Commit(s) /\ confirm'[s], Place("success"))
     \/ Finish(s, Failures /\ Commit(s) /\ UNCHANGED confirm, Place("error"))
     \/ Finish(s, RequestDies(s), Place("error"))

Browse(t) ==
  \/ Open(t) \/ LoadCart(t) \/ LoadProduct(t) \/ LoadSuccess(t) \/ LoadError(t)
  \/ CartButtons(t) \/ CheckoutButton(t) \/ QuantityButtons(t) \/ AddButton(t)

PageNext ==
  \/ \E t \in Tabs : Browse(t) \/ Receive(t)
  \/ \E s \in Sessions : Run(s)

PageSpec == PageInit /\ [][PageNext]_allVars

-----------------------------------------------------------------------------
(* Tabs, forms and navigations keep their shape; a cart page has one row   *)
(* per name, with a quantity of at least one.                              *)
PageTypeOK ==
  /\ sessionOf \in [Tabs -> Sessions]
  /\ page \in [Tabs -> Pages]
  /\ going \in [Tabs -> Places]
  /\ sent \in [Tabs -> Seq(Forms)]
  /\ turn \in [Sessions -> [tab : Tabs \cup {NoTab}, by : {-1, 0, 1}]]
  /\ fresh \in [Tabs -> BOOLEAN]
  /\ asked \in [Users -> [Products -> Nat]]
  /\ clicks \in 0 .. MaxClicks
  /\ \A s \in Sessions : pc[s] # "idle" <=> turn[s].tab # NoTab
  /\ \A t \in Tabs : page[t].kind = "cart" =>
       \A p, q \in page[t].rows :
         page[t].quantity[p] > 0 /\ (NameOf[p] = NameOf[q] => p = q)

OneLineEach(s) ==
  \A r, q \in CartRows(s) : r.product = q.product => r = q

OnePriceEach(s) ==
  \A p, q \in InCart(s) : NameOf[p] = NameOf[q] => PriceOf[p] = PriceOf[q]

Charge(s) ==
  SumFunction([r \in CartRows(s) |-> PriceOf[r.product] * r.quantity])

(* As long as nothing has changed since a cart page was rendered and the   *)
(* platforms of a game cost the same, its total is the price of what its   *)
(* checkout form would sell; it is less if a product has two lines, of     *)
(* which get_cart.php shows one, and never more.                           *)
TotalIsCharge ==
  \A t \in Tabs :
    LET s == sessionOf[t] IN
    fresh[t] /\ page[t].kind = "cart" /\ OnePriceEach(s) =>
      /\ Total(page[t]) <= Charge(s)
      /\ OneLineEach(s) => Total(page[t]) = Charge(s)

(* "Merges duplicate items in the cart", "Updates the cart total": the     *)
(* total of a page that is up to date is the price of its checkout.        *)
FreshTotalIsCharge ==
  \A t \in Tabs :
    fresh[t] /\ page[t].kind = "cart" => Total(page[t]) = Charge(sessionOf[t])

(* A click on minus or plus changes the quantity by one, and minus leaves  *)
(* a single unit alone, if the page was up to date when the UPDATE ran:    *)
(* the quantity that the form posts was computed on the page, not from the *)
(* table.                                                                  *)
ClickCountsOnce ==
  [][\A s \in Sessions :
       LET t == turn[s].tab
           c == work[s].cart IN
       /\ pc[s] = "update_quantity" /\ pc'[s] = "idle"
       /\ fresh[t] /\ going[t].kind = "answer" /\ going'[t] = Back(t)
       /\ c \in DOMAIN carrelli' /\ OneLineEach(s)
       => carrelli'[c] = IF carrelli[c] = 1 /\ turn[s].by = -1 THEN 1
                         ELSE carrelli[c] + turn[s].by]_allVars

(* No cart line holds more units than the user has asked for with clicks   *)
(* on "add" and plus, although both scripts submit a form for one click,   *)
(* stale pages post old quantities and forms of several tabs interleave.   *)
UnitsWereAskedFor ==
  \A s \in Sessions : \A r \in CartRows(s) :
    r.quantity <= asked[UserOf[s]][r.product]

(* A checkout that was sent from a page that is still up to date does sell *)
(* something when it commits; only a stale page can lead to the success    *)
(* page for an empty cart.                                                 *)
SuccessIsASale ==
  [][\A s \in Sessions :
       /\ pc[s] = "fetch" /\ pc'[s] = "idle"
       /\ going[turn[s].tab].kind = "answer"
       /\ going'[turn[s].tab].kind = "success"
       /\ fresh[turn[s].tab]
       => stock' # stock]_allVars

(* A tab that has its session to itself is congratulated after its         *)
(* checkout has been committed: only another tab can take the message.     *)
ConfirmationWaits ==
  \A t \in Tabs :
    /\ going[t].kind = "success"
    /\ \A u \in Tabs : sessionOf[u] = sessionOf[t] => u = t
    => confirm[sessionOf[t]]

=============================================================================
