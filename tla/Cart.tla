-------------------------------- MODULE Cart --------------------------------
(***************************************************************************)
(* The shopping cart of files_web/php_files/cart_actions_handler.php, one  *)
(* action per SQL statement that the handler sends to MySQL.               *)
(*                                                                         *)
(* Each PHP session runs one request at a time (the session file is locked *)
(* from session_start() to the end of the script), so a session has one    *)
(* program counter.  Requests of different sessions interleave between     *)
(* statements.  'add', 'update' and 'remove' run in autocommit mode: each  *)
(* statement is atomic and visible at once.  'checkout' is an InnoDB       *)
(* transaction at REPEATABLE READ: its SELECT is a snapshot, its writes    *)
(* stay invisible and keep their rows locked until COMMIT or ROLLBACK.     *)
(***************************************************************************)
EXTENDS Integers, FiniteSets, Functions

CONSTANTS
  Sessions,     \* PHP sessions (browsers) that are logged in
  Users,        \* rows of utenti
  UserOf,       \* $_SESSION['userId'] of each session
  Products,     \* rows of prodotti
  PostedIds,    \* productId values a form may post, stored or not
  NoProduct,    \* no product in hand
  InitStock,    \* prodotti.quantitaDisponibile at the start
  Quantities,   \* bound: the quantities a form may post
  MaxQuantity,  \* bound: largest quantity a cart may reach
  MaxCarts,     \* bound: number of carrelli rows ever inserted
  Failures      \* whether a statement or a request may fail

ASSUME CartAssumption ==
  /\ UserOf \in [Sessions -> Users]
  /\ Products \subseteq PostedIds
  /\ NoProduct \notin PostedIds
  /\ InitStock \in [Products -> Nat]
  /\ Quantities \subseteq Int
  /\ MaxQuantity \in Nat
  /\ MaxCarts \in Nat
  /\ Failures \in BOOLEAN

VARIABLES
  stock,        \* prodotti: productId -> quantitaDisponibile, committed
  carrelli,     \* carrelli: cartId -> quantita, for the rows that exist
  interazioni,  \* interazioni rows with tipologia = 'carrello'
  nextCart,     \* AUTO_INCREMENT of carrelli
  pc,           \* the next statement of each session's request
  work,         \* the row each request holds in PHP variables
  tx,           \* the open transaction of each session
  confirm,      \* whether $_SESSION['checkout_success'] is set
  delivered,    \* history: units in the carts that checkouts have closed
  abandoned     \* history: carts whose request died between its two writes

tables == <<stock, carrelli, interazioni, nextCart>>
history == <<delivered, abandoned>>
vars == <<stock, carrelli, interazioni, nextCart, pc, work, tx, confirm,
          delivered, abandoned>>

-----------------------------------------------------------------------------
(* Types and empty values.                                                 *)

Lines == [user : Users, product : PostedIds, cart : Nat]

Rows == [product : PostedIds \cup {NoProduct}, cart : Nat, quantity : Int]
NoRow == [product |-> NoProduct, cart |-> 0, quantity |-> 0]

(* What a transaction has read and written: the stock its snapshot shows,  *)
(* the result rows not fetched yet, whether an item was out of stock, its  *)
(* uncommitted decrements, and the interazioni and carrelli rows it has    *)
(* deleted.  "counted" is history: the quantities of the deleted carts.    *)
Transactions ==
  [seen : [Products -> Int], rows : SUBSET Rows, short : BOOLEAN,
   taken : [Products -> Int], unlinked : SUBSET Nat, closed : SUBSET Nat,
   counted : [Products -> Int]]

Zero == [p \in Products |-> 0]
NoTx == [seen |-> Zero, rows |-> {}, short |-> FALSE, taken |-> Zero,
         unlinked |-> {}, closed |-> {}, counted |-> Zero]

CheckoutPcs == {"fetch", "take", "unlink", "close"}
CartPcs == {"add_increase", "add_cart", "add_line", "update_quantity",
            "remove_line", "remove_cart"}

Init ==
  /\ stock = InitStock
  /\ carrelli = [c \in {} |-> 0]
  /\ interazioni = {}
  /\ nextCart = 1
  /\ pc = [s \in Sessions |-> "idle"]
  /\ work = [s \in Sessions |-> NoRow]
  /\ tx = [s \in Sessions |-> NoTx]
  /\ confirm = [s \in Sessions |-> FALSE]
  /\ delivered = Zero
  /\ abandoned = {}

-----------------------------------------------------------------------------
(* Helpers.                                                                *)

Goto(s, label) == pc' = [pc EXCEPT ![s] = label]
Hold(s, row) == work' = [work EXCEPT ![s] = row]
Record(s, t) == tx' = [tx EXCEPT ![s] = t]

(* Mutant of EffectiveQuantity: the quantity as posted.                    *)
EffectiveQuantity_Unchecked(q) == q

(* max(1, (int)$_POST['quantity'])                                         *)
EffectiveQuantity(q) == IF q < 1 THEN 1 ELSE q

(* The interazioni rows of one user and product.                           *)
LinesOf(s, p) == {i \in interazioni : i.user = UserOf[s] /\ i.product = p}

(* The same, JOINed with carrelli.                                         *)
CartsOf(s, p) == {i.cart : i \in LinesOf(s, p)} \cap DOMAIN carrelli

Linked == {i.cart : i \in interazioni}

(* Row locks that another session's transaction holds.                     *)
ProductLocked(s, p) == \E t \in Sessions \ {s} : tx[t].taken[p] > 0
LineLocked(s, c) == \E t \in Sessions \ {s} : c \in tx[t].unlinked
CartLocked(s, c) == \E t \in Sessions \ {s} : c \in tx[t].closed

(* Bound: a request that will insert a cart finds an identifier left.      *)
IdsLeft ==
  nextCart + Cardinality({t \in Sessions : pc[t] = "add_cart"}) <= MaxCarts

-----------------------------------------------------------------------------
(* case 'add'                                                              *)

(* Mutants of AddSelect: a second row for a product that is in the cart;   *)
(* the posted quantity instead of the sum.                                 *)
AddSelect_AlwaysInserts(s, p, q) ==
  /\ pc[s] = "idle"
  /\ EffectiveQuantity(q) <= MaxQuantity
  /\ IdsLeft
  /\ Hold(s, [product |-> p, cart |-> 0, quantity |-> EffectiveQuantity(q)])
  /\ Goto(s, "add_cart")
  /\ UNCHANGED <<tables, tx, confirm, history>>

AddSelect_Replaces(s, p, q) ==
  \/ CartsOf(s, p) = {} /\ AddSelect_AlwaysInserts(s, p, q)
  \/ /\ pc[s] = "idle"
     /\ \E c \in CartsOf(s, p) :
          Hold(s, [product |-> p, cart |-> c,
                   quantity |-> EffectiveQuantity(q)])
     /\ Goto(s, "add_increase")
     /\ UNCHANGED <<tables, tx, confirm, history>>

(* SELECT c.cartId, c.quantita ... LIMIT 1.  A line that exists leads to   *)
(* an UPDATE with the sum computed here; otherwise a cart is created.      *)
AddSelect(s, p, q) ==
  /\ pc[s] = "idle"
  /\ \/ \E c \in CartsOf(s, p) :
          LET newQty == carrelli[c] + EffectiveQuantity(q) IN
          /\ newQty <= MaxQuantity
          /\ Hold(s, [product |-> p, cart |-> c, quantity |-> newQty])
          /\ Goto(s, "add_increase")
     \/ /\ CartsOf(s, p) = {}
        /\ EffectiveQuantity(q) <= MaxQuantity
        /\ IdsLeft
        /\ Hold(s, [product |-> p, cart |-> 0,
                    quantity |-> EffectiveQuantity(q)])
        /\ Goto(s, "add_cart")
  /\ UNCHANGED <<tables, tx, confirm, history>>

(* UPDATE carrelli SET quantita = ? WHERE cartId = ?  The row may be gone, *)
(* in which case the statement changes nothing and succeeds.               *)
WriteQuantity(s) ==
  /\ ~CartLocked(s, work[s].cart)
  /\ carrelli' = [c \in DOMAIN carrelli |->
                    IF c = work[s].cart THEN work[s].quantity ELSE carrelli[c]]
  /\ Hold(s, NoRow)
  /\ Goto(s, "idle")
  /\ UNCHANGED <<stock, interazioni, nextCart, tx, confirm, history>>

AddIncrease(s) == pc[s] = "add_increase" /\ WriteQuantity(s)

(* INSERT INTO carrelli (quantita) VALUES (?)                              *)
AddCart(s) ==
  /\ pc[s] = "add_cart"
  /\ carrelli' = [c \in DOMAIN carrelli \cup {nextCart} |->
                    IF c = nextCart THEN work[s].quantity ELSE carrelli[c]]
  /\ nextCart' = nextCart + 1
  /\ Hold(s, [work[s] EXCEPT !.cart = nextCart])
  /\ Goto(s, "add_line")
  /\ UNCHANGED <<stock, interazioni, tx, confirm, history>>

(* INSERT INTO interazioni (...) VALUES (..., 'carrello', NOW())           *)
AddLine(s) ==
  /\ pc[s] = "add_line"
  /\ interazioni' = interazioni \cup
       {[user |-> UserOf[s], product |-> work[s].product,
         cart |-> work[s].cart]}
  /\ Hold(s, NoRow)
  /\ Goto(s, "idle")
  /\ UNCHANGED <<stock, carrelli, nextCart, tx, confirm, history>>

-----------------------------------------------------------------------------
(* case 'update'.  The branch for quantity <= 0 is never taken: quantity   *)
(* was raised to 1 before the switch.                                      *)

UpdateSelect(s, p, q) ==
  /\ pc[s] = "idle"
  /\ EffectiveQuantity(q) <= MaxQuantity
  /\ \E c \in CartsOf(s, p) :
       Hold(s, [product |-> p, cart |-> c, quantity |-> EffectiveQuantity(q)])
  /\ Goto(s, "update_quantity")
  /\ UNCHANGED <<tables, tx, confirm, history>>

UpdateQuantity(s) == pc[s] = "update_quantity" /\ WriteQuantity(s)

-----------------------------------------------------------------------------
(* case 'remove'                                                           *)

RemoveSelect(s, p) ==
  /\ pc[s] = "idle"
  /\ \E i \in LinesOf(s, p) :
       Hold(s, [product |-> p, cart |-> i.cart, quantity |-> 0])
  /\ Goto(s, "remove_line")
  /\ UNCHANGED <<tables, tx, confirm, history>>

(* Mutant of RemoveLine: the cart row is not deleted after its line.       *)
RemoveLine_KeepsCart(s) ==
  /\ pc[s] = "remove_line"
  /\ interazioni' = {i \in interazioni : i.cart # work[s].cart}
  /\ Hold(s, NoRow)
  /\ Goto(s, "idle")
  /\ UNCHANGED <<stock, carrelli, nextCart, tx, confirm, history>>

(* DELETE FROM interazioni WHERE FKcartId = ? AND tipologia = 'carrello'   *)
RemoveLine(s) ==
  /\ pc[s] = "remove_line"
  /\ ~LineLocked(s, work[s].cart)
  /\ interazioni' = {i \in interazioni : i.cart # work[s].cart}
  /\ Goto(s, "remove_cart")
  /\ UNCHANGED <<stock, carrelli, nextCart, work, tx, confirm, history>>

(* DELETE FROM carrelli WHERE cartId = ?                                   *)
RemoveCart(s) ==
  /\ pc[s] = "remove_cart"
  /\ ~CartLocked(s, work[s].cart)
  /\ carrelli' = Restrict(carrelli, DOMAIN carrelli \ {work[s].cart})
  /\ Hold(s, NoRow)
  /\ Goto(s, "idle")
  /\ UNCHANGED <<stock, interazioni, nextCart, tx, confirm, history>>

-----------------------------------------------------------------------------
(* case 'checkout'                                                         *)

(* BEGIN, then the SELECT that fixes the snapshot: the user's lines joined *)
(* with their carts and with the products that exist.                      *)
CheckoutSelect(s) ==
  /\ pc[s] = "idle"
  /\ Record(s, [NoTx EXCEPT
       !.seen = stock,
       !.rows = {[product |-> i.product, cart |-> i.cart,
                  quantity |-> carrelli[i.cart]] :
                 i \in {l \in interazioni : /\ l.user = UserOf[s]
                                            /\ l.product \in Products
                                            /\ l.cart \in DOMAIN carrelli}}])
  /\ Goto(s, "fetch")
  /\ UNCHANGED <<tables, work, confirm, history>>

(* Mutants of FetchRow: a stock check off by one; a `continue` that comes  *)
(* back to the same row.                                                   *)
FetchRow_OffByOne(s) ==
  /\ pc[s] = "fetch"
  /\ \E r \in tx[s].rows :
       /\ tx[s].seen[r.product] >= r.quantity - 1
       /\ Record(s, [tx[s] EXCEPT !.rows = @ \ {r}])
       /\ Hold(s, r)
  /\ Goto(s, "take")
  /\ UNCHANGED <<tables, confirm, history>>

FetchRow_Repeats(s) ==
  /\ pc[s] = "fetch"
  /\ \E r \in tx[s].rows :
       IF tx[s].seen[r.product] < r.quantity
       THEN Record(s, [tx[s] EXCEPT !.short = TRUE]) /\ UNCHANGED <<pc, work>>
       ELSE /\ Record(s, [tx[s] EXCEPT !.rows = @ \ {r}])
            /\ Hold(s, r)
            /\ Goto(s, "take")
  /\ UNCHANGED <<tables, confirm, history>>

(* Fetch one row; the query has no ORDER BY.  A row whose snapshot stock   *)
(* is too small is noted and skipped.                                      *)
FetchRow(s) ==
  /\ pc[s] = "fetch"
  /\ \E r \in tx[s].rows :
       IF tx[s].seen[r.product] < r.quantity
       THEN /\ Record(s, [tx[s] EXCEPT !.rows = @ \ {r}, !.short = TRUE])
            /\ UNCHANGED <<pc, work>>
       ELSE /\ Record(s, [tx[s] EXCEPT !.rows = @ \ {r}])
            /\ Hold(s, r)
            /\ Goto(s, "take")
  /\ UNCHANGED <<tables, confirm, history>>

(* Mutant of TakeStock: one unit per line, whatever its quantity.          *)
TakeStock_OneUnit(s) ==
  /\ pc[s] = "take"
  /\ ~ProductLocked(s, work[s].product)
  /\ Record(s, [tx[s] EXCEPT !.taken[work[s].product] = @ + 1])
  /\ Goto(s, "unlink")
  /\ UNCHANGED <<tables, work, confirm, history>>

(* UPDATE prodotti SET quantitaDisponibile = quantitaDisponibile - ?       *)
(* The decrement applies to the current row, not to the snapshot.          *)
TakeStock(s) ==
  /\ pc[s] = "take"
  /\ ~ProductLocked(s, work[s].product)
  /\ Record(s, [tx[s] EXCEPT !.taken[work[s].product] = @ + work[s].quantity])
  /\ Goto(s, "unlink")
  /\ UNCHANGED <<tables, work, confirm, history>>

(* Mutant of UnlinkLine: the line stays.                                   *)
UnlinkLine_KeepsLine(s) ==
  /\ pc[s] = "unlink"
  /\ Goto(s, "close")
  /\ UNCHANGED <<tables, work, tx, confirm, history>>

(* DELETE FROM interazioni WHERE FKcartId = ?                              *)
UnlinkLine(s) ==
  /\ pc[s] = "unlink"
  /\ ~LineLocked(s, work[s].cart)
  /\ Record(s, [tx[s] EXCEPT !.unlinked = @ \cup ({work[s].cart} \cap Linked)])
  /\ Goto(s, "close")
  /\ UNCHANGED <<tables, work, confirm, history>>

(* DELETE FROM carrelli WHERE cartId = ?                                   *)
CloseCart(s) ==
  /\ pc[s] = "close"
  /\ ~CartLocked(s, work[s].cart)
  /\ IF work[s].cart \in DOMAIN carrelli
     THEN Record(s, [tx[s] EXCEPT
            !.closed = @ \cup {work[s].cart},
            !.counted[work[s].product] = @ + carrelli[work[s].cart]])
     ELSE UNCHANGED tx
  /\ Hold(s, NoRow)
  /\ Goto(s, "fetch")
  /\ UNCHANGED <<tables, confirm, history>>

(* Every exit of the transaction: locks are released and the script ends.  *)
(* The message an error leaves in $_SESSION is only displayed; the one of  *)
(* a success also opens checkout_succes.php.                               *)
EndCheckout(s) ==
  /\ Record(s, NoTx)
  /\ Hold(s, NoRow)
  /\ Goto(s, "idle")

(* $_SESSION['checkout_success'] = true, which a script that dies after    *)
(* COMMIT no longer saves.                                                 *)
Confirmed(s) ==
  \/ confirm' = [confirm EXCEPT ![s] = TRUE]
  \/ Failures /\ UNCHANGED confirm

(* Mutant of Commit: what is out of stock does not hold the rest back.     *)
Commit_Partial(s) ==
  /\ pc[s] = "fetch"
  /\ tx[s].rows = {}
  /\ stock' = [p \in Products |-> stock[p] - tx[s].taken[p]]
  /\ interazioni' = {i \in interazioni : i.cart \notin tx[s].unlinked}
  /\ carrelli' = Restrict(carrelli, DOMAIN carrelli \ tx[s].closed)
  /\ delivered' = [p \in Products |-> delivered[p] + tx[s].counted[p]]
  /\ Confirmed(s)
  /\ EndCheckout(s)
  /\ UNCHANGED <<nextCart, abandoned>>

(* Every row was in stock: COMMIT makes the writes visible.                *)
Commit(s) ==
  /\ pc[s] = "fetch"
  /\ tx[s].rows = {}
  /\ ~tx[s].short
  /\ stock' = [p \in Products |-> stock[p] - tx[s].taken[p]]
  /\ interazioni' = {i \in interazioni : i.cart \notin tx[s].unlinked}
  /\ carrelli' = Restrict(carrelli, DOMAIN carrelli \ tx[s].closed)
  /\ delivered' = [p \in Products |-> delivered[p] + tx[s].counted[p]]
  /\ Confirmed(s)
  /\ EndCheckout(s)
  /\ UNCHANGED <<nextCart, abandoned>>

(* Mutant of RollbackOutOfStock: exit() without the rollback, on a         *)
(* connection that commits what it has written.                            *)
RollbackOutOfStock_Commits(s) ==
  /\ pc[s] = "fetch"
  /\ tx[s].rows = {}
  /\ tx[s].short
  /\ stock' = [p \in Products |-> stock[p] - tx[s].taken[p]]
  /\ interazioni' = {i \in interazioni : i.cart \notin tx[s].unlinked}
  /\ carrelli' = Restrict(carrelli, DOMAIN carrelli \ tx[s].closed)
  /\ EndCheckout(s)
  /\ UNCHANGED <<nextCart, confirm, history>>

(* Some row was short: nothing of the whole cart is sold.                  *)
RollbackOutOfStock(s) ==
  /\ pc[s] = "fetch"
  /\ tx[s].rows = {}
  /\ tx[s].short
  /\ EndCheckout(s)
  /\ UNCHANGED <<tables, confirm, history>>

(* InnoDB chooses a victim among the transactions that wait for each       *)
(* other in a cycle; its statement throws.                                 *)
WaitsFor(s, t) ==
  /\ s # t
  /\ pc[s] = "take"
  /\ tx[t].taken[work[s].product] > 0

Deadlocked(s) ==
  \E D \in SUBSET Sessions :
    /\ s \in D
    /\ \A t \in D : /\ \E r \in D : WaitsFor(t, r)
                    /\ \E r \in D : WaitsFor(r, t)

(* catch (Exception $e): rollback and redirect with an error.              *)
CheckoutException(s) ==
  /\ pc[s] \in CheckoutPcs
  /\ Failures \/ Deadlocked(s)
  /\ EndCheckout(s)
  /\ UNCHANGED <<tables, confirm, history>>

-----------------------------------------------------------------------------
(* An uncaught mysqli_sql_exception, or a script or server that stops:     *)
(* the connection closes and MySQL rolls the open transaction back.  What  *)
(* autocommit statements have written stays.                               *)
RequestDies(s) ==
  /\ Failures
  /\ pc[s] # "idle"
  /\ abandoned' = IF pc[s] \in {"add_line", "remove_cart"}
                  THEN abandoned \cup {work[s].cart}
                  ELSE abandoned
  /\ Record(s, NoTx)
  /\ Hold(s, NoRow)
  /\ Goto(s, "idle")
  /\ UNCHANGED <<tables, confirm, delivered>>

(* checkout_succes.php congratulates once.                                 *)
ShowSuccess(s) ==
  /\ pc[s] = "idle"
  /\ confirm[s]
  /\ confirm' = [confirm EXCEPT ![s] = FALSE]
  /\ UNCHANGED <<tables, pc, work, tx, history>>

-----------------------------------------------------------------------------
CartStep(s) ==
  \/ AddIncrease(s) \/ AddCart(s) \/ AddLine(s)
  \/ UpdateQuantity(s)
  \/ RemoveLine(s) \/ RemoveCart(s)

CheckoutStep(s) ==
  \/ FetchRow(s) \/ TakeStock(s) \/ UnlinkLine(s) \/ CloseCart(s)
  \/ Commit(s) \/ RollbackOutOfStock(s) \/ CheckoutException(s)

Post(s) ==
  \/ \E p \in PostedIds, q \in Quantities :
       AddSelect(s, p, q) \/ UpdateSelect(s, p, q)
  \/ \E p \in PostedIds : RemoveSelect(s, p)
  \/ CheckoutSelect(s)

Next == \E s \in Sessions :
  \/ Post(s) \/ CartStep(s) \/ CheckoutStep(s) \/ RequestDies(s)
  \/ ShowSuccess(s)

Spec == Init /\ [][Next]_vars

(* A request that has started is driven by PHP to its end.  Strong         *)
(* fairness for a statement that waits for a row lock: InnoDB queues the   *)
(* waiters of a row and grants the lock to one of them at every release.   *)
Fairness == \A s \in Sessions : SF_vars(CartStep(s) \/ CheckoutStep(s))

FairSpec == Spec /\ Fairness

-----------------------------------------------------------------------------
(* Every variable holds a value of its table or PHP variable: in           *)
(* particular no cart ever stores a quantity below 1, because the handler  *)
(* raises every posted quantity to 1.                                      *)
TypeOK ==
  /\ stock \in [Products -> Int]
  /\ nextCart \in Nat \ {0}
  /\ carrelli \in [DOMAIN carrelli -> Nat \ {0}]
  /\ DOMAIN carrelli \subseteq 1 .. nextCart - 1
  /\ interazioni \subseteq Lines
  /\ pc \in [Sessions -> {"idle"} \cup CartPcs \cup CheckoutPcs]
  /\ work \in [Sessions -> Rows]
  /\ tx \in [Sessions -> Transactions]
  /\ confirm \in [Sessions -> BOOLEAN]
  /\ delivered \in [Products -> Int]
  /\ abandoned \subseteq Nat

(* Each cart line refers to a cart that exists, whatever requests          *)
(* interleave, fail or roll back: lines are inserted after their cart and  *)
(* deleted before it, so neither statement can break a foreign key.        *)
LinesHaveCarts == \A i \in interazioni : i.cart \in DOMAIN carrelli

(* A cart row without a line belongs to a request that is between its two  *)
(* writes, or to one that died there: nothing else leaves orphans behind.  *)
OrphansAreAbandoned ==
  \A c \in DOMAIN carrelli :
    \/ c \in Linked
    \/ c \in abandoned
    \/ \E s \in Sessions : /\ pc[s] \in {"add_line", "remove_cart"}
                           /\ work[s].cart = c

(* A user who is logged in with one browser has at most one line per       *)
(* product: the handler's SELECT before it inserts relies on the session   *)
(* lock to keep two of its own requests apart.                             *)
OneLinePerProduct ==
  \A i, j \in interazioni :
    i.user = j.user /\ i.product = j.product => i = j

(* "Update existing cart item": adding a product never lowers the          *)
(* quantity in the cart, although the sum is computed from a row read one  *)
(* statement earlier.                                                      *)
AddNeverLowersQuantity ==
  [][\A s \in Sessions :
       pc[s] = "add_increase" /\ pc'[s] = "idle" =>
         \A c \in DOMAIN carrelli \cap DOMAIN carrelli' :
           carrelli'[c] >= carrelli[c]]_vars

(* What checkouts took out of the stock is what was in the carts they      *)
(* deleted, no more and no less.                                           *)
StockAccounted == \A p \in Products : stock[p] + delivered[p] = InitStock[p]

(* The stock never goes below zero ("Check stock availability").           *)
NeverOversold == \A p \in Products : stock[p] >= 0

(* No open checkout takes more of a product than its snapshot offered,     *)
(* over all the rows of the product that it has processed so far.          *)
TakenWithinSnapshot ==
  \A s \in Sessions, p \in Products :
    tx[s].taken[p] > 0 => tx[s].taken[p] <= tx[s].seen[p]

(* A checkout can bring a product below zero only if another one changed   *)
(* the stock of that product after this one had read it.                   *)
OversoldOnlyByStaleRead ==
  [][\A p \in Products :
       stock'[p] < stock[p] /\ stock'[p] < 0 =>
         \E s \in Sessions : /\ pc[s] = "fetch" /\ pc'[s] = "idle"
                             /\ stock[p] # tx[s].seen[p]]_vars

(* A checkout that ends in an error or with an item out of stock leaves    *)
(* stock, carts and lines as they were, also for the items that it had     *)
(* already processed ("Start transaction for atomic operations").          *)
FailedCheckoutSellsNothing ==
  [][(\E s \in Sessions : /\ pc[s] \in CheckoutPcs /\ pc'[s] = "idle"
                          /\ tx[s].short \/ tx[s].rows # {} \/ pc[s] # "fetch")
     => UNCHANGED tables]_vars

(* A checkout that sells anything empties the whole cart of its user: no   *)
(* line of a stored product remains.                                       *)
SaleEmptiesCart ==
  [][stock' # stock =>
       \E s \in Sessions :
         /\ pc[s] = "fetch" /\ pc'[s] = "idle"
         /\ \A i \in interazioni' :
              i.user = UserOf[s] => i.product \notin Products]_vars

(* Every request reaches its end: a checkout that waits for a row lock is  *)
(* granted it or is chosen as the victim of a deadlock.                    *)
RequestsEnd == \A s \in Sessions : pc[s] # "idle" ~> pc[s] = "idle"

=============================================================================
