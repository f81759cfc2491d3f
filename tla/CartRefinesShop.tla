--------------------------- MODULE CartRefinesShop ---------------------------
(***************************************************************************)
(* Cart implements Shop when every user is logged in with one session: the *)
(* session lock is what makes a request look like one step to its user.    *)
(***************************************************************************)
EXTENDS Cart

(* The quantity that the page shows for a user and a product.              *)
QuantityOf(s, p) ==
  IF CartsOf(s, p) = {} THEN 0 ELSE carrelli[CHOOSE c \in CartsOf(s, p) : TRUE]

linesBar == [u \in Users |-> [p \in Products |->
  QuantityOf(CHOOSE s \in Sessions : UserOf[s] = u, p)]]

offerBar == [u \in Users |->
  LET s == CHOOSE t \in Sessions : UserOf[t] = u IN
  IF pc[s] \in CheckoutPcs THEN {tx[s].seen} ELSE {}]

S == INSTANCE Shop WITH lines <- linesBar, offer <- offerBar

(* Every step of the handler is a step of the shop or changes nothing that *)
(* the shop shows: carts change one product at a time, and a checkout      *)
(* sells all of a cart, against the stock it read, or nothing.             *)
ImplementsShop == S!Spec
=============================================================================
