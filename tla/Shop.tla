-------------------------------- MODULE Shop --------------------------------
(***************************************************************************)
(* What cart_actions_handler.php promises to a user: a cart is a quantity  *)
(* per product, and a checkout sells the whole cart at once if the stock   *)
(* that it was shown suffices, and nothing otherwise.                      *)
(***************************************************************************)
EXTENDS Integers

CONSTANTS
  Users,        \* rows of utenti
  Products,     \* rows of prodotti
  InitStock,    \* units of each product at the start
  MaxQuantity   \* bound: largest quantity of a cart

VARIABLES
  stock,        \* units left of each product
  lines,        \* lines[u][p]: units of p in the cart of u, 0 if none
  offer         \* offer[u]: the stock that a running checkout of u has read, as
                \* a set of one element, or none

vars == <<stock, lines, offer>>

EmptyCart == [p \in Products |-> 0]
NoOffer == {}

Init ==
  /\ stock = InitStock
  /\ lines = [u \in Users |-> EmptyCart]
  /\ offer = [u \in Users |-> NoOffer]

(* A user shops only while no checkout of that user runs.                  *)
SetQuantity(u, p, q) ==
  /\ offer[u] = NoOffer
  /\ lines' = [lines EXCEPT ![u][p] = q]
  /\ UNCHANGED <<stock, offer>>

BeginCheckout(u) ==
  /\ offer[u] = NoOffer
  /\ offer' = [offer EXCEPT ![u] = {stock}]
  /\ UNCHANGED <<stock, lines>>

(* The sale compares the cart with the offer, not with the stock of now.   *)
Buy(u) ==
  /\ \E shown \in offer[u] :
       \A p \in Products : lines[u][p] > 0 => lines[u][p] <= shown[p]
  /\ stock' = [p \in Products |-> stock[p] - lines[u][p]]
  /\ lines' = [lines EXCEPT ![u] = EmptyCart]
  /\ offer' = [offer EXCEPT ![u] = NoOffer]

CancelCheckout(u) ==
  /\ offer[u] # NoOffer
  /\ offer' = [offer EXCEPT ![u] = NoOffer]
  /\ UNCHANGED <<stock, lines>>

Next == \E u \in Users :
  \/ \E p \in Products, q \in 0 .. MaxQuantity : SetQuantity(u, p, q)
  \/ BeginCheckout(u) \/ Buy(u) \/ CancelCheckout(u)

Spec == Init /\ [][Next]_vars
=============================================================================
