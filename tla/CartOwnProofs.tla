---------------------------- MODULE CartOwnProofs ----------------------------
(***************************************************************************)
(* Proofs about Cart when every user is logged in with one session, for    *)
(* any number of users and products, with failures.  The session lock then *)
(* keeps the requests of a user apart, sales add up, and Cart implements   *)
(* Shop.                                                                   *)
(***************************************************************************)
EXTENDS CartProofs, CartRefinesShop

OneSessionEach == \A s, t \in Sessions : UserOf[s] = UserOf[t] => s = t

(* The line of a session's user for a product and a cart.                  *)
Mine(s, p, c) == [user |-> UserOf[s], product |-> p, cart |-> c]

(* Between the SELECT of 'add' and its last INSERT there is no line yet.   *)
NoLineYet(s) ==
  pc[s] \in {"add_cart", "add_line"} =>
    \A i \in interazioni : i.user = UserOf[s] => i.product # work[s].product

(* What a request holds is a line that is still there, with the quantity   *)
(* that was read.                                                          *)
HoldsLine(s) ==
  /\ pc[s] \in {"add_increase", "update_quantity", "remove_line"} =>
       Mine(s, work[s].product, work[s].cart) \in interazioni
  /\ pc[s] = "add_increase" => carrelli[work[s].cart] <= work[s].quantity
  /\ pc[s] \in {"take", "unlink", "close"} =>
       /\ work[s].product \in Products
       /\ Mine(s, work[s].product, work[s].cart) \in interazioni
       /\ carrelli[work[s].cart] = work[s].quantity

(* So is every row of a checkout that has not been fetched.                *)
RowsAreLines(s) ==
  \A r \in tx[s].rows :
    /\ r.product \in Products
    /\ Mine(s, r.product, r.cart) \in interazioni
    /\ carrelli[r.cart] = r.quantity

(* A checkout deletes lines and carts of its own user only.                *)
DeletesOwn(s) ==
  \A c \in tx[s].unlinked \cup tx[s].closed :
    \E i \in interazioni : i.user = UserOf[s] /\ i.cart = c

(* What was taken is what was in the carts deleted so far, and in the one  *)
(* at hand.                                                                *)
TakesWhatItCloses(s) ==
  IF pc[s] \in {"unlink", "close"}
  THEN tx[s].taken = [tx[s].counted EXCEPT ![work[s].product] =
                        tx[s].counted[work[s].product] + work[s].quantity]
  ELSE tx[s].taken = tx[s].counted

(* Each product is taken once, and not beyond the snapshot.                *)
TakesOnce(s) ==
  /\ \A p \in Products : tx[s].taken[p] > 0 => tx[s].taken[p] <= tx[s].seen[p]
  /\ \A r \in tx[s].rows : tx[s].taken[r.product] = 0
  /\ \A r, q \in tx[s].rows : r.product = q.product => r = q
  /\ pc[s] \in {"take", "unlink", "close"} =>
       \A r \in tx[s].rows : r.product # work[s].product
  /\ pc[s] = "take" =>
       /\ tx[s].taken[work[s].product] = 0
       /\ work[s].quantity <= tx[s].seen[work[s].product]

(* A checkout has deleted, holds or will fetch every line of its user, or  *)
(* has found an item out of stock.                                         *)
CoversCart(s) ==
  pc[s] \in CheckoutPcs /\ ~tx[s].short =>
    \A i \in interazioni :
      i.user = UserOf[s] /\ i.product \in Products =>
        \/ i.cart \in tx[s].unlinked
        \/ \E r \in tx[s].rows : r.cart = i.cart
        \/ pc[s] \in {"take", "unlink"} /\ i.cart = work[s].cart

Own(s) ==
  /\ pc[s] \notin CheckoutPcs => tx[s] = NoTx
  /\ NoLineYet(s)
  /\ HoldsLine(s)
  /\ RowsAreLines(s)
  /\ DeletesOwn(s)
  /\ TakesWhatItCloses(s)
  /\ TakesOnce(s)
  /\ CoversCart(s)

(* A cart has one line.                                                    *)
OneLinePerCart == \A i, j \in interazioni : i.cart = j.cart => i = j

OwnInv ==
  /\ IInv
  /\ OneLinePerProduct
  /\ OneLinePerCart
  /\ \A s \in Sessions : Own(s)

(* A step of one session.                                                  *)
Step(s) ==
  Post(s) \/ CartStep(s) \/ CheckoutStep(s) \/ RequestDies(s) \/ ShowSuccess(s)

-----------------------------------------------------------------------------
(* A session without a request in a checkout or in the middle of 'add',    *)
(* with no line in hand.                                                   *)
LEMMA QuietOwn ==
  ASSUME NEW s \in Sessions, pc[s] \in {"idle", "remove_cart"}, tx[s] = NoTx
  PROVE  Own(s)
  <1>1. /\ tx[s].rows = {} /\ tx[s].unlinked = {} /\ tx[s].closed = {}
        /\ tx[s].taken = tx[s].counted
        /\ \A p \in Products : tx[s].taken[p] = 0
    BY DEF NoTx, Zero
  <1>2. /\ NoLineYet(s) /\ HoldsLine(s) /\ RowsAreLines(s) /\ DeletesOwn(s)
        /\ TakesWhatItCloses(s) /\ CoversCart(s)
    BY <1>1 DEF NoLineYet, HoldsLine, RowsAreLines, DeletesOwn,
                TakesWhatItCloses, CoversCart, CheckoutPcs
  <1>3. TakesOnce(s)
    BY <1>1 DEF TakesOnce
  <1> QED
    BY <1>2, <1>3 DEF Own

(* The same after a step.                                                  *)
LEMMA QuietOwnNext ==
  ASSUME NEW s \in Sessions, pc'[s] \in {"idle", "remove_cart"}, tx'[s] = NoTx
  PROVE  Own(s)'
  <1>1. /\ tx'[s].rows = {} /\ tx'[s].unlinked = {} /\ tx'[s].closed = {}
        /\ tx'[s].taken = tx'[s].counted
        /\ \A p \in Products : tx'[s].taken[p] = 0
    BY DEF NoTx, Zero
  <1>2. /\ NoLineYet(s)' /\ HoldsLine(s)' /\ RowsAreLines(s)' /\ DeletesOwn(s)'
        /\ TakesWhatItCloses(s)' /\ CoversCart(s)'
    BY <1>1 DEF NoLineYet, HoldsLine, RowsAreLines, DeletesOwn,
                TakesWhatItCloses, CoversCart, CheckoutPcs
  <1>3. TakesOnce(s)'
    BY <1>1 DEF TakesOnce
  <1> QED
    BY <1>2, <1>3 DEF Own

(* A line is what its user, product and cart say.                          *)
LEMMA LineIsMine ==
  ASSUME TypeOK, NEW s \in Sessions, NEW i \in interazioni,
         i.user = UserOf[s]
  PROVE  i = Mine(s, i.product, i.cart)
  BY DEF TypeOK, Lines, Mine

-----------------------------------------------------------------------------
(* A step keeps what a session holds and the lines and carts of its user.  *)
Untouched(s) ==
  /\ pc'[s] = pc[s] /\ work'[s] = work[s] /\ tx'[s] = tx[s]
  /\ \A i : i.user = UserOf[s] => (i \in interazioni' <=> i \in interazioni)
  /\ \A i \in interazioni : i.user = UserOf[s] => carrelli'[i.cart] = carrelli[i.cart]

(* Requests of other sessions belong to other users.                       *)
LEMMA OthersAreUntouched ==
  ASSUME OwnInv, OneSessionEach, NEW t \in Sessions, NEW s \in Sessions \ {t},
         Step(t)
  PROVE  Untouched(s)
  <1> USE DEF Goto, Hold, Record, tables, history
  <1>1. UserOf[s] # UserOf[t]
    BY DEF OneSessionEach
  <1>2. TypeOK /\ LinesHaveCarts /\ NewCartIsPrivate /\ UnlinkedBeforeDeleted
    BY DEF OwnInv, IInv
  <1>3. Own(t)
    BY DEF OwnInv
  <1>4. /\ DOMAIN pc = Sessions /\ DOMAIN work = Sessions /\ DOMAIN tx = Sessions
        /\ \A i \in interazioni : i.cart \in DOMAIN carrelli /\ i.cart # nextCart
    BY <1>2 DEF TypeOK, LinesHaveCarts
  <1>5. CASE Post(t)
    BY <1>4, <1>5 DEF Post, AddSelect, UpdateSelect, RemoveSelect,
                      CheckoutSelect, Untouched
  <1>6. CASE AddIncrease(t) \/ UpdateQuantity(t)
    <2>1. /\ WriteQuantity(t)
          /\ Mine(t, work[t].product, work[t].cart) \in interazioni
      BY <1>3, <1>6 DEF AddIncrease, UpdateQuantity, Own, HoldsLine
    <2>2. \A i \in interazioni : i.user = UserOf[s] => i.cart # work[t].cart
      BY <1>1, <2>1 DEF Mine, OwnInv, OneLinePerCart
    <2> QED
      BY <1>4, <2>1, <2>2 DEF WriteQuantity, Untouched
  <1>7. CASE AddCart(t)
    BY <1>4, <1>7 DEF AddCart, Untouched
  <1>8. CASE AddLine(t)
    BY <1>1, <1>4, <1>8 DEF AddLine, Untouched
  <1>9. CASE RemoveLine(t)
    <2>1. Mine(t, work[t].product, work[t].cart) \in interazioni
      BY <1>3, <1>9 DEF RemoveLine, Own, HoldsLine
    <2>2. \A i \in interazioni : i.user = UserOf[s] => i.cart # work[t].cart
      BY <1>1, <2>1 DEF Mine, OwnInv, OneLinePerCart
    <2> QED
      BY <1>4, <1>9, <2>2 DEF RemoveLine, Untouched
  <1>10. CASE RemoveCart(t)
    <2>1. \A i \in interazioni : i.cart # work[t].cart
      BY <1>2, <1>10 DEF RemoveCart, UnlinkedBeforeDeleted, Linked
    <2> QED
      BY <1>4, <1>10, <2>1 DEF RemoveCart, Restrict, Untouched
  <1>11. CASE FetchRow(t) \/ TakeStock(t) \/ UnlinkLine(t) \/ CloseCart(t)
    BY <1>4, <1>11 DEF FetchRow, TakeStock, UnlinkLine, CloseCart, Untouched
  <1>12. CASE Commit(t)
    <2>1. \A i \in interazioni : i.user = UserOf[s] =>
            i.cart \notin tx[t].unlinked /\ i.cart \notin tx[t].closed
      <3>1. \A c \in tx[t].unlinked \cup tx[t].closed :
              \E i \in interazioni : i.user = UserOf[t] /\ i.cart = c
        BY <1>3 DEF Own, DeletesOwn
      <3>2. \A i \in interazioni : i.user = UserOf[s] =>
              i.cart \notin tx[t].unlinked \cup tx[t].closed
        <4> SUFFICES ASSUME NEW i \in interazioni, i.user = UserOf[s],
                            i.cart \in tx[t].unlinked \cup tx[t].closed
                     PROVE  FALSE
          OBVIOUS
        <4>1. PICK j \in interazioni : j.user = UserOf[t] /\ j.cart = i.cart
          BY <3>1
        <4>2. i = j
          BY <4>1 DEF OwnInv, OneLinePerCart
        <4> QED
          BY <1>1, <4>1, <4>2
      <3> QED
        BY <3>2
    <2>2. /\ pc'[s] = pc[s] /\ work'[s] = work[s] /\ tx'[s] = tx[s]
          /\ interazioni' = {i \in interazioni : i.cart \notin tx[t].unlinked}
          /\ carrelli' = Restrict(carrelli, DOMAIN carrelli \ tx[t].closed)
      BY <1>4, <1>12 DEF Commit, EndCheckout
    <2>3. \A i \in interazioni : i.user = UserOf[s] =>
            carrelli'[i.cart] = carrelli[i.cart]
      BY <1>4, <2>1, <2>2 DEF Restrict
    <2> QED
      BY <2>1, <2>2, <2>3 DEF Untouched
  <1>13. CASE RollbackOutOfStock(t) \/ CheckoutException(t)
    BY <1>4, <1>13 DEF RollbackOutOfStock, CheckoutException, EndCheckout, Untouched
  <1>14. CASE RequestDies(t) \/ ShowSuccess(t)
    BY <1>4, <1>14 DEF RequestDies, ShowSuccess, Untouched
  <1> QED
    BY <1>5, <1>6, <1>7, <1>8, <1>9, <1>10, <1>11, <1>12, <1>13, <1>14
       DEF Step, CartStep, CheckoutStep

(* What is said of a session speaks of nothing else.                       *)
LEMMA UntouchedKeepsOwn ==
  ASSUME OwnInv, NEW s \in Sessions, Untouched(s)
  PROVE  Own(s)'
  <1>1. Own(s)
    BY DEF OwnInv
  <1>2. /\ pc'[s] = pc[s] /\ work'[s] = work[s] /\ tx'[s] = tx[s]
        /\ \A i : i.user = UserOf[s] => (i \in interazioni' <=> i \in interazioni)
        /\ \A p, c : Mine(s, p, c) \in interazioni' <=> Mine(s, p, c) \in interazioni
        /\ \A p, c : Mine(s, p, c) \in interazioni => carrelli'[c] = carrelli[c]
    BY DEF Untouched, Mine
  <1>3. NoLineYet(s)' /\ CoversCart(s)'
    BY <1>1, <1>2 DEF Own, NoLineYet, CoversCart
  <1>4. HoldsLine(s)'
    BY <1>1, <1>2 DEF Own, HoldsLine
  <1>5. RowsAreLines(s)'
    BY <1>1, <1>2 DEF Own, RowsAreLines
  <1>6. DeletesOwn(s)'
    BY <1>1, <1>2 DEF Own, DeletesOwn
  <1>7. TakesWhatItCloses(s)'
    BY <1>1, <1>2 DEF Own, TakesWhatItCloses
  <1>8. TakesOnce(s)' /\ (pc'[s] \notin CheckoutPcs => tx'[s] = NoTx)
    BY <1>1, <1>2 DEF Own, TakesOnce
  <1> QED
    BY <1>3, <1>4, <1>5, <1>6, <1>7, <1>8 DEF Own

-----------------------------------------------------------------------------
(* The first statement of a request of the cart.                           *)
LEMMA PostKeepsOwn ==
  ASSUME OwnInv, NEW s \in Sessions,
         \/ \E p \in PostedIds, q \in Quantities :
              AddSelect(s, p, q) \/ UpdateSelect(s, p, q)
         \/ \E p \in PostedIds : RemoveSelect(s, p)
  PROVE  Own(s)'
  <1> USE DEF Goto, Hold, tables, history
  <1>1. TypeOK /\ LinesHaveCarts /\ Own(s)
    BY DEF OwnInv, IInv
  <1>2. /\ pc[s] = "idle" /\ tx' = tx /\ interazioni' = interazioni
        /\ carrelli' = carrelli
    BY DEF AddSelect, UpdateSelect, RemoveSelect
  <1>3. tx'[s] = NoTx
    BY <1>1, <1>2 DEF Own, CheckoutPcs
  <1>4. PICK p \in PostedIds :
          \/ /\ pc'[s] \in {"add_increase", "update_quantity", "remove_line"}
             /\ work'[s].product = p
             /\ Mine(s, p, work'[s].cart) \in interazioni
             /\ pc'[s] = "add_increase" => carrelli[work'[s].cart] <= work'[s].quantity
          \/ /\ pc'[s] = "add_cart"
             /\ work'[s].product = p
             /\ LinesOf(s, p) = {}
    <2>1. ASSUME NEW p \in PostedIds, NEW c \in CartsOf(s, p)
          PROVE  Mine(s, p, c) \in interazioni /\ carrelli[c] \in Nat
      BY <1>1, <2>1, LineIsMine DEF CartsOf, LinesOf, TypeOK
    <2>2. ASSUME NEW p \in PostedIds, NEW q \in Quantities, UpdateSelect(s, p, q)
          PROVE  /\ pc'[s] = "update_quantity"
                 /\ work'[s].product = p
                 /\ Mine(s, p, work'[s].cart) \in interazioni
      BY <1>1, <2>1, <2>2 DEF UpdateSelect, TypeOK
    <2>3. ASSUME NEW p \in PostedIds, RemoveSelect(s, p)
          PROVE  /\ pc'[s] = "remove_line"
                 /\ work'[s].product = p
                 /\ Mine(s, p, work'[s].cart) \in interazioni
      BY <1>1, <2>3, LineIsMine DEF RemoveSelect, LinesOf, TypeOK
    <2>4. ASSUME NEW p \in PostedIds, NEW q \in Quantities, AddSelect(s, p, q)
          PROVE  \/ /\ pc'[s] = "add_increase"
                    /\ work'[s].product = p
                    /\ Mine(s, p, work'[s].cart) \in interazioni
                    /\ carrelli[work'[s].cart] <= work'[s].quantity
                 \/ /\ pc'[s] = "add_cart"
                    /\ work'[s].product = p
                    /\ LinesOf(s, p) = {}
      <3>1. EffectiveQuantity(q) \in Nat
        BY EffectiveQuantityPositive
      <3>2. CASE CartsOf(s, p) = {}
        <4>1. LinesOf(s, p) = {}
          BY <1>1, <3>2 DEF CartsOf, LinesOf, LinesHaveCarts
        <4> QED
          BY <1>1, <2>4, <3>2, <4>1 DEF AddSelect, TypeOK
      <3>3. ASSUME NEW c \in CartsOf(s, p),
                   Hold(s, [product |-> p, cart |-> c,
                            quantity |-> carrelli[c] + EffectiveQuantity(q)]),
                   Goto(s, "add_increase")
            PROVE  /\ pc'[s] = "add_increase"
                   /\ work'[s].product = p
                   /\ Mine(s, p, work'[s].cart) \in interazioni
                   /\ carrelli[work'[s].cart] <= work'[s].quantity
        <4>1. pc'[s] = "add_increase" /\ work'[s] =
                [product |-> p, cart |-> c,
                 quantity |-> carrelli[c] + EffectiveQuantity(q)]
          BY <1>1, <3>3 DEF TypeOK
        <4>2. carrelli[c] \in Nat /\ Mine(s, p, c) \in interazioni
          BY <2>1
        <4> QED
          BY <3>1, <4>1, <4>2
      <3> QED
        BY <2>4, <3>2, <3>3 DEF AddSelect
    <2> QED
      BY <2>2, <2>3, <2>4
  <1>5. /\ tx'[s].rows = {} /\ tx'[s].unlinked = {} /\ tx'[s].closed = {}
        /\ tx'[s].taken = tx'[s].counted
        /\ \A r \in Products : tx'[s].taken[r] = 0
    BY <1>3 DEF NoTx, Zero
  <1>6. NoLineYet(s)' /\ HoldsLine(s)'
    BY <1>2, <1>4 DEF NoLineYet, HoldsLine, LinesOf, Mine
  <1>7. /\ RowsAreLines(s)' /\ DeletesOwn(s)' /\ TakesWhatItCloses(s)'
        /\ CoversCart(s)'
    BY <1>4, <1>5 DEF RowsAreLines, DeletesOwn, TakesWhatItCloses, CoversCart,
                      CheckoutPcs
  <1>8. TakesOnce(s)'
    BY <1>4, <1>5 DEF TakesOnce
  <1> QED
    BY <1>3, <1>6, <1>7, <1>8 DEF Own

(* The statements that follow end the request, or hold the new cart, or    *)
(* have deleted the line.                                                  *)
LEMMA CartStepKeepsOwn ==
  ASSUME OwnInv, NEW s \in Sessions, CartStep(s)
  PROVE  Own(s)'
  <1> USE DEF Goto, Hold, tables, history
  <1>1. TypeOK /\ Own(s)
    BY DEF OwnInv, IInv
  <1>2. tx'[s] = NoTx
    BY <1>1 DEF CartStep, AddIncrease, UpdateQuantity, WriteQuantity, AddCart,
                AddLine, RemoveLine, RemoveCart, Own, CheckoutPcs
  <1>3. CASE AddCart(s)
    <2>1. /\ pc'[s] = "add_line" /\ work'[s].product = work[s].product
          /\ interazioni' = interazioni
      BY <1>1, <1>3 DEF AddCart, TypeOK, Rows
    <2>2. NoLineYet(s)' /\ HoldsLine(s)' /\ CoversCart(s)'
      BY <1>1, <1>3, <2>1 DEF AddCart, Own, NoLineYet, HoldsLine, CoversCart,
                              CheckoutPcs
    <2>3. /\ tx'[s].rows = {} /\ tx'[s].unlinked = {} /\ tx'[s].closed = {}
          /\ tx'[s].taken = tx'[s].counted
          /\ \A p \in Products : tx'[s].taken[p] = 0
      BY <1>2 DEF NoTx, Zero
    <2>4. RowsAreLines(s)' /\ DeletesOwn(s)' /\ TakesWhatItCloses(s)'
      BY <2>1, <2>3 DEF RowsAreLines, DeletesOwn, TakesWhatItCloses
    <2>5. TakesOnce(s)'
      BY <2>1, <2>3 DEF TakesOnce
    <2> QED
      BY <1>2, <2>2, <2>4, <2>5 DEF Own
  <1>4. CASE ~AddCart(s)
    <2>1. pc'[s] \in {"idle", "remove_cart"}
      BY <1>1, <1>4 DEF CartStep, AddIncrease, UpdateQuantity, WriteQuantity,
                        AddLine, RemoveLine, RemoveCart, TypeOK
    <2> QED
      BY <1>2, <2>1, QuietOwnNext
  <1> QED
    BY <1>3, <1>4

(* Every exit of a checkout, and the success page.                         *)
LEMMA EndKeepsOwn ==
  ASSUME OwnInv, NEW s \in Sessions,
         \/ Commit(s) \/ RollbackOutOfStock(s) \/ CheckoutException(s)
         \/ RequestDies(s) \/ ShowSuccess(s)
  PROVE  Own(s)'
  <1>1. TypeOK /\ Own(s)
    BY DEF OwnInv, IInv
  <1>2. pc'[s] = "idle" /\ tx'[s] = NoTx
    BY <1>1 DEF Commit, RollbackOutOfStock, CheckoutException, EndCheckout,
                RequestDies, ShowSuccess, Goto, Record, TypeOK, Own, CheckoutPcs
  <1> QED
    BY <1>2, QuietOwnNext

-----------------------------------------------------------------------------
(* BEGIN and the SELECT that fixes the snapshot: one row for each line of  *)
(* the user that can be sold.                                              *)
LEMMA SelectKeepsOwn ==
  ASSUME OwnInv, NEW s \in Sessions, CheckoutSelect(s)
  PROVE  Own(s)'
  <1> DEFINE sold == {l \in interazioni : /\ l.user = UserOf[s]
                                          /\ l.product \in Products
                                          /\ l.cart \in DOMAIN carrelli}
             rows == {[product |-> i.product, cart |-> i.cart,
                       quantity |-> carrelli[i.cart]] : i \in sold}
  <1>1. TypeOK /\ LinesHaveCarts /\ OneLinePerProduct
    BY DEF OwnInv, IInv
  <1>2. /\ pc'[s] = "fetch"
        /\ interazioni' = interazioni /\ carrelli' = carrelli
        /\ tx'[s] = [NoTx EXCEPT !.seen = stock, !.rows = rows]
    BY <1>1 DEF CheckoutSelect, Goto, Record, tables, TypeOK
  <1>3. \A r \in rows : \E i \in sold :
          r.product = i.product /\ r.cart = i.cart /\ r.quantity = carrelli[i.cart]
    OBVIOUS
  <1>4. ASSUME NEW i \in sold PROVE \E r \in rows : r.cart = i.cart
    <2> DEFINE r == [product |-> i.product, cart |-> i.cart,
                     quantity |-> carrelli[i.cart]]
    <2>1. r \in rows
      OBVIOUS
    <2>2. r.cart = i.cart
      OBVIOUS
    <2> QED
      BY <2>1, <2>2
  <1>5. ASSUME NEW r \in rows, NEW q \in rows, r.product = q.product
        PROVE  r = q
    <2>1. PICK i \in sold : r = [product |-> i.product, cart |-> i.cart,
                                 quantity |-> carrelli[i.cart]]
      OBVIOUS
    <2>2. PICK j \in sold : q = [product |-> j.product, cart |-> j.cart,
                                 quantity |-> carrelli[j.cart]]
      OBVIOUS
    <2>3. i.product = j.product
      BY <1>5, <2>1, <2>2
    <2>4. i = j
      BY <1>1, <2>3 DEF OneLinePerProduct
    <2> QED
      BY <2>1, <2>2, <2>4
  <1>6. /\ tx'[s].rows = rows /\ tx'[s].unlinked = {} /\ tx'[s].closed = {}
        /\ tx'[s].taken = tx'[s].counted
        /\ \A p \in Products : tx'[s].taken[p] = 0
    <2> HIDE DEF rows
    <2> QED
      BY <1>2 DEF NoTx, Zero
  <1>7. \A i \in sold : i = Mine(s, i.product, i.cart) /\ i.product \in Products
    BY <1>1, LineIsMine
  <1>8. \A i \in interazioni :
          i.user = UserOf[s] /\ i.product \in Products => i \in sold
    BY <1>1 DEF LinesHaveCarts
  <1>9. sold \subseteq interazioni
    OBVIOUS
  <1> HIDE DEF rows, sold
  <1>10. RowsAreLines(s)'
    BY <1>2, <1>3, <1>6, <1>7, <1>9 DEF RowsAreLines
  <1>11. CoversCart(s)'
    BY <1>2, <1>4, <1>6, <1>8 DEF CoversCart
  <1>12. TakesOnce(s)'
    BY <1>2, <1>3, <1>5, <1>6, <1>7 DEF TakesOnce
  <1>13. NoLineYet(s)' /\ HoldsLine(s)' /\ DeletesOwn(s)' /\ TakesWhatItCloses(s)'
    BY <1>2, <1>6 DEF NoLineYet, HoldsLine, DeletesOwn, TakesWhatItCloses
  <1> QED
    BY <1>2, <1>10, <1>11, <1>12, <1>13 DEF Own, CheckoutPcs

(* The row that is fetched is in hand, or is noted as out of stock.        *)
LEMMA FetchKeepsOwn ==
  ASSUME OwnInv, NEW s \in Sessions, FetchRow(s)
  PROVE  Own(s)'
  <1>1. TypeOK /\ Own(s)
    BY DEF OwnInv, IInv
  <1>2. pc[s] = "fetch" /\ interazioni' = interazioni /\ carrelli' = carrelli
    BY DEF FetchRow, tables
  <1>3. PICK r \in tx[s].rows :
          IF tx[s].seen[r.product] < r.quantity
          THEN /\ Record(s, [tx[s] EXCEPT !.rows = @ \ {r}, !.short = TRUE])
               /\ UNCHANGED <<pc, work>>
          ELSE /\ Record(s, [tx[s] EXCEPT !.rows = @ \ {r}])
               /\ Hold(s, r)
               /\ Goto(s, "take")
    BY DEF FetchRow
  <1>4. /\ tx[s] \in Transactions /\ r \in Rows
        /\ tx \in [Sessions -> Transactions]
        /\ DOMAIN pc = Sessions /\ DOMAIN work = Sessions
    BY <1>1 DEF TypeOK, Transactions
  <1>5. /\ tx'[s].rows = tx[s].rows \ {r}
        /\ tx'[s].taken = tx[s].taken /\ tx'[s].counted = tx[s].counted
        /\ tx'[s].seen = tx[s].seen
        /\ tx'[s].unlinked = tx[s].unlinked /\ tx'[s].closed = tx[s].closed
    <2>1. \/ tx'[s] = [tx[s] EXCEPT !.rows = @ \ {r}, !.short = TRUE]
          \/ tx'[s] = [tx[s] EXCEPT !.rows = @ \ {r}]
      BY <1>3, <1>4 DEF Record
    <2>2. CASE tx'[s] = [tx[s] EXCEPT !.rows = @ \ {r}, !.short = TRUE]
      BY <1>4, <2>2 DEF Transactions
    <2>3. CASE tx'[s] = [tx[s] EXCEPT !.rows = @ \ {r}]
      BY <1>4, <2>3 DEF Transactions
    <2> QED
      BY <2>1, <2>2, <2>3
  <1>6. \/ /\ pc'[s] = "fetch"
           /\ tx'[s].short
        \/ /\ pc'[s] = "take"
           /\ work'[s] = r
           /\ tx'[s].short = tx[s].short
           /\ ~(tx[s].seen[r.product] < r.quantity)
    <2>1. CASE tx[s].seen[r.product] < r.quantity
      <3>1. tx'[s] = [tx[s] EXCEPT !.rows = @ \ {r}, !.short = TRUE]
        BY <1>3, <1>4, <2>1 DEF Record
      <3>2. tx'[s].short
        BY <1>4, <3>1, Zenon DEF Transactions
      <3> QED
        BY <1>2, <1>3, <2>1, <3>2
    <2>2. CASE ~(tx[s].seen[r.product] < r.quantity)
      BY <1>2, <1>3, <1>4, <2>2 DEF Record, Transactions, Hold, Goto
    <2> QED
      BY <2>1, <2>2
  <1>7. /\ r.product \in Products
        /\ Mine(s, r.product, r.cart) \in interazioni
        /\ carrelli[r.cart] = r.quantity
        /\ tx[s].taken[r.product] = 0
        /\ \A q \in tx[s].rows \ {r} : q.product # r.product
    BY <1>1 DEF Own, RowsAreLines, TakesOnce
  <1>8. tx[s].seen[r.product] \in Int /\ r.quantity \in Int
    BY <1>4, <1>7 DEF Transactions, Rows
  <1>9. NoLineYet(s)' /\ HoldsLine(s)'
    BY <1>2, <1>6, <1>7 DEF NoLineYet, HoldsLine
  <1>10. RowsAreLines(s)' /\ DeletesOwn(s)' /\ TakesWhatItCloses(s)'
    BY <1>1, <1>2, <1>5, <1>6
       DEF Own, RowsAreLines, DeletesOwn, TakesWhatItCloses
  <1>11. TakesOnce(s)'
    BY <1>1, <1>2, <1>5, <1>6, <1>7, <1>8 DEF Own, TakesOnce
  <1>12. CoversCart(s)'
    BY <1>1, <1>2, <1>5, <1>6 DEF Own, CoversCart, CheckoutPcs
  <1> QED
    BY <1>6, <1>9, <1>10, <1>11, <1>12 DEF Own, CheckoutPcs

(* The stock of the row in hand is taken once, within the snapshot.        *)
LEMMA TakeKeepsOwn ==
  ASSUME OwnInv, NEW s \in Sessions, TakeStock(s)
  PROVE  Own(s)'
  <1> DEFINE p == work[s].product
             n == work[s].quantity
  <1>1. TypeOK /\ Own(s)
    BY DEF OwnInv, IInv
  <1>2. /\ pc[s] = "take" /\ pc'[s] = "unlink" /\ work' = work
        /\ interazioni' = interazioni /\ carrelli' = carrelli
    BY <1>1 DEF TakeStock, tables, Goto, TypeOK
  <1>3. /\ tx[s].taken \in [Products -> Int] /\ p \in Products /\ n \in Int
        /\ tx[s].seen \in [Products -> Int]
    BY <1>1, <1>2 DEF TypeOK, Transactions, Rows, Own, HoldsLine
  <1>4. /\ tx'[s].rows = tx[s].rows /\ tx'[s].short = tx[s].short
        /\ tx'[s].counted = tx[s].counted /\ tx'[s].seen = tx[s].seen
        /\ tx'[s].unlinked = tx[s].unlinked /\ tx'[s].closed = tx[s].closed
        /\ tx'[s].taken = [tx[s].taken EXCEPT ![p] = @ + n]
    <2>1. /\ tx[s] \in Transactions /\ tx \in [Sessions -> Transactions]
      BY <1>1 DEF TypeOK
    <2>2. tx'[s] = [tx[s] EXCEPT !.taken = [tx[s].taken EXCEPT ![p] = @ + n]]
      BY <2>1 DEF TakeStock, Record
    <2> HIDE DEF p, n
    <2> QED
      BY <2>1, <2>2 DEF Transactions
  <1>5. /\ tx'[s].taken[p] = tx[s].taken[p] + n
        /\ \A q \in Products : q # p => tx'[s].taken[q] = tx[s].taken[q]
    BY <1>3, <1>4
  <1>6. NoLineYet(s)' /\ HoldsLine(s)' /\ RowsAreLines(s)' /\ DeletesOwn(s)'
    BY <1>1, <1>2, <1>4
       DEF Own, NoLineYet, HoldsLine, RowsAreLines, DeletesOwn
  <1>7. TakesWhatItCloses(s)'
    BY <1>1, <1>2, <1>4 DEF Own, TakesWhatItCloses
  <1>8. TakesOnce(s)'
    <2>1. tx[s].taken[p] = 0 /\ n <= tx[s].seen[p]
      BY <1>1, <1>2 DEF Own, TakesOnce
    <2>2. \A r \in tx[s].rows : r.product # p /\ r.product \in Products
      BY <1>1, <1>2 DEF Own, TakesOnce, RowsAreLines
    <2>3. \A q \in Products :
            tx'[s].taken[q] > 0 => tx'[s].taken[q] <= tx'[s].seen[q]
      BY <1>1, <1>3, <1>4, <1>5, <2>1 DEF Own, TakesOnce
    <2>4. /\ \A r \in tx[s].rows : tx[s].taken[r.product] = 0
          /\ \A r, q \in tx[s].rows : r.product = q.product => r = q
      BY <1>1 DEF Own, TakesOnce
    <2>5. \A r \in tx'[s].rows : tx'[s].taken[r.product] = 0
      BY <1>4, <1>5, <2>2, <2>4
    <2>6. /\ \A r, q \in tx'[s].rows : r.product = q.product => r = q
          /\ \A r \in tx'[s].rows : r.product # work'[s].product
          /\ pc'[s] # "take"
      BY <1>2, <1>4, <2>2, <2>4
    <2> HIDE DEF p, n
    <2> QED
      BY <2>3, <2>5, <2>6 DEF TakesOnce
  <1>9. CoversCart(s)'
    BY <1>1, <1>2, <1>4 DEF Own, CoversCart, CheckoutPcs
  <1> QED
    BY <1>2, <1>6, <1>7, <1>8, <1>9 DEF Own, CheckoutPcs

(* The line in hand is deleted.                                            *)
LEMMA UnlinkKeepsOwn ==
  ASSUME OwnInv, NEW s \in Sessions, UnlinkLine(s)
  PROVE  Own(s)'
  <1>1. TypeOK /\ Own(s)
    BY DEF OwnInv, IInv
  <1>2. /\ pc[s] = "unlink" /\ pc'[s] = "close" /\ work' = work
        /\ interazioni' = interazioni /\ carrelli' = carrelli
    BY <1>1 DEF UnlinkLine, tables, Goto, TypeOK
  <1>3. Mine(s, work[s].product, work[s].cart) \in interazioni
    BY <1>1, <1>2 DEF Own, HoldsLine
  <1>4. work[s].cart \in Linked
    BY <1>3 DEF Linked, Mine
  <1>5. /\ tx'[s].rows = tx[s].rows /\ tx'[s].short = tx[s].short
        /\ tx'[s].counted = tx[s].counted /\ tx'[s].seen = tx[s].seen
        /\ tx'[s].taken = tx[s].taken /\ tx'[s].closed = tx[s].closed
        /\ tx'[s].unlinked = tx[s].unlinked \cup {work[s].cart}
    <2>1. tx[s] \in Transactions /\ tx \in [Sessions -> Transactions]
      BY <1>1 DEF TypeOK
    <2> QED
      BY <1>4, <2>1 DEF UnlinkLine, Record, Transactions
  <1>6. NoLineYet(s)' /\ HoldsLine(s)' /\ RowsAreLines(s)'
    BY <1>1, <1>2, <1>5 DEF Own, NoLineYet, HoldsLine, RowsAreLines
  <1>7. DeletesOwn(s)'
    BY <1>1, <1>2, <1>3, <1>5 DEF Own, DeletesOwn, Mine
  <1>8. TakesWhatItCloses(s)' /\ TakesOnce(s)'
    BY <1>1, <1>2, <1>5 DEF Own, TakesWhatItCloses, TakesOnce
  <1>9. CoversCart(s)'
    BY <1>1, <1>2, <1>5 DEF Own, CoversCart, CheckoutPcs
  <1> QED
    BY <1>2, <1>6, <1>7, <1>8, <1>9 DEF Own, CheckoutPcs

(* The cart in hand still has the quantity that was taken.                 *)
LEMMA CloseKeepsOwn ==
  ASSUME OwnInv, NEW s \in Sessions, CloseCart(s)
  PROVE  Own(s)'
  <1> DEFINE p == work[s].product
             c == work[s].cart
  <1>1. TypeOK /\ Own(s) /\ LinesHaveCarts
    BY DEF OwnInv, IInv
  <1>2. /\ pc[s] = "close" /\ pc'[s] = "fetch"
        /\ interazioni' = interazioni /\ carrelli' = carrelli
    BY <1>1 DEF CloseCart, tables, Goto, TypeOK
  <1>3. Mine(s, p, c) \in interazioni /\ carrelli[c] = work[s].quantity
    BY <1>1, <1>2 DEF Own, HoldsLine
  <1>4. c \in DOMAIN carrelli
    BY <1>1, <1>3 DEF LinesHaveCarts, Mine
  <1>5. /\ tx'[s].rows = tx[s].rows /\ tx'[s].short = tx[s].short
        /\ tx'[s].seen = tx[s].seen /\ tx'[s].taken = tx[s].taken
        /\ tx'[s].unlinked = tx[s].unlinked
        /\ tx'[s].closed = tx[s].closed \cup {c}
        /\ tx'[s].counted = [tx[s].counted EXCEPT ![p] =
                               tx[s].counted[p] + work[s].quantity]
    <2> DEFINE sum == [tx[s].counted EXCEPT ![p] =
                         tx[s].counted[p] + work[s].quantity]
    <2>1. tx[s] \in Transactions /\ tx \in [Sessions -> Transactions]
      BY <1>1 DEF TypeOK
    <2>2. tx'[s] = [tx[s] EXCEPT !.closed = @ \cup {c}, !.counted = sum]
      BY <1>3, <1>4, <2>1 DEF CloseCart, Record
    <2> HIDE DEF p, c, sum
    <2>3. tx'[s].counted = sum
      BY <2>1, <2>2 DEF Transactions
    <2>4. /\ tx'[s].rows = tx[s].rows /\ tx'[s].short = tx[s].short
          /\ tx'[s].seen = tx[s].seen /\ tx'[s].taken = tx[s].taken
          /\ tx'[s].unlinked = tx[s].unlinked
          /\ tx'[s].closed = tx[s].closed \cup {c}
      BY <2>1, <2>2 DEF Transactions
    <2> QED
      BY <2>3, <2>4 DEF sum
  <1>6. TakesWhatItCloses(s)'
    BY <1>1, <1>2, <1>5 DEF Own, TakesWhatItCloses
  <1>7. NoLineYet(s)' /\ HoldsLine(s)' /\ RowsAreLines(s)'
    BY <1>1, <1>2, <1>5 DEF Own, NoLineYet, HoldsLine, RowsAreLines
  <1>8. DeletesOwn(s)'
    BY <1>1, <1>2, <1>3, <1>5 DEF Own, DeletesOwn, Mine
  <1>9. TakesOnce(s)'
    BY <1>1, <1>2, <1>5 DEF Own, TakesOnce
  <1>10. CoversCart(s)'
    BY <1>1, <1>2, <1>5 DEF Own, CoversCart, CheckoutPcs
  <1> QED
    BY <1>2, <1>6, <1>7, <1>8, <1>9, <1>10 DEF Own, CheckoutPcs

-----------------------------------------------------------------------------
(* Only 'add' inserts a line, after no line for the product was found and  *)
(* into a cart that nobody else knows.                                     *)
LEMMA LinesStayUnique ==
  ASSUME OwnInv, NEW s \in Sessions, Step(s)
  PROVE  OneLinePerProduct' /\ OneLinePerCart'
  <1>1. OneLinePerProduct /\ OneLinePerCart /\ NewCartIsPrivate /\ Own(s)
    BY DEF OwnInv, IInv
  <1>2. CASE AddLine(s)
    <2> DEFINE new == Mine(s, work[s].product, work[s].cart)
    <2>1. pc[s] = "add_line" /\ interazioni' = interazioni \cup {new}
      BY <1>2 DEF AddLine, Mine
    <2>2. \A i \in interazioni : i.user = UserOf[s] => i.product # work[s].product
      BY <1>1, <2>1 DEF Own, NoLineYet
    <2>3. \A i \in interazioni : i.cart # work[s].cart
      BY <1>1, <2>1 DEF NewCartIsPrivate, Linked
    <2>4. /\ new.user = UserOf[s] /\ new.product = work[s].product
          /\ new.cart = work[s].cart
      BY DEF Mine
    <2> HIDE DEF new
    <2> QED
      BY <1>1, <2>1, <2>2, <2>3, <2>4 DEF OneLinePerProduct, OneLinePerCart
  <1>3. CASE ~AddLine(s)
    <2>1. interazioni' \subseteq interazioni
      BY <1>3 DEF Step, Post, AddSelect, UpdateSelect, RemoveSelect,
                  CheckoutSelect, CartStep, AddIncrease, UpdateQuantity,
                  WriteQuantity, AddCart, RemoveLine, RemoveCart, CheckoutStep,
                  FetchRow, TakeStock, UnlinkLine, CloseCart, Commit,
                  RollbackOutOfStock, CheckoutException, RequestDies,
                  ShowSuccess, tables
    <2> QED
      BY <1>1, <2>1 DEF OneLinePerProduct, OneLinePerCart
  <1> QED
    BY <1>2, <1>3

(* Every statement keeps the invariant.                                    *)
LEMMA OwnStep ==
  ASSUME OneSessionEach, OwnInv, [Next]_vars
  PROVE  OwnInv'
  <1>1. IInv'
    BY TypeStep, HeldStep, KnownStep, LinesStep, PrivateStep, UnlinkedStep
       DEF OwnInv, IInv
  <1>2. ASSUME NEW s \in Sessions, Step(s)
        PROVE  OwnInv'
    <2>1. Own(s)'
      BY <1>2, PostKeepsOwn, CartStepKeepsOwn, EndKeepsOwn, SelectKeepsOwn,
         FetchKeepsOwn, TakeKeepsOwn, UnlinkKeepsOwn, CloseKeepsOwn
         DEF Step, Post, CheckoutStep
    <2>2. ASSUME NEW t \in Sessions \ {s}
          PROVE  Own(t)'
      <3>1. Untouched(t)
        BY <1>2, OthersAreUntouched
      <3> QED
        BY <3>1, UntouchedKeepsOwn
    <2>3. \A t \in Sessions : Own(t)'
      BY <2>1, <2>2
    <2> QED
      BY <1>1, <1>2, <2>3, LinesStayUnique DEF OwnInv
  <1>3. CASE UNCHANGED vars
    <2>1. ASSUME NEW s \in Sessions
          PROVE  Own(s)'
      <3>1. Untouched(s)
        BY <1>3 DEF vars, Untouched
      <3> QED
        BY <3>1, UntouchedKeepsOwn
    <2> QED
      BY <1>1, <1>3, <2>1 DEF OwnInv, vars, OneLinePerProduct, OneLinePerCart
  <1> QED
    BY <1>2, <1>3 DEF Next, Step

(* With one session for each user, OwnInv holds in every reachable state.  *)
THEOREM OwnInvariance ==
  ASSUME OneSessionEach
  PROVE  Spec => []OwnInv
  <1>1. Init => OwnInv
    <2> SUFFICES ASSUME Init PROVE OwnInv
      OBVIOUS
    <2>1. OneLinePerProduct /\ OneLinePerCart
      BY DEF Init, OneLinePerProduct, OneLinePerCart
    <2>2. \A s \in Sessions : pc[s] = "idle" /\ tx[s] = NoTx
      BY DEF Init
    <2> QED
      BY <2>1, <2>2, InitIInv, QuietOwn DEF OwnInv
  <1>2. OwnInv /\ [Next]_vars => OwnInv'
    BY OwnStep
  <1> QED
    BY <1>1, <1>2, PTL DEF Spec

-----------------------------------------------------------------------------
(* A user who is logged in with one browser has at most one line per       *)
(* product, whatever the browser posts.                                    *)
THEOREM OneLine ==
  ASSUME OneSessionEach
  PROVE  Spec => []OneLinePerProduct
  <1>1. OwnInv => OneLinePerProduct
    BY DEF OwnInv
  <1> QED
    BY OwnInvariance, <1>1, PTL

(* No open checkout takes more of a product than its snapshot offered.     *)
THEOREM WithinSnapshot ==
  ASSUME OneSessionEach
  PROVE  Spec => []TakenWithinSnapshot
  <1>1. OwnInv => TakenWithinSnapshot
    BY DEF OwnInv, Own, TakesOnce, TakenWithinSnapshot
  <1> QED
    BY OwnInvariance, <1>1, PTL

(* Only a COMMIT changes the stock, by what the carts it deletes held.     *)
LEMMA StockChanges ==
  ASSUME [Next]_vars
  PROVE  \/ stock' = stock /\ delivered' = delivered
         \/ \E s \in Sessions : Commit(s)
  <1> USE DEF tables, history
  <1>1. ASSUME NEW s \in Sessions, Post(s)
        PROVE  stock' = stock /\ delivered' = delivered
    BY <1>1 DEF Post, AddSelect, UpdateSelect, RemoveSelect, CheckoutSelect
  <1>2. ASSUME NEW s \in Sessions, CartStep(s)
        PROVE  stock' = stock /\ delivered' = delivered
    BY <1>2 DEF CartStep, AddIncrease, UpdateQuantity, WriteQuantity, AddCart,
                AddLine, RemoveLine, RemoveCart
  <1>3. ASSUME NEW s \in Sessions, CheckoutStep(s), ~Commit(s)
        PROVE  stock' = stock /\ delivered' = delivered
    BY <1>3 DEF CheckoutStep, FetchRow, TakeStock, UnlinkLine, CloseCart,
                RollbackOutOfStock, CheckoutException
  <1>4. ASSUME NEW s \in Sessions, RequestDies(s) \/ ShowSuccess(s)
        PROVE  stock' = stock /\ delivered' = delivered
    BY <1>4 DEF RequestDies, ShowSuccess
  <1>5. CASE UNCHANGED vars
    BY <1>5 DEF vars
  <1> QED
    BY <1>1, <1>2, <1>3, <1>4, <1>5 DEF Next

(* What a COMMIT writes.                                                   *)
LEMMA CommitSells ==
  ASSUME OwnInv, NEW s \in Sessions, Commit(s)
  PROVE  /\ tx[s].taken \in [Products -> Int] /\ tx[s].seen \in [Products -> Int]
         /\ stock \in [Products -> Int] /\ delivered \in [Products -> Int]
         /\ \A p \in Products :
              /\ stock'[p] = stock[p] - tx[s].taken[p]
              /\ delivered'[p] = delivered[p] + tx[s].taken[p]
              /\ tx[s].taken[p] > 0 => tx[s].taken[p] <= tx[s].seen[p]
  <1>1. TypeOK /\ Own(s)
    BY DEF OwnInv, IInv
  <1>2. tx[s].taken = tx[s].counted
    BY <1>1 DEF Commit, Own, TakesWhatItCloses
  <1>3. \A p \in Products : tx[s].taken[p] > 0 => tx[s].taken[p] <= tx[s].seen[p]
    BY <1>1 DEF Own, TakesOnce
  <1> QED
    BY <1>1, <1>2, <1>3 DEF Commit, TypeOK, Transactions

(* What checkouts took out of the stock is what was in the carts they      *)
(* deleted, no more and no less.                                           *)
THEOREM SalesAddUp ==
  ASSUME OneSessionEach
  PROVE  Spec => []StockAccounted
  <1>1. Init => StockAccounted
    BY CartAssumption DEF Init, StockAccounted, Zero
  <1>2. OwnInv /\ StockAccounted /\ [Next]_vars => StockAccounted'
    <2> SUFFICES ASSUME OwnInv, StockAccounted, [Next]_vars
                 PROVE  StockAccounted'
      OBVIOUS
    <2>1. CASE stock' = stock /\ delivered' = delivered
      BY <2>1 DEF StockAccounted
    <2>2. ASSUME NEW s \in Sessions, Commit(s)
          PROVE  StockAccounted'
      BY <2>2, CommitSells DEF StockAccounted
    <2> QED
      BY <2>1, <2>2, StockChanges
  <1> QED
    BY OwnInvariance, <1>1, <1>2, PTL DEF Spec

(* A checkout can bring a product below zero only if another one changed   *)
(* the stock of that product after this one had read it.                   *)
THEOREM OversoldByStaleRead ==
  ASSUME OneSessionEach
  PROVE  Spec => OversoldOnlyByStaleRead
  <1> DEFINE Stale ==
        \A p \in Products :
          stock'[p] < stock[p] /\ stock'[p] < 0 =>
            \E s \in Sessions : /\ pc[s] = "fetch" /\ pc'[s] = "idle"
                                /\ stock[p] # tx[s].seen[p]
  <1>1. ASSUME OwnInv, [Next]_vars
        PROVE  Stale
    <2>1. CASE stock' = stock /\ delivered' = delivered
      <3>1. stock \in [Products -> Int]
        BY <1>1 DEF OwnInv, IInv, TypeOK
      <3> QED
        BY <2>1, <3>1
    <2>2. ASSUME NEW s \in Sessions, Commit(s), NEW p \in Products,
                 stock'[p] < stock[p], stock'[p] < 0
          PROVE  stock[p] # tx[s].seen[p]
      BY <1>1, <2>2, CommitSells
    <2>3. ASSUME NEW s \in Sessions, Commit(s)
          PROVE  pc[s] = "fetch" /\ pc'[s] = "idle"
      BY <1>1, <2>3 DEF Commit, EndCheckout, Goto, OwnInv, IInv, TypeOK
    <2> QED
      BY <1>1, <2>1, <2>2, <2>3, StockChanges
  <1>2. OwnInv /\ [Next]_vars => [Stale]_vars
    BY <1>1
  <1> QED
    BY OwnInvariance, <1>2, PTL DEF Spec, OversoldOnlyByStaleRead

(* A checkout that sells anything empties the whole cart of its user.      *)
THEOREM SaleTakesTheCart ==
  ASSUME OneSessionEach
  PROVE  Spec => SaleEmptiesCart
  <1> DEFINE Empties ==
        stock' # stock =>
          \E s \in Sessions :
            /\ pc[s] = "fetch" /\ pc'[s] = "idle"
            /\ \A i \in interazioni' :
                 i.user = UserOf[s] => i.product \notin Products
  <1>1. ASSUME OwnInv, [Next]_vars
        PROVE  Empties
    <2>1. ASSUME NEW s \in Sessions, Commit(s)
          PROVE  /\ pc[s] = "fetch" /\ pc'[s] = "idle"
                 /\ \A i \in interazioni' :
                      i.user = UserOf[s] => i.product \notin Products
      <3>1. /\ pc[s] = "fetch" /\ tx[s].rows = {} /\ ~tx[s].short
            /\ interazioni' = {i \in interazioni : i.cart \notin tx[s].unlinked}
        BY <2>1 DEF Commit
      <3>2. pc'[s] = "idle"
        BY <1>1, <2>1 DEF Commit, EndCheckout, Goto, OwnInv, IInv, TypeOK
      <3>3. CoversCart(s)
        BY <1>1 DEF OwnInv, Own
      <3> QED
        BY <3>1, <3>2, <3>3 DEF CoversCart, CheckoutPcs
    <2> QED
      BY <1>1, <2>1, StockChanges
  <1>2. OwnInv /\ [Next]_vars => [Empties]_vars
    BY <1>1
  <1> QED
    BY OwnInvariance, <1>2, PTL DEF Spec, SaleEmptiesCart

(* Adding a product never lowers the quantity in the cart, although the    *)
(* sum is computed from a row read one statement earlier.                  *)
THEOREM AddKeepsQuantity ==
  ASSUME OneSessionEach
  PROVE  Spec => AddNeverLowersQuantity
  <1> DEFINE Raises ==
        \A s \in Sessions :
          pc[s] = "add_increase" /\ pc'[s] = "idle" =>
            \A c \in DOMAIN carrelli \cap DOMAIN carrelli' :
              carrelli'[c] >= carrelli[c]
  <1>1. ASSUME OwnInv, [Next]_vars, NEW s \in Sessions,
               pc[s] = "add_increase", pc'[s] = "idle",
               NEW c \in DOMAIN carrelli \cap DOMAIN carrelli'
        PROVE  carrelli'[c] >= carrelli[c]
    <2>1. TypeOK /\ Own(s) /\ carrelli[c] \in Nat
      BY <1>1 DEF OwnInv, IInv, TypeOK
    <2>2. PICK t \in Sessions : Step(t)
      BY <1>1 DEF Next, Step, vars
    <2>3. t = s
      <3>1. CASE t # s
        <4>1. Untouched(s)
          BY <1>1, <2>2, <3>1, OthersAreUntouched
        <4> QED
          BY <1>1, <4>1 DEF Untouched
      <3> QED
        BY <3>1
    <2>4. AddIncrease(s) \/ RequestDies(s)
      BY <1>1, <2>2, <2>3
         DEF Step, Post, AddSelect, UpdateSelect, RemoveSelect, CheckoutSelect,
             CartStep, UpdateQuantity, AddCart, AddLine, RemoveLine, RemoveCart,
             CheckoutStep, FetchRow, TakeStock, UnlinkLine, CloseCart, Commit,
             RollbackOutOfStock, CheckoutException, ShowSuccess, CheckoutPcs
    <2>5. CASE AddIncrease(s)
      <3>1. carrelli[work[s].cart] <= work[s].quantity
        BY <1>1, <2>1 DEF Own, HoldsLine
      <3> QED
        BY <1>1, <2>1, <2>5, <3>1 DEF AddIncrease, WriteQuantity
    <2>6. CASE RequestDies(s)
      BY <2>1, <2>6 DEF RequestDies, tables
    <2> QED
      BY <2>4, <2>5, <2>6
  <1>2. OwnInv /\ [Next]_vars => [Raises]_vars
    BY <1>1
  <1> QED
    BY OwnInvariance, <1>2, PTL DEF Spec, AddNeverLowersQuantity

-----------------------------------------------------------------------------
(* Cart implements Shop.                                                   *)

(* Every user has one session.                                             *)
OneSessionPerUser ==
  OneSessionEach /\ \A u \in Users : \E s \in Sessions : UserOf[s] = u

(* No cart holds, and no request is about to write, more than the bound.   *)
Bounded ==
  /\ \A c \in DOMAIN carrelli : carrelli[c] <= MaxQuantity
  /\ \A s \in Sessions :
       pc[s] \in {"add_increase", "add_cart", "update_quantity"} =>
         work[s].quantity <= MaxQuantity

(* A checkout has taken the quantity of every line it has deleted and of   *)
(* the one at hand, and nothing of a product that has no line.             *)
TakesTheCart(s) ==
  /\ pc[s] \in {"unlink", "close"} =>
       tx[s].taken[work[s].product] = work[s].quantity
  /\ \A i \in interazioni :
       /\ i.user = UserOf[s]
       /\ i.product \in Products
       /\ i.cart \in tx[s].unlinked
       => tx[s].taken[i.product] = carrelli[i.cart]
  /\ \A p \in Products : tx[s].taken[p] # 0 =>
       \E i \in interazioni : i.user = UserOf[s] /\ i.product = p

ShopInv ==
  /\ OwnInv
  /\ Bounded
  /\ \A s \in Sessions : TakesTheCart(s)

-----------------------------------------------------------------------------
(* The bound on quantities is checked before a request writes one.         *)
LEMMA BoundedStep ==
  ASSUME IInv, Bounded, [Next]_vars
  PROVE  Bounded'
  <1> USE CartAssumption DEF IInv, TypeOK, Bounded, Goto, Hold, tables
  <1>1. ASSUME NEW s \in Sessions, NEW p \in PostedIds, NEW q \in Quantities,
               AddSelect(s, p, q)
        PROVE  Bounded'
    <2>1. /\ carrelli' = carrelli
          /\ \A t \in Sessions \ {s} : pc'[t] = pc[t] /\ work'[t] = work[t]
      BY <1>1 DEF AddSelect
    <2>2. work'[s].quantity <= MaxQuantity
      BY <1>1 DEF AddSelect
    <2> QED
      BY <2>1, <2>2
  <1>2. ASSUME NEW s \in Sessions, NEW p \in PostedIds, NEW q \in Quantities,
               UpdateSelect(s, p, q)
        PROVE  Bounded'
    BY <1>2 DEF UpdateSelect
  <1>3. ASSUME NEW s \in Sessions, NEW p \in PostedIds, RemoveSelect(s, p)
        PROVE  Bounded'
    BY <1>3 DEF RemoveSelect
  <1>4. ASSUME NEW s \in Sessions, AddIncrease(s) \/ UpdateQuantity(s)
        PROVE  Bounded'
    BY <1>4 DEF AddIncrease, UpdateQuantity, WriteQuantity
  <1>5. ASSUME NEW s \in Sessions, AddCart(s)
        PROVE  Bounded'
    BY <1>5 DEF AddCart
  <1>6. ASSUME NEW s \in Sessions, AddLine(s) \/ RemoveLine(s)
        PROVE  Bounded'
    BY <1>6 DEF AddLine, RemoveLine
  <1>7. ASSUME NEW s \in Sessions, RemoveCart(s)
        PROVE  Bounded'
    BY <1>7 DEF RemoveCart, Restrict
  <1>8. ASSUME NEW s \in Sessions,
               \/ CheckoutSelect(s) \/ FetchRow(s) \/ TakeStock(s)
               \/ UnlinkLine(s) \/ CloseCart(s)
        PROVE  Bounded'
    BY <1>8 DEF CheckoutSelect, FetchRow, TakeStock, UnlinkLine, CloseCart
  <1>9. ASSUME NEW s \in Sessions, Commit(s)
        PROVE  Bounded'
    <2>1. carrelli' = Restrict(carrelli, DOMAIN carrelli \ tx[s].closed)
      BY <1>9 DEF Commit
    <2>2. /\ pc'[s] = "idle"
          /\ \A t \in Sessions \ {s} : pc'[t] = pc[t] /\ work'[t] = work[t]
      BY <1>9 DEF Commit, EndCheckout
    <2> QED
      BY <2>1, <2>2 DEF Restrict
  <1>10. ASSUME NEW s \in Sessions,
                \/ RollbackOutOfStock(s) \/ CheckoutException(s)
                \/ RequestDies(s) \/ ShowSuccess(s)
         PROVE  Bounded'
    BY <1>10 DEF RollbackOutOfStock, CheckoutException, EndCheckout,
                 RequestDies, ShowSuccess
  <1>11. CASE UNCHANGED vars
    BY <1>11 DEF vars
  <1> QED
    BY <1>1, <1>2, <1>3, <1>4, <1>5, <1>6, <1>7, <1>8, <1>9, <1>10, <1>11
       DEF Next, Post, CartStep, CheckoutStep

(* A session outside a checkout has taken nothing.                         *)
LEMMA NothingTaken ==
  ASSUME NEW s \in Sessions, pc[s] \notin CheckoutPcs, tx[s] = NoTx
  PROVE  TakesTheCart(s)
  <1>1. tx[s].unlinked = {} /\ \A p \in Products : tx[s].taken[p] = 0
    BY DEF NoTx, Zero
  <1> QED
    BY <1>1 DEF TakesTheCart, CheckoutPcs

(* The same after a step.                                                  *)
LEMMA NothingTakenNext ==
  ASSUME NEW s \in Sessions, pc'[s] \notin CheckoutPcs, tx'[s] = NoTx
  PROVE  TakesTheCart(s)'
  <1>1. tx'[s].unlinked = {} /\ \A p \in Products : tx'[s].taken[p] = 0
    BY DEF NoTx, Zero
  <1> QED
    BY <1>1 DEF TakesTheCart, CheckoutPcs

(* What each step of a checkout does to the stock that it has taken.       *)
LEMMA TakenEffects ==
  ASSUME TypeOK, NEW s \in Sessions
  PROVE  /\ CheckoutSelect(s) => tx'[s].taken = Zero /\ tx'[s].unlinked = {}
         /\ FetchRow(s) \/ UnlinkLine(s) \/ CloseCart(s) =>
              tx'[s].taken = tx[s].taken
         /\ TakeStock(s) =>
              tx'[s].taken = [tx[s].taken EXCEPT
                ![work[s].product] = @ + work[s].quantity]
  <1> DEFINE p == work[s].product
             c == work[s].cart
  <1>1. tx[s] \in Transactions /\ tx \in [Sessions -> Transactions]
    BY DEF TypeOK
  <1>2. ASSUME CheckoutSelect(s)
        PROVE  tx'[s].taken = Zero /\ tx'[s].unlinked = {}
    <2> DEFINE rows == {[product |-> i.product, cart |-> i.cart,
                         quantity |-> carrelli[i.cart]] :
                          i \in {l \in interazioni :
                                   /\ l.user = UserOf[s]
                                   /\ l.product \in Products
                                   /\ l.cart \in DOMAIN carrelli}}
    <2>1. tx'[s] = [NoTx EXCEPT !.seen = stock, !.rows = rows]
      BY <1>1, <1>2 DEF CheckoutSelect, Record
    <2> HIDE DEF rows
    <2> QED
      BY <2>1 DEF NoTx
  <1>3. ASSUME FetchRow(s)
        PROVE  tx'[s].taken = tx[s].taken
    <2>1. PICK r \in tx[s].rows :
            \/ tx'[s] = [tx[s] EXCEPT !.rows = @ \ {r}, !.short = TRUE]
            \/ tx'[s] = [tx[s] EXCEPT !.rows = @ \ {r}]
      BY <1>1, <1>3 DEF FetchRow, Record
    <2> QED
      BY <1>1, <2>1 DEF Transactions
  <1>4. ASSUME UnlinkLine(s)
        PROVE  tx'[s].taken = tx[s].taken
    BY <1>1, <1>4 DEF UnlinkLine, Record, Transactions
  <1>5. ASSUME CloseCart(s)
        PROVE  tx'[s].taken = tx[s].taken
    <2> DEFINE sum == [tx[s].counted EXCEPT ![p] = @ + carrelli[c]]
    <2>1. \/ tx'[s] = tx[s]
          \/ tx'[s] = [tx[s] EXCEPT !.closed = @ \cup {c}, !.counted = sum]
      BY <1>1, <1>5 DEF CloseCart, Record
    <2> HIDE DEF sum, c, p
    <2> QED
      BY <1>1, <2>1 DEF Transactions
  <1>6. ASSUME TakeStock(s)
        PROVE  tx'[s].taken = [tx[s].taken EXCEPT ![p] = @ + work[s].quantity]
    <2> DEFINE sum == [tx[s].taken EXCEPT ![p] = @ + work[s].quantity]
    <2>1. tx'[s] = [tx[s] EXCEPT !.taken = sum]
      BY <1>1, <1>6 DEF TakeStock, Record
    <2> HIDE DEF sum, p
    <2>2. tx'[s].taken = sum
      BY <1>1, <2>1 DEF Transactions
    <2> QED
      BY <2>2 DEF sum
  <1> QED
    BY <1>2, <1>3, <1>4, <1>5, <1>6

(* A checkout takes the quantity of a line once, before it deletes it.     *)
LEMMA CheckoutTakesTheCart ==
  ASSUME ShopInv, NEW s \in Sessions,
         \/ CheckoutSelect(s) \/ FetchRow(s) \/ TakeStock(s)
         \/ UnlinkLine(s) \/ CloseCart(s)
  PROVE  TakesTheCart(s)'
  <1>1. /\ TypeOK /\ LinesHaveCarts /\ OneLinePerProduct /\ OneLinePerCart
        /\ Own(s) /\ TakesTheCart(s)
    BY DEF ShopInv, OwnInv, IInv
  <1>2. interazioni' = interazioni /\ carrelli' = carrelli
    BY DEF CheckoutSelect, FetchRow, TakeStock, UnlinkLine, CloseCart, tables
  <1>3. CASE CheckoutSelect(s)
    <2>1. tx'[s].unlinked = {} /\ tx'[s].taken = Zero
      BY <1>1, <1>3, TakenEffects
    <2>2. pc'[s] = "fetch"
      BY <1>1, <1>3 DEF CheckoutSelect, Goto, TypeOK
    <2> QED
      BY <2>1, <2>2 DEF TakesTheCart, Zero
  <1>4. CASE FetchRow(s) \/ CloseCart(s)
    <2>1. tx'[s].taken = tx[s].taken /\ tx'[s].unlinked = tx[s].unlinked
      BY <1>1, <1>4, TakenEffects, CheckoutEffects
    <2>2. pc'[s] \notin {"unlink", "close"}
      BY <1>1, <1>4 DEF FetchRow, CloseCart, Goto, TypeOK
    <2> QED
      BY <1>1, <1>2, <2>1, <2>2 DEF TakesTheCart
  <1>5. CASE TakeStock(s)
    <2> DEFINE p == work[s].product
    <2>1. /\ pc[s] = "take" /\ pc'[s] = "unlink" /\ work' = work
      BY <1>1, <1>5 DEF TakeStock, Goto, TypeOK
    <2>2. /\ p \in Products /\ tx[s].taken[p] = 0
          /\ Mine(s, p, work[s].cart) \in interazioni
          /\ work[s].quantity \in Int /\ tx[s].taken \in [Products -> Int]
      BY <1>1, <2>1 DEF Own, HoldsLine, TakesOnce, TypeOK, Rows, Transactions
    <2>3. /\ tx'[s].unlinked = tx[s].unlinked
          /\ tx'[s].taken[p] = work[s].quantity
          /\ \A q \in Products : q # p => tx'[s].taken[q] = tx[s].taken[q]
      <3>1. tx'[s].taken = [tx[s].taken EXCEPT ![p] = @ + work[s].quantity]
        BY <1>1, <1>5, TakenEffects
      <3>2. tx'[s].unlinked = tx[s].unlinked
        BY <1>1, <1>5, CheckoutEffects
      <3> QED
        BY <2>2, <3>1, <3>2
    <2>4. ASSUME NEW i \in interazioni, i.user = UserOf[s],
                 i.product \in Products, i.cart \in tx[s].unlinked
          PROVE  i.product # p
      <3>1. tx[s].taken[i.product] = carrelli[i.cart]
        BY <1>1, <2>4 DEF TakesTheCart
      <3>2. carrelli[i.cart] # 0
        BY <1>1 DEF LinesHaveCarts, TypeOK
      <3> QED
        BY <2>2, <3>1, <3>2
    <2>5. \E i \in interazioni : i.user = UserOf[s] /\ i.product = p
      BY <2>2 DEF Mine
    <2> QED
      BY <1>1, <1>2, <2>1, <2>3, <2>4, <2>5 DEF TakesTheCart
  <1>6. CASE UnlinkLine(s)
    <2>1. /\ pc[s] = "unlink" /\ work' = work
      BY <1>6 DEF UnlinkLine
    <2>2. /\ tx'[s].taken = tx[s].taken
          /\ tx'[s].unlinked \subseteq tx[s].unlinked \cup {work[s].cart}
      BY <1>1, <1>6, TakenEffects, CheckoutEffects
    <2>3. /\ tx[s].taken[work[s].product] = work[s].quantity
          /\ carrelli[work[s].cart] = work[s].quantity
          /\ Mine(s, work[s].product, work[s].cart) \in interazioni
      BY <1>1, <2>1 DEF TakesTheCart, Own, HoldsLine
    <2>4. ASSUME NEW i \in interazioni, i.cart = work[s].cart
          PROVE  i.product = work[s].product
      BY <1>1, <2>3, <2>4 DEF OneLinePerCart, Mine
    <2> QED
      BY <1>1, <1>2, <2>1, <2>2, <2>3, <2>4 DEF TakesTheCart
  <1> QED
    BY <1>3, <1>4, <1>5, <1>6

(* Every statement keeps the invariant.                                    *)
LEMMA ShopInvStep ==
  ASSUME OneSessionEach, ShopInv, [Next]_vars
  PROVE  ShopInv'
  <1>1. OwnInv' /\ Bounded'
    BY OwnStep, BoundedStep DEF ShopInv, OwnInv
  <1>2. ASSUME NEW t \in Sessions, Untouched(t)
        PROVE  TakesTheCart(t)'
    <2>1. TakesTheCart(t)
      BY DEF ShopInv
    <2> QED
      BY <1>2, <2>1 DEF Untouched, TakesTheCart
  <1>3. ASSUME NEW s \in Sessions, Step(s)
        PROVE  TakesTheCart(s)'
    <2>1. CASE pc'[s] \notin CheckoutPcs
      BY <1>1, <2>1, NothingTakenNext DEF OwnInv, Own
    <2>2. CASE pc'[s] \in CheckoutPcs
      <3>1. TypeOK
        BY DEF ShopInv, OwnInv, IInv
      <3>2. CheckoutSelect(s) \/ FetchRow(s) \/ TakeStock(s) \/ UnlinkLine(s)
            \/ CloseCart(s)
        BY <1>3, <2>2, <3>1
           DEF Step, Post, AddSelect, UpdateSelect, RemoveSelect, CartStep,
               AddIncrease, UpdateQuantity, WriteQuantity, AddCart, AddLine,
               RemoveLine, RemoveCart, CheckoutStep, Commit,
               RollbackOutOfStock, CheckoutException, EndCheckout, RequestDies,
               ShowSuccess, CheckoutPcs, Goto, TypeOK
      <3> QED
        BY <3>2, CheckoutTakesTheCart
    <2> QED
      BY <2>1, <2>2
  <1>4. ASSUME NEW s \in Sessions, Step(s)
        PROVE  ShopInv'
    <2>1. ASSUME NEW t \in Sessions
          PROVE  TakesTheCart(t)'
      <3>1. CASE t = s
        BY <1>3, <1>4, <3>1
      <3>2. CASE t # s
        BY <1>2, <1>4, <3>2, OthersAreUntouched DEF ShopInv
      <3> QED
        BY <3>1, <3>2
    <2> QED
      BY <1>1, <2>1 DEF ShopInv
  <1>5. CASE UNCHANGED vars
    <2>1. ASSUME NEW t \in Sessions
          PROVE  TakesTheCart(t)'
      <3>1. Untouched(t)
        BY <1>5 DEF vars, Untouched
      <3> QED
        BY <1>2, <3>1
    <2> QED
      BY <1>1, <2>1 DEF ShopInv
  <1> QED
    BY <1>4, <1>5 DEF Next, Step

(* The initial state satisfies the invariant.                              *)
LEMMA InitShopInv == Init => ShopInv
  <1> SUFFICES ASSUME Init PROVE ShopInv
    OBVIOUS
  <1>1. OneLinePerProduct /\ OneLinePerCart /\ Bounded
    BY DEF Init, OneLinePerProduct, OneLinePerCart, Bounded
  <1>2. \A s \in Sessions : pc[s] = "idle" /\ tx[s] = NoTx
    BY DEF Init
  <1> QED
    BY <1>1, <1>2, InitIInv, QuietOwn, NothingTaken
       DEF OwnInv, ShopInv, CheckoutPcs

-----------------------------------------------------------------------------
(* The session that the refinement mapping chooses for a user.             *)
LEMMA OneSession ==
  ASSUME OneSessionPerUser, NEW s \in Sessions
  PROVE  (CHOOSE t \in Sessions : UserOf[t] = UserOf[s]) = s
  BY DEF OneSessionPerUser, OneSessionEach

(* The refinement mapping shows the quantity of the one line of a product. *)
LEMMA LineShown ==
  ASSUME OneSessionPerUser, OwnInv, NEW s \in Sessions, NEW p \in Products,
         NEW c, Mine(s, p, c) \in interazioni
  PROVE  linesBar[UserOf[s]][p] = carrelli[c]
  <1>1. (CHOOSE t \in Sessions : UserOf[t] = UserOf[s]) = s
    BY OneSession
  <1>2. TypeOK /\ LinesHaveCarts /\ OneLinePerProduct
    BY DEF OwnInv, IInv
  <1>3. \A i \in interazioni :
          i.user = UserOf[s] /\ i.product = p => i = Mine(s, p, c)
    BY <1>2 DEF OneLinePerProduct, Mine
  <1>4. c \in DOMAIN carrelli
    BY <1>2 DEF LinesHaveCarts, Mine
  <1>5. LinesOf(s, p) = {Mine(s, p, c)}
    BY <1>3 DEF LinesOf, Mine
  <1>6. CartsOf(s, p) = {c}
    <2>1. {i.cart : i \in LinesOf(s, p)} = {c}
      BY <1>5 DEF Mine
    <2> QED
      BY <1>4, <2>1 DEF CartsOf
  <1>7. QuantityOf(s, p) = carrelli[c]
    BY <1>6 DEF QuantityOf
  <1>8. UserOf[s] \in Users
    BY CartAssumption
  <1> QED
    BY <1>1, <1>7, <1>8 DEF linesBar

(* It shows no quantity of a product without a line.                       *)
LEMMA NoLineShown ==
  ASSUME OneSessionPerUser, NEW s \in Sessions, NEW p \in Products,
         \A i \in interazioni : i.user = UserOf[s] => i.product # p
  PROVE  linesBar[UserOf[s]][p] = 0
  <1>1. (CHOOSE t \in Sessions : UserOf[t] = UserOf[s]) = s
    BY OneSession
  <1>2. CartsOf(s, p) = {}
    BY DEF CartsOf, LinesOf
  <1>3. QuantityOf(s, p) = 0
    BY <1>2 DEF QuantityOf
  <1>4. UserOf[s] \in Users
    BY CartAssumption
  <1> QED
    BY <1>1, <1>3, <1>4 DEF linesBar

(* The same after a step.                                                  *)
LEMMA LineShownNext ==
  ASSUME OneSessionPerUser, OwnInv', NEW s \in Sessions, NEW p \in Products,
         NEW c, Mine(s, p, c) \in interazioni'
  PROVE  linesBar'[UserOf[s]][p] = carrelli'[c]
  <1>1. (CHOOSE t \in Sessions : UserOf[t] = UserOf[s]) = s
    BY OneSession
  <1>2. TypeOK' /\ LinesHaveCarts' /\ OneLinePerProduct'
    BY DEF OwnInv, IInv
  <1>3. \A i \in interazioni' :
          i.user = UserOf[s] /\ i.product = p => i = Mine(s, p, c)
    BY <1>2 DEF OneLinePerProduct, Mine
  <1>4. c \in DOMAIN carrelli'
    BY <1>2 DEF LinesHaveCarts, Mine
  <1>5. LinesOf(s, p)' = {Mine(s, p, c)}
    BY <1>3 DEF LinesOf, Mine
  <1>6. CartsOf(s, p)' = {c}
    <2>1. {i.cart : i \in LinesOf(s, p)'} = {c}
      BY <1>5 DEF Mine
    <2> QED
      BY <1>4, <2>1 DEF CartsOf
  <1>7. QuantityOf(s, p)' = carrelli'[c]
    BY <1>6 DEF QuantityOf
  <1>8. UserOf[s] \in Users
    BY CartAssumption
  <1> QED
    BY <1>1, <1>7, <1>8 DEF linesBar

(* The same after a step.                                                  *)
LEMMA NoLineShownNext ==
  ASSUME OneSessionPerUser, NEW s \in Sessions, NEW p \in Products,
         \A i \in interazioni' : i.user = UserOf[s] => i.product # p
  PROVE  linesBar'[UserOf[s]][p] = 0
  <1>1. (CHOOSE t \in Sessions : UserOf[t] = UserOf[s]) = s
    BY OneSession
  <1>2. CartsOf(s, p)' = {}
    BY DEF CartsOf, LinesOf
  <1>3. QuantityOf(s, p)' = 0
    BY <1>2 DEF QuantityOf
  <1>4. UserOf[s] \in Users
    BY CartAssumption
  <1> QED
    BY <1>1, <1>3, <1>4 DEF linesBar

(* It shows the stock that a running checkout has read.                    *)
LEMMA OfferShown ==
  ASSUME OneSessionPerUser, NEW s \in Sessions
  PROVE  /\ offerBar[UserOf[s]] =
              IF pc[s] \in CheckoutPcs THEN {tx[s].seen} ELSE {}
         /\ offerBar'[UserOf[s]] =
              IF pc'[s] \in CheckoutPcs THEN {tx'[s].seen} ELSE {}
  <1>1. (CHOOSE t \in Sessions : UserOf[t] = UserOf[s]) = s
    BY OneSession
  <1>2. UserOf[s] \in Users
    BY CartAssumption
  <1> QED
    BY <1>1, <1>2 DEF offerBar

(* A step that leaves the line of a product alone is not shown.            *)
LEMMA QuantityKept ==
  ASSUME OneSessionPerUser, OwnInv, OwnInv',
         NEW s \in Sessions, NEW p \in Products,
         \A i : i.user = UserOf[s] /\ i.product = p =>
                  (i \in interazioni' <=> i \in interazioni),
         \A i \in interazioni : i.user = UserOf[s] /\ i.product = p =>
                  carrelli'[i.cart] = carrelli[i.cart]
  PROVE  linesBar'[UserOf[s]][p] = linesBar[UserOf[s]][p]
  <1>1. ASSUME NEW i \in interazioni, i.user = UserOf[s], i.product = p
        PROVE  linesBar'[UserOf[s]][p] = linesBar[UserOf[s]][p]
    <2>1. i = Mine(s, p, i.cart)
      BY <1>1, LineIsMine DEF OwnInv, IInv
    <2>2. Mine(s, p, i.cart) \in interazioni'
      BY <1>1, <2>1
    <2>3. linesBar[UserOf[s]][p] = carrelli[i.cart]
      BY <1>1, <2>1, LineShown
    <2>4. linesBar'[UserOf[s]][p] = carrelli'[i.cart]
      BY <2>2, LineShownNext
    <2> QED
      BY <1>1, <2>3, <2>4
  <1>2. CASE \A i \in interazioni : i.user = UserOf[s] => i.product # p
    <2>1. \A i \in interazioni' : i.user = UserOf[s] => i.product # p
      BY <1>2
    <2> QED
      BY <1>2, <2>1, NoLineShown, NoLineShownNext
  <1> QED
    BY <1>1, <1>2

(* The refinement mapping is made of the quantities that it shows.         *)
LEMMA LinesShape ==
  /\ linesBar = [u \in Users |-> linesBar[u]]
  /\ linesBar' = [u \in Users |-> linesBar'[u]]
  /\ \A u \in Users : linesBar[u] = [p \in Products |-> linesBar[u][p]]
  /\ \A u \in Users : linesBar'[u] = [p \in Products |-> linesBar'[u][p]]
  /\ offerBar = [u \in Users |-> offerBar[u]]
  /\ offerBar' = [u \in Users |-> offerBar'[u]]
  BY DEF linesBar, offerBar

(* What a step of one session leaves to show for the others.               *)
LEMMA OthersShown ==
  ASSUME OneSessionPerUser, OwnInv, OwnInv', NEW s \in Sessions, Step(s),
         NEW u \in Users \ {UserOf[s]}
  PROVE  /\ linesBar'[u] = linesBar[u]
         /\ offerBar'[u] = offerBar[u]
  <1>1. PICK t \in Sessions : UserOf[t] = u
    BY DEF OneSessionPerUser
  <1>2. t # s
    BY <1>1
  <1>3. Untouched(t)
    BY <1>2, OthersAreUntouched DEF OneSessionPerUser
  <1>4. \A p \in Products : linesBar'[u][p] = linesBar[u][p]
    BY <1>1, <1>3, QuantityKept DEF Untouched
  <1>5. offerBar'[u] = offerBar[u]
    BY <1>1, <1>3, OfferShown DEF Untouched
  <1>6. linesBar'[u] = linesBar[u]
    BY <1>4, LinesShape
  <1> QED
    BY <1>5, <1>6

(* The stock that a checkout has read stays with it.                       *)
LEMMA SeenEffects ==
  ASSUME TypeOK, NEW s \in Sessions
  PROVE  /\ CheckoutSelect(s) => tx'[s].seen = stock
         /\ FetchRow(s) \/ TakeStock(s) \/ UnlinkLine(s) \/ CloseCart(s) =>
              tx'[s].seen = tx[s].seen
  <1> DEFINE p == work[s].product
             c == work[s].cart
  <1>1. tx[s] \in Transactions /\ tx \in [Sessions -> Transactions]
    BY DEF TypeOK
  <1>2. ASSUME CheckoutSelect(s)
        PROVE  tx'[s].seen = stock
    <2> DEFINE rows == {[product |-> i.product, cart |-> i.cart,
                         quantity |-> carrelli[i.cart]] :
                          i \in {l \in interazioni :
                                   /\ l.user = UserOf[s]
                                   /\ l.product \in Products
                                   /\ l.cart \in DOMAIN carrelli}}
    <2>1. tx'[s] = [NoTx EXCEPT !.seen = stock, !.rows = rows]
      BY <1>1, <1>2 DEF CheckoutSelect, Record
    <2> HIDE DEF rows
    <2> QED
      BY <2>1 DEF NoTx
  <1>3. ASSUME FetchRow(s)
        PROVE  tx'[s].seen = tx[s].seen
    <2>1. PICK r \in tx[s].rows :
            \/ tx'[s] = [tx[s] EXCEPT !.rows = @ \ {r}, !.short = TRUE]
            \/ tx'[s] = [tx[s] EXCEPT !.rows = @ \ {r}]
      BY <1>1, <1>3 DEF FetchRow, Record
    <2> QED
      BY <1>1, <2>1 DEF Transactions
  <1>4. ASSUME UnlinkLine(s)
        PROVE  tx'[s].seen = tx[s].seen
    BY <1>1, <1>4 DEF UnlinkLine, Record, Transactions
  <1>5. ASSUME CloseCart(s)
        PROVE  tx'[s].seen = tx[s].seen
    <2> DEFINE sum == [tx[s].counted EXCEPT ![p] = @ + carrelli[c]]
    <2>1. \/ tx'[s] = tx[s]
          \/ tx'[s] = [tx[s] EXCEPT !.closed = @ \cup {c}, !.counted = sum]
      BY <1>1, <1>5 DEF CloseCart, Record
    <2> HIDE DEF sum, c, p
    <2> QED
      BY <1>1, <2>1 DEF Transactions
  <1>6. ASSUME TakeStock(s)
        PROVE  tx'[s].seen = tx[s].seen
    <2> DEFINE sum == [tx[s].taken EXCEPT ![p] = @ + work[s].quantity]
    <2>1. tx'[s] = [tx[s] EXCEPT !.taken = sum]
      BY <1>1, <1>6 DEF TakeStock, Record
    <2> HIDE DEF sum, p
    <2> QED
      BY <1>1, <2>1 DEF Transactions
  <1> QED
    BY <1>2, <1>3, <1>4, <1>5, <1>6

-----------------------------------------------------------------------------
(* A step that shows nothing.                                              *)
LEMMA Stutters ==
  ASSUME OneSessionPerUser, OwnInv, OwnInv', NEW s \in Sessions, Step(s),
         stock' = stock,
         \A p \in Products : linesBar'[UserOf[s]][p] = linesBar[UserOf[s]][p],
         offerBar'[UserOf[s]] = offerBar[UserOf[s]]
  PROVE  UNCHANGED S!vars
  <1>1. \A u \in Users : /\ linesBar'[u] = linesBar[u]
                         /\ offerBar'[u] = offerBar[u]
    <2>1. UserOf[s] \in Users
      BY CartAssumption
    <2>2. linesBar'[UserOf[s]] = linesBar[UserOf[s]]
      BY <2>1, LinesShape
    <2> QED
      BY <2>2, OthersShown
  <1>2. linesBar' = linesBar /\ offerBar' = offerBar
    BY <1>1, LinesShape
  <1> QED
    BY <1>2 DEF S!vars

(* A step that shows a new quantity of one product.                        *)
LEMMA Sets ==
  ASSUME OneSessionPerUser, OwnInv, OwnInv', NEW s \in Sessions, Step(s),
         stock' = stock,
         pc[s] \notin CheckoutPcs, pc'[s] \notin CheckoutPcs,
         NEW p \in Products, NEW q \in 0 .. MaxQuantity,
         linesBar'[UserOf[s]][p] = q,
         \A r \in Products \ {p} :
           linesBar'[UserOf[s]][r] = linesBar[UserOf[s]][r]
  PROVE  S!Next
  <1> DEFINE u == UserOf[s]
  <1>1. u \in Users
    BY CartAssumption
  <1>2. offerBar[u] = {} /\ offerBar' = offerBar
    <2>1. offerBar[u] = {} /\ offerBar'[u] = {}
      BY OfferShown
    <2>2. \A v \in Users : offerBar'[v] = offerBar[v]
      BY <2>1, OthersShown
    <2> QED
      BY <2>1, <2>2, LinesShape
  <1>3. linesBar' = [linesBar EXCEPT ![u][p] = q]
    <2>1. \A v \in Users \ {u} : linesBar'[v] = linesBar[v]
      BY OthersShown
    <2>2. linesBar'[u] = [linesBar[u] EXCEPT ![p] = q]
      BY <1>1, LinesShape
    <2> QED
      BY <1>1, <2>1, <2>2, LinesShape
  <1>4. S!SetQuantity(u, p, q)
    BY <1>2, <1>3 DEF S!SetQuantity, S!NoOffer
  <1> QED
    BY <1>1, <1>4 DEF S!Next

(* A statement outside a checkout that touches the line of one product.    *)
LEMMA OneProduct ==
  ASSUME OneSessionPerUser, OwnInv, OwnInv', NEW s \in Sessions, Step(s),
         stock' = stock,
         pc[s] \notin CheckoutPcs, pc'[s] \notin CheckoutPcs,
         NEW p,
         p \in Products => linesBar'[UserOf[s]][p] \in 0 .. MaxQuantity,
         \A r \in Products \ {p} :
           linesBar'[UserOf[s]][r] = linesBar[UserOf[s]][r]
  PROVE  [S!Next]_S!vars
  <1>1. CASE p \in Products
    BY <1>1, Sets
  <1>2. CASE p \notin Products
    <2>1. offerBar'[UserOf[s]] = offerBar[UserOf[s]]
      BY OfferShown
    <2> QED
      BY <1>2, <2>1, Stutters
  <1> QED
    BY <1>1, <1>2

(* 'add', 'update' and 'remove' show at most one change, of one product:   *)
(* when the line appears, when its quantity is written, or when it goes.   *)
LEMMA CartStepShops ==
  ASSUME OneSessionPerUser, ShopInv, ShopInv', NEW s \in Sessions, CartStep(s)
  PROVE  [S!Next]_S!vars
  <1> DEFINE p == work[s].product
             c == work[s].cart
             u == UserOf[s]
  <1>1. Step(s)
    BY DEF Step
  <1>2. /\ TypeOK /\ HeldRows /\ LinesHaveCarts /\ NewCartIsPrivate
        /\ UnlinkedBeforeDeleted /\ OwnInv /\ OwnInv' /\ Own(s) /\ Bounded
        /\ OneLinePerProduct /\ OneLinePerCart
    BY DEF ShopInv, OwnInv, IInv
  <1>3. /\ stock' = stock
        /\ pc[s] \notin CheckoutPcs /\ pc'[s] \notin CheckoutPcs
    BY <1>2 DEF CartStep, AddIncrease, UpdateQuantity, WriteQuantity, AddCart,
                AddLine, RemoveLine, RemoveCart, Goto, TypeOK, CheckoutPcs
  <1>4. \A i \in interazioni :
          i.cart \in DOMAIN carrelli /\ carrelli[i.cart] \in 0 .. MaxQuantity
    BY <1>2 DEF LinesHaveCarts, Bounded, TypeOK
  <1>5. CASE AddIncrease(s) \/ UpdateQuantity(s)
    <2>1. WriteQuantity(s) /\ Mine(s, p, c) \in interazioni
      BY <1>2, <1>5 DEF AddIncrease, UpdateQuantity, Own, HoldsLine
    <2>2. work[s].quantity \in 0 .. MaxQuantity
      BY <1>2, <1>5 DEF AddIncrease, UpdateQuantity, HeldRows, Bounded, TypeOK,
                        Rows
    <2>3. /\ interazioni' = interazioni
          /\ \A d \in DOMAIN carrelli :
               carrelli'[d] = IF d = c THEN work[s].quantity ELSE carrelli[d]
      BY <2>1 DEF WriteQuantity
    <2>4. c \in DOMAIN carrelli
      BY <1>4, <2>1 DEF Mine
    <2>5. p \in Products => linesBar'[u][p] \in 0 .. MaxQuantity
      BY <1>2, <2>1, <2>2, <2>3, <2>4, LineShownNext
    <2>6. ASSUME NEW r \in Products \ {p}
          PROVE  linesBar'[u][r] = linesBar[u][r]
      <3>1. \A i \in interazioni : i.product = r => i.cart # c
        BY <1>2, <2>1, <2>6 DEF OneLinePerCart, Mine
      <3> QED
        BY <1>2, <1>4, <2>3, <3>1, QuantityKept
    <2> QED
      BY <1>1, <1>2, <1>3, <2>5, <2>6, OneProduct
  <1>6. CASE AddCart(s) \/ RemoveCart(s)
    <2>1. /\ interazioni' = interazioni
          /\ \A i \in interazioni : carrelli'[i.cart] = carrelli[i.cart]
      <3>1. CASE AddCart(s)
        <4>1. \A i \in interazioni : i.cart # nextCart
          BY <1>2, <1>4 DEF TypeOK
        <4> QED
          BY <1>4, <3>1, <4>1 DEF AddCart
      <3>2. CASE RemoveCart(s)
        <4>1. \A i \in interazioni : i.cart # c
          BY <1>2, <3>2 DEF RemoveCart, UnlinkedBeforeDeleted, Linked
        <4> QED
          BY <1>4, <3>2, <4>1 DEF RemoveCart, Restrict
      <3> QED
        BY <1>6, <3>1, <3>2
    <2>2. \A r \in Products : linesBar'[u][r] = linesBar[u][r]
      BY <1>2, <2>1, QuantityKept
    <2>3. offerBar'[u] = offerBar[u]
      BY <1>3, OfferShown
    <2> QED
      BY <1>1, <1>2, <1>3, <2>2, <2>3, Stutters
  <1>7. CASE AddLine(s)
    <2>1. interazioni' = interazioni \cup {Mine(s, p, c)} /\ carrelli' = carrelli
      BY <1>7 DEF AddLine, Mine
    <2>2. carrelli[c] \in 0 .. MaxQuantity
      BY <1>2, <1>7 DEF AddLine, NewCartIsPrivate, Bounded, TypeOK
    <2>3. p \in Products => linesBar'[u][p] \in 0 .. MaxQuantity
      BY <1>2, <2>1, <2>2, LineShownNext
    <2>4. ASSUME NEW r \in Products \ {p}
          PROVE  linesBar'[u][r] = linesBar[u][r]
      <3>1. \A i : i.product = r => (i \in interazioni' <=> i \in interazioni)
        BY <2>1, <2>4 DEF Mine
      <3> QED
        BY <1>2, <2>1, <3>1, QuantityKept
    <2> QED
      BY <1>1, <1>2, <1>3, <2>3, <2>4, OneProduct
  <1>8. CASE RemoveLine(s)
    <2>1. /\ Mine(s, p, c) \in interazioni
          /\ interazioni' = {i \in interazioni : i.cart # c}
          /\ carrelli' = carrelli
      BY <1>2, <1>8 DEF RemoveLine, Own, HoldsLine
    <2>2. \A i \in interazioni' : i.user = u => i.product # p
      BY <1>2, <2>1 DEF OneLinePerProduct, Mine
    <2>3. p \in Products => linesBar'[u][p] \in 0 .. MaxQuantity
      BY <2>2, NoLineShownNext, CartAssumption
    <2>4. ASSUME NEW r \in Products \ {p}
          PROVE  linesBar'[u][r] = linesBar[u][r]
      <3>1. \A i \in interazioni : i.product = r => i.cart # c
        BY <1>2, <2>1, <2>4 DEF OneLinePerCart, Mine
      <3> QED
        BY <1>2, <2>1, <3>1, QuantityKept
    <2> QED
      BY <1>1, <1>2, <1>3, <2>3, <2>4, OneProduct
  <1> QED
    BY <1>5, <1>6, <1>7, <1>8 DEF CartStep

(* The first statement of a request shows nothing, except that a checkout  *)
(* begins.                                                                 *)
LEMMA PostShops ==
  ASSUME OneSessionPerUser, ShopInv, ShopInv', NEW s \in Sessions, Post(s)
  PROVE  [S!Next]_S!vars
  <1> DEFINE u == UserOf[s]
  <1>1. Step(s) /\ u \in Users
    BY CartAssumption DEF Step
  <1>2. TypeOK /\ OwnInv /\ OwnInv'
    BY DEF ShopInv, OwnInv, IInv
  <1>3. /\ stock' = stock /\ interazioni' = interazioni /\ carrelli' = carrelli
        /\ pc[s] = "idle"
    BY DEF Post, AddSelect, UpdateSelect, RemoveSelect, CheckoutSelect, tables
  <1>4. \A r \in Products : linesBar'[u][r] = linesBar[u][r]
    BY <1>2, <1>3, QuantityKept
  <1>5. offerBar[u] = {}
    BY <1>3, OfferShown DEF CheckoutPcs
  <1>6. CASE CheckoutSelect(s)
    <2>1. pc'[s] = "fetch" /\ tx'[s].seen = stock
      BY <1>2, <1>6, SeenEffects DEF CheckoutSelect, Goto, TypeOK
    <2>2. offerBar'[u] = {stock}
      BY <2>1, OfferShown DEF CheckoutPcs
    <2>3. \A v \in Users \ {u} : /\ linesBar'[v] = linesBar[v]
                                 /\ offerBar'[v] = offerBar[v]
      BY <1>1, <1>2, OthersShown
    <2>4. linesBar'[u] = linesBar[u]
      BY <1>1, <1>4, LinesShape
    <2>5. linesBar' = linesBar
      BY <2>3, <2>4, LinesShape
    <2>6. offerBar' = [offerBar EXCEPT ![u] = {stock}]
      BY <1>1, <2>2, <2>3, LinesShape
    <2>7. S!BeginCheckout(u)
      BY <1>3, <1>5, <2>5, <2>6 DEF S!BeginCheckout, S!NoOffer
    <2> QED
      BY <1>1, <2>7 DEF S!Next
  <1>7. CASE ~CheckoutSelect(s)
    <2>1. pc'[s] \notin CheckoutPcs
      BY <1>2, <1>7 DEF Post, AddSelect, UpdateSelect, RemoveSelect, Goto,
                        TypeOK, CheckoutPcs
    <2>2. offerBar'[u] = {}
      BY <2>1, OfferShown
    <2> QED
      BY <1>1, <1>2, <1>3, <1>4, <1>5, <2>2, Stutters
  <1> QED
    BY <1>6, <1>7

(* A COMMIT sells the cart that the user sees, which the snapshot offered. *)
LEMMA CommitBuys ==
  ASSUME OneSessionPerUser, ShopInv, ShopInv', NEW s \in Sessions, Commit(s)
  PROVE  S!Buy(UserOf[s])
  <1> DEFINE u == UserOf[s]
  <1>1. Step(s) /\ u \in Users
    BY CartAssumption DEF Step, CheckoutStep
  <1>2. TypeOK /\ OwnInv /\ OwnInv' /\ Own(s) /\ TakesTheCart(s)
    BY DEF ShopInv, OwnInv, IInv
  <1>3. /\ pc[s] = "fetch" /\ tx[s].rows = {} /\ ~tx[s].short
        /\ stock' = [p \in Products |-> stock[p] - tx[s].taken[p]]
        /\ interazioni' = {i \in interazioni : i.cart \notin tx[s].unlinked}
    BY DEF Commit
  <1>4. pc'[s] = "idle"
    BY <1>2 DEF Commit, EndCheckout, Goto, TypeOK
  <1>5. \A i \in interazioni : i.user = u /\ i.product \in Products =>
          i.cart \in tx[s].unlinked
    BY <1>2, <1>3 DEF Own, CoversCart, CheckoutPcs
  <1>6. ASSUME NEW p \in Products
        PROVE  linesBar[u][p] = tx[s].taken[p]
    <2>1. ASSUME NEW i \in interazioni, i.user = u, i.product = p
          PROVE  linesBar[u][p] = tx[s].taken[p]
      <3>1. Mine(s, p, i.cart) \in interazioni
        BY <1>2, <2>1, LineIsMine
      <3>2. linesBar[u][p] = carrelli[i.cart]
        BY <1>2, <3>1, LineShown
      <3>3. tx[s].taken[p] = carrelli[i.cart]
        BY <1>2, <1>5, <2>1 DEF TakesTheCart
      <3> QED
        BY <3>2, <3>3
    <2>2. CASE \A i \in interazioni : i.user = u => i.product # p
      <3>1. tx[s].taken[p] = 0
        BY <1>2, <2>2 DEF TakesTheCart
      <3> QED
        BY <2>2, <3>1, NoLineShown
    <2> QED
      BY <2>1, <2>2
  <1>7. offerBar[u] = {tx[s].seen} /\ offerBar'[u] = {}
    BY <1>3, <1>4, OfferShown DEF CheckoutPcs
  <1>8. linesBar'[u] = [p \in Products |-> 0]
    <2>1. ASSUME NEW p \in Products
          PROVE  linesBar'[u][p] = 0
      <3>1. \A i \in interazioni' : i.user = u => i.product # p
        BY <1>3, <1>5
      <3> QED
        BY <3>1, NoLineShownNext
    <2> QED
      BY <1>1, <2>1, LinesShape
  <1>9. \A v \in Users \ {u} : /\ linesBar'[v] = linesBar[v]
                               /\ offerBar'[v] = offerBar[v]
    BY <1>1, <1>2, OthersShown
  <1>10. \A p \in Products : linesBar[u][p] > 0 => linesBar[u][p] <= tx[s].seen[p]
    BY <1>2, <1>6 DEF Own, TakesOnce
  <1>11. stock' = [p \in Products |-> stock[p] - linesBar[u][p]]
    BY <1>3, <1>6
  <1>12. linesBar' = [linesBar EXCEPT ![u] = [p \in Products |-> 0]]
    BY <1>1, <1>8, <1>9, LinesShape
  <1>13. offerBar' = [offerBar EXCEPT ![u] = {}]
    BY <1>1, <1>7, <1>9, LinesShape
  <1> QED
    BY <1>7, <1>10, <1>11, <1>12, <1>13 DEF S!Buy, S!EmptyCart, S!NoOffer

(* Every other end of a checkout withdraws the offer.                      *)
LEMMA EndCancels ==
  ASSUME OneSessionPerUser, ShopInv, ShopInv', NEW s \in Sessions,
         \/ RollbackOutOfStock(s) \/ CheckoutException(s)
         \/ RequestDies(s) \/ ShowSuccess(s)
  PROVE  [S!Next]_S!vars
  <1> DEFINE u == UserOf[s]
  <1>1. Step(s) /\ u \in Users
    BY CartAssumption DEF Step, CheckoutStep
  <1>2. TypeOK /\ OwnInv /\ OwnInv'
    BY DEF ShopInv, OwnInv, IInv
  <1>3. /\ stock' = stock /\ interazioni' = interazioni /\ carrelli' = carrelli
        /\ pc'[s] = "idle"
    BY <1>2 DEF RollbackOutOfStock, CheckoutException, EndCheckout, RequestDies,
                ShowSuccess, Goto, TypeOK, tables
  <1>4. \A r \in Products : linesBar'[u][r] = linesBar[u][r]
    BY <1>2, <1>3, QuantityKept
  <1>5. offerBar'[u] = {}
    BY <1>3, OfferShown DEF CheckoutPcs
  <1>6. CASE offerBar[u] = {}
    BY <1>1, <1>2, <1>3, <1>4, <1>5, <1>6, Stutters
  <1>7. CASE offerBar[u] # {}
    <2>1. \A v \in Users \ {u} : /\ linesBar'[v] = linesBar[v]
                                 /\ offerBar'[v] = offerBar[v]
      BY <1>1, <1>2, OthersShown
    <2>2. linesBar'[u] = linesBar[u]
      BY <1>1, <1>4, LinesShape
    <2>3. linesBar' = linesBar
      BY <2>1, <2>2, LinesShape
    <2>4. offerBar' = [offerBar EXCEPT ![u] = {}]
      BY <1>1, <1>5, <2>1, LinesShape
    <2>5. S!CancelCheckout(u)
      BY <1>3, <1>7, <2>3, <2>4 DEF S!CancelCheckout, S!NoOffer
    <2> QED
      BY <1>1, <2>5 DEF S!Next
  <1> QED
    BY <1>6, <1>7

(* Between the two, a checkout shows nothing.                              *)
LEMMA CheckoutIsSilent ==
  ASSUME OneSessionPerUser, ShopInv, ShopInv', NEW s \in Sessions,
         FetchRow(s) \/ TakeStock(s) \/ UnlinkLine(s) \/ CloseCart(s)
  PROVE  UNCHANGED S!vars
  <1> DEFINE u == UserOf[s]
  <1>1. Step(s)
    BY DEF Step, CheckoutStep
  <1>2. TypeOK /\ OwnInv /\ OwnInv'
    BY DEF ShopInv, OwnInv, IInv
  <1>3. /\ stock' = stock /\ interazioni' = interazioni /\ carrelli' = carrelli
        /\ pc[s] \in CheckoutPcs /\ pc'[s] \in CheckoutPcs
    BY <1>2 DEF FetchRow, TakeStock, UnlinkLine, CloseCart, Goto, TypeOK, tables,
                CheckoutPcs
  <1>4. \A r \in Products : linesBar'[u][r] = linesBar[u][r]
    BY <1>2, <1>3, QuantityKept
  <1>5. tx'[s].seen = tx[s].seen
    BY <1>2, SeenEffects
  <1>6. offerBar'[u] = offerBar[u]
    BY <1>3, <1>5, OfferShown, ZenonT(40)
  <1> QED
    BY <1>1, <1>2, <1>3, <1>4, <1>6, Stutters

-----------------------------------------------------------------------------
(* Cart implements Shop: whatever the requests of all users do, each user  *)
(* sees a cart that changes one product at a time, and checkouts that sell *)
(* the whole cart against the stock that they have read, or nothing.       *)
THEOREM CartImplementsShop ==
  ASSUME OneSessionPerUser
  PROVE  Spec => ImplementsShop
  <1>1. Init => S!Init
    <2> SUFFICES ASSUME Init PROVE S!Init
      OBVIOUS
    <2>1. interazioni = {} /\ stock = InitStock
          /\ \A s \in Sessions : pc[s] = "idle"
      BY DEF Init
    <2>2. linesBar = [u \in Users |-> [p \in Products |-> 0]]
      BY <2>1 DEF linesBar, QuantityOf, CartsOf, LinesOf
    <2>3. ASSUME NEW u \in Users
          PROVE  offerBar[u] = {}
      <3>1. PICK s \in Sessions : UserOf[s] = u
        BY DEF OneSessionPerUser
      <3> QED
        BY <2>1, <3>1, OfferShown DEF CheckoutPcs
    <2>4. offerBar = [u \in Users |-> {}]
      BY <2>3, LinesShape
    <2> QED
      BY <2>1, <2>2, <2>4 DEF S!Init, S!EmptyCart, S!NoOffer
  <1>2. ShopInv /\ [Next]_vars => ShopInv'
    BY ShopInvStep DEF OneSessionPerUser
  <1>3. ShopInv /\ ShopInv' /\ [Next]_vars => [S!Next]_S!vars
    <2> SUFFICES ASSUME ShopInv, ShopInv', [Next]_vars
                 PROVE  [S!Next]_S!vars
      OBVIOUS
    <2>1. ASSUME NEW s \in Sessions, Commit(s)
          PROVE  S!Next
      <3>1. UserOf[s] \in Users
        BY CartAssumption
      <3> QED
        BY <2>1, <3>1, CommitBuys DEF S!Next
    <2>2. CASE UNCHANGED vars
      BY <2>2 DEF vars, S!vars, linesBar, offerBar, QuantityOf, CartsOf, LinesOf
    <2> QED
      BY <2>1, <2>2, CartStepShops, PostShops, EndCancels, CheckoutIsSilent
         DEF Next, CheckoutStep
  <1> QED
    BY InitShopInv, <1>1, <1>2, <1>3, PTL DEF Spec, ImplementsShop, S!Spec

=============================================================================
