----------------------------- MODULE CartProofs -----------------------------
(***************************************************************************)
(* Proofs about Cart for any number of sessions, users and products, any   *)
(* assignment of sessions to users, and with failures.                     *)
(***************************************************************************)
EXTENDS Cart, TLAPS

(* What a request holds is well formed for the statement it is about to    *)
(* run: a product that was posted, and a quantity of at least one.         *)
HeldRows ==
  \A s \in Sessions :
    /\ pc[s] \in {"add_increase", "add_cart", "update_quantity"} =>
         work[s].quantity >= 1
    /\ pc[s] \in {"add_cart", "add_line"} => work[s].product \in PostedIds

(* Identifiers of carts are never reused: a request or a transaction only  *)
(* knows of carts that have been inserted.                                 *)
KnownCarts ==
  \A s \in Sessions :
    /\ work[s].cart < nextCart
    /\ \A r \in tx[s].rows : r.cart < nextCart
    /\ \A c \in tx[s].closed : c < nextCart

(* Between the two INSERTs of 'add' the new cart exists, has no line, and  *)
(* nobody else has heard of it.                                            *)
NewCartIsPrivate ==
  \A s \in Sessions : pc[s] = "add_line" =>
    /\ work[s].cart \in DOMAIN carrelli
    /\ work[s].cart \notin Linked
    /\ \A t \in Sessions \ {s} : work[t].cart # work[s].cart
    /\ \A t \in Sessions :
         /\ \A r \in tx[t].rows : r.cart # work[s].cart
         /\ work[s].cart \notin tx[t].closed

(* A cart is deleted only after its line: by 'remove', and by a checkout   *)
(* inside its transaction.                                                 *)
UnlinkedBeforeDeleted ==
  \A s \in Sessions :
    /\ pc[s] = "remove_cart" => work[s].cart \notin Linked
    /\ pc[s] = "close" => work[s].cart \notin Linked \ tx[s].unlinked
    /\ tx[s].closed \cap Linked \subseteq tx[s].unlinked

IInv ==
  /\ TypeOK
  /\ HeldRows
  /\ KnownCarts
  /\ LinesHaveCarts
  /\ NewCartIsPrivate
  /\ UnlinkedBeforeDeleted
-----------------------------------------------------------------------------
(* The quantity that the handler works with is at least one, whatever the  *)
(* form posts.                                                             *)
LEMMA EffectiveQuantityPositive ==
  ASSUME NEW q \in Quantities
  PROVE  EffectiveQuantity(q) \in Nat \ {0}
  BY CartAssumption, SMT DEF EffectiveQuantity

(* The initial tables are empty and no request runs.                       *)
LEMMA InitIInv == Init => IInv
  <1> SUFFICES ASSUME Init PROVE IInv
    OBVIOUS
  <1>1. TypeOK
    BY CartAssumption
       DEF Init, TypeOK, NoRow, Rows, NoTx, Transactions, Zero, Lines
  <1>2. HeldRows
    BY <1>1 DEF Init, HeldRows, TypeOK
  <1>3. KnownCarts
    BY <1>1 DEF Init, KnownCarts, NoTx, NoRow
  <1>4. LinesHaveCarts /\ NewCartIsPrivate /\ UnlinkedBeforeDeleted
    BY DEF Init, LinesHaveCarts, NewCartIsPrivate, UnlinkedBeforeDeleted,
           NoTx, NoRow, Linked
  <1> QED
    BY <1>1, <1>2, <1>3, <1>4 DEF IInv

(* The empty values have the types of what they stand for.                 *)
LEMMA EmptyTypes == NoTx \in Transactions /\ NoRow \in Rows
  BY DEF NoTx, Transactions, Zero, NoRow, Rows

(* Adding to one product's count.                                          *)
LEMMA CountTypes ==
  ASSUME NEW f \in [Products -> Int], NEW p, NEW n \in Int
  PROVE  [f EXCEPT ![p] = @ + n] \in [Products -> Int]
  <1>1. CASE p \in Products
    <2>1. f[p] + n \in Int
      BY <1>1
    <2> QED
      BY <1>1, <2>1
  <1>2. CASE p \notin Products
    BY <1>2
  <1> QED
    BY <1>1, <1>2

(* Every statement keeps tables and PHP variables well typed: quantities   *)
(* stay positive and cart identifiers stay below the next one.             *)
LEMMA TypeStep ==
  ASSUME TypeOK, HeldRows, [Next]_vars
  PROVE  TypeOK'
  <1> USE CartAssumption DEF TypeOK, tables, history, Goto, Hold, Record
  <1>1. ASSUME NEW s \in Sessions, NEW p \in PostedIds, NEW q \in Quantities,
               AddSelect(s, p, q)
        PROVE  TypeOK'
    <2>1. CASE CartsOf(s, p) = {}
      BY <1>1, <2>1, EffectiveQuantityPositive, SMTT(30) DEF AddSelect, Rows, CartPcs
    <2>2. ASSUME NEW c \in CartsOf(s, p), 
                 Hold(s, [product |-> p, cart |-> c,
                   quantity |-> carrelli[c] + EffectiveQuantity(q)]),
                 Goto(s, "add_increase")
          PROVE  TypeOK'
      <3>1. c \in Nat /\ carrelli[c] + EffectiveQuantity(q) \in Int
        BY <2>2, EffectiveQuantityPositive DEF CartsOf
      <3>2. work' \in [Sessions -> Rows]
        BY <2>2, <3>1 DEF Rows
      <3> QED
        BY <1>1, <2>2, <3>2 DEF AddSelect, CartPcs
    <2> QED
      BY <1>1, <2>1, <2>2 DEF AddSelect
  <1>2. ASSUME NEW s \in Sessions, NEW p \in PostedIds, NEW q \in Quantities,
               UpdateSelect(s, p, q)
        PROVE  TypeOK'
    BY <1>2, EffectiveQuantityPositive DEF UpdateSelect, Rows, CartPcs, CartsOf
  <1>3. ASSUME NEW s \in Sessions, NEW p \in PostedIds, RemoveSelect(s, p)
        PROVE  TypeOK'
    BY <1>3 DEF RemoveSelect, Rows, CartPcs, LinesOf, Lines
  <1>4. ASSUME NEW s \in Sessions, AddIncrease(s) \/ UpdateQuantity(s)
        PROVE  TypeOK'
    <2>1. WriteQuantity(s) /\ work[s].quantity \in Nat \ {0}
      BY <1>4 DEF AddIncrease, UpdateQuantity, HeldRows, Rows
    <2>2. /\ DOMAIN carrelli' = DOMAIN carrelli
          /\ carrelli' \in [DOMAIN carrelli' -> Nat \ {0}]
      BY <2>1 DEF WriteQuantity
    <2> QED
      BY <2>1, <2>2, EmptyTypes DEF WriteQuantity
  <1>5. ASSUME NEW s \in Sessions, AddCart(s)
        PROVE  TypeOK'
    <2>1. work[s].quantity \in Nat \ {0}
      BY <1>5 DEF AddCart, HeldRows, Rows
    <2>2. /\ DOMAIN carrelli' = {nextCart} \cup DOMAIN carrelli
          /\ carrelli' \in [DOMAIN carrelli' -> Nat \ {0}]
      BY <1>5, <2>1 DEF AddCart
    <2>3. DOMAIN carrelli' \subseteq 1 .. nextCart' - 1
      BY <1>5, <2>2 DEF AddCart
    <2>4. work' \in [Sessions -> Rows]
      BY <1>5 DEF AddCart, Rows
    <2> QED
      BY <1>5, <2>2, <2>3, <2>4 DEF AddCart, CartPcs
  <1>6. ASSUME NEW s \in Sessions, AddLine(s)
        PROVE  TypeOK'
    BY <1>6 DEF AddLine, HeldRows, Rows, Lines, NoRow
  <1>7. ASSUME NEW s \in Sessions, RemoveLine(s)
        PROVE  TypeOK'
    BY <1>7 DEF RemoveLine, CartPcs
  <1>8. ASSUME NEW s \in Sessions, RemoveCart(s)
        PROVE  TypeOK'
    BY <1>8 DEF RemoveCart, Restrict, NoRow, Rows
  <1>9. ASSUME NEW s \in Sessions, CheckoutSelect(s)
        PROVE  TypeOK'
    <2> DEFINE rows == {[product |-> i.product, cart |-> i.cart,
                         quantity |-> carrelli[i.cart]] :
                          i \in {l \in interazioni :
                                   /\ l.user = UserOf[s]
                                   /\ l.product \in Products
                                   /\ l.cart \in DOMAIN carrelli}}
    <2>1. rows \subseteq Rows
      BY DEF Rows, Lines
    <2>2. [NoTx EXCEPT !.seen = stock, !.rows = rows] \in Transactions
      <3> HIDE DEF rows
      <3> QED
        BY <2>1, EmptyTypes DEF Transactions
    <2>3. tx' \in [Sessions -> Transactions]
      BY <1>9, <2>2 DEF CheckoutSelect
    <2> QED
      BY <1>9, <2>3 DEF CheckoutSelect, CheckoutPcs
  <1>10. ASSUME NEW s \in Sessions, FetchRow(s)
         PROVE  TypeOK'
    <2>1. PICK r \in tx[s].rows :
            \/ /\ Record(s, [tx[s] EXCEPT !.rows = @ \ {r}, !.short = TRUE])
               /\ UNCHANGED <<pc, work>>
            \/ /\ Record(s, [tx[s] EXCEPT !.rows = @ \ {r}])
               /\ Hold(s, r)
               /\ Goto(s, "take")
      BY <1>10 DEF FetchRow
    <2>2. tx[s] \in Transactions /\ r \in Rows
      BY DEF Transactions
    <2>3. /\ [tx[s] EXCEPT !.rows = @ \ {r}, !.short = TRUE] \in Transactions
          /\ [tx[s] EXCEPT !.rows = @ \ {r}] \in Transactions
      BY <2>2 DEF Transactions
    <2>4. tx' \in [Sessions -> Transactions]
      BY <2>1, <2>3
    <2> QED
      BY <1>10, <2>1, <2>2, <2>4 DEF FetchRow, CheckoutPcs
  <1>11. ASSUME NEW s \in Sessions, TakeStock(s)
         PROVE  TypeOK'
    <2> DEFINE p == work[s].product
               n == work[s].quantity
    <2>1. tx[s] \in Transactions /\ n \in Int
      BY DEF Rows
    <2>2. [tx[s] EXCEPT !.taken[p] = @ + n] \in Transactions
      <3> HIDE DEF p, n
      <3> DEFINE sum == [tx[s].taken EXCEPT ![p] = @ + n]
      <3>1. sum \in [Products -> Int]
        BY <2>1, CountTypes DEF Transactions
      <3>2. [tx[s] EXCEPT !.taken = sum] \in Transactions
        <4> HIDE DEF sum
        <4> QED
          BY <2>1, <3>1 DEF Transactions
      <3> QED
        BY <3>2
    <2>3. tx' \in [Sessions -> Transactions]
      BY <1>11, <2>2 DEF TakeStock
    <2> QED
      BY <1>11, <2>3 DEF TakeStock, CheckoutPcs
  <1>12. ASSUME NEW s \in Sessions, UnlinkLine(s)
         PROVE  TypeOK'
    <2>1. tx[s] \in Transactions /\ work[s].cart \in Nat
      BY DEF Rows
    <2>2. [tx[s] EXCEPT !.unlinked = @ \cup ({work[s].cart} \cap Linked)]
            \in Transactions
      BY <2>1 DEF Transactions
    <2>3. tx' \in [Sessions -> Transactions]
      BY <1>12, <2>2 DEF UnlinkLine
    <2> QED
      BY <1>12, <2>3 DEF UnlinkLine, CheckoutPcs
  <1>13. ASSUME NEW s \in Sessions, CloseCart(s)
         PROVE  TypeOK'
    <2> DEFINE p == work[s].product
               c == work[s].cart
    <2>1. tx[s] \in Transactions /\ c \in Nat
      BY DEF Rows
    <2>2. ASSUME c \in DOMAIN carrelli
          PROVE  [tx[s] EXCEPT !.closed = @ \cup {c},
                               !.counted[p] = @ + carrelli[c]] \in Transactions
      <3>1. carrelli[c] \in Int
        BY <2>2
      <3> HIDE DEF p, c
      <3> DEFINE sum == [tx[s].counted EXCEPT ![p] = @ + carrelli[c]]
      <3>2. sum \in [Products -> Int]
        BY <2>1, <3>1, CountTypes DEF Transactions
      <3>3. [tx[s] EXCEPT !.closed = @ \cup {c}, !.counted = sum]
              \in Transactions
        <4> HIDE DEF sum
        <4> QED
          BY <2>1, <3>2 DEF Transactions
      <3> QED
        BY <3>3
    <2>3. tx' \in [Sessions -> Transactions]
      BY <1>13, <2>2 DEF CloseCart
    <2> QED
      BY <1>13, <2>3, EmptyTypes DEF CloseCart, CheckoutPcs
  <1>14. ASSUME NEW s \in Sessions, Commit(s)
         PROVE  TypeOK'
    <2>1. confirm' \in [Sessions -> BOOLEAN]
      BY <1>14 DEF Commit, Confirmed
    <2>2. /\ carrelli' \in [DOMAIN carrelli' -> Nat \ {0}]
          /\ DOMAIN carrelli' \subseteq 1 .. nextCart - 1
      BY <1>14 DEF Commit, Restrict
    <2>3. /\ stock' \in [Products -> Int]
          /\ delivered' \in [Products -> Int]
      <3>1. tx[s] \in Transactions
        OBVIOUS
      <3> QED
        BY <1>14, <3>1 DEF Commit, Transactions
    <2>4. /\ interazioni' \subseteq Lines
          /\ nextCart' = nextCart
          /\ abandoned' = abandoned
      BY <1>14 DEF Commit
    <2>5. /\ pc' \in [Sessions -> {"idle"} \cup CartPcs \cup CheckoutPcs]
          /\ work' \in [Sessions -> Rows]
          /\ tx' \in [Sessions -> Transactions]
      BY <1>14, EmptyTypes DEF Commit, EndCheckout
    <2> QED
      BY <2>1, <2>2, <2>3, <2>4, <2>5
  <1>15. ASSUME NEW s \in Sessions,
                RollbackOutOfStock(s) \/ CheckoutException(s)
         PROVE  TypeOK'
    BY <1>15, EmptyTypes DEF RollbackOutOfStock, CheckoutException, EndCheckout
  <1>16. ASSUME NEW s \in Sessions, RequestDies(s)
         PROVE  TypeOK'
    BY <1>16, EmptyTypes DEF RequestDies, Rows
  <1>17. ASSUME NEW s \in Sessions, ShowSuccess(s)
         PROVE  TypeOK'
    BY <1>17 DEF ShowSuccess
  <1>18. CASE UNCHANGED vars
    BY <1>18 DEF vars
  <1> QED
    BY <1>1, <1>2, <1>3, <1>4, <1>5, <1>6, <1>7, <1>8, <1>9, <1>10, <1>11,
       <1>12, <1>13, <1>14, <1>15, <1>16, <1>17, <1>18
       DEF Next, Post, CartStep, CheckoutStep

-----------------------------------------------------------------------------
(* A request keeps a well formed row from the statement that reads it to   *)
(* the statement that uses it.                                             *)
LEMMA HeldStep ==
  ASSUME TypeOK, HeldRows, [Next]_vars
  PROVE  HeldRows'
  <1> USE CartAssumption DEF TypeOK, HeldRows, Goto, Hold, Record, Rows
  <1>1. ASSUME NEW s \in Sessions, NEW p \in PostedIds, NEW q \in Quantities,
               AddSelect(s, p, q)
        PROVE  HeldRows'
    BY <1>1, EffectiveQuantityPositive DEF AddSelect, CartsOf
  <1>2. ASSUME NEW s \in Sessions, NEW p \in PostedIds, NEW q \in Quantities,
               UpdateSelect(s, p, q)
        PROVE  HeldRows'
    BY <1>2, EffectiveQuantityPositive DEF UpdateSelect, CartsOf
  <1>3. ASSUME NEW s \in Sessions, NEW p \in PostedIds, RemoveSelect(s, p)
        PROVE  HeldRows'
    BY <1>3 DEF RemoveSelect
  <1>4. ASSUME NEW s \in Sessions, CartStep(s)
        PROVE  HeldRows'
    BY <1>4 DEF CartStep, AddIncrease, UpdateQuantity, WriteQuantity, AddCart,
                AddLine, RemoveLine, RemoveCart
  <1>5. ASSUME NEW s \in Sessions, CheckoutSelect(s) \/ CheckoutStep(s)
        PROVE  HeldRows'
    BY <1>5, ZenonT(40) DEF CheckoutSelect, CheckoutStep, FetchRow, TakeStock, UnlinkLine,
                CloseCart, Commit, RollbackOutOfStock, CheckoutException,
                EndCheckout
  <1>6. ASSUME NEW s \in Sessions, RequestDies(s) \/ ShowSuccess(s)
        PROVE  HeldRows'
    BY <1>6 DEF RequestDies, ShowSuccess
  <1>7. CASE UNCHANGED vars
    BY <1>7 DEF vars
  <1> QED
    BY <1>1, <1>2, <1>3, <1>4, <1>5, <1>6, <1>7 DEF Next, Post

(* What each step of a checkout does to the carts its transaction knows.   *)
LEMMA CheckoutEffects ==
  ASSUME TypeOK, NEW s \in Sessions, NEW t \in Sessions
  PROVE  /\ FetchRow(s) =>
              /\ tx'[t].rows \subseteq tx[t].rows
              /\ tx'[t].unlinked = tx[t].unlinked
              /\ tx'[t].closed = tx[t].closed
         /\ TakeStock(s) =>
              /\ tx'[t].rows = tx[t].rows
              /\ tx'[t].unlinked = tx[t].unlinked
              /\ tx'[t].closed = tx[t].closed
         /\ UnlinkLine(s) =>
              /\ tx'[t].rows = tx[t].rows
              /\ tx'[t].unlinked = IF t = s
                   THEN tx[s].unlinked \cup ({work[s].cart} \cap Linked)
                   ELSE tx[t].unlinked
              /\ tx'[t].closed = tx[t].closed
         /\ CloseCart(s) =>
              /\ tx'[t].rows = tx[t].rows
              /\ tx'[t].unlinked = tx[t].unlinked
              /\ tx'[t].closed = IF t = s
                   THEN tx[s].closed \cup ({work[s].cart} \cap DOMAIN carrelli)
                   ELSE tx[t].closed
  <1> USE DEF TypeOK, Transactions, Record
  <1>1. FetchRow(s) =>
          /\ tx'[t].rows \subseteq tx[t].rows
          /\ tx'[t].unlinked = tx[t].unlinked
          /\ tx'[t].closed = tx[t].closed
    <2> SUFFICES ASSUME NEW r \in tx[s].rows,
                        \/ Record(s, [tx[s] EXCEPT !.rows = @ \ {r},
                                                        !.short = TRUE])
                        \/ Record(s, [tx[s] EXCEPT !.rows = @ \ {r}])
                 PROVE  /\ tx'[t].rows \subseteq tx[t].rows
                        /\ tx'[t].unlinked = tx[t].unlinked
                        /\ tx'[t].closed = tx[t].closed
      BY DEF FetchRow
    <2>1. tx'[t] = tx[t] \/ tx'[t] = [tx[t] EXCEPT !.rows = @ \ {r}]
            \/ tx'[t] = [tx[t] EXCEPT !.rows = @ \ {r}, !.short = TRUE]
      OBVIOUS
    <2>2. tx[t] \in Transactions
      OBVIOUS
    <2> QED
      BY <2>1, <2>2, ZenonT(40)
  <1>2. TakeStock(s) =>
          /\ tx'[t].rows = tx[t].rows
          /\ tx'[t].unlinked = tx[t].unlinked
          /\ tx'[t].closed = tx[t].closed
    BY DEF TakeStock
  <1>3. UnlinkLine(s) =>
          /\ tx'[t].rows = tx[t].rows
          /\ tx'[t].unlinked = IF t = s
               THEN tx[s].unlinked \cup ({work[s].cart} \cap Linked)
               ELSE tx[t].unlinked
          /\ tx'[t].closed = tx[t].closed
    BY DEF UnlinkLine
  <1>4. CloseCart(s) =>
          /\ tx'[t].rows = tx[t].rows
          /\ tx'[t].unlinked = tx[t].unlinked
          /\ tx'[t].closed = IF t = s
               THEN tx[s].closed \cup ({work[s].cart} \cap DOMAIN carrelli)
               ELSE tx[t].closed
    <2> DEFINE c == work[s].cart
               sum == [tx[s].counted EXCEPT ![work[s].product] =
                         @ + carrelli[c]]
    <2>1. tx[s] \in Transactions
      OBVIOUS
    <2>2. CloseCart(s) =>
            IF c \in DOMAIN carrelli
            THEN Record(s, [tx[s] EXCEPT !.closed = @ \cup {c},
                                        !.counted = sum])
            ELSE tx' = tx
      BY DEF CloseCart
    <2> HIDE DEF sum
    <2>3. ASSUME CloseCart(s), c \in DOMAIN carrelli
          PROVE  /\ tx'[t] = IF t = s
                             THEN [tx[s] EXCEPT !.closed = @ \cup {c},
                                                !.counted = sum]
                             ELSE tx[t]
                 /\ {c} \cap DOMAIN carrelli = {c}
      BY <2>2, <2>3
    <2>4. ASSUME CloseCart(s), c \notin DOMAIN carrelli
          PROVE  tx' = tx /\ {c} \cap DOMAIN carrelli = {}
      BY <2>2, <2>4
    <2>5. CASE c \in DOMAIN carrelli
      <3>1. CASE t = s
        <4> DEFINE new == [tx[s] EXCEPT !.closed = @ \cup {c}, !.counted = sum]
        <4>1. /\ new.rows = tx[s].rows /\ new.unlinked = tx[s].unlinked
              /\ new.closed = tx[s].closed \cup {c}
          BY <2>1
        <4> QED
          BY <2>3, <2>5, <3>1, <4>1
      <3>2. CASE t # s
        BY <2>3, <2>5, <3>2
      <3> QED
        BY <3>1, <3>2
    <2>6. CASE c \notin DOMAIN carrelli
      BY <2>4, <2>6
    <2> QED
      BY <2>5, <2>6
  <1> QED
    BY <1>1, <1>2, <1>3, <1>4

(* A checkout starts with an empty transaction that has read rows of       *)
(* existing carts with a line, and every exit empties it again.            *)
LEMMA TransactionEnds ==
  ASSUME TypeOK, NEW s \in Sessions, NEW t \in Sessions
  PROVE  /\ CheckoutSelect(s) =>
              /\ t # s => tx'[t] = tx[t]
              /\ \A r \in tx'[s].rows : r.cart \in Linked \cap DOMAIN carrelli
              /\ tx'[s].closed = {}
         /\ (\/ Commit(s) \/ RollbackOutOfStock(s) \/ CheckoutException(s)
             \/ RequestDies(s)) =>
              /\ t # s => tx'[t] = tx[t]
              /\ tx'[s].rows = {} /\ tx'[s].closed = {}
              /\ work' = [work EXCEPT ![s] = NoRow]
              /\ pc' = [pc EXCEPT ![s] = "idle"]
  <1> USE DEF TypeOK, Record
  <1>1. CheckoutSelect(s) =>
          /\ t # s => tx'[t] = tx[t]
          /\ \A r \in tx'[s].rows : r.cart \in Linked \cap DOMAIN carrelli
          /\ tx'[s].closed = {}
    BY DEF CheckoutSelect, NoTx, Linked
  <1>2. (\/ Commit(s) \/ RollbackOutOfStock(s) \/ CheckoutException(s)
         \/ RequestDies(s)) =>
          /\ t # s => tx'[t] = tx[t]
          /\ tx'[s].rows = {} /\ tx'[s].closed = {}
          /\ work' = [work EXCEPT ![s] = NoRow]
          /\ pc' = [pc EXCEPT ![s] = "idle"]
    BY DEF Commit, RollbackOutOfStock, CheckoutException, RequestDies,
           EndCheckout, Hold, Goto, NoTx
  <1> QED
    BY <1>1, <1>2

(* Cart identifiers come from rows that were inserted before.              *)
LEMMA KnownStep ==
  ASSUME TypeOK, LinesHaveCarts, KnownCarts, [Next]_vars
  PROVE  KnownCarts'
  <1> USE CartAssumption DEF TypeOK, KnownCarts, Goto, Hold, Record, Rows,
          Transactions, tables
  <1>1. ASSUME NEW s \in Sessions, NEW p \in PostedIds, NEW q \in Quantities,
               AddSelect(s, p, q) \/ UpdateSelect(s, p, q)
        PROVE  KnownCarts'
    BY <1>1 DEF AddSelect, UpdateSelect, CartsOf
  <1>2. ASSUME NEW s \in Sessions, NEW p \in PostedIds, RemoveSelect(s, p)
        PROVE  KnownCarts'
    BY <1>2 DEF RemoveSelect, LinesOf, LinesHaveCarts, Lines
  <1>3. ASSUME NEW s \in Sessions, AddCart(s)
        PROVE  KnownCarts'
    BY <1>3 DEF AddCart
  <1>4. ASSUME NEW s \in Sessions,
               \/ AddIncrease(s) \/ UpdateQuantity(s) \/ AddLine(s)
               \/ RemoveLine(s) \/ RemoveCart(s)
        PROVE  KnownCarts'
    BY <1>4 DEF AddIncrease, UpdateQuantity, WriteQuantity, AddLine,
                RemoveLine, RemoveCart, NoRow
  <1>5. ASSUME NEW s \in Sessions, CheckoutSelect(s)
        PROVE  KnownCarts'
    <2>1. nextCart' = nextCart /\ work' = work
      BY <1>5 DEF CheckoutSelect
    <2>2. \A r \in tx'[s].rows : r.cart < nextCart
      BY <1>5, TransactionEnds
    <2>3. tx'[s].closed = {} /\ \A t \in Sessions \ {s} : tx'[t] = tx[t]
      BY <1>5, TransactionEnds
    <2> QED
      BY <2>1, <2>2, <2>3
  <1>6. ASSUME NEW s \in Sessions, FetchRow(s)
        PROVE  KnownCarts'
    <2>1. \A t \in Sessions : work'[t].cart < nextCart
      BY <1>6 DEF FetchRow
    <2> QED
      BY <1>6, <2>1, CheckoutEffects, ZenonT(40) DEF FetchRow
  <1>7. ASSUME NEW s \in Sessions,
               TakeStock(s) \/ UnlinkLine(s) \/ CloseCart(s)
        PROVE  KnownCarts'
    <2>1. \A t \in Sessions : work'[t].cart < nextCart
      <3>1. CASE CloseCart(s)
        BY <3>1 DEF CloseCart, NoRow
      <3>2. CASE TakeStock(s) \/ UnlinkLine(s)
        BY <3>2 DEF TakeStock, UnlinkLine
      <3> QED
        BY <1>7, <3>1, <3>2
    <2>2. nextCart' = nextCart
      BY <1>7 DEF TakeStock, UnlinkLine, CloseCart
    <2> QED
      BY <1>7, <2>1, <2>2, CheckoutEffects, ZenonT(40)
  <1>8. ASSUME NEW s \in Sessions,
               \/ Commit(s) \/ RollbackOutOfStock(s) \/ CheckoutException(s)
               \/ RequestDies(s)
        PROVE  KnownCarts'
    <2>1. nextCart' = nextCart
      BY <1>8 DEF Commit, RollbackOutOfStock, CheckoutException, RequestDies
    <2>2. tx'[s].rows = {} /\ tx'[s].closed = {} /\ work'[s] = NoRow
      BY <1>8, TransactionEnds
    <2>3. \A t \in Sessions \ {s} : tx'[t] = tx[t] /\ work'[t] = work[t]
      BY <1>8, TransactionEnds
    <2> QED
      BY <2>1, <2>2, <2>3 DEF NoRow
  <1>9. ASSUME NEW s \in Sessions, ShowSuccess(s)
        PROVE  KnownCarts'
    BY <1>9 DEF ShowSuccess
  <1>10. CASE UNCHANGED vars
    BY <1>10 DEF vars
  <1> QED
    BY <1>1, <1>2, <1>3, <1>4, <1>5, <1>6, <1>7, <1>8, <1>9, <1>10
       DEF Next, Post, CartStep, CheckoutStep

(* No step leaves a line without its cart.                                 *)
LEMMA LinesStep ==
  ASSUME IInv, [Next]_vars
  PROVE  LinesHaveCarts'
  <1> USE DEF IInv, TypeOK, LinesHaveCarts, tables
  <1>1. ASSUME NEW s \in Sessions, AddIncrease(s) \/ UpdateQuantity(s)
        PROVE  LinesHaveCarts'
    BY <1>1 DEF AddIncrease, UpdateQuantity, WriteQuantity
  <1>2. ASSUME NEW s \in Sessions, AddCart(s)
        PROVE  LinesHaveCarts'
    BY <1>2 DEF AddCart
  <1>3. ASSUME NEW s \in Sessions, AddLine(s)
        PROVE  LinesHaveCarts'
    BY <1>3 DEF AddLine, NewCartIsPrivate
  <1>4. ASSUME NEW s \in Sessions, RemoveLine(s)
        PROVE  LinesHaveCarts'
    BY <1>4 DEF RemoveLine
  <1>5. ASSUME NEW s \in Sessions, RemoveCart(s)
        PROVE  LinesHaveCarts'
    BY <1>5 DEF RemoveCart, UnlinkedBeforeDeleted, Linked, Restrict
  <1>6. ASSUME NEW s \in Sessions, Commit(s)
        PROVE  LinesHaveCarts'
    BY <1>6 DEF Commit, UnlinkedBeforeDeleted, Linked, Restrict
  <1>7. CASE UNCHANGED <<carrelli, interazioni>>
    BY <1>7
  <1> QED
    BY <1>1, <1>2, <1>3, <1>4, <1>5, <1>6, <1>7, ZenonT(40)
       DEF Next, Post, CartStep, CheckoutStep, AddSelect, UpdateSelect,
           RemoveSelect, CheckoutSelect, FetchRow, TakeStock, UnlinkLine,
           CloseCart, RollbackOutOfStock, CheckoutException, RequestDies,
           ShowSuccess, vars

(* The line that 'add' inserts is the only one that AddLine links.         *)
LEMMA AddLineLinks ==
  ASSUME NEW s \in Sessions, AddLine(s)
  PROVE  Linked' = Linked \cup {work[s].cart}
  <1> DEFINE new == [user |-> UserOf[s], product |-> work[s].product,
                     cart |-> work[s].cart]
  <1>1. interazioni' = interazioni \cup {new} /\ new.cart = work[s].cart
    BY DEF AddLine
  <1> HIDE DEF new
  <1> QED
    BY <1>1 DEF Linked

(* The cart between the two INSERTs of 'add' stays unknown to every other  *)
(* request: they learn of carts from lines only.                           *)
LEMMA PrivateStep ==
  ASSUME IInv, [Next]_vars
  PROVE  NewCartIsPrivate'
  <1> USE CartAssumption DEF IInv, TypeOK, Goto, Hold, tables
  <1>1. ASSUME NEW s \in Sessions, NEW p \in PostedIds,
               \/ \E q \in Quantities : AddSelect(s, p, q) \/ UpdateSelect(s, p, q)
               \/ RemoveSelect(s, p)
        PROVE  NewCartIsPrivate'
    <2>1. /\ work'[s].cart \in Linked \cup {0}
          /\ pc'[s] # "add_line"
      BY <1>1 DEF AddSelect, UpdateSelect, RemoveSelect, CartsOf, LinesOf, Linked
    <2>2. \A t \in Sessions \ {s} : work'[t] = work[t] /\ pc'[t] = pc[t]
      BY <1>1 DEF AddSelect, UpdateSelect, RemoveSelect
    <2>3. UNCHANGED <<carrelli, interazioni, tx>>
      BY <1>1 DEF AddSelect, UpdateSelect, RemoveSelect
    <2> QED
      BY <2>1, <2>2, <2>3 DEF NewCartIsPrivate, Linked
  <1>2. ASSUME NEW s \in Sessions, AddIncrease(s) \/ UpdateQuantity(s)
        PROVE  NewCartIsPrivate'
    BY <1>2, SMTT(30) DEF AddIncrease, UpdateQuantity, WriteQuantity, NewCartIsPrivate,
                Linked, NoRow
  <1>3. ASSUME NEW s \in Sessions, AddCart(s)
        PROVE  NewCartIsPrivate'
    <2>1. nextCart \in DOMAIN carrelli' /\ DOMAIN carrelli \subseteq DOMAIN carrelli'
      BY <1>3 DEF AddCart
    <2>2. nextCart \notin Linked
      BY DEF LinesHaveCarts, Linked
    <2>3. /\ work'[s].cart = nextCart
          /\ \A t \in Sessions \ {s} : work'[t] = work[t] /\ pc'[t] = pc[t]
      BY <1>3 DEF AddCart, Rows
    <2>4. UNCHANGED <<interazioni, tx>>
      BY <1>3 DEF AddCart
    <2> QED
      BY <2>1, <2>2, <2>3, <2>4 DEF NewCartIsPrivate, KnownCarts, Linked
  <1>4. ASSUME NEW s \in Sessions, AddLine(s)
        PROVE  NewCartIsPrivate'
    <2>1. Linked' = Linked \cup {work[s].cart}
      BY <1>4, AddLineLinks
    <2> QED
      BY <1>4, <2>1 DEF AddLine, NewCartIsPrivate, NoRow
  <1>5. ASSUME NEW s \in Sessions, RemoveLine(s)
        PROVE  NewCartIsPrivate'
    <2>1. Linked' \subseteq Linked
      BY <1>5 DEF RemoveLine, Linked
    <2> QED
      BY <1>5, <2>1 DEF RemoveLine, NewCartIsPrivate
  <1>6. ASSUME NEW s \in Sessions, RemoveCart(s)
        PROVE  NewCartIsPrivate'
    BY <1>6 DEF RemoveCart, NewCartIsPrivate, Restrict, Linked, NoRow
  <1>7. ASSUME NEW s \in Sessions, CheckoutSelect(s)
        PROVE  NewCartIsPrivate'
    <2>1. /\ \A r \in tx'[s].rows : r.cart \in Linked
          /\ tx'[s].closed = {}
          /\ \A t \in Sessions \ {s} : tx'[t] = tx[t] /\ pc'[t] = pc[t]
      BY <1>7, TransactionEnds DEF CheckoutSelect
    <2>2. pc'[s] # "add_line" /\ UNCHANGED <<carrelli, interazioni, work>>
      BY <1>7 DEF CheckoutSelect
    <2> QED
      BY <2>1, <2>2, SMTT(30) DEF NewCartIsPrivate, Linked
  <1>8. ASSUME NEW s \in Sessions,
               \/ FetchRow(s) \/ TakeStock(s) \/ UnlinkLine(s) \/ CloseCart(s)
        PROVE  NewCartIsPrivate'
    <2>1. \A t \in Sessions : tx'[t].rows \subseteq tx[t].rows
      BY <1>8, CheckoutEffects
    <2>2. \A t \in Sessions : tx'[t].closed \subseteq tx[t].closed \cup
            (IF t = s THEN {work[s].cart} ELSE {})
      BY <1>8, CheckoutEffects, ZenonT(40)
    <2>3. UNCHANGED <<carrelli, interazioni>>
      BY <1>8 DEF FetchRow, TakeStock, UnlinkLine, CloseCart
    <2>4. /\ pc[s] # "add_line" /\ pc'[s] # "add_line"
          /\ \A t \in Sessions \ {s} : work'[t] = work[t] /\ pc'[t] = pc[t]
      BY <1>8 DEF FetchRow, TakeStock, UnlinkLine, CloseCart
    <2>5. \/ work'[s].cart = work[s].cart \/ work'[s].cart = 0
          \/ \E r \in tx[s].rows : work'[s].cart = r.cart
      <3>1. CASE FetchRow(s)
        BY <3>1 DEF FetchRow
      <3>2. CASE TakeStock(s) \/ UnlinkLine(s)
        BY <3>2 DEF TakeStock, UnlinkLine
      <3>3. CASE CloseCart(s)
        BY <3>3 DEF CloseCart, NoRow
      <3> QED
        BY <1>8, <3>1, <3>2, <3>3
    <2> QED
      BY <2>1, <2>2, <2>3, <2>4, <2>5 DEF NewCartIsPrivate, Linked
  <1>9. ASSUME NEW s \in Sessions,
               \/ Commit(s) \/ RollbackOutOfStock(s) \/ CheckoutException(s)
               \/ RequestDies(s)
        PROVE  NewCartIsPrivate'
    <2>1. /\ tx'[s].rows = {} /\ tx'[s].closed = {}
          /\ work'[s].cart = 0 /\ pc'[s] = "idle"
          /\ \A t \in Sessions \ {s} :
               tx'[t] = tx[t] /\ work'[t] = work[t] /\ pc'[t] = pc[t]
      BY <1>9, TransactionEnds DEF NoRow
    <2>2. Linked' \subseteq Linked /\ DOMAIN carrelli \ tx[s].closed \subseteq DOMAIN carrelli'
      BY <1>9 DEF Commit, RollbackOutOfStock, CheckoutException, RequestDies,
                  Linked, Restrict
    <2> QED
      BY <2>1, <2>2, SMTT(30) DEF NewCartIsPrivate
  <1>10. ASSUME NEW s \in Sessions, ShowSuccess(s)
         PROVE  NewCartIsPrivate'
    BY <1>10 DEF ShowSuccess, NewCartIsPrivate, Linked
  <1>11. CASE UNCHANGED vars
    BY <1>11 DEF vars, NewCartIsPrivate, Linked
  <1> QED
    BY <1>1, <1>2, <1>3, <1>4, <1>5, <1>6, <1>7, <1>8, <1>9, <1>10, <1>11
       DEF Next, Post, CartStep, CheckoutStep

(* A cart that is about to be deleted has lost its line, and no request    *)
(* gives it a new one.                                                     *)
LEMMA UnlinkedStep ==
  ASSUME IInv, [Next]_vars
  PROVE  UnlinkedBeforeDeleted'
  <1> USE CartAssumption DEF IInv, TypeOK, Goto, Hold, tables
  <1>1. ASSUME NEW s \in Sessions,
               \/ \E p \in PostedIds :
                    \/ \E q \in Quantities :
                         AddSelect(s, p, q) \/ UpdateSelect(s, p, q)
                    \/ RemoveSelect(s, p)
               \/ AddCart(s) \/ AddIncrease(s) \/ UpdateQuantity(s)
               \/ RemoveCart(s)
        PROVE  UnlinkedBeforeDeleted'
    <2>1. /\ pc'[s] \notin {"remove_cart", "close"}
          /\ \A t \in Sessions \ {s} : work'[t] = work[t] /\ pc'[t] = pc[t]
      BY <1>1 DEF AddSelect, UpdateSelect, RemoveSelect, AddCart, AddIncrease,
                  UpdateQuantity, WriteQuantity, RemoveCart
    <2>2. UNCHANGED <<interazioni, tx>>
      BY <1>1 DEF AddSelect, UpdateSelect, RemoveSelect, AddCart, AddIncrease,
                  UpdateQuantity, WriteQuantity, RemoveCart
    <2> QED
      BY <2>1, <2>2 DEF UnlinkedBeforeDeleted, Linked
  <1>2. ASSUME NEW s \in Sessions, AddLine(s)
        PROVE  UnlinkedBeforeDeleted'
    <2>1. Linked' = Linked \cup {work[s].cart} /\ tx' = tx
      BY <1>2, AddLineLinks DEF AddLine
    <2>2. /\ \A t \in Sessions \ {s} : work[t].cart # work[s].cart
          /\ \A t \in Sessions : work[s].cart \notin tx[t].closed
      BY <1>2 DEF AddLine, NewCartIsPrivate
    <2>3. /\ pc'[s] = "idle"
          /\ \A t \in Sessions \ {s} : work'[t] = work[t] /\ pc'[t] = pc[t]
      BY <1>2 DEF AddLine
    <2> QED
      BY <2>1, <2>2, <2>3 DEF UnlinkedBeforeDeleted
  <1>3. ASSUME NEW s \in Sessions, RemoveLine(s)
        PROVE  UnlinkedBeforeDeleted'
    <2>1. Linked' = Linked \ {work[s].cart}
      BY <1>3 DEF RemoveLine, Linked
    <2>2. /\ UNCHANGED <<work, tx>> /\ pc'[s] = "remove_cart"
          /\ \A t \in Sessions \ {s} : pc'[t] = pc[t]
      BY <1>3 DEF RemoveLine
    <2> QED
      BY <2>1, <2>2 DEF UnlinkedBeforeDeleted
  <1>4. ASSUME NEW s \in Sessions, CheckoutSelect(s)
        PROVE  UnlinkedBeforeDeleted'
    <2>1. /\ tx'[s].closed = {} /\ pc'[s] = "fetch"
          /\ \A t \in Sessions \ {s} : tx'[t] = tx[t] /\ pc'[t] = pc[t]
      BY <1>4, TransactionEnds DEF CheckoutSelect
    <2>2. UNCHANGED <<interazioni, work>>
      BY <1>4 DEF CheckoutSelect
    <2> QED
      BY <2>1, <2>2 DEF UnlinkedBeforeDeleted, Linked
  <1>5. ASSUME NEW s \in Sessions, FetchRow(s) \/ TakeStock(s)
        PROVE  UnlinkedBeforeDeleted'
    <2>1. \A t \in Sessions : /\ tx'[t].unlinked = tx[t].unlinked
                             /\ tx'[t].closed = tx[t].closed
      BY <1>5, CheckoutEffects
    <2>2. /\ interazioni' = interazioni
          /\ pc'[s] \notin {"remove_cart", "close"}
          /\ \A t \in Sessions \ {s} : work'[t] = work[t] /\ pc'[t] = pc[t]
      BY <1>5 DEF FetchRow, TakeStock
    <2> QED
      BY <2>1, <2>2 DEF UnlinkedBeforeDeleted, Linked
  <1>6. ASSUME NEW s \in Sessions, UnlinkLine(s)
        PROVE  UnlinkedBeforeDeleted'
    <2>1. \A t \in Sessions :
            /\ tx'[t].unlinked = IF t = s
                 THEN tx[s].unlinked \cup ({work[s].cart} \cap Linked)
                 ELSE tx[t].unlinked
            /\ tx'[t].closed = tx[t].closed
      BY <1>6, CheckoutEffects, ZenonT(40)
    <2>2. /\ interazioni' = interazioni /\ work' = work
          /\ pc'[s] = "close"
          /\ \A t \in Sessions \ {s} : pc'[t] = pc[t]
      BY <1>6 DEF UnlinkLine
    <2> QED
      BY <2>1, <2>2 DEF UnlinkedBeforeDeleted, Linked
  <1>7. ASSUME NEW s \in Sessions, CloseCart(s)
        PROVE  UnlinkedBeforeDeleted'
    <2>1. \A t \in Sessions :
            /\ tx'[t].unlinked = tx[t].unlinked
            /\ tx'[t].closed = IF t = s
                 THEN tx[s].closed \cup ({work[s].cart} \cap DOMAIN carrelli)
                 ELSE tx[t].closed
      BY <1>7, CheckoutEffects, ZenonT(40)
    <2>2. /\ interazioni' = interazioni
          /\ pc[s] = "close" /\ pc'[s] = "fetch"
          /\ \A t \in Sessions \ {s} : work'[t] = work[t] /\ pc'[t] = pc[t]
      BY <1>7 DEF CloseCart
    <2> QED
      BY <2>1, <2>2 DEF UnlinkedBeforeDeleted, Linked
  <1>8. ASSUME NEW s \in Sessions,
               \/ Commit(s) \/ RollbackOutOfStock(s) \/ CheckoutException(s)
               \/ RequestDies(s)
        PROVE  UnlinkedBeforeDeleted'
    <2>1. /\ tx'[s].closed = {} /\ pc'[s] = "idle"
          /\ \A t \in Sessions \ {s} :
               tx'[t] = tx[t] /\ work'[t] = work[t] /\ pc'[t] = pc[t]
      BY <1>8, TransactionEnds
    <2>2. Linked' \subseteq Linked
      BY <1>8 DEF Commit, RollbackOutOfStock, CheckoutException, RequestDies,
                  Linked
    <2> QED
      BY <2>1, <2>2 DEF UnlinkedBeforeDeleted
  <1>9. ASSUME NEW s \in Sessions, ShowSuccess(s)
        PROVE  UnlinkedBeforeDeleted'
    BY <1>9 DEF ShowSuccess, UnlinkedBeforeDeleted, Linked
  <1>10. CASE UNCHANGED vars
    BY <1>10 DEF vars, UnlinkedBeforeDeleted, Linked
  <1> QED
    BY <1>1, <1>2, <1>3, <1>4, <1>5, <1>6, <1>7, <1>8, <1>9, <1>10
       DEF Next, Post, CartStep, CheckoutStep

-----------------------------------------------------------------------------
(* IInv holds in every reachable state.                                    *)
THEOREM Invariance == Spec => []IInv
  <1>1. IInv /\ [Next]_vars => IInv'
    BY TypeStep, HeldStep, KnownStep, LinesStep, PrivateStep, UnlinkedStep
       DEF IInv
  <1> QED
    BY InitIInv, <1>1, PTL DEF Spec

(* Every variable keeps its type; no cart ever stores a quantity below 1.  *)
THEOREM TypeCorrect == Spec => []TypeOK
  <1>1. IInv => TypeOK
    BY DEF IInv
  <1> QED
    BY Invariance, <1>1, PTL

(* Cart lines always refer to carts that exist, for any number of sessions *)
(* per user, any interleaving and any failure.                             *)
THEOREM NoDanglingLine == Spec => []LinesHaveCarts
  <1>1. IInv => LinesHaveCarts
    BY DEF IInv
  <1> QED
    BY Invariance, <1>1, PTL

(* A checkout that fails, for whatever reason and however much of the cart *)
(* it had processed, leaves all tables as they were.                       *)
THEOREM FailedCheckoutIsVoid == Spec => FailedCheckoutSellsNothing
  <1> DEFINE Fails(s) ==
        /\ pc[s] \in CheckoutPcs /\ pc'[s] = "idle"
        /\ tx[s].short \/ tx[s].rows # {} \/ pc[s] # "fetch"
  <1>1. ASSUME TypeOK, [Next]_vars, NEW s \in Sessions, Fails(s)
        PROVE  UNCHANGED tables
    <2> USE <1>1 DEF TypeOK, CheckoutPcs, Goto, EndCheckout
    <2>1. ASSUME NEW t \in Sessions, Post(t)
          PROVE  FALSE
      BY <2>1 DEF Post, AddSelect, UpdateSelect, RemoveSelect, CheckoutSelect
    <2>2. ASSUME NEW t \in Sessions, CartStep(t)
          PROVE  FALSE
      BY <2>2 DEF CartStep, AddIncrease, UpdateQuantity, WriteQuantity,
                  AddCart, AddLine, RemoveLine, RemoveCart
    <2>3. ASSUME NEW t \in Sessions,
                 FetchRow(t) \/ TakeStock(t) \/ UnlinkLine(t) \/ CloseCart(t)
          PROVE  FALSE
      BY <2>3 DEF FetchRow, TakeStock, UnlinkLine, CloseCart
    <2>4. ASSUME NEW t \in Sessions, Commit(t)
          PROVE  FALSE
      BY <2>4 DEF Commit
    <2>5. ASSUME NEW t \in Sessions,
                 \/ RollbackOutOfStock(t) \/ CheckoutException(t)
                 \/ RequestDies(t) \/ ShowSuccess(t)
          PROVE  UNCHANGED tables
      BY <2>5 DEF RollbackOutOfStock, CheckoutException, RequestDies, ShowSuccess
    <2>6. CASE UNCHANGED vars
      BY <2>6 DEF vars, tables
    <2> QED
      BY <2>1, <2>2, <2>3, <2>4, <2>5, <2>6 DEF Next, CheckoutStep
  <1>2. TypeOK /\ [Next]_vars =>
          [(\E s \in Sessions : Fails(s)) => UNCHANGED tables]_vars
    BY <1>1
  <1> QED
    BY TypeCorrect, <1>2, PTL DEF Spec, FailedCheckoutSellsNothing

-----------------------------------------------------------------------------
(* A checkout deletes the cart of every line that it deletes, unless the   *)
(* cart is gone already; its last one may still be at hand.                *)
UnlinkedAreClosed ==
  \A s \in Sessions : \A c \in tx[s].unlinked :
    /\ c < nextCart
    /\ \/ c \in tx[s].closed
       \/ c \notin DOMAIN carrelli
       \/ pc[s] = "close" /\ work[s].cart = c

(* What the transaction has deleted is forgotten when it begins or ends.   *)
LEMMA NothingUnlinked ==
  ASSUME TypeOK, NEW s \in Sessions,
         \/ CheckoutSelect(s) \/ Commit(s) \/ RollbackOutOfStock(s)
         \/ CheckoutException(s) \/ RequestDies(s)
  PROVE  tx'[s].unlinked = {}
  <1>1. tx \in [Sessions -> Transactions]
    BY DEF TypeOK
  <1>2. CASE CheckoutSelect(s)
    <2> DEFINE rows == {[product |-> i.product, cart |-> i.cart,
                         quantity |-> carrelli[i.cart]] :
                          i \in {l \in interazioni :
                                   /\ l.user = UserOf[s]
                                   /\ l.product \in Products
                                   /\ l.cart \in DOMAIN carrelli}}
    <2>1. tx'[s] = [NoTx EXCEPT !.seen = stock, !.rows = rows]
      BY <1>1, <1>2 DEF CheckoutSelect, Record
    <2> HIDE DEF rows
    <2> QED
      BY <2>1 DEF NoTx
  <1>3. CASE ~CheckoutSelect(s)
    BY <1>1, <1>3 DEF Commit, RollbackOutOfStock, CheckoutException,
                      EndCheckout, RequestDies, Record, NoTx
  <1> QED
    BY <1>2, <1>3

(* No step lets a checkout delete a line and keep its cart.                *)
LEMMA ClosedStep ==
  ASSUME IInv, UnlinkedAreClosed, [Next]_vars
  PROVE  UnlinkedAreClosed'
  <1> USE DEF IInv, TypeOK, Goto, Hold, tables
  <1>1. ASSUME NEW s \in Sessions,
               \/ \E p \in PostedIds, q \in Quantities :
                    AddSelect(s, p, q) \/ UpdateSelect(s, p, q)
               \/ \E p \in PostedIds : RemoveSelect(s, p)
               \/ CartStep(s)
        PROVE  UnlinkedAreClosed'
    <2>1. /\ tx' = tx /\ pc[s] # "close"
          /\ \A t \in Sessions \ {s} : pc'[t] = pc[t] /\ work'[t] = work[t]
      BY <1>1 DEF AddSelect, UpdateSelect, RemoveSelect, CartStep, AddIncrease,
                  UpdateQuantity, WriteQuantity, AddCart, AddLine, RemoveLine,
                  RemoveCart
    <2>2. /\ nextCart <= nextCart' /\ nextCart' \in Nat
          /\ \A c : c < nextCart /\ c \notin DOMAIN carrelli =>
                      c \notin DOMAIN carrelli'
      BY <1>1 DEF AddSelect, UpdateSelect, RemoveSelect, CartStep, AddIncrease,
                  UpdateQuantity, WriteQuantity, AddCart, AddLine, RemoveLine,
                  RemoveCart, Restrict
    <2>3. \A t \in Sessions : \A c \in tx[t].unlinked : c \in Nat
      BY DEF Transactions
    <2> QED
      BY <2>1, <2>2, <2>3 DEF UnlinkedAreClosed
  <1>2. ASSUME NEW s \in Sessions,
               \/ CheckoutSelect(s) \/ Commit(s) \/ RollbackOutOfStock(s)
               \/ CheckoutException(s) \/ RequestDies(s)
        PROVE  UnlinkedAreClosed'
    <2>1. /\ tx'[s].unlinked = {} /\ nextCart' = nextCart
          /\ \A t \in Sessions \ {s} :
               tx'[t] = tx[t] /\ pc'[t] = pc[t] /\ work'[t] = work[t]
      BY <1>2, NothingUnlinked
         DEF CheckoutSelect, Commit, RollbackOutOfStock, CheckoutException,
             EndCheckout, RequestDies, Record, history
    <2>2. DOMAIN carrelli' \subseteq DOMAIN carrelli
      BY <1>2 DEF CheckoutSelect, Commit, RollbackOutOfStock, CheckoutException,
                  RequestDies, Restrict
    <2> QED
      BY <2>1, <2>2 DEF UnlinkedAreClosed
  <1>3. ASSUME NEW s \in Sessions,
               FetchRow(s) \/ TakeStock(s) \/ UnlinkLine(s) \/ CloseCart(s)
        PROVE  UnlinkedAreClosed'
    <2>1. /\ UNCHANGED <<nextCart, carrelli>>
          /\ \A t \in Sessions \ {s} : pc'[t] = pc[t] /\ work'[t] = work[t]
      BY <1>3 DEF FetchRow, TakeStock, UnlinkLine, CloseCart
    <2>2. \A t \in Sessions \ {s} : /\ tx'[t].unlinked = tx[t].unlinked
                                   /\ tx'[t].closed = tx[t].closed
      BY <1>3, CheckoutEffects, ZenonT(40)
    <2>3. CASE FetchRow(s) \/ TakeStock(s)
      <3>1. /\ tx'[s].unlinked = tx[s].unlinked /\ tx'[s].closed = tx[s].closed
            /\ pc[s] # "close"
        BY <2>3, CheckoutEffects DEF FetchRow, TakeStock
      <3> QED
        BY <2>1, <2>2, <3>1 DEF UnlinkedAreClosed
    <2>4. CASE UnlinkLine(s)
      <3>1. /\ tx'[s].unlinked = tx[s].unlinked \cup ({work[s].cart} \cap Linked)
            /\ tx'[s].closed = tx[s].closed
            /\ pc[s] # "close" /\ pc'[s] = "close" /\ work' = work
        BY <2>4, CheckoutEffects DEF UnlinkLine
      <3>2. \A c \in Linked : c < nextCart
        BY DEF Linked, LinesHaveCarts
      <3> QED
        BY <2>1, <2>2, <3>1, <3>2 DEF UnlinkedAreClosed
    <2>5. CASE CloseCart(s)
      <3>1. /\ tx'[s].unlinked = tx[s].unlinked
            /\ tx'[s].closed =
                 tx[s].closed \cup ({work[s].cart} \cap DOMAIN carrelli)
        BY <2>5, CheckoutEffects
      <3> QED
        BY <2>1, <2>2, <3>1 DEF UnlinkedAreClosed
    <2> QED
      BY <1>3, <2>3, <2>4, <2>5
  <1>4. ASSUME NEW s \in Sessions, ShowSuccess(s)
        PROVE  UnlinkedAreClosed'
    BY <1>4 DEF ShowSuccess, UnlinkedAreClosed
  <1>5. CASE UNCHANGED vars
    BY <1>5 DEF vars, UnlinkedAreClosed
  <1> QED
    BY <1>1, <1>2, <1>3, <1>4, <1>5 DEF Next, Post, CheckoutStep

(* A cart loses its line only to a request that deletes the cart next, or  *)
(* to a COMMIT that deletes both.                                          *)
LEMMA OrphansStep ==
  ASSUME IInv, UnlinkedAreClosed, OrphansAreAbandoned, [Next]_vars
  PROVE  OrphansAreAbandoned'
  <1> USE DEF IInv, TypeOK, Goto, Hold, tables, history
  <1>1. ASSUME NEW s \in Sessions,
               \/ \E p \in PostedIds, q \in Quantities :
                    AddSelect(s, p, q) \/ UpdateSelect(s, p, q)
               \/ \E p \in PostedIds : RemoveSelect(s, p)
               \/ AddIncrease(s) \/ UpdateQuantity(s)
               \/ CheckoutSelect(s) \/ FetchRow(s) \/ TakeStock(s)
               \/ UnlinkLine(s) \/ CloseCart(s) \/ RollbackOutOfStock(s)
               \/ CheckoutException(s) \/ ShowSuccess(s)
        PROVE  OrphansAreAbandoned'
    <2>1. /\ interazioni' = interazioni /\ abandoned' = abandoned
          /\ DOMAIN carrelli' = DOMAIN carrelli
      BY <1>1 DEF AddSelect, UpdateSelect, RemoveSelect, AddIncrease,
                  UpdateQuantity, WriteQuantity, CheckoutSelect, FetchRow,
                  TakeStock, UnlinkLine, CloseCart, RollbackOutOfStock,
                  CheckoutException, ShowSuccess
    <2>2. /\ pc[s] \in {"add_line", "remove_cart"} => FALSE
          /\ \A t \in Sessions \ {s} : pc'[t] = pc[t] /\ work'[t] = work[t]
      BY <1>1 DEF AddSelect, UpdateSelect, RemoveSelect, AddIncrease,
                  UpdateQuantity, WriteQuantity, CheckoutSelect, FetchRow,
                  TakeStock, UnlinkLine, CloseCart, RollbackOutOfStock,
                  CheckoutException, EndCheckout, ShowSuccess, CheckoutPcs
    <2> QED
      BY <2>1, <2>2 DEF OrphansAreAbandoned, Linked
  <1>2. ASSUME NEW s \in Sessions, AddCart(s)
        PROVE  OrphansAreAbandoned'
    <2>1. /\ interazioni' = interazioni /\ abandoned' = abandoned
          /\ DOMAIN carrelli' = DOMAIN carrelli \cup {nextCart}
          /\ pc[s] = "add_cart" /\ pc'[s] = "add_line"
          /\ work'[s].cart = nextCart
          /\ \A t \in Sessions \ {s} : pc'[t] = pc[t] /\ work'[t] = work[t]
      BY <1>2 DEF AddCart, Rows
    <2> QED
      BY <2>1 DEF OrphansAreAbandoned, Linked
  <1>3. ASSUME NEW s \in Sessions, AddLine(s)
        PROVE  OrphansAreAbandoned'
    <2>1. Linked' = Linked \cup {work[s].cart}
      BY <1>3, AddLineLinks
    <2>2. /\ carrelli' = carrelli /\ abandoned' = abandoned
          /\ \A t \in Sessions \ {s} : pc'[t] = pc[t] /\ work'[t] = work[t]
      BY <1>3 DEF AddLine
    <2> QED
      BY <2>1, <2>2 DEF OrphansAreAbandoned
  <1>4. ASSUME NEW s \in Sessions, RemoveLine(s)
        PROVE  OrphansAreAbandoned'
    <2>1. /\ Linked' = Linked \ {work[s].cart}
          /\ carrelli' = carrelli /\ abandoned' = abandoned /\ work' = work
          /\ pc[s] = "remove_line" /\ pc'[s] = "remove_cart"
          /\ \A t \in Sessions \ {s} : pc'[t] = pc[t]
      BY <1>4 DEF RemoveLine, Linked
    <2> QED
      BY <2>1 DEF OrphansAreAbandoned
  <1>5. ASSUME NEW s \in Sessions, RemoveCart(s)
        PROVE  OrphansAreAbandoned'
    <2>1. /\ interazioni' = interazioni /\ abandoned' = abandoned
          /\ DOMAIN carrelli' = DOMAIN carrelli \ {work[s].cart}
          /\ \A t \in Sessions \ {s} : pc'[t] = pc[t] /\ work'[t] = work[t]
      BY <1>5 DEF RemoveCart, Restrict
    <2> QED
      BY <2>1 DEF OrphansAreAbandoned, Linked
  <1>6. ASSUME NEW s \in Sessions, Commit(s)
        PROVE  OrphansAreAbandoned'
    <2>1. /\ pc[s] = "fetch" /\ abandoned' = abandoned
          /\ DOMAIN carrelli' = DOMAIN carrelli \ tx[s].closed
          /\ \A t \in Sessions \ {s} : pc'[t] = pc[t] /\ work'[t] = work[t]
      BY <1>6 DEF Commit, EndCheckout, Restrict
    <2>2. Linked' = Linked \ tx[s].unlinked
      BY <1>6 DEF Commit, Linked
    <2>3. \A c \in DOMAIN carrelli' : c \notin tx[s].unlinked
      BY <2>1 DEF UnlinkedAreClosed
    <2> QED
      BY <2>1, <2>2, <2>3 DEF OrphansAreAbandoned
  <1>7. ASSUME NEW s \in Sessions, RequestDies(s)
        PROVE  OrphansAreAbandoned'
    BY <1>7 DEF RequestDies, OrphansAreAbandoned, Linked
  <1>8. CASE UNCHANGED vars
    BY <1>8 DEF vars, OrphansAreAbandoned, Linked
  <1> QED
    BY <1>1, <1>2, <1>3, <1>4, <1>5, <1>6, <1>7, <1>8
       DEF Next, Post, CartStep, CheckoutStep

(* A cart without a line is between two writes of a running request, or    *)
(* its request died there: for any sessions, interleavings and failures.   *)
THEOREM OrphansAreExplained == Spec => []OrphansAreAbandoned
  <1>1. Init => UnlinkedAreClosed /\ OrphansAreAbandoned
    BY DEF Init, UnlinkedAreClosed, OrphansAreAbandoned, NoTx
  <1>2. IInv /\ UnlinkedAreClosed /\ OrphansAreAbandoned /\ [Next]_vars =>
          UnlinkedAreClosed' /\ OrphansAreAbandoned'
    BY ClosedStep, OrphansStep
  <1> QED
    BY Invariance, <1>1, <1>2, PTL DEF Spec
=============================================================================
