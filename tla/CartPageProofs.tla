--------------------------- MODULE CartPageProofs ---------------------------
(***************************************************************************)
(* Proofs about CartPage for any number of tabs, sessions, users, products *)
(* and clicks, in this order:                                              *)
(*   - with browsers in front of it the handler still behaves as module    *)
(*     Cart says, and a confirmation is not lost on the way;               *)
(*   - tabs, forms and requests are well typed;                            *)
(*   - no cart line holds more units than its user has asked for;          *)
(*   - while nothing has overtaken a page, its forms and the request that  *)
(*     they start agree with the tables: a click counts once, a checkout   *)
(*     that succeeds sells something, and the total is what it charges.    *)
(***************************************************************************)
EXTENDS CartPage, CartProofs, SequenceTheorems, SumTheorems

(* Pages, navigations and forms keep their shape.  A tab waits for the     *)
(* answer of a form only on a page that has forms, and the request that    *)
(* runs in a session comes from a tab of that session.                     *)
PageShape ==
  /\ sessionOf \in [Tabs -> Sessions]
  /\ page \in [Tabs -> Pages]
  /\ going \in [Tabs -> Places]
  /\ sent \in [Tabs -> Seq(Forms)]
  /\ turn \in [Sessions -> [tab : Tabs \cup {NoTab}, by : {-1, 0, 1}]]
  /\ \A t \in Tabs :
       /\ page[t].kind = "product" => page[t].product \in Products
       /\ going[t].kind = "product" => going[t].product \in Products
       /\ going[t].kind = "answer" => page[t].kind \in {"cart", "product"}
  /\ \A s \in Sessions :
       turn[s].tab # NoTab => sessionOf[turn[s].tab] = s

-----------------------------------------------------------------------------
(* The request for a form runs statements of the handler, or none.         *)
LEMMA ReceiveIsPost ==
  ASSUME PageShape, NEW t \in Tabs, Receive(t)
  PROVE  [Next]_vars
  <1> DEFINE s == sessionOf[t]
             f == Head(sent[t])
  <1>1. s \in Sessions /\ f \in Forms
    BY DEF PageShape, Receive
  <1>2. f.product \in PostedIds
    BY <1>1 DEF Forms
  <1>3. f.quantity \in Quantities
    BY DEF Receive
  <1>4. CASE Handle(s, f)
    BY <1>1, <1>2, <1>3, <1>4 DEF Handle, Next, Post
  <1>5. CASE UNCHANGED vars
    BY <1>5
  <1> QED
    BY <1>4, <1>5 DEF Receive

(* So do the statements that follow.                                       *)
LEMMA RunIsStep ==
  ASSUME NEW s \in Sessions, Run(s)
  PROVE  Next
  BY DEF Run, Continue, Finish, Next, CheckoutStep

(* A tab by itself changes nothing on the server but the flag that         *)
(* checkout_succes.php takes.                                              *)
LEMMA BrowseIsStep ==
  ASSUME PageShape, NEW t \in Tabs, Browse(t)
  PROVE  [Next]_vars
  <1>1. sessionOf[t] \in Sessions
    BY DEF PageShape
  <1>2. CASE LoadSuccess(t)
    BY <1>1, <1>2 DEF LoadSuccess, Next
  <1>3. CASE Open(t) \/ LoadCart(t) \/ LoadProduct(t) \/ LoadError(t)
    BY <1>3 DEF Open, LoadCart, LoadProduct, LoadError
  <1>4. ASSUME NEW forms, Submit(t, forms) PROVE UNCHANGED vars
    BY <1>4 DEF Submit
  <1>5. CASE CartButtons(t)
    BY <1>4, <1>5 DEF CartButtons
  <1>6. CASE CheckoutButton(t)
    BY <1>4, <1>6 DEF CheckoutButton
  <1>7. CASE QuantityButtons(t)
    BY <1>4, <1>7 DEF QuantityButtons
  <1>8. CASE AddButton(t)
    BY <1>4, <1>8 DEF AddButton
  <1> QED
    BY <1>2, <1>3, <1>5, <1>6, <1>7, <1>8 DEF Browse

(* Every step of the composition is a step of Cart or leaves it alone.     *)
LEMMA PageStepIsCartStep == PageShape /\ [PageNext]_allVars => [Next]_vars
  <1> SUFFICES ASSUME PageShape, [PageNext]_allVars PROVE [Next]_vars
    OBVIOUS
  <1>1. CASE UNCHANGED allVars
    BY <1>1 DEF allVars
  <1> QED
    BY <1>1, ReceiveIsPost, RunIsStep, BrowseIsStep DEF PageNext

-----------------------------------------------------------------------------
(* The tables are well formed before and after each statement.             *)
LEMMA CartNextIInv == IInv /\ [Next]_vars => IInv'
  BY TypeStep, HeldStep, KnownStep, LinesStep, PrivateStep, UnlinkedStep
     DEF IInv

(* The quantity that the scripts of the page compute is positive.          *)
LEMMA ShownQuantityPositive ==
  ASSUME NEW q \in Int
  PROVE  EffectiveQuantity(q) \in Nat \ {0}
  BY SMT DEF EffectiveQuantity

(* Pages show quantities of the table.                                     *)
LEMMA RenderedQuantities ==
  ASSUME TypeOK, NEW s, NEW q \in Rendered(s)
  PROVE  q \in [Products -> Nat]
  <1>1. carrelli \in [DOMAIN carrelli -> Nat \ {0}]
    BY DEF TypeOK
  <1>2. PICK k \in [InCart(s) -> DOMAIN carrelli] :
          q = [p \in Products |->
                 IF p \in InCart(s) THEN carrelli[k[p]] ELSE 0]
    BY DEF Rendered
  <1>3. ASSUME NEW p \in InCart(s) PROVE carrelli[k[p]] \in Nat
    BY <1>1, <1>2, <1>3
  <1> QED
    BY <1>2, <1>3

(* Showing a page of the right shape keeps the shape.                      *)
LEMMA ShowKeepsShape ==
  ASSUME PageShape, NEW t \in Tabs, NEW pg \in Pages,
         pg.kind = "product" => pg.product \in Products,
         Show(t, pg)
  PROVE  PageShape'
  <1>1. /\ page' = [page EXCEPT ![t] = pg]
        /\ going' = [going EXCEPT ![t] = Nowhere]
        /\ UNCHANGED <<sessionOf, sent, turn>>
    BY DEF Show
  <1>2. Nowhere \in Places /\ Nowhere.kind = "none"
    BY DEF Nowhere, Place, Places
  <1> QED
    BY <1>1, <1>2 DEF PageShape

(* So does submitting forms of the right shape, on a page that has forms.  *)
LEMMA SubmitKeepsShape ==
  ASSUME PageShape, NEW t \in Tabs, NEW forms \in Seq(Forms),
         Submit(t, forms),
         page' \in [Tabs -> Pages],
         \A u \in Tabs : /\ page'[u].kind = page[u].kind
                         /\ page'[u].product = page[u].product,
         page[t].kind \in {"cart", "product"}
  PROVE  PageShape'
  <1>1. PICK keep \in {sent[t], <<>>}, skip \in 0 .. Len(forms) - 1 :
          sent' = [sent EXCEPT ![t] =
                     keep \o SubSeq(forms, skip + 1, Len(forms))]
    BY DEF Submit
  <1>2. keep \in Seq(Forms)
    <2>1. sent[t] \in Seq(Forms)
      BY DEF PageShape
    <2>2. <<>> \in Seq(Forms)
      OBVIOUS
    <2> QED
      BY <1>1, <2>1, <2>2, Zenon
  <1>3. SubSeq(forms, skip + 1, Len(forms)) \in Seq(Forms)
    <2>1. \A i \in 1 .. Len(forms) : forms[i] \in Forms
      OBVIOUS
    <2>2. skip + 1 \in Nat \ {0} /\ Len(forms) \in Nat
      BY <1>1
    <2>3. \A i \in skip + 1 .. Len(forms) : forms[i] \in Forms
      BY <2>1, <2>2
    <2> QED
      BY <2>2, <2>3, SubSeqProperties
  <1>4. keep \o SubSeq(forms, skip + 1, Len(forms)) \in Seq(Forms)
    BY <1>2, <1>3, ConcatProperties
  <1>5. sent' \in [Tabs -> Seq(Forms)]
    BY <1>1, <1>4 DEF PageShape
  <1>6. going' = [going EXCEPT ![t] = Place("answer")]
    BY DEF Submit
  <1>7. Place("answer") \in Places /\ Place("answer").kind = "answer"
    BY DEF Place, Places
  <1>8. going' \in [Tabs -> Places]
    BY <1>6, <1>7 DEF PageShape
  <1>9. UNCHANGED <<sessionOf, turn>>
    BY DEF Submit
  <1>10. \A u \in Tabs :
          /\ page'[u].kind = "product" => page'[u].product \in Products
          /\ going'[u].kind = "product" => going'[u].product \in Products
          /\ going'[u].kind = "answer" => page'[u].kind \in {"cart", "product"}
    BY <1>6, <1>7 DEF PageShape
  <1> QED
    BY <1>5, <1>8, <1>9, <1>10 DEF PageShape

(* The answer of a request leads to a page of the right shape.            *)
LEMMA AnswerKeepsShape ==
  ASSUME PageShape, NEW t \in Tabs, NEW waiting, NEW to, Answer(t, waiting, to),
         going[t].kind = "answer" =>
           /\ to \in Places
           /\ to.kind # "answer"
           /\ to.kind = "product" => to.product \in Products,
         UNCHANGED page
  PROVE  /\ going' \in [Tabs -> Places]
         /\ \A u \in Tabs :
              /\ going'[u].kind = "product" => going'[u].product \in Products
              /\ going'[u].kind = "answer" => page'[u].kind \in {"cart", "product"}
  <1>1. CASE going' = going
    BY <1>1 DEF PageShape
  <1>2. CASE going[t].kind = "answer" /\ going' = [going EXCEPT ![t] = to]
    BY <1>2 DEF PageShape
  <1> QED
    BY <1>1, <1>2 DEF Answer

(* A form that is answered with its own page is answered with a place.     *)
LEMMA BackIsAPlace ==
  ASSUME PageShape, NEW t \in Tabs, going[t].kind = "answer"
  PROVE  /\ Back(t) \in Places
         /\ Back(t).kind \in {"cart", "product"}
         /\ Back(t).kind = "product" => Back(t).product \in Products
  <1>1. page[t] \in Pages /\ page[t].kind \in {"cart", "product"}
    BY DEF PageShape
  <1>2. page[t].product \in Products \cup {NoProduct}
    BY <1>1 DEF Pages
  <1> QED
    BY <1>1, <1>2 DEF PageShape, Back, Places

(* The server takes a form that a page has sent.                           *)
LEMMA ReceiveKeepsShape ==
  ASSUME PageShape, NEW t \in Tabs, Receive(t)
  PROVE  PageShape'
  <1> DEFINE s == sessionOf[t]
             f == Head(sent[t])
  <1>1. /\ sent[t] \in Seq(Forms) /\ sent[t] # <<>> /\ s \in Sessions
        /\ sent' = [sent EXCEPT ![t] = Tail(@)]
        /\ UNCHANGED <<sessionOf, page>>
    BY DEF PageShape, Receive
  <1>2. f \in Forms /\ Tail(sent[t]) \in Seq(Forms)
    BY <1>1, HeadTailProperties
  <1>3. sent' \in [Tabs -> Seq(Forms)]
    BY <1>1, <1>2 DEF PageShape
  <1>4. CASE /\ turn' = [turn EXCEPT ![s] = [tab |-> t, by |-> f.by]]
             /\ UNCHANGED going
    <2>1. [tab |-> t, by |-> f.by] \in [tab : Tabs \cup {NoTab}, by : {-1, 0, 1}]
      BY <1>2 DEF Forms
    <2>2. turn' \in [Sessions -> [tab : Tabs \cup {NoTab}, by : {-1, 0, 1}]]
      BY <1>1, <1>4, <2>1 DEF PageShape
    <2>3. \A z \in Sessions :
            turn'[z].tab # NoTab => sessionOf'[turn'[z].tab] = z
      BY <1>1, <1>4 DEF PageShape
    <2> QED
      BY <1>1, <1>3, <1>4, <2>2, <2>3 DEF PageShape
  <1>5. CASE Answer(t, Tail(sent[t]), Back(t)) /\ UNCHANGED turn
    <2>1. /\ going' \in [Tabs -> Places]
          /\ \A u \in Tabs :
               /\ going'[u].kind = "product" => going'[u].product \in Products
               /\ going'[u].kind = "answer" => page'[u].kind \in {"cart", "product"}
      BY <1>1, <1>5, BackIsAPlace, AnswerKeepsShape
    <2> QED
      BY <1>1, <1>3, <1>5, <2>1 DEF PageShape
  <1> QED
    BY <1>4, <1>5 DEF Receive

(* A request has ended: its tab, if it still waits, goes to a place.       *)
LEMMA FinishKeepsShape ==
  ASSUME PageShape, PageAssumption, NEW s \in Sessions, turn[s].tab # NoTab,
         NEW to, Answer(turn[s].tab, sent[turn[s].tab], to),
         going[turn[s].tab].kind = "answer" =>
           /\ to \in Places
           /\ to.kind # "answer"
           /\ to.kind = "product" => to.product \in Products,
         turn' = [turn EXCEPT ![s] = NoTurn],
         UNCHANGED <<sessionOf, page, sent>>
  PROVE  PageShape'
  <1>1. turn[s].tab \in Tabs
    BY DEF PageShape
  <1>2. /\ going' \in [Tabs -> Places]
        /\ \A u \in Tabs :
             /\ going'[u].kind = "product" => going'[u].product \in Products
             /\ going'[u].kind = "answer" => page'[u].kind \in {"cart", "product"}
    BY <1>1, AnswerKeepsShape
  <1>3. NoTurn \in [tab : Tabs \cup {NoTab}, by : {-1, 0, 1}] /\ NoTurn.tab = NoTab
    BY DEF NoTurn
  <1>4. turn' \in [Sessions -> [tab : Tabs \cup {NoTab}, by : {-1, 0, 1}]]
    BY <1>3 DEF PageShape
  <1>5. \A z \in Sessions :
          turn'[z].tab # NoTab => sessionOf'[turn'[z].tab] = z
    BY <1>3 DEF PageShape
  <1> QED
    BY <1>2, <1>4, <1>5 DEF PageShape

(* The statements of the handler leave pages and forms alone.              *)
LEMMA RunKeepsShape ==
  ASSUME PageShape, NEW s \in Sessions, Run(s)
  PROVE  PageShape'
  <1> DEFINE t == turn[s].tab
  <1>1. t # NoTab /\ t \in Tabs
    BY DEF Run, PageShape
  <1>2. ASSUME NEW ACTION A, Continue(s, A) PROVE PageShape'
    BY <1>2 DEF Continue, PageShape
  <1>3. ASSUME NEW ACTION A, Finish(s, A, Back(t)) PROVE PageShape'
    BY <1>1, <1>3, BackIsAPlace, FinishKeepsShape, PageAssumption DEF Finish
  <1>4. ASSUME NEW ACTION A, NEW k \in {"cart", "success", "error"},
               Finish(s, A, Place(k))
        PROVE  PageShape'
    <2>1. Place(k) \in Places /\ Place(k).kind = k
      BY DEF Place, Places
    <2> QED
      BY <1>1, <1>4, <2>1, FinishKeepsShape, PageAssumption DEF Finish
  <1>5. CASE Continue(s, CartStep(s) \/ CheckoutStep(s))
    BY <1>2, <1>5
  <1>6. CASE Finish(s, CartStep(s), Back(t))
    BY <1>3, <1>6
  <1>7. CASE Finish(s, RollbackOutOfStock(s) \/ CheckoutException(s), AfterRollback(s))
    BY <1>4, <1>7 DEF AfterRollback
  <1>8. CASE Finish(s, Commit(s) /\ confirm'[s], Place("success"))
    BY <1>4, <1>8
  <1>9. CASE Finish(s, Failures /\ Commit(s) /\ UNCHANGED confirm, Place("error"))
    BY <1>4, <1>9
  <1>10. CASE Finish(s, RequestDies(s), Place("error"))
    BY <1>4, <1>10
  <1> QED
    BY <1>5, <1>6, <1>7, <1>8, <1>9, <1>10 DEF Run

(* The shape of a form that a page with products may submit.               *)
LEMMA FormsAreForms ==
  ASSUME PageAssumption, CartAssumption,
         NEW a \in {"add", "update", "remove", "checkout"},
         NEW p \in Products \cup {Undefined}, NEW q \in Int, NEW d \in {-1, 0, 1}
  PROVE  /\ Form(a, p, q, d) \in Forms
         /\ <<Form(a, p, q, d)>> \in Seq(Forms)
  <1>1. p \in PostedIds
    BY DEF PageAssumption, CartAssumption
  <1>2. Form(a, p, q, d) \in Forms
    BY <1>1 DEF Form, Forms
  <1> QED
    BY <1>2

(* A click changes the number on the page and nothing else of its shape.   *)
LEMMA WithQuantityIsPage ==
  ASSUME NEW pg \in Pages, NEW p \in Products, NEW q \in Nat
  PROVE  /\ WithQuantity(pg, p, q) \in Pages
         /\ WithQuantity(pg, p, q).kind = pg.kind
         /\ WithQuantity(pg, p, q).product = pg.product
  <1>1. [pg.quantity EXCEPT ![p] = q] \in [Products -> Nat]
    BY DEF Pages
  <1> QED
    BY <1>1 DEF WithQuantity, Pages

(* Plus, minus and remove on the page of a product.                        *)
LEMMA QuantityButtonsKeepShape ==
  ASSUME PageShape, NEW t \in Tabs, QuantityButtons(t)
  PROVE  PageShape'
  <1> DEFINE p == page[t].product
  <1>1. /\ page \in [Tabs -> Pages] /\ page[t] \in Pages /\ p \in Products
        /\ page[t].kind = "product"
    BY DEF PageShape, QuantityButtons
  <1>2. CASE Submit(t, <<Form("remove", p, 1, 0)>>) /\ UNCHANGED <<page, asked>>
    <2>1. <<Form("remove", p, 1, 0)>> \in Seq(Forms)
      BY <1>1, FormsAreForms, PageAssumption, CartAssumption
    <2> QED
      BY <1>1, <1>2, <2>1, SubmitKeepsShape
  <1>3. ASSUME NEW d \in {-1, 1}, NEW q,
               q = EffectiveQuantity(page[t].quantity[p] + d),
               page' = [page EXCEPT ![t] = WithQuantity(page[t], p, q)],
               Submit(t, <<Form("update", p, q, d)>>)
        PROVE  PageShape'
    <2>1. page[t].quantity[p] \in Nat
      BY <1>1 DEF Pages
    <2>2. q \in Nat \ {0}
      BY <1>3, <2>1, ShownQuantityPositive
    <2>3. <<Form("update", p, q, d)>> \in Seq(Forms)
      BY <1>1, <2>2, FormsAreForms, PageAssumption, CartAssumption
    <2>4. /\ page' \in [Tabs -> Pages]
          /\ \A u \in Tabs : /\ page'[u].kind = page[u].kind
                            /\ page'[u].product = page[u].product
      BY <1>1, <1>3, <2>2, WithQuantityIsPage
    <2> QED
      BY <1>1, <1>3, <2>3, <2>4, SubmitKeepsShape
  <1> QED
    BY <1>2, <1>3 DEF QuantityButtons

(* Plus, minus and remove in a row of the cart page.                       *)
LEMMA CartButtonsKeepShape ==
  ASSUME PageShape, NEW t \in Tabs, CartButtons(t)
  PROVE  PageShape'
  <1>1. /\ page \in [Tabs -> Pages] /\ page[t] \in Pages
        /\ page[t].kind = "cart" /\ UNCHANGED page
    BY DEF PageShape, CartButtons
  <1>2. PICK p \in page[t].rows :
          \/ Submit(t, <<Form("update", p, page[t].quantity[p] - 1, -1)>>)
          \/ Submit(t, <<Form("update", p, page[t].quantity[p] + 1, 1)>>)
          \/ Submit(t, <<Form("remove", p, 1, 0)>>)
    BY DEF CartButtons
  <1>3. p \in Products /\ page[t].quantity[p] \in Nat
    BY <1>1, <1>2 DEF Pages
  <1>4. /\ <<Form("update", p, page[t].quantity[p] - 1, -1)>> \in Seq(Forms)
        /\ <<Form("update", p, page[t].quantity[p] + 1, 1)>> \in Seq(Forms)
        /\ <<Form("remove", p, 1, 0)>> \in Seq(Forms)
    BY <1>3, FormsAreForms, PageAssumption, CartAssumption
  <1> QED
    BY <1>1, <1>2, <1>4, SubmitKeepsShape

(* The buttons that check out and that add a product.                      *)
LEMMA OtherButtonsKeepShape ==
  ASSUME PageShape, NEW t \in Tabs, CheckoutButton(t) \/ AddButton(t)
  PROVE  PageShape'
  <1>1. page \in [Tabs -> Pages] /\ UNCHANGED page
    BY DEF PageShape, CheckoutButton, AddButton
  <1>2. CASE CheckoutButton(t)
    <2>1. <<Form("checkout", Undefined, 1, 0)>> \in Seq(Forms)
      BY FormsAreForms, PageAssumption, CartAssumption
    <2> QED
      BY <1>1, <1>2, <2>1, SubmitKeepsShape DEF CheckoutButton
  <1>3. CASE AddButton(t)
    <2>1. page[t].product \in Products
      BY <1>3 DEF AddButton, PageShape
    <2>2. /\ Form("add", Undefined, 1, 0) \in Forms
          /\ Form("add", page[t].product, 1, 1) \in Forms
      BY <2>1, FormsAreForms, PageAssumption, CartAssumption
    <2>3. AddForms(page[t].product) \in Seq(Forms)
      BY <2>2 DEF AddForms
    <2> QED
      BY <1>1, <1>3, <2>3, SubmitKeepsShape DEF AddButton
  <1> QED
    BY <1>2, <1>3

(* Loading a page, or leaving it.                                          *)
LEMMA LoadKeepsShape ==
  ASSUME TypeOK, PageShape, NEW t \in Tabs,
         \/ Open(t) \/ LoadCart(t) \/ LoadProduct(t)
         \/ LoadSuccess(t) \/ LoadError(t)
  PROVE  PageShape'
  <1>z. Zero \in [Products -> Nat]
    BY DEF Zero
  <1>b. Blank \in Pages /\ Blank.kind = "blank"
    BY <1>z DEF Blank, Pages
  <1>1. CASE Open(t)
    <2>1. PICK to \in {Place("cart")} \cup
                      {[kind |-> "product", product |-> p] : p \in Products} :
            going' = [going EXCEPT ![t] = to]
      BY <1>1 DEF Open
    <2>2. /\ to \in Places /\ to.kind # "answer"
          /\ to.kind = "product" => to.product \in Products
      BY <2>1 DEF Place, Places
    <2>3. UNCHANGED <<sessionOf, page, sent, turn>>
      BY <1>1 DEF Open
    <2> QED
      BY <2>1, <2>2, <2>3 DEF PageShape
  <1>2. CASE LoadCart(t)
    <2>1. PICK q \in Rendered(sessionOf[t]) :
            \E R \in Merged({p \in Products : q[p] > 0}) :
              Show(t, [kind |-> "cart", product |-> NoProduct,
                       quantity |-> q, rows |-> R])
      BY <1>2 DEF LoadCart
    <2>2. PICK R \in Merged({p \in Products : q[p] > 0}) :
            Show(t, [kind |-> "cart", product |-> NoProduct,
                     quantity |-> q, rows |-> R])
      BY <2>1
    <2>3. R \subseteq Products
      BY <2>2 DEF Merged
    <2>4. q \in [Products -> Nat]
      BY RenderedQuantities
    <2>5. [kind |-> "cart", product |-> NoProduct,
           quantity |-> q, rows |-> R] \in Pages
      BY <2>3, <2>4 DEF Pages
    <2> QED
      BY <2>2, <2>5, ShowKeepsShape
  <1>3. CASE LoadProduct(t)
    <2> DEFINE p == going[t].product
    <2>1. PICK q \in Rendered(sessionOf[t]) :
            Show(t, [kind |-> "product", product |-> p,
                     quantity |-> [Zero EXCEPT ![p] = q[p]], rows |-> {p}])
      BY <1>3 DEF LoadProduct
    <2>2. p \in Products
      BY <1>3 DEF LoadProduct, PageShape
    <2>3. q \in [Products -> Nat]
      BY RenderedQuantities
    <2>4. [Zero EXCEPT ![p] = q[p]] \in [Products -> Nat]
      BY <1>z, <2>2, <2>3
    <2>5. [kind |-> "product", product |-> p,
           quantity |-> [Zero EXCEPT ![p] = q[p]], rows |-> {p}] \in Pages
      BY <2>2, <2>4 DEF Pages
    <2> QED
      BY <2>1, <2>2, <2>5, ShowKeepsShape
  <1>4. CASE LoadSuccess(t) \/ LoadError(t)
    <2>1. /\ [Blank EXCEPT !.kind = "success"] \in Pages
          /\ [Blank EXCEPT !.kind = "success"].kind = "success"
      BY <1>z DEF Blank, Pages
    <2>2. \/ Show(t, [Blank EXCEPT !.kind = "success"])
          \/ Show(t, Blank)
      BY <1>4 DEF LoadSuccess, LoadError
    <2> QED
      BY <1>b, <2>1, <2>2, ShowKeepsShape
  <1> QED
    BY <1>1, <1>2, <1>3, <1>4

(* Every step of a browser and of the handler keeps the shape.             *)
LEMMA PageShapeNext ==
  IInv /\ PageShape /\ [PageNext]_allVars => PageShape'
  <1> SUFFICES ASSUME IInv, PageShape, [PageNext]_allVars PROVE PageShape'
    OBVIOUS
  <1>1. TypeOK
    BY DEF IInv
  <1>2. ASSUME NEW t \in Tabs, Browse(t) PROVE PageShape'
    BY <1>1, <1>2, LoadKeepsShape, CartButtonsKeepShape,
       QuantityButtonsKeepShape, OtherButtonsKeepShape DEF Browse
  <1>3. CASE UNCHANGED allVars
    BY <1>3 DEF allVars, pageVars, PageShape
  <1> QED
    BY <1>2, <1>3, ReceiveKeepsShape, RunKeepsShape DEF PageNext

(* The pages start blank.                                                  *)
LEMMA InitShape == PageInit => PageShape
  <1> SUFFICES ASSUME PageInit PROVE PageShape
    OBVIOUS
  <1>1. Blank \in Pages /\ Blank.kind = "blank"
    BY DEF Blank, Pages, Zero
  <1>2. Nowhere \in Places /\ Nowhere.kind = "none"
    BY DEF Nowhere, Place, Places
  <1>3. NoTurn \in [tab : Tabs \cup {NoTab}, by : {-1, 0, 1}] /\ NoTurn.tab = NoTab
    BY DEF NoTurn
  <1>4. <<>> \in Seq(Forms)
    OBVIOUS
  <1> QED
    BY <1>1, <1>2, <1>3, <1>4 DEF PageInit, PageShape

(* The invariant of the handler and the shape of the pages need each       *)
(* other: quantities on pages come from the tables, and statements of the  *)
(* handler from forms.                                                     *)
THEOREM PageInvariance == PageSpec => [](IInv /\ PageShape)
  <1>1. PageInit => IInv /\ PageShape
    BY InitIInv, InitShape DEF PageInit
  <1>2. IInv /\ PageShape /\ [PageNext]_allVars => IInv' /\ PageShape'
    BY PageStepIsCartStep, CartNextIInv, PageShapeNext
  <1> QED
    BY <1>1, <1>2, PTL DEF PageSpec

(* carrello.php and mostra-prodotti.php only ever make requests that       *)
(* cart_actions_handler.php is modelled for: with tabs, scripts and stale  *)
(* pages in front of it the handler implements Cart, so that the theorems  *)
(* about Cart hold of the composition.                                     *)
THEOREM PagesImplementCart == PageSpec => Spec
  <1>1. PageInit => Init
    BY DEF PageInit
  <1> QED
    BY <1>1, PageInvariance, PageStepIsCartStep, PTL DEF PageSpec, Spec

(* Whatever customers click, in however many tabs, cart lines refer to     *)
(* carts that exist.                                                       *)
THEOREM PagesNoDanglingLine == PageSpec => []LinesHaveCarts
  BY PagesImplementCart, NoDanglingLine, PTL

-----------------------------------------------------------------------------
(* Statements of the handler never take a confirmation away.               *)
LEMMA ConfirmGrows ==
  ASSUME TypeOK, NEW s \in Sessions,
         CartStep(s) \/ CheckoutStep(s) \/ RequestDies(s), NEW z \in Sessions,
         confirm[z]
  PROVE  confirm'[z]
  <1>1. CASE CartStep(s)
    <2>1. AddIncrease(s) => confirm' = confirm
      BY DEF AddIncrease, WriteQuantity
    <2>2. AddCart(s) \/ AddLine(s) => confirm' = confirm
      BY DEF AddCart, AddLine
    <2>3. UpdateQuantity(s) => confirm' = confirm
      BY DEF UpdateQuantity, WriteQuantity
    <2>4. RemoveLine(s) \/ RemoveCart(s) => confirm' = confirm
      BY DEF RemoveLine, RemoveCart
    <2> QED
      BY <1>1, <2>1, <2>2, <2>3, <2>4 DEF CartStep
  <1>2. CASE Commit(s)
    <2>1. confirm' = confirm \/ confirm' = [confirm EXCEPT ![s] = TRUE]
      BY <1>2 DEF Commit, Confirmed
    <2>2. confirm \in [Sessions -> BOOLEAN]
      BY DEF TypeOK
    <2> QED
      BY <2>1, <2>2, Zenon
  <1>3. CASE FetchRow(s) \/ TakeStock(s) \/ UnlinkLine(s) \/ CloseCart(s)
    BY <1>3 DEF FetchRow, TakeStock, UnlinkLine, CloseCart
  <1>4. CASE RollbackOutOfStock(s) \/ CheckoutException(s) \/ RequestDies(s)
    BY <1>4 DEF RollbackOutOfStock, CheckoutException, RequestDies
  <1> QED
    BY <1>1, <1>2, <1>3, <1>4 DEF CheckoutStep

(* Nor does the first statement of a request.                              *)
LEMMA HandleKeepsConfirm ==
  ASSUME NEW s, NEW f, Handle(s, f)
  PROVE  confirm' = confirm
  <1>1. AddSelect(s, f.product, f.quantity) => confirm' = confirm
    BY DEF AddSelect
  <1>2. UpdateSelect(s, f.product, f.quantity) => confirm' = confirm
    BY DEF UpdateSelect
  <1>3. RemoveSelect(s, f.product) => confirm' = confirm
    BY DEF RemoveSelect
  <1>4. CheckoutSelect(s) => confirm' = confirm
    BY DEF CheckoutSelect
  <1> QED
    BY <1>1, <1>2, <1>3, <1>4 DEF Handle

(* A tab that starts to wait for checkout_succes.php does so because its   *)
(* session has just been given the confirmation.                           *)
LEMMA RunConfirms ==
  ASSUME PageShape, TypeOK, ConfirmationWaits, NEW s \in Sessions, Run(s)
  PROVE  ConfirmationWaits'
  <1> DEFINE t == turn[s].tab
  <1>1. t \in Tabs /\ sessionOf[t] = s /\ sessionOf' = sessionOf
    BY DEF Run, Continue, Finish, PageShape
  <1>2. ASSUME CartStep(s) \/ CheckoutStep(s) \/ RequestDies(s),
               NEW u \in Tabs, confirm[sessionOf[u]]
        PROVE  confirm'[sessionOf[u]]
    BY <1>2, ConfirmGrows DEF PageShape
  <1>3. ASSUME CartStep(s) \/ CheckoutStep(s) \/ RequestDies(s),
               \A u \in Tabs : going'[u].kind = "success" =>
                 going[u].kind = "success" \/ confirm'[sessionOf[u]]
        PROVE  ConfirmationWaits'
    BY <1>1, <1>2, <1>3 DEF ConfirmationWaits
  <1>4. ASSUME NEW ACTION A, NEW to, Finish(s, A, to),
               going[t].kind = "answer" => to.kind # "success"
        PROVE  \A u \in Tabs : going'[u].kind = "success" =>
                 going[u].kind = "success"
    <2>1. \/ going' = going
          \/ going[t].kind = "answer" /\ going' = [going EXCEPT ![t] = to]
      BY <1>4 DEF Finish, Answer
    <2> QED
      BY <1>1, <1>4, <2>1 DEF PageShape
  <1>5. ASSUME NEW k \in {"cart", "error"} PROVE Place(k).kind # "success"
    BY <1>5 DEF Place
  <1>6. CASE Continue(s, CartStep(s) \/ CheckoutStep(s))
    BY <1>3, <1>6 DEF Continue
  <1>7. CASE Finish(s, CartStep(s), Back(t))
    <2>1. CartStep(s)
      BY <1>7 DEF Finish
    <2>2. going[t].kind = "answer" => Back(t).kind # "success"
      BY <1>1, BackIsAPlace
    <2> QED
      BY <1>3, <1>4, <1>7, <2>1, <2>2
  <1>8. CASE Finish(s, RollbackOutOfStock(s) \/ CheckoutException(s), AfterRollback(s))
    <2>1. CheckoutStep(s)
      BY <1>8 DEF Finish, CheckoutStep
    <2> QED
      BY <1>3, <1>4, <1>5, <1>8, <2>1 DEF AfterRollback
  <1>9. CASE Finish(s, Commit(s) /\ confirm'[s], Place("success"))
    <2>1. CheckoutStep(s) /\ confirm'[s]
      BY <1>9 DEF Finish, CheckoutStep
    <2>2. \/ going' = going
          \/ going' = [going EXCEPT ![t] = Place("success")]
      BY <1>9 DEF Finish, Answer
    <2>3. \A u \in Tabs : going'[u].kind = "success" =>
            going[u].kind = "success" \/ confirm'[sessionOf[u]]
      BY <1>1, <2>1, <2>2 DEF PageShape
    <2> QED
      BY <1>3, <2>1, <2>3
  <1>10. CASE Finish(s, Failures /\ Commit(s) /\ UNCHANGED confirm, Place("error"))
    <2>1. CheckoutStep(s)
      BY <1>10 DEF Finish, CheckoutStep
    <2> QED
      BY <1>3, <1>4, <1>5, <1>10, <2>1
  <1>11. CASE Finish(s, RequestDies(s), Place("error"))
    <2>1. RequestDies(s)
      BY <1>11 DEF Finish
    <2> QED
      BY <1>3, <1>4, <1>5, <1>11, <2>1
  <1> QED
    BY <1>6, <1>7, <1>8, <1>9, <1>10, <1>11 DEF Run

(* A tab only takes the confirmation of its own session, by showing it.    *)
LEMMA BrowseConfirms ==
  ASSUME PageShape, TypeOK, ConfirmationWaits, NEW t \in Tabs, Browse(t)
  PROVE  ConfirmationWaits'
  <1>1. ASSUME NEW forms, Submit(t, forms) PROVE ConfirmationWaits'
    <2>1. /\ going' = [going EXCEPT ![t] = Place("answer")]
          /\ UNCHANGED <<sessionOf, confirm>>
      BY <1>1 DEF Submit, vars
    <2>2. Place("answer").kind = "answer"
      BY DEF Place
    <2> QED
      BY <2>1, <2>2 DEF PageShape, ConfirmationWaits
  <1>2. CASE Open(t)
    <2>1. PICK to \in {Place("cart")} \cup
                      {[kind |-> "product", product |-> p] : p \in Products} :
            going' = [going EXCEPT ![t] = to]
      BY <1>2 DEF Open
    <2>2. to.kind # "success"
      BY <2>1 DEF Place
    <2>3. UNCHANGED <<sessionOf, confirm>>
      BY <1>2 DEF Open, vars
    <2> QED
      BY <2>1, <2>2, <2>3 DEF PageShape, ConfirmationWaits
  <1>3. ASSUME NEW pg, Show(t, pg),
               \/ confirm' = confirm
               \/ confirm' = [confirm EXCEPT ![sessionOf[t]] = FALSE]
        PROVE  ConfirmationWaits'
    <2>1. /\ going' = [going EXCEPT ![t] = Nowhere]
          /\ sessionOf' = sessionOf
      BY <1>3 DEF Show
    <2>2. Nowhere.kind = "none"
      BY DEF Nowhere, Place
    <2>3. SUFFICES ASSUME NEW u \in Tabs, going'[u].kind = "success",
                          \A w \in Tabs : sessionOf[w] = sessionOf[u] => w = u
                   PROVE  confirm'[sessionOf[u]]
      BY <2>1 DEF ConfirmationWaits
    <2>4. u # t /\ going[u].kind = "success"
      BY <2>1, <2>2, <2>3 DEF PageShape
    <2>5. confirm[sessionOf[u]]
      BY <2>3, <2>4 DEF ConfirmationWaits
    <2>6. sessionOf[u] # sessionOf[t]
      BY <2>3, <2>4
    <2> QED
      <3>1. confirm \in [Sessions -> BOOLEAN] /\ sessionOf[u] \in Sessions
        BY DEF TypeOK, PageShape
      <3> QED
        BY <1>3, <2>5, <2>6, <3>1, Zenon
  <1>4. CASE LoadCart(t)
    BY <1>3, <1>4 DEF LoadCart, vars
  <1>5. CASE LoadProduct(t)
    BY <1>3, <1>5 DEF LoadProduct, vars
  <1>6. CASE LoadSuccess(t)
    BY <1>3, <1>6 DEF LoadSuccess, ShowSuccess, vars
  <1>7. CASE LoadError(t)
    BY <1>3, <1>7 DEF LoadError, vars
  <1>8. CASE CartButtons(t) \/ CheckoutButton(t)
    BY <1>1, <1>8 DEF CartButtons, CheckoutButton
  <1>9. CASE QuantityButtons(t) \/ AddButton(t)
    BY <1>1, <1>9 DEF QuantityButtons, AddButton
  <1> QED
    BY <1>2, <1>4, <1>5, <1>6, <1>7, <1>8, <1>9 DEF Browse

(* A form that arrives sends its tab nowhere, or back to its page.         *)
LEMMA ReceiveConfirms ==
  ASSUME PageShape, ConfirmationWaits, NEW t \in Tabs, Receive(t)
  PROVE  ConfirmationWaits'
  <1>1. sessionOf' = sessionOf
    BY DEF Receive
  <1>2. confirm' = confirm
    BY HandleKeepsConfirm DEF Receive, vars
  <1>3. \/ going' = going
        \/ going[t].kind = "answer" /\ going' = [going EXCEPT ![t] = Back(t)]
    BY DEF Receive, Answer
  <1>4. going[t].kind = "answer" => Back(t).kind # "success"
    BY BackIsAPlace
  <1>5. \A u \in Tabs : going'[u].kind = "success" => going[u].kind = "success"
    BY <1>3, <1>4 DEF PageShape
  <1> QED
    BY <1>1, <1>2, <1>5 DEF ConfirmationWaits

(* A tab that has its session to itself and waits for checkout_succes.php  *)
(* will be congratulated: nothing in between takes the flag.               *)
THEOREM PagesConfirm == PageSpec => []ConfirmationWaits
  <1>1. PageInit => ConfirmationWaits
    BY DEF PageInit, Nowhere, Place, ConfirmationWaits
  <1>2. IInv /\ PageShape /\ ConfirmationWaits /\ [PageNext]_allVars
          => ConfirmationWaits'
    <2> SUFFICES ASSUME IInv, PageShape, ConfirmationWaits, [PageNext]_allVars
                 PROVE  ConfirmationWaits'
      OBVIOUS
    <2>1. TypeOK
      BY DEF IInv
    <2>2. CASE UNCHANGED allVars
      BY <2>2 DEF allVars, pageVars, vars, ConfirmationWaits
    <2> QED
      BY <2>1, <2>2, RunConfirms, BrowseConfirms, ReceiveConfirms DEF PageNext
  <1> QED
    BY <1>1, <1>2, PageInvariance, PTL DEF PageSpec

-----------------------------------------------------------------------------
(* A request leaves the program counters, PHP variables and transactions   *)
(* of other sessions alone.                                                *)
LEMMA OthersKeep ==
  ASSUME TypeOK, NEW s \in Sessions, NEW z \in Sessions, z # s,
         \/ CartStep(s) \/ CheckoutStep(s) \/ RequestDies(s)
         \/ \E f : Handle(s, f)
  PROVE  pc'[z] = pc[z] /\ work'[z] = work[z] /\ tx'[z] = tx[z]
  <1> USE DEF Goto, Hold, Record
  <1>1. /\ pc = [x \in Sessions |-> pc[x]] /\ work = [x \in Sessions |-> work[x]]
        /\ tx = [x \in Sessions |-> tx[x]]
    BY DEF TypeOK
  <1>2. CASE \E f : Handle(s, f)
    BY <1>1, <1>2 DEF Handle, AddSelect, UpdateSelect, RemoveSelect, CheckoutSelect
  <1>3. CASE AddIncrease(s) \/ UpdateQuantity(s)
    BY <1>1, <1>3 DEF AddIncrease, UpdateQuantity, WriteQuantity
  <1>4. CASE AddCart(s) \/ AddLine(s) \/ RemoveLine(s) \/ RemoveCart(s)
    BY <1>1, <1>4 DEF AddCart, AddLine, RemoveLine, RemoveCart
  <1>5. CASE FetchRow(s) \/ TakeStock(s) \/ UnlinkLine(s) \/ CloseCart(s)
    BY <1>1, <1>5 DEF FetchRow, TakeStock, UnlinkLine, CloseCart
  <1>6. CASE Commit(s) \/ RollbackOutOfStock(s) \/ CheckoutException(s) \/ RequestDies(s)
    BY <1>1, <1>6 DEF Commit, RollbackOutOfStock, CheckoutException, RequestDies,
                      EndCheckout
  <1> QED
    BY <1>2, <1>3, <1>4, <1>5, <1>6 DEF CartStep, CheckoutStep

(* The first statement of a request starts it.                             *)
LEMMA HandleStarts ==
  ASSUME TypeOK, NEW s \in Sessions, NEW f, Handle(s, f)
  PROVE  /\ pc[s] = "idle" /\ pc'[s] # "idle"
         /\ UNCHANGED <<tables, confirm, history>>
  <1>1. pc \in [Sessions -> {"idle"} \cup CartPcs \cup CheckoutPcs]
    BY DEF TypeOK
  <1> QED
    BY <1>1 DEF Handle, AddSelect, UpdateSelect, RemoveSelect, CheckoutSelect, Goto

-----------------------------------------------------------------------------
(* A request runs in a session iff a tab waits for it there; the rows of   *)
(* the cart page have different names and quantities of at least one.      *)
RowsAreMerged(pg) ==
  \A p, q \in pg.rows : pg.quantity[p] > 0 /\ (NameOf[p] = NameOf[q] => p = q)

PageExtras ==
  /\ fresh \in [Tabs -> BOOLEAN]
  /\ asked \in [Users -> [Products -> Nat]]
  /\ clicks \in 0 .. MaxClicks
  /\ \A s \in Sessions : pc[s] # "idle" <=> turn[s].tab # NoTab
  /\ \A t \in Tabs : page[t].kind = "cart" => RowsAreMerged(page[t])

(* Of the rows with one name one is left.                                  *)
LEMMA MergedNames ==
  ASSUME PageAssumption, NEW shown \in SUBSET Products, NEW R \in Merged(shown)
  PROVE  /\ R \subseteq shown
         /\ \A p \in shown : \E r \in R : NameOf[r] = NameOf[p]
         /\ \A p, q \in R : NameOf[p] = NameOf[q] => p = q
  <1>1. R \subseteq shown
    BY DEF Merged
  <1>2. ASSUME NEW p \in shown
        PROVE  \E x : {r \in R : NameOf[r] = NameOf[p]} = {x}
    <2> DEFINE E == {r \in R : NameOf[r] = NameOf[p]}
    <2>1. Cardinality(E) = 1
      BY DEF Merged
    <2>2. E \subseteq Products
      BY <1>1
    <2>3. IsFiniteSet(E)
      <3> HIDE DEF E
      <3> QED
        BY <2>2, FS_Subset DEF PageAssumption
    <2> HIDE DEF E
    <2>4. \E x : E = {x}
      BY <2>1, <2>3, FS_Singleton
    <2> QED
      BY <2>4 DEF E
  <1>3. ASSUME NEW p \in shown PROVE \E r \in R : NameOf[r] = NameOf[p]
    <2>1. PICK x : {r \in R : NameOf[r] = NameOf[p]} = {x}
      BY <1>2
    <2>2. x \in {r \in R : NameOf[r] = NameOf[p]}
      BY <2>1
    <2> QED
      BY <2>2
  <1>4. ASSUME NEW p \in R, NEW q \in R, NameOf[p] = NameOf[q] PROVE p = q
    <2>1. PICK x : {r \in R : NameOf[r] = NameOf[p]} = {x}
      BY <1>1, <1>2
    <2>2. p \in {r \in R : NameOf[r] = NameOf[p]} /\ q \in {r \in R : NameOf[r] = NameOf[p]}
      BY <1>4
    <2> QED
      BY <2>1, <2>2
  <1> QED
    BY <1>1, <1>3, <1>4

(* Clicks submit forms and count; nothing runs on the server yet.          *)
LEMMA SubmitKeepsExtras ==
  ASSUME PageShape, PageExtras, NEW t \in Tabs, NEW forms, Submit(t, forms),
         \/ UNCHANGED asked
         \/ \E p \in Products : Ask(t, p),
         \A u \in Tabs : /\ page'[u].kind = page[u].kind
                         /\ page[u].kind = "cart" => page'[u] = page[u]
  PROVE  PageExtras'
  <1>1. /\ clicks < MaxClicks /\ clicks' = clicks + 1
        /\ fresh' = [fresh EXCEPT ![t] = fresh[t] /\ going[t] = Nowhere]
        /\ UNCHANGED <<pc, turn>>
    BY DEF Submit, vars
  <1>2. clicks' \in 0 .. MaxClicks
    BY <1>1, PageAssumption DEF PageExtras, PageAssumption
  <1>3. fresh' \in [Tabs -> BOOLEAN]
    <2>1. fresh \in [Tabs -> BOOLEAN]
      BY DEF PageExtras
    <2>2. (fresh[t] /\ going[t] = Nowhere) \in BOOLEAN
      BY <2>1, Zenon
    <2> QED
      BY <1>1, <2>1, <2>2, Zenon
  <1>4. asked' \in [Users -> [Products -> Nat]]
    BY DEF PageExtras, Ask
  <1>5. \A s \in Sessions : pc'[s] # "idle" <=> turn'[s].tab # NoTab
    BY <1>1 DEF PageExtras
  <1>6. \A u \in Tabs : page'[u].kind = "cart" => RowsAreMerged(page'[u])
    BY DEF PageExtras
  <1> QED
    BY <1>2, <1>3, <1>4, <1>5, <1>6 DEF PageExtras, RowsAreMerged

(* So does every click.                                                    *)
LEMMA ClicksKeepExtras ==
  ASSUME PageShape, PageExtras, NEW t \in Tabs,
         CartButtons(t) \/ CheckoutButton(t) \/ QuantityButtons(t) \/ AddButton(t)
  PROVE  PageExtras'
  <1>1. page \in [Tabs -> Pages]
    BY DEF PageShape
  <1>2. CASE CartButtons(t)
    <2>1. PICK p \in page[t].rows :
            \E forms : Submit(t, forms) /\ (UNCHANGED asked \/ Ask(t, p))
      BY <1>2 DEF CartButtons
    <2>2. p \in Products
      BY <1>1, <2>1 DEF Pages
    <2>3. page' = page
      BY <1>2 DEF CartButtons
    <2> QED
      BY <2>1, <2>2, <2>3, SubmitKeepsExtras
  <1>3. CASE CheckoutButton(t)
    BY <1>3, SubmitKeepsExtras DEF CheckoutButton
  <1>4. CASE QuantityButtons(t)
    <2> DEFINE p == page[t].product
    <2>1. page[t].kind = "product" /\ p \in Products
      BY <1>4 DEF QuantityButtons, PageShape
    <2>2. \E forms : Submit(t, forms) /\ (UNCHANGED asked \/ Ask(t, p))
      BY <1>4 DEF QuantityButtons
    <2>3. CASE page' = page
      BY <2>1, <2>2, <2>3, SubmitKeepsExtras
    <2>4. ASSUME NEW q, page' = [page EXCEPT ![t] = WithQuantity(page[t], p, q)]
          PROVE  \A u \in Tabs : /\ page'[u].kind = page[u].kind
                                 /\ page[u].kind = "cart" => page'[u] = page[u]
      <3>1. WithQuantity(page[t], p, q).kind = "product"
        BY <1>1, <2>1 DEF WithQuantity, Pages
      <3>2. page'[t].kind = page[t].kind /\ page[t].kind # "cart"
        BY <1>1, <2>1, <2>4, <3>1
      <3>3. \A u \in Tabs \ {t} : page'[u] = page[u]
        BY <1>1, <2>4
      <3> QED
        BY <3>2, <3>3
    <2>5. \/ page' = page
          \/ \E q : page' = [page EXCEPT ![t] = WithQuantity(page[t], p, q)]
      BY <1>4 DEF QuantityButtons
    <2> QED
      BY <2>1, <2>2, <2>3, <2>4, <2>5, SubmitKeepsExtras
  <1>5. CASE AddButton(t)
    <2>1. page[t].product \in Products
      BY <1>5 DEF AddButton, PageShape
    <2> QED
      BY <1>5, <2>1, SubmitKeepsExtras DEF AddButton
  <1> QED
    BY <1>2, <1>3, <1>4, <1>5

(* A page that is loaded shows the rows that are left.                     *)
LEMMA ShowKeepsExtras ==
  ASSUME PageShape, PageExtras, NEW t \in Tabs, NEW pg, Show(t, pg),
         pg.kind = "cart" => RowsAreMerged(pg),
         UNCHANGED pc
  PROVE  PageExtras'
  <1>1. /\ page' = [page EXCEPT ![t] = pg]
        /\ fresh' = [fresh EXCEPT ![t] = pg.kind \in {"cart", "product"}]
        /\ UNCHANGED <<turn, asked, clicks>>
    BY DEF Show
  <1>2. fresh' \in [Tabs -> BOOLEAN]
    <2>1. fresh \in [Tabs -> BOOLEAN]
      BY DEF PageExtras
    <2>2. (pg.kind \in {"cart", "product"}) \in BOOLEAN
      OBVIOUS
    <2> QED
      BY <1>1, <2>1, <2>2, Zenon
  <1>3. \A u \in Tabs : page'[u].kind = "cart" => RowsAreMerged(page'[u])
    BY <1>1 DEF PageShape, PageExtras
  <1> QED
    BY <1>1, <1>2, <1>3 DEF PageExtras, RowsAreMerged

(* Pages that are loaded have merged rows.                                 *)
LEMMA LoadKeepsExtras ==
  ASSUME TypeOK, PageShape, PageExtras, NEW t \in Tabs,
         \/ Open(t) \/ LoadCart(t) \/ LoadProduct(t)
         \/ LoadSuccess(t) \/ LoadError(t)
  PROVE  PageExtras'
  <1>1. CASE Open(t)
    BY <1>1 DEF Open, PageExtras, RowsAreMerged, vars
  <1>2. CASE LoadCart(t)
    <2>1. PICK q \in Rendered(sessionOf[t]) :
            \E R \in Merged({p \in Products : q[p] > 0}) :
              Show(t, [kind |-> "cart", product |-> NoProduct,
                       quantity |-> q, rows |-> R])
      BY <1>2 DEF LoadCart
    <2>2. PICK R \in Merged({p \in Products : q[p] > 0}) :
            Show(t, [kind |-> "cart", product |-> NoProduct,
                     quantity |-> q, rows |-> R])
      BY <2>1
    <2>3. /\ R \subseteq {p \in Products : q[p] > 0}
          /\ \A p, r \in R : NameOf[p] = NameOf[r] => p = r
      BY PageAssumption, MergedNames
    <2>4. RowsAreMerged([kind |-> "cart", product |-> NoProduct,
                         quantity |-> q, rows |-> R])
      BY <2>3 DEF RowsAreMerged
    <2>5. UNCHANGED pc
      BY <1>2 DEF LoadCart, vars
    <2> QED
      BY <2>2, <2>4, <2>5, ShowKeepsExtras
  <1>3. CASE LoadProduct(t)
    <2>1. PICK q \in Rendered(sessionOf[t]) :
            Show(t, [kind |-> "product", product |-> going[t].product,
                     quantity |-> [Zero EXCEPT ![going[t].product] = q[going[t].product]],
                     rows |-> {going[t].product}])
      BY <1>3 DEF LoadProduct
    <2>2. UNCHANGED pc
      BY <1>3 DEF LoadProduct, vars
    <2> QED
      BY <2>1, <2>2, ShowKeepsExtras
  <1>4. CASE LoadSuccess(t) \/ LoadError(t)
    <2>1. \/ Show(t, [Blank EXCEPT !.kind = "success"])
          \/ Show(t, Blank)
      BY <1>4 DEF LoadSuccess, LoadError
    <2>2. Blank.kind = "blank" /\ [Blank EXCEPT !.kind = "success"].kind = "success"
      BY DEF Blank
    <2>3. UNCHANGED pc
      BY <1>4 DEF LoadSuccess, LoadError, ShowSuccess, vars
    <2> QED
      BY <2>1, <2>2, <2>3, ShowKeepsExtras
  <1> QED
    BY <1>1, <1>2, <1>3, <1>4

(* A form starts a request for its tab, or none.                           *)
LEMMA ReceiveKeepsExtras ==
  ASSUME TypeOK, PageShape, PageExtras, NEW t \in Tabs, Receive(t)
  PROVE  PageExtras'
  <1> DEFINE s == sessionOf[t]
             f == Head(sent[t])
  <1>1. s \in Sessions /\ UNCHANGED <<page, fresh, asked, clicks>>
    BY DEF PageShape, Receive
  <1>2. CASE UNCHANGED <<vars, turn>>
    BY <1>1, <1>2 DEF PageExtras, RowsAreMerged, vars
  <1>3. CASE Handle(s, f) /\ turn' = [turn EXCEPT ![s] = [tab |-> t, by |-> f.by]]
    <2>1. pc'[s] # "idle" /\ \A z \in Sessions \ {s} : pc'[z] = pc[z]
      BY <1>1, <1>3, HandleStarts, OthersKeep
    <2>2. turn'[s].tab = t /\ \A z \in Sessions \ {s} : turn'[z] = turn[z]
      BY <1>1, <1>3 DEF PageShape
    <2>3. t # NoTab
      BY PageAssumption DEF PageAssumption
    <2>4. \A z \in Sessions : pc'[z] # "idle" <=> turn'[z].tab # NoTab
      BY <2>1, <2>2, <2>3 DEF PageExtras
    <2> QED
      BY <1>1, <2>4 DEF PageExtras, RowsAreMerged
  <1> QED
    BY <1>2, <1>3 DEF Receive

(* The last statement of a request ends it.                                *)
LEMMA RunKeepsExtras ==
  ASSUME TypeOK, PageShape, PageExtras, NEW s \in Sessions, Run(s)
  PROVE  PageExtras'
  <1>1. /\ CartStep(s) \/ CheckoutStep(s) \/ RequestDies(s)
        /\ UNCHANGED <<page, asked, clicks>> /\ turn[s].tab # NoTab
        /\ \/ pc'[s] # "idle" /\ turn' = turn
           \/ pc'[s] = "idle" /\ turn' = [turn EXCEPT ![s] = NoTurn]
        /\ Age
    BY DEF Run, Continue, Finish, CheckoutStep
  <1>2. \A z \in Sessions \ {s} : pc'[z] = pc[z]
    BY <1>1, OthersKeep
  <1>3. NoTurn.tab = NoTab
    BY DEF NoTurn
  <1>4. \A z \in Sessions : pc'[z] # "idle" <=> turn'[z].tab # NoTab
    BY <1>1, <1>2, <1>3 DEF PageExtras, PageShape
  <1>5. fresh' \in [Tabs -> BOOLEAN]
    BY <1>1, Zenon DEF Age
  <1> QED
    BY <1>1, <1>4, <1>5 DEF PageExtras, RowsAreMerged

(* The whole of the composition is well typed, for any number of tabs,     *)
(* clicks, sessions and products: what the scripts of a page submit, what  *)
(* the server holds and where a tab goes next.                             *)
THEOREM PagesTyped == PageSpec => [](IInv /\ PageShape /\ PageExtras)
  <1>1. PageInit => PageExtras
    <2> SUFFICES ASSUME PageInit PROVE PageExtras
      OBVIOUS
    <2>1. /\ fresh \in [Tabs -> BOOLEAN] /\ asked \in [Users -> [Products -> Nat]]
          /\ clicks \in 0 .. MaxClicks
      BY PageAssumption DEF PageInit, Zero, PageAssumption
    <2>2. \A s \in Sessions : pc[s] = "idle" /\ turn[s].tab = NoTab
      BY DEF PageInit, Init, NoTurn
    <2>3. \A t \in Tabs : page[t].kind # "cart"
      BY DEF PageInit, Blank
    <2> QED
      BY <2>1, <2>2, <2>3 DEF PageExtras
  <1>2. IInv /\ PageShape /\ PageExtras /\ [PageNext]_allVars => PageExtras'
    <2> SUFFICES ASSUME TypeOK, PageShape, PageExtras, [PageNext]_allVars
                 PROVE  PageExtras'
      BY DEF IInv
    <2>1. CASE UNCHANGED allVars
      BY <2>1 DEF allVars, pageVars, vars, PageExtras, RowsAreMerged
    <2> QED
      BY <2>1, ClicksKeepExtras, LoadKeepsExtras, ReceiveKeepsExtras,
         RunKeepsExtras DEF PageNext, Browse
  <1> QED
    BY <1>1, <1>2, PageInvariance, PTL DEF PageSpec

(* The pages that customers see are well typed: tabs, forms, navigations and *)
(* requests keep their shape, and a cart page has one row per name.        *)
THEOREM PagesTypeCorrect == PageSpec => []PageTypeOK
  <1>1. IInv /\ PageShape /\ PageExtras => PageTypeOK
    BY DEF PageShape, PageExtras, RowsAreMerged, PageTypeOK
  <1> QED
    BY <1>1, PagesTyped, PTL

-----------------------------------------------------------------------------
(* What the statements of a request write to the lines and carts.          *)

(* A line that is there after a statement was there before it, or is the   *)
(* one that 'add' inserts.                                                 *)
LEMMA LinesComeFromAdd ==
  ASSUME TypeOK, NEW s \in Sessions,
         CartStep(s) \/ CheckoutStep(s) \/ RequestDies(s),
         NEW i \in interazioni', i \notin interazioni
  PROVE  /\ pc[s] = "add_line" /\ pc'[s] = "idle" /\ carrelli' = carrelli
         /\ i.product = work[s].product /\ i.cart = work[s].cart
         /\ i.user = UserOf[s]
  <1>1. CASE AddLine(s)
    BY <1>1 DEF AddLine, Goto, TypeOK
  <1>2. CASE AddIncrease(s) \/ UpdateQuantity(s) \/ AddCart(s) \/ RemoveCart(s)
    BY <1>2 DEF AddIncrease, UpdateQuantity, WriteQuantity, AddCart, RemoveCart
  <1>3. CASE RemoveLine(s) \/ Commit(s)
    BY <1>3 DEF RemoveLine, Commit
  <1>4. CASE FetchRow(s) \/ TakeStock(s) \/ UnlinkLine(s) \/ CloseCart(s)
    BY <1>4 DEF FetchRow, TakeStock, UnlinkLine, CloseCart, tables
  <1>5. CASE RollbackOutOfStock(s) \/ CheckoutException(s) \/ RequestDies(s)
    BY <1>5 DEF RollbackOutOfStock, CheckoutException, RequestDies, tables
  <1> QED
    BY <1>1, <1>2, <1>3, <1>4, <1>5 DEF CartStep, CheckoutStep

(* A cart holds the quantity that it held, or the one that the request has *)
(* computed for it.                                                        *)
LEMMA CartsHoldWork ==
  ASSUME TypeOK, NEW s \in Sessions,
         CartStep(s) \/ CheckoutStep(s) \/ RequestDies(s),
         NEW c \in DOMAIN carrelli'
  PROVE  \/ c \in DOMAIN carrelli /\ carrelli'[c] = carrelli[c]
         \/ /\ pc[s] \in {"add_increase", "update_quantity"}
            /\ interazioni' = interazioni
            /\ c = work[s].cart /\ carrelli'[c] = work[s].quantity
         \/ /\ pc[s] = "add_cart" /\ pc'[s] = "add_line"
            /\ interazioni' = interazioni
            /\ c = nextCart /\ carrelli'[c] = work[s].quantity
  <1>1. CASE AddIncrease(s) \/ UpdateQuantity(s)
    BY <1>1 DEF AddIncrease, UpdateQuantity, WriteQuantity
  <1>2. CASE AddCart(s)
    BY <1>2 DEF AddCart, Goto, TypeOK
  <1>3. CASE AddLine(s) \/ RemoveLine(s)
    BY <1>3 DEF AddLine, RemoveLine
  <1>4. CASE RemoveCart(s) \/ Commit(s)
    BY <1>4 DEF RemoveCart, Commit, Restrict
  <1>5. CASE FetchRow(s) \/ TakeStock(s) \/ UnlinkLine(s) \/ CloseCart(s)
    BY <1>5 DEF FetchRow, TakeStock, UnlinkLine, CloseCart, tables
  <1>6. CASE RollbackOutOfStock(s) \/ CheckoutException(s) \/ RequestDies(s)
    BY <1>6 DEF RollbackOutOfStock, CheckoutException, RequestDies, tables
  <1> QED
    BY <1>1, <1>2, <1>3, <1>4, <1>5, <1>6 DEF CartStep, CheckoutStep

(* A request that goes on writing to a cart is an 'add' between its two    *)
(* INSERTs: every quantity is written by the second statement.             *)
LEMMA WorkGoesOn ==
  ASSUME TypeOK, NEW s \in Sessions,
         CartStep(s) \/ CheckoutStep(s) \/ RequestDies(s)
  PROVE  /\ pc'[s] \notin {"add_increase", "add_cart", "update_quantity"}
         /\ pc'[s] = "add_line" =>
              /\ pc[s] = "add_cart"
              /\ interazioni' = interazioni
              /\ work'[s].product = work[s].product
              /\ work'[s].cart = nextCart
              /\ carrelli'[nextCart] = work[s].quantity
  <1> USE DEF Goto, Hold, TypeOK
  <1>1. CASE AddIncrease(s) \/ UpdateQuantity(s)
    BY <1>1 DEF AddIncrease, UpdateQuantity, WriteQuantity
  <1>2. CASE AddCart(s)
    BY <1>2 DEF AddCart, Rows
  <1>3. CASE AddLine(s) \/ RemoveLine(s) \/ RemoveCart(s)
    BY <1>3 DEF AddLine, RemoveLine, RemoveCart
  <1>4. CASE FetchRow(s) \/ TakeStock(s) \/ UnlinkLine(s) \/ CloseCart(s)
    BY <1>4 DEF FetchRow, TakeStock, UnlinkLine, CloseCart
  <1>5. CASE \/ Commit(s) \/ RollbackOutOfStock(s) \/ CheckoutException(s)
             \/ RequestDies(s)
    BY <1>5 DEF Commit, RollbackOutOfStock, CheckoutException, RequestDies,
                EndCheckout
  <1> QED
    BY <1>1, <1>2, <1>3, <1>4, <1>5 DEF CartStep, CheckoutStep

(* What the first statement of a request finds: a line of the product in   *)
(* the form and its cart, or none.                                         *)
LEMMA HandleHolds ==
  ASSUME TypeOK, NEW s \in Sessions, NEW f, Handle(s, f)
  PROVE  /\ pc'[s] \in {"add_increase", "add_cart", "update_quantity"} =>
              work'[s].product = f.product
         /\ pc'[s] = "add_increase" =>
              /\ f.action = "add"
              /\ work'[s].cart \in CartsOf(s, f.product)
              /\ work'[s].quantity =
                   carrelli[work'[s].cart] + EffectiveQuantity(f.quantity)
         /\ pc'[s] = "add_cart" =>
              /\ f.action = "add"
              /\ work'[s].quantity = EffectiveQuantity(f.quantity)
         /\ pc'[s] = "update_quantity" =>
              /\ f.action = "update"
              /\ work'[s].cart \in CartsOf(s, f.product)
              /\ work'[s].quantity = EffectiveQuantity(f.quantity)
         /\ pc'[s] # "add_line"
         /\ pc'[s] \in CheckoutPcs =>
              pc'[s] = "fetch" /\ f.action = "checkout" /\ CheckoutSelect(s)
  <1> USE DEF Goto, Hold, TypeOK, CheckoutPcs
  <1>1. CASE f.action = "add" /\ AddSelect(s, f.product, f.quantity)
    BY <1>1 DEF AddSelect
  <1>2. CASE f.action = "update" /\ UpdateSelect(s, f.product, f.quantity)
    BY <1>2 DEF UpdateSelect
  <1>3. CASE f.action = "remove" /\ RemoveSelect(s, f.product)
    BY <1>3 DEF RemoveSelect
  <1>4. CASE f.action = "checkout" /\ CheckoutSelect(s)
    BY <1>4 DEF CheckoutSelect
  <1> QED
    BY <1>1, <1>2, <1>3, <1>4 DEF Handle

-----------------------------------------------------------------------------
(* Lines that share a cart are of one user and one product, and a request  *)
(* that writes a quantity writes it to a line of its user and of the       *)
(* product it was posted for.                                              *)
LinesAgree == \A i, j \in interazioni :
  i.cart = j.cart => i.product = j.product /\ i.user = j.user

HeldLines ==
  \A s \in Sessions : pc[s] \in {"add_increase", "update_quantity"} =>
    \A i \in interazioni : i.cart = work[s].cart =>
      i.product = work[s].product /\ i.user = UserOf[s]

(* Statements keep lines and what requests hold in agreement.              *)
LEMMA LinesAgreeRun ==
  ASSUME IInv, LinesAgree, HeldLines, NEW s \in Sessions,
         CartStep(s) \/ CheckoutStep(s) \/ RequestDies(s)
  PROVE  LinesAgree' /\ HeldLines'
  <1>1. TypeOK
    BY DEF IInv
  <1>2. \A i \in interazioni' : i \in interazioni \/
          /\ pc[s] = "add_line" /\ i.product = work[s].product
          /\ i.cart = work[s].cart /\ i.user = UserOf[s]
    BY <1>1, LinesComeFromAdd
  <1>3. pc[s] = "add_line" =>
          /\ \A i \in interazioni : i.cart # work[s].cart
          /\ \A z \in Sessions \ {s} : work[z].cart # work[s].cart
    BY DEF IInv, NewCartIsPrivate, Linked
  <1>4. LinesAgree'
    BY <1>2, <1>3 DEF LinesAgree
  <1>5. HeldLines'
    <2> SUFFICES ASSUME NEW z \in Sessions,
                        pc'[z] \in {"add_increase", "update_quantity"},
                        NEW i \in interazioni', i.cart = work'[z].cart
                 PROVE  i.product = work'[z].product /\ i.user = UserOf[z]
      BY DEF HeldLines
    <2>1. z # s /\ pc'[z] = pc[z] /\ work'[z] = work[z]
      BY <1>1, WorkGoesOn, OthersKeep
    <2> QED
      BY <1>2, <1>3, <2>1 DEF HeldLines
  <1> QED
    BY <1>4, <1>5

(* So does the first statement of a request.                               *)
LEMMA LinesAgreeHandle ==
  ASSUME TypeOK, LinesAgree, HeldLines, NEW s \in Sessions, NEW f, Handle(s, f)
  PROVE  LinesAgree' /\ HeldLines'
  <1>1. interazioni' = interazioni
    BY HandleStarts DEF tables
  <1>2. \A z \in Sessions \ {s} : pc'[z] = pc[z] /\ work'[z] = work[z]
    BY OthersKeep
  <1>3. ASSUME pc'[s] \in {"add_increase", "update_quantity"},
               NEW i \in interazioni, i.cart = work'[s].cart
        PROVE  i.product = work'[s].product /\ i.user = UserOf[s]
    <2>1. /\ work'[s].cart \in CartsOf(s, f.product)
          /\ work'[s].product = f.product
      BY <1>3, HandleHolds
    <2>2. PICK j \in interazioni : /\ j.product = f.product /\ j.user = UserOf[s]
                                   /\ j.cart = work'[s].cart
      BY <2>1 DEF CartsOf, LinesOf
    <2> QED
      BY <1>3, <2>1, <2>2 DEF LinesAgree
  <1> QED
    BY <1>1, <1>2, <1>3 DEF LinesAgree, HeldLines

(* So does every step.                                                     *)
LEMMA LinesAgreeNext ==
  ASSUME IInv, PageShape, LinesAgree, HeldLines, [PageNext]_allVars
  PROVE  LinesAgree' /\ HeldLines'
  <1>1. TypeOK
    BY DEF IInv
  <1>2. ASSUME UNCHANGED <<tables, pc, work>> PROVE LinesAgree' /\ HeldLines'
    BY <1>2 DEF tables, LinesAgree, HeldLines
  <1>3. CASE UNCHANGED allVars
    BY <1>2, <1>3 DEF allVars, vars, tables
  <1>4. ASSUME NEW t \in Tabs, Browse(t) PROVE UNCHANGED <<tables, pc, work>>
    <2>1. \A forms : Submit(t, forms) => UNCHANGED vars
      BY DEF Submit
    <2>2. CASE LoadSuccess(t)
      BY <2>2 DEF LoadSuccess, ShowSuccess, vars, tables
    <2>3. CASE CartButtons(t)
      BY <2>1, <2>3 DEF CartButtons, vars, tables
    <2>4. CASE CheckoutButton(t) \/ AddButton(t)
      BY <2>1, <2>4 DEF CheckoutButton, AddButton, vars, tables
    <2>5. CASE QuantityButtons(t)
      BY <2>1, <2>5 DEF QuantityButtons, vars, tables
    <2>6. CASE Open(t) \/ LoadCart(t) \/ LoadProduct(t) \/ LoadError(t)
      BY <2>6 DEF Open, LoadCart, LoadProduct, LoadError, vars, tables
    <2> QED
      BY <1>4, <2>2, <2>3, <2>4, <2>5, <2>6 DEF Browse
  <1>5. ASSUME NEW t \in Tabs, Receive(t) PROVE LinesAgree' /\ HeldLines'
    <2>1. sessionOf[t] \in Sessions
      BY DEF PageShape
    <2>2. Handle(sessionOf[t], Head(sent[t])) \/ UNCHANGED <<tables, pc, work>>
      BY <1>5 DEF Receive, vars, tables
    <2> QED
      BY <1>1, <1>2, <2>1, <2>2, LinesAgreeHandle
  <1>6. ASSUME NEW s \in Sessions, Run(s) PROVE LinesAgree' /\ HeldLines'
    <2>1. CartStep(s) \/ CheckoutStep(s) \/ RequestDies(s)
      BY <1>6 DEF Run, Continue, Finish, CheckoutStep
    <2> QED
      BY <2>1, LinesAgreeRun
  <1> QED
    BY <1>2, <1>3, <1>4, <1>5, <1>6 DEF PageNext

-----------------------------------------------------------------------------
(* The forms on their way that add a product to the cart of a user: the    *)
(* tab and the place in its queue.                                         *)
PendingAdds(w, p) ==
  {a \in Tabs \X Nat :
     /\ Owner(a[1]) = w
     /\ a[2] \in DOMAIN sent[a[1]]
     /\ sent[a[1]][a[2]].action = "add" /\ sent[a[1]][a[2]].product = p}

(* The units of a product that a user has asked for, without those that a  *)
(* form has still to add.                                                  *)
Allowed == [w \in Users |->
  [p \in Products |-> asked[w][p] - Cardinality(PendingAdds(w, p))]]

AllowedOK == \A w \in Users, p \in Products :
  IsFiniteSet(PendingAdds(w, p)) /\ Allowed[w][p] \in Nat

(* The user of a tab exists, and stays the same.                           *)
LEMMA OwnerIsUser ==
  ASSUME PageShape, NEW t \in Tabs
  PROVE  /\ Owner(t) \in Users
         /\ UNCHANGED sessionOf => Owner(t)' = Owner(t)
  BY CartAssumption DEF Owner, PageShape, CartAssumption

(* What clicks have submitted: the forms that a queue holds afterwards     *)
(* were there, or are the last ones of those that the click submits.       *)
LEMMA SubmitQueues ==
  ASSUME PageShape, NEW t \in Tabs, NEW forms \in Seq(Forms), Submit(t, forms)
  PROVE  /\ sent'[t] \in Seq(Forms)
         /\ \A u \in Tabs \ {t} : sent'[u] = sent[u]
         /\ \A u \in Tabs : Owner(u)' = Owner(u)
         /\ \A i \in DOMAIN sent'[t] :
              \/ i \in DOMAIN sent[t] /\ sent'[t][i] = sent[t][i]
              \/ \E j \in DOMAIN forms :
                   /\ sent'[t][i] = forms[j]
                   /\ i = Len(sent'[t]) - Len(forms) + j
  <1>1. PICK keep \in {sent[t], <<>>}, skip \in 0 .. Len(forms) - 1 :
          sent' = [sent EXCEPT ![t] =
                     keep \o SubSeq(forms, skip + 1, Len(forms))]
    BY DEF Submit
  <1> DEFINE last == SubSeq(forms, skip + 1, Len(forms))
  <1>2. keep \in Seq(Forms) /\ sent[t] \in Seq(Forms)
    <2>1. sent[t] \in Seq(Forms)
      BY DEF PageShape
    <2>2. <<>> \in Seq(Forms)
      OBVIOUS
    <2> QED
      BY <1>1, <2>1, <2>2, Zenon
  <1>3. /\ last \in Seq(Forms)
        /\ Len(last) = Len(forms) - skip
        /\ \A j \in 1 .. Len(last) : last[j] = forms[skip + j]
    <2>1. skip + 1 \in Nat \ {0} /\ Len(forms) \in Nat
      BY <1>1
    <2>2. \A i \in skip + 1 .. Len(forms) : forms[i] \in Forms
      BY <2>1
    <2>3. /\ last \in Seq(Forms)
          /\ Len(last) = IF skip + 1 <= Len(forms)
                         THEN Len(forms) - (skip + 1) + 1 ELSE 0
          /\ \A j \in 1 .. Len(forms) - (skip + 1) + 1 :
               last[j] = forms[skip + 1 + j - 1]
      BY <2>1, <2>2, SubSeqProperties
    <2> QED
      BY <1>1, <2>1, <2>3
  <1> HIDE DEF last
  <1>4. sent'[t] = keep \o last /\ \A u \in Tabs \ {t} : sent'[u] = sent[u]
    BY <1>1 DEF PageShape, last
  <1>5. /\ keep \o last \in Seq(Forms)
        /\ Len(keep \o last) = Len(keep) + Len(last)
        /\ \A i \in 1 .. Len(keep) + Len(last) :
             (keep \o last)[i] = IF i <= Len(keep) THEN keep[i]
                                 ELSE last[i - Len(keep)]
    <2>1. keep \in Seq(Forms) /\ last \in Seq(Forms)
      BY <1>2, <1>3
    <2> QED
      BY <2>1, ConcatProperties
  <1>6. ASSUME NEW i \in DOMAIN sent'[t]
        PROVE  \/ i \in DOMAIN sent[t] /\ sent'[t][i] = sent[t][i]
               \/ \E j \in DOMAIN forms :
                    /\ sent'[t][i] = forms[j]
                    /\ i = Len(sent'[t]) - Len(forms) + j
    <2>1. i \in 1 .. Len(keep) + Len(last) /\ Len(keep) \in Nat
      BY <1>2, <1>4, <1>5
    <2>2. CASE i <= Len(keep)
      <3>1. keep # <<>>
        BY <2>1, <2>2
      <3>2. keep = sent[t]
        BY <1>1, <3>1
      <3>3. i \in DOMAIN sent[t]
        BY <1>2, <2>1, <2>2, <3>2
      <3> QED
        BY <1>4, <1>5, <2>1, <2>2, <3>2, <3>3
    <2>3. CASE i > Len(keep)
      <3> DEFINE j == i - Len(keep) + skip
      <3>1. j \in 1 .. Len(forms) /\ i - Len(keep) \in 1 .. Len(last)
        BY <1>1, <1>3, <2>1, <2>3
      <3>2. sent'[t][i] = forms[j]
        BY <1>3, <1>4, <1>5, <2>1, <2>3, <3>1, SMTT(30)
      <3>3. i = Len(sent'[t]) - Len(forms) + j
        <4>1. Len(sent'[t]) = Len(keep) + (Len(forms) - skip)
          BY <1>3, <1>4, <1>5
        <4>2. Len(forms) \in Nat /\ skip \in Nat /\ i \in Nat
          BY <1>1, <2>1
        <4> QED
          BY <2>1, <4>1, <4>2
      <3>4. j \in DOMAIN forms
        BY <3>1
      <3> HIDE DEF j
      <3> QED
        BY <3>2, <3>3, <3>4, Zenon
    <2> QED
      BY <2>1, <2>2, <2>3
  <1>7. \A u \in Tabs : Owner(u)' = Owner(u)
    BY OwnerIsUser DEF Submit
  <1> QED
    BY <1>4, <1>5, <1>6, <1>7

(* A form that adds nothing leaves the adds as they were, or fewer.        *)
LEMMA SubmitAllows ==
  ASSUME PageShape, PageExtras, AllowedOK, NEW t \in Tabs, NEW f \in Forms,
         f.action # "add", Submit(t, <<f>>),
         \/ UNCHANGED asked
         \/ \E p \in Products : Ask(t, p)
  PROVE  /\ AllowedOK'
         /\ \A w \in Users, r \in Products : Allowed'[w][r] >= Allowed[w][r]
         /\ \A p \in Products : Ask(t, p) =>
              Allowed'[Owner(t)][p] >= Allowed[Owner(t)][p] + 1
  <1>1. /\ \A u \in Tabs \ {t} : sent'[u] = sent[u]
        /\ \A u \in Tabs : Owner(u)' = Owner(u)
        /\ \A i \in DOMAIN sent'[t] :
             \/ i \in DOMAIN sent[t] /\ sent'[t][i] = sent[t][i]
             \/ sent'[t][i] = f
    <2> DEFINE forms == <<f>>
    <2>1. forms \in Seq(Forms) /\ \A j \in DOMAIN forms : forms[j] = f
      OBVIOUS
    <2>2. Submit(t, forms)
      OBVIOUS
    <2> HIDE DEF forms
    <2>3. /\ \A u \in Tabs \ {t} : sent'[u] = sent[u]
          /\ \A u \in Tabs : Owner(u)' = Owner(u)
          /\ \A i \in DOMAIN sent'[t] :
               \/ i \in DOMAIN sent[t] /\ sent'[t][i] = sent[t][i]
               \/ \E j \in DOMAIN forms : sent'[t][i] = forms[j]
      BY <2>1, <2>2, SubmitQueues
    <2> QED
      BY <2>1, <2>3
  <1>2. ASSUME NEW w \in Users, NEW p \in Products
        PROVE  /\ IsFiniteSet(PendingAdds(w, p)')
               /\ Cardinality(PendingAdds(w, p)') <= Cardinality(PendingAdds(w, p))
               /\ Cardinality(PendingAdds(w, p)') \in Nat
               /\ Cardinality(PendingAdds(w, p)) \in Nat
    <2>1. PendingAdds(w, p)' \subseteq PendingAdds(w, p)
      BY <1>1 DEF PendingAdds
    <2>2. IsFiniteSet(PendingAdds(w, p))
      BY DEF AllowedOK
    <2> QED
      BY <2>1, <2>2, FS_Subset, FS_CardinalityType
  <1>3. \A w \in Users, p \in Products :
          /\ asked[w][p] \in Nat /\ asked'[w][p] \in Nat
          /\ asked'[w][p] >= asked[w][p]
    BY OwnerIsUser DEF PageExtras, Ask
  <1>4. \A w \in Users, p \in Products :
          w = Owner(t) /\ Ask(t, p) => asked'[w][p] = asked[w][p] + 1
    BY OwnerIsUser DEF PageExtras, Ask
  <1>5. ASSUME NEW w \in Users, NEW p \in Products
        PROVE  /\ Allowed'[w][p] \in Nat /\ Allowed'[w][p] >= Allowed[w][p]
               /\ w = Owner(t) /\ Ask(t, p) =>
                    Allowed'[w][p] >= Allowed[w][p] + 1
    <2> DEFINE m == Cardinality(PendingAdds(w, p))
               n == Cardinality(PendingAdds(w, p)')
    <2>1. m \in Nat /\ n \in Nat /\ n <= m
      BY <1>2
    <2>2. Allowed[w][p] = asked[w][p] - m /\ Allowed'[w][p] = asked'[w][p] - n
      BY DEF Allowed
    <2>3. Allowed[w][p] \in Nat
      BY DEF AllowedOK
    <2> HIDE DEF m, n
    <2> QED
      BY <1>3, <1>4, <2>1, <2>2, <2>3
  <1> QED
    BY <1>2, <1>5, OwnerIsUser DEF AllowedOK

(* The two forms of the add button ask for one unit and add one.           *)
LEMMA AddAllows ==
  ASSUME PageShape, PageExtras, AllowedOK, NEW t \in Tabs, NEW p \in Products,
         Submit(t, AddForms(p)), Ask(t, p)
  PROVE  /\ AllowedOK'
         /\ \A w \in Users, r \in Products : Allowed'[w][r] >= Allowed[w][r]
  <1> DEFINE a == <<t, Len(sent'[t])>>
  <1>1. AddForms(p) \in Seq(Forms) /\ Len(AddForms(p)) = 2
    <2>1. Form("add", Undefined, 1, 0) \in Forms /\ Form("add", p, 1, 1) \in Forms
      BY FormsAreForms, PageAssumption, CartAssumption
    <2> QED
      BY <2>1 DEF AddForms
  <1>2. /\ sent'[t] \in Seq(Forms)
        /\ \A u \in Tabs \ {t} : sent'[u] = sent[u]
        /\ \A u \in Tabs : Owner(u)' = Owner(u)
        /\ \A i \in DOMAIN sent'[t] :
             \/ i \in DOMAIN sent[t] /\ sent'[t][i] = sent[t][i]
             \/ \E j \in {1, 2} : /\ sent'[t][i] = AddForms(p)[j]
                                  /\ i = Len(sent'[t]) - 2 + j
    <2>1. /\ sent'[t] \in Seq(Forms)
          /\ \A u \in Tabs \ {t} : sent'[u] = sent[u]
          /\ \A u \in Tabs : Owner(u)' = Owner(u)
          /\ \A i \in DOMAIN sent'[t] :
               \/ i \in DOMAIN sent[t] /\ sent'[t][i] = sent[t][i]
               \/ \E j \in DOMAIN AddForms(p) :
                    /\ sent'[t][i] = AddForms(p)[j]
                    /\ i = Len(sent'[t]) - Len(AddForms(p)) + j
      BY <1>1, SubmitQueues
    <2>2. DOMAIN AddForms(p) = {1, 2}
      BY <1>1
    <2> QED
      BY <1>1, <2>1, <2>2
  <1>3. /\ AddForms(p)[1].product = Undefined
        /\ AddForms(p)[2].product = p
        /\ Undefined \notin Products
    BY PageAssumption DEF AddForms, Form, PageAssumption
  <1>4. ASSUME NEW w \in Users, NEW r \in Products
        PROVE  PendingAdds(w, r)' \subseteq
                 IF w = Owner(t) /\ r = p THEN PendingAdds(w, r) \cup {a}
                 ELSE PendingAdds(w, r)
    <2> SUFFICES ASSUME NEW b \in PendingAdds(w, r)', b \notin PendingAdds(w, r)
                 PROVE  w = Owner(t) /\ r = p /\ b = a
      OBVIOUS
    <2>1. /\ b = <<b[1], b[2]>> /\ b[1] \in Tabs /\ b[2] \in Nat
          /\ b[2] \in DOMAIN sent'[b[1]]
          /\ sent'[b[1]][b[2]].action = "add"
          /\ sent'[b[1]][b[2]].product = r
          /\ Owner(b[1]) = w
      BY <1>2 DEF PendingAdds
    <2>2. b[1] = t
      BY <1>2, <2>1 DEF PendingAdds
    <2>3. ~(b[2] \in DOMAIN sent[t] /\ sent'[t][b[2]] = sent[t][b[2]])
      BY <2>1, <2>2 DEF PendingAdds
    <2>4. PICK j \in {1, 2} : /\ sent'[t][b[2]] = AddForms(p)[j]
                              /\ b[2] = Len(sent'[t]) - 2 + j
      BY <1>2, <2>1, <2>2, <2>3
    <2>5. j = 2 /\ w = Owner(t) /\ r = p
      BY <1>3, <2>1, <2>2, <2>4
    <2>6. b[2] = Len(sent'[t])
      <3>1. Len(sent'[t]) \in Nat
        BY <1>2
      <3> QED
        BY <2>4, <2>5, <3>1
    <2> QED
      BY <2>1, <2>2, <2>5, <2>6
  <1> HIDE DEF a
  <1>5. ASSUME NEW w \in Users, NEW r \in Products
        PROVE  /\ IsFiniteSet(PendingAdds(w, r)')
               /\ Cardinality(PendingAdds(w, r)') \in Nat
               /\ Cardinality(PendingAdds(w, r)) \in Nat
               /\ Cardinality(PendingAdds(w, r)') <=
                    IF w = Owner(t) /\ r = p THEN Cardinality(PendingAdds(w, r)) + 1
                    ELSE Cardinality(PendingAdds(w, r))
    <2>1. IsFiniteSet(PendingAdds(w, r)) /\ Cardinality(PendingAdds(w, r)) \in Nat
      BY FS_CardinalityType DEF AllowedOK
    <2>2. /\ IsFiniteSet(PendingAdds(w, r) \cup {a})
          /\ Cardinality(PendingAdds(w, r) \cup {a}) \in
               {Cardinality(PendingAdds(w, r)), Cardinality(PendingAdds(w, r)) + 1}
      BY <2>1, FS_AddElement
    <2>3. CASE w = Owner(t) /\ r = p
      <3>1. /\ IsFiniteSet(PendingAdds(w, r)')
            /\ Cardinality(PendingAdds(w, r)') <= Cardinality(PendingAdds(w, r) \cup {a})
        BY <1>4, <2>2, <2>3, FS_Subset
      <3>2. Cardinality(PendingAdds(w, r)') \in Nat
        BY <3>1, FS_CardinalityType
      <3> QED
        BY <2>1, <2>2, <2>3, <3>1, <3>2
    <2>4. CASE ~(w = Owner(t) /\ r = p)
      <3>1. /\ IsFiniteSet(PendingAdds(w, r)')
            /\ Cardinality(PendingAdds(w, r)') <= Cardinality(PendingAdds(w, r))
        BY <1>4, <2>1, <2>4, FS_Subset
      <3>2. Cardinality(PendingAdds(w, r)') \in Nat
        BY <3>1, FS_CardinalityType
      <3> QED
        BY <2>1, <2>4, <3>1, <3>2
    <2> QED
      BY <2>3, <2>4
  <1>6. \A w \in Users, r \in Products :
          /\ asked[w][r] \in Nat
          /\ asked'[w][r] = IF w = Owner(t) /\ r = p THEN asked[w][r] + 1 ELSE asked[w][r]
    BY OwnerIsUser DEF PageExtras, Ask
  <1>7. ASSUME NEW w \in Users, NEW r \in Products
        PROVE  Allowed'[w][r] \in Nat /\ Allowed'[w][r] >= Allowed[w][r]
    <2> DEFINE m == Cardinality(PendingAdds(w, r))
               n == Cardinality(PendingAdds(w, r)')
    <2>1. m \in Nat /\ n \in Nat /\ n <= IF w = Owner(t) /\ r = p THEN m + 1 ELSE m
      BY <1>5
    <2>2. Allowed[w][r] = asked[w][r] - m /\ Allowed'[w][r] = asked'[w][r] - n
      BY DEF Allowed
    <2>3. Allowed[w][r] \in Nat
      BY DEF AllowedOK
    <2> HIDE DEF m, n
    <2> QED
      BY <1>6, <2>1, <2>2, <2>3
  <1> QED
    BY <1>5, <1>7 DEF AllowedOK

(* A form that is received no longer waits: an 'add' may now be carried    *)
(* out.                                                                    *)
LEMMA ReceiveAllows ==
  ASSUME PageShape, PageExtras, AllowedOK, NEW t \in Tabs, Receive(t)
  PROVE  /\ AllowedOK'
         /\ \A w \in Users, r \in Products : Allowed'[w][r] >= Allowed[w][r]
         /\ \A p \in Products :
              Head(sent[t]).action = "add" /\ Head(sent[t]).product = p =>
                Allowed'[Owner(t)][p] >= Allowed[Owner(t)][p] + 1
  <1>1. /\ sent[t] \in Seq(Forms) /\ sent[t] # <<>>
        /\ sent'[t] = Tail(sent[t])
        /\ \A u \in Tabs \ {t} : sent'[u] = sent[u]
        /\ \A u \in Tabs : Owner(u)' = Owner(u)
        /\ asked' = asked
    BY OwnerIsUser DEF PageShape, Receive
  <1>2. /\ DOMAIN sent[t] = 1 .. Len(sent[t]) /\ Len(sent[t]) \in Nat \ {0}
        /\ DOMAIN sent'[t] = 1 .. Len(sent[t]) - 1
        /\ \A i \in DOMAIN sent'[t] : sent'[t][i] = sent[t][i + 1]
        /\ Head(sent[t]) = sent[t][1]
    BY <1>1
  <1>3. ASSUME NEW w \in Users, NEW p \in Products
        PROVE  /\ IsFiniteSet(PendingAdds(w, p)')
               /\ Cardinality(PendingAdds(w, p)') \in Nat
               /\ Cardinality(PendingAdds(w, p)) \in Nat
               /\ Cardinality(PendingAdds(w, p)') <=
                    IF /\ w = Owner(t) /\ Head(sent[t]).action = "add"
                       /\ Head(sent[t]).product = p
                    THEN Cardinality(PendingAdds(w, p)) - 1
                    ELSE Cardinality(PendingAdds(w, p))
    <2> DEFINE old == PendingAdds(w, p)
               rest == PendingAdds(w, p) \ {<<t, 1>>}
               h == [b \in PendingAdds(w, p)' |->
                       IF b[1] = t THEN <<t, b[2] + 1>> ELSE b]
    <2>1. ASSUME NEW b \in PendingAdds(w, p)'
          PROVE  /\ b[1] \in Tabs /\ b[2] \in Nat /\ b = <<b[1], b[2]>>
                 /\ b[2] \in DOMAIN sent'[b[1]]
                 /\ sent'[b[1]][b[2]].action = "add"
                 /\ sent'[b[1]][b[2]].product = p
                 /\ Owner(b[1]) = w
      BY <1>1 DEF PendingAdds
    <2>2. ASSUME NEW b \in PendingAdds(w, p)' PROVE h[b] \in rest
      <3>1. CASE b[1] = t
        <4>1. /\ b[2] \in 1 .. Len(sent[t]) - 1
              /\ sent[t][b[2] + 1] = sent'[t][b[2]]
          BY <1>2, <2>1, <3>1
        <4>2. b[2] + 1 \in DOMAIN sent[t] /\ b[2] + 1 # 1 /\ b[2] + 1 \in Nat
          BY <1>2, <4>1
        <4>3. <<t, b[2] + 1>> \in PendingAdds(w, p)
          BY <2>1, <3>1, <4>1, <4>2 DEF PendingAdds
        <4>4. h[b] = <<t, b[2] + 1>>
          BY <3>1
        <4> QED
          BY <4>2, <4>3, <4>4
      <3>2. CASE b[1] # t
        <4>1. b \in PendingAdds(w, p)
          BY <1>1, <2>1, <3>2 DEF PendingAdds
        <4>2. h[b] = b /\ b # <<t, 1>>
          BY <2>1, <3>2
        <4> QED
          BY <4>1, <4>2
      <3> QED
        BY <3>1, <3>2
    <2>3. ASSUME NEW b \in PendingAdds(w, p)', NEW c \in PendingAdds(w, p)', h[b] = h[c]
          PROVE  b = c
      <3>1. h[b][1] = b[1] /\ h[c][1] = c[1]
        BY <2>1
      <3>2. b[1] = c[1]
        BY <2>3, <3>1
      <3>3. CASE b[1] = t
        <4>1. b[2] + 1 = c[2] + 1
          BY <2>3, <3>2, <3>3
        <4> QED
          BY <2>1, <3>2, <4>1
      <3>4. CASE b[1] # t
        BY <2>3, <3>2, <3>4
      <3> QED
        BY <3>3, <3>4
    <2>4. h \in Injection(PendingAdds(w, p)', rest)
      <3>1. h \in [PendingAdds(w, p)' -> rest]
        BY <2>2
      <3>2. IsInjective(h)
        BY <2>3 DEF IsInjective
      <3> QED
        BY <3>1, <3>2 DEF Injection
    <2>5. /\ IsFiniteSet(old) /\ IsFiniteSet(rest) /\ Cardinality(old) \in Nat
          /\ Cardinality(rest) = IF <<t, 1>> \in old THEN Cardinality(old) - 1
                                 ELSE Cardinality(old)
      BY FS_RemoveElement, FS_CardinalityType DEF AllowedOK
    <2> HIDE DEF rest, h
    <2>6. /\ IsFiniteSet(PendingAdds(w, p)')
          /\ Cardinality(PendingAdds(w, p)') <= Cardinality(rest)
      BY <2>4, <2>5, FS_Injection
    <2>7. Cardinality(PendingAdds(w, p)') \in Nat
      BY <2>6, FS_CardinalityType
    <2>8. /\ w = Owner(t) /\ Head(sent[t]).action = "add"
          /\ Head(sent[t]).product = p
          => <<t, 1>> \in old
      BY <1>2 DEF PendingAdds
    <2> HIDE DEF old
    <2> QED
      BY <2>5, <2>6, <2>7, <2>8 DEF old
  <1>4. ASSUME NEW w \in Users, NEW p \in Products
        PROVE  /\ Allowed'[w][p] \in Nat /\ Allowed'[w][p] >= Allowed[w][p]
               /\ /\ w = Owner(t) /\ Head(sent[t]).action = "add"
                  /\ Head(sent[t]).product = p
                  => Allowed'[w][p] >= Allowed[w][p] + 1
    <2> DEFINE m == Cardinality(PendingAdds(w, p))
               n == Cardinality(PendingAdds(w, p)')
    <2>1. /\ m \in Nat /\ n \in Nat /\ asked[w][p] \in Nat
          /\ n <= IF /\ w = Owner(t) /\ Head(sent[t]).action = "add"
                       /\ Head(sent[t]).product = p
                  THEN m - 1 ELSE m
      BY <1>3 DEF PageExtras
    <2>2. Allowed[w][p] = asked[w][p] - m /\ Allowed'[w][p] = asked[w][p] - n
      BY <1>1 DEF Allowed
    <2>3. Allowed[w][p] \in Nat
      BY DEF AllowedOK
    <2> HIDE DEF m, n
    <2> QED
      BY <2>1, <2>2, <2>3
  <1> QED
    BY <1>3, <1>4, OwnerIsUser DEF AllowedOK

-----------------------------------------------------------------------------
(* No quantity anywhere exceeds what its user has asked for: not in the    *)
(* table, in the PHP variables of a request, on a page, or in a form that  *)
(* is on its way.                                                          *)
LinesAsked ==
  \A i \in interazioni : i.product \in Products =>
    carrelli[i.cart] <= Allowed[i.user][i.product]

WorkAsked ==
  \A s \in Sessions : work[s].product \in Products =>
    /\ pc[s] \in {"add_increase", "add_cart", "update_quantity"} =>
         work[s].quantity <= Allowed[UserOf[s]][work[s].product]
    /\ pc[s] = "add_line" =>
         carrelli[work[s].cart] <= Allowed[UserOf[s]][work[s].product]

PagesAsked ==
  \A t \in Tabs : page[t].kind \in {"cart", "product"} =>
    \A p \in Products : page[t].quantity[p] <= Allowed[Owner(t)][p]

FormWithin(f, allowed) ==
  /\ f.action = "add" => f.quantity = 1
  /\ f.action = "update" /\ f.product \in Products =>
       EffectiveQuantity(f.quantity) <= allowed[f.product]

FormsAsked == \A t \in Tabs : \A i \in DOMAIN sent[t] :
  FormWithin(sent[t][i], Allowed[Owner(t)])

UnitsOK ==
  AllowedOK /\ LinesAsked /\ WorkAsked /\ PagesAsked /\ FormsAsked

(* Asking for more never makes a quantity too large.                       *)
LEMMA ServerAllowed ==
  ASSUME IInv, AllowedOK, AllowedOK', LinesAsked, WorkAsked,
         UNCHANGED <<carrelli, interazioni, pc, work>>,
         \A w \in Users, r \in Products : Allowed'[w][r] >= Allowed[w][r]
  PROVE  LinesAsked' /\ WorkAsked'
  <1>1. \A w \in Users, p \in Products :
          Allowed[w][p] \in Nat /\ Allowed'[w][p] \in Nat
    BY DEF AllowedOK
  <1>2. \A i \in interazioni : carrelli[i.cart] \in Nat /\ i.user \in Users
    BY DEF IInv, TypeOK, LinesHaveCarts, Lines
  <1>3. LinesAsked'
    BY <1>1, <1>2 DEF LinesAsked
  <1>4. ASSUME NEW s \in Sessions
        PROVE  /\ work[s].quantity \in Int
               /\ pc[s] = "add_line" => carrelli[work[s].cart] \in Nat
    BY DEF IInv, TypeOK, Rows, NewCartIsPrivate
  <1>5. WorkAsked'
    <2> SUFFICES ASSUME NEW s \in Sessions, work[s].product \in Products
                 PROVE  /\ pc[s] \in {"add_increase", "add_cart", "update_quantity"} =>
                             work[s].quantity <= Allowed'[UserOf[s]][work[s].product]
                        /\ pc[s] = "add_line" =>
                             carrelli[work[s].cart] <= Allowed'[UserOf[s]][work[s].product]
      BY DEF WorkAsked
    <2> DEFINE a == Allowed[UserOf[s]][work[s].product]
               b == Allowed'[UserOf[s]][work[s].product]
    <2>1. a \in Nat /\ b \in Nat /\ b >= a
      BY <1>1, CartAssumption DEF CartAssumption
    <2>2. /\ pc[s] \in {"add_increase", "add_cart", "update_quantity"} =>
               work[s].quantity <= a
          /\ pc[s] = "add_line" => carrelli[work[s].cart] <= a
      BY DEF WorkAsked
    <2> HIDE DEF a, b
    <2>3. /\ pc[s] \in {"add_increase", "add_cart", "update_quantity"} =>
               work[s].quantity <= b
          /\ pc[s] = "add_line" => carrelli[work[s].cart] <= b
      BY <1>4, <2>1, <2>2
    <2> QED
      BY <2>3 DEF b
  <1> QED
    BY <1>3, <1>5

(* The same of the forms that stay in a queue.                             *)
LEMMA FormAllowed ==
  ASSUME AllowedOK, AllowedOK',
         \A w \in Users, r \in Products : Allowed'[w][r] >= Allowed[w][r],
         NEW w \in Users, NEW f \in Forms, FormWithin(f, Allowed[w])
  PROVE  FormWithin(f, Allowed'[w])
  <1> SUFFICES ASSUME f.action = "update", f.product \in Products
               PROVE  EffectiveQuantity(f.quantity) <= Allowed'[w][f.product]
    BY DEF FormWithin, EffectiveQuantity
  <1> DEFINE a == Allowed[w][f.product]
             b == Allowed'[w][f.product]
             e == EffectiveQuantity(f.quantity)
  <1>1. e \in Int
    BY DEF EffectiveQuantity, Forms
  <1>2. e <= a
    BY DEF FormWithin
  <1>3. a \in Nat /\ b \in Nat /\ b >= a
    BY DEF AllowedOK
  <1> HIDE DEF a, b, e
  <1>4. e <= b
    BY <1>1, <1>2, <1>3
  <1> QED
    BY <1>4 DEF b, e

(* A click: what it submits and shows is within what has been asked for.   *)
LEMMA ClickAsked ==
  ASSUME IInv, PageShape, UnitsOK, NEW t \in Tabs, NEW forms \in Seq(Forms),
         Submit(t, forms), AllowedOK',
         \A w \in Users, r \in Products : Allowed'[w][r] >= Allowed[w][r],
         \A j \in DOMAIN forms : FormWithin(forms[j], Allowed'[Owner(t)]),
         PagesAsked'
  PROVE  UnitsOK'
  <1>1. UNCHANGED <<carrelli, interazioni, pc, work>>
    BY DEF Submit, vars
  <1>2. LinesAsked' /\ WorkAsked'
    BY <1>1, ServerAllowed DEF UnitsOK
  <1>3. ASSUME NEW u \in Tabs, NEW i \in DOMAIN sent'[u]
        PROVE  FormWithin(sent'[u][i], Allowed'[Owner(u)])
    <2>1. ASSUME i \in DOMAIN sent[u], sent'[u][i] = sent[u][i]
          PROVE  FormWithin(sent'[u][i], Allowed'[Owner(u)])
      <3>1. sent[u][i] \in Forms
        BY <2>1 DEF PageShape
      <3>2. FormWithin(sent[u][i], Allowed[Owner(u)])
        BY <2>1 DEF UnitsOK, FormsAsked
      <3> QED
        BY <2>1, <3>1, <3>2, FormAllowed, OwnerIsUser DEF UnitsOK
    <2>2. CASE u # t
      BY <1>3, <2>1, <2>2, SubmitQueues
    <2>3. CASE u = t
      <3>1. \/ i \in DOMAIN sent[u] /\ sent'[u][i] = sent[u][i]
            \/ \E j \in DOMAIN forms : sent'[u][i] = forms[j]
        BY <1>3, <2>3, SubmitQueues
      <3> QED
        BY <2>1, <2>3, <3>1
    <2> QED
      BY <2>2, <2>3
  <1>4. FormsAsked'
    BY <1>3, SubmitQueues DEF FormsAsked
  <1> QED
    BY <1>2, <1>4 DEF UnitsOK

(* The fields of a form.                                                   *)
LEMMA FormFields ==
  ASSUME NEW a, NEW p, NEW q, NEW d
  PROVE  /\ Form(a, p, q, d).action = a
         /\ Form(a, p, q, d).product = p
         /\ Form(a, p, q, d).quantity = q
         /\ Form(a, p, q, d).by = d
  BY DEF Form

(* What a page shows stays within what has been asked for.                 *)
LEMMA PagesAllowed ==
  ASSUME PageShape, AllowedOK, AllowedOK', PagesAsked,
         \A w \in Users, r \in Products : Allowed'[w][r] >= Allowed[w][r],
         NEW u \in Tabs, page'[u] = page[u], page[u].kind \in {"cart", "product"},
         NEW r \in Products
  PROVE  page'[u].quantity[r] <= Allowed'[Owner(u)][r]
  <1>1. page[u].quantity[r] \in Nat
    BY DEF PageShape, Pages
  <1>2. /\ Allowed[Owner(u)][r] \in Nat /\ Allowed'[Owner(u)][r] \in Nat
        /\ Allowed'[Owner(u)][r] >= Allowed[Owner(u)][r]
    BY OwnerIsUser DEF AllowedOK
  <1>3. page[u].quantity[r] <= Allowed[Owner(u)][r]
    BY DEF PagesAsked
  <1> QED
    BY <1>1, <1>2, <1>3

(* One form of a page that keeps its quantities.                           *)
LEMMA OneFormAsked ==
  ASSUME IInv, PageShape, PageExtras, UnitsOK, NEW t \in Tabs,
         NEW f \in Forms, f.action # "add", Submit(t, <<f>>),
         UNCHANGED asked \/ (\E p \in Products : Ask(t, p)),
         FormWithin(f, Allowed'[Owner(t)]),
         \A u \in Tabs \ {t} : page'[u] = page[u],
         page'[t].kind \in {"cart", "product"} =>
           \A r \in Products : page'[t].quantity[r] <= Allowed'[Owner(t)][r]
  PROVE  UnitsOK'
  <1>1. AllowedOK' /\ \A w \in Users, r \in Products : Allowed'[w][r] >= Allowed[w][r]
    BY SubmitAllows DEF UnitsOK
  <1>2. PagesAsked'
    BY <1>1, PagesAllowed, OwnerIsUser DEF UnitsOK, PagesAsked, Submit
  <1> DEFINE forms == <<f>>
  <1>3. /\ forms \in Seq(Forms) /\ Submit(t, forms)
        /\ \A j \in DOMAIN forms : FormWithin(forms[j], Allowed'[Owner(t)])
    OBVIOUS
  <1> HIDE DEF forms
  <1> QED
    BY <1>1, <1>2, <1>3, ClickAsked

(* Minus, plus and remove in a row of the cart page: the row shows at      *)
(* least one unit, so that one less is no more than what it shows.         *)
LEMMA CartButtonsAsked ==
  ASSUME IInv, PageShape, PageExtras, UnitsOK, NEW t \in Tabs, CartButtons(t)
  PROVE  UnitsOK'
  <1>1. page[t] \in Pages /\ page[t].kind = "cart" /\ page' = page
    BY DEF PageShape, CartButtons
  <1>2. PICK p \in page[t].rows :
          LET q == page[t].quantity[p] IN
          \/ Submit(t, <<Form("update", p, q - 1, -1)>>) /\ UNCHANGED asked
          \/ Submit(t, <<Form("update", p, q + 1, 1)>>) /\ Ask(t, p)
          \/ Submit(t, <<Form("remove", p, 1, 0)>>) /\ UNCHANGED asked
    BY DEF CartButtons
  <1> DEFINE q == page[t].quantity[p]
  <1>3. p \in Products /\ q \in Nat /\ q > 0
    BY <1>1, <1>2 DEF Pages, PageExtras, RowsAreMerged
  <1>4. q <= Allowed[Owner(t)][p] /\ Allowed[Owner(t)][p] \in Nat
    BY <1>1, <1>3, OwnerIsUser DEF UnitsOK, PagesAsked, AllowedOK
  <1>5. ASSUME AllowedOK', \A w \in Users, r \in Products : Allowed'[w][r] >= Allowed[w][r]
        PROVE  \A r \in Products : page'[t].quantity[r] <= Allowed'[Owner(t)][r]
    BY <1>1, <1>5, PagesAllowed DEF UnitsOK
  <1> HIDE DEF q
  <1>6. ASSUME NEW a \in {"update", "remove"}, NEW n \in Int, NEW d \in {-1, 0, 1},
               Submit(t, <<Form(a, p, n, d)>>), UNCHANGED asked \/ Ask(t, p),
               a = "update" => EffectiveQuantity(n) <= Allowed'[Owner(t)][p]
        PROVE  UnitsOK'
    <2> DEFINE f == Form(a, p, n, d)
    <2>1. f \in Forms
      BY <1>3, FormsAreForms, PageAssumption, CartAssumption
    <2>2. /\ f.action = a /\ f.product = p /\ f.quantity = n
          /\ f.action # "add"
      BY DEF Form
    <2>3. Submit(t, <<f>>)
      BY <1>6
    <2> HIDE DEF f
    <2>4. AllowedOK' /\ \A w \in Users, r \in Products : Allowed'[w][r] >= Allowed[w][r]
      BY <1>3, <1>6, <2>1, <2>2, <2>3, SubmitAllows DEF UnitsOK
    <2>5. FormWithin(f, Allowed'[Owner(t)])
      BY <1>6, <2>2 DEF FormWithin
    <2>6. UNCHANGED asked \/ (\E r \in Products : Ask(t, r))
      BY <1>3, <1>6
    <2> QED
      BY <1>1, <1>5, <2>1, <2>2, <2>3, <2>4, <2>5, <2>6, OneFormAsked
  <1>7. ASSUME NEW n \in Int, NEW d \in {-1, 0, 1},
               Submit(t, <<Form("update", p, n, d)>>),
               UNCHANGED asked \/ Ask(t, p)
        PROVE  /\ Allowed'[Owner(t)][p] \in Nat
               /\ Allowed'[Owner(t)][p] >= Allowed[Owner(t)][p]
               /\ Ask(t, p) => Allowed'[Owner(t)][p] >= Allowed[Owner(t)][p] + 1
    <2> DEFINE f == Form("update", p, n, d)
    <2>1. f \in Forms /\ f.action # "add" /\ Submit(t, <<f>>)
      BY <1>3, <1>7, FormsAreForms, PageAssumption, CartAssumption DEF Form
    <2> HIDE DEF f
    <2> QED
      BY <1>3, <1>7, <2>1, SubmitAllows, OwnerIsUser DEF UnitsOK, AllowedOK
  <1>8. CASE Submit(t, <<Form("update", p, q - 1, -1)>>) /\ UNCHANGED asked
    <2>1. /\ q - 1 \in Int /\ Allowed'[Owner(t)][p] \in Nat
          /\ Allowed'[Owner(t)][p] >= Allowed[Owner(t)][p]
      <3>1. q - 1 \in Int /\ -1 \in {-1, 0, 1}
        BY <1>3
      <3> QED
        BY <1>7, <1>8, <3>1, Zenon
    <2>2. EffectiveQuantity(q - 1) <= Allowed'[Owner(t)][p]
      BY <1>3, <1>4, <2>1 DEF EffectiveQuantity
    <2> QED
      <3>1. -1 \in {-1, 0, 1} /\ "update" \in {"update", "remove"}
        OBVIOUS
      <3> QED
        BY <1>6, <1>8, <2>1, <2>2, <3>1, Zenon
  <1>9. CASE Submit(t, <<Form("update", p, q + 1, 1)>>) /\ Ask(t, p)
    <2>1. /\ q + 1 \in Int /\ Allowed'[Owner(t)][p] \in Nat
          /\ Allowed'[Owner(t)][p] >= Allowed[Owner(t)][p] + 1
      <3>1. q + 1 \in Int /\ 1 \in {-1, 0, 1}
        BY <1>3
      <3> QED
        BY <1>7, <1>9, <3>1, Zenon
    <2>2. EffectiveQuantity(q + 1) <= Allowed'[Owner(t)][p]
      BY <1>3, <1>4, <2>1 DEF EffectiveQuantity
    <2> QED
      <3>1. 1 \in {-1, 0, 1} /\ "update" \in {"update", "remove"}
        OBVIOUS
      <3> QED
        BY <1>6, <1>9, <2>1, <2>2, <3>1, Zenon
  <1>10. CASE Submit(t, <<Form("remove", p, 1, 0)>>) /\ UNCHANGED asked
    <2>1. /\ 0 \in {-1, 0, 1} /\ "remove" \in {"update", "remove"} /\ 1 \in Int
          /\ "remove" # "update"
      OBVIOUS
    <2> QED
      BY <1>6, <1>10, <2>1, Zenon
  <1> QED
    BY <1>2, <1>8, <1>9, <1>10, Zenon DEF q

(* The checkout button posts no quantity.                                  *)
LEMMA CheckoutButtonAsked ==
  ASSUME IInv, PageShape, PageExtras, UnitsOK, NEW t \in Tabs, CheckoutButton(t)
  PROVE  UnitsOK'
  <1> DEFINE f == Form("checkout", Undefined, 1, 0)
  <1>1. f \in Forms /\ f.action = "checkout"
    <2>1. 1 \in Int /\ 0 \in {-1, 0, 1} /\ "checkout" \in {"add", "update", "remove", "checkout"}
      OBVIOUS
    <2> QED
      BY <2>1, FormsAreForms, FormFields, PageAssumption, CartAssumption
  <1>2. Submit(t, <<f>>) /\ UNCHANGED <<page, asked>>
    BY DEF CheckoutButton
  <1> HIDE DEF f
  <1>3. AllowedOK' /\ \A w \in Users, r \in Products : Allowed'[w][r] >= Allowed[w][r]
    BY <1>1, <1>2, SubmitAllows DEF UnitsOK
  <1>4. FormWithin(f, Allowed'[Owner(t)])
    BY <1>1 DEF FormWithin
  <1>5. page'[t].kind \in {"cart", "product"} =>
          \A r \in Products : page'[t].quantity[r] <= Allowed'[Owner(t)][r]
    BY <1>2, <1>3, PagesAllowed DEF UnitsOK
  <1> QED
    BY <1>1, <1>2, <1>4, <1>5, OneFormAsked

(* Minus, plus and remove on the page of a product that is in the cart.    *)
LEMMA QuantityButtonsAsked ==
  ASSUME IInv, PageShape, PageExtras, UnitsOK, NEW t \in Tabs, QuantityButtons(t)
  PROVE  UnitsOK'
  <1> DEFINE p == page[t].product
             n == page[t].quantity[p]
  <1>1. /\ page[t] \in Pages /\ page[t].kind = "product"
        /\ p \in Products /\ n \in Nat /\ n > 0 /\ page \in [Tabs -> Pages]
    BY DEF PageShape, QuantityButtons, Pages
  <1>2. n <= Allowed[Owner(t)][p] /\ Allowed[Owner(t)][p] \in Nat
    BY <1>1, OwnerIsUser DEF UnitsOK, PagesAsked, AllowedOK
  <1>3. CASE Submit(t, <<Form("remove", p, 1, 0)>>) /\ UNCHANGED <<page, asked>>
    <2> DEFINE f == Form("remove", p, 1, 0)
    <2>1. f \in Forms /\ f.action = "remove"
      BY <1>1, FormsAreForms, FormFields, PageAssumption, CartAssumption
    <2>2. Submit(t, <<f>>)
      BY <1>3
    <2> HIDE DEF f
    <2>3. AllowedOK' /\ \A w \in Users, r \in Products : Allowed'[w][r] >= Allowed[w][r]
      BY <1>3, <2>1, <2>2, SubmitAllows DEF UnitsOK
    <2>4. FormWithin(f, Allowed'[Owner(t)])
      BY <2>1 DEF FormWithin
    <2>5. \A r \in Products : page'[t].quantity[r] <= Allowed'[Owner(t)][r]
      BY <1>1, <1>3, <2>3, PagesAllowed DEF UnitsOK
    <2> QED
      BY <1>3, <2>1, <2>2, <2>4, <2>5, OneFormAsked
  <1>4. ASSUME NEW d \in {-1, 1}, NEW q, q = EffectiveQuantity(n + d),
               page' = [page EXCEPT ![t] = WithQuantity(page[t], p, q)],
               Submit(t, <<Form("update", p, q, d)>>),
               IF d = 1 THEN Ask(t, p) ELSE UNCHANGED asked
        PROVE  UnitsOK'
    <2> DEFINE f == Form("update", p, q, d)
    <2>1. q \in Nat /\ q >= 1
      BY <1>1, <1>4, ShownQuantityPositive
    <2>2. /\ f \in Forms /\ f.action = "update" /\ f.product = p
          /\ f.quantity = q
      BY <1>1, <1>4, <2>1, FormsAreForms, FormFields, PageAssumption, CartAssumption
    <2>3. Submit(t, <<f>>)
      BY <1>4
    <2> HIDE DEF f
    <2>4. /\ AllowedOK' /\ \A w \in Users, r \in Products : Allowed'[w][r] >= Allowed[w][r]
          /\ Ask(t, p) => Allowed'[Owner(t)][p] >= Allowed[Owner(t)][p] + 1
      BY <1>1, <1>4, <2>2, <2>3, SubmitAllows DEF UnitsOK
    <2>5. Allowed'[Owner(t)][p] \in Nat /\ Allowed'[Owner(t)][p] >= Allowed[Owner(t)][p]
      BY <1>1, <2>4, OwnerIsUser DEF AllowedOK
    <2> HIDE DEF n
    <2>6. q <= Allowed'[Owner(t)][p]
      <3>1. CASE d = 1
        <4>1. Allowed'[Owner(t)][p] >= Allowed[Owner(t)][p] + 1
          BY <1>4, <2>4, <3>1
        <4> QED
          BY <1>1, <1>2, <1>4, <2>5, <3>1, <4>1 DEF EffectiveQuantity
      <3>2. CASE d = -1
        BY <1>1, <1>2, <1>4, <2>5, <3>2 DEF EffectiveQuantity
      <3> QED
        BY <3>1, <3>2
    <2>7. FormWithin(f, Allowed'[Owner(t)])
      BY <2>1, <2>2, <2>6 DEF FormWithin, EffectiveQuantity
    <2>8. ASSUME NEW r \in Products PROVE page'[t].quantity[r] <= Allowed'[Owner(t)][r]
      <3>1. page'[t] = WithQuantity(page[t], p, q)
        BY <1>1, <1>4
      <3>2. page'[t].quantity = [page[t].quantity EXCEPT ![p] = q]
        BY <1>1, <3>1 DEF WithQuantity, Pages
      <3>3. CASE r = p
        BY <1>1, <2>6, <3>2, <3>3 DEF Pages
      <3>4. CASE r # p
        <4>1. page'[t].quantity[r] = page[t].quantity[r]
          BY <1>1, <3>2, <3>4 DEF Pages
        <4>2. page[t].quantity[r] \in Nat /\ page[t].quantity[r] <= Allowed[Owner(t)][r]
          BY <1>1 DEF Pages, UnitsOK, PagesAsked
        <4>3. /\ Allowed[Owner(t)][r] \in Nat /\ Allowed'[Owner(t)][r] \in Nat
              /\ Allowed'[Owner(t)][r] >= Allowed[Owner(t)][r]
          BY <2>4, OwnerIsUser DEF UnitsOK, AllowedOK
        <4> QED
          BY <4>1, <4>2, <4>3
      <3> QED
        BY <3>3, <3>4
    <2>9. \A u \in Tabs \ {t} : page'[u] = page[u]
      BY <1>1, <1>4
    <2>10. UNCHANGED asked \/ (\E r \in Products : Ask(t, r))
      BY <1>1, <1>4
    <2> QED
      BY <2>2, <2>3, <2>7, <2>8, <2>9, <2>10, OneFormAsked
  <1> QED
    BY <1>3, <1>4 DEF QuantityButtons

(* The add button asks for the unit that the second of its forms adds.     *)
LEMMA AddButtonAsked ==
  ASSUME IInv, PageShape, PageExtras, UnitsOK, NEW t \in Tabs, AddButton(t)
  PROVE  UnitsOK'
  <1> DEFINE p == page[t].product
             forms == AddForms(p)
  <1>1. p \in Products /\ Submit(t, forms) /\ Ask(t, p) /\ page' = page
    BY DEF PageShape, AddButton
  <1>2. AllowedOK' /\ \A w \in Users, r \in Products : Allowed'[w][r] >= Allowed[w][r]
    BY <1>1, AddAllows DEF UnitsOK
  <1>3. forms \in Seq(Forms) /\ \A j \in DOMAIN forms :
          forms[j].action = "add" /\ forms[j].quantity = 1
    <2>1. Form("add", Undefined, 1, 0) \in Forms /\ Form("add", p, 1, 1) \in Forms
      BY <1>1, FormsAreForms, PageAssumption, CartAssumption
    <2> QED
      BY <2>1 DEF AddForms, Form
  <1>4. PagesAsked'
    BY <1>1, <1>2, PagesAllowed, OwnerIsUser DEF UnitsOK, PagesAsked, Submit
  <1> HIDE DEF forms
  <1>5. \A j \in DOMAIN forms : FormWithin(forms[j], Allowed'[Owner(t)])
    BY <1>3 DEF FormWithin
  <1> QED
    BY <1>1, <1>2, <1>3, <1>4, <1>5, ClickAsked

(* A page that is loaded shows quantities of the table.                    *)
LEMMA RenderedAsked ==
  ASSUME IInv, UnitsOK, NEW s \in Sessions, NEW q \in Rendered(s),
         NEW p \in Products
  PROVE  q[p] <= Allowed[UserOf[s]][p]
  <1>1. PICK k \in [InCart(s) -> DOMAIN carrelli] :
          /\ \A r \in InCart(s) : k[r] \in CartsOf(s, r)
          /\ q = [r \in Products |->
                    IF r \in InCart(s) THEN carrelli[k[r]] ELSE 0]
    BY DEF Rendered
  <1>2. CASE p \in InCart(s)
    <2>1. PICK i \in interazioni :
            i.product = p /\ i.cart = k[p] /\ i.user = UserOf[s]
      BY <1>1, <1>2 DEF CartsOf, LinesOf
    <2> QED
      BY <1>1, <1>2, <2>1 DEF UnitsOK, LinesAsked
  <1>3. CASE p \notin InCart(s)
    BY <1>1, <1>3, CartAssumption DEF UnitsOK, AllowedOK, CartAssumption
  <1> QED
    BY <1>2, <1>3

(* A page that is loaded shows quantities that were asked for.             *)
LEMMA LoadAsked ==
  ASSUME IInv, PageShape, UnitsOK, NEW t \in Tabs,
         \/ Open(t) \/ LoadCart(t) \/ LoadProduct(t)
         \/ LoadSuccess(t) \/ LoadError(t)
  PROVE  UnitsOK'
  <1>1. UNCHANGED <<carrelli, interazioni, pc, work, sent, asked, sessionOf>>
    <2>1. CASE LoadSuccess(t)
      BY <2>1 DEF LoadSuccess, ShowSuccess, Show, vars, tables
    <2>2. CASE Open(t) \/ LoadCart(t) \/ LoadProduct(t) \/ LoadError(t)
      BY <2>2 DEF Open, LoadCart, LoadProduct, LoadError, Show, vars
    <2> QED
      BY <2>1, <2>2
  <1>2. Allowed' = Allowed /\ (AllowedOK' <=> AllowedOK)
    BY <1>1 DEF Allowed, AllowedOK, PendingAdds, Owner
  <1>3. LinesAsked' /\ WorkAsked' /\ FormsAsked'
    BY <1>1, <1>2 DEF UnitsOK, LinesAsked, WorkAsked, FormsAsked, Owner
  <1>4. ASSUME NEW pg, Show(t, pg),
               pg.kind \in {"cart", "product"} =>
                 \A p \in Products : pg.quantity[p] <= Allowed[Owner(t)][p]
        PROVE  PagesAsked'
    <2>1. page' = [page EXCEPT ![t] = pg] /\ page \in [Tabs -> Pages]
      BY <1>4 DEF Show, PageShape
    <2>2. page'[t] = pg /\ \A u \in Tabs \ {t} : page'[u] = page[u]
      BY <2>1
    <2> QED
      BY <1>1, <1>2, <1>4, <2>2 DEF UnitsOK, PagesAsked, Owner
  <1>5. PagesAsked'
    <2>1. CASE Open(t)
      BY <1>1, <1>2, <2>1 DEF Open, UnitsOK, PagesAsked, Owner
    <2>2. CASE LoadCart(t)
      <3>1. PICK q \in Rendered(sessionOf[t]) :
              \E R \in Merged({p \in Products : q[p] > 0}) :
                Show(t, [kind |-> "cart", product |-> NoProduct,
                         quantity |-> q, rows |-> R])
        BY <2>2 DEF LoadCart
      <3>2. \A p \in Products : q[p] <= Allowed[Owner(t)][p]
        BY RenderedAsked DEF Owner, PageShape
      <3> QED
        BY <1>4, <3>1, <3>2
    <2>3. CASE LoadProduct(t)
      <3> DEFINE p == going[t].product
      <3>1. PICK q \in Rendered(sessionOf[t]) :
              Show(t, [kind |-> "product", product |-> p,
                       quantity |-> [Zero EXCEPT ![p] = q[p]], rows |-> {p}])
        BY <2>3 DEF LoadProduct
      <3>2. \A r \in Products : q[r] <= Allowed[Owner(t)][r] /\ Allowed[Owner(t)][r] \in Nat
        BY RenderedAsked, OwnerIsUser DEF UnitsOK, AllowedOK, Owner, PageShape
      <3>3. \A r \in Products : [Zero EXCEPT ![p] = q[p]][r] <= Allowed[Owner(t)][r]
        BY <3>2 DEF Zero
      <3> QED
        BY <1>4, <3>1, <3>3
    <2>4. CASE LoadSuccess(t) \/ LoadError(t)
      <3>1. Show(t, [Blank EXCEPT !.kind = "success"]) \/ Show(t, Blank)
        BY <2>4 DEF LoadSuccess, LoadError
      <3>2. Blank.kind = "blank" /\ [Blank EXCEPT !.kind = "success"].kind = "success"
        BY DEF Blank
      <3> QED
        BY <1>4, <3>1, <3>2
    <2> QED
      BY <2>1, <2>2, <2>3, <2>4
  <1> QED
    BY <1>2, <1>3, <1>5 DEF UnitsOK

(* A request begins with no more than its form asks for.                   *)
LEMMA ReceiveAsked ==
  ASSUME IInv, PageShape, PageExtras, UnitsOK, NEW t \in Tabs, Receive(t)
  PROVE  UnitsOK'
  <1> DEFINE s == sessionOf[t]
             f == Head(sent[t])
  <1>1. /\ sent[t] \in Seq(Forms) /\ sent[t] # <<>> /\ s \in Sessions
        /\ sent' = [sent EXCEPT ![t] = Tail(@)] /\ sent \in [Tabs -> Seq(Forms)]
        /\ page' = page /\ TypeOK /\ Owner(t) = UserOf[s]
        /\ \A u \in Tabs : Owner(u)' = Owner(u)
    BY OwnerIsUser DEF PageShape, Receive, IInv, Owner
  <1>2. /\ 1 \in DOMAIN sent[t] /\ f = sent[t][1] /\ f \in Forms
        /\ sent'[t] = Tail(sent[t]) /\ \A u \in Tabs \ {t} : sent'[u] = sent[u]
        /\ \A i \in DOMAIN Tail(sent[t]) :
             i + 1 \in DOMAIN sent[t] /\ Tail(sent[t])[i] = sent[t][i + 1]
    BY <1>1
  <1>3. FormWithin(f, Allowed[Owner(t)])
    BY <1>2 DEF UnitsOK, FormsAsked
  <1>4. /\ AllowedOK' /\ \A w \in Users, r \in Products : Allowed'[w][r] >= Allowed[w][r]
        /\ \A p \in Products :
             f.action = "add" /\ f.product = p =>
               Allowed'[UserOf[s]][p] >= Allowed[UserOf[s]][p] + 1
    BY <1>1, ReceiveAllows DEF UnitsOK
  <1>5. PagesAsked'
    BY <1>1, <1>4, PagesAllowed DEF UnitsOK, PagesAsked
  <1>6. FormsAsked'
    <2> SUFFICES ASSUME NEW u \in Tabs, NEW i \in DOMAIN sent'[u]
                 PROVE  FormWithin(sent'[u][i], Allowed'[Owner(u)])
      BY <1>1 DEF FormsAsked
    <2>1. \E j \in DOMAIN sent[u] : sent'[u][i] = sent[u][j]
      <3>1. CASE u = t
        <4>1. i \in DOMAIN Tail(sent[t]) /\ sent'[u][i] = Tail(sent[t])[i]
          BY <1>2, <3>1
        <4> QED
          BY <1>2, <3>1, <4>1
      <3>2. CASE u # t
        BY <1>2, <3>2
      <3> QED
        BY <3>1, <3>2
    <2>2. PICK j \in DOMAIN sent[u] : sent'[u][i] = sent[u][j]
      BY <2>1
    <2>3. sent[u][j] \in Forms /\ FormWithin(sent[u][j], Allowed[Owner(u)])
      BY <1>1 DEF UnitsOK, FormsAsked
    <2> QED
      BY <1>4, <2>2, <2>3, FormAllowed, OwnerIsUser DEF UnitsOK
  <1>7. CASE UNCHANGED vars
    BY <1>4, <1>5, <1>6, <1>7, ServerAllowed DEF UnitsOK, vars
  <1>8. CASE Handle(s, f)
    <2>1. carrelli' = carrelli /\ interazioni' = interazioni
      BY <1>1, <1>8, HandleStarts DEF tables
    <2>2. \A z \in Sessions \ {s} : pc'[z] = pc[z] /\ work'[z] = work[z]
      BY <1>1, <1>8, OthersKeep
    <2>3. LinesAsked'
      <3> SUFFICES ASSUME NEW i \in interazioni, i.product \in Products
                   PROVE  carrelli[i.cart] <= Allowed'[i.user][i.product]
        BY <2>1 DEF LinesAsked
      <3>1. carrelli[i.cart] \in Nat /\ carrelli[i.cart] <= Allowed[i.user][i.product]
        BY DEF UnitsOK, LinesAsked, IInv, TypeOK, LinesHaveCarts
      <3>2. /\ Allowed[i.user][i.product] \in Nat
            /\ Allowed'[i.user][i.product] \in Nat
            /\ Allowed'[i.user][i.product] >= Allowed[i.user][i.product]
        BY <1>1, <1>4 DEF UnitsOK, AllowedOK, TypeOK, Lines
      <3> QED
        BY <3>1, <3>2
    <2>4. ASSUME NEW z \in Sessions, z # s, work'[z].product \in Products
          PROVE  /\ pc'[z] \in {"add_increase", "add_cart", "update_quantity"} =>
                      work'[z].quantity <= Allowed'[UserOf[z]][work'[z].product]
                 /\ pc'[z] = "add_line" =>
                      carrelli'[work'[z].cart] <= Allowed'[UserOf[z]][work'[z].product]
      <3> DEFINE p == work[z].product
      <3>1. p \in Products /\ work'[z] = work[z] /\ pc'[z] = pc[z]
        BY <2>2, <2>4
      <3>2. /\ work[z].quantity \in Int
            /\ pc[z] = "add_line" => carrelli[work[z].cart] \in Nat
        BY DEF IInv, TypeOK, Rows, NewCartIsPrivate
      <3>3. /\ Allowed[UserOf[z]][p] \in Nat /\ Allowed'[UserOf[z]][p] \in Nat
            /\ Allowed'[UserOf[z]][p] >= Allowed[UserOf[z]][p]
        BY <1>4, <3>1, CartAssumption DEF UnitsOK, AllowedOK, CartAssumption
      <3>4. /\ pc[z] \in {"add_increase", "add_cart", "update_quantity"} =>
                 work[z].quantity <= Allowed[UserOf[z]][p]
            /\ pc[z] = "add_line" => carrelli[work[z].cart] <= Allowed[UserOf[z]][p]
        BY <3>1 DEF UnitsOK, WorkAsked
      <3> HIDE DEF p
      <3>5. /\ pc[z] \in {"add_increase", "add_cart", "update_quantity"} =>
                 work[z].quantity <= Allowed'[UserOf[z]][p]
            /\ pc[z] = "add_line" => carrelli[work[z].cart] <= Allowed'[UserOf[z]][p]
        BY <3>2, <3>3, <3>4
      <3> QED
        BY <2>1, <3>1, <3>5 DEF p
    <2>5. ASSUME work'[s].product \in Products
          PROVE  /\ pc'[s] \in {"add_increase", "add_cart", "update_quantity"} =>
                      work'[s].quantity <= Allowed'[UserOf[s]][work'[s].product]
                 /\ pc'[s] # "add_line"
      <3> DEFINE p == f.product
      <3>1. pc'[s] # "add_line"
        BY <1>1, <1>8, HandleHolds
      <3>2. SUFFICES ASSUME pc'[s] \in {"add_increase", "add_cart", "update_quantity"}
                     PROVE  work'[s].quantity <= Allowed'[UserOf[s]][work'[s].product]
        BY <3>1
      <3>3. work'[s].product = p /\ p \in Products
        BY <1>1, <1>8, <2>5, <3>2, HandleHolds
      <3>4. /\ Allowed[UserOf[s]][p] \in Nat /\ Allowed'[UserOf[s]][p] \in Nat
            /\ Allowed'[UserOf[s]][p] >= Allowed[UserOf[s]][p]
        BY <1>1, <1>4, <3>3, CartAssumption DEF UnitsOK, AllowedOK, CartAssumption
      <3>5. CASE pc'[s] = "add_increase"
        <4>1. /\ f.action = "add" /\ work'[s].cart \in CartsOf(s, p)
              /\ work'[s].quantity = carrelli[work'[s].cart] + EffectiveQuantity(f.quantity)
          BY <1>1, <1>8, <3>5, HandleHolds
        <4>2. PICK i \in interazioni : /\ i.product = p /\ i.user = UserOf[s]
                                     /\ i.cart = work'[s].cart
          BY <4>1 DEF CartsOf, LinesOf
        <4>3. /\ carrelli[work'[s].cart] \in Nat
              /\ carrelli[work'[s].cart] <= Allowed[UserOf[s]][p]
          BY <3>3, <4>2 DEF UnitsOK, LinesAsked, IInv, TypeOK, LinesHaveCarts
        <4>4. /\ EffectiveQuantity(f.quantity) = 1
              /\ Allowed'[UserOf[s]][p] >= Allowed[UserOf[s]][p] + 1
          BY <1>3, <1>4, <3>3, <4>1 DEF FormWithin, EffectiveQuantity
        <4> QED
          BY <3>3, <3>4, <4>1, <4>3, <4>4
      <3>6. CASE pc'[s] = "add_cart"
        <4>1. f.action = "add" /\ work'[s].quantity = EffectiveQuantity(f.quantity)
          BY <1>1, <1>8, <3>6, HandleHolds
        <4>2. /\ EffectiveQuantity(f.quantity) = 1
              /\ Allowed'[UserOf[s]][p] >= Allowed[UserOf[s]][p] + 1
          BY <1>3, <1>4, <3>3, <4>1 DEF FormWithin, EffectiveQuantity
        <4> QED
          BY <3>3, <3>4, <4>1, <4>2
      <3>7. CASE pc'[s] = "update_quantity"
        <4>1. f.action = "update" /\ work'[s].quantity = EffectiveQuantity(f.quantity)
          BY <1>1, <1>8, <3>7, HandleHolds
        <4>2. EffectiveQuantity(f.quantity) \in Int
          BY <1>2 DEF EffectiveQuantity, Forms
        <4>3. EffectiveQuantity(f.quantity) <= Allowed[UserOf[s]][p]
          BY <1>1, <1>3, <3>3, <4>1 DEF FormWithin
        <4> QED
          BY <3>3, <3>4, <4>1, <4>2, <4>3
      <3> QED
        BY <3>2, <3>5, <3>6, <3>7
    <2>6. WorkAsked'
      BY <2>4, <2>5 DEF WorkAsked
    <2> QED
      BY <1>4, <1>5, <1>6, <2>3, <2>6 DEF UnitsOK
  <1> QED
    BY <1>7, <1>8 DEF Receive

(* A statement writes what its request has computed.                       *)
LEMMA RunAsked ==
  ASSUME IInv, PageShape, LinesAgree, HeldLines, UnitsOK, NEW s \in Sessions, Run(s)
  PROVE  UnitsOK'
  <1>1. /\ CartStep(s) \/ CheckoutStep(s) \/ RequestDies(s)
        /\ UNCHANGED <<page, sent, asked, sessionOf>> /\ TypeOK
    BY DEF Run, Continue, Finish, CheckoutStep, IInv
  <1>2. Allowed' = Allowed /\ (AllowedOK' <=> AllowedOK)
    BY <1>1 DEF Allowed, AllowedOK, PendingAdds, Owner
  <1>3. PagesAsked' /\ FormsAsked'
    BY <1>1, <1>2 DEF UnitsOK, PagesAsked, FormsAsked, Owner
  <1>4. LinesHaveCarts'
    <2>1. [Next]_vars
      BY RunIsStep
    <2> QED
      BY <2>1, CartNextIInv DEF IInv
  <1>5. LinesAsked'
    <2> SUFFICES ASSUME NEW i \in interazioni', i.product \in Products
                 PROVE  carrelli'[i.cart] <= Allowed[i.user][i.product]
      BY <1>2 DEF LinesAsked
    <2>1. i.cart \in DOMAIN carrelli'
      BY <1>4 DEF LinesHaveCarts
    <2>2. CASE i \notin interazioni
      <3>1. /\ pc[s] = "add_line" /\ carrelli' = carrelli
            /\ i.product = work[s].product /\ i.cart = work[s].cart
            /\ i.user = UserOf[s]
        BY <1>1, <2>2, LinesComeFromAdd
      <3> QED
        BY <3>1 DEF UnitsOK, WorkAsked
    <2>3. CASE i \in interazioni
      <3>1. CASE i.cart \in DOMAIN carrelli /\ carrelli'[i.cart] = carrelli[i.cart]
        BY <2>3, <3>1 DEF UnitsOK, LinesAsked
      <3>2. CASE /\ pc[s] \in {"add_increase", "update_quantity"}
                 /\ i.cart = work[s].cart /\ carrelli'[i.cart] = work[s].quantity
        <4>1. i.product = work[s].product /\ i.user = UserOf[s]
          BY <2>3, <3>2 DEF HeldLines
        <4> QED
          BY <3>2, <4>1 DEF UnitsOK, WorkAsked
      <3>3. i.cart # nextCart
        BY <2>3 DEF IInv, TypeOK, LinesHaveCarts
      <3> QED
        BY <1>1, <2>1, <3>1, <3>2, <3>3, CartsHoldWork
    <2> QED
      BY <2>2, <2>3
  <1>6. WorkAsked'
    <2> SUFFICES ASSUME NEW z \in Sessions, work'[z].product \in Products
                 PROVE  /\ pc'[z] \in {"add_increase", "add_cart", "update_quantity"} =>
                             work'[z].quantity <= Allowed[UserOf[z]][work'[z].product]
                        /\ pc'[z] = "add_line" =>
                             carrelli'[work'[z].cart] <= Allowed[UserOf[z]][work'[z].product]
      BY <1>2 DEF WorkAsked
    <2>1. CASE z = s
      <3>1. pc'[s] \notin {"add_increase", "add_cart", "update_quantity"}
        BY <1>1, WorkGoesOn
      <3>2. pc'[s] = "add_line" =>
              /\ pc[s] = "add_cart" /\ work'[s].product = work[s].product
              /\ work'[s].cart = nextCart
              /\ carrelli'[nextCart] = work[s].quantity
        BY <1>1, WorkGoesOn
      <3> QED
        BY <2>1, <3>1, <3>2 DEF UnitsOK, WorkAsked
    <2>2. CASE z # s
      <3>1. work'[z] = work[z] /\ pc'[z] = pc[z]
        BY <1>1, <2>2, OthersKeep
      <3>2. ASSUME pc[z] = "add_line"
            PROVE  carrelli'[work[z].cart] = carrelli[work[z].cart]
        <4>1. /\ work[z].cart \in DOMAIN carrelli /\ work[s].cart # work[z].cart
              /\ work[z].cart # nextCart
          BY <2>2, <3>2 DEF IInv, NewCartIsPrivate, TypeOK
        <4>2. work[z].cart \in DOMAIN carrelli'
          <5>1. NewCartIsPrivate'
            BY RunIsStep, CartNextIInv DEF IInv
          <5> QED
            BY <3>1, <3>2, <5>1 DEF NewCartIsPrivate
        <4> QED
          BY <1>1, <4>1, <4>2, CartsHoldWork
      <3> QED
        BY <3>1, <3>2 DEF UnitsOK, WorkAsked
    <2> QED
      BY <2>1, <2>2
  <1> QED
    BY <1>2, <1>3, <1>5, <1>6 DEF UnitsOK

(* At the start there are no lines, forms or requests.                     *)
LEMMA InitAsked == PageInit => UnitsOK /\ LinesAgree /\ HeldLines
  <1> SUFFICES ASSUME PageInit PROVE UnitsOK /\ LinesAgree /\ HeldLines
    OBVIOUS
  <1>1. /\ interazioni = {} /\ asked = [u \in Users |-> Zero]
        /\ sent = [t \in Tabs |-> <<>>]
        /\ \A s \in Sessions : pc[s] = "idle"
        /\ \A t \in Tabs : page[t].kind = "blank"
    BY DEF PageInit, Init, Blank
  <1>2. \A t \in Tabs : DOMAIN sent[t] = {}
    BY <1>1
  <1>3. \A w, p : PendingAdds(w, p) = {}
    BY <1>2 DEF PendingAdds
  <1>4. AllowedOK
    <2>1. IsFiniteSet({}) /\ Cardinality({}) = 0
      BY FS_EmptySet
    <2>2. \A w \in Users, p \in Products : asked[w][p] = 0
      BY <1>1 DEF Zero
    <2>3. \A w \in Users, p \in Products : Allowed[w][p] = 0
      BY <1>3, <2>1, <2>2 DEF Allowed
    <2> QED
      BY <1>3, <2>1, <2>3 DEF AllowedOK
  <1> QED
    BY <1>1, <1>2, <1>4 DEF UnitsOK, LinesAsked, WorkAsked, PagesAsked,
       FormsAsked, LinesAgree, HeldLines

(* No cart line holds more units than its own user has asked for, for any  *)
(* number of users, tabs and clicks: although one click submits two forms, *)
(* stale pages post old quantities and forms of several tabs interleave.   *)
THEOREM PagesAddWhatWasAsked == PageSpec => []UnitsWereAskedFor
  <1> DEFINE J == IInv /\ PageShape /\ PageExtras
             K == UnitsOK /\ LinesAgree /\ HeldLines
  <1>1. PageInit => K
    BY InitAsked
  <1>2. J /\ K /\ [PageNext]_allVars => K'
    <2> SUFFICES ASSUME IInv, PageShape, PageExtras, UnitsOK, LinesAgree,
                        HeldLines, [PageNext]_allVars
                 PROVE  K'
      OBVIOUS
    <2>1. LinesAgree' /\ HeldLines'
      BY LinesAgreeNext
    <2>2. UnitsOK'
      <3>1. CASE UNCHANGED allVars
        <4>1. /\ UNCHANGED <<carrelli, interazioni, pc, work>>
              /\ UNCHANGED <<page, sent, asked, sessionOf>>
          BY <3>1 DEF allVars, pageVars, vars
        <4>2. Allowed' = Allowed /\ (AllowedOK' <=> AllowedOK)
          BY <4>1 DEF Allowed, AllowedOK, PendingAdds, Owner
        <4> QED
          BY <4>1, <4>2 DEF UnitsOK, LinesAsked, WorkAsked, PagesAsked,
             FormsAsked, Owner
      <3>2. ASSUME NEW t \in Tabs, Browse(t) PROVE UnitsOK'
        BY <3>2, LoadAsked, CartButtonsAsked, CheckoutButtonAsked,
           QuantityButtonsAsked, AddButtonAsked DEF Browse
      <3> QED
        BY <3>1, <3>2, ReceiveAsked, RunAsked DEF PageNext
    <2> QED
      BY <2>1, <2>2
  <1>3. J /\ K => UnitsWereAskedFor
    <2> SUFFICES ASSUME J, K, NEW s \in Sessions, NEW r \in CartRows(s)
                 PROVE  r.quantity <= asked[UserOf[s]][r.product]
      BY DEF UnitsWereAskedFor
    <2>1. PICK i \in interazioni :
            /\ i.user = UserOf[s]
            /\ i.product \in Products /\ i.cart \in DOMAIN carrelli
            /\ r = [product |-> i.product, cart |-> i.cart,
                    quantity |-> carrelli[i.cart]]
      BY DEF CartRows
    <2> DEFINE p == i.product
               w == UserOf[s]
    <2>2. carrelli[i.cart] \in Nat /\ carrelli[i.cart] <= Allowed[w][p]
      BY <2>1 DEF UnitsOK, LinesAsked, IInv, TypeOK
    <2>3. /\ Allowed[w][p] = asked[w][p] - Cardinality(PendingAdds(w, p))
          /\ Cardinality(PendingAdds(w, p)) \in Nat /\ asked[w][p] \in Nat
      BY <2>1, FS_CardinalityType, CartAssumption
         DEF Allowed, UnitsOK, AllowedOK, PageExtras, CartAssumption
    <2>4. r.quantity = carrelli[i.cart] /\ r.product = p
      BY <2>1
    <2> HIDE DEF p, w
    <2> QED
      BY <2>2, <2>3, <2>4 DEF w
  <1> HIDE DEF J, K
  <1>4. PageSpec => []J
    BY PagesTyped, PTL DEF J
  <1> QED
    BY <1>1, <1>2, <1>3, <1>4, PTL DEF PageSpec

-----------------------------------------------------------------------------
(* What the rows and counts of an open checkout are made of.               *)
CheckoutRows ==
  \A s \in Sessions : pc[s] \in CheckoutPcs =>
    /\ \A r \in tx[s].rows : r.product \in Products /\ r.quantity >= 1
    /\ \A p \in Products : tx[s].taken[p] >= 0
    /\ pc[s] = "take" => work[s].product \in Products /\ work[s].quantity >= 1

(* A checkout that does not end in a rollback will sell something, or has  *)
(* sold something already.                                                 *)
WillSell(open, label) ==
  \/ open.rows # {} \/ open.short \/ label = "take"
  \/ \E p \in Products : open.taken[p] > 0

(* A checkout starts with the rows of the cart.                            *)
LEMMA CheckoutStarts ==
  ASSUME TypeOK, NEW s \in Sessions, CheckoutSelect(s)
  PROVE  /\ tx'[s].rows = CartRows(s) /\ tx'[s].taken = Zero
         /\ pc'[s] = "fetch"
         /\ \A r \in CartRows(s) : r.product \in Products /\ r.quantity >= 1
  <1>1. tx \in [Sessions -> Transactions]
    BY DEF TypeOK
  <1>2. tx'[s] = [NoTx EXCEPT !.seen = stock, !.rows = CartRows(s)]
    BY <1>1 DEF CheckoutSelect, Record, CartRows
  <1>3. tx'[s].rows = CartRows(s) /\ tx'[s].taken = Zero
    BY <1>2 DEF NoTx
  <1>4. pc'[s] = "fetch"
    BY DEF CheckoutSelect, Goto, TypeOK
  <1>5. ASSUME NEW r \in CartRows(s) PROVE r.product \in Products /\ r.quantity >= 1
    <2>1. PICK i \in interazioni :
            /\ i.product \in Products /\ i.cart \in DOMAIN carrelli
            /\ r = [product |-> i.product, cart |-> i.cart,
                    quantity |-> carrelli[i.cart]]
      BY DEF CartRows
    <2>2. carrelli[i.cart] \in Nat \ {0}
      BY <2>1 DEF TypeOK
    <2> QED
      BY <2>1, <2>2
  <1> QED
    BY <1>3, <1>4, <1>5

(* A statement of a checkout that goes on: the rows that are left, the     *)
(* counts, and what it still has to do.                                    *)
LEMMA CheckoutGoesOn ==
  ASSUME TypeOK, CheckoutRows, NEW s \in Sessions,
         CartStep(s) \/ CheckoutStep(s) \/ RequestDies(s),
         pc'[s] \in CheckoutPcs
  PROVE  /\ pc[s] \in CheckoutPcs
         /\ \A r \in tx'[s].rows : r.product \in Products /\ r.quantity >= 1
         /\ \A p \in Products : tx'[s].taken[p] >= 0
         /\ pc'[s] = "take" => work'[s].product \in Products /\ work'[s].quantity >= 1
         /\ WillSell(tx[s], pc[s]) => WillSell(tx'[s], pc'[s])
  <1>1. /\ tx \in [Sessions -> Transactions] /\ pc \in [Sessions -> {"idle"} \cup CartPcs \cup CheckoutPcs]
        /\ work \in [Sessions -> Rows] /\ tx[s] \in Transactions
    BY DEF TypeOK
  <1>2. CASE FetchRow(s)
    <2>1. /\ pc[s] = "fetch"
          /\ \E r \in tx[s].rows :
               \/ /\ tx' = [tx EXCEPT ![s] = [tx[s] EXCEPT !.rows = @ \ {r}, !.short = TRUE]]
                  /\ UNCHANGED <<pc, work>>
               \/ /\ tx' = [tx EXCEPT ![s] = [tx[s] EXCEPT !.rows = @ \ {r}]]
                  /\ work' = [work EXCEPT ![s] = r]
                  /\ pc' = [pc EXCEPT ![s] = "take"]
      BY <1>2 DEF FetchRow, Record, Hold, Goto
    <2>2. PICK r \in tx[s].rows :
               \/ /\ tx' = [tx EXCEPT ![s] = [tx[s] EXCEPT !.rows = @ \ {r}, !.short = TRUE]]
                  /\ UNCHANGED <<pc, work>>
               \/ /\ tx' = [tx EXCEPT ![s] = [tx[s] EXCEPT !.rows = @ \ {r}]]
                  /\ work' = [work EXCEPT ![s] = r]
                  /\ pc' = [pc EXCEPT ![s] = "take"]
      BY <2>1
    <2>3. /\ \A q \in tx[s].rows : q.product \in Products /\ q.quantity >= 1
          /\ \A p \in Products : tx[s].taken[p] >= 0
          /\ pc[s] \in CheckoutPcs
      BY <2>1 DEF CheckoutRows, CheckoutPcs
    <2>4. CASE /\ tx' = [tx EXCEPT ![s] = [tx[s] EXCEPT !.rows = @ \ {r}, !.short = TRUE]]
               /\ UNCHANGED <<pc, work>>
      <3>1. tx'[s] = [tx[s] EXCEPT !.rows = @ \ {r}, !.short = TRUE]
        BY <1>1, <2>4
      <3>2. /\ tx'[s].rows = tx[s].rows \ {r} /\ tx'[s].short
            /\ tx'[s].taken = tx[s].taken
        BY <1>1, <3>1 DEF Transactions
      <3> QED
        BY <2>1, <2>3, <2>4, <3>2 DEF WillSell
    <2>5. CASE /\ tx' = [tx EXCEPT ![s] = [tx[s] EXCEPT !.rows = @ \ {r}]]
               /\ work' = [work EXCEPT ![s] = r]
               /\ pc' = [pc EXCEPT ![s] = "take"]
      <3>1. tx'[s] = [tx[s] EXCEPT !.rows = @ \ {r}]
        BY <1>1, <2>5
      <3>2. tx'[s].rows = tx[s].rows \ {r} /\ tx'[s].taken = tx[s].taken
        BY <1>1, <3>1 DEF Transactions
      <3>3. work'[s] = r /\ pc'[s] = "take"
        BY <1>1, <2>5
      <3> QED
        BY <2>2, <2>3, <3>2, <3>3 DEF WillSell
    <2> QED
      BY <2>2, <2>4, <2>5
  <1>3. CASE TakeStock(s)
    <2> DEFINE p == work[s].product
               n == work[s].quantity
    <2>1. /\ pc[s] = "take" /\ pc'[s] = "unlink" /\ pc[s] \in CheckoutPcs
          /\ tx'[s] = [tx[s] EXCEPT !.taken[p] = @ + n]
      BY <1>1, <1>3 DEF TakeStock, Record, Goto, CheckoutPcs
    <2>2. /\ p \in Products /\ n >= 1 /\ n \in Int
          /\ \A q \in tx[s].rows : q.product \in Products /\ q.quantity >= 1
          /\ \A q \in Products : tx[s].taken[q] >= 0 /\ tx[s].taken[q] \in Int
      BY <1>1, <2>1 DEF CheckoutRows, Rows, Transactions
    <2> HIDE DEF p, n
    <2>3. /\ tx'[s].rows = tx[s].rows
          /\ tx'[s].taken = [tx[s].taken EXCEPT ![p] = @ + n]
      BY <1>1, <2>1 DEF Transactions
    <2>4. tx[s].taken \in [Products -> Int]
      BY <1>1 DEF Transactions
    <2>5. \A q \in Products : tx'[s].taken[q] = IF q = p THEN tx[s].taken[q] + n ELSE tx[s].taken[q]
      BY <2>2, <2>3, <2>4
    <2>6. \A q \in Products : tx'[s].taken[q] >= 0
      BY <2>2, <2>5
    <2>7. tx'[s].taken[p] > 0
      BY <2>2, <2>5
    <2> QED
      BY <2>1, <2>2, <2>3, <2>6, <2>7 DEF WillSell
  <1>4. CASE UnlinkLine(s)
    <2>1. /\ pc[s] = "unlink" /\ pc'[s] = "close" /\ pc[s] \in CheckoutPcs
          /\ tx'[s] = [tx[s] EXCEPT !.unlinked = @ \cup ({work[s].cart} \cap Linked)]
      BY <1>1, <1>4 DEF UnlinkLine, Record, Goto, CheckoutPcs
    <2>2. /\ tx'[s].rows = tx[s].rows /\ tx'[s].taken = tx[s].taken
          /\ tx'[s].short = tx[s].short
      BY <1>1, <2>1 DEF Transactions
    <2> QED
      BY <2>1, <2>2 DEF CheckoutRows, WillSell
  <1>5. CASE CloseCart(s)
    <2> DEFINE c == work[s].cart
               sum == [tx[s].counted EXCEPT ![work[s].product] =
                         @ + carrelli[c]]
    <2>1. /\ pc[s] = "close" /\ pc'[s] = "fetch" /\ pc[s] \in CheckoutPcs
      BY <1>1, <1>5 DEF CloseCart, Goto, CheckoutPcs
    <2>2. \/ tx' = tx
          \/ tx' = [tx EXCEPT ![s] = [tx[s] EXCEPT !.closed = @ \cup {c},
                                                   !.counted = sum]]
      BY <1>5, ZenonT(40) DEF CloseCart, Record
    <2> HIDE DEF sum
    <2>3. \/ tx'[s] = tx[s]
          \/ tx'[s] = [tx[s] EXCEPT !.closed = @ \cup {c}, !.counted = sum]
      BY <1>1, <2>2
    <2>4. /\ tx'[s].rows = tx[s].rows /\ tx'[s].taken = tx[s].taken
          /\ tx'[s].short = tx[s].short
      BY <1>1, <2>3 DEF Transactions
    <2> QED
      BY <2>1, <2>4 DEF CheckoutRows, WillSell
  <1>6. ASSUME CartStep(s) PROVE FALSE
    <2>1. pc[s] \notin CheckoutPcs /\ pc'[s] \notin CheckoutPcs
      BY <1>1, <1>6 DEF CartStep, AddIncrease, UpdateQuantity, WriteQuantity,
         AddCart, AddLine, RemoveLine, RemoveCart, Goto, CheckoutPcs
    <2> QED
      BY <2>1
  <1>7. ASSUME \/ Commit(s) \/ RollbackOutOfStock(s) \/ CheckoutException(s)
               \/ RequestDies(s)
        PROVE  FALSE
    <2>1. pc'[s] = "idle"
      BY <1>1, <1>7 DEF Commit, RollbackOutOfStock, CheckoutException,
         RequestDies, EndCheckout, Goto
    <2> QED
      BY <2>1 DEF CheckoutPcs
  <1> QED
    BY <1>2, <1>3, <1>4, <1>5, <1>6, <1>7 DEF CheckoutStep

-----------------------------------------------------------------------------
(* A tab only waits for the answer of its forms while one is on its way,   *)
(* or its request runs.                                                    *)
NothingElseWaits ==
  \A t \in Tabs : going[t].kind # "answer" =>
    sent[t] = <<>> /\ \A s \in Sessions : turn[s].tab # t

(* Clicks submit forms and wait; the tables do not change.                 *)
ClickOf(t) ==
  CartButtons(t) \/ CheckoutButton(t) \/ QuantityButtons(t) \/ AddButton(t)

LoadOf(t) ==
  Open(t) \/ LoadCart(t) \/ LoadProduct(t) \/ LoadSuccess(t) \/ LoadError(t)

(* A click submits forms of a page that has some, and changes no other page. *)
LEMMA ClickSubmits ==
  ASSUME PageShape, NEW t \in Tabs, ClickOf(t)
  PROVE  /\ \E forms : Submit(t, forms)
         /\ page[t].kind \in {"cart", "product"}
         /\ \A u \in Tabs \ {t} : page'[u] = page[u]
  <1> USE DEF PageShape
  <1>1. CASE CartButtons(t)
    BY <1>1 DEF CartButtons
  <1>2. CASE CheckoutButton(t)
    BY <1>2 DEF CheckoutButton
  <1>3. CASE QuantityButtons(t)
    BY <1>3 DEF QuantityButtons
  <1>4. CASE AddButton(t)
    BY <1>4 DEF AddButton
  <1> QED
    BY <1>1, <1>2, <1>3, <1>4 DEF ClickOf

(* A tab that loads a page did not wait for a form.                        *)
LEMMA LoadMoves ==
  ASSUME PageShape, NEW t \in Tabs, LoadOf(t)
  PROVE  /\ going[t].kind # "answer" /\ going'[t].kind # "answer"
         /\ \A u \in Tabs \ {t} : going'[u] = going[u] /\ page'[u] = page[u]
         /\ UNCHANGED <<sessionOf, sent, turn, asked, clicks>>
         /\ UNCHANGED <<tables, pc, work, tx>>
  <1> USE DEF PageShape
  <1>1. Nowhere.kind = "none"
    BY DEF Nowhere, Place
  <1>2. ASSUME NEW pg, Show(t, pg)
        PROVE  /\ going'[t].kind # "answer"
               /\ \A u \in Tabs \ {t} : going'[u] = going[u] /\ page'[u] = page[u]
               /\ UNCHANGED <<sessionOf, sent, turn, asked, clicks>>
    BY <1>1, <1>2 DEF Show
  <1>3. CASE Open(t)
    <2>1. PICK to \in {Place("cart")} \cup
                      {[kind |-> "product", product |-> p] : p \in Products} :
            going' = [going EXCEPT ![t] = to]
      BY <1>3 DEF Open
    <2>2. to.kind # "answer"
      BY <2>1 DEF Place
    <2> QED
      BY <1>1, <1>3, <2>1, <2>2 DEF Open, vars, tables
  <1>4. CASE LoadCart(t)
    BY <1>2, <1>4 DEF LoadCart, vars, tables
  <1>5. CASE LoadProduct(t)
    BY <1>2, <1>5 DEF LoadProduct, vars, tables
  <1>6. CASE LoadSuccess(t)
    BY <1>2, <1>6 DEF LoadSuccess, ShowSuccess, vars, tables
  <1>7. CASE LoadError(t)
    BY <1>2, <1>7 DEF LoadError, vars, tables
  <1> QED
    BY <1>3, <1>4, <1>5, <1>6, <1>7 DEF LoadOf

(* An answer moves its tab, if it still waits for it, and no other.        *)
LEMMA AnswerMoves ==
  ASSUME PageShape, NEW t, NEW waiting, NEW to, Answer(t, waiting, to)
  PROVE  \A u \in Tabs : going'[u] = going[u] \/
           (u = t /\ going[t].kind = "answer" /\ waiting = <<>> /\ going'[u] = to)
  BY DEF Answer, PageShape

(* No step leaves a tab with a form on its way that it does not wait for.  *)
LEMMA WaitsNext ==
  ASSUME IInv, PageShape, PageExtras, NothingElseWaits, [PageNext]_allVars
  PROVE  NothingElseWaits'
  <1>1. TypeOK
    BY DEF IInv
  <1>2. CASE UNCHANGED allVars
    BY <1>2 DEF allVars, pageVars, NothingElseWaits
  <1>3. ASSUME NEW t \in Tabs, ClickOf(t) PROVE NothingElseWaits'
    <2>1. PICK forms : Submit(t, forms)
      BY <1>3, ClickSubmits
    <2>2. /\ going' = [going EXCEPT ![t] = Place("answer")]
          /\ \A u \in Tabs \ {t} : sent'[u] = sent[u]
          /\ turn' = turn
      BY <2>1 DEF Submit, PageShape
    <2>3. going'[t].kind = "answer" /\ \A u \in Tabs \ {t} : going'[u] = going[u]
      BY <2>2 DEF PageShape, Place
    <2> QED
      BY <2>2, <2>3 DEF NothingElseWaits
  <1>4. ASSUME NEW t \in Tabs, LoadOf(t) PROVE NothingElseWaits'
    BY <1>4, LoadMoves DEF NothingElseWaits
  <1>5. ASSUME NEW t \in Tabs, Receive(t) PROVE NothingElseWaits'
    <2> DEFINE s == sessionOf[t]
    <2>1. /\ sent[t] # <<>> /\ sent'[t] = Tail(sent[t]) /\ s \in Sessions
          /\ \A u \in Tabs \ {t} : sent'[u] = sent[u]
      BY <1>5 DEF Receive, PageShape
    <2>2. going[t].kind = "answer"
      BY <2>1 DEF NothingElseWaits
    <2>3. CASE /\ turn' = [turn EXCEPT ![s] = [tab |-> t, by |-> Head(sent[t]).by]]
               /\ UNCHANGED going
      <3>1. turn'[s].tab = t /\ \A z \in Sessions \ {s} : turn'[z] = turn[z]
        BY <2>1, <2>3 DEF PageShape
      <3> QED
        BY <2>1, <2>2, <2>3, <3>1 DEF NothingElseWaits
    <2>4. CASE /\ NothingToDo(s, Head(sent[t])) /\ turn' = turn
               /\ Answer(t, Tail(sent[t]), Back(t))
      <3>1. \A u \in Tabs : going'[u] = going[u] \/ (u = t /\ Tail(sent[t]) = <<>>)
        BY <2>4, AnswerMoves
      <3>2. \A z \in Sessions : turn[z].tab # t
        <4>1. turn[s].tab = NoTab
          BY <2>1, <2>4 DEF NothingToDo, PageExtras
        <4>2. t # NoTab
          BY PageAssumption DEF PageAssumption
        <4> QED
          BY <4>1, <4>2 DEF PageShape
      <3> QED
        BY <2>1, <2>4, <3>1, <3>2 DEF NothingElseWaits
    <2> QED
      BY <1>5, <2>3, <2>4 DEF Receive
  <1>6. ASSUME NEW s \in Sessions, Run(s) PROVE NothingElseWaits'
    <2>1. CASE UNCHANGED <<going, sent, turn>>
      BY <2>1 DEF NothingElseWaits
    <2>2. CASE \E to : /\ Answer(turn[s].tab, sent[turn[s].tab], to)
                       /\ turn' = [turn EXCEPT ![s] = NoTurn]
                       /\ UNCHANGED sent
      <3> DEFINE t == turn[s].tab
      <3>1. t \in Tabs /\ t # NoTab
        BY <1>6 DEF Run, PageShape
      <3>2. \A u \in Tabs : going'[u] = going[u] \/ (u = t /\ sent[t] = <<>>)
        BY <2>2, AnswerMoves
      <3>3. /\ turn'[s].tab = NoTab
            /\ \A z \in Sessions \ {s} : turn'[z] = turn[z]
            /\ sent' = sent
        BY <2>2 DEF NoTurn, PageShape
      <3>4. \A z \in Sessions : turn'[z].tab # t
        BY <3>1, <3>3, SMTT(30) DEF PageShape
      <3> HIDE DEF t
      <3>5. NoTab \notin Tabs
        BY PageAssumption DEF PageAssumption
      <3> QED
        BY <3>1, <3>2, <3>3, <3>4, <3>5 DEF NothingElseWaits
    <2> QED
      BY <1>6, <2>1, <2>2 DEF Run, Continue, Finish
  <1> QED
    BY <1>2, <1>3, <1>4, <1>5, <1>6 DEF PageNext, Browse, ClickOf, LoadOf

-----------------------------------------------------------------------------
(* A page whose cart has not changed shows, for each product in it, one of *)
(* its lines, and of the rows with one name the first.                     *)
ProductsIn(rows) == {r.product : r \in rows}

OneLineIn(rows) == \A r, q \in rows : r.product = q.product => r = q

Shows(pg, rows) ==
  \E pick \in [ProductsIn(rows) -> rows] :
    /\ \A p \in ProductsIn(rows) : pick[p].product = p
    /\ pg.quantity = [p \in Products |->
                        IF p \in ProductsIn(rows) THEN pick[p].quantity ELSE 0]
    /\ pg.rows \in Merged(ProductsIn(rows))

PageIsFresh(pg, rows) ==
  /\ pg.kind \in {"cart", "product"}
  /\ pg.kind = "cart" => Shows(pg, rows)

ProductIsFresh(pg, rows) ==
  pg.kind = "product" /\ pg.quantity[pg.product] > 0 =>
    \E r \in rows :
      r.product = pg.product /\ r.quantity = pg.quantity[pg.product]

(* A form of such a page is a change of the quantity in the table by what  *)
(* the user asked for, or the checkout of a cart that is not empty.        *)
FormIsFresh(f, rows) ==
  /\ f.action = "update" =>
       /\ f.product \in Products
       /\ OneLineIn(rows) =>
            \A r \in rows : r.product = f.product =>
              EffectiveQuantity(f.quantity) = EffectiveQuantity(r.quantity + f.by)
  /\ f.action = "checkout" => rows # {}

(* So is the request that it starts.                                       *)
UpdateIsFresh(row, by, rows) ==
  OneLineIn(rows) =>
    \E r \in rows : /\ r.cart = row.cart
                    /\ row.quantity = EffectiveQuantity(r.quantity + by)

RequestIsFresh(s) ==
  /\ pc[s] = "update_quantity" => UpdateIsFresh(work[s], turn[s].by, CartRows(s))
  /\ pc[s] \in CheckoutPcs => WillSell(tx[s], pc[s])

TabIsFresh(t) ==
  LET rows == CartRows(sessionOf[t]) IN
  /\ PageIsFresh(page[t], rows)
  /\ going[t] = Nowhere => ProductIsFresh(page[t], rows)
  /\ \A i \in DOMAIN sent[t] : FormIsFresh(sent[t][i], rows)
  /\ turn[sessionOf[t]].tab = t => RequestIsFresh(sessionOf[t])

FreshInv == \A t \in Tabs : fresh[t] => TabIsFresh(t)

(* Rows of a cart are lines of stored products, with at least one unit.    *)
LEMMA CartRowsAre ==
  ASSUME TypeOK, NEW s, NEW r \in CartRows(s)
  PROVE  /\ r.product \in InCart(s) /\ r.product \in Products
         /\ r.quantity \in Nat \ {0}
         /\ r.cart \in DOMAIN carrelli /\ r.quantity = carrelli[r.cart]
         /\ \E i \in interazioni : i.user = UserOf[s] /\ i.product = r.product /\ i.cart = r.cart
         /\ r = [product |-> r.product, cart |-> r.cart, quantity |-> r.quantity]
  <1>1. PICK i \in interazioni :
          /\ i.product \in Products /\ i.cart \in DOMAIN carrelli
          /\ i.user = UserOf[s]
          /\ r = [product |-> i.product, cart |-> i.cart,
                  quantity |-> carrelli[i.cart]]
    BY DEF CartRows
  <1>2. carrelli[i.cart] \in Nat \ {0}
    BY <1>1 DEF TypeOK
  <1>3. r.product \in InCart(s)
    BY DEF InCart
  <1> QED
    BY <1>1, <1>2, <1>3

(* A line of a stored product that the handler finds is a row.             *)
LEMMA FoundIsRow ==
  ASSUME IInv, NEW s, NEW p \in Products, NEW c \in CartsOf(s, p)
  PROVE  [product |-> p, cart |-> c, quantity |-> carrelli[c]] \in CartRows(s)
  <1>1. PICK i \in interazioni : i.user = UserOf[s] /\ i.product = p /\ i.cart = c
    BY DEF CartsOf, LinesOf
  <1>2. c \in DOMAIN carrelli
    BY DEF CartsOf
  <1> QED
    BY <1>1, <1>2 DEF CartRows

(* Requests of other sessions, and their answers.                          *)
LEMMA RunMoves ==
  ASSUME PageShape, NEW s \in Sessions, Run(s)
  PROVE  /\ CartStep(s) \/ CheckoutStep(s) \/ RequestDies(s)
         /\ UNCHANGED <<sessionOf, page, sent>> /\ Age
         /\ turn[s].tab \in Tabs /\ sessionOf[turn[s].tab] = s
         /\ \A z \in Sessions \ {s} : turn'[z] = turn[z]
         /\ turn'[s] = turn[s] \/ turn'[s] = NoTurn
         /\ \A u \in Tabs : going'[u] = Nowhere => going[u] = Nowhere
  <1>1. turn[s].tab \in Tabs /\ sessionOf[turn[s].tab] = s
    BY DEF Run, PageShape
  <1>2. turn' = turn \/ turn' = [turn EXCEPT ![s] = NoTurn]
    BY DEF Run, Continue, Finish
  <1>3. \/ going' = going
        \/ \E to : /\ Answer(turn[s].tab, sent[turn[s].tab], to)
                   /\ \/ to = Back(turn[s].tab)
                      \/ to \in {Place("cart"), Place("success"), Place("error")}
    BY DEF Run, Continue, Finish, AfterRollback
  <1>4. ASSUME NEW u \in Tabs, going'[u] = Nowhere PROVE going[u] = Nowhere
    <2>1. Nowhere.kind = "none" /\ Place("cart").kind = "cart"
            /\ Place("success").kind = "success" /\ Place("error").kind = "error"
      BY DEF Nowhere, Place
    <2>2. going[turn[s].tab].kind = "answer" => Back(turn[s].tab).kind # "none"
      BY <1>1, BackIsAPlace
    <2>3. \/ going'[u] = going[u]
          \/ /\ u = turn[s].tab /\ going[u].kind = "answer"
             /\ \/ going'[u] = Back(u)
                \/ going'[u] \in {Place("cart"), Place("success"), Place("error")}
      BY <1>3, AnswerMoves
    <2> QED
      BY <1>4, <2>1, <2>2, <2>3
  <1> QED
    BY <1>1, <1>2, <1>4 DEF Run, Continue, Finish, CheckoutStep, PageShape

(* Statements keep fresh what they leave fresh.                            *)
LEMMA RunFresh ==
  ASSUME IInv, PageShape, PageExtras, CheckoutRows, FreshInv,
         NEW s \in Sessions, Run(s)
  PROVE  FreshInv'
  <1> SUFFICES ASSUME NEW t \in Tabs, fresh'[t] PROVE TabIsFresh(t)'
    BY DEF FreshInv
  <1> DEFINE z == sessionOf[t]
  <1>1. /\ fresh[t] /\ CartRows(z)' = CartRows(z) /\ z \in Sessions
        /\ UNCHANGED <<sessionOf, page, sent>>
    BY RunMoves DEF Age, PageShape
  <1>2. TabIsFresh(t)
    BY <1>1 DEF FreshInv
  <1>3. going'[t] = Nowhere => going[t] = Nowhere
    BY RunMoves
  <1>4. ASSUME turn'[z].tab = t
        PROVE  /\ pc'[z] = "update_quantity" =>
                    UpdateIsFresh(work'[z], turn'[z].by, CartRows(z))
               /\ pc'[z] \in CheckoutPcs => WillSell(tx'[z], pc'[z])
    <2>1. turn'[z] = turn[z]
      <3>1. t # NoTab /\ NoTurn.tab = NoTab
        BY PageAssumption DEF PageAssumption, NoTurn
      <3> QED
        BY <1>1, <1>4, <3>1, RunMoves
    <2>2. RequestIsFresh(z)
      BY <1>2, <1>4, <2>1 DEF TabIsFresh
    <2>3. CASE z # s
      <3>1. pc'[z] = pc[z] /\ work'[z] = work[z] /\ tx'[z] = tx[z]
        BY <1>1, <2>3, RunMoves, OthersKeep DEF IInv
      <3> QED
        BY <2>1, <2>2, <3>1 DEF RequestIsFresh, WillSell
    <2>4. CASE z = s
      <3>1. pc'[s] # "update_quantity"
        BY RunMoves, WorkGoesOn DEF IInv
      <3>2. pc'[s] \in CheckoutPcs =>
              /\ pc[s] \in CheckoutPcs
              /\ WillSell(tx[s], pc[s]) => WillSell(tx'[s], pc'[s])
        BY RunMoves, CheckoutGoesOn DEF IInv
      <3>3. pc'[s] \in CheckoutPcs => WillSell(tx'[s], pc'[s])
        BY <2>2, <2>4, <3>2 DEF RequestIsFresh
      <3> QED
        BY <2>4, <3>1, <3>3 DEF WillSell
    <2> QED
      BY <2>3, <2>4
  <1>5. TabIsFresh(t)'
    BY <1>1, <1>2, <1>3, <1>4 DEF TabIsFresh, RequestIsFresh
  <1> QED
    BY <1>5

(* A form of a fresh page starts a fresh request.                          *)
LEMMA ReceiveFresh ==
  ASSUME IInv, PageShape, PageExtras, NothingElseWaits, FreshInv,
         NEW u \in Tabs, Receive(u)
  PROVE  FreshInv'
  <1> SUFFICES ASSUME NEW t \in Tabs, fresh'[t] PROVE TabIsFresh(t)'
    BY DEF FreshInv
  <1> DEFINE s == sessionOf[u]
             f == Head(sent[u])
             z == sessionOf[t]
             rows == CartRows(z)
  <1>1. /\ fresh[t] /\ s \in Sessions /\ z \in Sessions /\ TypeOK
        /\ UNCHANGED <<sessionOf, page, fresh>>
        /\ sent[u] \in Seq(Forms) /\ sent[u] # <<>> /\ sent'[u] = Tail(sent[u])
        /\ \A w \in Tabs \ {u} : sent'[w] = sent[w]
    BY DEF Receive, PageShape, IInv
  <1>2. TabIsFresh(t)
    BY <1>1 DEF FreshInv
  <1>3. UNCHANGED <<carrelli, interazioni>>
    BY <1>1, HandleStarts DEF Receive, vars, tables
  <1>4. CartRows(z)' = CartRows(z)
    BY <1>1, <1>3 DEF CartRows
  <1>5. /\ 1 \in DOMAIN sent[u] /\ f = sent[u][1]
        /\ \A i \in DOMAIN Tail(sent[u]) :
             i + 1 \in DOMAIN sent[u] /\ Tail(sent[u])[i] = sent[u][i + 1]
    BY <1>1
  <1>6. ASSUME NEW i \in DOMAIN sent'[t] PROVE FormIsFresh(sent'[t][i], rows)
    <2>1. \E j \in DOMAIN sent[t] : sent'[t][i] = sent[t][j]
      <3>1. CASE t = u
        <4>1. i \in DOMAIN Tail(sent[u]) /\ sent'[t][i] = Tail(sent[u])[i]
          BY <1>1, <3>1
        <4> QED
          BY <1>5, <3>1, <4>1
      <3>2. CASE t # u
        BY <1>1, <3>2
      <3> QED
        BY <3>1, <3>2
    <2> QED
      BY <1>2, <2>1 DEF TabIsFresh
  <1>7. going'[t] = Nowhere => going[t] = Nowhere
    <2>1. \A w \in Tabs : going'[w] = going[w] \/
            (w = u /\ going[u].kind = "answer" /\ going'[w] = Back(u))
      BY AnswerMoves DEF Receive
    <2>2. going[u].kind = "answer" => Back(u).kind # "none"
      BY BackIsAPlace
    <2>3. Nowhere.kind = "none"
      BY DEF Nowhere, Place
    <2> QED
      BY <2>1, <2>2, <2>3
  <1>8. ASSUME turn'[z].tab = t
        PROVE  /\ pc'[z] = "update_quantity" =>
                    UpdateIsFresh(work'[z], turn'[z].by, rows)
               /\ pc'[z] \in CheckoutPcs => WillSell(tx'[z], pc'[z])
    <2>1. CASE UNCHANGED <<vars, turn>>
      <3>1. UNCHANGED <<pc, work, tx, turn>>
        BY <2>1 DEF vars
      <3> QED
        BY <1>2, <1>8, <3>1 DEF TabIsFresh, RequestIsFresh, WillSell
    <2>2. CASE /\ Handle(s, f) /\ z # s
               /\ turn' = [turn EXCEPT ![s] = [tab |-> u, by |-> f.by]]
      <3>1. /\ pc'[z] = pc[z] /\ work'[z] = work[z] /\ tx'[z] = tx[z]
            /\ turn'[z] = turn[z]
        BY <1>1, <2>2, OthersKeep DEF PageShape
      <3> QED
        BY <1>2, <1>8, <3>1 DEF TabIsFresh, RequestIsFresh, WillSell
    <2>3. CASE /\ Handle(s, f) /\ z = s
               /\ turn' = [turn EXCEPT ![s] = [tab |-> u, by |-> f.by]]
      <3>1. turn'[s] = [tab |-> u, by |-> f.by] /\ t = u
        BY <1>1, <1>8, <2>3 DEF PageShape
      <3>2. FormIsFresh(f, rows)
        BY <1>2, <1>5, <3>1 DEF TabIsFresh
      <3>3. ASSUME pc'[s] = "update_quantity", OneLineIn(rows)
            PROVE  \E r \in rows :
                     /\ r.cart = work'[s].cart
                     /\ work'[s].quantity = EffectiveQuantity(r.quantity + f.by)
        <4> DEFINE c == work'[s].cart
                   r == [product |-> f.product, cart |-> c, quantity |-> carrelli[c]]
        <4>1. /\ f.action = "update" /\ c \in CartsOf(s, f.product)
              /\ work'[s].quantity = EffectiveQuantity(f.quantity)
          BY <1>1, <2>3, <3>3, HandleHolds
        <4>2. f.product \in Products
          BY <3>2, <4>1 DEF FormIsFresh
        <4> HIDE DEF c
        <4>3. r \in rows
          BY <2>3, <4>1, <4>2, FoundIsRow
        <4>4. r.product = f.product /\ r.cart = c
          OBVIOUS
        <4> HIDE DEF r
        <4>5. EffectiveQuantity(f.quantity) = EffectiveQuantity(r.quantity + f.by)
          BY <3>2, <3>3, <4>1, <4>3, <4>4 DEF FormIsFresh
        <4> QED
          BY <4>1, <4>3, <4>4, <4>5 DEF c
      <3>4. ASSUME pc'[s] \in CheckoutPcs PROVE WillSell(tx'[s], pc'[s])
        <4>1. f.action = "checkout" /\ CheckoutSelect(s)
          BY <1>1, <2>3, <3>4, HandleHolds
        <4>2. rows # {}
          BY <3>2, <4>1 DEF FormIsFresh
        <4>3. tx'[s].rows = rows
          BY <1>1, <2>3, <4>1, CheckoutStarts
        <4> QED
          BY <4>2, <4>3 DEF WillSell
      <3>5. turn'[z].by = f.by
        BY <2>3, <3>1
      <3>6. WillSell(tx'[z], pc'[z]) <=> WillSell(tx'[s], pc'[s])
        BY <1>1, <2>3 DEF WillSell
      <3> QED
        BY <2>3, <3>3, <3>4, <3>5, <3>6 DEF UpdateIsFresh
    <2> QED
      BY <2>1, <2>2, <2>3 DEF Receive
  <1>9. TabIsFresh(t)'
    BY <1>1, <1>2, <1>4, <1>6, <1>7, <1>8 DEF TabIsFresh, RequestIsFresh
  <1> QED
    BY <1>9

(* A click on a fresh page submits fresh forms: nothing else was on its    *)
(* way, or the page is not fresh any more.                                 *)
LEMMA SubmitFresh ==
  ASSUME IInv, PageShape, PageExtras, NothingElseWaits, FreshInv,
         NEW u \in Tabs, NEW forms \in Seq(Forms), Submit(u, forms),
         \A w \in Tabs \ {u} : page'[w] = page[w],
         PageIsFresh(page[u], CartRows(sessionOf[u])) =>
           PageIsFresh(page'[u], CartRows(sessionOf[u])),
         PageIsFresh(page[u], CartRows(sessionOf[u])) /\
         ProductIsFresh(page[u], CartRows(sessionOf[u])) =>
           \A j \in DOMAIN forms : FormIsFresh(forms[j], CartRows(sessionOf[u]))
  PROVE  FreshInv'
  <1>1. /\ UNCHANGED <<carrelli, interazioni, pc, work, tx, sessionOf, turn>>
        /\ going' = [going EXCEPT ![u] = Place("answer")]
        /\ \A t \in Tabs : fresh'[t] => fresh[t] /\ (t = u => going[u] = Nowhere)
    <2>1. /\ fresh' = [fresh EXCEPT ![u] = fresh[u] /\ going[u] = Nowhere]
          /\ fresh \in [Tabs -> BOOLEAN]
      BY DEF Submit, PageExtras
    <2>2. \A t \in Tabs : fresh'[t] => fresh[t] /\ (t = u => going[u] = Nowhere)
      BY <2>1, Zenon
    <2>3. /\ UNCHANGED <<carrelli, interazioni, pc, work, tx, sessionOf, turn>>
          /\ going' = [going EXCEPT ![u] = Place("answer")]
      BY DEF Submit, vars
    <2> QED
      BY <2>2, <2>3
  <1>2. \A s : CartRows(s)' = CartRows(s)
    BY <1>1 DEF CartRows
  <1>3. /\ \A t \in Tabs \ {u} : going'[t] = going[t] /\ sent'[t] = sent[t]
        /\ going'[u] # Nowhere
        /\ Nowhere.kind = "none"
    BY <1>1, SubmitQueues DEF PageShape, Place, Nowhere
  <1> SUFFICES ASSUME NEW t \in Tabs, fresh'[t] PROVE TabIsFresh(t)'
    BY DEF FreshInv
  <1>4. fresh[t] /\ TabIsFresh(t)
    BY <1>1 DEF FreshInv
  <1>5. CASE t # u
    <2>1. page'[t] = page[t] /\ going'[t] = going[t] /\ sent'[t] = sent[t]
      BY <1>3, <1>5
    <2>2. CartRows(sessionOf[t])' = CartRows(sessionOf[t])
      BY <1>1 DEF CartRows
    <2> QED
      BY <1>1, <1>4, <2>1, <2>2 DEF TabIsFresh, RequestIsFresh
  <1>6. CASE t = u
    <2> DEFINE rows == CartRows(sessionOf[u])
    <2>1. /\ going[u] = Nowhere /\ sent[u] = <<>>
          /\ turn[sessionOf[u]].tab # u
      BY <1>1, <1>3, <1>6 DEF NothingElseWaits, PageShape
    <2>2. PageIsFresh(page[u], rows) /\ ProductIsFresh(page[u], rows)
      BY <1>4, <1>6, <2>1 DEF TabIsFresh
    <2>3. /\ PageIsFresh(page'[u], rows)
          /\ \A j \in DOMAIN forms : FormIsFresh(forms[j], rows)
      BY <2>2
    <2>4. \A i \in DOMAIN sent'[u] : \E j \in DOMAIN forms : sent'[u][i] = forms[j]
      BY <2>1, SubmitQueues
    <2>5. \A i \in DOMAIN sent'[u] : FormIsFresh(sent'[u][i], rows)
      BY <2>3, <2>4
    <2>6. CartRows(sessionOf[u])' = rows
      BY <1>1 DEF CartRows
    <2> HIDE DEF rows
    <2> QED
      BY <1>1, <1>3, <1>6, <2>1, <2>3, <2>5, <2>6 DEF TabIsFresh
  <1> QED
    BY <1>5, <1>6

(* One form.                                                               *)
LEMMA OneFormFresh ==
  ASSUME IInv, PageShape, PageExtras, NothingElseWaits, FreshInv,
         NEW u \in Tabs, NEW f \in Forms, Submit(u, <<f>>),
         \A w \in Tabs \ {u} : page'[w] = page[w],
         PageIsFresh(page[u], CartRows(sessionOf[u])) =>
           PageIsFresh(page'[u], CartRows(sessionOf[u])),
         PageIsFresh(page[u], CartRows(sessionOf[u])) /\
         ProductIsFresh(page[u], CartRows(sessionOf[u])) =>
           FormIsFresh(f, CartRows(sessionOf[u]))
  PROVE  FreshInv'
  <1> DEFINE forms == <<f>>
  <1>1. /\ forms \in Seq(Forms) /\ Submit(u, forms)
        /\ \A j \in DOMAIN forms : forms[j] = f
    OBVIOUS
  <1> HIDE DEF forms
  <1> QED
    BY <1>1, SubmitFresh

(* Rows on a fresh cart page are products in the cart.                     *)
LEMMA ShownRows ==
  ASSUME NEW pg, NEW rows, Shows(pg, rows), ProductsIn(rows) \subseteq Products,
         NEW p \in pg.rows
  PROVE  \E r \in rows : r.product = p /\ pg.quantity[p] = r.quantity /\ p \in Products
  <1>1. PICK pick \in [ProductsIn(rows) -> rows] :
          /\ \A q \in ProductsIn(rows) : pick[q].product = q
          /\ pg.quantity = [q \in Products |->
                              IF q \in ProductsIn(rows) THEN pick[q].quantity ELSE 0]
          /\ pg.rows \in Merged(ProductsIn(rows))
    BY DEF Shows
  <1>2. p \in ProductsIn(rows)
    BY <1>1 DEF Merged
  <1> QED
    BY <1>1, <1>2

(* The forms of a fresh cart page hold the quantity of the only line, less *)
(* or plus one.                                                            *)
LEMMA CartButtonsFresh ==
  ASSUME IInv, PageShape, PageExtras, NothingElseWaits, FreshInv,
         NEW u \in Tabs, CartButtons(u)
  PROVE  FreshInv'
  <1> DEFINE rows == CartRows(sessionOf[u])
  <1>1. page[u] \in Pages /\ page[u].kind = "cart" /\ page' = page
    BY DEF PageShape, CartButtons
  <1>2. PICK p \in page[u].rows :
          LET q == page[u].quantity[p] IN
          \/ Submit(u, <<Form("update", p, q - 1, -1)>>) /\ UNCHANGED asked
          \/ Submit(u, <<Form("update", p, q + 1, 1)>>) /\ Ask(u, p)
          \/ Submit(u, <<Form("remove", p, 1, 0)>>) /\ UNCHANGED asked
    BY DEF CartButtons
  <1> DEFINE q == page[u].quantity[p]
  <1>3. p \in Products /\ q \in Nat
    BY <1>1, <1>2 DEF Pages
  <1>4. ProductsIn(rows) \subseteq Products
    BY DEF ProductsIn, CartRows
  <1> HIDE DEF q
  <1>5. ASSUME NEW a \in {"update", "remove"}, NEW n \in Int, NEW d \in {-1, 0, 1},
               Submit(u, <<Form(a, p, n, d)>>), a = "update" => n = q + d
        PROVE  FreshInv'
    <2> DEFINE f == Form(a, p, n, d)
    <2>1. /\ f \in Forms /\ f.action = a /\ f.product = p /\ f.quantity = n
          /\ f.by = d
      BY <1>3, FormsAreForms, FormFields, PageAssumption, CartAssumption
    <2>2. Submit(u, <<f>>)
      BY <1>5
    <2> HIDE DEF f, rows
    <2>3. ASSUME PageIsFresh(page[u], rows), a = "update", OneLineIn(rows),
                 NEW r \in rows, r.product = p
          PROVE  EffectiveQuantity(n) = EffectiveQuantity(r.quantity + d)
      <3>1. Shows(page[u], rows)
        BY <1>1, <2>3 DEF PageIsFresh
      <3>2. PICK x \in rows : x.product = p /\ q = x.quantity
        BY <1>2, <1>4, <3>1, ShownRows DEF q
      <3>3. x = r
        BY <2>3, <3>2 DEF OneLineIn
      <3> QED
        BY <1>5, <2>3, <3>2, <3>3
    <2>4. PageIsFresh(page[u], rows) => FormIsFresh(f, rows)
      BY <1>3, <1>5, <2>1, <2>3 DEF FormIsFresh
    <2> QED
      BY <1>1, <2>1, <2>2, <2>4, OneFormFresh DEF rows
  <1>6. /\ {-1, 0, 1} \subseteq Int /\ -1 \in {-1, 0, 1} /\ 0 \in {-1, 0, 1}
        /\ 1 \in {-1, 0, 1} /\ 1 \in Int
        /\ "update" \in {"update", "remove"} /\ "remove" \in {"update", "remove"}
        /\ "remove" # "update"
        /\ q - 1 \in Int /\ q + 1 \in Int /\ q - 1 = q + (-1)
    BY <1>3
  <1>7. CASE Submit(u, <<Form("update", p, q - 1, -1)>>)
    BY <1>5, <1>6, <1>7, Zenon
  <1>8. CASE Submit(u, <<Form("update", p, q + 1, 1)>>)
    BY <1>5, <1>6, <1>8, Zenon
  <1>9. CASE Submit(u, <<Form("remove", p, 1, 0)>>)
    BY <1>5, <1>6, <1>9, Zenon
  <1> QED
    BY <1>2, <1>7, <1>8, <1>9, Zenon DEF q

(* The checkout button is only on the page of a cart with rows.            *)
LEMMA CheckoutButtonFresh ==
  ASSUME IInv, PageShape, PageExtras, NothingElseWaits, FreshInv,
         NEW u \in Tabs, CheckoutButton(u)
  PROVE  FreshInv'
  <1> DEFINE f == Form("checkout", Undefined, 1, 0)
             rows == CartRows(sessionOf[u])
  <1>1. f \in Forms /\ f.action = "checkout"
    <2>1. 1 \in Int /\ 0 \in {-1, 0, 1} /\ "checkout" \in {"add", "update", "remove", "checkout"}
      OBVIOUS
    <2> QED
      BY <2>1, FormsAreForms, FormFields, PageAssumption, CartAssumption
  <1>2. /\ Submit(u, <<f>>) /\ UNCHANGED page
        /\ page[u].kind = "cart" /\ page[u].rows # {}
    BY DEF CheckoutButton
  <1>3. ProductsIn(rows) \subseteq Products
    BY DEF ProductsIn, CartRows
  <1> HIDE DEF f, rows
  <1>4. PageIsFresh(page[u], rows) => rows # {}
    BY <1>2, <1>3, ShownRows DEF PageIsFresh
  <1>5. PageIsFresh(page[u], rows) => FormIsFresh(f, rows)
    BY <1>1, <1>4 DEF FormIsFresh
  <1> QED
    BY <1>1, <1>2, <1>5, OneFormFresh DEF rows

(* The number on the page of a product changes with the form; until the    *)
(* answer comes it is not relied on.                                       *)
LEMMA QuantityButtonsFresh ==
  ASSUME IInv, PageShape, PageExtras, NothingElseWaits, FreshInv,
         NEW u \in Tabs, QuantityButtons(u)
  PROVE  FreshInv'
  <1> DEFINE p == page[u].product
             n == page[u].quantity[p]
             rows == CartRows(sessionOf[u])
  <1>1. /\ page[u] \in Pages /\ page[u].kind = "product"
        /\ p \in Products /\ n \in Nat /\ n > 0 /\ page \in [Tabs -> Pages]
    BY DEF PageShape, QuantityButtons, Pages
  <1>2. CASE Submit(u, <<Form("remove", p, 1, 0)>>) /\ UNCHANGED <<page, asked>>
    <2> DEFINE f == Form("remove", p, 1, 0)
    <2>1. f \in Forms /\ f.action = "remove"
      BY <1>1, FormsAreForms, FormFields, PageAssumption, CartAssumption
    <2>2. Submit(u, <<f>>)
      BY <1>2
    <2> HIDE DEF f
    <2>3. FormIsFresh(f, rows)
      BY <2>1 DEF FormIsFresh
    <2> QED
      BY <1>2, <2>1, <2>2, <2>3, OneFormFresh
  <1>3. ASSUME NEW d \in {-1, 1}, NEW q, q = EffectiveQuantity(n + d),
               page' = [page EXCEPT ![u] = WithQuantity(page[u], p, q)],
               Submit(u, <<Form("update", p, q, d)>>)
        PROVE  FreshInv'
    <2> DEFINE f == Form("update", p, q, d)
    <2>1. q \in Nat /\ q >= 1
      BY <1>1, <1>3, ShownQuantityPositive
    <2>2. /\ f \in Forms /\ f.action = "update" /\ f.product = p
          /\ f.quantity = q /\ f.by = d
      BY <1>1, <1>3, <2>1, FormsAreForms, FormFields, PageAssumption, CartAssumption, SMTT(30)
    <2>3. Submit(u, <<f>>)
      BY <1>3
    <2>4. page'[u].kind = "product" /\ \A w \in Tabs \ {u} : page'[w] = page[w]
      BY <1>1, <1>3, <2>1, WithQuantityIsPage
    <2> HIDE DEF f, rows
    <2>5. PageIsFresh(page'[u], rows)
      BY <2>4 DEF PageIsFresh
    <2>6. ASSUME ProductIsFresh(page[u], rows), OneLineIn(rows),
                 NEW r \in rows, r.product = p
          PROVE  EffectiveQuantity(q) = EffectiveQuantity(r.quantity + d)
      <3>1. PICK x \in rows : x.product = p /\ x.quantity = n
        BY <1>1, <2>6 DEF ProductIsFresh
      <3>2. x = r
        BY <2>6, <3>1 DEF OneLineIn
      <3>3. q = EffectiveQuantity(r.quantity + d)
        BY <1>3, <3>1, <3>2
      <3>4. EffectiveQuantity(q) = q
        BY <2>1 DEF EffectiveQuantity
      <3> QED
        BY <3>3, <3>4
    <2>7. ProductIsFresh(page[u], rows) => FormIsFresh(f, rows)
      BY <1>1, <2>2, <2>6 DEF FormIsFresh
    <2> QED
      BY <2>2, <2>3, <2>4, <2>5, <2>7, OneFormFresh DEF rows
  <1> QED
    BY <1>2, <1>3 DEF QuantityButtons

(* Adding relies on nothing that the page shows.                           *)
LEMMA AddButtonFresh ==
  ASSUME IInv, PageShape, PageExtras, NothingElseWaits, FreshInv,
         NEW u \in Tabs, AddButton(u)
  PROVE  FreshInv'
  <1> DEFINE p == page[u].product
             forms == AddForms(p)
  <1>1. p \in Products /\ Submit(u, forms) /\ page' = page
    BY DEF PageShape, AddButton
  <1>2. forms \in Seq(Forms) /\ \A j \in DOMAIN forms : forms[j].action = "add"
    <2>1. Form("add", Undefined, 1, 0) \in Forms /\ Form("add", p, 1, 1) \in Forms
      BY <1>1, FormsAreForms, PageAssumption, CartAssumption
    <2> QED
      BY <2>1 DEF AddForms, Form
  <1> HIDE DEF forms
  <1>3. \A j \in DOMAIN forms : \A rows : FormIsFresh(forms[j], rows)
    BY <1>2 DEF FormIsFresh
  <1> QED
    BY <1>1, <1>2, <1>3, SubmitFresh

-----------------------------------------------------------------------------
(* carrello.php: the page shows what get_cart.php has just read.           *)
LEMMA RenderedShows ==
  ASSUME IInv, NEW s \in Sessions, NEW q \in Rendered(s),
         NEW R \in Merged({p \in Products : q[p] > 0}), NEW pg,
         pg.quantity = q, pg.rows = R
  PROVE  Shows(pg, CartRows(s))
  <1>1. PICK k \in [InCart(s) -> DOMAIN carrelli] :
          /\ \A p \in InCart(s) : k[p] \in CartsOf(s, p)
          /\ q = [p \in Products |->
                    IF p \in InCart(s) THEN carrelli[k[p]] ELSE 0]
    BY DEF Rendered
  <1> DEFINE rows == CartRows(s)
             pick == [p \in InCart(s) |->
                        [product |-> p, cart |-> k[p], quantity |-> carrelli[k[p]]]]
  <1>2. InCart(s) = ProductsIn(rows) /\ InCart(s) \subseteq Products
    BY DEF InCart, ProductsIn, CartRows
  <1>3. \A p \in InCart(s) : pick[p] \in rows /\ pick[p].product = p
          /\ pick[p].quantity = carrelli[k[p]]
    BY <1>1, <1>2, FoundIsRow
  <1>4. pick \in [ProductsIn(rows) -> rows]
    BY <1>2, <1>3
  <1>5. {p \in Products : q[p] > 0} = ProductsIn(rows)
    <2>1. \A c \in DOMAIN carrelli : carrelli[c] \in Nat \ {0}
      BY DEF IInv, TypeOK
    <2>2. \A p \in InCart(s) : q[p] > 0
      BY <1>1, <1>2, <2>1
    <2>3. \A p \in Products \ InCart(s) : q[p] = 0
      BY <1>1
    <2> QED
      BY <1>2, <2>2, <2>3
  <1>6. q = [p \in Products |->
               IF p \in ProductsIn(rows) THEN pick[p].quantity ELSE 0]
    BY <1>1, <1>2, <1>3
  <1> HIDE DEF pick, rows
  <1>7. Shows(pg, rows)
    <2>1. \A p \in ProductsIn(rows) : pick[p].product = p
      BY <1>2, <1>3
    <2>2. pg.rows \in Merged(ProductsIn(rows))
      BY <1>5
    <2>3. pg.quantity = [p \in Products |->
                           IF p \in ProductsIn(rows) THEN pick[p].quantity ELSE 0]
      BY <1>6
    <2> QED
      BY <1>4, <2>1, <2>2, <2>3, Zenon DEF Shows
  <1> QED
    BY <1>7 DEF rows

(* A page that has just been loaded is fresh, and the others are as fresh  *)
(* as they were.                                                           *)
LEMMA LoadFresh ==
  ASSUME IInv, PageShape, PageExtras, NothingElseWaits, FreshInv,
         NEW u \in Tabs, LoadOf(u)
  PROVE  FreshInv'
  <1> SUFFICES ASSUME NEW t \in Tabs, fresh'[t] PROVE TabIsFresh(t)'
    BY DEF FreshInv
  <1> DEFINE s == sessionOf[t]
             rows == CartRows(s)
  <1>1. /\ UNCHANGED <<tables, pc, work, tx, sessionOf, sent, turn>>
        /\ s \in Sessions
    BY LoadMoves DEF PageShape
  <1>2. CartRows(sessionOf[t])' = rows
    BY <1>1 DEF CartRows, tables
  <1>3. ASSUME t # u \/ Open(u) PROVE TabIsFresh(t)'
    <2>1. page'[t] = page[t] /\ fresh[t] /\ (going'[t] = Nowhere => going[t] = Nowhere)
      <3>1. CASE Open(u)
        <4>1. PICK to \in {Place("cart")} \cup
                          {[kind |-> "product", product |-> p] : p \in Products} :
                going' = [going EXCEPT ![u] = to]
          BY <3>1 DEF Open
        <4>2. to # Nowhere
          BY <4>1 DEF Place, Nowhere
        <4> QED
          BY <3>1, <4>1, <4>2 DEF Open, PageShape
      <3>2. CASE t # u /\ ~Open(u)
        <4>1. \E pg : Show(u, pg)
          BY <3>2 DEF LoadOf, LoadCart, LoadProduct, LoadSuccess, LoadError
        <4>2. fresh'[t] = fresh[t]
          BY <3>2, <4>1 DEF Show, PageExtras
        <4> QED
          BY <3>2, <4>2, LoadMoves
      <3> QED
        BY <1>3, <3>1, <3>2
    <2>2. TabIsFresh(t)
      BY <2>1 DEF FreshInv
    <2> QED
      BY <1>1, <1>2, <2>1, <2>2 DEF TabIsFresh, RequestIsFresh
  <1>4. ASSUME NEW pg, Show(t, pg), t = u, pc[s] = "idle",
               PageIsFresh(pg, rows), ProductIsFresh(pg, rows)
        PROVE  TabIsFresh(t)'
    <2>1. page'[t] = pg
      BY <1>4 DEF Show, PageShape
    <2>2. sent'[t] = <<>>
      BY <1>1, <1>4, LoadMoves DEF NothingElseWaits
    <2>3. pc'[s] = "idle" /\ "idle" \notin CheckoutPcs
      BY <1>1, <1>4 DEF CheckoutPcs
    <2> HIDE DEF rows
    <2> QED
      BY <1>1, <1>2, <1>4, <2>1, <2>2, <2>3 DEF TabIsFresh, RequestIsFresh
  <1>5. CASE t = u /\ LoadCart(u)
    <2>0. PICK q \in Rendered(s) :
            \E R \in Merged({p \in Products : q[p] > 0}) :
              Show(t, [kind |-> "cart", product |-> NoProduct,
                       quantity |-> q, rows |-> R])
      BY <1>5 DEF LoadCart
    <2>1. PICK R \in Merged({p \in Products : q[p] > 0}) :
            Show(t, [kind |-> "cart", product |-> NoProduct,
                     quantity |-> q, rows |-> R])
      BY <2>0
    <2> DEFINE pg == [kind |-> "cart", product |-> NoProduct,
                      quantity |-> q, rows |-> R]
    <2>2. pg.kind = "cart" /\ pg.quantity = q /\ pg.rows = R /\ Show(t, pg)
      BY <2>1
    <2> HIDE DEF pg
    <2>3. Shows(pg, rows)
      BY <1>1, <2>1, <2>2, RenderedShows
    <2>4. pc[s] = "idle"
      BY <1>5 DEF LoadCart
    <2> HIDE DEF rows
    <2>5. PageIsFresh(pg, rows) /\ ProductIsFresh(pg, rows)
      BY <2>2, <2>3 DEF PageIsFresh, ProductIsFresh
    <2> QED
      BY <1>4, <1>5, <2>2, <2>4, <2>5 DEF rows
  <1>6. CASE t = u /\ LoadProduct(u)
    <2> DEFINE p == going[t].product
    <2>1. PICK q \in Rendered(s) :
            Show(t, [kind |-> "product", product |-> p,
                     quantity |-> [Zero EXCEPT ![p] = q[p]], rows |-> {p}])
      BY <1>6 DEF LoadProduct
    <2> DEFINE pg == [kind |-> "product", product |-> p,
                      quantity |-> [Zero EXCEPT ![p] = q[p]], rows |-> {p}]
    <2>2. p \in Products /\ pc[s] = "idle"
      BY <1>6 DEF LoadProduct, PageShape
    <2>3. /\ pg.kind = "product" /\ pg.product = p /\ pg.quantity[p] = q[p]
          /\ Show(t, pg)
      BY <2>1, <2>2 DEF Zero
    <2> HIDE DEF pg
    <2>4. ASSUME q[p] > 0
          PROVE  \E r \in rows : r.product = p /\ r.quantity = q[p]
      <3>1. PICK k \in [InCart(s) -> DOMAIN carrelli] :
              /\ \A x \in InCart(s) : k[x] \in CartsOf(s, x)
              /\ q = [x \in Products |->
                        IF x \in InCart(s) THEN carrelli[k[x]] ELSE 0]
        BY DEF Rendered
      <3>2. p \in InCart(s) /\ q[p] = carrelli[k[p]] /\ k[p] \in CartsOf(s, p)
        BY <2>2, <2>4, <3>1
      <3>3. [product |-> p, cart |-> k[p], quantity |-> carrelli[k[p]]] \in rows
        BY <2>2, <3>2, FoundIsRow
      <3> QED
        BY <3>2, <3>3
    <2> HIDE DEF rows
    <2>5. PageIsFresh(pg, rows) /\ ProductIsFresh(pg, rows)
      BY <2>3, <2>4 DEF PageIsFresh, ProductIsFresh
    <2> QED
      BY <1>4, <1>6, <2>2, <2>3, <2>5 DEF rows
  <1>7. CASE t = u /\ (LoadSuccess(u) \/ LoadError(u))
    <2>1. Show(u, [Blank EXCEPT !.kind = "success"]) \/ Show(u, Blank)
      BY <1>7 DEF LoadSuccess, LoadError
    <2>2. Blank.kind = "blank" /\ [Blank EXCEPT !.kind = "success"].kind = "success"
      BY DEF Blank
    <2>3. ~fresh'[u]
      BY <2>1, <2>2 DEF Show, PageExtras
    <2> QED
      BY <1>7, <2>3
  <1> QED
    BY <1>3, <1>5, <1>6, <1>7 DEF LoadOf

(* What a tab does on its own leaves the requests alone.                   *)
LEMMA BrowseKeepsRequests ==
  ASSUME PageShape, NEW t \in Tabs, Browse(t)
  PROVE  UNCHANGED <<tables, pc, work, tx, turn, sessionOf>>
  <1>1. CASE ClickOf(t)
    BY <1>1, ClickSubmits DEF Submit, vars, tables
  <1>2. CASE LoadOf(t)
    BY <1>2, LoadMoves
  <1> QED
    BY <1>1, <1>2 DEF Browse, ClickOf, LoadOf

(* Rows and counts of open checkouts stay what they are made of.           *)
LEMMA CheckoutRowsNext ==
  ASSUME IInv, PageShape, CheckoutRows, [PageNext]_allVars
  PROVE  CheckoutRows'
  <1>1. TypeOK /\ pc \in [Sessions -> {"idle"} \cup CartPcs \cup CheckoutPcs]
    BY DEF IInv, TypeOK
  <1>2. CASE UNCHANGED <<pc, work, tx>>
    BY <1>2 DEF CheckoutRows
  <1>3. ASSUME NEW s \in Sessions, Run(s) PROVE CheckoutRows'
    <2> SUFFICES ASSUME NEW z \in Sessions, pc'[z] \in CheckoutPcs
                 PROVE  /\ \A r \in tx'[z].rows : r.product \in Products /\ r.quantity >= 1
                        /\ \A p \in Products : tx'[z].taken[p] >= 0
                        /\ pc'[z] = "take" =>
                             work'[z].product \in Products /\ work'[z].quantity >= 1
      BY DEF CheckoutRows
    <2>1. CartStep(s) \/ CheckoutStep(s) \/ RequestDies(s)
      BY <1>3, RunMoves
    <2>2. CASE z = s
      BY <1>1, <2>1, <2>2, CheckoutGoesOn
    <2>3. CASE z # s
      <3>1. pc'[z] = pc[z] /\ work'[z] = work[z] /\ tx'[z] = tx[z]
        BY <1>1, <2>1, <2>3, OthersKeep
      <3> QED
        BY <3>1 DEF CheckoutRows
    <2> QED
      BY <2>2, <2>3
  <1>4. ASSUME NEW s \in Sessions, NEW f, Handle(s, f) PROVE CheckoutRows'
    <2> SUFFICES ASSUME NEW z \in Sessions, pc'[z] \in CheckoutPcs
                 PROVE  /\ \A r \in tx'[z].rows : r.product \in Products /\ r.quantity >= 1
                        /\ \A p \in Products : tx'[z].taken[p] >= 0
                        /\ pc'[z] = "take" =>
                             work'[z].product \in Products /\ work'[z].quantity >= 1
      BY DEF CheckoutRows
    <2>2. CASE z = s
      <3>1. CheckoutSelect(s)
        BY <1>1, <1>4, <2>2 DEF Handle, AddSelect, UpdateSelect, RemoveSelect, Goto,
           CheckoutPcs
      <3>2. /\ tx'[s].rows = CartRows(s) /\ tx'[s].taken = Zero /\ pc'[s] = "fetch"
            /\ \A r \in CartRows(s) : r.product \in Products /\ r.quantity >= 1
        BY <1>1, <3>1, CheckoutStarts
      <3> QED
        BY <2>2, <3>2 DEF Zero
    <2>3. CASE z # s
      <3>1. pc'[z] = pc[z] /\ work'[z] = work[z] /\ tx'[z] = tx[z]
        BY <1>1, <1>4, <2>3, OthersKeep
      <3> QED
        BY <3>1 DEF CheckoutRows
    <2> QED
      BY <2>2, <2>3
  <1>5. ASSUME NEW t \in Tabs, Receive(t) PROVE CheckoutRows'
    <2>1. \/ Handle(sessionOf[t], Head(sent[t]))
          \/ UNCHANGED <<pc, work, tx>>
      BY <1>5 DEF Receive, vars
    <2>2. sessionOf[t] \in Sessions
      BY DEF PageShape
    <2> QED
      BY <1>2, <1>4, <2>1, <2>2
  <1> QED
    BY <1>2, <1>3, <1>5, BrowseKeepsRequests DEF PageNext, allVars, vars

(* The inductive invariant of the composition.                             *)
PagesOK ==
  IInv /\ PageShape /\ PageExtras /\ NothingElseWaits /\ CheckoutRows /\ FreshInv

(* Every step keeps the fresh pages fresh.                                 *)
LEMMA FreshNext ==
  ASSUME IInv, PageShape, PageExtras, NothingElseWaits, CheckoutRows, FreshInv,
         [PageNext]_allVars
  PROVE  FreshInv'
  <1>1. CASE UNCHANGED allVars
    <2>1. /\ UNCHANGED <<carrelli, interazioni, pc, work, tx, sessionOf, page>>
          /\ UNCHANGED <<going, sent, turn, fresh>>
      BY <1>1 DEF allVars, pageVars, vars
    <2>2. \A s \in Sessions : CartRows(s)' = CartRows(s)
      BY <2>1 DEF CartRows
    <2>3. ASSUME NEW t \in Tabs, fresh'[t] PROVE TabIsFresh(t)'
      <3>1. TabIsFresh(t) /\ sessionOf[t] \in Sessions
        BY <2>1, <2>3 DEF FreshInv, PageShape
      <3>2. CartRows(sessionOf[t])' = CartRows(sessionOf[t])
        BY <2>1 DEF CartRows
      <3> QED
        BY <2>1, <3>1, <3>2 DEF TabIsFresh, RequestIsFresh
    <2> QED
      BY <2>3 DEF FreshInv
  <1>2. ASSUME NEW t \in Tabs, Browse(t) PROVE FreshInv'
    BY <1>2, LoadFresh, CartButtonsFresh, CheckoutButtonFresh,
       QuantityButtonsFresh, AddButtonFresh DEF Browse, LoadOf
  <1> QED
    BY <1>1, <1>2, ReceiveFresh, RunFresh DEF PageNext

(* A page that nothing has overtaken agrees with the tables, as do the     *)
(* forms that it has sent and the request they started: for any number of  *)
(* tabs, sessions, products and clicks.                                    *)
THEOREM PagesStayFresh == PageSpec => []PagesOK
  <1> DEFINE J == IInv /\ PageShape /\ PageExtras
             K == NothingElseWaits /\ CheckoutRows /\ FreshInv
  <1>1. PageInit => K
    <2> SUFFICES ASSUME PageInit PROVE K
      OBVIOUS
    <2>1. /\ \A t \in Tabs : ~fresh[t] /\ sent[t] = <<>>
          /\ \A s \in Sessions : turn[s] = NoTurn /\ pc[s] = "idle"
      BY DEF PageInit, Init
    <2>2. "idle" \notin CheckoutPcs /\ NoTurn.tab = NoTab /\ NoTab \notin Tabs
      BY PageAssumption DEF PageAssumption, CheckoutPcs, NoTurn
    <2> QED
      BY <2>1, <2>2 DEF NothingElseWaits, CheckoutRows, FreshInv
  <1>2. J /\ K /\ [PageNext]_allVars => K'
    BY WaitsNext, CheckoutRowsNext, FreshNext
  <1>3. J /\ K => PagesOK
    BY DEF PagesOK
  <1> HIDE DEF J, K
  <1>4. PageSpec => []J
    BY PagesTyped, PTL DEF J
  <1> QED
    BY <1>1, <1>2, <1>3, <1>4, PTL DEF PageSpec

-----------------------------------------------------------------------------
(* Only the request of a session ends it.                                  *)
LEMMA OnlyRunEnds ==
  ASSUME IInv, PageShape, [PageNext]_allVars, NEW s \in Sessions,
         pc[s] # "idle", pc'[s] = "idle"
  PROVE  Run(s)
  <1>1. TypeOK
    BY DEF IInv
  <1>2. ASSUME UNCHANGED pc PROVE FALSE
    BY <1>2
  <1>3. ASSUME NEW z \in Sessions, Run(z), z # s PROVE FALSE
    BY <1>1, <1>3, RunMoves, OthersKeep
  <1>4. ASSUME NEW t \in Tabs, Receive(t) PROVE FALSE
    <2>1. Handle(sessionOf[t], Head(sent[t]))
      BY <1>2, <1>4 DEF Receive, vars
    <2>2. sessionOf[t] \in Sessions
      BY DEF PageShape
    <2>3. sessionOf[t] # s
      BY <1>1, <2>1, <2>2, HandleStarts
    <2> QED
      BY <1>1, <2>1, <2>2, <2>3, OthersKeep
  <1> QED
    BY <1>2, <1>3, <1>4, BrowseKeepsRequests DEF PageNext, allVars, vars

(* The step that takes a tab to the success page is a commit.              *)
LEMMA SuccessCommits ==
  ASSUME PageShape, NEW s \in Sessions, Run(s),
         going[turn[s].tab].kind = "answer",
         going'[turn[s].tab].kind = "success"
  PROVE  Commit(s)
  <1> DEFINE t == turn[s].tab
  <1>1. t \in Tabs /\ Back(t).kind # "success"
    <2>1. t \in Tabs
      BY RunMoves
    <2>2. page[t].kind \in {"cart", "product"}
      BY <2>1 DEF PageShape
    <2> QED
      BY <2>1, <2>2 DEF Back
  <1>2. \A to : Answer(t, sent[t], to) => to.kind = "success"
    BY <1>1, AnswerMoves
  <1>3. Place("cart").kind # "success" /\ Place("error").kind # "success"
    BY DEF Place
  <1>4. going' # going
    OBVIOUS
  <1> QED
    BY <1>1, <1>2, <1>3, <1>4 DEF Run, Continue, Finish, AfterRollback

(* A checkout that was sent from a page that is still up to date sells     *)
(* something when it commits, for any number of tabs and sessions; only a  *)
(* page that something has overtaken can lead to the success page for an   *)
(* empty cart.                                                             *)
THEOREM FreshSuccessSells == PageSpec => SuccessIsASale
  <1> DEFINE A == \A s \in Sessions :
       /\ pc[s] = "fetch" /\ pc'[s] = "idle"
       /\ going[turn[s].tab].kind = "answer"
       /\ going'[turn[s].tab].kind = "success"
       /\ fresh[turn[s].tab]
       => stock' # stock
  <1>1. PagesOK /\ [PageNext]_allVars => A
    <2> SUFFICES ASSUME IInv, PageShape, PageExtras, NothingElseWaits,
                        CheckoutRows, FreshInv, [PageNext]_allVars,
                        NEW s \in Sessions, pc[s] = "fetch", pc'[s] = "idle",
                        going[turn[s].tab].kind = "answer",
                        going'[turn[s].tab].kind = "success",
                        fresh[turn[s].tab]
                 PROVE  stock' # stock
      BY DEF PagesOK
    <2> DEFINE t == turn[s].tab
    <2>1. Run(s)
      BY OnlyRunEnds
    <2>2. Commit(s)
      BY <2>1, SuccessCommits
    <2>3. t \in Tabs /\ sessionOf[t] = s
      BY <2>1, RunMoves
    <2>4. WillSell(tx[s], pc[s])
      BY <2>3 DEF FreshInv, TabIsFresh, RequestIsFresh, CheckoutPcs
    <2>5. PICK p \in Products : tx[s].taken[p] > 0
      BY <2>2, <2>4 DEF WillSell, Commit
    <2>6. stock[p] \in Int /\ tx[s].taken[p] \in Int
      BY DEF IInv, TypeOK, Transactions
    <2>7. stock'[p] = stock[p] - tx[s].taken[p]
      BY <2>2 DEF Commit
    <2> QED
      BY <2>5, <2>6, <2>7
  <1>2. PageSpec => [][A]_allVars
    BY <1>1, PagesStayFresh, PTL DEF PageSpec
  <1> QED
    BY <1>2 DEF SuccessIsASale

(* A click on minus or plus changes the quantity in the table by one, and  *)
(* minus leaves a single unit alone, if nothing has overtaken the page     *)
(* when the UPDATE runs; for any number of tabs, sessions and products.    *)
THEOREM FreshClickCountsOnce == PageSpec => ClickCountsOnce
  <1> DEFINE A == \A s \in Sessions :
       LET t == turn[s].tab
           c == work[s].cart IN
       /\ pc[s] = "update_quantity" /\ pc'[s] = "idle"
       /\ fresh[t] /\ going[t].kind = "answer" /\ going'[t] = Back(t)
       /\ c \in DOMAIN carrelli' /\ OneLineEach(s)
       => carrelli'[c] = IF carrelli[c] = 1 /\ turn[s].by = -1 THEN 1
                         ELSE carrelli[c] + turn[s].by
  <1>1. PagesOK /\ [PageNext]_allVars => A
    <2> SUFFICES ASSUME IInv, PageShape, PageExtras, NothingElseWaits,
                        CheckoutRows, FreshInv, [PageNext]_allVars,
                        NEW s \in Sessions,
                        pc[s] = "update_quantity", pc'[s] = "idle",
                        fresh[turn[s].tab],
                        going[turn[s].tab].kind = "answer",
                        going'[turn[s].tab] = Back(turn[s].tab),
                        work[s].cart \in DOMAIN carrelli', OneLineEach(s)
                 PROVE  carrelli'[work[s].cart] =
                          IF carrelli[work[s].cart] = 1 /\ turn[s].by = -1
                          THEN 1 ELSE carrelli[work[s].cart] + turn[s].by
      BY Zenon DEF PagesOK
    <2> DEFINE t == turn[s].tab
               c == work[s].cart
    <2>1. Run(s)
      BY OnlyRunEnds
    <2>2. t \in Tabs /\ sessionOf[t] = s
      BY <2>1, RunMoves
    <2>3. ~Finish(s, RequestDies(s), Place("error"))
      <3> SUFFICES ASSUME Finish(s, RequestDies(s), Place("error")) PROVE FALSE
        OBVIOUS
      <3>1. page[t].kind \in {"cart", "product"}
        BY <2>2 DEF PageShape
      <3>2. going'[t].kind = page[t].kind
        BY DEF Back
      <3>3. Answer(t, sent[t], Place("error"))
        BY DEF Finish
      <3>4. going'[t] = going[t] \/ going'[t] = Place("error")
        BY <2>2, <3>3, AnswerMoves
      <3>5. Place("error").kind = "error"
        BY DEF Place
      <3> QED
        BY <3>1, <3>2, <3>4, <3>5
    <2>4. WriteQuantity(s)
      <3>1. CartStep(s) \/ CheckoutStep(s)
        BY <2>1, <2>3 DEF Run, Continue, Finish, CheckoutStep
      <3> QED
        BY <3>1 DEF CartStep, CheckoutStep, AddIncrease, AddCart, AddLine,
           UpdateQuantity, RemoveLine, RemoveCart, FetchRow, TakeStock, UnlinkLine,
           CloseCart, Commit, RollbackOutOfStock, CheckoutException, CheckoutPcs
    <2>5. c \in DOMAIN carrelli /\ carrelli'[c] = work[s].quantity
      BY <2>4 DEF WriteQuantity
    <2>6. UpdateIsFresh(work[s], turn[s].by, CartRows(s))
      BY <2>2 DEF FreshInv, TabIsFresh, RequestIsFresh
    <2>7. PICK r \in CartRows(s) :
            r.cart = c /\ work[s].quantity = EffectiveQuantity(r.quantity + turn[s].by)
      BY <2>6 DEF UpdateIsFresh, OneLineIn, OneLineEach
    <2>8. r.quantity = carrelli[c]
      BY <2>7, CartRowsAre DEF IInv
    <2>9. carrelli[c] \in Nat \ {0} /\ turn[s].by \in {-1, 0, 1}
      BY <2>5 DEF IInv, TypeOK, PageShape
    <2> QED
      BY <2>5, <2>7, <2>8, <2>9 DEF EffectiveQuantity
  <1>2. PageSpec => [][A]_allVars
    BY <1>1, PagesStayFresh, PTL DEF PageSpec
  <1> QED
    BY <1>2 DEF ClickCountsOnce

-----------------------------------------------------------------------------
(* A cart has finitely many rows: there is one for each product and cart,  *)
(* at most.                                                                *)
LEMMA CartIsFinite ==
  ASSUME TypeOK, NEW s
  PROVE  IsFiniteSet(CartRows(s))
  <1> DEFINE rows == CartRows(s)
             T == Products \X (1 .. nextCart - 1)
             h == [r \in rows |-> <<r.product, r.cart>>]
  <1>1. IsFiniteSet(T)
    <2>1. IsFiniteSet(Products)
      BY PageAssumption DEF PageAssumption
    <2>2. IsFiniteSet(1 .. nextCart - 1)
      <3> DEFINE b == nextCart - 1
      <3>1. b \in Int /\ 1 \in Int
        BY DEF TypeOK
      <3> HIDE DEF b
      <3>2. IsFiniteSet(1 .. b)
        BY <3>1, FS_Interval
      <3> QED
        BY <3>2 DEF b
    <2> QED
      BY <2>1, <2>2, FS_Product
  <1>2. \A r \in rows : h[r] = <<r.product, r.cart>> /\ h[r] \in T
    BY CartRowsAre DEF TypeOK
  <1>3. ASSUME NEW r \in rows, NEW q \in rows, h[r] = h[q] PROVE r = q
    <2>1. r.product = q.product /\ r.cart = q.cart
      BY <1>2, <1>3
    <2>2. r.quantity = q.quantity
      BY <2>1, CartRowsAre
    <2>3. /\ r = [product |-> r.product, cart |-> r.cart, quantity |-> r.quantity]
          /\ q = [product |-> q.product, cart |-> q.cart, quantity |-> q.quantity]
      BY CartRowsAre
    <2> QED
      BY <2>1, <2>2, <2>3
  <1>4. h \in Injection(rows, T)
    BY <1>2, <1>3 DEF Injection, IsInjective
  <1> HIDE DEF h, T, rows
  <1>5. IsFiniteSet(rows)
    BY <1>1, <1>4, FS_Injection
  <1> QED
    BY <1>5 DEF rows

(* The values of the rows in R are the sums of f over their classes.       *)
Divided(f, U, R, G, g, M) ==
  /\ IsFiniteSet(U) /\ IsFiniteSet(R)
  /\ \A x \in U : f[x] \in Int
  /\ \A r \in R : G[r] \subseteq U
  /\ \A r \in R : \A q \in R : r # q => G[r] \cap G[q] = {}
  /\ \A r \in R : g[r] = SumFunctionOnSet(f, G[r])
  /\ M = UNION {G[r] : r \in R}

(* Their sum is the sum of f over all the classes.                         *)
LEMMA SumOfDivision ==
  ASSUME NEW f, NEW U, NEW R, NEW G, NEW g, NEW M, Divided(f, U, R, G, g, M)
  PROVE  SumFunctionOnSet(g, R) = SumFunctionOnSet(f, M)
  <1>1. /\ IsFiniteSet(U) /\ IsFiniteSet(R)
        /\ \A x \in U : f[x] \in Int
        /\ \A r \in R : G[r] \subseteq U
        /\ \A r \in R : \A q \in R : r # q => G[r] \cap G[q] = {}
        /\ \A r \in R : g[r] = SumFunctionOnSet(f, G[r])
        /\ M = UNION {G[r] : r \in R}
    BY DEF Divided
  <1>2. SumFunctionOnSet(g, R) = SumFunctionOnSet(f, UNION {G[r] : r \in R})
    BY <1>1, SumOfClasses
  <1> QED
    BY <1>1, <1>2

(* The prices of the units of each product on a page.                      *)
Priced(pg) == [p \in Products |-> PriceOf[p] * pg.quantity[p]]

(* The total of a page is the sum of the prices over the products that it  *)
(* shows, although the rows with one name are counted at one price.        *)
LEMMA TotalIsSum ==
  ASSUME NEW pg \in Pages, NEW P \in SUBSET Products, pg.rows \in Merged(P),
         \A p \in Products \ P : pg.quantity[p] = 0,
         \A p \in P : \A q \in P : NameOf[p] = NameOf[q] => PriceOf[p] = PriceOf[q]
  PROVE  Total(pg) = SumFunctionOnSet(Priced(pg), P)
  <1> DEFINE R == pg.rows
             f == Priced(pg)
             G == [r \in R |-> {q \in Products : NameOf[q] = NameOf[r]}]
             g == [r \in R |-> PriceOf[r] * ShownQuantity(pg, r)]
             M == UNION {G[r] : r \in R}
  <1>1. /\ R \subseteq P
        /\ \A p \in P : \E r \in R : NameOf[r] = NameOf[p]
        /\ \A p, q \in R : NameOf[p] = NameOf[q] => p = q
    BY PageAssumption, MergedNames
  <1>2. /\ IsFiniteSet(Products) /\ PriceOf \in [Products -> Nat]
        /\ pg.quantity \in [Products -> Nat]
    BY PageAssumption DEF PageAssumption, Pages
  <1>3. \A p \in Products : f[p] = PriceOf[p] * pg.quantity[p] /\ f[p] \in Int
    BY <1>2 DEF Priced
  <1>4. IsFiniteSet(R)
    BY <1>1, <1>2, FS_Subset
  <1>5. \A r \in R : G[r] = {q \in Products : NameOf[q] = NameOf[r]}
    OBVIOUS
  <1>6. \A r \in R : G[r] \subseteq Products
    BY <1>5
  <1>7. \A r \in R : \A q \in R : r # q => G[r] \cap G[q] = {}
    BY <1>1, <1>5
  <1>8. ASSUME NEW r \in R PROVE g[r] = SumFunctionOnSet(f, G[r])
    <2> DEFINE S == G[r]
               u == pg.quantity
               k == PriceOf[r]
    <2>1. IsFiniteSet(S)
      BY <1>2, <1>6, FS_Subset
    <2>2. \A q \in S : u[q] \in Int
      BY <1>2, <1>6
    <2>3. k \in Int
      BY <1>1, <1>2
    <2>4. ASSUME NEW q \in S PROVE f[q] = k * u[q]
      <3>1. q \in Products /\ NameOf[q] = NameOf[r] /\ r \in P
        BY <1>1, <1>5
      <3>2. CASE q \in P
        <4>1. PriceOf[q] = PriceOf[r]
          BY <3>1, <3>2
        <4> QED
          BY <1>3, <3>1, <4>1
      <3>3. CASE q \notin P
        <4>1. u[q] = 0
          BY <3>1, <3>3
        <4>2. f[q] = PriceOf[q] * 0 /\ PriceOf[q] \in Nat
          BY <1>2, <1>3, <3>1, <4>1
        <4> QED
          BY <2>3, <4>1, <4>2
      <3> QED
        BY <3>2, <3>3
    <2>5. g[r] = k * ShownQuantity(pg, r)
      OBVIOUS
    <2>6. ShownQuantity(pg, r) = SumFunctionOnSet(u, S)
      BY <1>5 DEF ShownQuantity
    <2> HIDE DEF S, u, k, f, g, G
    <2>7. SumFunctionOnSet(f, S) = k * SumFunctionOnSet(u, S)
      BY <2>1, <2>2, <2>3, <2>4, SumScaled
    <2> QED
      BY <2>5, <2>6, <2>7 DEF S
  <1>9. Total(pg) = SumFunctionOnSet(g, R)
    BY DEF Total, SumFunction
  <1>10. P \subseteq M /\ M \subseteq Products
    <2>1. M \subseteq Products
      BY <1>6
    <2>2. ASSUME NEW p \in P PROVE p \in M
      <3>1. PICK r \in R : NameOf[r] = NameOf[p]
        BY <1>1
      <3>2. p \in G[r]
        BY <1>5, <3>1
      <3> QED
        BY <3>2
    <2> QED
      BY <2>1, <2>2
  <1>11. \A p \in M \ P : f[p] = 0
    <2> SUFFICES ASSUME NEW p \in M \ P PROVE f[p] = 0
      OBVIOUS
    <2>1. p \in Products \ P
      BY <1>10
    <2>2. f[p] = PriceOf[p] * 0 /\ PriceOf[p] \in Nat
      BY <1>2, <1>3, <2>1
    <2> QED
      BY <2>2
  <1> HIDE DEF f, g, G, R
  <1>12. SumFunctionOnSet(g, R) = SumFunctionOnSet(f, M)
    <2>1. \A p \in Products : f[p] \in Int
      BY <1>3
    <2>2. IsFiniteSet(Products)
      BY <1>2
    <2>3. \A r \in R : g[r] = SumFunctionOnSet(f, G[r])
      BY <1>8
    <2>4. Divided(f, Products, R, G, g, M)
      BY <1>4, <1>6, <1>7, <2>1, <2>2, <2>3, Zenon DEF Divided
    <2> HIDE DEF M
    <2> QED
      BY <2>4, SumOfDivision
  <1> DEFINE N == M \ P
  <1>13. /\ IsFiniteSet(P) /\ IsFiniteSet(N) /\ P \cap N = {} /\ M = P \cup N
         /\ \A p \in P \cup N : f[p] \in Int
    BY <1>2, <1>3, <1>10, FS_Subset
  <1> HIDE DEF M
  <1>14. \A p \in N : f[p] = 0
    BY <1>11
  <1> HIDE DEF N
  <1>15. SumFunctionOnSet(f, P \cup N) =
           SumFunctionOnSet(f, P) + SumFunctionOnSet(f, N)
    BY <1>13, SumUnion
  <1>16. SumFunctionOnSet(f, N) = 0
    BY <1>13, <1>14, SumZero
  <1>17. SumFunctionOnSet(f, P) \in Int
    BY <1>13, SumType
  <1> QED
    BY <1>9, <1>12, <1>13, <1>15, <1>16, <1>17 DEF f

(* One row of each product in the cart costs as much as all of them if     *)
(* there is only one, and never more.                                      *)
LEMMA PickedIsCharged ==
  ASSUME NEW rows, IsFiniteSet(rows), NEW price,
         \A r \in rows : price[r] \in Nat,
         NEW pick \in [ProductsIn(rows) -> rows],
         \A p \in ProductsIn(rows) : pick[p].product = p,
         NEW f, \A p \in ProductsIn(rows) : f[p] = price[pick[p]]
  PROVE  /\ SumFunctionOnSet(f, ProductsIn(rows)) <= SumFunctionOnSet(price, rows)
         /\ OneLineIn(rows) =>
              SumFunctionOnSet(f, ProductsIn(rows)) = SumFunctionOnSet(price, rows)
  <1> DEFINE P == ProductsIn(rows)
             X == {pick[p] : p \in P}
             Y == rows \ X
             c == [p \in P |-> price[pick[p]]]
  <1>1. \A p \in P : pick[p] \in rows /\ price[pick[p]] \in Int
    OBVIOUS
  <1>2. \A p \in P : \A q \in P : pick[p] = pick[q] => p = q
    OBVIOUS
  <1>3. pick \in Injection(P, rows)
    BY <1>2 DEF Injection, IsInjective
  <1>4. /\ X \subseteq rows /\ Y \subseteq rows /\ X \cap Y = {}
        /\ rows = X \cup Y
    BY <1>1
  <1>5. OneLineIn(rows) => Y = {}
    <2> SUFFICES ASSUME OneLineIn(rows), NEW r \in rows PROVE r \in X
      OBVIOUS
    <2>1. r.product \in P
      BY DEF ProductsIn
    <2>2. pick[r.product] = r
      BY <1>1, <2>1 DEF OneLineIn
    <2> QED
      BY <2>1, <2>2
  <1>6. \A p \in P : f[p] = c[p]
    OBVIOUS
  <1> HIDE DEF P
  <1>7. IsFiniteSet(P)
    BY <1>3, FS_Injection
  <1>8. SumFunctionOnSet(price, X) = SumFunctionOnSet(c, P)
    BY <1>1, <1>2, <1>7, SumRenamed
  <1> HIDE DEF X, c
  <1>9. SumFunctionOnSet(f, P) = SumFunctionOnSet(c, P)
    BY <1>6, <1>7, SumEqual
  <1>10. IsFiniteSet(X) /\ IsFiniteSet(Y)
    BY <1>4, FS_Subset
  <1>11. /\ \A r \in X \cup Y : price[r] \in Int
         /\ \A r \in X : price[r] \in Int
         /\ \A r \in Y : price[r] \in Nat
    BY <1>4
  <1> HIDE DEF Y
  <1>12. SumFunctionOnSet(price, X \cup Y) =
           SumFunctionOnSet(price, X) + SumFunctionOnSet(price, Y)
    BY <1>4, <1>10, <1>11, SumUnion
  <1>13. SumFunctionOnSet(price, X) \in Int /\ SumFunctionOnSet(price, Y) \in Nat
    BY <1>10, <1>11, SumType, SumNotNegative
  <1>14. Y = {} => SumFunctionOnSet(price, Y) = 0
    BY SumEmpty
  <1> DEFINE a == SumFunctionOnSet(price, X)
             b == SumFunctionOnSet(price, Y)
             all == SumFunctionOnSet(price, rows)
  <1>15. SumFunctionOnSet(f, P) = a
    BY <1>8, <1>9
  <1>16. all = a + b
    BY <1>4, <1>12, Zenon
  <1>17. a \in Int /\ b \in Nat /\ (OneLineIn(rows) => b = 0)
    BY <1>5, <1>13, <1>14
  <1> HIDE DEF a, b, all
  <1>18. a <= all /\ (OneLineIn(rows) => a = all)
    BY <1>16, <1>17
  <1> QED
    BY <1>15, <1>18, Zenon DEF P, all

(* The total of a page that nothing has overtaken is the price of what its *)
(* checkout would sell if every product has one line, and never more, for  *)
(* any number of products, platforms, lines and tabs.                      *)
THEOREM FreshTotalsAreCharged == PageSpec => []TotalIsCharge
  <1>1. PagesOK => TotalIsCharge
    <2> SUFFICES ASSUME IInv, PageShape, FreshInv, NEW t \in Tabs, fresh[t],
                        page[t].kind = "cart", OnePriceEach(sessionOf[t])
                 PROVE  /\ Total(page[t]) <= Charge(sessionOf[t])
                        /\ OneLineEach(sessionOf[t]) =>
                             Total(page[t]) = Charge(sessionOf[t])
      BY DEF PagesOK, TotalIsCharge
    <2> DEFINE s == sessionOf[t]
               pg == page[t]
               rows == CartRows(s)
               P == ProductsIn(rows)
               f == Priced(pg)
               price == [r \in rows |-> PriceOf[r.product] * r.quantity]
    <2>1. pg \in Pages /\ TypeOK
      BY DEF PageShape, IInv
    <2>2. PICK pick \in [P -> rows] :
            /\ \A p \in P : pick[p].product = p
            /\ pg.quantity = [p \in Products |->
                                IF p \in P THEN pick[p].quantity ELSE 0]
            /\ pg.rows \in Merged(P)
      BY DEF FreshInv, TabIsFresh, PageIsFresh, Shows
    <2>3. P \subseteq Products /\ P = InCart(s)
      BY DEF ProductsIn, CartRows, InCart
    <2>4. \A p \in P : \A q \in P : NameOf[p] = NameOf[q] => PriceOf[p] = PriceOf[q]
      BY <2>3 DEF OnePriceEach
    <2>5. IsFiniteSet(rows)
      BY <2>1, CartIsFinite
    <2>6. \A r \in rows : price[r] \in Nat
      <3>1. \A r \in rows : PriceOf[r.product] \in Nat /\ r.quantity \in Nat
        BY <2>1, PageAssumption, CartRowsAre DEF PageAssumption
      <3> QED
        BY <3>1
    <2>7. \A p \in P : f[p] = price[pick[p]]
      BY <2>2, <2>3 DEF Priced
    <2>8. \A p \in Products \ P : pg.quantity[p] = 0
      BY <2>2
    <2>9. Charge(s) = SumFunctionOnSet(price, rows)
      BY DEF Charge, SumFunction
    <2>10. OneLineEach(s) <=> OneLineIn(rows)
      BY DEF OneLineEach, OneLineIn
    <2> HIDE DEF rows, price, f, pg, s
    <2>11. /\ SumFunctionOnSet(f, P) <= SumFunctionOnSet(price, rows)
           /\ OneLineIn(rows) =>
                SumFunctionOnSet(f, P) = SumFunctionOnSet(price, rows)
      BY <2>2, <2>5, <2>6, <2>7, PickedIsCharged
    <2> HIDE DEF P
    <2>12. Total(pg) = SumFunctionOnSet(f, P)
      BY <2>1, <2>2, <2>3, <2>4, <2>8, TotalIsSum DEF f
    <2> QED
      BY <2>9, <2>10, <2>11, <2>12 DEF pg, s
  <1> QED
    BY <1>1, PagesStayFresh, PTL

=============================================================================
