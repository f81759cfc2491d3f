# RunGame: a TLA+ model of the shop

RunGame is a small video game shop: PHP pages and request handlers over one
MySQL database, and a few scripts in the browser (`src/files_web`). This
directory holds TLA+ modules that model its request handlers statement by
statement, TLC configurations that check them on small instances, and TLAPS
proofs that hold for every size. Paths below are relative to `src/files_web`.

## 1. Inventory

There is no long-running program. Apache (`mpm_winnt`, 64 worker threads) runs
a PHP script per request; every script opens its own mysqli connection. All
shared state is in MySQL, in the PHP session files and in the browser.

| Component | State | Operations | Status |
|---|---|---|---|
| Cart and checkout: `php_files/cart_actions_handler.php`, included by `pagine/carrello.php` and `pagine/mostra-prodotti.php`; `php_files/checkout_succes.php` | `carrelli`, `interazioni`, `prodotti.quantitaDisponibile`, `$_SESSION['checkout_success']` | add, update, remove, checkout, show the confirmation | modelled: `Cart` |
| Profile picture: `change_profile_img.php`, `get_profile_img.php` | `Immagini`, `Utenti.FKimmagineProfilo` | upload, remove, show | modelled: `ProfileImage` |
| Accounts: `register_handler.php`, `verifica_handler.php`, `login_handler.php`, `logout.php`, `update_email.php`, `update_password.php` | `Utenti`, `$_SESSION['username']`, `$_SESSION['userId']`, the mailbox | register, verify, log in and out, change email and password | modelled: `Account` |
| Cart page: `get_cart.php`, `carrello.php`, `js/change_cart_total.js`, `checkout_succes.php` | the rendered rows and total, the forms of each tab, its navigation | render, merge rows, add up, post forms, confirm | modelled: `CartPage` over `Cart` |
| Product page: `mostra-prodotti.php`, `js/product_functions.js`, `js/seleziona_quantita.js` | the rendered quantity; rows `visualizzato` | render, count a visit, quantity buttons, two click listeners on one button | partly: `CartPage` (buttons), `Catalog` (visit, history); the sections of related games are only printed |
| Catalogue: `catalogo.php`, menus of `header_check.php` | none | filter, count, list, page links | modelled: `Catalog` |
| Recommendations and history: `get_suggested_products.php`, `get_history.php` | reads `interazioni` and `appartenenze` | two queries | modelled: `Catalog` |
| Slider, theme, menus: `js/slider_addimage.js`, `js/theme_toggle.js`, `js/dropdown_botton.js`, the script of `logout.php` | the DOM of a page, `localStorage` | clicks, timers, one fetch, navigation | modelled: `Slider`, `HomePage` |
| Administration: `add_prodotto.php`, `add_img.php` | `prodotti`, `immagini` | several INSERTs per request | modelled: `Catalog` |
| Pages that only print (`index`, `profilo`, `impostazioni`, `login`, `register`, `verifica`, `contact`, `news`, `pagamento`, header, footer) | none | | not modelled: markup, or one SELECT that is printed |
| `apache/`, `php/` | | | not modelled: third-party servers; their settings are assumptions below |

How the parts interact: the handlers meet only in the database and, for one
browser, in the session. The cart pages include the handler before they render,
so that each page is a copy of the cart of some earlier moment. The catalogue, the
product pages and the suggestions read what the administration forms write, with
nothing to hold them together. All tabs of a browser share its session and its `localStorage`. The profile and
account handlers share the table `Utenti`, in different columns.

What is hard here:

* **Interleaving.** Requests of different sessions run at once. Requests of one
  session do not, because `session_start()` locks the session file until the
  script ends. One user may have several sessions.
* **Transactions.** Only checkout uses one. Its reads come from a snapshot, its
  writes lock rows and act on the rows of now, and two of them can deadlock.
* **Failure.** A statement that fails throws `mysqli_sql_exception`, which
  only checkout catches. Elsewhere the script dies between two writes.
* **Stale data.** Quantities, identifiers and hashes are read by one statement
  and used by a later one, or rendered on a page and posted back from it.
* **The browser.** A click may submit two forms, a later navigation cancels an
  earlier one or hides its answer, and clicks, timers and answers interleave.

`PROJECT.json` lists each of these hazards at its line.

### Assumptions about the environment

* InnoDB at its default isolation level, REPEATABLE READ. The foreign key in
  `apache/Apache24/logs/error.log` shows that the tables are InnoDB.
* `session.save_handler = files` (`php/php.ini`), hence one request per session
  at a time.
* The schema is not in the repository. No unique index on `Utenti.username` is
  assumed. `quantitaDisponibile` is taken as signed: were it UNSIGNED, the losing
  checkout of run `cart_oversold` would end in `CheckoutException` instead.
* `sql_mode` without `ONLY_FULL_GROUP_BY`, or most queries here would fail: a
  column outside GROUP BY is that of any row of its group.
* Timers of one length end in the order in which they were set; a browser shows
  the answer of the last navigation of a tab only, and a form whose request has not left
  yet may be cancelled by the next one. Pages restored by the back button are left
  out: they are one more stale page, and `CartPage` has stale pages.
* A locking read or write waits for row locks. Gap locks and the shared locks
  of foreign keys are left out: they only delay the INSERTs of `add`.

## 2. Modules

| Module | Contents |
|---|---|
| `Cart` | one action per SQL statement of the four cart actions |
| `Shop` | abstract: a quantity per user and product, a stock, sales that are all or nothing |
| `CartRefinesShop` | the refinement mapping from `Cart` to `Shop` |
| `MCCart` | constants for TLC |
| `CartProofs` | the inductive invariant of `Cart` and its theorems |
| `CartOwnProofs` | theorems about `Cart` when each user has one session, and the proof that it then implements `Shop` |
| `ProfileImage`, `MCProfileImage`, `ProfileImageProofs` | the profile picture |
| `Account`, `MCAccount`, `AccountProofs` | accounts |
| `CartPage`, `MCCartPage`, `CartPageProofs` | composes browser tabs with `Cart` |
| `Catalog`, `MCCatalog`, `CatalogProofs` | products, catalogue, visits, suggestions |
| `Slider` | the slider of the home page by itself |
| `HomePage`, `MCHomePage`, `HomePageProofs` | composes `Slider` with menus, theme and navigation |
| `SumTheorems` | laws of the sums (`SumFunction`, `SumFunctionOnSet`) that `CartPage` and `Slider` are written with |

### Cart

`stock`, `carrelli`, `interazioni` and `nextCart` are the committed tables
(`interazioni` only holds the rows with `tipologia = 'carrello'`). `pc[s]` names
the next statement of the request of session `s`, `work[s]` the row it holds in
PHP variables, `tx[s]` its transaction: the stock its snapshot shows, the
rows of the result not yet fetched, its uncommitted decrements and deletions.
A row lock is held by the transaction that has written the row
(`ProductLocked`, `LineLocked`, `CartLocked`).

| Code (`cart_actions_handler.php`) | Actions |
|---|---|
| `case 'add'`, 14-54 | `AddSelect`, then `AddIncrease` or `AddCart`, `AddLine` |
| `case 'update'`, 56-93 | `UpdateSelect`, `UpdateQuantity` |
| `case 'remove'`, 95-124 | `RemoveSelect`, `RemoveLine`, `RemoveCart` |
| `case 'checkout'`, 125-206 | `CheckoutSelect`, then per row `FetchRow`, `TakeStock`, `UnlinkLine`, `CloseCart`; then `Commit`, `RollbackOutOfStock` or `CheckoutException` |
| end of a script in between | `RequestDies` |
| `checkout_succes.php` | `ShowSuccess` |

The rows of a result are fetched in any order (there is no ORDER BY). A posted
quantity passes through `EffectiveQuantity` (line 6); the branch for a quantity
of zero (74-84) is therefore never taken and has no action. A request that finds
no line to update or remove changes nothing and is left out. A product id may be
posted that is not a product (`PostedIds`): the button of the product page does that.
After COMMIT the script may die before the session is saved (`Confirmed`).

`delivered` and `abandoned` are history variables: what was in the carts that
committed checkouts deleted, and the carts whose request died between its two
writes.

### ProfileImage

`profile` is `Utenti.FKimmagineProfilo`, `images` the rows of `Immagini` with
(history) their uploader. Upload is `ChangeSelect`, `InsertImage`, `LinkImage`,
`DeleteOldImage`; removal `RemoveSelect`, `ClearProfile`, `DeleteRemovedImage`; the view
`ShowSelect`, `ShowImage`. There is no transaction, so that `RequestDies` between any two
of them keeps what was written. `abandoned` and `overtaken` are history: pictures that a dead request was about
to link or delete, and pictures that a request of another browser displaced from the profile without knowing of them, so that
it deletes an older one instead.

### Account

`utenti` are the rows by `userId`; a stored hash is represented by its password, as
`password_verify` is the only use of it. `mailed` (whose code arrived), `told`
(whom the login page sent to the mailbox), `posted` (codes that were
entered), `seen` (how many rows there were when the SELECT of a row's registration ran) and `written` (which rows a
session of which `userId` has changed) are history. A SELECT by username takes any row of that name, since the
handlers fetch the first one; an UPDATE by username changes all of them.

### CartPage

Extends `Cart` with tabs: `page[t]` is what tab `t` shows, `going[t]` the navigation
it waits for, `sent[t]` the forms that are on their way, `turn[s]` the tab that the
request of session `s` came from. The server side of a step is an action of `Cart`,
composed by `Receive` (first statement), `Continue` and `Finish` (last one, with the
redirect). Requests of two tabs of one session wait for each other as in `Cart`.

| Code | Actions |
|---|---|
| `get_cart.php` and `carrello.php`, 80-122 | `LoadCart`, with `Rendered` (GROUP BY takes any line of a product) |
| `change_cart_total.js`, 59-92 | `Merged`, `ShownQuantity`, `Total` |
| forms of `carrello.php`, 92-133 | `CartButtons`, `CheckoutButton` |
| `mostra-prodotti.php`, 42-69 and 219-250 | `LoadProduct`, `QuantityButtons`, `AddButton` |
| two listeners of `#addToCartBtn` | `AddForms`: a form without a product and one with it |
| `checkout_succes.php` | `LoadSuccess`, also without the flag |

`Submit` keeps any suffix of the forms of a click, because each `form.submit()` may cancel
the one before. Both scripts of the product page define `addToCart` and `updateCart`;
the later one, `product_functions.js`, wins. `fresh`, `asked` and `clicks` are history: the page shows
the cart as it is and at most one form has left it; the units that each user has asked for by clicks; the bound.

### Catalog

`prodotti` is the table by `productId`, `immagini` the products with a picture,
`appartenenze` the categories (no script of the repository writes them, so `Classify` is external),
`interazioni` counts visits. A page of the catalogue is `Count` and then `List`, with any
step of the administrator in between; a form of `add_prodotto.php` is `Submit`, one
`InsertProduct` per platform, `EndSubmit`, or `SubmitDies`. The check for an administrator is commented
out there, so that several sessions (`Admins`) may post at once, each one request at a time. The page of a product is
`ReadHistory` (`get_history.php`, included first) and then `RecordVisit` (`mostra-prodotti.php`, 33-40), with requests
of the user's other browsers in between. LIMIT without ORDER BY lists any
games of the right number; `LinksOf` is the MIN of the product with the platform of any row of the
group; ties of ORDER BY are broken either way. `submitted` and `completed` are history.

### Slider and HomePage

`frecce` are the timers of arrows that run, `dissolvenze` the number of fade-ins that do,
`mostrata` the picture in the page, `pallino` its dot. `HomePage` adds the page of the
tab, the open menus, the class `dark-mode` and `localStorage`. Its steps take one of `Slider`
or leave it alone. Leaving a page drops its timers (`Unload`). `OtherTab` stands for all other tabs.

## 3. Runs

| Run | Instance | What it shows |
|---|---|---|
| `cart_own` | 2 users with a browser each, 2 products with two units, posted quantities 0 and 2 (stored: 1 to 3), 3 carts, failures | type invariant, stock accounting, atomic checkout, `ImplementsShop` (refinement), oversale only through a stale snapshot |
| `cart_shared` | one user in 2 browsers, one real product and one id that is none, 2 carts, failures | no dangling line; orphan carts only where a request died |
| `cart_live` | 2 users, 2 products, 4 carts, fair | every request ends, also when two checkouts lock products in opposite order |
| `cart_oversold` | 2 users, one unit | **violation** of `NeverOversold` |
| `cart_double_sale` | one user in 2 browsers | **violation** of `StockAccounted` |
| `cart_page` | one customer in two tabs, of one session or of two; two platforms of one game at one price; one unit of each in stock, quantities up to 2, 4 clicks, failures | total of an up-to-date page is the price of its checkout; a click counts once; no unit nobody asked for; success is a sale; the confirmation waits |
| `cart_total` | one tab, the platforms at different prices | **violation** of `FreshTotalIsCharge` |
| `catalog` | one user in 2 browsers, 2 sessions that add products, 2 names, 2 platforms, 2 categories, one game per page, 2 products, 2 boxes, 2 visits | page numbers reach every game, links stay in range and name their game, submissions are accounted, suggestions are related, first visits are not history |
| `home` | 3 pictures, 6 clicks or loads, 3 menus, fair timers | picture, dot and index agree; no arrow is lost; the slider settles; the theme is the one chosen last |
| `profile` | u1 in 2 browsers, u2 in one, 4 pictures | no broken or foreign picture, and no foreign one is deleted; an unused picture is transient, abandoned, or overtaken by another browser of its user; so is a picture that a view misses |
| `account` | 2 browsers, 2 names, 2 rows, 2 codes, passwords and emails | sessions are verified; two rows of one name come from registrations that overlap, and only then does a code of one verify the other or a session change a row other than its own |
| `account_mail` | one browser, mail may fail | **violation** of `CodeIsInMailbox` |

The four violations are findings in `PROJECT.json`, each with the line of the
repository it contradicts. `StockAccounted` holds for users with one browser
(`cart_own`) and fails for one user in two (`cart_double_sale`): the difference is
the session lock, which is all that separates the two requests.

What the properties of the pages promise is exact about staleness: `TotalIsCharge`,
`ClickCountsOnce` and `SuccessIsASale` speak of pages that are up to date when they are used, since stale
pages do undo clicks of other tabs, and a checkout of a cart that was emptied elsewhere
does show the success page. `UnitsWereAskedFor` and `ConfirmationWaits` hold on stale pages too.
The branch for a quantity of zero (`cart_actions_handler.php:74-84`) is dead code, as line 6
raises every quantity to one; `ClickCountsOnce` therefore says "never below one".

Bounds. Two tabs are enough for two stale pages, two forms under way and one session shared
or not; four clicks fill a cart, change it from another page and check out. Two products are two pages
of the catalogue, and one game with two platforms; with two boxes a form of two platforms can die half
way, and two forms of one can run at once or one after the other's death. One user of the catalogue
suffices because users only share what the administrators write; the browsers of one user share its
visits, and with two visits each records between the two queries of the other. The constraint
`TogetherOnProducts` of `MCCatalog` lets two browsers run at once on product pages only: the other
pages write nothing, and one browser makes all the visits they are computed from.
Three pictures tell next from previous, and six clicks let three timers run at once with dots between.
Two sessions are enough for every race here, since each involves a
reader and one writer; the profile run has a third for another user. Two products
are needed for a deadlock and for a cart of which one line is short. `MaxCarts`,
`MaxImages`, `MaxRows` bound identifiers, `Quantities` and `MaxQuantity` the posted and
stored quantities; with two units in stock quantities of 1 and 2 sell and 3 is short.
Symmetry is used in safety runs only, on sessions, products, names and categories, which no
definition tells apart. Deadlock is not checked (`CHECK_DEADLOCK FALSE`): once the bounds
are reached and nobody posts, the system may rest. It is checked in `home`, where clicks remain.

Fairness. `FairSpec` asks strong fairness of the statements of each started
request and nothing of the user: a script that has begun is run to its end. It is strong and not
weak because a waiting UPDATE is enabled only while the row is free; InnoDB
queues waiters and hands the lock on, so a waiter is not overtaken forever. Deadlocks are resolved by the
detector (`Deadlocked`), whose victim takes the exit of `catch`. In `HomePage` fairness is weak and only
on the two timers of an open page: a browser runs a timer that is due. Nothing is
assumed of clicks, navigation or the answer of the server.

## 4. Proofs

All theorems hold with failures and for any sets of sessions, users, products and posted ids.
The assumptions on constants state their types; `CatalogAssumption` also that a form has finitely
many boxes, that there are finitely many categories and that no LIMIT is zero, `AccountAssumption` that there are
passwords and emails, `PageAssumption` that the id 'undefined' is posted and is no product, and that there are finitely
many products (they are rows of a table; totals are sums over them). The theorems of
`CartOwnProofs` assume in addition that no two sessions belong to one user;
all others hold for any assignment of sessions to users.

`CartProofs`: the inductive invariant `IInv` adds to `TypeOK` and `LinesHaveCarts`

* `HeldRows`: a request holds a quantity of at least one and a posted product when
  it is about to write them;
* `KnownCarts`: nobody holds an identifier that has not been assigned;
* `NewCartIsPrivate`: between the two INSERTs of `add`, the new cart exists, has
  no line and is known to nobody else, so nobody deletes it;
* `UnlinkedBeforeDeleted`: a cart about to be deleted has no line any more, or
  only one that the same transaction has deleted.

`LinesHaveCarts` alone is not inductive: without the third, `AddLine` could refer to a cart
deleted meanwhile; without the fourth, `RemoveCart` and `Commit` could delete the cart of a
line. From `IInv` follow `TypeCorrect` (`TypeOK`), `NoDanglingLine` (`LinesHaveCarts`)
and `FailedCheckoutIsVoid` (the action property `FailedCheckoutSellsNothing`).
`OrphansAreExplained` (`OrphansAreAbandoned`) adds that the cart of a line that an open
checkout has deleted is closed too, gone already or next in line (`UnlinkedAreClosed`), so a commit leaves no cart behind.

`CartOwnProofs`: under `OneSessionEach`, what a request has read is still so when it writes, since
only requests of the same user write carts and lines of that user. The invariant `OwnInv` adds to `IInv`, for each session:

* `NoLineYet`, `HoldsLine`, `RowsAreLines`: the row in PHP's hands, and every row of a checkout not fetched
  yet, is a line that exists with the quantity that was read, and `add` has found no line before it inserts one;
* `DeletesOwn`, `TakesWhatItCloses`, `TakesOnce`, `CoversCart`: a checkout deletes only lines of its user, takes
  each product once and within its snapshot, takes exactly what was in the carts it deletes, and has
  deleted, holds or will fetch every line of its user.

From it follow `OneLine`, `WithinSnapshot`, `SalesAddUp` (`StockAccounted`), `OversoldByStaleRead`,
`SaleTakesTheCart` and `AddKeepsQuantity`. The assumption is needed: run `cart_double_sale`
violates `StockAccounted` without it. Note what is not assumed: stock is shared by all users, checkouts of different
users overlap, and the theorems hold with the stale stock that lets `cart_oversold` happen.

In the same module `CartImplementsShop` (`Spec => ImplementsShop`) is proved under `OneSessionPerUser`. The mapping reads
the quantity of a user and product off the one line there is (`LineShown`) and the offer off the open transaction
(`OfferShown`). `AddIncrease`, `AddLine`, `UpdateQuantity` and `RemoveLine` are `SetQuantity`,
`CheckoutSelect` is `BeginCheckout`, `Commit` is `Buy` (`CommitBuys`), every other end of a
checkout is `CancelCheckout`; all other statements, failures included, change nothing that the shop shows. The proof needs two
more invariants: quantities stay within the bound (`Bounded`) and what a checkout took of
a product is the quantity of its line (`TakesTheCart`).

`ProfileImageProofs`: `NoDanglingProfile` (`ProfileImageExists`) and
`ProfileOwnership` (`ProfileImageIsOwn`). The argument is that a picture is linked at most once:
the id that a request is about to link was inserted by it and is
nobody's old picture, and an old picture is deleted only after the profile has moved on.
`UnusedAreExplained` (`UnusedImagesAreTransient`) and `ShownExists` (`ShownImageExists`) hold for all users, however many
browsers they use, and name what a second browser can do. Their invariants say what a request knows: with one browser
what it has read as the current picture stays so until it changes it itself (`ReadsAreCurrent`); with several, a picture that left the
profile is one the request that displaced it will delete or one it did not know of (`overtaken`). `TypeCorrect` is `TypeOK`.

`AccountProofs`: `SessionsAreVerified` (`LoggedInIsVerified`), `DuplicatesNeedARace`
(`DuplicateOnlyByRace`) and `TypeCorrect`. The invariant adds that rows are numbered
from 1 without a gap and that no request has counted more rows than there are; so a row
inserted after a registration's SELECT has a number above what that SELECT saw, while every
UPDATE keeps names and never takes a verification back (`RowsKept`).
`VerificationTakesTheCode` (`VerifiedByItsCode`) and `SettingsStayOwn` (`SettingsAreOwn`) rest on `Justified`: a
row is verified, or about to be, only under a name for which the code of some row of that name was
posted, and a password is about to be changed only by a session that is logged in. Two rows of one name have
registrations that overlap, so a code or a change can reach a row it was not meant for only through such a pair. The
repository has no unique index that would exclude it, and the theorems do not assume one.

`CartPageProofs`: `PagesImplementCart` (`PageSpec => Spec`). The invariant `PageShape` says that forms hold
posted ids and that a request belongs to a tab of its session; with it each step of a tab
is a step of `Cart` or leaves it alone. The theorems about `Cart` carry over
(`PagesNoDanglingLine`). `PagesConfirm` (`ConfirmationWaits`) rests on the fact that a tab goes to the
success page only in the step that commits and sets the flag, and that only a tab of the same session
takes the flag away. `PagesTypeCorrect` (`PageTypeOK`) adds `PageExtras`: a request runs in a session iff a tab
waits for it there, and the merged rows of a page have different names.

*Nobody gets more than was asked for.* `PagesAddWhatWasAsked` (`UnitsWereAskedFor`) holds on stale pages and for any
number of tabs. `asked` itself bounds too little: a click counts at once, while its `add` form adds a unit much later. The invariant
`UnitsOK` therefore bounds by `Allowed[u][p]`, which is what user `u` has asked for of `p` less the `add` forms of `p` that are
on their way from tabs of `u`, every quantity of `u` there is: in the table, in the PHP variables of a request, on a page and in a form
(`LinesAsked`, `WorkAsked`, `PagesAsked`, `FormsAsked`). When an `add` form is received, `Allowed` grows by the unit
that the request will add; a navigation that cancels forms only makes it grow too. `LinesAgree` and
`HeldLines` say that a cart is of one user and one product, so that a write meant for one line does not change another.

*What a page that nothing has overtaken may rely on.* `PagesStayFresh` proves the invariant `PagesOK`. For each tab that is
`fresh`, `FreshInv` ties four copies of the cart to the tables of now:

* the page (`Shows`, `ProductIsFresh`): one line of each product, and one row of each name;
* each form on its way (`FormIsFresh`): an update is the quantity of the only line changed by what was clicked, and
  a checkout leaves only from a cart that is not empty;
* the request they start (`UpdateIsFresh`): it holds the quantity it is to write;
* an open checkout (`WillSell`): it has rows left, has taken something or has found something short.

It is not inductive without `NothingElseWaits` (a tab that waits for no answer has no form on its way and no request
running, so a page that is just loaded owes nothing to earlier clicks) and `CheckoutRows` (rows are of stored products and at least one
unit, so that taking a row takes stock). The number on a product page changes with a
click before the table does, so `ProductIsFresh` is only promised while the tab waits for nothing. Three theorems follow:

* `FreshClickCountsOnce` (`ClickCountsOnce`);
* `FreshSuccessSells` (`SuccessIsASale`): a tab arrives at the success page only by `Commit` (`SuccessCommits`), where no row is left
  and nothing was short, so something was taken;
* `FreshTotalsAreCharged` (`TotalIsCharge`): the names of the rows divide the products of the cart into classes, each
  counted at one price, so the total is a sum over products (`TotalIsSum`); one line of each product costs at
  most what all lines cost, and as much if each product has one line (`PickedIsCharged`).

`SumTheorems`: a sum is defined by recursion on a set from which any element is taken first, so each law needs
induction. The library states induction for predicates, which the installed provers cannot instantiate. The lemmas
`InductiveSet`, `InductiveFamily` and `SmallerFamily` state it for sets instead, and follow from the minimal element of a
well-founded order; from them follow that the definition has exactly one solution (`SumExists`, `SumIsUnique`), that any element may be taken
first (`SumAny`), and the sums over unions, renamed sets, classes and sequences.

`CatalogProofs`: `SubmissionsAreAccounted` counts, for each game and platform, rows, submissions that
ended, and the running requests that have inserted a row for it (`Serving`) or still will
(`Asking`): rows are at least completed plus `Serving`, and rows plus `Asking` at most
submitted. A step replaces at most one of the requests (`CountSwap`).
The other theorems rest on `CatalogInv`: types and
`PageHolds` for each page: its number is within its own count, its count is at most what
an unfiltered query would count now (tables only grow, and a filter only leaves games out), its links still hold, and while
nothing has changed count and list belong together. A page link drops the filter, so its
target is counted over more games and the number stays in range (`PagesGrow`). From it follow
`GamesHaveAPage`, `LinksInRange`, `LinksLeadToTheirGame` and `CatalogTypes`; the arithmetic of ceil and offset is in
`PagesReach`. `SuggestionsAreRelated` and
`FirstVisits` add that visits and categories are never taken away (`VisitsGrow`) and that the pages of a session change by its own
requests only (`OwnPagesStay`); `History` says how often the product of a page had been visited before and after the INSERT.

`HomePageProofs`: `SliderShowsItsDot` for `Slider` alone, `HomeImplementsSlider`
(`HomeSpec => SliderSpec`), and from both `HomeShowsItsDot`; `HomeTheme`, whose
invariant says that `localStorage` holds the theme chosen last; and `HomeTypes`. `SliderCountsArrows`
and `HomeCountsArrows` (`ArrowsAreCounted`) hold for any number of pictures and of timers that run at once: the index and the sum of
the running arrows differ from what was clicked by a multiple of the number of pictures (`Counted`), because each timer
takes its own step off the queue and moves the index by it, up to a turn around the end.

Model-checked only: `RequestsEnd` and `SliderSettles`. Liveness under fairness is outside the prover's reach. Every
other property of a passing run is stated by a theorem.

## 5. Not modelled

* Pages that only print, the connection script, styles and markup: they keep no state.
  The sections of games of one saga or category in `mostra-prodotti.php` (114-165) and the choice of
  pictures in `get_slider_img.php` are single queries whose rows are printed.
* Prices, texts, dates, discounts and pictures as data. `prodotti.quantitaDisponibile` of a new
  product is not connected with the stock of `Cart`: a product is in no cart when it is added.
* Page numbers and filters typed into the address bar; pages restored from the back-forward cache.
* That `update_password.php` checks the current password before a concurrent change is modelled,
  but no document says which of two changes should win, so no property takes sides.
* The bundled servers. Everything in `src` outside `src/files_web` is Apache and PHP as distributed,
  among it some 47,000 lines of C headers (`src/apache/Apache24/include`) that no code of the shop
  includes or calls. They are interfaces without behaviour of this program; a measure that
  counts them as the implementation finds no line of it modelled here, while
  the scripts of the shop are covered as the tables of section 2 and `PROJECT.json` show.

## 6. Plan

Done: every component with state is modelled, and every safety property that a run checks is proved for all sizes. What is left:

1. an abstract specification of the accounts (names that are free, pending or verified) which `Account` implements,
   for the part that the duplicate-name race does not break;
2. the same for the profile picture, one current picture per user, for users with one browser.
