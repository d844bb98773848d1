# Verification of the marketplace backend

TLA+ models of the NestJS backend in `src/` (paths below are relative to the repository's
`src/` directory of that name, e.g. `modules/carts/cart.service.ts`), TLC runs on small
instances, and TLAPS proofs for every instance.

The backend is stateless between requests: all state is in MySQL (through MikroORM), in redis and
in the index of the assistant. Several HTTP requests run at once and interleave at every `await`;
nothing takes a lock, and only `getOrCreateCart` and `createOrder` open a transaction. Most models
therefore have one shape: the tables (or the redis hash) are variables, a request is a process
whose record holds its local variables, and there is **one step per awaited call**.

## The system

| Component | State it keeps | Operations | What makes it correct |
|---|---|---|---|
| Shopping cart (`modules/carts`) | `cart`, `cart_item` rows | add one, add many, change quantity, remove one, clear, clear a shop, remove what was bought; cart created on first use | quantities that were on offer, nobody else's items, no item outside a cart, removed stays removed, each request has its whole effect |
| Checkout (`modules/orders/services`) | order, payment, address, tracking, source and item rows | validate, calculate, store in one transaction, empty the cart, SMS, `checkout.completed` event | answer, stored order, announcement and discount agree; a failure leaves nothing |
| Pricing, fee, shipping (`order-creation.service.ts`, `order-validation.service.ts`, `platform-fee.constants.ts`, `shipping.service.ts`) | the listings' prices, the tariff | arithmetic on the lines of a checkout | prices that were read for the order, the fee covers the gateway's cut, sources add up to the order |
| Vouchers (`vouchers.service.ts`) | vouchers, their usage log | validate on the cart page, apply at the checkout | the checkout honours what the page showed, no discount that is not earned |
| Payment gateway (`apg.service.ts`) | the order's payment | handshake, redirect, callback | the gateway's word is stored, once and for good |
| Order queries and status (`orders.service.ts`, `order-status-calculator.util.ts`) | order and source status | calculated status, details, list with counts | finished means finished, no order is shown paid before its payment |
| One-time codes (`modules/auth`, `common/utilities/otp.ts`) | one redis hash per number with a time to live | `sendOtp`, `verifyOtp`, confirmation of a phone | bounded attempts, a login only by a live code, the hash goes away |
| Legacy orders (`modules/legacy-orders`) | `delivery_orders` rows | create with SMS and event or link, update by the payment's caller | told in order, decided once |
| Users and reviews (`modules/users`, `listing-reviews.service.ts`) | addresses, reservations, visits, wishlist, reviews | read, then write | one reservation a day, one review an order |
| Listings and models (`modules/listings`, `modules/models`) | read only here (written by the sellers' portal) | filter panels, lists, picks of the home page | what a panel counts is what the list shows; no turn of a pick repeats an earlier one |
| AI search, embedding script | index points, a session's history | batches; search and chat | a run ends, no turn of a chat gets lost |
| Repository base (`common/database`) | | paged lists, writes by find and flush | a walk shows each row once |

How they interact: a checkout calls the cart (`removeItemsByListingIds`), vouchers and shipping
in process; the cart and the order validation read the listings that the sellers' portal writes;
an order is announced by SMS, a redis message and an in-process event; the gateway answers by a
callback. What is hard is listed line by line in `PROJECT.json` under `hazards`: stale reads
across an `await`, check-then-create without a unique index, errors that are returned and not
thrown, a crash between commit and announcement, an expiry between two redis calls, callbacks
that come late or twice, one request translated into two queries.

## Modules

| Module | Models | Composes or refines |
|---|---|---|
| `Cart` | `cart.service.ts` and the calls of `base.repository.ts` it makes | |
| `AbstractCart` | what the cart promises: a quantity per listing, one step per request | |
| `CartSerial` | `Cart` used by clients that wait for each answer | implements `AbstractCart`, checked and proved |
| `Checkout` | `checkout.service.ts`, `order-creation.service.ts` (`createOrder`), validation, notification | |
| `Purchase` | a checkout beside the same user's cart requests | instances of `Cart` and `Checkout` |
| `Fees`, `Amounts` | the fee; prices, shipping, totals and rows of an order | `Amounts` extends `Fees` |
| `Vouchers` | validation on the cart page and application at the checkout | |
| `Payments` | `apg.service.ts`, `updateOrderDataAfterPaymentByCard` | |
| `OrderQueries` | the calculated status, list and details of orders, between the dashboard and the gateway's callback | |
| `LegacyOrders` | the old dashboard's orders | |
| `Repository` | paged reading and writing of `base.repository.ts`, selection of columns | |
| `Otp`, `Phones` | one-time codes on one number's hash; who gets which phone by them | |
| `Users` | reservations, visits, wishlist, addresses, reviews | |
| `ListingFilters`, `ModelFilters` | panel of filters, values of one filter, total and list, of listings and of models | |
| `ListingPicks` | random, featured, most viewed, discounted, related listings | |
| `CatalogueSearch` | the embedding script and the assistant's chats on its index | |
| `OrderSide` | the order side: `Checkout`, `Amounts`, `Vouchers`, `OrderQueries`, `LegacyOrders`, `Repository` | extends `Checkout`, instances of the others |
| `ServiceSide` | the services around it: `Payments`, `Phones`, `Users`, both filters, `ListingPicks`, `CatalogueSearch` | extends `Payments`, instances of the others |
| `*Proofs` | theorems and proofs | extend the module they are about |
| `MC*` | values of constants that a `.cfg` cannot write, symmetry | extend the module they instantiate |

In `OrderSide` and `ServiceSide` the first state chooses one part, and the behaviour is one of that
part. The parts share no variable, because each has its own view of the database, cut to what it
reads and writes. They are checked in one run; the states of the run are the sum of the parts'
states and not their product. The variables of the parts are the slots `v1`, `v2`, ..., `None` as
long as the part does not use them, and the constants of a part begin with the name of its instance.
Where two components do interact, they have a module of their own:
`Purchase` (cart and checkout), `CatalogueSearch` (script and chats), `Payments` (checkout, gateway,
handlers), `Phones` (codes and users).

Operators whose comment begins with `mutant` are plausible bugs of the definition after them. No
specification uses them; `PROJECT.json` says which property finds which.

### Cart

`carts[c]` is the owner of a cart, `rows[id]` a `cart_item` row, `listedQty` the listings' stock,
`req[r]` the local variables of a request: `seen` is the listing (entity) a request has loaded,
`upd`, `ins`, `del` the writes it has prepared. The code's awaits and the steps:

- `addItem`: `AddItem` (listing read and validated) → `FindCart` → [`RecheckCart` → `CreateCart`]
  → `FindItem` (look up, validate the sum) → `FlushUpdate` or `InsertItems`.
- `addItemsBulk`: `AddItemsBulk` → cart as above → `FetchListings` → `MapItemsForBulk` →
  `FlushUpdate` per line → `FlushDone` → `InsertItems`.
- `updateItemQuantity`: `UpdateItemQuantity` → `ValidateUpdate` → `FlushUpdate`.
- `removeItem`: `RemoveItem` → `FindRemoved` → `Delete`; `clearCart`, `clearShopItems`,
  `removeItemsByListingIds`: `ClearScope` → `FindCleared` → `Delete`.

Faithful to detail that matters: `createEntity` and its siblings return errors and never throw, so
a transaction whose insert failed still commits; `findCartItemByListing` turns a failed query into
"not there"; an `UPDATE` carries only changed columns and is silent when the row is gone; a user
with two carts gets either, because the query has no order; the identity map makes the second
validation of `addItem` see the listing of the first; a failed `getCart` turns a success into
an error (`Told`). A bulk request issues its updates together; they go out in the order of the lines.

Left out: prices and discounts copied into rows, the cart's totals (kept by database triggers),
`getCart`, `checkCartExists` and `validateCart`, which only read, and the stub `mergeCart`. A
listing that is not active, deleted or archived is one whose stock is 0.

### Checkout and Purchase

One step per layer of `createOrder`: `Submit`, `Validate` (layers 1 to 2.5), `Calculate` (3 to
4.5), `Commit` or `CommitFails` (6), `StartCleanup`, `CleanupDone`, `Notify`, `EmitCompleted` (7).
Whether listings are valid, the voucher applies and the total matches are inputs. `CommitFails`
stores any part of the order, because the callback of `transactional` catches the error, so the
manager flushes again and commits. `Crash` ends every request under way, between any two steps.

`Purchase` runs the cleanup as the cart request it is, with its own interleaving against the
user's other requests, and ties `Validate` to the stock that the cart reads.

### Amounts and vouchers

`Amounts` is one checkout seen through its numbers. `tag` is a listing's price and discount now,
`page` the ones the customer was shown; `Reprice` is a seller, `LoadPage` and `Submit` the client.
`createOrder` has two steps. `Validate` reads the listings and compares the prices that were sent. `Store`
comes several awaits later and uses what was read then: subtotal, shipping, voucher, fee, the other two
refusals in their order, and the rows of header, payment, items and sources. Sellers change prices
before, between and after; `request` holds what was read, `since` (auxiliary) the prices of each
listing since. Amounts are integers in paisa; `Fees` writes `Math.ceil` as integer division with the
rounding of the code. What the double
arithmetic of the code adds, one rupee where a fee is whole already, is left out.

`Vouchers` has the row of one voucher, the usage log (written by another system), and the two calls:
`Preview` with the facts that the client happens to give, `Apply` with those that `createOrder` gives.
`userLookup` says whether the log can be counted by `userId`, a property its entity does not declare.
Both limits, that of all users and that of each, are counted when the voucher is applied, and of a
guest neither is; uses logged after the count are not looked at, and who logs them is another system.

### Payments

`row` is the stored order, `client` how far the checkout is (store, handshake, redirect), `bank` the
gateway's truth, `inFlight` its callbacks. A handler is `Ask` (the gateway's status), `ReadOrder`,
`Flush`, `Notify` (SMS), `Emit`. A callback can be lost or repeated, asking the gateway can fail,
and `Crash` ends all handlers. `lookup` says whether `fetchOne` finds an
order by `{ where, populate }`, which the code passes as the condition; nothing in the repository
settles it, so both are initial states, and where it does not, no callback changes anything.

### Queries, pages and the old dashboard

`OrderQueries`: `Displayed` is `calculateOrderStatus` over the sources, moved on by the shops'
dashboard, which is external. The gateway's callback is three steps: `CallbackArrives` with what the
gateway said, `CallbackReads`, which goes on with an order whose own status is pending, whatever its
sources', and `CallbackFlushes`, which writes the columns that differ from what was read, over
anything the dashboard has written since. The details are two reads with the steps of the callback
between them; the list is found and then counted. `Repository`: a reader walks a list page by page
while `writer` creates,
updates and deletes; rows with equal keys come in any order from one query to the next.
`LegacyOrders`: `Add`, `Sms`, `Publish`, `Complete`, and an update as `ReadPending`, `FlushPatch`,
`AnnouncePatch`. Orders are found by their number, which two orders of one millisecond share.

### One-time codes

`hash` and `ttl` are the redis key of one number, `now` the clock, `snd` and `ver` requests. Each
redis call is a step: `ReadHash` (HGETALL and the two checks), `UpdateHash` or `CreateHash` (HMSET),
`Expire`, `SendSMS`; `CheckOtp`, `DeleteHash`. `Tick` passes time and lets redis drop the key;
`Crash` ends the server's requests and not redis. `overlap` and `written` are auxiliary.

`Phones` puts users beside it: `Confirm` reads the code, `DeleteCode` deletes it and `Update` writes the
phone, in requests of two users that overlap. That a phone is of one user is the unique column of the
table, so it is the guard of `Update` here and no property: of this module only the types are stated.

### Users

`rows` are what was added, each with the clock (`made`) and the stamp the code gave it; `dateTime()`
is five hours ahead of `today()`, so the last hours of a day are stamped with the next. A look-up
that fails is taken for none (`blind`). `UpdateAddress` has the arguments of `updateEntity`
exchanged, as `addresses.service.ts:64` has.

### Filters and picks

`ListingFilters` and `ModelFilters`: the tables of the filter configuration are copied by name;
the panel is one query per filter, then the total (listings only); a customer ticks a value that is
on the screen and opens the list. `FilterByName` is the screen of one filter's values: its search is
inside the values and is no condition on the listings, so a search in titles that the list will
apply is not applied there (`page.search` says what the screen was read with). The catalogue changes
between any two queries. Each property
compares the answers of different query builders. What they read differently is named:
`ReadAlike` for the listings (the model, a boolean that is No, a largest price of 0), and
`Pictured` for the models (a model without a picture is counted and not listed).
`ListingPicks`: a random pick is a count and a query per random offset, repeated with fewer filters.
The queries have no `ORDER BY` and the rows join a location that the count does not, so each offset
below the number of joined rows answers any of them, and two of one turn may answer the same; with up
to two filters the answer is one such turn, and no duplicate is taken out of it.

### Search

`CatalogueSearch`: the script reads the active listings once and stores them batch by batch; each
call may fail, and the run may be killed. A chat is `GetHistory`, `ExtractIntent`, `SearchIndex`,
`FetchLive`, `SaveHistory`. What the language model answers is an input.

## Runs

| Run | Question | Instance |
|---|---|---|
| `cart_races` | are quantities and owners right, do items keep their cart, do deletions hold, under any interleaving, changing stock, failing calls? | 2 users, 2 listings, 2 shops, stock 0 or 2, faults; 2 requests over both listings, 3 over one |
| `cart_serial` | do the handlers implement `AbstractCart` for clients that wait? | 2 users, 2 listings, 3 requests, no faults |
| `purchase` | does a checkout remove from the cart what it bought and nothing else? | 1 user, 2 listings, 2 cart requests, 1 checkout, crash, failing commit |
| `checkout` (`MCOrders`) | do answer, order, announcement and discount agree? do the amounts add up, at prices that were read for the order? is a voucher applied as shown? is what is shown of an order true? is a legacy order told and decided in order? does a list show each row once? | 2 checkouts, signed in or guest, all 5 methods, crash, failing commit; 3 listings and 2 lines; 23 vouchers and 3 carts; 2 orders with 3 sources, 4 moves and any number of callbacks; 2 legacy orders and 3 updates, 2 at once; 3 rows in pages of 2 |
| `otp` | are attempts and codes bounded, is every login by a live code? | 3 sends, 1 verification, 2 codes, clock to 4, maximum 2 |
| `services` (`MCServices`) | is the gateway's word stored, and once? is once a day once? do panel, total and list agree? does a turn of picks repeat an earlier one? does a chat lose a turn, does the script end? | 1 order, 2 handlers, 2 callbacks in flight, 1 crash; 2 users and 2 phones; 2 requests in a day of 2 hours; 3 listings, 4 models, 2 ticks, 1 change; 4 rows to pick from; 2 listings, 2 chats, 1 run of the script |

and six runs that show a sentence of the repository's to be untrue of the code:

| Run | Sentence | What happens |
|---|---|---|
| `cart_one_cart` | `cart.service.ts:592-596`, the transaction prevents races on the cart's creation | two requests store a cart each |
| `checkout_atomic` | `order-creation.service.ts:68`, the transaction ensures atomicity | an order whose checkout was answered with an error is stored |
| `checkout_gateway` | `docs/orders-knowledge.md:27-30`, a card checkout creates an order and redirects | always refused: its platform charges cannot be sent |
| `checkout_delivery` (`MCAmounts`) | `docs/delivery-charges-breakdown-implementation.md:34`, an order's delivery amount is the sum of its sources' | a line of two pieces is charged once in the order and twice in its source |
| `otp_replace` | `auth.service.ts:64`, a valid code is not replaced | replaced between 90 s and 120 s |
| `otp_expiry` | `auth.service.ts:106`, the hash expires after an hour | it stays for ever after a crash or an expiry between two calls |

**Bounds.** Cart: two requests are enough for every read-write race of two handlers and two
listings for every mix-up of listings; a third request begins only as long as all that happened is
over one listing, which is the smallest number for a cart created twice and used by a third (clearing
the whole cart is then left to the pairs: with one listing it does what clearing its shop does).
Stock 0 or 2 with quantities 1 and
2 makes an order fit, not fit, and stop fitting after a change. A bulk request has two lines, of one
listing or of two. In the serial run no bulk request names a listing twice: the second line
of such a request overwrites the first or makes a second row, which `AbstractCart` does not
promise to prevent. For the codes the times are scaled (cooldown 1, validity 2, hash 3 or 4
for 90, 120 and 3600 s), which keeps their order, and the clock passes the end of the hash.

Amounts: one listing changes its price, at any moment until the order is stored, and all is
delivered to one city, from two; quantities 0 and 2, the two that the code treats differently (`||
1`); two shops in three
places, one category without a tariff row and a listing without a category; a total that is missing,
or off by an amount that is within the tolerance of some methods and outside that of the others. The
old dashboard's orders are those it tells apart: by cash, complete or not, by card, paid or not.
Each voucher of the instance has one thing that may refuse it.
Payments: two handlers meet in any order over one order, whose callbacks no other order can touch.
Queries: four moves deliver the order of one source, and cancel, fail or mix the sources of the
other, with callbacks before and between them; one callback is handled at a time, since those that
overlap are `Payments`'.
Filters: two ticks are the smallest number for a filter that restricts another and is itself left
out; one change falls between any two queries and clears `quiet`, which all properties of the filters
ask for. Picks: with four rows every turn of the fallback adds and repeats something. Search: two chats of
one session, a history of two turns. Batches of one listing make two batches. The proofs remove
these bounds: every safety property of the six passing runs is stated by a theorem, for all users,
requests, rows, prices, moves and sizes.

Checkouts, purchases, codes and the parts of `OrderSide` and `ServiceSide` may stop (all requests
answered or lost), so their runs switch deadlock checking off; in the cart's runs stock can always
change.

**Fairness.** One component has a liveness property; every other specification is without fairness:
a request may be abandoned at any step, which is also how a crash looks to the database. Of the
payments none is claimed: that the gateway calls back until it is heard is stated nowhere in the
repository, and where `fetchOne` does not find the order no callback is ever applied.

- `RunEnds` (`CatalogueSearch`): weak fairness of the script's own steps, whose calls are awaited
  one after the other and come back with an answer or an error. Nothing is assumed of chats or sellers.

## What is proved

Every type invariant, safety invariant and action property that a run checks, and the refinement of
`AbstractCart`, is a theorem, for all values of the constants that meet the named assumptions. None
of the properties but a few types is inductive as it stands: a handler writes what it read some
steps ago. Each proof rests on an invariant that says what the local variables of a request mean
at each of its steps although other requests run between them.

- `CartProofs` (`Spec`). `CartInv`: a request's cart is stored and its own (`Placed`), its
  lines match the operation (`Lined`), the quantities it will write are at most the largest stock
  its listing ever had (`Offered`), the ids it will write name rows of its own user and of the
  line's listing, or none, and what it deleted is gone (`Owned`); and every row lies in a stored
  cart and was inserted by a request that is done (`RowSound`), so that no id is used twice.
  `OwnItemsOnly` then follows because only `FlushUpdate`, `InsertItems` and `Delete` write rows.
- `CartSerialProofs` (`SerialSpec`). `SerialInv` adds to `CartInv` that of a user's requests one is
  under way, that a user has one cart and a row per listing, and what a request between its look-up
  and its insertion knows: what it did not find is still not there, because only its own user
  could have inserted it, and its user waits (`Placing`). That is `OneRowPerListing`.
  `EffectInv` relates the rows to the user's cart when the request under way began (`before`): how
  far its writes have come (`Written1`), and that those it has prepared fit the rows
  as they are (`Prepared`). With it each step of a handler begins a request of `AbstractCart`,
  completes one with the answer and the effect that it promises, or stutters: `HandlersImplement`.
- `PurchaseProofs` (`Spec`). The cart's invariant is taken over by an instance of `CartProofs`. To
  it `BuyInv` adds how a checkout's cleanup follows its commit: it is for the customer of a stored
  order (`Begins`, `Cleans`, `Buyer`), the rows that the cart held when the checkout began were
  inserted by requests that are over, so that nobody puts them back (`Holds`), and what it is about
  to delete is what was bought, all of it and nothing else (`Deletes`, `Empties`).
- `OrdersProofs` (`OrdersSpec`, and `Spec` for the checkout alone). One invariant per part, which the
  steps of the other parts do not touch. `CInv` ties what is stored to the place a checkout has
  reached, for requests that were lost in a crash as well. `QInv`: sources that verify a payment
  belong to an approved one, what a callback has read of an order's payment is what it writes over, and
  details that have read a verifying order and not yet its payment will find it approved; the
  proof that a finished order stays finished needs the table of moves, what each displayed status
  says of the sources, and that a callback writes only an order that was pending when it was read.
  `LInv` counts: the decisions of an order and the
  updates that have passed its check and not yet written are together at most the number of updates
  that can overlap; `TInv` adds what was sent out at each place of `addDeliveryOrder`, as long as the
  numbers differ. For vouchers, a verdict of the checkout is the cart page's as long as nothing
  it depends on has changed.
- `AmountsProofs`. `TotalsCoverTheCut` rests on two facts on rounded division. `AInv` needs a theory
  of sums that the library does not have (`SumAdd`, `SumByGroup`, `SumLeq`): the induction theorems
  take an operator, so the induction goes by a smallest counterexample, which well-founded orders
  have (`SmallestSet`). From it: the sources of an order account for its quantity and amount; and that
  what a request has read is among the prices since its reading, which a stored order then has.
- `RepositoryProofs`. A table that stands still with distinct keys has one sorting, in which each
  row is at its `Rank`; `WInv` says that a walk has shown the rows of the ranks before its page.
- `OtpProofs` (`Spec`). `OInv` says that a sender's attempts are one more than a count below the
  maximum that it read, and that every hash was issued; `SInv`, as long as no sends have overlapped, that
  at most one request is sending and that the codes written are counted by the attempts.
- `ServicesProofs` (`Services`, the safety part of `ServicesSpec`, and `Spec` for the payments
  alone). `PInv`: a final status that a handler has seen is the gateway's still, and what it
  compares with was read as open, a row is as first stored or all as the gateway decided, and nobody
  pays before being redirected. For the users a count, of rows and of requests that have looked and
  not yet written, is at most the number that overlapped. `SearchInv`: each turn saved recently
  enough stands at its place in the history, and in what any chat has read of it since, unless it is
  counted as lost; `ScriptInv`: the script's place among its batches. `FiltersInv` and `ModelsInv`:
  while nothing moves, each value on the panel with a count has a row that the list's query will
  find, although different queries produce the two, and so does what was ticked; and the total is
  the number of what is listed. The values of one filter's screen have such a row as far as no title is
  searched. `PicksInv`: what is picked has the number of a turn that is over, and a turn takes from its
  answers, which may repeat each other, nothing of an earlier turn and no more than is missing.

Hypotheses, all of them facts of the code or of its configuration. `CartAssumption`: listings have a
stock in numbers, an id is not the absence of one. `SerialAssumption`, `PurchaseAssumption`,
`CheckoutAssumption`, `OtpAssumption`, `PaymentsAssumption`: the same for their constants.
`OrderSideAssumption` and `ServiceSideAssumption` collect those of the parts: tables are finite, a
key is of one row, a request is as its DTO validates it, amounts are integers, and no specification
of a listing or a model is named like a column. TLC evaluates all of them on the instances of the
runs. Further hypotheses stand in the theorems:

- no failing call on the cart's tables (`~DbFaults`) for `OneRowPerListing`, the refinement, and
  `BoughtLeavesCart`. A failed look-up is taken for "not there" and leads to a second row, and
  the checkout ignores the answer of its cleanup: with faults all three are false;
- no bulk request that names a listing twice, for `OneRowPerListing` and the refinement (see the bounds);
- pages of a size other than 0 for `WalkShowsEachRowOnce`. `PaginationQueryDto` has `@Min(1)`, but
  some controllers read the size from the query string themselves; with 0 the query has no limit,
  and `info` counts pages of 10.

To be reasoned about, a few sorted or filtered sequences are defined by the place of each element
(`InOrder`, `Before`, `ById`, `Kept`) and not with `SortSeq` and `SelectSeq`, of which the provers
know nothing.

## Only model-checked

`RunEnds`, the liveness property: fairness is about `ENABLED`, which is out of the prover's reach.
`FieldsInAnyOrder`, a property of a pure function, is an `ASSUME` of
`MCOrders` that TLC evaluates for every set of paths of the instance. The six runs that expect a
violation are counterexamples, with nothing to prove.

## Where code and documents differ

Besides the six runs above, modelling met these, each modelled as the code has it:

- Ticking a value of the listings' panel can lead to an empty list, where
  `docs/filter-api-documentation.md:454` promises "only options available within the selected
  criteria": the panel takes the model for no filter, a boolean that is No and a largest price of 0 for
  none, and the screen of one filter's values leaves a search in titles out. `NoDeadEnd` is stated
  for the other requests. And once a specification filter is ticked, facets can vanish.
- An order of which a part is delivered and the rest cancelled is shown pending, which
  `docs/orders-knowledge.md:53` describes as awaiting payment or confirmation: `calculateOrderStatus`
  gives Partially Fulfilled only while a source is open.
- A callback of the gateway that read an order before the dashboard cancelled it overwrites the
  cancellation. `FinishedMeansFinished` excepts it.
- One turn of the random picks can answer a listing twice; `TurnsAddNew` compares turns.
- The panel of desktop computers offers brand, category and type only, and that of tablets one
  filter of their own, though the others are served by name (`docs/models-filter-architecture.md:66-68`).
- Sorting models by launch price or release date always fails: `fetchAllModels` orders by a column
  its query does not select.
- `addresses.service.ts:64` exchanges condition and values of an update.

## Not modelled

The rows of `PROJECT.json` with status `partly` and `not_modelled` give the reason for each: the
texts of messages and events, tokens (signed, not stored), listeners that only format, single-row
inserts (leads, quick links), configuration and start-up, plain reads (details, related models,
variants, availability), and methods without a caller (`mergeCart`, `fetchSpecificFilter`).

What remains worth doing, in order: facts under `RunEnds` that hold step by step (a batch that ends
leaves fewer); `Purchase` with failing calls, stating what is kept of a checkout whose cleanup fails;
two callbacks at once beside the dashboard; `FieldsInAnyOrder` for all paths.
