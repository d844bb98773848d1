-------------------------------- MODULE Cart --------------------------------
(***************************************************************************)
(* The shopping cart of the marketplace, modules/carts/cart.service.ts.    *)
(* Every HTTP request is a process with one step per awaited database      *)
(* call; requests of one user, and of several users, interleave at those   *)
(* steps.  A request runs once, so the set Requests bounds a behaviour.    *)
(*                                                                         *)
(* A cart is identified by the request that created it, a cart item by the *)
(* request and the line of the request that inserted it.  listedQty[l] = 0 *)
(* stands for every listing the cart refuses whatever the quantity: not    *)
(* found, not VALIDATED_ACTIVE, out of stock, deleted or archived.         *)
(***************************************************************************)
EXTENDS Integers, Sequences, FiniteSets

CONSTANTS
  Users, Listings, Shops, Requests,
  ShopOf,       \* the shop of a listing
  Quantities,   \* the quantities a request may ask for (any number passes the DTO)
  Stocks,       \* bound: the stocks a listing may have
  MaxLines,     \* bound: lines of a bulk request
  BulkOrders,   \* bound: the bodies of bulk requests
  DbFaults,     \* whether a database call may fail
  NoUser, NoRow, NoCart

ASSUME CartAssumption ==
  /\ ShopOf \in [Listings -> Shops]
  /\ Quantities \subseteq Int
  /\ Stocks \subseteq Nat
  /\ MaxLines \in Nat /\ MaxLines >= 1
  /\ BulkOrders \subseteq Seq([listing: Listings, quantity: Quantities])
  /\ \A b \in BulkOrders : Len(b) \in 1..MaxLines
  /\ DbFaults \in BOOLEAN
  /\ NoUser \notin Users
  /\ NoCart \notin Requests
  /\ NoRow \notin [cart: Requests, listing: Listings, quantity: Int]
  /\ NoRow \notin Requests \X (1..MaxLines)

VARIABLES
  carts,      \* carts[c]: the owner of the cart request c created, or NoUser
  rows,       \* rows[id]: the cart_items row, or NoRow
  listedQty,  \* the stock of each listing, written by the sellers' portal
  peak,       \* auxiliary: the largest stock each listing ever had
  req         \* req[r]: the local variables of request r

vars == <<carts, rows, listedQty, peak, req>>

-----------------------------------------------------------------------------
(* Types *)

RowId == Requests \X (1..MaxLines)
Row   == [cart: Requests, listing: Listings, quantity: Int]
Line  == [listing: Listings, quantity: Quantities]
Write == [line: 1..MaxLines, id: RowId, quantity: Int, loaded: Int]
Stock == [Listings -> Stocks]

Ops == {"add", "bulk", "update", "remove", "clear"}
Pcs == {"idle", "findCart", "recheckCart", "createCart", "fetchListings", "findItem",
        "flush", "insert", "findRows", "delete", "done"}

Request ==
  [pc: Pcs, op: Ops, user: Users, lines: Seq(Line), scope: SUBSET Listings,
   cart: Requests \cup {NoCart}, seen: [Listings -> Nat], upd: SUBSET Write,
   ins: SUBSET (1..MaxLines), del: SUBSET RowId, answer: {"none", "ok", "err"}]

TypeOK ==
  /\ carts \in [Requests -> Users \cup {NoUser}]
  /\ rows \in [RowId -> Row \cup {NoRow}]
  /\ listedQty \in Stock
  /\ peak \in Stock
  /\ req \in [Requests -> Request]

-----------------------------------------------------------------------------
(* What the database holds *)

Live      == {id \in RowId : rows[id] # NoRow}
CartsOf(u) == {c \in Requests : carts[c] = u}
RowsOf(u) == {id \in Live : carts[rows[id].cart] = u}
\* mutant: the owner is left out of the query
RowsInAnyone(u, scope) == {id \in Live : rows[id].listing \in scope}
RowsIn(u, scope) == {id \in RowsOf(u) : rows[id].listing \in scope}
RowsInCart(c, l) == {id \in Live : rows[id].cart = c /\ rows[id].listing = l}

Faults == IF DbFaults THEN BOOLEAN ELSE {FALSE}

\* validateListingFromCache: the listing can be bought at all, and this many of it
ValidListing(stock, l, q) == stock[l] > 0 /\ q <= stock[l]

-----------------------------------------------------------------------------
(* Steps of a request *)

NoStock == [l \in Listings |-> 0]

Idle(u) ==
  [pc |-> "idle", op |-> "add", user |-> u, lines |-> <<>>, scope |-> {},
   cart |-> NoCart, seen |-> NoStock, upd |-> {}, ins |-> {}, del |-> {},
   answer |-> "none"]

Init ==
  /\ carts = [c \in Requests |-> NoUser]
  /\ rows = [id \in RowId |-> NoRow]
  /\ listedQty \in Stock
  /\ peak = listedQty
  /\ req \in [Requests -> {Idle(u) : u \in Users}]

\* the response is sent: what the request still held dies with it
Answer(r, a) ==
  req' = [req EXCEPT ![r].pc = "done", ![r].answer = a, ![r].lines = <<>>,
                     ![r].cart = NoCart, ![r].seen = NoStock, ![r].upd = {}, ![r].ins = {}]

\* POST /cart/items: the listing is fetched and validated first
AddItem(r, l, q) ==
  /\ req[r].pc = "idle"
  /\ \E fault \in Faults :
       IF ~fault /\ ValidListing(listedQty, l, q)
       THEN req' = [req EXCEPT ![r].op = "add", ![r].pc = "findCart",
                               ![r].lines = <<[listing |-> l, quantity |-> q]>>,
                               ![r].seen = listedQty]
       ELSE Answer(r, "err")
  /\ UNCHANGED <<carts, rows, listedQty, peak>>

\* POST /cart/items/bulk: the cart is found or created first
AddItemsBulk(r, lines) ==
  /\ req[r].pc = "idle"
  /\ req' = [req EXCEPT ![r].op = "bulk", ![r].lines = lines, ![r].pc = "findCart"]
  /\ UNCHANGED <<carts, rows, listedQty, peak>>

\* where getOrCreateCart returns to: addItem has the listing, addItemsBulk has not
AfterCart(r) == IF req[r].op = "add" THEN "findItem" ELSE "fetchListings"

\* mutant: the cart found is not remembered
LookForCartForgets(r, next) ==
  /\ req' = [req EXCEPT ![r].pc = IF CartsOf(req[r].user) # {} THEN AfterCart(r) ELSE next]
  /\ UNCHANGED <<carts, rows, listedQty, peak>>

\* getOrCreateCart, the fast path, then the transaction's re-check.  A user with two
\* carts gets either: the query has no order.
LookForCart(r, next) ==
  /\ IF CartsOf(req[r].user) # {}
     THEN \E c \in CartsOf(req[r].user) :
            req' = [req EXCEPT ![r].cart = c, ![r].pc = AfterCart(r)]
     ELSE req' = [req EXCEPT ![r].pc = next]
  /\ UNCHANGED <<carts, rows, listedQty, peak>>

FindCart(r)    == req[r].pc = "findCart"    /\ LookForCart(r, "recheckCart")
RecheckCart(r) == req[r].pc = "recheckCart" /\ LookForCart(r, "createCart")

\* mutant: the result of createEntity is not looked at
CreateCartUnchecked(r) ==
  /\ req[r].pc = "createCart"
  /\ \E stored \in BOOLEAN :
       /\ DbFaults \/ stored
       /\ carts' = IF stored THEN [carts EXCEPT ![r] = req[r].user] ELSE carts
  /\ req' = [req EXCEPT ![r].cart = r, ![r].pc = AfterCart(r)]
  /\ UNCHANGED <<rows, listedQty, peak>>

\* createEntity answers an error instead of throwing, so after a failed insert the
\* transaction still ends with a flush: the cart may be stored though the request fails
CreateCart(r) ==
  /\ req[r].pc = "createCart"
  /\ \E fault \in Faults, stored \in BOOLEAN :
       /\ ~fault => stored
       /\ carts' = IF stored THEN [carts EXCEPT ![r] = req[r].user] ELSE carts
       /\ IF fault
          THEN Answer(r, "err")
          ELSE req' = [req EXCEPT ![r].cart = r, ![r].pc = AfterCart(r)]
  /\ UNCHANGED <<rows, listedQty, peak>>

\* mutants of FindItem: the sum is not validated, the item is never looked up, the new
\* quantity replaces the old one
FindItemUnvalidated(r) ==
  /\ req[r].pc = "findItem"
  /\ LET line == req[r].lines[1]
         hits == RowsInCart(req[r].cart, line.listing)
     IN  \/ /\ hits = {}
            /\ req' = [req EXCEPT ![r].pc = "insert", ![r].ins = {1}]
         \/ \E id \in hits :
              req' = [req EXCEPT ![r].pc = "flush",
                        ![r].upd = {[line |-> 1, id |-> id, loaded |-> rows[id].quantity,
                                     quantity |-> rows[id].quantity + line.quantity]}]
  /\ UNCHANGED <<carts, rows, listedQty, peak>>

FindItemNever(r) ==
  /\ req[r].pc = "findItem"
  /\ req' = [req EXCEPT ![r].pc = "insert", ![r].ins = {1}]
  /\ UNCHANGED <<carts, rows, listedQty, peak>>

FindItemReplaces(r) ==
  /\ req[r].pc = "findItem"
  /\ LET line == req[r].lines[1]
         hits == RowsInCart(req[r].cart, line.listing)
     IN  \/ /\ hits = {}
            /\ req' = [req EXCEPT ![r].pc = "insert", ![r].ins = {1}]
         \/ \E id \in hits :
              req' = [req EXCEPT ![r].pc = "flush",
                        ![r].upd = {[line |-> 1, id |-> id, loaded |-> rows[id].quantity,
                                     quantity |-> line.quantity]}]
  /\ UNCHANGED <<carts, rows, listedQty, peak>>

\* addItem, once the cart is known: look the item up (a failing query counts as "not
\* there"), then raise its quantity, validated against the listing fetched before
\* (findOne by primary key returns the entity this request already loaded), or insert
FindItem(r) ==
  /\ req[r].pc = "findItem"
  /\ LET line == req[r].lines[1]
         hits == RowsInCart(req[r].cart, line.listing)
     IN  \/ /\ hits = {} \/ DbFaults
            /\ req' = [req EXCEPT ![r].pc = "insert", ![r].ins = {1}]
         \/ \E id \in hits :
              LET sum == rows[id].quantity + line.quantity
              IN  IF ValidListing(req[r].seen, line.listing, sum)
                  THEN req' = [req EXCEPT ![r].pc = "flush",
                         ![r].upd = {[line |-> 1, id |-> id, quantity |-> sum,
                                      loaded |-> rows[id].quantity]}]
                  ELSE Answer(r, "err")
  /\ UNCHANGED <<carts, rows, listedQty, peak>>

\* addItemsBulk: one query for the listings of all lines; when it fails every line is
\* rejected as "Listing not found"
FetchListings(r) ==
  /\ req[r].pc = "fetchListings" /\ req[r].op = "bulk"
  /\ \E fault \in Faults :
       req' = [req EXCEPT ![r].pc = "findRows",
                          ![r].seen = IF fault THEN NoStock ELSE listedQty]
  /\ UNCHANGED <<carts, rows, listedQty, peak>>

\* addItemsBulk: the map of the cart's items by listing (of duplicate rows the last one
\* read stays), then every line is validated and becomes an update, an insert or a rejection
MapItemsForBulk(r) ==
  /\ req[r].pc = "findRows" /\ req[r].op = "bulk"
  /\ \E item \in [Listings -> RowId \cup {NoRow}], fault \in Faults :
       /\ \A l \in Listings :
            LET hits == RowsInCart(req[r].cart, l)
            IN  item[l] \in IF fault \/ hits = {} THEN {NoRow} ELSE hits
       /\ LET lines == req[r].lines
              Sum(i) == rows[item[lines[i].listing]].quantity + lines[i].quantity
              valid == {i \in DOMAIN lines :
                          ValidListing(req[r].seen, lines[i].listing, lines[i].quantity)}
              known == {i \in valid : item[lines[i].listing] # NoRow}
          IN  req' = [req EXCEPT
                ![r].pc = "flush",
                ![r].upd = {[line |-> i, id |-> item[lines[i].listing], quantity |-> Sum(i),
                             loaded |-> rows[item[lines[i].listing]].quantity] :
                              i \in {j \in known :
                                 ValidListing(req[r].seen, lines[j].listing, Sum(j))}},
                ![r].ins = valid \ known]
  /\ UNCHANGED <<carts, rows, listedQty, peak>>

\* PUT /cart/items/:listingId: find the caller's item, whichever cart it is in
UpdateItemQuantity(r, l, q) ==
  /\ req[r].pc = "idle"
  /\ LET hits == RowsIn(req[r].user, {l})
     IN  \/ /\ hits = {} \/ DbFaults
            /\ Answer(r, "err")
         \/ \E id \in hits :
              req' = [req EXCEPT ![r].op = "update",
                        ![r].lines = <<[listing |-> l, quantity |-> q]>>,
                        ![r].upd = {[line |-> 1, id |-> id, quantity |-> q,
                                     loaded |-> rows[id].quantity]},
                        ![r].pc = "fetchListings"]
  /\ UNCHANGED <<carts, rows, listedQty, peak>>

\* ... then validate the quantity against the listing
ValidateUpdate(r) ==
  /\ req[r].pc = "fetchListings" /\ req[r].op = "update"
  /\ \E fault \in Faults :
       LET line == req[r].lines[1]
       IN  IF /\ ~fault
              /\ line.quantity >= 1
              /\ ValidListing(listedQty, line.listing, line.quantity)
           THEN req' = [req EXCEPT ![r].pc = "flush", ![r].seen = listedQty]
           ELSE Answer(r, "err")
  /\ UNCHANGED <<carts, rows, listedQty, peak>>

\* One UPDATE.  It carries only the columns that differ from the loaded entity, and it
\* affects no row when the item has been deleted since: neither is reported.
Written(w) ==
  [id \in RowId |->
     IF id = w.id /\ rows[id] # NoRow /\ w.quantity # w.loaded
     THEN [rows[id] EXCEPT !.quantity = w.quantity] ELSE rows[id]]

\* What a request that has written is told: addItem and addItemsBulk read the cart back for
\* the response (getCart), which may fail although the write went through
Told(r, failed) ==
  IF failed THEN {"err"}
  ELSE {"ok"} \cup {a \in {"err"} : DbFaults /\ req[r].op \in {"add", "bulk"}}

\* Quantity updates, in the order of the lines.  addItemsBulk goes on when one fails,
\* addItem and updateItemQuantity answer an error.
FlushUpdate(r) ==
  /\ req[r].pc = "flush"
  /\ \E w \in req[r].upd, fault \in Faults :
       /\ \A v \in req[r].upd : w.line <= v.line
       /\ rows' = IF fault THEN rows ELSE Written(w)
       /\ IF req[r].op = "bulk"
          THEN req' = [req EXCEPT ![r].upd = @ \ {w}]
          ELSE \E a \in Told(r, fault) : Answer(r, a)
  /\ UNCHANGED <<carts, listedQty, peak>>

FlushDone(r) ==
  /\ req[r].pc = "flush" /\ req[r].upd = {}
  /\ req' = [req EXCEPT ![r].pc = "insert"]
  /\ UNCHANGED <<carts, rows, listedQty, peak>>

\* One INSERT of all new lines: createEntity of addItem, whose failure is answered,
\* createEntities of addItemsBulk, whose result nobody looks at
InsertItems(r) ==
  /\ req[r].pc = "insert"
  /\ \E fault \in Faults :
       /\ rows' = IF fault THEN rows
                  ELSE [id \in RowId |->
                          IF id[1] = r /\ id[2] \in req[r].ins
                          THEN [cart |-> req[r].cart,
                                listing |-> req[r].lines[id[2]].listing,
                                quantity |-> req[r].lines[id[2]].quantity]
                          ELSE rows[id]]
       /\ \E a \in Told(r, fault /\ req[r].op = "add") : Answer(r, a)
  /\ UNCHANGED <<carts, listedQty, peak>>

\* DELETE /cart/items/:listingId: find one item of the listing
RemoveItem(r, l) ==
  /\ req[r].pc = "idle"
  /\ LET hits == RowsIn(req[r].user, {l})
     IN  \/ /\ hits = {} \/ DbFaults
            /\ Answer(r, "err")
         \/ \E id \in hits :
              req' = [req EXCEPT ![r].op = "remove", ![r].scope = {l},
                                 ![r].del = {id}, ![r].pc = "findRows"]
  /\ UNCHANGED <<carts, rows, listedQty, peak>>

\* deleteMany reads the rows it will delete; none left is an error
ToDelete(r, found) ==
  IF found = {}
  THEN Answer(r, "err")
  ELSE req' = [req EXCEPT ![r].pc = "delete", ![r].del = found]

FindRemoved(r) ==
  /\ req[r].pc = "findRows" /\ req[r].op = "remove"
  /\ \E fault \in Faults : ToDelete(r, IF fault THEN {} ELSE req[r].del \cap Live)
  /\ UNCHANGED <<carts, rows, listedQty, peak>>

\* DELETE /cart (every listing), DELETE /cart/shops/:shopId/items (the shop's listings)
\* and removeItemsByListingIds after a checkout (the listings bought)
ClearScope(r, scope) ==
  /\ req[r].pc = "idle"
  /\ req' = [req EXCEPT ![r].op = "clear", ![r].scope = scope, ![r].pc = "findRows"]
  /\ UNCHANGED <<carts, rows, listedQty, peak>>

ClearCart(r)         == ClearScope(r, Listings)
ClearShopItems(r, s) == ClearScope(r, {l \in Listings : ShopOf[l] = s})

\* mutant: the listings are not part of the query
RemoveItemsOfUser(r, ids) == ClearScope(r, Listings)

RemoveItemsByListingIds(r, ids) == ClearScope(r, ids)

\* mutant: one item is found instead of all
FindClearedOne(r) ==
  /\ req[r].pc = "findRows" /\ req[r].op = "clear"
  /\ LET hits == RowsIn(req[r].user, req[r].scope)
     IN  \E found \in IF hits = {} THEN {{}} ELSE {{id} : id \in hits} : ToDelete(r, found)
  /\ UNCHANGED <<carts, rows, listedQty, peak>>

FindCleared(r) ==
  /\ req[r].pc = "findRows" /\ req[r].op = "clear"
  /\ \E fault \in Faults :
       ToDelete(r, IF fault THEN {} ELSE RowsIn(req[r].user, req[r].scope))
  /\ UNCHANGED <<carts, rows, listedQty, peak>>

\* mutant: the result of deleteMany is not looked at
DeleteUnchecked(r) ==
  /\ req[r].pc = "delete"
  /\ \E fault \in Faults :
       rows' = IF fault THEN rows
               ELSE [id \in RowId |-> IF id \in req[r].del THEN NoRow ELSE rows[id]]
  /\ Answer(r, "ok")
  /\ UNCHANGED <<carts, listedQty, peak>>

\* ... and deletes exactly those
Delete(r) ==
  /\ req[r].pc = "delete"
  /\ \E fault \in Faults :
       /\ rows' = IF fault THEN rows
                  ELSE [id \in RowId |-> IF id \in req[r].del THEN NoRow ELSE rows[id]]
       /\ Answer(r, IF fault THEN "err" ELSE "ok")
  /\ UNCHANGED <<carts, listedQty, peak>>

\* external: the sellers' portal changes the stock of a listing
SellerSetsStock(l, n) ==
  /\ listedQty' = [listedQty EXCEPT ![l] = n]
  /\ peak' = [peak EXCEPT ![l] = IF n > @ THEN n ELSE @]
  /\ UNCHANGED <<carts, rows, req>>

-----------------------------------------------------------------------------

\* a request arrives
Start(r) ==
  \/ \E l \in Listings, q \in Quantities : AddItem(r, l, q) \/ UpdateItemQuantity(r, l, q)
  \/ \E lines \in BulkOrders : AddItemsBulk(r, lines)
  \/ \E l \in Listings : RemoveItem(r, l)
  \/ ClearCart(r)
  \/ \E s \in Shops : ClearShopItems(r, s)
  \/ \E ids \in (SUBSET Listings) \ {{}} : RemoveItemsByListingIds(r, ids)

\* a request goes on after an await
Continue(r) ==
  \/ FindCart(r) \/ RecheckCart(r) \/ CreateCart(r)
  \/ FindItem(r) \/ FetchListings(r) \/ MapItemsForBulk(r) \/ ValidateUpdate(r)
  \/ FlushUpdate(r) \/ FlushDone(r) \/ InsertItems(r)
  \/ FindRemoved(r) \/ FindCleared(r) \/ Delete(r)

Next ==
  \/ \E r \in Requests : Start(r) \/ Continue(r)
  \/ \E l \in Listings, n \in Stocks : SellerSetsStock(l, n)

Spec == Init /\ [][Next]_vars

-----------------------------------------------------------------------------
(* Properties *)

\* No item asks for more than its listing offered at some time: every quantity stored was
\* validated against a stock the request read, a raised quantity as a whole
\* (cart.service.ts:120-126, 246-256), whatever other requests wrote in between.
QuantityWasOffered ==
  \A id \in Live : rows[id].quantity <= peak[rows[id].listing]

\* Every item lies in a cart that is stored, also when the cart's creation failed halfway
\* or two requests created one each (getOrCreateCart).
ItemsLieInCarts == \A id \in Live : carts[rows[id].cart] # NoUser

Acts(r) == req'[r] # req[r]

\* A request changes, adds and deletes items of its own user only, although it addresses
\* them by ids it read before an await.
OwnItemsOnly ==
  [][\A r \in Requests, id \in RowId :
       Acts(r) /\ rows'[id] # rows[id] =>
         carts[(IF rows[id] # NoRow THEN rows[id] ELSE rows'[id]).cart] = req[r].user]_vars

\* What a request was told is deleted never comes back: an update of another request,
\* prepared before the deletion and written after it, does not restore the item.
DeletedStaysDeleted ==
  \A r \in Requests : req[r].answer = "ok" => req[r].del \cap Live = {}

\* The promise of getOrCreateCart's comment (cart.service.ts:592-596): "Uses transaction to
\* prevent race conditions when multiple requests try to create a cart for the same user".
OneCartPerUser == \A u \in Users : Cardinality(CartsOf(u)) <= 1

=============================================================================
