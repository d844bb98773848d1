----------------------------- MODULE PurchaseProofs -----------------------------
(***************************************************************************)
(* What a checkout does to the cart, for any users, listings, carts and    *)
(* numbers of requests.  The cart's own invariant is taken over from its   *)
(* proofs: the composition only runs the cart's steps, and a crash of the  *)
(* server, which ends requests, keeps it too.                              *)
(***************************************************************************)
EXTENDS Purchase, TLAPS

CP == INSTANCE CartProofs WITH Requests <- Shoppers \cup Checkouts

\* The cart's assumption on its constants is the composition's.
LEMMA CartAssumed == CP!CartAssumption
BY PurchaseAssumption DEF C!CartAssumption, CP!CartAssumption

\* The queries of the cart are those its proofs are about.
LEMMA SameQueries ==
  /\ C!RowId = CP!RowId /\ C!Live = CP!Live /\ C!NoStock = CP!NoStock /\ C!Faults = CP!Faults
  /\ \A u : C!RowsOf(u) = CP!RowsOf(u)
  /\ \A u, scope : C!RowsIn(u, scope) = CP!RowsIn(u, scope)
  /\ \A r, a : C!Answer(r, a) <=> CP!Answer(r, a)
<1>1. C!RowId = CP!RowId /\ C!NoStock = CP!NoStock /\ C!Faults = CP!Faults
  BY DEF C!RowId, CP!RowId, C!NoStock, CP!NoStock, C!Faults, CP!Faults
<1>2. C!Live = CP!Live
  BY <1>1 DEF C!Live, CP!Live
<1>3. \A u : C!RowsOf(u) = CP!RowsOf(u)
  BY <1>2 DEF C!RowsOf, CP!RowsOf
<1>4. \A u, scope : C!RowsIn(u, scope) = CP!RowsIn(u, scope)
  BY <1>3 DEF C!RowsIn, CP!RowsIn
<1>5. \A r, a : C!Answer(r, a) <=> CP!Answer(r, a)
  BY <1>1 DEF C!Answer, CP!Answer
<1> QED BY <1>1, <1>2, <1>3, <1>4, <1>5

\* The steps of the cart in the composition are those its proofs are about.
LEMMA SameStarts == \A r : C!Start(r) => CP!Start(r)
<1>1. \A r, l, q : C!AddItem(r, l, q) => CP!AddItem(r, l, q)
  BY SameQueries DEF C!AddItem, CP!AddItem, C!ValidListing, CP!ValidListing
<1>2. \A r, l, q : C!UpdateItemQuantity(r, l, q) => CP!UpdateItemQuantity(r, l, q)
  <2> SUFFICES ASSUME NEW r, NEW l, NEW q, C!UpdateItemQuantity(r, l, q)
               PROVE  CP!UpdateItemQuantity(r, l, q)
    OBVIOUS
  <2> DEFINE hits == C!RowsIn(req[r].user, {l})
             Found(id) == req' = [req EXCEPT ![r].op = "update",
                                    ![r].lines = <<[listing |-> l, quantity |-> q]>>,
                                    ![r].upd = {[line |-> 1, id |-> id, quantity |-> q,
                                                 loaded |-> rows[id].quantity]},
                                    ![r].pc = "fetchListings"]
  <2>1. /\ req[r].pc = "idle" /\ UNCHANGED <<carts, rows, listedQty, peak>>
        /\ \/ /\ hits = {} \/ DbFaults
              /\ C!Answer(r, "err")
           \/ \E id \in hits : Found(id)
    BY DEF C!UpdateItemQuantity
  <2>2. hits = CP!RowsIn(req[r].user, {l}) /\ (C!Answer(r, "err") <=> CP!Answer(r, "err"))
    BY SameQueries
  <2> HIDE DEF hits
  <2> QED BY <2>1, <2>2, Zenon DEF CP!UpdateItemQuantity
<1>3. \A r, lines : C!AddItemsBulk(r, lines) => CP!AddItemsBulk(r, lines)
  BY DEF C!AddItemsBulk, CP!AddItemsBulk
<1>4. \A r, l : C!RemoveItem(r, l) => CP!RemoveItem(r, l)
  BY SameQueries, ZenonT(60) DEF C!RemoveItem, CP!RemoveItem
<1>5. \A r, scope : C!ClearScope(r, scope) => CP!ClearScope(r, scope)
  BY DEF C!ClearScope, CP!ClearScope
<1> QED
  BY <1>1, <1>2, <1>3, <1>4, <1>5
  DEF C!Start, C!ClearCart, C!ClearShopItems, C!RemoveItemsByListingIds,
      CP!Start, CP!ClearCart, CP!ClearShopItems, CP!RemoveItemsByListingIds

\* ... after an await as well.
LEMMA SameContinuations == \A r : C!Continue(r) => CP!Continue(r)
<1>1. \A r : C!Delete(r) => CP!Delete(r)
  BY SameQueries DEF C!Delete, CP!Delete
<1>2. \A r : (C!FindCart(r) => CP!FindCart(r)) /\ (C!RecheckCart(r) => CP!RecheckCart(r))
  BY DEF C!FindCart, CP!FindCart, C!RecheckCart, CP!RecheckCart, C!LookForCart, CP!LookForCart,
         C!AfterCart, CP!AfterCart, C!CartsOf, CP!CartsOf
<1>3. \A r : C!CreateCart(r) => CP!CreateCart(r)
  BY SameQueries DEF C!CreateCart, CP!CreateCart, C!AfterCart, CP!AfterCart
<1>4. \A r : C!FindItem(r) => CP!FindItem(r)
  BY SameQueries, ZenonT(60) DEF C!FindItem, CP!FindItem, C!ValidListing, CP!ValidListing, C!RowsInCart,
                     CP!RowsInCart
<1>5. \A r : C!FetchListings(r) => CP!FetchListings(r)
  BY SameQueries DEF C!FetchListings, CP!FetchListings
<1>6. \A r : C!MapItemsForBulk(r) => CP!MapItemsForBulk(r)
  BY DEF C!MapItemsForBulk, CP!MapItemsForBulk, C!Faults, CP!Faults, C!ValidListing,
         CP!ValidListing, C!RowsInCart, CP!RowsInCart, C!Live, CP!Live, C!RowId, CP!RowId
<1>7. \A r : C!ValidateUpdate(r) => CP!ValidateUpdate(r)
  BY SameQueries DEF C!ValidateUpdate, CP!ValidateUpdate, C!ValidListing, CP!ValidListing
<1>8. \A r : C!FlushUpdate(r) => CP!FlushUpdate(r)
  BY ZenonT(60) DEF C!FlushUpdate, CP!FlushUpdate, C!Faults, CP!Faults, C!Written, CP!Written, C!Told,
         CP!Told, C!RowId, CP!RowId, C!Answer, CP!Answer, C!NoStock, CP!NoStock
<1>9. \A r : C!InsertItems(r) => CP!InsertItems(r)
  BY SameQueries DEF C!InsertItems, CP!InsertItems, C!Told, CP!Told
<1>10. \A r : (C!FindRemoved(r) => CP!FindRemoved(r)) /\ (C!FindCleared(r) => CP!FindCleared(r))
  BY SameQueries DEF C!FindRemoved, CP!FindRemoved, C!FindCleared, CP!FindCleared, C!ToDelete,
                     CP!ToDelete
<1> QED
  BY <1>1, <1>2, <1>3, <1>4, <1>5, <1>6, <1>7, <1>8, <1>9, <1>10
  DEF C!Continue, C!FlushDone, CP!Continue, CP!FlushDone

\* The first state of the cart, and the steps of its sellers.
LEMMA SameBeginning ==
  /\ C!Init => CP!Init
  /\ \A l, n : C!SellerSetsStock(l, n) => CP!SellerSetsStock(l, n)
<1>1. C!Init => CP!Init
  BY SameQueries DEF C!Init, CP!Init, C!Stock, CP!Stock, C!Idle, CP!Idle
<1>2. \A l, n : C!SellerSetsStock(l, n) => CP!SellerSetsStock(l, n)
  BY DEF C!SellerSetsStock, CP!SellerSetsStock
<1> QED BY <1>1, <1>2

-----------------------------------------------------------------------------

Requests == Shoppers \cup Checkouts

\* A crash ends every request that is under way, and stores nothing.
LEMMA CrashKeepsCart == CP!CartInv /\ Crash => CP!CartInv'
<1> SUFFICES ASSUME CP!CartInv, Crash PROVE CP!CartInv'
  OBVIOUS
<1>1. /\ req' = [r \in Requests |->
                   IF req[r].pc = "idle" THEN req[r] ELSE [req[r] EXCEPT !.pc = "done"]]
      /\ UNCHANGED <<carts, rows, listedQty, peak>>
  BY DEF Crash, Requests
<1>2. ASSUME NEW r \in Requests
      PROVE  /\ req'[r] \in CP!Request /\ req'[r].user = req[r].user /\ req'[r].op = req[r].op
             /\ req'[r].lines = req[r].lines /\ req'[r].scope = req[r].scope
             /\ req'[r].cart = req[r].cart /\ req'[r].seen = req[r].seen
             /\ req'[r].upd = req[r].upd /\ req'[r].ins = req[r].ins /\ req'[r].del = req[r].del
             /\ req'[r].answer = req[r].answer
             /\ \/ req[r].pc = "idle" /\ req'[r].pc = "idle"
                \/ req'[r].pc = "done"
  <2>1. req[r] \in CP!Request
    BY DEF CP!CartInv, CP!TypeOK, Requests
  <2>2. req'[r] = IF req[r].pc = "idle" THEN req[r] ELSE [req[r] EXCEPT !.pc = "done"]
    BY <1>1
  <2>3. "done" \in CP!Pcs
    BY DEF CP!Pcs
  <2> QED BY <2>1, <2>2, <2>3 DEF CP!Request
<1>3. CP!TypeOK'
  BY <1>1, <1>2 DEF CP!CartInv, CP!TypeOK, Requests, CP!RowId, CP!Stock
<1>4. ASSUME NEW id \in CP!RowId PROVE CP!RowSound(id)'
  <2>1. CP!RowSound(id) /\ id[1] \in Requests
    BY DEF CP!CartInv, CP!RowId, Requests
  <2> QED BY <1>1, <1>2, <2>1 DEF CP!RowSound
<1>5. ASSUME NEW r \in Requests PROVE CP!Sound(r)'
  <2>1. CP!Sound(r) /\ req[r] \in CP!Request
    BY DEF CP!CartInv, CP!TypeOK, Requests
  <2>2. CP!Placed(r)'
    BY <1>2, <2>1 DEF CP!Sound, CP!Placed, CP!Over
  <2>3. CP!Lined(r)'
    BY <1>2, <2>1 DEF CP!Sound, CP!Lined
  <2>4. CP!Offered(r)'
    BY <1>1, <1>2, <2>1 DEF CP!Sound, CP!Offered, CP!Over
  <2>5. /\ \A w \in req[r].upd : w.id[1] \in Requests
        /\ \A id \in req[r].del : id[1] \in Requests
    BY <2>1 DEF CP!Request, CP!Write, CP!RowId, Requests
  <2>6. CP!Owned(r)'
    BY <1>1, <1>2, <2>1, <2>5 DEF CP!Sound, CP!Owned, CP!Mine
  <2> QED BY <2>2, <2>3, <2>4, <2>6 DEF CP!Sound
<1>6. /\ \A l \in Listings : listedQty'[l] <= peak'[l]
      /\ \A c \in Requests : carts'[c] \in {NoUser, req'[c].user}
  BY <1>1, <1>2 DEF CP!CartInv, Requests
<1> QED BY <1>3, <1>4, <1>5, <1>6 DEF CP!CartInv, Requests

\* Every step of the composition is one of the cart, a crash, or none of the cart's.
LEMMA CartSteps ==
  ASSUME [Next]_vars
  PROVE  \/ \E r \in Requests : CP!Start(r)
         \/ \E r \in Requests : CP!Continue(r)
         \/ \E l \in Listings, n \in Stocks : CP!SellerSetsStock(l, n)
         \/ \E k \in Checkouts : CP!ClearScope(k, co[k].items)
         \/ Crash
         \/ UNCHANGED cartVars
BY SameStarts, SameContinuations, SameBeginning
   DEF Next, Shop, Submit, Validate, OrderStep, StartCleanup, Cleanup, CleanupDone, Requests,
       C!RemoveItemsByListingIds, C!ClearScope, CP!ClearScope, vars, cartVars

\* The cart's invariant is kept by all of them.
LEMMA CartKept ==
  ASSUME CP!CartInv, [Next]_vars, \A k \in Checkouts : co[k].items \subseteq Listings
  PROVE  CP!CartInv'
<1>1. CP!Next \/ UNCHANGED CP!vars => CP!CartInv'
  BY CP!CartInvNext, CartAssumed
<1>2. ASSUME NEW k \in Checkouts, CP!ClearScope(k, co[k].items) PROVE CP!CartInv'
  BY <1>2, CP!ClearScopeInv, CartAssumed DEF Requests
<1> QED BY <1>1, <1>2, CartSteps, CrashKeepsCart DEF CP!Next, CP!vars, cartVars, Requests

-----------------------------------------------------------------------------
(* What a step leaves alone *)

\* A request keeps its user, and is not taken up again when it is over.
LEMMA RequestsKept ==
  ASSUME CP!CartInv, [Next]_vars, NEW r \in Requests
  PROVE  req'[r].user = req[r].user /\ (req[r].pc = "done" => req'[r].pc = "done")
<1>1. ASSUME NEW q \in Requests,
             CP!Start(q) \/ CP!Continue(q) \/ \E scope : CP!ClearScope(q, scope)
      PROVE  req'[r].user = req[r].user /\ (req[r].pc = "done" => req'[r].pc = "done")
  BY <1>1, CP!OneActs, CartAssumed DEF Requests
<1>2. CASE Crash
  <2>1. req'[r] = IF req[r].pc = "idle" THEN req[r] ELSE [req[r] EXCEPT !.pc = "done"]
    BY <1>2 DEF Crash, Requests
  <2>2. req[r] \in CP!Request
    BY DEF CP!CartInv, CP!TypeOK, Requests
  <2> QED BY <2>1, <2>2 DEF CP!Request
<1>3. CASE UNCHANGED cartVars \/ \E l \in Listings, n \in Stocks : CP!SellerSetsStock(l, n)
  BY <1>3 DEF cartVars, CP!SellerSetsStock
<1> QED BY <1>1, <1>2, <1>3, CartSteps DEF Requests

\* A row inserted by a request that is over keeps its cart and its listing until it is deleted,
\* and does not come back then.
LEMMA RowsKept ==
  ASSUME CP!CartInv, [Next]_vars, NEW id \in CP!RowId, req[id[1]].pc = "done", rows'[id] # NoRow
  PROVE  /\ rows[id] # NoRow
         /\ rows'[id].cart = rows[id].cart /\ rows'[id].listing = rows[id].listing
<1>1. CASE CP!Next \/ UNCHANGED CP!vars
  BY <1>1, CP!RowKept, CartAssumed
<1>2. CASE rows' = rows
  BY <1>2
<1> QED BY <1>1, <1>2, CartSteps DEF CP!Next, CP!ClearScope, Crash, CP!vars, cartVars, Requests

\* A cart that is stored keeps its owner.
LEMMA CartsStay ==
  ASSUME CP!CartInv, [Next]_vars, NEW c \in Requests, carts[c] # NoUser
  PROVE  carts'[c] = carts[c]
<1>1. CASE CP!Next \/ UNCHANGED CP!vars
  BY <1>1, CP!CartStays, CartAssumed DEF Requests
<1>2. CASE carts' = carts
  BY <1>2
<1> QED BY <1>1, <1>2, CartSteps DEF CP!Next, CP!ClearScope, Crash, CP!vars, cartVars, Requests

\* What a request knows of a row it has read stays true.
LEMMA MineKept ==
  ASSUME CP!CartInv, [Next]_vars, NEW r \in Requests, NEW id \in CP!RowId, CP!Mine(r, id)
  PROVE  CP!Mine(r, id)'
<1>1. id[1] \in Requests
  BY DEF CP!RowId, Requests
<1>2. req'[id[1]].pc = "done" /\ req'[r].user = req[r].user
  BY <1>1, RequestsKept DEF CP!Mine
<1>3. ASSUME rows'[id] # NoRow PROVE carts'[rows'[id].cart] = req[r].user
  <2>1. rows[id] # NoRow /\ rows'[id].cart = rows[id].cart
    BY <1>3, RowsKept DEF CP!Mine
  <2>2. rows[id] \in CP!Row /\ req[r] \in CP!Request
    BY <2>1 DEF CP!CartInv, CP!TypeOK, Requests
  <2>3. carts[rows[id].cart] = req[r].user /\ req[r].user # NoUser /\ rows[id].cart \in Requests
    BY <2>1, <2>2, CartAssumed DEF CP!Mine, CP!Row, CP!Request, CP!CartAssumption, Requests
  <2> QED BY <2>1, <2>3, CartsStay
<1> QED BY <1>2, <1>3 DEF CP!Mine

-----------------------------------------------------------------------------
(* What a checkout knows of the cart *)

\* The cart request of a checkout begins with the cleanup, which is all that it does.
Begins(k) ==
  co[k].pc \in {"idle", "validate", "calculate", "transaction", "cleanup"} => req[k].pc = "idle"
Cleans(k) ==
  req[k].pc \notin CP!Over =>
    co[k].pc = "cleaning" /\ req[k].op = "clear" /\ req[k].scope = co[k].items

\* The cleanup is for a signed-in customer whose order is stored.
Buyer(k) ==
  /\ co[k].user \in {req[k].user, Guest}
  /\ co[k].pc \in {"cleanup", "cleaning"} => order[k] = "full" /\ co[k].user # Guest

\* What the cart held when the checkout began was inserted by requests that were over.
Holds(k) ==
  /\ held[k] \subseteq CP!RowId
  /\ \A id \in held[k] : CP!Mine(k, id)
  /\ co[k].user = Guest => held[k] = {}

\* The rows to be deleted are those bought: all of them that the cart held, and no other.
Deletes(k) ==
  req[k].pc = "delete" =>
    /\ \A id \in req[k].del : rows[id] # NoRow => rows[id].listing \in co[k].items
    /\ \A id \in held[k] : rows[id] # NoRow /\ rows[id].listing \in co[k].items => id \in req[k].del

Emptied(k) == \A id \in held[k] : rows[id] # NoRow => rows[id].listing \notin co[k].items

\* When the cleanup is over, nothing is left of what was bought.
Empties(k) ==
  /\ ~DbFaults
  /\ \/ co[k].pc = "cleaning" /\ req[k].pc = "done"
     \/ co[k].pc \in {"notify", "emit"}
     \/ co[k].answer = "ok"
  => Emptied(k)

BuyInv(k) == Begins(k) /\ Cleans(k) /\ Buyer(k) /\ Holds(k) /\ Deletes(k) /\ Empties(k)

PInv ==
  /\ CP!CartInv /\ K!TypeOK
  /\ held \in [Checkouts -> SUBSET CP!RowId]
  /\ \A k \in Checkouts : BuyInv(k)

-----------------------------------------------------------------------------

\* At first the cart is empty and no checkout has begun.
LEMMA PInvInit == Init => PInv
<1> SUFFICES ASSUME Init PROVE PInv
  OBVIOUS
<1>1. CP!CartInv
  BY SameBeginning, CP!CartInvInit, CartAssumed DEF Init
<1>2. K!TypeOK
  BY DEF Init, K!Init, K!TypeOK, K!Idle, K!Checkout, K!Stored, K!Methods, K!CashMethods, K!Pcs,
         K!Answers
<1>3. ASSUME NEW k \in Checkouts PROVE BuyInv(k)
  <2>1. \E u \in Users : req[k] = C!Idle(u)
    BY DEF Init, C!Init
  <2>2. req[k].pc = "idle"
    BY <2>1 DEF C!Idle
  <2>3. /\ co[k].pc = "idle" /\ co[k].user = Guest /\ co[k].answer = "none" /\ held[k] = {}
    BY DEF Init, K!Init, K!Idle
  <2> QED BY <2>2, <2>3 DEF BuyInv, Begins, Cleans, Buyer, Holds, Deletes, Empties, CP!Over
<1>4. held \in [Checkouts -> SUBSET CP!RowId]
  BY DEF Init
<1> QED BY <1>1, <1>2, <1>3, <1>4 DEF PInv

\* What a checkout knows of the rows it held, and of those it deletes, stays true.
LEMMA HeldKept ==
  ASSUME PInv, [Next]_vars, NEW k \in Checkouts
  PROVE  /\ \A id \in held[k] : CP!Mine(k, id)'
         /\ \A id \in held[k] \cup req[k].del :
              rows'[id] # NoRow => rows[id] # NoRow /\ rows'[id].listing = rows[id].listing
         /\ req'[k].user = req[k].user
<1>1. CP!CartInv /\ BuyInv(k) /\ k \in Requests /\ CP!Sound(k) /\ req[k] \in CP!Request
  BY DEF PInv, CP!CartInv, CP!TypeOK, Requests
<1>2. /\ \A id \in held[k] : id \in CP!RowId /\ CP!Mine(k, id)
      /\ \A id \in req[k].del : id \in CP!RowId /\ CP!Mine(k, id)
  BY <1>1 DEF BuyInv, Holds, CP!Sound, CP!Owned, CP!Request
<1>3. \A id \in held[k] \cup req[k].del : id \in CP!RowId /\ req[id[1]].pc = "done"
  BY <1>2 DEF CP!Mine
<1> QED BY <1>1, <1>2, <1>3, MineKept, RowsKept, RequestsKept

\* A checkout keeps what it knows when others act.
LEMMA BuyKept ==
  ASSUME PInv, [Next]_vars, NEW k \in Checkouts,
         req'[k] = req[k], co'[k] = co[k], order'[k] = order[k], held'[k] = held[k]
  PROVE  BuyInv(k)'
<1>1. BuyInv(k)
  BY DEF PInv
<1>2. Begins(k)' /\ Cleans(k)' /\ Buyer(k)'
  BY <1>1 DEF BuyInv, Begins, Cleans, Buyer
<1>3. Holds(k)'
  BY <1>1, HeldKept DEF BuyInv, Holds, CP!RowId
<1>4. Deletes(k)'
  BY <1>1, HeldKept DEF BuyInv, Deletes
<1>5. Emptied(k) => Emptied(k)'
  BY HeldKept DEF Emptied
<1>6. Empties(k)'
  BY <1>1, <1>5 DEF BuyInv, Empties
<1> QED BY <1>2, <1>3, <1>4, <1>6 DEF BuyInv

\* A step of a checkout after its beginning changes where it stands, and nothing of the others.
LEMMA CheckoutStep ==
  ASSUME K!TypeOK, NEW k \in Checkouts,
         \/ \E ok \in BOOLEAN : K!Validate(k, ok)
         \/ \E applies, matches \in BOOLEAN : K!Calculate(k, applies, matches)
         \/ K!Commit(k) \/ K!CommitFails(k) \/ K!StartCleanup(k) \/ K!CleanupDone(k)
         \/ K!Notify(k) \/ K!EmitCompleted(k)
  PROVE  /\ K!TypeOK'
         /\ co'[k].user = co[k].user /\ co'[k].items = co[k].items
         /\ \A q \in Checkouts \ {k} : co'[q] = co[q] /\ order'[q] = order[q]
<1> USE DEF K!TypeOK
<1>1. co[k] \in K!Checkout /\ co \in [Checkouts -> K!Checkout]
  OBVIOUS
<1>2. ASSUME NEW p \in K!Pcs, K!Goto(k, p)
      PROVE  /\ co' \in [Checkouts -> K!Checkout]
             /\ co'[k].user = co[k].user /\ co'[k].items = co[k].items
             /\ \A q \in Checkouts \ {k} : co'[q] = co[q]
  BY <1>1, <1>2 DEF K!Goto, K!Checkout
<1>3. ASSUME NEW a \in K!Answers, K!Answer(k, a)
      PROVE  /\ co' \in [Checkouts -> K!Checkout]
             /\ co'[k].user = co[k].user /\ co'[k].items = co[k].items
             /\ \A q \in Checkouts \ {k} : co'[q] = co[q]
  <2>1. "done" \in K!Pcs
    BY DEF K!Pcs
  <2> QED BY <1>1, <1>3, <2>1 DEF K!Answer, K!Checkout
<1>4. /\ {"calculate", "transaction", "cleanup", "cleaning", "notify", "emit"} \subseteq K!Pcs
      /\ {"ok", "invalid", "voucher", "fee", "total", "failed"} \subseteq K!Answers
  BY DEF K!Pcs, K!Answers
<1>5. CASE \E ok \in BOOLEAN : K!Validate(k, ok)
  BY <1>2, <1>3, <1>4, <1>5 DEF K!Validate
<1>6. CASE \E applies, matches \in BOOLEAN : K!Calculate(k, applies, matches)
  <2>1. /\ UNCHANGED <<order, texted, announced>>
        /\ \/ \E a \in {"voucher", "fee", "total"} : K!Answer(k, a)
           \/ \E d \in BOOLEAN :
                co' = [co EXCEPT ![k].pc = "transaction", ![k].discounted = d]
    <3>1. PICK applies \in BOOLEAN, matches \in BOOLEAN : K!Calculate(k, applies, matches)
      BY <1>6
    <3>2. (co[k].voucher /\ applies) \in BOOLEAN
      BY Zenon
    <3> QED BY <3>1, <3>2 DEF K!Calculate
  <2>2. ASSUME NEW d \in BOOLEAN,
               co' = [co EXCEPT ![k].pc = "transaction", ![k].discounted = d]
        PROVE  /\ co' \in [Checkouts -> K!Checkout]
               /\ co'[k].user = co[k].user /\ co'[k].items = co[k].items
               /\ \A q \in Checkouts \ {k} : co'[q] = co[q]
    BY <1>1, <1>4, <2>2 DEF K!Checkout
  <2> QED BY <1>3, <1>4, <2>1, <2>2
<1>7. CASE K!Commit(k) \/ K!CleanupDone(k)
  <2>1. /\ \/ order' = order
           \/ order' = [order EXCEPT ![k] = "full"]
        /\ UNCHANGED <<texted, announced>>
        /\ K!Answer(k, "ok") \/ K!Goto(k, "notify") \/ K!Goto(k, "cleanup")
    BY <1>7 DEF K!Commit, K!CleanupDone, K!Announce
  <2>2. order' \in [Checkouts -> K!Stored] /\ \A q \in Checkouts \ {k} : order'[q] = order[q]
    BY <2>1 DEF K!Stored
  <2> QED BY <1>2, <1>3, <1>4, <2>1, <2>2
<1>8. CASE K!CommitFails(k)
  BY <1>3, <1>4, <1>8 DEF K!CommitFails
<1>9. CASE K!StartCleanup(k)
  BY <1>2, <1>4, <1>9 DEF K!StartCleanup
<1>10. CASE K!Notify(k) \/ K!EmitCompleted(k)
  BY <1>2, <1>3, <1>4, <1>10 DEF K!Notify, K!EmitCompleted
<1> QED BY <1>5, <1>6, <1>7, <1>8, <1>9, <1>10

-----------------------------------------------------------------------------
(* The steps of a checkout *)

\* The cart as it is when a checkout is sent becomes what the checkout holds.
LEMMA SubmitKeeps ==
  ASSUME PInv, NEW k \in Checkouts, NEW items \in (SUBSET Listings) \ {{}}, NEW m \in K!Methods,
         NEW v \in BOOLEAN, Submit(k, items, m, v)
  PROVE  /\ K!TypeOK' /\ BuyInv(k)'
         /\ \A q \in Checkouts \ {k} :
              req'[q] = req[q] /\ co'[q] = co[q] /\ order'[q] = order[q] /\ held'[q] = held[q]
<1>1. PICK u \in {req[k].user, Guest} :
        /\ K!Submit(k, u, items, m, v)
        /\ held' = [held EXCEPT ![k] = IF u = Guest THEN {} ELSE C!RowsOf(u)]
        /\ UNCHANGED cartVars
  BY DEF Submit
<1>2. /\ CP!CartInv /\ K!TypeOK /\ BuyInv(k) /\ k \in Requests
      /\ co \in [Checkouts -> K!Checkout] /\ req[k].user \in Users
  BY DEF PInv, K!TypeOK, CP!CartInv, CP!TypeOK, CP!Request, Requests
<1> DEFINE c == [K!Idle EXCEPT !.pc = "validate", !.user = u, !.items = items, !.method = m,
                               !.voucher = v]
<1>3. /\ co[k].pc = "idle" /\ co' = [co EXCEPT ![k] = c] /\ UNCHANGED <<order, texted, announced>>
  BY <1>1 DEF K!Submit, K!At
<1>4. /\ c.pc = "validate" /\ c.user = u /\ c.items = items /\ c.answer = "none"
      /\ c \in K!Checkout
  BY <1>2 DEF K!Idle, K!Checkout, K!Pcs, K!Answers
<1> HIDE DEF c
<1>5. K!TypeOK' /\ co'[k] = c
  BY <1>2, <1>3, <1>4 DEF K!TypeOK
<1>6. req[k].pc = "idle" /\ req'[k] = req[k]
  BY <1>1, <1>2, <1>3 DEF BuyInv, Begins, cartVars
<1>7. /\ Begins(k)' /\ Cleans(k)' /\ Buyer(k)' /\ Deletes(k)' /\ Empties(k)'
  BY <1>3, <1>4, <1>5, <1>6
     DEF Begins, Cleans, Buyer, Deletes, Empties, CP!Over
<1>8. Holds(k)'
  <2>1. ASSUME NEW id \in CP!RowsOf(req[k].user)
        PROVE  id \in CP!RowId /\ CP!Mine(k, id)'
    <3>1. /\ id \in CP!RowId /\ rows[id] # NoRow /\ CP!RowSound(id)
          /\ carts[rows[id].cart] = req[k].user
      BY <1>2 DEF CP!RowsOf, CP!Live, CP!CartInv
    <3> QED BY <1>1, <1>6, <3>1 DEF CP!RowSound, CP!Mine, cartVars
  <2>2. held'[k] \in {{}, CP!RowsOf(req[k].user)} /\ (u = Guest => held'[k] = {})
    <3>1. held \in [Checkouts -> SUBSET CP!RowId]
      BY DEF PInv
    <3> QED BY <1>1, <3>1, SameQueries
  <2> QED BY <1>4, <1>5, <2>1, <2>2 DEF Holds, CP!RowId
<1>9. \A q \in Checkouts \ {k} :
        req'[q] = req[q] /\ co'[q] = co[q] /\ order'[q] = order[q] /\ held'[q] = held[q]
  BY <1>1, <1>2, <1>3 DEF cartVars, PInv
<1> QED BY <1>5, <1>7, <1>8, <1>9 DEF BuyInv

\* The steps of a checkout that leave the cart alone: before the cleanup its cart request has not
\* begun, after it nothing that was bought is left.
LEMMA OrderStepKeeps ==
  ASSUME PInv, [Next]_vars, NEW k \in Checkouts, Validate(k) \/ OrderStep(k) \/ CleanupDone(k)
  PROVE  /\ K!TypeOK' /\ BuyInv(k)'
         /\ \A q \in Checkouts \ {k} :
              req'[q] = req[q] /\ co'[q] = co[q] /\ order'[q] = order[q] /\ held'[q] = held[q]
<1>1. /\ K!TypeOK /\ BuyInv(k) /\ UNCHANGED <<carts, rows, req, held>>
      /\ CP!CartInv /\ k \in Requests
  BY DEF PInv, Validate, OrderStep, CleanupDone, cartVars, Requests
<1>2. /\ K!TypeOK'
      /\ co'[k].user = co[k].user /\ co'[k].items = co[k].items
      /\ \A q \in Checkouts \ {k} : co'[q] = co[q] /\ order'[q] = order[q]
  BY <1>1, CheckoutStep DEF Validate, OrderStep, CleanupDone
<1>3. co \in [Checkouts -> K!Checkout] /\ order \in [Checkouts -> K!Stored]
  BY <1>1 DEF K!TypeOK
<1>4. /\ \A p : K!Goto(k, p) => co'[k].pc = p /\ co'[k].answer = co[k].answer
      /\ \A a : K!Answer(k, a) => co'[k].pc = "done" /\ co'[k].answer = a
  BY <1>3 DEF K!Goto, K!Answer, K!Checkout
<1>5. /\ Emptied(k) => Emptied(k)'
      /\ Holds(k)' /\ Deletes(k)'
      /\ co'[k].user \in {req'[k].user, Guest}
  BY <1>1, <1>2, HeldKept DEF BuyInv, Buyer, Emptied, Holds, Deletes, CP!RowId
<1>6. CASE Validate(k) \/ \E applies, matches \in BOOLEAN : K!Calculate(k, applies, matches)
  <2>1. /\ co[k].pc \in {"validate", "calculate"} /\ order' = order
        /\ co'[k].pc \in {"calculate", "transaction", "done"}
        /\ co'[k].answer \in {co[k].answer, "invalid", "voucher", "fee", "total"}
    <3>1. CASE Validate(k)
      BY <1>4, <3>1 DEF Validate, K!Validate, K!At
    <3>2. ASSUME NEW applies \in BOOLEAN, NEW matches \in BOOLEAN,
                 K!Calculate(k, applies, matches)
          PROVE  /\ co[k].pc = "calculate" /\ order' = order
                 /\ co'[k].pc \in {"transaction", "done"}
                 /\ co'[k].answer \in {co[k].answer, "invalid", "voucher", "fee", "total"}
      <4>1. ASSUME NEW d,
                   co' = [co EXCEPT ![k].pc = "transaction", ![k].discounted = d]
            PROVE  co'[k].pc = "transaction" /\ co'[k].answer = co[k].answer
        BY <1>3, <4>1 DEF K!Checkout
      <4> QED BY <1>4, <3>2, <4>1 DEF K!Calculate, K!At
    <3> QED BY <1>6, <3>1, <3>2
  <2>2. Empties(k)'
    BY <1>1, <1>2, <1>5, <2>1 DEF BuyInv, Empties
  <2> QED BY <1>1, <1>2, <1>5, <2>1, <2>2 DEF BuyInv, Begins, Cleans, Buyer, CP!Over
<1>7. CASE K!Commit(k)
  <2>1. /\ co[k].pc = "transaction" /\ order'[k] = "full" /\ req[k].pc = "idle"
        /\ \/ co[k].user = Guest /\ (K!Answer(k, "ok") \/ K!Goto(k, "notify"))
           \/ co[k].user # Guest /\ K!Goto(k, "cleanup")
    BY <1>1, <1>3, <1>7 DEF K!Commit, K!Announce, K!At, BuyInv, Begins
  <2>2. co[k].user = Guest => Emptied(k)'
    BY <1>1, <1>2 DEF BuyInv, Holds, Emptied
  <2>3. Empties(k)'
    BY <1>1, <1>2, <1>4, <1>5, <2>1, <2>2 DEF BuyInv, Empties
  <2> QED BY <1>1, <1>2, <1>4, <1>5, <2>1, <2>3 DEF BuyInv, Begins, Cleans, Buyer, CP!Over
<1>8. CASE K!CommitFails(k)
  <2>1. co[k].pc = "transaction" /\ req[k].pc = "idle" /\ K!Answer(k, "failed")
    BY <1>1, <1>8 DEF K!CommitFails, K!At, BuyInv, Begins
  <2> QED BY <1>1, <1>2, <1>4, <1>5, <2>1
          DEF BuyInv, Begins, Cleans, Buyer, Empties, CP!Over
<1>9. CASE CleanupDone(k) \/ K!Notify(k) \/ K!EmitCompleted(k)
  <2>1. /\ co[k].pc \in {"cleaning", "notify", "emit"} /\ req[k].pc \in CP!Over
        /\ co[k].pc = "cleaning" => req[k].pc = "done"
        /\ K!Answer(k, "ok") \/ K!Goto(k, "notify") \/ K!Goto(k, "emit")
    BY <1>1, <1>9
       DEF CleanupDone, K!CleanupDone, K!Announce, K!Notify, K!EmitCompleted, K!At, BuyInv, Cleans,
           CP!Over
  <2>2. ~DbFaults => Emptied(k)'
    BY <1>1, <1>5, <2>1 DEF BuyInv, Empties
  <2> QED BY <1>1, <1>2, <1>4, <1>5, <2>1, <2>2
          DEF BuyInv, Begins, Cleans, Buyer, Empties, CP!Over
<1> QED BY <1>1, <1>2, <1>6, <1>7, <1>8, <1>9 DEF OrderStep

\* The cleanup begins with the listings of the order.
LEMMA StartCleanupKeeps ==
  ASSUME PInv, [Next]_vars, NEW k \in Checkouts, StartCleanup(k)
  PROVE  /\ K!TypeOK' /\ BuyInv(k)'
         /\ \A q \in Checkouts \ {k} :
              req'[q] = req[q] /\ co'[q] = co[q] /\ order'[q] = order[q] /\ held'[q] = held[q]
<1>1. /\ K!TypeOK /\ BuyInv(k) /\ UNCHANGED <<carts, rows, held, order>> /\ CP!CartInv
      /\ k \in Requests /\ K!StartCleanup(k) /\ CP!ClearScope(k, co[k].items)
  BY DEF PInv, StartCleanup, Requests, K!StartCleanup, C!RemoveItemsByListingIds, C!ClearScope,
         CP!ClearScope
<1>2. /\ K!TypeOK'
      /\ co'[k].user = co[k].user /\ co'[k].items = co[k].items
      /\ \A q \in Checkouts \ {k} : co'[q] = co[q] /\ order'[q] = order[q]
  BY <1>1, CheckoutStep
<1>3. req \in [Requests -> CP!Request] /\ co \in [Checkouts -> K!Checkout]
  BY <1>1 DEF CP!CartInv, CP!TypeOK, K!TypeOK, Requests
<1>4. /\ co[k].pc = "cleanup" /\ co'[k].pc = "cleaning" /\ co'[k].answer = co[k].answer
      /\ req[k].pc = "idle" /\ req'[k].pc = "findRows" /\ req'[k].op = "clear"
      /\ req'[k].scope = co[k].items /\ req'[k].user = req[k].user
      /\ \A q \in Checkouts \ {k} : req'[q] = req[q]
  BY <1>1, <1>3 DEF CP!ClearScope, K!StartCleanup, K!Goto, K!At, CP!Request, K!Checkout, Requests
<1>5. Holds(k)' /\ (Emptied(k) => Emptied(k)')
  BY <1>1, <1>2, <1>4, HeldKept DEF BuyInv, Holds, Emptied, CP!RowId
<1> QED BY <1>1, <1>2, <1>4, <1>5
        DEF BuyInv, Begins, Cleans, Buyer, Deletes, Empties, CP!Over

\* The cleanup finds what the customer's carts hold of the listings, and deletes that.
LEMMA CleanupKeeps ==
  ASSUME PInv, [Next]_vars, NEW k \in Checkouts, Cleanup(k)
  PROVE  /\ K!TypeOK' /\ BuyInv(k)'
         /\ \A q \in Checkouts \ {k} :
              req'[q] = req[q] /\ co'[q] = co[q] /\ order'[q] = order[q] /\ held'[q] = held[q]
<1>1. /\ K!TypeOK /\ BuyInv(k) /\ UNCHANGED <<co, order, texted, announced, held>> /\ CP!CartInv
      /\ k \in Requests /\ CP!Continue(k) /\ CP!Sound(k) /\ req[k] \in CP!Request
  BY SameContinuations DEF PInv, Cleanup, Requests, checkoutVars, CP!CartInv, CP!TypeOK
<1>2. \A q \in Checkouts \ {k} :
        req'[q] = req[q] /\ co'[q] = co[q] /\ order'[q] = order[q] /\ held'[q] = held[q]
  BY <1>1, CP!OneActs, CartAssumed DEF Requests
<1>3. /\ req[k].pc \notin CP!Over
      /\ req[k].op = "clear" => CP!FindCleared(k) \/ CP!Delete(k)
  <2>1. req[k].op = "clear" => req[k].pc \in {"findRows", "delete", "done"}
    BY <1>1 DEF CP!Sound, CP!Placed
  <2> QED BY <1>1, <2>1
      DEF CP!Continue, CP!FindCart, CP!RecheckCart, CP!CreateCart, CP!FindItem, CP!FetchListings,
          CP!MapItemsForBulk, CP!ValidateUpdate, CP!FlushUpdate, CP!FlushDone, CP!InsertItems,
          CP!FindRemoved, CP!FindCleared, CP!Delete, CP!Over
<1>4. /\ co[k].pc = "cleaning" /\ req[k].op = "clear" /\ req[k].scope = co[k].items
      /\ order[k] = "full" /\ co[k].user = req[k].user
  BY <1>1, <1>3 DEF BuyInv, Cleans, Buyer
<1>5. /\ Holds(k)' /\ (Emptied(k) => Emptied(k)') /\ Buyer(k)' /\ Begins(k)'
      /\ K!TypeOK'
  BY <1>1, <1>4, HeldKept DEF BuyInv, Holds, Emptied, Buyer, Begins, CP!RowId, K!TypeOK
<1>6. ASSUME NEW a, CP!Answer(k, a)
      PROVE  req'[k].pc = "done"
  BY <1>1, <1>6 DEF CP!Answer, CP!CartInv, CP!TypeOK, Requests, CP!Request
<1>7. CASE CP!FindCleared(k)
  <2>1. PICK fault \in CP!Faults :
          CP!ToDelete(k, IF fault THEN {} ELSE CP!RowsIn(req[k].user, req[k].scope))
    BY <1>7 DEF CP!FindCleared
  <2>2. rows' = rows
    BY <1>7 DEF CP!FindCleared
  <2>3. \A id \in held[k] :
          rows[id] # NoRow /\ rows[id].listing \in co[k].items
            => id \in CP!RowsIn(req[k].user, req[k].scope)
    BY <1>1, <1>4 DEF BuyInv, Holds, CP!Mine, CP!RowsIn, CP!RowsOf, CP!Live
  <2>4. CASE req'[k].pc = "done"
    <3>1. ~DbFaults => CP!RowsIn(req[k].user, req[k].scope) = {}
      BY <1>1, <1>7, <2>1, <2>4
      DEF CP!ToDelete, CP!Faults, CP!CartInv, CP!TypeOK, CP!Request, CP!FindCleared,
          Requests
    <3>2. ~DbFaults => Emptied(k)
      BY <2>3, <3>1 DEF Emptied
    <3> QED BY <1>1, <1>2, <1>4, <1>5, <2>4, <3>2
            DEF BuyInv, Cleans, Deletes, Empties, CP!Over
  <2>5. CASE req'[k].pc # "done"
    <3>1. /\ req'[k].pc = "delete" /\ req'[k].del = CP!RowsIn(req[k].user, req[k].scope)
          /\ req'[k].op = "clear" /\ req'[k].scope = req[k].scope
      <4>1. CASE fault
        BY <1>6, <2>1, <2>5, <4>1 DEF CP!ToDelete
      <4>2. CASE ~fault
        BY <1>1, <1>4, <1>6, <2>1, <2>5, <4>2
           DEF CP!ToDelete, CP!CartInv, CP!TypeOK, CP!Request, Requests
      <4> QED BY <2>1, <4>1, <4>2 DEF CP!Faults
    <3>2. Deletes(k)'
      BY <1>1, <1>4, <2>2, <2>3, <3>1 DEF Deletes, CP!RowsIn
    <3> QED BY <1>1, <1>2, <1>4, <1>5, <3>1, <3>2 DEF BuyInv, Cleans, Empties, CP!Over
  <2> QED BY <2>4, <2>5
<1>8. CASE CP!Delete(k)
  <2>1. PICK fault \in CP!Faults :
          /\ rows' = IF fault THEN rows
                     ELSE [id \in CP!RowId |-> IF id \in req[k].del THEN NoRow ELSE rows[id]]
          /\ CP!Answer(k, IF fault THEN "err" ELSE "ok")
    BY <1>8 DEF CP!Delete
  <2>2. req[k].pc = "delete" /\ req'[k].pc = "done"
    BY <1>6, <1>8, <2>1 DEF CP!Delete
  <2>3. ~DbFaults => Emptied(k)'
    <3> SUFFICES ASSUME ~DbFaults, NEW id \in held[k], rows'[id] # NoRow
                 PROVE  rows'[id].listing \notin co'[k].items
      BY <1>1 DEF Emptied
    <3>1. id \in CP!RowId /\ id \notin req[k].del /\ rows'[id] = rows[id]
      BY <1>1, <2>1 DEF BuyInv, Holds, CP!Faults
    <3> QED BY <1>1, <2>2, <3>1 DEF BuyInv, Deletes
  <2> QED BY <1>1, <1>2, <1>5, <2>2, <2>3 DEF BuyInv, Cleans, Deletes, Empties, CP!Over
<1> QED BY <1>3, <1>4, <1>7, <1>8

\* A crash ends the cart requests of the checkouts with them.
LEMMA CrashKeeps ==
  ASSUME PInv, [Next]_vars, Crash
  PROVE  K!TypeOK' /\ \A k \in Checkouts : BuyInv(k)'
<1>1. /\ K!TypeOK /\ UNCHANGED <<carts, rows, held, order, texted, announced>>
      /\ co' = [r \in Checkouts |->
                  IF K!InFlight(r) THEN [co[r] EXCEPT !.pc = "lost"] ELSE co[r]]
      /\ req' = [r \in Requests |->
                   IF req[r].pc = "idle" THEN req[r] ELSE [req[r] EXCEPT !.pc = "done"]]
      /\ req \in [Requests -> CP!Request]
  BY DEF PInv, Crash, K!Crash, CP!CartInv, CP!TypeOK, Requests
<1>2. ASSUME NEW k \in Checkouts
      PROVE  /\ co'[k] \in K!Checkout /\ co'[k].user = co[k].user /\ co'[k].items = co[k].items
             /\ co'[k].answer = co[k].answer
             /\ \/ co'[k].pc = "lost"
                \/ co[k].pc \in {"idle", "done", "lost"} /\ co'[k].pc = co[k].pc
  <2>1. co[k] \in K!Checkout /\ "lost" \in K!Pcs
    BY <1>1 DEF K!TypeOK, K!Pcs
  <2> QED BY <1>1, <2>1 DEF K!Checkout, K!InFlight
<1>3. K!TypeOK'
  BY <1>1, <1>2 DEF K!TypeOK
<1>4. ASSUME NEW k \in Checkouts PROVE BuyInv(k)'
  <2>1. BuyInv(k) /\ k \in Requests
    BY DEF PInv, Requests
  <2>2. /\ req'[k].user = req[k].user
        /\ \/ req[k].pc = "idle" /\ req'[k].pc = "idle"
           \/ req'[k].pc = "done"
    BY <1>1, <2>1 DEF CP!Request
  <2>3. Holds(k)' /\ (Emptied(k) => Emptied(k)')
    BY <1>1, <1>2, <2>1, HeldKept DEF BuyInv, Holds, Emptied, CP!RowId
  <2> QED BY <1>1, <1>2, <2>1, <2>2, <2>3
          DEF BuyInv, Begins, Cleans, Buyer, Deletes, Empties, CP!Over
<1> QED BY <1>3, <1>4

\* Every step keeps what the checkouts know.
LEMMA PInvNext == PInv /\ [Next]_vars => PInv'
<1> SUFFICES ASSUME PInv, [Next]_vars PROVE PInv'
  OBVIOUS
<1>1. CP!CartInv'
  BY CartKept DEF PInv, K!TypeOK, K!Checkout
<1>2. held' \in [Checkouts -> SUBSET CP!RowId]
  <2>1. ASSUME NEW k \in Checkouts, NEW S \in SUBSET CP!RowId, held' = [held EXCEPT ![k] = S]
        PROVE  held' \in [Checkouts -> SUBSET CP!RowId]'
    BY <2>1 DEF PInv, CP!RowId
  <2>2. \A u : C!RowsOf(u) \in SUBSET CP!RowId
    BY SameQueries DEF CP!RowsOf, CP!Live
  <2>3. held' = held \/ \E k \in Checkouts, S \in SUBSET CP!RowId : held' = [held EXCEPT ![k] = S]
    BY <2>2 DEF Next, Shop, Submit, Validate, OrderStep, StartCleanup, Cleanup, CleanupDone, Crash,
                vars
  <2> QED BY <2>1, <2>3 DEF PInv, CP!RowId
<1>3. K!TypeOK' /\ \A k \in Checkouts : BuyInv(k)'
  <2>1. ASSUME NEW k \in Checkouts, K!TypeOK', BuyInv(k)',
               \A q \in Checkouts \ {k} :
                 req'[q] = req[q] /\ co'[q] = co[q] /\ order'[q] = order[q] /\ held'[q] = held[q]
        PROVE  K!TypeOK' /\ \A q \in Checkouts : BuyInv(q)'
    BY <2>1, BuyKept
  <2>2. ASSUME UNCHANGED <<co, order, texted, announced, held>>,
               \A q \in Checkouts : req'[q] = req[q]
        PROVE  K!TypeOK' /\ \A q \in Checkouts : BuyInv(q)'
    BY <2>2, BuyKept DEF PInv, K!TypeOK
  <2>3. ASSUME NEW r \in Shoppers, Shop(r) PROVE \A q \in Checkouts : req'[q] = req[q]
    <3>1. CP!Start(r) \/ CP!Continue(r)
      BY <2>3, SameStarts, SameContinuations DEF Shop
    <3>2. \A q \in Checkouts : q \in Requests \ {r}
      <4>1. Shoppers \cap Checkouts = {}
        BY PurchaseAssumption, Zenon
      <4> QED BY <4>1 DEF Requests
    <3> QED BY <3>1, <3>2, CP!OneActs, CartAssumed DEF PInv, Requests
  <2>4. ASSUME NEW k \in Checkouts, NEW items \in (SUBSET Listings) \ {{}}, NEW m \in K!Methods,
               NEW v \in BOOLEAN, Submit(k, items, m, v)
        PROVE  K!TypeOK' /\ \A q \in Checkouts : BuyInv(q)'
    BY <2>1, <2>4, SubmitKeeps
  <2>5. ASSUME NEW k \in Checkouts,
               \/ Validate(k) \/ OrderStep(k) \/ CleanupDone(k)
               \/ StartCleanup(k) \/ Cleanup(k)
        PROVE  K!TypeOK' /\ \A q \in Checkouts : BuyInv(q)'
    BY <2>1, <2>5, OrderStepKeeps, StartCleanupKeeps, CleanupKeeps
  <2>6. ASSUME NEW l \in Listings, NEW n \in Stocks,
               C!SellerSetsStock(l, n), UNCHANGED <<checkoutVars, held>>
        PROVE  UNCHANGED <<co, order, texted, announced, held>> /\ req' = req
    BY <2>6 DEF C!SellerSetsStock, checkoutVars
  <2> QED BY <2>2, <2>3, <2>4, <2>5, <2>6, CrashKeeps DEF Next, Shop, checkoutVars, vars
<1> QED BY <1>1, <1>2, <1>3 DEF PInv

\* What the checkouts know holds in every state.
LEMMA PInvAlways == Spec => []PInv
BY PInvInit, PInvNext, PTL DEF Spec

-----------------------------------------------------------------------------

\* A customer told that the order was placed no longer has in the cart what it held of the bought
\* listings when the checkout began, if the calls on the cart's tables do not fail: the answer of
\* the cleanup is not looked at.
THEOREM PurchaseBoughtLeavesCart == ~DbFaults /\ Spec => []BoughtLeavesCart
<1> SUFFICES ASSUME ~DbFaults PROVE Spec => []BoughtLeavesCart
  OBVIOUS
<1>1. PInv => BoughtLeavesCart
  BY SameQueries DEF PInv, BuyInv, Empties, Emptied, BoughtLeavesCart, CP!Live
<1> QED BY <1>1, PInvAlways, PTL

\* A checkout deletes from a cart only what it bought, whatever fails.
THEOREM PurchaseCleanupOnlyBought == Spec => CleanupOnlyBought
<1> DEFINE Bought == \A k \in Checkouts, id \in C!RowId :
                       req'[k] # req[k] /\ rows'[id] # rows[id] =>
                         /\ order[k] = "full"
                         /\ carts[rows[id].cart] = co[k].user
                         /\ rows[id].listing \in co[k].items
<1>1. PInv /\ [Next]_vars => [Bought]_vars
  <2> SUFFICES ASSUME PInv, [Next]_vars, NEW k \in Checkouts, NEW id \in CP!RowId,
                      req'[k] # req[k], rows'[id] # rows[id]
               PROVE  /\ order[k] = "full"
                      /\ carts[rows[id].cart] = co[k].user
                      /\ rows[id].listing \in co[k].items
    BY SameQueries, Zenon
  <2>1. CP!CartInv /\ BuyInv(k) /\ k \in Requests /\ CP!Sound(k) /\ req[k] \in CP!Request
    BY DEF PInv, CP!CartInv, CP!TypeOK, Requests
  <2>2. CP!Continue(k)
    <3>1. ASSUME NEW q \in Requests, CP!Start(q) \/ CP!Continue(q) PROVE q = k
      BY <2>1, <3>1, CP!OneActs, CartAssumed DEF Requests
    <3>2. ASSUME NEW q, CP!Start(q) PROVE rows' = rows
      BY <3>2 DEF CP!Start, CP!AddItem, CP!UpdateItemQuantity, CP!AddItemsBulk, CP!RemoveItem,
             CP!ClearCart, CP!ClearShopItems, CP!RemoveItemsByListingIds, CP!ClearScope
    <3> QED BY <3>1, <3>2, CartSteps DEF CP!SellerSetsStock, CP!ClearScope, Crash, cartVars
  <2>3. req[k].pc \notin CP!Over
    BY <2>2
       DEF CP!Continue, CP!FindCart, CP!RecheckCart, CP!CreateCart, CP!FindItem, CP!FetchListings,
           CP!MapItemsForBulk, CP!ValidateUpdate, CP!FlushUpdate, CP!FlushDone, CP!InsertItems,
           CP!FindRemoved, CP!FindCleared, CP!Delete, CP!Over
  <2>4. /\ co[k].pc = "cleaning" /\ req[k].op = "clear" /\ order[k] = "full"
        /\ co[k].user = req[k].user
    BY <2>1, <2>3 DEF BuyInv, Cleans, Buyer
  <2>5. CP!Delete(k)
    <3>1. req[k].pc \in {"findRows", "delete"}
      BY <2>1, <2>3, <2>4 DEF CP!Sound, CP!Placed, CP!Over
    <3> QED BY <2>2, <2>4, <3>1
        DEF CP!Continue, CP!FindCart, CP!RecheckCart, CP!CreateCart, CP!FindItem,
            CP!FetchListings, CP!MapItemsForBulk, CP!ValidateUpdate, CP!FlushUpdate, CP!FlushDone,
            CP!InsertItems, CP!FindRemoved, CP!FindCleared
  <2>6. req[k].pc = "delete" /\ id \in req[k].del /\ rows[id] # NoRow
    BY <2>5 DEF CP!Delete
  <2> QED BY <2>1, <2>4, <2>6 DEF BuyInv, Deletes, CP!Sound, CP!Owned, CP!Mine
<1> QED BY <1>1, PInvAlways, PTL DEF Spec, CleanupOnlyBought

=============================================================================
