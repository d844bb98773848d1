------------------------------ MODULE Purchase ------------------------------
(***************************************************************************)
(* The cart and the checkout together.  A checkout's cleanup is the cart's *)
(* removeItemsByListingIds, run as a cart request of the same name, while  *)
(* the user's other requests go on; its validation reads the stock the     *)
(* cart reads.  A crash of the server ends the requests of both.           *)
(***************************************************************************)
EXTENDS Integers, Sequences, FiniteSets

CONSTANTS
  Shoppers,   \* bound: requests on the cart
  Checkouts,  \* bound: checkouts
  Users, Listings, Shops, ShopOf, Quantities, Stocks, MaxLines, BulkOrders,
  DbFaults,      \* whether a call on the cart's tables may fail
  CommitFaults,  \* whether a statement of the order's transaction may fail
  NoUser, NoRow, NoCart, Guest

VARIABLES carts, rows, listedQty, peak, req, co, order, texted, announced,
          held  \* held[k]: auxiliary, the items the user's cart held when checkout k began

C == INSTANCE Cart     WITH Requests <- Shoppers \cup Checkouts
K == INSTANCE Checkout WITH Requests <- Checkouts, DbFaults <- CommitFaults

ASSUME PurchaseAssumption ==
  Shoppers \cap Checkouts = {} /\ C!CartAssumption /\ K!CheckoutAssumption

cartVars     == <<carts, rows, listedQty, peak, req>>
checkoutVars == <<co, order, texted, announced>>
vars         == <<carts, rows, listedQty, peak, req, co, order, texted, announced, held>>

Init ==
  /\ C!Init
  /\ K!Init
  /\ held = [k \in Checkouts |-> {}]

Shop(r) ==
  /\ C!Start(r) \/ C!Continue(r)
  /\ UNCHANGED <<checkoutVars, held>>

Submit(k, items, m, v) ==
  /\ \E u \in {req[k].user, Guest} :
       /\ K!Submit(k, u, items, m, v)
       /\ held' = [held EXCEPT ![k] = IF u = Guest THEN {} ELSE C!RowsOf(u)]
  /\ UNCHANGED cartVars

\* one of each listing is bought
Validate(k) ==
  /\ \E ok \in BOOLEAN :
       /\ ok => \A l \in co[k].items : C!ValidListing(listedQty, l, 1)
       /\ K!Validate(k, ok)
  /\ UNCHANGED <<cartVars, held>>

OrderStep(k) ==
  /\ \/ \E applies, matches \in BOOLEAN : K!Calculate(k, applies, matches)
     \/ K!Commit(k) \/ K!CommitFails(k) \/ K!Notify(k) \/ K!EmitCompleted(k)
  /\ UNCHANGED <<cartVars, held>>

StartCleanup(k) ==
  /\ K!StartCleanup(k)
  /\ C!RemoveItemsByListingIds(k, co[k].items)
  /\ UNCHANGED held

Cleanup(k) ==
  /\ C!Continue(k)
  /\ UNCHANGED <<checkoutVars, held>>

CleanupDone(k) ==
  /\ req[k].pc = "done"
  /\ K!CleanupDone(k)
  /\ UNCHANGED <<cartVars, held>>

Crash ==
  /\ K!Crash
  /\ req' = [r \in Shoppers \cup Checkouts |->
               IF req[r].pc = "idle" THEN req[r] ELSE [req[r] EXCEPT !.pc = "done"]]
  /\ UNCHANGED <<carts, rows, listedQty, peak, held>>

Next ==
  \/ \E r \in Shoppers : Shop(r)
  \/ \E k \in Checkouts :
       \/ \E items \in (SUBSET Listings) \ {{}}, m \in K!Methods, v \in BOOLEAN :
            Submit(k, items, m, v)
       \/ Validate(k) \/ OrderStep(k) \/ StartCleanup(k) \/ Cleanup(k) \/ CleanupDone(k)
  \/ Crash
  \/ \E l \in Listings, n \in Stocks :
       C!SellerSetsStock(l, n) /\ UNCHANGED <<checkoutVars, held>>

Spec == Init /\ [][Next]_vars

-----------------------------------------------------------------------------
(* Properties *)

\* A checkout deletes from a cart only what it bought: items of its own user, of a listing
\* in an order that is stored (order-creation.service.ts:478-496).
CleanupOnlyBought ==
  [][\A k \in Checkouts, id \in C!RowId :
       req'[k] # req[k] /\ rows'[id] # rows[id] =>
         /\ order[k] = "full"
         /\ carts[rows[id].cart] = co[k].user
         /\ rows[id].listing \in co[k].items]_vars

\* A signed-in customer told that the order was placed no longer has in the cart what it
\* held of the bought listings when the checkout began, in whichever cart of the user it
\* lay and whatever requests ran meanwhile.
BoughtLeavesCart ==
  \A k \in Checkouts : co[k].answer = "ok" =>
    \A id \in held[k] \cap C!Live : rows[id].listing \notin co[k].items

=============================================================================
