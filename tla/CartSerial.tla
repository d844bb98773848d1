----------------------------- MODULE CartSerial -----------------------------
(***************************************************************************)
(* The cart as used by clients that wait: no two requests of one user are  *)
(* under way at once, those of different users still interleave, and no    *)
(* database call fails.  Then the handlers, many steps each, implement     *)
(* AbstractCart: one step per request.                                     *)
(***************************************************************************)
EXTENDS Cart, FiniteSetsExt

CONSTANT NoOrder

VARIABLE before  \* before[u]: auxiliary, u's cart when the last request of u began

Contents(u) ==
  [l \in Listings |-> MapThenSumSet(LAMBDA id : rows[id].quantity, RowsIn(u, {l}))]

Active(u) == {r \in Requests : req[r].user = u /\ req[r].pc \notin {"idle", "done"}}

SerialInit == Init /\ before = [u \in Users |-> Contents(u)]

SerialStart(r) ==
  /\ Active(req[r].user) = {}
  /\ Start(r)
  /\ before' = [before EXCEPT ![req[r].user] = Contents(req[r].user)]

SerialNext ==
  \/ \E r \in Requests : SerialStart(r)
  \/ \E r \in Requests : Continue(r) /\ UNCHANGED before
  \/ \E l \in Listings, n \in Stocks : SellerSetsStock(l, n) /\ UNCHANGED before

SerialSpec == SerialInit /\ [][SerialNext]_<<vars, before>>

-----------------------------------------------------------------------------

OrderOf(r) == [op |-> req[r].op, lines |-> req[r].lines, scope |-> req[r].scope]

Orders ==
  {[op |-> o, lines |-> b, scope |-> {}] :
     o \in {"add", "bulk", "update"},
     b \in BulkOrders \cup {<<[listing |-> l, quantity |-> q]>> : l \in Listings, q \in Quantities}}
  \cup {[op |-> o, lines |-> <<>>, scope |-> s] : o \in {"remove", "clear"}, s \in SUBSET Listings}

ASSUME SerialAssumption == NoOrder \notin Orders

Abstract == INSTANCE AbstractCart WITH
  contents <- [u \in Users |-> IF Active(u) = {} THEN Contents(u) ELSE before[u]],
  order <- [u \in Users |-> IF Active(u) = {} THEN NoOrder
                            ELSE OrderOf(CHOOSE r \in Active(u) : TRUE)]

\* The cart's handlers keep the promise of AbstractCart: what the rows of all carts of a
\* user add up to changes, from the first to the last step of a request, as that request
\* asks and not otherwise (addItem, addItemsBulk, updateItemQuantity, removeItem,
\* clearCart, clearShopItems, removeItemsByListingIds).
ImplementsAbstractCart == Abstract!Spec

\* A client that waits has one cart, and one row per listing in it: the lookups by user and
\* by listing, which take any row that fits, are not ambiguous.
OneRowPerListing ==
  \A u \in Users :
    /\ Cardinality(CartsOf(u)) <= 1
    /\ \A l \in Listings : Cardinality(RowsIn(u, {l})) <= 1

=============================================================================
