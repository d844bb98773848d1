--------------------------- MODULE CartSerialProofs ---------------------------
(***************************************************************************)
(* Proofs about CartSerial: clients that wait, a database that answers and *)
(* bulk requests that name no listing twice.  Then a user has one cart and *)
(* one row per listing in it.  The inductive invariant, SerialInv, adds to *)
(* CartInv what a request between its lookup and its insertion knows: what *)
(* it did not find is still not there, because only its own user could     *)
(* have inserted it, and its user waits.  A second one, EffectInv, adds    *)
(* how far a request under way has come since its user's cart was as       *)
(* "before" tells, and that its prepared writes fit the rows as they are:  *)
(* with it the handlers implement AbstractCart.                            *)
(***************************************************************************)
EXTENDS CartSerial, CartProofs, FiniteSetTheorems

Busy(r) == req[r].pc \notin Over

\* The lines of a request name different listings.
LinesApart(lines) ==
  \A i, j \in DOMAIN lines : i # j => lines[i].listing # lines[j].listing

\* Users wait: of their requests one is under way.
OneBusy ==
  \A q, r \in Requests : Busy(q) /\ Busy(r) /\ req[q].user = req[r].user => q = r

OneCart ==
  \A c, d \in Requests : carts[c] = carts[d] /\ carts[c] # NoUser => c = d

RowsApart ==
  \A i, j \in Live : rows[i].cart = rows[j].cart /\ rows[i].listing = rows[j].listing => i = j

\* What request r is going to create or to insert is not there.
Placing(r) ==
  /\ req[r].pc = "createCart" => CartsOf(req[r].user) = {}
  /\ req[r].op = "bulk" /\ Busy(r) => LinesApart(req[r].lines)
  /\ req[r].ins # {} => req[r].pc \in {"flush", "insert"}
  /\ \A i \in req[r].ins : RowsInCart(req[r].cart, req[r].lines[i].listing) = {}

SerialInv ==
  /\ CartInv
  /\ OneBusy
  /\ OneCart
  /\ RowsApart
  /\ \A r \in Requests : Placing(r)

-----------------------------------------------------------------------------

\* Nothing is stored and nobody is served.
LEMMA SerialInvInit == SerialInit => SerialInv
<1> SUFFICES ASSUME SerialInit PROVE SerialInv
  OBVIOUS
<1>1. CartInv
  BY CartInvInit DEF SerialInit
<1>2. ASSUME NEW r \in Requests PROVE req[r].pc = "idle" /\ req[r].op = "add" /\ req[r].ins = {}
  <2>1. \E u \in Users : req[r] = Idle(u)
    BY DEF SerialInit, Init
  <2> QED BY <2>1 DEF Idle
<1>3. \A r \in Requests : Placing(r) /\ ~Busy(r)
  BY <1>2 DEF Placing, Busy, Over
<1>4. OneCart /\ RowsApart
  BY DEF SerialInit, Init, OneCart, RowsApart, Live
<1> QED BY <1>1, <1>3, <1>4 DEF SerialInv, OneBusy

\* A serial step is a step of the cart.
LEMMA SerialIsCart == SerialNext => Next
BY DEF SerialNext, SerialStart, Next

\* A request that goes on is under way.
LEMMA ContinuesBusy == ASSUME NEW r, Continue(r) PROVE Busy(r)
BY DEF Continue, Busy, Over, FindCart, RecheckCart, CreateCart, FindItem, FetchListings,
       MapItemsForBulk, ValidateUpdate, FlushUpdate, FlushDone, InsertItems, FindRemoved,
       FindCleared, Delete

\* Users keep waiting.
LEMMA BusyKept ==
  ASSUME SerialInv, NEW r \in Requests, SerialStart(r) \/ Continue(r)
  PROVE  OneBusy'
<1>1. /\ req'[r].user = req[r].user
      /\ \A q \in Requests \ {r} : req'[q] = req[q]
  BY OneActs DEF SerialInv, SerialStart
<1>2. ASSUME NEW q \in Requests \ {r}, Busy(q), req[q].user = req[r].user PROVE FALSE
  <2>1. CASE SerialStart(r)
    BY <1>2, <2>1 DEF SerialStart, Active, Busy, Over
  <2>2. CASE Continue(r)
    BY <1>2, <2>2, ContinuesBusy DEF SerialInv, OneBusy
  <2> QED BY <2>1, <2>2
<1> QED BY <1>1, <1>2 DEF OneBusy, Busy, SerialInv

\* Carts are created in one place, by a user who has none.
LEMMA CartsWritten ==
  ASSUME SerialInv, NEW r \in Requests, Start(r) \/ Continue(r)
  PROVE  \/ carts' = carts
         \/ /\ req[r].pc = "createCart" /\ CartsOf(req[r].user) = {}
            /\ carts' = [carts EXCEPT ![r] = req[r].user]
<1>1. CASE CreateCart(r)
  BY <1>1 DEF CreateCart, SerialInv, Placing
<1>2. CASE (Start(r) \/ Continue(r)) /\ ~CreateCart(r)
  BY <1>2
  DEF Start, AddItem, UpdateItemQuantity, AddItemsBulk, RemoveItem, ClearCart,
      ClearShopItems, RemoveItemsByListingIds, ClearScope, Continue, FindCart,
      RecheckCart, LookForCart, FindItem, FetchListings, MapItemsForBulk,
      ValidateUpdate, FlushUpdate, FlushDone, InsertItems, FindRemoved,
      FindCleared, Delete
<1> QED BY <1>1, <1>2

\* A user keeps having one cart.
LEMMA OneCartKept ==
  ASSUME SerialInv, NEW r \in Requests, Start(r) \/ Continue(r)
  PROVE  OneCart'
<1>1. carts \in [Requests -> Users \cup {NoUser}]
  BY DEF SerialInv, CartInv, TypeOK
<1>2. CASE carts' = carts
  BY <1>2 DEF SerialInv, OneCart
<1>3. CASE CartsOf(req[r].user) = {} /\ carts' = [carts EXCEPT ![r] = req[r].user]
  <2>1. \A c \in Requests : carts[c] # req[r].user
    BY <1>3 DEF CartsOf
  <2> QED BY <1>1, <1>3, <2>1 DEF SerialInv, OneCart
<1> QED BY <1>2, <1>3, CartsWritten

\* A row that is stored after a step was stored before it in its place, or is one the request
\* was going to insert.
LEMMA RowsWritten ==
  ASSUME SerialInv, NEW r \in Requests, Start(r) \/ Continue(r), NEW id \in RowId, rows'[id] # NoRow
  PROVE  \/ /\ rows[id] # NoRow
            /\ rows'[id].cart = rows[id].cart /\ rows'[id].listing = rows[id].listing
         \/ /\ InsertItems(r) /\ req[r].pc = "insert"
            /\ id[1] = r /\ id[2] \in req[r].ins
            /\ rows'[id].cart = req[r].cart
            /\ rows'[id].listing = req[r].lines[id[2]].listing
<1>1. Next
  BY DEF Next
<1>2. CASE rows' = rows
  BY <1>2
<1>3. CASE InsertItems(r)
  BY <1>3 DEF InsertItems
<1>4. CASE Delete(r)
  BY <1>4 DEF Delete
<1>5. CASE FlushUpdate(r) /\ rows' # rows
  <2>1. PICK w : rows' = Written(w)
    BY <1>5 DEF FlushUpdate
  <2>2. \/ rows'[id] = rows[id]
        \/ rows[id] # NoRow /\ rows'[id] = [rows[id] EXCEPT !.quantity = w.quantity]
    BY <2>1 DEF Written
  <2>3. rows[id] # NoRow => rows[id] \in Row
    BY DEF SerialInv, CartInv, TypeOK
  <2> QED BY <2>2, <2>3 DEF Row
<1>6. rows' = rows \/ FlushUpdate(r) \/ InsertItems(r) \/ Delete(r)
  BY DEF Start, AddItem, UpdateItemQuantity, AddItemsBulk, RemoveItem, ClearCart, ClearShopItems,
         RemoveItemsByListingIds, ClearScope, Continue, FindCart, RecheckCart, LookForCart,
         CreateCart, FindItem, FetchListings, MapItemsForBulk, ValidateUpdate, FlushDone,
         FindRemoved, FindCleared
<1> QED BY <1>2, <1>3, <1>4, <1>5, <1>6

\* What is inserted was not there, and no two lines of one insertion are about one listing.
LEMMA RowsApartKept ==
  ASSUME SerialInv, NEW r \in Requests, Start(r) \/ Continue(r)
  PROVE  RowsApart'
<1> SUFFICES ASSUME NEW i \in RowId, NEW j \in RowId, rows'[i] # NoRow, rows'[j] # NoRow,
                    rows'[i].cart = rows'[j].cart, rows'[i].listing = rows'[j].listing
             PROVE  i = j
  BY DEF RowsApart, Live
<1> DEFINE Old(id) == /\ rows[id] # NoRow
                      /\ rows'[id].cart = rows[id].cart /\ rows'[id].listing = rows[id].listing
           New(id) == /\ InsertItems(r) /\ req[r].pc = "insert"
                      /\ id[1] = r /\ id[2] \in req[r].ins
                      /\ rows'[id].cart = req[r].cart
                      /\ rows'[id].listing = req[r].lines[id[2]].listing
<1>1. (Old(i) \/ New(i)) /\ (Old(j) \/ New(j))
  BY RowsWritten
<1>2. CASE Old(i) /\ Old(j)
  BY <1>2 DEF SerialInv, RowsApart, Live
<1>3. ASSUME NEW m \in RowId, NEW n \in RowId, Old(m), New(n),
             rows'[m].cart = rows'[n].cart, rows'[m].listing = rows'[n].listing
      PROVE  FALSE
  <2>1. RowsInCart(req[r].cart, req[r].lines[n[2]].listing) = {}
    BY <1>3 DEF SerialInv, Placing
  <2>2. m \in RowsInCart(req[r].cart, req[r].lines[n[2]].listing)
    BY <1>3 DEF RowsInCart, Live
  <2> QED BY <2>1, <2>2
<1>4. CASE New(i) /\ New(j)
  <2>1. req[r] \in Request /\ Placed(r) /\ Lined(r) /\ Placing(r)
    BY DEF SerialInv, CartInv, TypeOK, Sound
  <2>2. i[2] \in DOMAIN req[r].lines /\ j[2] \in DOMAIN req[r].lines
    BY <1>4, <2>1 DEF Lined
  <2>3. req[r].op \in {"add", "bulk"}
    BY <1>4, <2>1 DEF Placed, Request, Ops
  <2>4. CASE req[r].op = "bulk"
    <3>1. LinesApart(req[r].lines)
      BY <1>4, <2>1, <2>4 DEF Placing, Busy, Over
    <3>2. i[2] = j[2]
      BY <1>4, <2>2, <3>1 DEF LinesApart
    <3> QED BY <1>4, <3>2 DEF RowId
  <2>5. CASE req[r].op = "add"
    <3>1. req[r].lines \in Seq(Line) /\ Len(req[r].lines) = 1
      BY <1>4, <2>1, <2>5 DEF Placed, Request, Over
    <3>2. DOMAIN req[r].lines = 1..1
      BY <3>1
    <3>3. i[2] = 1 /\ j[2] = 1
      BY <2>2, <3>2
    <3> QED BY <1>4, <3>3 DEF RowId
  <2> QED BY <2>3, <2>4, <2>5
<1> HIDE DEF Old, New
<1> QED BY <1>1, <1>2, <1>3, <1>4

\* Nobody else creates a user's cart, or inserts into it, while one of her requests is under way.
LEMMA PlacingKept ==
  ASSUME SerialInv, NEW r \in Requests, Start(r) \/ Continue(r), NEW q \in Requests \ {r}
  PROVE  Placing(q)'
<1>1. req'[q] = req[q]
  BY OneActs DEF SerialInv
<1>2. Placing(q) /\ Owned(q) /\ Owned(r) /\ Placed(r) /\ TypeOK
  BY DEF SerialInv, CartInv, Sound
<1>3. ASSUME Busy(q), Busy(r), req[q].user = req[r].user PROVE FALSE
  BY <1>3 DEF SerialInv, OneBusy
<1>4. ASSUME req[q].pc = "createCart" PROVE CartsOf(req[q].user)' = {}
  <2>1. \A c \in Requests : carts[c] # req[q].user
    BY <1>2, <1>4 DEF Placing, CartsOf
  <2>2. CASE carts' = carts
    BY <1>1, <2>1, <2>2 DEF CartsOf
  <2>3. CASE req[r].pc = "createCart" /\ carts' = [carts EXCEPT ![r] = req[r].user]
    <3>1. req[q].user # req[r].user
      BY <1>3, <1>4, <2>3 DEF Busy, Over
    <3> QED BY <1>1, <1>2, <2>1, <2>3, <3>1 DEF CartsOf, TypeOK
  <2> QED BY <2>2, <2>3, CartsWritten
<1>5. ASSUME NEW i \in req[q].ins, NEW id \in RowId, rows'[id] # NoRow,
             rows'[id].cart = req[q].cart, rows'[id].listing = req[q].lines[i].listing
      PROVE  FALSE
  <2>1. CASE /\ rows[id] # NoRow
             /\ rows'[id].cart = rows[id].cart /\ rows'[id].listing = rows[id].listing
    <3>1. id \in RowsInCart(req[q].cart, req[q].lines[i].listing)
      BY <1>5, <2>1 DEF RowsInCart, Live
    <3> QED BY <1>2, <3>1 DEF Placing
  <2>2. CASE req[r].pc = "insert" /\ rows'[id].cart = req[r].cart
    <3>1. req[r].cart # NoCart /\ req[q].cart # NoCart
      BY <1>2, <1>5, <2>2 DEF Placed
    <3>2. req[q].user = req[r].user
      BY <1>2, <1>5, <2>2, <3>1 DEF Owned
    <3>3. Busy(q) /\ Busy(r)
      BY <1>2, <2>2 DEF Placing, Busy, Over
    <3> QED BY <1>3, <3>2, <3>3
  <2> QED BY <1>5, <2>1, <2>2, RowsWritten
<1> QED BY <1>1, <1>2, <1>4, <1>5 DEF Placing, Busy, RowsInCart, Live

\* What the request that takes the step is going to create or to insert is not there either.
LEMMA PlacingOwn ==
  ASSUME SerialInv, NEW r \in Requests, Start(r) \/ Continue(r), ~DbFaults,
         \A b \in BulkOrders : LinesApart(b)
  PROVE  Placing(r)'
<1>1. req[r] \in Request /\ req \in [Requests -> Request] /\ Placing(r) /\ Placed(r) /\ Lined(r)
  BY DEF SerialInv, CartInv, TypeOK, Sound
<1>2. Faults = {FALSE}
  BY DEF Faults
<1>3. ASSUME NEW a, Answer(r, a) PROVE Placing(r)'
  <2>1. req'[r].pc = "done" /\ req'[r].ins = {}
    BY <1>1, <1>3 DEF Answer, Request
  <2> QED BY <2>1 DEF Placing, Busy, Over
<1>4. CASE Start(r)
  <2>0. req[r].pc = "idle" => req[r].op = "add" /\ req[r].ins = {}
    BY <1>1 DEF Placed
  <2>1. CASE \E l, q : AddItem(r, l, q)
    <3>1. ASSUME NEW lines, NEW seen, req[r].pc = "idle",
                 req' = [req EXCEPT ![r].op = "add", ![r].pc = "findCart", ![r].lines = lines,
                                    ![r].seen = seen]
          PROVE  Placing(r)'
      BY <1>1, <2>0, <3>1 DEF Placing, Request
    <3> QED BY <1>3, <2>1, <3>1 DEF AddItem
  <2>2. CASE \E l, q : UpdateItemQuantity(r, l, q)
    <3>1. req[r].pc = "idle"
          /\ \/ Answer(r, "err")
             \/ \E lines, upd : req' = [req EXCEPT ![r].op = "update", ![r].lines = lines,
                                                  ![r].upd = upd, ![r].pc = "fetchListings"]
      BY <2>2, Zenon DEF UpdateItemQuantity
    <3>2. ASSUME NEW lines, NEW upd, req[r].pc = "idle",
                 req' = [req EXCEPT ![r].op = "update", ![r].lines = lines, ![r].upd = upd,
                                    ![r].pc = "fetchListings"]
          PROVE  Placing(r)'
      BY <1>1, <2>0, <3>2 DEF Placing, Request
    <3> QED BY <1>3, <3>1, <3>2
  <2>3. CASE \E lines \in BulkOrders : AddItemsBulk(r, lines)
    BY <1>1, <2>0, <2>3 DEF AddItemsBulk, Placing, Request
  <2>4. CASE \E l : RemoveItem(r, l)
    <3>1. req[r].pc = "idle"
          /\ \/ Answer(r, "err")
             \/ \E scope, del : req' = [req EXCEPT ![r].op = "remove", ![r].scope = scope,
                                                  ![r].del = del, ![r].pc = "findRows"]
      BY <2>4, Zenon DEF RemoveItem
    <3>2. ASSUME NEW scope, NEW del, req[r].pc = "idle",
                 req' = [req EXCEPT ![r].op = "remove", ![r].scope = scope, ![r].del = del,
                                    ![r].pc = "findRows"]
          PROVE  Placing(r)'
      BY <1>1, <2>0, <3>2 DEF Placing, Request
    <3> QED BY <1>3, <3>1, <3>2
  <2>5. CASE \E scope : ClearScope(r, scope)
    BY <1>1, <2>0, <2>5 DEF ClearScope, Placing, Request
  <2> QED
    BY <1>4, <2>1, <2>2, <2>3, <2>4, <2>5
    DEF Start, ClearCart, ClearShopItems, RemoveItemsByListingIds
<1>5. ASSUME NEW pc, req[r].pc \in {"findCart", "recheckCart", "createCart"},
             req'[r].pc = pc, pc = "createCart" => CartsOf(req[r].user)' = {},
             req'[r].user = req[r].user, req'[r].op = req[r].op, req'[r].lines = req[r].lines,
             req'[r].ins = req[r].ins
      PROVE  Placing(r)'
  BY <1>1, <1>5 DEF Placing, Busy, Over, CartsOf
<1>6. CASE FindCart(r) \/ RecheckCart(r)
  <2>1. PICK next : LookForCart(r, next)
    BY <1>6 DEF FindCart, RecheckCart
  <2>2. /\ req'[r].user = req[r].user /\ req'[r].op = req[r].op
        /\ req'[r].lines = req[r].lines /\ req'[r].ins = req[r].ins
        /\ (CartsOf(req[r].user) # {} => req'[r].pc = AfterCart(r))
    <3>1. CASE \E c : req' = [req EXCEPT ![r].cart = c, ![r].pc = AfterCart(r)]
      BY <1>1, <3>1 DEF Request
    <3>2. CASE CartsOf(req[r].user) = {} /\ req' = [req EXCEPT ![r].pc = next]
      BY <1>1, <3>2 DEF Request
    <3> QED BY <2>1, <3>1, <3>2 DEF LookForCart
  <2>3. AfterCart(r) # "createCart" /\ carts' = carts
    BY <2>1 DEF AfterCart, LookForCart
  <2> QED BY <1>5, <1>6, <2>2, <2>3 DEF FindCart, RecheckCart, CartsOf
<1>7. CASE CreateCart(r)
  BY <1>1, <1>2, <1>3, <1>5, <1>7 DEF CreateCart, AfterCart, Request
<1>8. CASE FindItem(r)
  <2>1. req[r].ins = {} /\ req[r].op = "add"
    BY <1>1, <1>8 DEF FindItem, Placing, Placed
  <2>2. CASE /\ RowsInCart(req[r].cart, req[r].lines[1].listing) = {} /\ rows' = rows
             /\ req' = [req EXCEPT ![r].pc = "insert", ![r].ins = {1}]
    <3>1. /\ req'[r].pc = "insert" /\ req'[r].op = "add" /\ req'[r].ins = {1}
          /\ req'[r].cart = req[r].cart /\ req'[r].lines = req[r].lines
      BY <1>1, <2>1, <2>2 DEF Request
    <3> QED BY <2>2, <3>1, ZenonT(60) DEF Placing, RowsInCart, Live
  <2>3. ASSUME NEW upd, req' = [req EXCEPT ![r].pc = "flush", ![r].upd = upd] PROVE Placing(r)'
    BY <1>1, <2>1, <2>3 DEF Placing, Request
  <2> QED BY <1>3, <1>8, <2>2, <2>3 DEF FindItem
<1>9. CASE MapItemsForBulk(r)
  <2> DEFINE lines == req[r].lines
             valid == {i \in DOMAIN lines :
                         ValidListing(req[r].seen, lines[i].listing, lines[i].quantity)}
             New(item) == valid \ {i \in valid : item[lines[i].listing] # NoRow}
  <2>1. rows' = rows /\ req[r].pc = "findRows" /\ req[r].op = "bulk"
    BY <1>9 DEF MapItemsForBulk
  <2>2. PICK item \in [Listings -> RowId \cup {NoRow}], fault \in Faults :
          /\ \A l \in Listings : item[l] \in IF fault \/ RowsInCart(req[r].cart, l) = {}
                                            THEN {NoRow} ELSE RowsInCart(req[r].cart, l)
          /\ LET Sum(i) == rows[item[lines[i].listing]].quantity + lines[i].quantity
                 known == {i \in valid : item[lines[i].listing] # NoRow}
             IN  req' = [req EXCEPT
                   ![r].pc = "flush",
                   ![r].upd = {[line |-> i, id |-> item[lines[i].listing], quantity |-> Sum(i),
                                loaded |-> rows[item[lines[i].listing]].quantity] :
                                 i \in {j \in known :
                                    ValidListing(req[r].seen, lines[j].listing, Sum(j))}},
                   ![r].ins = valid \ known]
    BY <1>9 DEF MapItemsForBulk
  <2>3. \A i \in New(item) : i \in DOMAIN lines /\ item[lines[i].listing] = NoRow
    OBVIOUS
  <2> HIDE DEF New
  <2>4. /\ req'[r].pc = "flush" /\ req'[r].op = "bulk" /\ req'[r].ins = New(item)
        /\ req'[r].cart = req[r].cart /\ req'[r].lines = lines
    <3>1. PICK upd : req' = [req EXCEPT ![r].pc = "flush", ![r].upd = upd, ![r].ins = New(item)]
      BY <2>2 DEF New
    <3> QED BY <1>1, <2>1, <3>1 DEF Request
  <2>5. LinesApart(lines)
    BY <1>1, <2>1 DEF Placing, Busy, Over
  <2>6. ASSUME NEW i \in New(item) PROVE RowsInCart(req[r].cart, lines[i].listing) = {}
    <3>1. lines \in Seq(Line) /\ i \in DOMAIN lines
      BY <1>1, <2>3, <2>6 DEF Request
    <3>2. lines[i].listing \in Listings
      <4>1. lines[i] \in Line
        BY <3>1
      <4> QED BY <4>1 DEF Line
    <3>3. NoRow \notin RowsInCart(req[r].cart, lines[i].listing)
      BY CartAssumption DEF RowsInCart, Live, RowId
    <3> QED BY <1>2, <2>2, <2>3, <2>6, <3>2, <3>3
  <2>7. \A i \in New(item) : RowsInCart(req[r].cart, lines[i].listing)' = {}
    BY <2>1, <2>4, <2>6 DEF RowsInCart, Live
  <2> QED BY <2>4, <2>5, <2>7 DEF Placing, Busy
<1>10. ASSUME Busy(r), req[r].pc # "insert", ~InsertItems(r),
              req'[r].pc # "createCart",
              req[r].pc = "flush" => req'[r].pc \in {"flush", "insert"},
              req'[r].op = req[r].op, req'[r].ins = req[r].ins,
              req'[r].cart = req[r].cart, req'[r].lines = req[r].lines
       PROVE  Placing(r)'
  <2>1. ASSUME NEW id \in RowId, rows'[id] # NoRow
        PROVE  /\ rows[id] # NoRow
               /\ rows'[id].cart = rows[id].cart /\ rows'[id].listing = rows[id].listing
    BY <1>10, <2>1, RowsWritten
  <2> QED BY <1>1, <1>10, <2>1 DEF Placing, RowsInCart, Live
<1>11. CASE Continue(r)
  <2>0. Busy(r) /\ (req[r].pc # "insert" => ~InsertItems(r))
    BY <1>11, ContinuesBusy DEF InsertItems
  <2>1. CASE FetchListings(r) \/ FlushDone(r)
    BY <1>1, <1>10, <2>0, <2>1 DEF FetchListings, FlushDone, Request
  <2>2. CASE ValidateUpdate(r)
    BY <1>1, <1>3, <1>10, <2>0, <2>2 DEF ValidateUpdate, Request
  <2>3. CASE FlushUpdate(r)
    BY <1>1, <1>3, <1>10, <2>0, <2>3 DEF FlushUpdate, Request
  <2>4. CASE FindRemoved(r) \/ FindCleared(r)
    BY <1>1, <1>3, <1>10, <2>0, <2>4 DEF FindRemoved, FindCleared, ToDelete, Request
  <2>5. CASE InsertItems(r) \/ Delete(r)
    BY <1>3, <2>5 DEF InsertItems, Delete
  <2> QED BY <1>6, <1>7, <1>8, <1>9, <1>11, <2>1, <2>2, <2>3, <2>4, <2>5 DEF Continue
<1> QED BY <1>4, <1>11

-----------------------------------------------------------------------------

\* Every step keeps the invariant.
LEMMA SerialInvNext ==
  ASSUME ~DbFaults, \A b \in BulkOrders : LinesApart(b), SerialInv,
         [SerialNext]_<<vars, before>>
  PROVE  SerialInv'
<1>1. CartInv'
  BY CartInvNext, SerialIsCart DEF SerialInv, vars
<1>2. CASE \E r \in Requests : SerialStart(r) \/ Continue(r)
  <2>1. PICK r \in Requests : SerialStart(r) \/ Continue(r)
    BY <1>2
  <2>2. Start(r) \/ Continue(r)
    BY <2>1 DEF SerialStart
  <2>3. \A q \in Requests : Placing(q)'
    BY <2>2, PlacingKept, PlacingOwn
  <2> QED BY <1>1, <2>1, <2>2, <2>3, BusyKept, OneCartKept, RowsApartKept DEF SerialInv
<1>3. CASE UNCHANGED <<carts, rows, req>>
  <2>1. OneBusy' /\ OneCart' /\ RowsApart'
    BY <1>3 DEF SerialInv, OneBusy, Busy, OneCart, RowsApart, Live
  <2>2. \A r \in Requests : Placing(r)'
    BY <1>3 DEF SerialInv, Placing, Busy, CartsOf, RowsInCart, Live
  <2> QED BY <1>1, <2>1, <2>2 DEF SerialInv
<1> QED BY <1>2, <1>3 DEF SerialNext, SellerSetsStock, vars

\* A user has one cart, and in it one row of a listing.
LEMMA OneOfEach ==
  ASSUME SerialInv, NEW u \in Users
  PROVE  /\ \A c, d \in CartsOf(u) : c = d
         /\ \A l \in Listings : \A i, j \in RowsIn(u, {l}) : i = j
<1>1. ASSUME NEW c \in CartsOf(u), NEW d \in CartsOf(u) PROVE c = d
  BY <1>1, CartAssumption DEF SerialInv, OneCart, CartsOf
<1>2. ASSUME NEW l \in Listings, NEW i \in RowsIn(u, {l}), NEW j \in RowsIn(u, {l}) PROVE i = j
  <2>1. rows[i].cart \in Requests /\ rows[j].cart \in Requests
    BY <1>2 DEF RowsIn, RowsOf, Live, SerialInv, CartInv, TypeOK, Row
  <2>2. rows[i].cart = rows[j].cart
    BY <1>1, <1>2, <2>1 DEF RowsIn, RowsOf, CartsOf
  <2> QED BY <1>2, <2>2 DEF SerialInv, RowsApart, RowsIn, RowsOf
<1> QED BY <1>1, <1>2

\* A user who waits has one cart and one row per listing in it, provided that the database
\* answers and that no bulk request names a listing twice: the lookups of cart.service.ts,
\* which take any row that fits, are not ambiguous.
THEOREM OneRowEach ==
  ASSUME ~DbFaults,
         \A b \in BulkOrders : \A i, j \in DOMAIN b : i # j => b[i].listing # b[j].listing
  PROVE  SerialSpec => []OneRowPerListing
<1>1. \A b \in BulkOrders : LinesApart(b)
  BY DEF LinesApart
<1>2. SerialInv /\ [SerialNext]_<<vars, before>> => SerialInv'
  BY <1>1, SerialInvNext
<1>3. ASSUME SerialInv PROVE OneRowPerListing
  <2>1. ASSUME NEW S, \A x, y \in S : x = y PROVE Cardinality(S) <= 1
    <3>1. CASE S = {}
      BY <3>1, FS_EmptySet
    <3>2. CASE S # {}
      <4>1. PICK x : S = {x}
        BY <2>1, <3>2
      <4> QED BY <4>1, FS_Singleton
    <3> QED BY <3>1, <3>2
  <2> QED BY <1>3, <2>1, OneOfEach DEF OneRowPerListing
<1> QED BY <1>2, <1>3, SerialInvInit, PTL DEF SerialSpec

-----------------------------------------------------------------------------
(* The handlers, many steps each, take the one step of AbstractCart.  What *)
(* this needs of a request under way is what its user's cart was when it   *)
(* began and which of its writes are done.                                 *)

ItemOf(r, i) == req[r].lines[i].listing
Asked(r, i)  == req[r].lines[i].quantity

\* What request r of user u has done since u's cart was before[u]: nothing before its last
\* step, but for a bulk request, which writes line by line.
Written1(r, u) ==
  IF req[r].op = "bulk" /\ req[r].pc \in {"flush", "insert"}
  THEN /\ \A l \in Listings :
            (\A i \in DOMAIN req[r].lines : ItemOf(r, i) # l) => Contents(u)[l] = before[u][l]
       /\ \A i \in DOMAIN req[r].lines :
            LET l == ItemOf(r, i)
            IN  \/ Contents(u)[l] = before[u][l]
                \/ /\ Contents(u)[l] = before[u][l] + Asked(r, i)
                   /\ i \notin req[r].ins /\ \A w \in req[r].upd : w.line # i
  ELSE Contents(u) = before[u]

\* What it is going to write fits the rows as they are.
Prepared(r, u) ==
  /\ req[r].upd # {} =>
       req[r].pc = "flush" \/ (req[r].pc = "fetchListings" /\ req[r].op = "update")
  /\ \A w \in req[r].upd :
       /\ w.id \in RowsIn(u, {ItemOf(r, w.line)})
       /\ w.loaded = rows[w.id].quantity
       /\ w.quantity = Asked(r, w.line) + IF req[r].op = "update" THEN 0 ELSE w.loaded
       /\ w.line \notin req[r].ins
       /\ req[r].op # "bulk" => w.line = 1
       /\ \A v \in req[r].upd : v.line = w.line => v = w
  /\ req[r].pc = "delete" => req[r].op \in {"remove", "clear"}
  /\ req[r].op = "remove" \/ req[r].pc = "delete" => req[r].del = RowsIn(u, req[r].scope)

Effect(r) ==
  /\ req[r].pc = "idle" => req[r].lines = <<>> /\ req[r].scope = {}
  /\ Busy(r) =>
       /\ OrderOf(r) \in Orders
       /\ Written1(r, req[r].user)
       /\ Prepared(r, req[r].user)

EffectInv ==
  /\ SerialInv
  /\ before \in [Users -> [Listings -> Int]]
  /\ \A r \in Requests : Effect(r)

-----------------------------------------------------------------------------
(* Sums over no element and over one *)

Total(q, S) == MapThenSumSet(LAMBDA i : q[i].quantity, S)

\* it sums the quantities over each subset of S
Adds(q, S, it) ==
  it = [s \in SUBSET S |->
          IF s = {} THEN 0
          ELSE LET x == CHOOSE x \in s : TRUE IN q[x].quantity + it[s \ {x}]]

\* What MapThenSumSet means.
LEMMA TotalIterated == \A q, S : Total(q, S) = (CHOOSE it : Adds(q, S, it))[S]
BY DEF Total, MapThenSumSet, MapThenFoldSet, Adds

\* Nothing adds up to 0.
LEMMA TotalNone == \A q : Total(q, {}) = 0
<1> SUFFICES ASSUME NEW q PROVE Total(q, {}) = 0
  OBVIOUS
<1>1. Adds(q, {}, [s \in SUBSET {} |-> 0])
  BY DEF Adds
<1>2. Adds(q, {}, CHOOSE it : Adds(q, {}, it))
  BY <1>1
<1>3. ASSUME NEW it, Adds(q, {}, it) PROVE it[{}] = 0
  BY <1>3 DEF Adds
<1> QED BY <1>2, <1>3, TotalIterated

\* One thing adds up to itself.
LEMMA TotalOne == \A q, x : q[x].quantity \in Int => Total(q, {x}) = q[x].quantity
<1> SUFFICES ASSUME NEW q, NEW x, q[x].quantity \in Int PROVE Total(q, {x}) = q[x].quantity
  OBVIOUS
<1>0. /\ SUBSET {x} = {{}, {x}} /\ {x} # {} /\ {x} \ {x} = {}
      /\ \A s \in SUBSET {x} : s # {} => s = {x} /\ (CHOOSE y \in s : TRUE) = x
  OBVIOUS
<1> DEFINE n == q[x].quantity
           one == [s \in SUBSET {x} |-> IF s = {} THEN 0 ELSE n]
<1>1. Adds(q, {x}, one)
  <2>1. one[{}] = 0
    BY <1>0
  <2>2. ASSUME NEW s \in SUBSET {x}, s # {}
        PROVE  n = LET y == CHOOSE y \in s : TRUE IN q[y].quantity + one[s \ {y}]
    <3>1. s \ {x} = {} /\ n + 0 = n
      BY <1>0, <2>2
    <3> HIDE DEF one, n
    <3>2. q[x].quantity + one[s \ {x}] = n
      BY <2>1, <3>1 DEF n
    <3> QED BY <1>0, <2>2, <3>2
  <2> QED BY <2>2 DEF Adds
<1>2. Adds(q, {x}, CHOOSE it : Adds(q, {x}, it))
  BY <1>1
<1>3. ASSUME NEW it, Adds(q, {x}, it) PROVE it[{x}] = n
  <2>1. it[{}] = 0
    BY <1>3 DEF Adds
  <2>2. it[{x}] = q[x].quantity + it[{}]
    BY <1>0, <1>3 DEF Adds
  <2> QED BY <2>1, <2>2
<1> QED BY <1>2, <1>3, TotalIterated

\* A cart's contents are such sums.
LEMMA ContentsTotal == \A u : Contents(u) = [l \in Listings |-> Total(rows, RowsIn(u, {l}))]
BY DEF Contents, Total, MapThenSumSet, MapThenFoldSet

-----------------------------------------------------------------------------
(* What a user's cart adds up to *)

\* The rows as they are, and what they add up to.
Tallied(u, l) ==
  /\ Contents(u)[l] \in Int
  /\ RowsIn(u, {l}) = {} => Contents(u)[l] = 0
  /\ \A id \in RowsIn(u, {l}) : /\ RowsIn(u, {l}) = {id}
                               /\ rows[id].quantity \in Int
                               /\ Contents(u)[l] = rows[id].quantity

\* A listing has no row in a user's cart, or one.
LEMMA ContentsAre == SerialInv => \A u \in Users, l \in Listings : Tallied(u, l)
<1> SUFFICES ASSUME SerialInv, NEW u \in Users, NEW l \in Listings PROVE Tallied(u, l)
  OBVIOUS
<1>1. Contents(u)[l] = Total(rows, RowsIn(u, {l}))
  BY ContentsTotal
<1>2. ASSUME NEW id \in RowsIn(u, {l})
      PROVE  RowsIn(u, {l}) = {id} /\ rows[id].quantity \in Int
  <2>1. rows[id] \in Row
    BY <1>2 DEF RowsIn, RowsOf, Live, SerialInv, CartInv, TypeOK
  <2>2. \A j \in RowsIn(u, {l}) : j = id
    BY <1>2, OneOfEach
  <2> QED BY <1>2, <2>1, <2>2 DEF Row
<1>3. CASE RowsIn(u, {l}) = {}
  BY <1>1, <1>3, TotalNone DEF Tallied
<1>4. CASE RowsIn(u, {l}) # {}
  <2>1. PICK id \in RowsIn(u, {l}) : TRUE
    BY <1>4
  <2>2. RowsIn(u, {l}) = {id} /\ rows[id].quantity \in Int
    BY <1>2
  <2>3. Contents(u)[l] = rows[id].quantity
    BY <1>1, <2>2, TotalOne
  <2>4. \A j \in RowsIn(u, {l}) : j = id
    BY <2>2
  <2> QED BY <2>2, <2>3, <2>4 DEF Tallied
<1> QED BY <1>3, <1>4

\* ... in the next state as well.
LEMMA ContentsAreNext == SerialInv' => (\A u \in Users, l \in Listings : Tallied(u, l))'
BY ContentsAre, PTL

\* Nobody writes into another user's cart.
LEMMA RowsOfKept ==
  ASSUME SerialInv, NEW r \in Requests, Start(r) \/ Continue(r),
         NEW v \in Users, v # req[r].user \/ rows' = rows
  PROVE  /\ RowsOf(v)' = RowsOf(v)
         /\ \A id \in RowsOf(v) : rows'[id] = rows[id]
<1>0. CartInv /\ [Next]_vars /\ v # NoUser /\ TypeOK
  BY CartAssumption DEF SerialInv, Next, CartInv
<1>1. ASSUME NEW id \in RowId, rows'[id] # rows[id]
      PROVE  /\ v # req[r].user
             /\ carts[(IF rows[id] # NoRow THEN rows[id] ELSE rows'[id]).cart] = req[r].user
  <2>1. FlushUpdate(r) \/ InsertItems(r) \/ Delete(r)
    BY <1>1 DEF Start, AddItem, UpdateItemQuantity, AddItemsBulk, RemoveItem, ClearCart,
         ClearShopItems, RemoveItemsByListingIds, ClearScope, Continue, FindCart, RecheckCart,
         LookForCart, CreateCart, FindItem, FetchListings, MapItemsForBulk, ValidateUpdate,
         FlushDone, FindRemoved, FindCleared
  <2> QED BY <1>0, <1>1, <2>1, OwnRows
<1>2. ASSUME NEW c \in Requests, carts[c] # NoUser PROVE carts'[c] = carts[c]
  BY <1>0, <1>2, CartStays
<1>3. ASSUME NEW id \in RowId, rows[id] # NoRow
      PROVE  rows[id].cart \in Requests /\ carts[rows[id].cart] # NoUser
  <2>1. RowSound(id) /\ rows[id] \in Row
    BY <1>0, <1>3 DEF CartInv, TypeOK
  <2> QED BY <1>3, <2>1 DEF RowSound, Row
<1>4. ASSUME NEW id \in RowsOf(v) PROVE rows'[id] = rows[id] /\ id \in RowsOf(v)'
  <2>1. id \in RowId /\ rows[id] # NoRow /\ carts[rows[id].cart] = v
    BY <1>4 DEF RowsOf, Live
  <2>2. rows'[id] = rows[id]
    BY <1>1, <2>1
  <2>3. carts'[rows[id].cart] = v
    BY <1>0, <1>2, <1>3, <2>1
  <2> QED BY <2>1, <2>2, <2>3 DEF RowsOf, Live
<1>5. ASSUME NEW id \in RowId, rows'[id] # NoRow, carts'[rows'[id].cart] = v
      PROVE  id \in RowsOf(v)
  <2>1. CASE rows'[id] = rows[id]
    <3>1. carts[rows[id].cart] = v
      BY <1>2, <1>3, <1>5, <2>1
    <3> QED BY <1>5, <2>1, <3>1 DEF RowsOf, Live
  <2>2. CASE rows'[id] # rows[id]
    <3>1. v # req[r].user /\ req[r].user # NoUser
      BY <1>0, <1>1, <2>2, CartAssumption DEF TypeOK, Request
    <3>2. CASE rows[id] # NoRow
      <4>1. carts[rows[id].cart] = req[r].user
        BY <1>1, <2>2, <3>2
      <4>2. rows'[id].cart = rows[id].cart
        BY <1>3, <1>5, <3>2, RowsWritten DEF InsertItems, SerialInv, CartInv, RowSound
      <4> QED BY <1>2, <1>3, <1>5, <3>1, <3>2, <4>1, <4>2
    <3>3. CASE rows[id] = NoRow
      <4>1. carts[rows'[id].cart] = req[r].user
        BY <1>1, <2>2, <3>3
      <4>2. rows'[id].cart \in Requests
        <5>1. rows'[id].cart = req[r].cart /\ req[r].pc = "insert"
          BY <1>5, <3>3, RowsWritten
        <5> QED BY <1>0, <5>1 DEF CartInv, Sound, Placed, TypeOK, Request
      <4> QED BY <1>2, <1>5, <3>1, <4>1, <4>2
    <3> QED BY <3>2, <3>3
  <2> QED BY <2>1, <2>2
<1>6. \A id \in RowsOf(v)' : id \in RowsOf(v)
  BY <1>5 DEF RowsOf, Live
<1> QED BY <1>4, <1>6

\* Rows that stay as they are add up to the same.
LEMMA ContentsSame ==
  ASSUME SerialInv, SerialInv', NEW v \in Users,
         RowsOf(v)' = RowsOf(v), \A id \in RowsOf(v) : rows'[id] = rows[id]
  PROVE  /\ Contents(v)' = Contents(v)
         /\ \A scope : RowsIn(v, scope)' = RowsIn(v, scope)
         /\ \A scope : \A id \in RowsIn(v, scope) : rows'[id] = rows[id]
<1>1. \A scope : /\ RowsIn(v, scope)' = RowsIn(v, scope)
                 /\ \A id \in RowsIn(v, scope) : rows'[id] = rows[id]
  BY DEF RowsIn
<1>2. \A l \in Listings : Tallied(v, l) /\ Tallied(v, l)'
  BY ContentsAre, ContentsAreNext
<1>3. ASSUME NEW l \in Listings PROVE Contents(v)'[l] = Contents(v)[l]
  <2>1. CASE RowsIn(v, {l}) = {}
    BY <1>1, <1>2, <2>1 DEF Tallied
  <2>2. ASSUME NEW id \in RowsIn(v, {l}) PROVE Contents(v)'[l] = Contents(v)[l]
    BY <1>1, <1>2, <2>2 DEF Tallied
  <2> QED BY <2>1, <2>2
<1>4. Contents(v)' = Contents(v)
  <2>1. /\ Contents(v) = [l \in Listings |-> Contents(v)[l]]
        /\ Contents(v)' = [l \in Listings |-> Contents(v)'[l]]
    BY DEF Contents
  <2> QED BY <1>3, <2>1
<1> QED BY <1>1, <1>4

\* Nobody's step changes what another user's cart adds up to.
LEMMA ContentsKept ==
  ASSUME SerialInv, SerialInv', NEW r \in Requests, Start(r) \/ Continue(r),
         NEW v \in Users, v # req[r].user \/ rows' = rows
  PROVE  /\ Contents(v)' = Contents(v)
         /\ \A scope : RowsIn(v, scope)' = RowsIn(v, scope)
         /\ \A scope : \A id \in RowsIn(v, scope) : rows'[id] = rows[id]
BY RowsOfKept, ContentsSame

-----------------------------------------------------------------------------
(* What a request may do to a cart *)

\* Each line of o is applied in full or not at all, and nothing else is.
Applied(o, b, c) ==
  /\ \A l \in Listings : (\A i \in DOMAIN o.lines : o.lines[i].listing # l) => c[l] = b[l]
  /\ \A i \in DOMAIN o.lines :
       LET l == o.lines[i].listing
       IN  c[l] = b[l] \/ c[l] = b[l] + o.lines[i].quantity

\* Then c is an outcome of o.
LEMMA LinesOutcome ==
  ASSUME NEW b \in [Listings -> Int], NEW c \in [Listings -> Int], NEW o,
         o.op \in {"add", "bulk"}, o.lines \in Seq(Line), LinesApart(o.lines), Applied(o, b, c)
  PROVE  c \in Abstract!Outcomes(o, b)
<1> DEFINE Listing(i) == o.lines[i].listing
           accepted == {i \in DOMAIN o.lines : c[Listing(i)] = b[Listing(i)] + o.lines[i].quantity}
           About == [l \in Listings |-> {i \in accepted : o.lines[i].listing = l}]
<1>1. ASSUME NEW i \in DOMAIN o.lines
      PROVE  Listing(i) \in Listings /\ o.lines[i].quantity \in Int
  <2>1. o.lines[i] \in Line /\ Quantities \subseteq Int
    BY CartAssumption
  <2> QED BY <2>1 DEF Line
<1>2. ASSUME NEW l \in Listings PROVE c[l] = b[l] + Total(o.lines, About[l])
  <2>0. b[l] \in Int /\ c[l] \in Int
    OBVIOUS
  <2>1. ASSUME NEW i \in About[l] PROVE c[l] = b[l] + Total(o.lines, About[l])
    <3>1. About[l] = {i}
      BY <2>1 DEF LinesApart
    <3>2. Total(o.lines, {i}) = o.lines[i].quantity
      BY <1>1, <2>1, TotalOne
    <3>3. c[l] = b[l] + o.lines[i].quantity
      BY <2>1
    <3> QED BY <3>1, <3>2, <3>3
  <2>2. CASE About[l] = {}
    <3>1. c[l] = b[l]
      <4>1. CASE \A i \in DOMAIN o.lines : o.lines[i].listing # l
        BY <4>1 DEF Applied
      <4>2. ASSUME NEW i \in DOMAIN o.lines, o.lines[i].listing = l PROVE c[l] = b[l]
        BY <2>2, <4>2 DEF Applied
      <4> QED BY <4>1, <4>2
    <3>2. Total(o.lines, About[l]) = 0
      BY <2>2, TotalNone
    <3> HIDE DEF About
    <3> QED BY <2>0, <3>1, <3>2
  <2> QED BY <2>1, <2>2
<1>3. accepted \in SUBSET (DOMAIN o.lines)
  OBVIOUS
<1>4. c = [l \in Listings |-> b[l] + Total(o.lines, {i \in accepted : o.lines[i].listing = l})]
  BY <1>2
<1> HIDE DEF accepted, About
<1>5. Abstract!Outcomes(o, b) =
        {[l \in Listings |-> b[l] + Total(o.lines, {i \in a : o.lines[i].listing = l})] :
           a \in SUBSET (DOMAIN o.lines)}
  BY DEF Abstract!Outcomes, Total, MapThenSumSet, MapThenFoldSet, Abstract!MapThenSumSet,
         Abstract!MapThenFoldSet
<1>6. \E a \in SUBSET (DOMAIN o.lines) :
        c = [l \in Listings |-> b[l] + Total(o.lines, {i \in a : o.lines[i].listing = l})]
  BY <1>3, <1>4
<1> QED BY <1>5, <1>6

\* A quantity is set, or the request is refused.
LEMMA UpdateOutcome ==
  ASSUME NEW b, NEW o, o.op = "update"
  PROVE  /\ b \in Abstract!Outcomes(o, b)
         /\ [b EXCEPT ![o.lines[1].listing] = o.lines[1].quantity] \in Abstract!Outcomes(o, b)
BY DEF Abstract!Outcomes

\* What is removed is gone, the rest stays.
LEMMA ClearOutcome ==
  ASSUME NEW b \in [Listings -> Int], NEW c \in [Listings -> Int], NEW o,
         o.op \in {"remove", "clear"},
         \A l \in Listings : c[l] = IF l \in o.scope THEN 0 ELSE b[l]
  PROVE  c \in Abstract!Outcomes(o, b)
<1>1. Abstract!Outcomes(o, b) = {[l \in Listings |-> IF l \in o.scope THEN 0 ELSE b[l]]}
  BY DEF Abstract!Outcomes
<1> QED BY <1>1

\* A request under way of another user notices nothing of a step.
LEMMA EffectOthers ==
  ASSUME EffectInv, SerialInv', NEW r \in Requests,
         SerialStart(r) \/ (Continue(r) /\ UNCHANGED before),
         NEW q \in Requests \ {r}
  PROVE  Effect(q)'
<1>0. PICK v \in Users : v = req[q].user
  BY DEF EffectInv, SerialInv, CartInv, TypeOK, Request
<1>1. Start(r) \/ Continue(r)
  BY DEF SerialStart
<1>2. req'[q] = req[q]
  BY <1>1, OneActs DEF EffectInv, SerialInv
<1>3. Effect(q) /\ req[q] \in Request /\ SerialInv
  BY DEF EffectInv, SerialInv, CartInv, TypeOK
<1>4. req[r].user \in Users
  BY DEF EffectInv, SerialInv, CartInv, TypeOK, Request
<1>5. ASSUME Busy(q) PROVE v # req[r].user /\ before'[v] = before[v]
  <2>1. CASE SerialStart(r)
    <3>1. v # req[r].user
      BY <1>0, <1>5, <2>1 DEF SerialStart, Active, Busy, Over
    <3> QED BY <1>4, <2>1, <3>1 DEF SerialStart, EffectInv
  <2>2. CASE Continue(r) /\ UNCHANGED before
    BY <1>0, <1>3, <1>5, <2>2, ContinuesBusy DEF SerialInv, OneBusy
  <2> QED BY <2>1, <2>2
<1>6. CASE ~Busy(q)
  BY <1>2, <1>3, <1>6 DEF Effect, Busy
<1>7. CASE Busy(q)
  <2>1. /\ Contents(v)' = Contents(v)
        /\ \A scope : RowsIn(v, scope)' = RowsIn(v, scope)
        /\ \A scope : \A id \in RowsIn(v, scope) : rows'[id] = rows[id]
    BY <1>1, <1>3, <1>5, <1>7, ContentsKept
  <2>2. Written1(q, v) /\ Prepared(q, v) /\ OrderOf(q) \in Orders
    BY <1>0, <1>3, <1>7 DEF Effect
  <2>3. Written1(q, v)'
    <3>1. before'[v] = before[v] /\ Contents(v)' = Contents(v)
      BY <1>5, <1>7, <2>1
    <3> QED BY <1>2, <2>2, <3>1 DEF Written1, ItemOf, Asked
  <2>4. Prepared(q, v)'
    <3>1. \A w \in req[q].upd : /\ w.id \in RowsIn(v, {ItemOf(q, w.line)})'
                               /\ rows'[w.id] = rows[w.id]
      BY <1>2, <2>1, <2>2 DEF Prepared, ItemOf
    <3>2. \A scope : RowsIn(v, scope)' = RowsIn(v, scope)
      BY <2>1
    <3> QED BY <1>2, <2>2, <3>1, <3>2 DEF Prepared, ItemOf, Asked
  <2>5. OrderOf(q)' \in Orders
    BY <1>2, <2>2 DEF OrderOf
  <2> QED BY <1>0, <1>2, <1>3, <1>7, <2>3, <2>4, <2>5 DEF Effect, Busy
<1> QED BY <1>6, <1>7

-----------------------------------------------------------------------------
(* The steps of a request *)

\* The orders of AbstractCart are those that requests have.
LEMMA OrdersAre ==
  /\ \A l \in Listings, q \in Quantities, o \in {"add", "update"} :
       [op |-> o, lines |-> <<[listing |-> l, quantity |-> q]>>, scope |-> {}] \in Orders
  /\ \A b \in BulkOrders : [op |-> "bulk", lines |-> b, scope |-> {}] \in Orders
  /\ \A o \in {"remove", "clear"}, s \in SUBSET Listings :
       [op |-> o, lines |-> <<>>, scope |-> s] \in Orders
<1> DEFINE Single == {<<[listing |-> l, quantity |-> q]>> : l \in Listings, q \in Quantities}
           Bodies == BulkOrders \cup Single
           Order(o, b, s) == [op |-> o, lines |-> b, scope |-> s]
           Adding == {Order(o, b, {}) : o \in {"add", "bulk", "update"}, b \in Bodies}
           Removing == {Order(o, <<>>, s) : o \in {"remove", "clear"}, s \in SUBSET Listings}
<1>1. Orders = Adding \cup Removing
  BY DEF Orders
<1>2. ASSUME NEW l \in Listings, NEW q \in Quantities
      PROVE  <<[listing |-> l, quantity |-> q]>> \in Bodies
  OBVIOUS
<1>3. \A b \in BulkOrders : b \in Bodies
  OBVIOUS
<1> HIDE DEF Bodies, Order
<1>4. ASSUME NEW o \in {"add", "bulk", "update"}, NEW b \in Bodies
      PROVE  Order(o, b, {}) \in Adding
  OBVIOUS
<1>5. ASSUME NEW o \in {"remove", "clear"}, NEW s \in SUBSET Listings
      PROVE  Order(o, <<>>, s) \in Removing
  OBVIOUS
<1> HIDE DEF Adding, Removing
<1> USE DEF Order
<1>6. ASSUME NEW l \in Listings, NEW q \in Quantities, NEW o \in {"add", "update"}
      PROVE  [op |-> o, lines |-> <<[listing |-> l, quantity |-> q]>>, scope |-> {}] \in Orders
  BY <1>1, <1>2, <1>4
<1>7. ASSUME NEW b \in BulkOrders PROVE [op |-> "bulk", lines |-> b, scope |-> {}] \in Orders
  BY <1>1, <1>3, <1>4
<1>8. ASSUME NEW o \in {"remove", "clear"}, NEW s \in SUBSET Listings
      PROVE  [op |-> o, lines |-> <<>>, scope |-> s] \in Orders
  BY <1>1, <1>5
<1> QED BY <1>6, <1>7, <1>8

\* What is known of a request that takes a step.
LEMMA Stepping ==
  ASSUME EffectInv, SerialInv', NEW r \in Requests, Start(r) \/ Continue(r)
  PROVE  /\ req[r].user \in Users /\ req'[r].user = req[r].user
         /\ req[r] \in Request /\ req \in [Requests -> Request] /\ req'[r] \in Request
         /\ SerialInv /\ CartInv /\ Sound(r) /\ Placing(r) /\ Effect(r)
         /\ req[r].lines \in Seq(Line)
         /\ \A i \in DOMAIN req[r].lines : ItemOf(r, i) \in Listings /\ Asked(r, i) \in Int
         /\ Contents(req[r].user) \in [Listings -> Int]
         /\ Contents(req[r].user)' \in [Listings -> Int]
         /\ before[req[r].user] \in [Listings -> Int]
<1>1. /\ SerialInv /\ CartInv /\ Sound(r) /\ Placing(r) /\ Effect(r)
      /\ req[r] \in Request /\ req \in [Requests -> Request] /\ req'[r] \in Request
  BY DEF EffectInv, SerialInv, CartInv, TypeOK
<1>2. req[r].user \in Users /\ req'[r].user = req[r].user /\ req[r].lines \in Seq(Line)
  BY <1>1, OneActs DEF Request
<1>3. ASSUME NEW i \in DOMAIN req[r].lines
      PROVE  ItemOf(r, i) \in Listings /\ Asked(r, i) \in Int
  <2>1. req[r].lines[i] \in Line /\ Quantities \subseteq Int
    BY <1>2, CartAssumption
  <2> QED BY <2>1 DEF Line, ItemOf, Asked
<1>4. \A l \in Listings : Contents(req[r].user)[l] \in Int
  BY <1>1, <1>2, ContentsAre DEF Tallied
<1>5. \A u \in Users, l \in Listings : Contents(u)'[l] \in Int
  BY ContentsAreNext DEF Tallied
<1>6. /\ Contents(req[r].user) \in [Listings -> Int]
      /\ \A u \in Users : Contents(u)' \in [Listings -> Int]
  BY <1>4, <1>5 DEF Contents
<1>7. Contents(req[r].user)' \in [Listings -> Int]
  BY <1>2, <1>6
<1> QED BY <1>1, <1>2, <1>3, <1>6, <1>7 DEF EffectInv

\* The request that begins knows what its user's cart holds; one that is refused at once has
\* changed nothing.
LEMMA StartStep ==
  ASSUME EffectInv, SerialInv', NEW r \in Requests, SerialStart(r)
  PROVE  ~Busy(r) /\ rows' = rows /\ Effect(r)'
<1>0. Start(r)
  BY DEF SerialStart
<1>1. PICK u \in Users : u = req[r].user
  BY <1>0, Stepping
<1>2. /\ req[r] \in Request /\ req \in [Requests -> Request] /\ req'[r].user = u
      /\ SerialInv /\ Placing(r) /\ Placed(r) /\ Effect(r)
      /\ before \in [Users -> [Listings -> Int]] /\ before' = [before EXCEPT ![u] = Contents(u)]
  BY <1>0, <1>1, Stepping DEF SerialStart, EffectInv, Sound
<1>3. req[r].pc = "idle" /\ UNCHANGED <<carts, rows>>
  BY <1>0 DEF Start, AddItem, UpdateItemQuantity, AddItemsBulk, RemoveItem, ClearCart,
         ClearShopItems, RemoveItemsByListingIds, ClearScope
<1>4. ~Busy(r)
  BY <1>3 DEF Busy, Over
<1>5. /\ Contents(u)' = Contents(u) /\ before'[u] = Contents(u)
      /\ \A scope : RowsIn(u, scope)' = RowsIn(u, scope)
  BY <1>0, <1>2, <1>3, ContentsKept
<1>6. /\ req[r].op = "add" /\ req[r].lines = <<>> /\ req[r].scope = {} /\ req[r].upd = {}
      /\ req[r].ins = {} /\ req[r].del = {}
  BY <1>2, <1>3 DEF Placed, Effect
<1>7. ASSUME NEW a, Answer(r, a) PROVE Effect(r)'
  <2>1. req'[r].pc = "done"
    BY <1>2, <1>7 DEF Answer, Request
  <2> QED BY <2>1 DEF Effect, Busy, Over
<1>8. ASSUME OrderOf(r)' \in Orders, req'[r].pc \notin {"idle", "flush", "insert", "delete"},
             Prepared(r, u)'
      PROVE  Effect(r)'
  BY <1>2, <1>5, <1>8 DEF Effect, Written1
<1>9. ASSUME NEW l \in Listings, NEW q \in Quantities,
             AddItem(r, l, q) \/ UpdateItemQuantity(r, l, q)
      PROVE  Effect(r)'
  <2> DEFINE line == <<[listing |-> l, quantity |-> q]>>
  <2>0. /\ line[1].listing = l /\ line[1].quantity = q
        /\ [op |-> "add", lines |-> line, scope |-> {}] \in Orders
        /\ [op |-> "update", lines |-> line, scope |-> {}] \in Orders
    BY OrdersAre
  <2> HIDE DEF line
  <2>1. CASE AddItem(r, l, q)
    <3>1. ASSUME NEW seen,
                 req' = [req EXCEPT ![r].op = "add", ![r].pc = "findCart", ![r].lines = line,
                                    ![r].seen = seen]
          PROVE  Effect(r)'
      <4>1. /\ req'[r].op = "add" /\ req'[r].pc = "findCart" /\ req'[r].lines = line
            /\ req'[r].scope = {} /\ req'[r].upd = {}
        BY <1>2, <1>6, <3>1 DEF Request
      <4> QED BY <1>8, <2>0, <4>1 DEF Prepared, OrderOf
    <3> QED BY <1>7, <2>1, <3>1 DEF AddItem, line
  <2>2. CASE UpdateItemQuantity(r, l, q)
    <3>1. ASSUME NEW id \in RowsIn(u, {l}),
                 req' = [req EXCEPT ![r].op = "update", ![r].lines = line,
                           ![r].upd = {[line |-> 1, id |-> id, quantity |-> q,
                                        loaded |-> rows[id].quantity]},
                           ![r].pc = "fetchListings"]
          PROVE  Effect(r)'
      <4> DEFINE w == [line |-> 1, id |-> id, quantity |-> q, loaded |-> rows[id].quantity]
      <4>1. /\ req'[r].op = "update" /\ req'[r].pc = "fetchListings" /\ req'[r].lines = line
            /\ req'[r].scope = {} /\ req'[r].ins = {} /\ req'[r].upd = {w}
        BY <1>2, <1>6, <3>1 DEF Request
      <4>2. w.line = 1 /\ w.id = id /\ w.quantity = q /\ w.loaded = rows[id].quantity
        OBVIOUS
      <4> HIDE DEF w
      <4>3. q + 0 = q
        BY CartAssumption
      <4>4. Prepared(r, u)'
        BY <1>3, <1>5, <2>0, <4>1, <4>2, <4>3 DEF Prepared, ItemOf, Asked
      <4>5. OrderOf(r)' \in Orders
        BY <2>0, <4>1 DEF OrderOf
      <4> QED BY <1>8, <4>1, <4>4, <4>5
    <3>2. Answer(r, "err")
          \/ \E id \in RowsIn(u, {l}) :
               req' = [req EXCEPT ![r].op = "update", ![r].lines = line,
                         ![r].upd = {[line |-> 1, id |-> id, quantity |-> q,
                                      loaded |-> rows[id].quantity]},
                         ![r].pc = "fetchListings"]
      BY <1>1, <2>2, Zenon DEF UpdateItemQuantity, line
    <3> QED BY <1>7, <3>1, <3>2
  <2> QED BY <1>9, <2>1, <2>2
<1>10. ASSUME NEW lines \in BulkOrders, AddItemsBulk(r, lines) PROVE Effect(r)'
  <2>1. /\ req'[r].op = "bulk" /\ req'[r].pc = "findCart" /\ req'[r].lines = lines
        /\ req'[r].scope = {} /\ req'[r].upd = {}
    BY <1>2, <1>6, <1>10 DEF AddItemsBulk, Request
  <2>2. OrderOf(r)' \in Orders
    BY <2>1, OrdersAre DEF OrderOf
  <2> QED BY <1>8, <2>1, <2>2 DEF Prepared
<1>11. ASSUME NEW l \in Listings, RemoveItem(r, l) PROVE Effect(r)'
  <2>1. ASSUME NEW id \in RowsIn(u, {l}),
               req' = [req EXCEPT ![r].op = "remove", ![r].scope = {l}, ![r].del = {id},
                                  ![r].pc = "findRows"]
        PROVE  Effect(r)'
    <3>1. /\ req'[r].op = "remove" /\ req'[r].pc = "findRows" /\ req'[r].lines = <<>>
          /\ req'[r].scope = {l} /\ req'[r].upd = {} /\ req'[r].del = {id}
      BY <1>2, <1>6, <2>1 DEF Request
    <3>2. RowsIn(u, {l}) = {id}
      BY <1>2, <2>1, ContentsAre DEF Tallied
    <3>3. OrderOf(r)' \in Orders
      BY <3>1, OrdersAre DEF OrderOf
    <3> QED BY <1>5, <1>8, <3>1, <3>2, <3>3 DEF Prepared
  <2>2. Answer(r, "err")
        \/ \E id \in RowsIn(u, {l}) :
             req' = [req EXCEPT ![r].op = "remove", ![r].scope = {l}, ![r].del = {id},
                                ![r].pc = "findRows"]
    BY <1>1, <1>11, Zenon DEF RemoveItem
  <2> QED BY <1>7, <2>1, <2>2
<1>12. ASSUME NEW scope \in SUBSET Listings, ClearScope(r, scope) PROVE Effect(r)'
  <2>1. /\ req'[r].op = "clear" /\ req'[r].pc = "findRows" /\ req'[r].lines = <<>>
        /\ req'[r].scope = scope /\ req'[r].upd = {}
    BY <1>2, <1>6, <1>12 DEF ClearScope, Request
  <2>2. OrderOf(r)' \in Orders
    BY <2>1, OrdersAre DEF OrderOf
  <2> QED BY <1>8, <2>1, <2>2 DEF Prepared
<1>13. Effect(r)'
  <2>1. \A s : {l \in Listings : ShopOf[l] = s} \in SUBSET Listings
    OBVIOUS
  <2> QED
    BY <1>0, <1>9, <1>10, <1>11, <1>12, <2>1
    DEF Start, ClearCart, ClearShopItems, RemoveItemsByListingIds
<1> QED BY <1>3, <1>4, <1>13

\* What the lines of an addition are.
LEMMA LinesOf ==
  ASSUME EffectInv, NEW r \in Requests, Busy(r), req[r].op \in {"add", "bulk"}
  PROVE  LinesApart(req[r].lines)
<1>1. /\ req[r] \in Request /\ Placing(r) /\ Placed(r)
  BY DEF EffectInv, SerialInv, CartInv, TypeOK, Sound
<1>2. CASE req[r].op = "bulk"
  BY <1>1, <1>2 DEF Placing
<1>3. CASE req[r].op = "add"
  <2>1. req[r].lines \in Seq(Line) /\ Len(req[r].lines) = 1
    BY <1>1, <1>3 DEF Placed, Request, Busy
  <2>2. DOMAIN req[r].lines = 1..1
    BY <2>1
  <2> QED BY <2>2 DEF LinesApart
<1> QED BY <1>2, <1>3

\* A request that has answered is not under way, and what it knew is gone.
LEMMA Answered ==
  ASSUME CartInv, NEW r \in Requests, NEW a, Answer(r, a)
  PROVE  Effect(r)' /\ ~Busy(r)'
<1>1. req[r] \in Request /\ req \in [Requests -> Request]
  BY DEF CartInv, TypeOK
<1>2. req'[r].pc = "done"
  BY <1>1 DEF Answer, Request
<1> QED BY <1>2 DEF Effect, Busy, Over

\* A step that reads and goes on.
LEMMA QuietGo ==
  ASSUME EffectInv, SerialInv', NEW r \in Requests, Continue(r), rows' = rows, before' = before,
         req'[r].op = req[r].op, req'[r].lines = req[r].lines, req'[r].scope = req[r].scope,
         req'[r].upd = req[r].upd, req'[r].ins = req[r].ins, req'[r].pc \notin Over,
         req[r].op = "bulk" =>
           (req'[r].pc \in {"flush", "insert"} <=> req[r].pc \in {"flush", "insert"}),
         req[r].upd # {} =>
           req'[r].pc = "flush" \/ (req'[r].pc = "fetchListings" /\ req[r].op = "update"),
         req'[r].pc = "delete" => req[r].op \in {"remove", "clear"},
         req[r].op = "remove" \/ req'[r].pc = "delete" =>
           req'[r].del = RowsIn(req[r].user, req[r].scope)
  PROVE  Effect(r)' /\ OrderOf(r)' = OrderOf(r)
<1>1. PICK u \in Users : u = req[r].user
  BY Stepping
<1>2. req'[r].user = u /\ Busy(r) /\ SerialInv
  BY <1>1, Stepping, ContinuesBusy
<1>3. /\ OrderOf(r) \in Orders /\ Written1(r, u) /\ Prepared(r, u)
  BY <1>1, <1>2, Stepping DEF Effect
<1>4. Contents(u)' = Contents(u) /\ \A scope : RowsIn(u, scope)' = RowsIn(u, scope)
  BY <1>1, <1>2, ContentsKept
<1>5. Written1(r, u)'
  BY <1>3, <1>4 DEF Written1, ItemOf, Asked
<1>6. Prepared(r, u)'
  <2>1. \A w \in req[r].upd : w.id \in RowsIn(u, {ItemOf(r, w.line)})'
    BY <1>3, <1>4 DEF Prepared, ItemOf
  <2> QED BY <1>1, <1>3, <1>4, <2>1 DEF Prepared, ItemOf, Asked
<1>7. OrderOf(r)' = OrderOf(r)
  BY DEF OrderOf
<1> QED BY <1>2, <1>3, <1>5, <1>6, <1>7 DEF Effect, Busy, Over

\* The request of user u goes on as before, or it is over and has had its effect as a whole.
Served(r, u) ==
  /\ Effect(r)'
  /\ Busy(r)' => OrderOf(r)' = OrderOf(r)
  /\ ~Busy(r)' => Contents(u)' \in Abstract!Outcomes(OrderOf(r), before[u])

\* A request that is refused leaves the cart as it is.
LEMMA Refused ==
  ASSUME EffectInv, SerialInv', NEW r \in Requests, Continue(r), NEW u \in Users, u = req[r].user,
         NEW a, Answer(r, a), rows' = rows,
         \/ req[r].op \in {"add", "update"}
         \/ req[r].op \in {"remove", "clear"} /\ RowsIn(u, req[r].scope) = {}
  PROVE  Served(r, u)
<1>1. Effect(r)' /\ ~Busy(r)'
  BY Answered DEF EffectInv, SerialInv
<1>2. Busy(r) /\ SerialInv /\ Contents(u) \in [Listings -> Int] /\ Effect(r)
      /\ req[r].lines \in Seq(Line)
  BY Stepping, ContinuesBusy
<1>3. Contents(u)' = Contents(u) /\ Contents(u) = before[u]
  <2>1. Written1(r, u)
    BY <1>2 DEF Effect
  <2> QED BY <1>2, <2>1, ContentsKept DEF Written1
<1>4. CASE req[r].op = "add"
  <2>1. Contents(u) \in Abstract!Outcomes(OrderOf(r), Contents(u))
    <3>1. OrderOf(r).op = "add" /\ OrderOf(r).lines = req[r].lines
      BY <1>4 DEF OrderOf
    <3>2. LinesApart(req[r].lines)
      BY <1>2, <1>4, LinesOf
    <3>3. Applied(OrderOf(r), Contents(u), Contents(u))
      BY DEF Applied
    <3>4. OrderOf(r).op \in {"add", "bulk"} /\ OrderOf(r).lines \in Seq(Line)
          /\ LinesApart(OrderOf(r).lines) /\ Contents(u) \in [Listings -> Int]
      BY <1>2, <3>1, <3>2
    <3> QED BY <3>3, <3>4, LinesOutcome
  <2> QED BY <1>1, <1>3, <2>1 DEF Served
<1>5. CASE req[r].op = "update"
  BY <1>1, <1>3, <1>5, UpdateOutcome DEF Served, OrderOf
<1>6. CASE req[r].op \in {"remove", "clear"} /\ RowsIn(u, req[r].scope) = {}
  <2>1. ASSUME NEW l \in Listings, l \in req[r].scope PROVE Contents(u)[l] = 0
    <3>1. RowsIn(u, {l}) = {}
      BY <1>6, <2>1 DEF RowsIn
    <3> QED BY <1>2, <3>1, ContentsAre DEF Tallied
  <2>2. OrderOf(r).op = req[r].op /\ OrderOf(r).scope = req[r].scope
    BY DEF OrderOf
  <2>3. Contents(u) \in Abstract!Outcomes(OrderOf(r), Contents(u))
    BY <1>2, <1>6, <2>1, <2>2, ClearOutcome
  <2> QED BY <1>1, <1>3, <2>3 DEF Served
<1> QED BY <1>4, <1>5, <1>6

\* addItem looks its listing up in the cart.
LEMMA FindItemServed ==
  ASSUME EffectInv, SerialInv', ~DbFaults, NEW r \in Requests, FindItem(r), before' = before,
         NEW u \in Users, u = req[r].user
  PROVE  Served(r, u)
<1>0. Continue(r)
  BY DEF Continue
<1>1. /\ req[r] \in Request /\ req \in [Requests -> Request] /\ req'[r].user = u /\ rows' = rows
      /\ SerialInv /\ Placing(r) /\ Placed(r) /\ Owned(r) /\ Effect(r) /\ Busy(r)
      /\ req[r].pc = "findItem"
  BY <1>0, Stepping, ContinuesBusy DEF Sound, FindItem
<1>2. /\ req[r].op = "add" /\ req[r].ins = {} /\ req[r].cart # NoCart /\ carts[req[r].cart] = u
      /\ Prepared(r, u) /\ req[r].upd = {} /\ OrderOf(r) \in Orders /\ Contents(u) = before[u]
  BY <1>1 DEF Placing, Placed, Owned, Effect, Prepared, Written1
<1>3. Contents(u)' = Contents(u) /\ \A scope : RowsIn(u, scope)' = RowsIn(u, scope)
  BY <1>0, <1>1, ContentsKept
<1>4. ASSUME Prepared(r, u)', req'[r].op = "add", req'[r].pc \notin Over, OrderOf(r)' = OrderOf(r)
      PROVE  Served(r, u)
  BY <1>1, <1>2, <1>3, <1>4 DEF Served, Effect, Written1, Busy, Over
<1>5. CASE req' = [req EXCEPT ![r].pc = "insert", ![r].ins = {1}]
  <2>1. /\ req'[r].pc = "insert" /\ req'[r].op = "add" /\ req'[r].upd = {}
        /\ req'[r].lines = req[r].lines /\ req'[r].scope = req[r].scope
    BY <1>1, <1>2, <1>5 DEF Request
  <2> QED BY <1>2, <1>4, <2>1 DEF Prepared, OrderOf, Over
<1>6. ASSUME NEW id \in RowsInCart(req[r].cart, req[r].lines[1].listing), NEW w,
             w = [line |-> 1, id |-> id, quantity |-> rows[id].quantity + req[r].lines[1].quantity,
                  loaded |-> rows[id].quantity],
             req' = [req EXCEPT ![r].pc = "flush", ![r].upd = {w}]
      PROVE  Served(r, u)
  <2>1. /\ req'[r].pc = "flush" /\ req'[r].op = "add" /\ req'[r].upd = {w} /\ req'[r].ins = {}
        /\ req'[r].lines = req[r].lines /\ req'[r].scope = req[r].scope
    BY <1>1, <1>2, <1>6 DEF Request
  <2>2. /\ w.line = 1 /\ w.id = id /\ w.loaded = rows[id].quantity
        /\ w.quantity = rows[id].quantity + req[r].lines[1].quantity
    BY <1>6
  <2>3. id \in RowsIn(u, {req[r].lines[1].listing})
    BY <1>2, <1>6 DEF RowsInCart, RowsIn, RowsOf
  <2>4. rows[id].quantity \in Int /\ req[r].lines[1].quantity \in Int
    <3>1. rows[id] \in Row
      BY <1>1, <1>6 DEF RowsInCart, Live, SerialInv, CartInv, TypeOK
    <3>2. Len(req[r].lines) = 1 /\ req[r].lines \in Seq(Line)
      BY <1>1, <1>2 DEF Placed, Request, Over
    <3>3. req[r].lines[1] \in Line /\ Quantities \subseteq Int
      BY <3>2, CartAssumption
    <3> QED BY <3>1, <3>3 DEF Row, Line
  <2>5. w.quantity = req[r].lines[1].quantity + w.loaded
    BY <2>2, <2>4
  <2>6. Prepared(r, u)'
    BY <1>1, <1>3, <2>1, <2>2, <2>3, <2>5 DEF Prepared, ItemOf, Asked
  <2> QED BY <1>2, <1>4, <2>1, <2>6 DEF OrderOf, Over
<1>7. ASSUME NEW a, Answer(r, a) PROVE Served(r, u)
  BY <1>0, <1>1, <1>2, <1>7, Refused
<1>8. \/ req' = [req EXCEPT ![r].pc = "insert", ![r].ins = {1}]
      \/ \E a : Answer(r, a)
      \/ \E id \in RowsInCart(req[r].cart, req[r].lines[1].listing) : \E w :
           /\ w = [line |-> 1, id |-> id, quantity |-> rows[id].quantity + req[r].lines[1].quantity,
                   loaded |-> rows[id].quantity]
           /\ req' = [req EXCEPT ![r].pc = "flush", ![r].upd = {w}]
  BY DEF FindItem
<1> QED BY <1>5, <1>6, <1>7, <1>8

\* addItemsBulk has mapped the items of the cart.
LEMMA MapItemsServed ==
  ASSUME EffectInv, SerialInv', ~DbFaults, NEW r \in Requests, MapItemsForBulk(r),
         before' = before, NEW u \in Users, u = req[r].user
  PROVE  Served(r, u)
<1>0. Continue(r)
  BY DEF Continue
<1>1. /\ req[r] \in Request /\ req \in [Requests -> Request] /\ req'[r].user = u /\ rows' = rows
      /\ SerialInv /\ Placing(r) /\ Placed(r) /\ Owned(r) /\ Effect(r) /\ Busy(r)
      /\ req[r].pc = "findRows" /\ req[r].op = "bulk"
  BY <1>0, Stepping, ContinuesBusy DEF Sound, MapItemsForBulk
<1>2. /\ req[r].cart # NoCart /\ carts[req[r].cart] = u
      /\ OrderOf(r) \in Orders /\ Contents(u) = before[u]
  BY <1>1 DEF Placed, Owned, Effect, Written1
<1>3. Contents(u)' = Contents(u) /\ \A scope : RowsIn(u, scope)' = RowsIn(u, scope)
  BY <1>0, <1>1, ContentsKept
<1> DEFINE lines == req[r].lines
           valid == {i \in DOMAIN lines :
                       ValidListing(req[r].seen, lines[i].listing, lines[i].quantity)}
           known(item) == {i \in valid : item[lines[i].listing] # NoRow}
           Sum(item, i) == rows[item[lines[i].listing]].quantity + lines[i].quantity
           W(item, i) == [line |-> i, id |-> item[lines[i].listing], quantity |-> Sum(item, i),
                          loaded |-> rows[item[lines[i].listing]].quantity]
           raised(item) == {j \in known(item) :
                              ValidListing(req[r].seen, lines[j].listing, Sum(item, j))}
           upd(item) == {W(item, i) : i \in raised(item)}
<1>4. PICK item \in [Listings -> RowId \cup {NoRow}], fault \in Faults :
        /\ \A l \in Listings : item[l] \in IF fault \/ RowsInCart(req[r].cart, l) = {}
                                          THEN {NoRow} ELSE RowsInCart(req[r].cart, l)
        /\ req' = [req EXCEPT ![r].pc = "flush", ![r].upd = upd(item),
                              ![r].ins = valid \ known(item)]
  BY DEF MapItemsForBulk
<1>5. \A l \in Listings : item[l] # NoRow => item[l] \in RowsInCart(req[r].cart, l)
  BY <1>4
<1>6. \A i \in raised(item) :
        i \in DOMAIN lines /\ i \in known(item) /\ item[lines[i].listing] # NoRow
  OBVIOUS
<1>7. ASSUME NEW i \in raised(item)
      PROVE  /\ W(item, i).line = i /\ W(item, i).id = item[lines[i].listing]
             /\ W(item, i).loaded = rows[W(item, i).id].quantity
             /\ W(item, i).quantity = lines[i].quantity + W(item, i).loaded
             /\ W(item, i).id \in RowsIn(u, {lines[i].listing})
  <2>1. lines[i].listing \in Listings /\ lines[i].quantity \in Int
    BY <1>0, <1>6, Stepping DEF ItemOf, Asked
  <2>2. item[lines[i].listing] \in RowsInCart(req[r].cart, lines[i].listing)
    BY <1>5, <1>6, <2>1
  <2>3. rows[item[lines[i].listing]] \in Row
    BY <1>1, <2>2 DEF RowsInCart, Live, SerialInv, CartInv, TypeOK
  <2>4. rows[item[lines[i].listing]].quantity \in Int
    BY <2>3 DEF Row
  <2>5. item[lines[i].listing] \in RowsIn(u, {lines[i].listing})
    BY <1>2, <2>2 DEF RowsInCart, RowsIn, RowsOf
  <2>6. Sum(item, i) = lines[i].quantity + rows[item[lines[i].listing]].quantity
    <3> DEFINE a == rows[item[lines[i].listing]].quantity
               b == lines[i].quantity
    <3>1. a \in Int /\ b \in Int /\ Sum(item, i) = a + b
      BY <2>1, <2>4
    <3> HIDE DEF a, b, raised, Sum
    <3>2. Sum(item, i) = b + a
      BY <3>1
    <3> QED BY <3>2 DEF a, b
  <2> HIDE DEF Sum, lines
  <2>7. /\ W(item, i).line = i /\ W(item, i).id = item[lines[i].listing]
        /\ W(item, i).loaded = rows[item[lines[i].listing]].quantity
        /\ W(item, i).quantity = Sum(item, i)
    OBVIOUS
  <2> HIDE DEF W
  <2> QED BY <2>5, <2>6, <2>7
<1> HIDE DEF W
<1>8. \A w \in upd(item) : \E i \in raised(item) : w = W(item, i)
  OBVIOUS
<1> HIDE DEF upd, raised
<1>9. /\ req'[r].pc = "flush" /\ req'[r].op = "bulk" /\ req'[r].upd = upd(item)
      /\ req'[r].lines = lines /\ req'[r].scope = req[r].scope
      /\ req'[r].ins = valid \ known(item)
  BY <1>1, <1>4 DEF Request
<1> HIDE DEF lines, valid, known
<1>10. Prepared(r, u)'
  <2>1. ASSUME NEW w \in upd(item)
        PROVE  /\ w.line \in raised(item) /\ w = W(item, w.line)
               /\ w.id \in RowsIn(u, {lines[w.line].listing})
               /\ w.loaded = rows[w.id].quantity
               /\ w.quantity = lines[w.line].quantity + w.loaded
    <3>1. PICK i \in raised(item) : w = W(item, i)
      BY <1>8, <2>1
    <3>2. w.line = i
      BY <1>7, <3>1
    <3> QED BY <1>7, <3>1, <3>2
  <2>2. \A w \in upd(item) : w.line \in known(item)
    BY <1>6, <2>1
  <2>3. \A v, w \in upd(item) : v.line = w.line => v = w
    <3>1. ASSUME NEW v \in upd(item), NEW w \in upd(item), v.line = w.line PROVE v = w
      <4>1. v = W(item, v.line) /\ w = W(item, w.line)
        BY <2>1
      <4> QED BY <3>1, <4>1
    <3> QED BY <3>1
  <2> QED BY <1>1, <1>3, <1>9, <2>1, <2>2, <2>3 DEF Prepared, ItemOf, Asked
<1>11. Written1(r, u)'
  <2>1. \A i \in DOMAIN lines : lines[i].listing \in Listings
    BY <1>0, Stepping DEF ItemOf, lines
  <2> QED BY <1>2, <1>3, <1>9 DEF Written1, ItemOf, Asked
<1>12. OrderOf(r)' = OrderOf(r)
  BY <1>1, <1>9 DEF OrderOf, lines
<1> QED BY <1>1, <1>2, <1>9, <1>10, <1>11, <1>12 DEF Served, Effect, Busy, Over

\* The steps that only read, or that create the cart.
LEMMA ReadServed ==
  ASSUME EffectInv, SerialInv', ~DbFaults, NEW r \in Requests, before' = before,
         \/ FindCart(r) \/ RecheckCart(r) \/ CreateCart(r) \/ FetchListings(r)
         \/ ValidateUpdate(r) \/ FlushDone(r) \/ FindRemoved(r) \/ FindCleared(r),
         NEW u \in Users, u = req[r].user
  PROVE  Served(r, u)
<1>0. Continue(r)
  BY DEF Continue
<1>1. /\ req[r] \in Request /\ req \in [Requests -> Request] /\ rows' = rows
      /\ Placed(r) /\ Effect(r) /\ Busy(r)
  BY <1>0, Stepping, ContinuesBusy
  DEF Sound, FindCart, RecheckCart, LookForCart, CreateCart, FetchListings, ValidateUpdate,
      FlushDone, FindRemoved, FindCleared
<1>2. Prepared(r, u) /\ Faults = {FALSE}
  BY <1>1 DEF Effect, Faults
<1>3. /\ req[r].upd # {} =>
           req[r].pc = "flush" \/ (req[r].pc = "fetchListings" /\ req[r].op = "update")
      /\ req[r].op = "remove" => req[r].del = RowsIn(u, req[r].scope)
  BY <1>2 DEF Prepared
<1> DEFINE Same == /\ req'[r].op = req[r].op /\ req'[r].lines = req[r].lines
                   /\ req'[r].scope = req[r].scope /\ req'[r].upd = req[r].upd
                   /\ req'[r].ins = req[r].ins
<1>4. ASSUME Same, req'[r].del = req[r].del,
             req'[r].pc \notin Over \cup {"flush", "insert", "delete"},
             req[r].pc \notin {"flush", "insert"},
             req[r].upd # {} => req'[r].pc = "fetchListings"
      PROVE  Served(r, u)
  BY <1>0, <1>1, <1>3, <1>4, QuietGo DEF Served, Busy, Over
<1>5. ASSUME NEW a, Answer(r, a),
             \/ req[r].op \in {"add", "update"}
             \/ req[r].op \in {"remove", "clear"} /\ RowsIn(u, req[r].scope) = {}
      PROVE  Served(r, u)
  BY <1>0, <1>1, <1>5, Refused
<1>6. CASE FindCart(r) \/ RecheckCart(r)
  <2>1. PICK next \in {"recheckCart", "createCart"} : LookForCart(r, next)
    BY <1>6 DEF FindCart, RecheckCart
  <2>2. AfterCart(r) \in {"findItem", "fetchListings"} /\ req[r].pc \in {"findCart", "recheckCart"}
    BY <1>6 DEF AfterCart, FindCart, RecheckCart
  <2>3. ASSUME NEW c, req' = [req EXCEPT ![r].cart = c, ![r].pc = AfterCart(r)]
        PROVE  Served(r, u)
    <3>1. Same /\ req'[r].del = req[r].del /\ req'[r].pc = AfterCart(r)
      BY <1>1, <2>3 DEF Request
    <3> QED BY <1>3, <1>4, <2>2, <3>1 DEF Over
  <2>4. CASE req' = [req EXCEPT ![r].pc = next]
    <3>1. Same /\ req'[r].del = req[r].del /\ req'[r].pc = next
      BY <1>1, <2>4 DEF Request
    <3> QED BY <1>3, <1>4, <2>1, <2>2, <3>1 DEF Over
  <2> QED BY <2>1, <2>3, <2>4 DEF LookForCart
<1>7. CASE CreateCart(r)
  <2>1. req' = [req EXCEPT ![r].cart = r, ![r].pc = AfterCart(r)] /\ req[r].pc = "createCart"
    BY <1>2, <1>7 DEF CreateCart
  <2>2. Same /\ req'[r].del = req[r].del /\ req'[r].pc \in {"findItem", "fetchListings"}
    BY <1>1, <2>1 DEF Request, AfterCart
  <2> QED BY <1>3, <1>4, <2>1, <2>2 DEF Over
<1>8. CASE FetchListings(r)
  <2>1. PICK seen : req' = [req EXCEPT ![r].pc = "findRows", ![r].seen = seen]
    BY <1>8 DEF FetchListings
  <2>2. Same /\ req'[r].del = req[r].del /\ req'[r].pc = "findRows"
        /\ req[r].pc = "fetchListings" /\ req[r].op = "bulk"
    BY <1>1, <1>8, <2>1 DEF FetchListings, Request
  <2> QED BY <1>3, <1>4, <2>2 DEF Over
<1>9. CASE ValidateUpdate(r)
  <2>1. req[r].pc = "fetchListings" /\ req[r].op = "update"
    BY <1>9 DEF ValidateUpdate
  <2>2. CASE req' = [req EXCEPT ![r].pc = "flush", ![r].seen = listedQty]
    <3>1. Same /\ req'[r].pc = "flush"
      BY <1>1, <2>2 DEF Request
    <3> QED BY <1>0, <1>1, <1>3, <2>1, <3>1, QuietGo DEF Served, Busy, Over
  <2> QED BY <1>5, <1>9, <2>1, <2>2 DEF ValidateUpdate
<1>10. CASE FlushDone(r)
  <2>1. Same /\ req'[r].del = req[r].del /\ req'[r].pc = "insert" /\ req[r].pc = "flush"
        /\ req[r].upd = {}
    BY <1>1, <1>10 DEF FlushDone, Request
  <2> QED BY <1>0, <1>1, <1>3, <2>1, QuietGo DEF Served, Busy, Over
<1>11. CASE FindRemoved(r) \/ FindCleared(r)
  <2>1. req[r].op \in {"remove", "clear"} /\ req[r].pc = "findRows"
    BY <1>11 DEF FindRemoved, FindCleared
  <2>2. ToDelete(r, RowsIn(u, req[r].scope))
    <3>1. CASE FindRemoved(r)
      <4>1. req[r].del \cap Live = RowsIn(u, req[r].scope)
        BY <1>3, <3>1 DEF FindRemoved, RowsIn, RowsOf
      <4> QED BY <1>2, <3>1, <4>1 DEF FindRemoved
    <3>2. CASE FindCleared(r)
      BY <1>2, <3>2 DEF FindCleared
    <3> QED BY <1>11, <3>1, <3>2
  <2>3. CASE RowsIn(u, req[r].scope) = {}
    BY <1>5, <2>1, <2>2, <2>3 DEF ToDelete
  <2>4. CASE RowsIn(u, req[r].scope) # {}
    <3>1. req' = [req EXCEPT ![r].pc = "delete", ![r].del = RowsIn(u, req[r].scope)]
      BY <2>2, <2>4 DEF ToDelete
    <3>2. Same /\ req'[r].pc = "delete" /\ req'[r].del = RowsIn(u, req[r].scope)
      BY <1>1, <3>1 DEF Request
    <3> QED BY <1>0, <1>1, <1>3, <2>1, <3>2, QuietGo DEF Served, Busy, Over
  <2> QED BY <2>3, <2>4
<1> QED BY <1>6, <1>7, <1>8, <1>9, <1>10, <1>11

\* What one UPDATE does to the cart.
LEMMA FlushWrites ==
  ASSUME EffectInv, SerialInv', NEW r \in Requests, NEW u \in Users, NEW w \in req[r].upd,
         Prepared(r, u), rows' = Written(w), carts' = carts
  PROVE  /\ \A scope : RowsIn(u, scope)' = RowsIn(u, scope)
         /\ \A id \in RowId : id # w.id => rows'[id] = rows[id]
         /\ RowsIn(u, {ItemOf(r, w.line)}) = {w.id}
         /\ ItemOf(r, w.line) \in Listings
         /\ \A l \in Listings :
              Contents(u)'[l] = IF l = ItemOf(r, w.line) THEN w.quantity ELSE Contents(u)[l]
<1> DEFINE item == ItemOf(r, w.line)
<1>1. w.id \in RowsIn(u, {item}) /\ w.loaded = rows[w.id].quantity
  BY DEF Prepared
<1>2. rows[w.id] \in Row /\ rows[w.id].listing = item /\ w.id \in RowId /\ rows[w.id] # NoRow
  BY <1>1 DEF RowsIn, RowsOf, Live, EffectInv, SerialInv, CartInv, TypeOK
<1>3. item \in Listings
  BY <1>2 DEF Row
<1>4. SerialInv /\ \A l \in Listings : Tallied(u, l) /\ Tallied(u, l)'
  BY ContentsAre, ContentsAreNext DEF EffectInv
<1>5. RowsIn(u, {item}) = {w.id}
  BY <1>1, <1>3, <1>4 DEF Tallied
<1>6. \A id \in RowId : id # w.id => rows'[id] = rows[id]
  BY DEF Written
<1>7. /\ rows'[w.id].quantity = w.quantity /\ rows'[w.id].cart = rows[w.id].cart
      /\ rows'[w.id].listing = rows[w.id].listing /\ rows'[w.id] # NoRow
  <2>1. rows'[w.id] \in Row \cup {NoRow}
    BY <1>2 DEF SerialInv, CartInv, TypeOK
  <2>2. CASE w.quantity = w.loaded
    BY <1>1, <1>2, <2>2 DEF Written
  <2>3. CASE w.quantity # w.loaded
    <3>1. rows'[w.id] = [rows[w.id] EXCEPT !.quantity = w.quantity]
      BY <1>2, <2>3 DEF Written
    <3>2. [rows[w.id] EXCEPT !.quantity = w.quantity].cart = rows[w.id].cart
      BY <1>2 DEF Row
    <3>3. w.quantity \in Int
      BY DEF EffectInv, SerialInv, CartInv, TypeOK, Request, Write
    <3>4. rows'[w.id] \in [cart: Requests, listing: Listings, quantity: Int]
      BY <1>2, <3>1, <3>3 DEF Row
    <3> QED BY <1>2, <3>1, <3>4, CartAssumption DEF Row
  <2> QED BY <2>2, <2>3
<1>8. ASSUME NEW id \in RowId
      PROVE  /\ rows'[id] # NoRow <=> rows[id] # NoRow
             /\ rows[id] # NoRow => rows'[id].cart = rows[id].cart
                                    /\ rows'[id].listing = rows[id].listing
  BY <1>2, <1>6, <1>7
<1>9. \A scope : RowsIn(u, scope)' = RowsIn(u, scope)
  BY <1>8 DEF RowsIn, RowsOf, Live
<1>10. ASSUME NEW l \in Listings
       PROVE  Contents(u)'[l] = IF l = item THEN w.quantity ELSE Contents(u)[l]
  <2>1. CASE l = item
    BY <1>4, <1>5, <1>7, <1>9, <2>1 DEF Tallied
  <2>2. CASE l # item
    <3>1. CASE RowsIn(u, {l}) = {}
      BY <1>4, <1>9, <2>2, <3>1 DEF Tallied
    <3>2. ASSUME NEW id \in RowsIn(u, {l}) PROVE Contents(u)'[l] = Contents(u)[l]
      <4>1. id \in RowId /\ id # w.id
        BY <1>2, <2>2, <3>2 DEF RowsIn, RowsOf, Live
      <4> QED BY <1>4, <1>6, <1>9, <3>2, <4>1 DEF Tallied
    <3> QED BY <2>2, <3>1, <3>2
  <2> QED BY <2>1, <2>2
<1> QED BY <1>3, <1>5, <1>6, <1>9, <1>10

\* Lines that were applied in full or not at all are an outcome of their request.
LEMMA LinesDone ==
  ASSUME NEW r \in Requests, NEW b \in [Listings -> Int], NEW c \in [Listings -> Int],
         req[r].op \in {"add", "bulk"}, req[r].lines \in Seq(Line), LinesApart(req[r].lines),
         \A l \in Listings : (\A i \in DOMAIN req[r].lines : ItemOf(r, i) # l) => c[l] = b[l],
         \A i \in DOMAIN req[r].lines :
           LET l == ItemOf(r, i)
           IN  c[l] = b[l] \/ c[l] = b[l] + Asked(r, i)
  PROVE  c \in Abstract!Outcomes(OrderOf(r), b)
<1>1. PICK o : o = OrderOf(r)
  OBVIOUS
<1>2. o.op = req[r].op /\ o.lines = req[r].lines
  BY <1>1 DEF OrderOf
<1>3. o.op \in {"add", "bulk"} /\ o.lines \in Seq(Line) /\ LinesApart(o.lines)
  BY <1>2
<1>4. Applied(o, b, c)
  BY <1>2 DEF Applied, ItemOf, Asked
<1>5. c \in Abstract!Outcomes(o, b)
  BY <1>3, <1>4, LinesOutcome
<1> QED BY <1>1, <1>5

\* A quantity is raised or set.
LEMMA FlushServed ==
  ASSUME EffectInv, SerialInv', ~DbFaults, NEW r \in Requests, FlushUpdate(r),
         before' = before, NEW u \in Users, u = req[r].user
  PROVE  Served(r, u)
<1>0. Continue(r)
  BY DEF Continue
<1>1. /\ req[r] \in Request /\ req \in [Requests -> Request] /\ req'[r].user = u
      /\ Placed(r) /\ Lined(r) /\ Effect(r) /\ Busy(r) /\ CartInv /\ req[r].pc = "flush"
      /\ Contents(u) \in [Listings -> Int] /\ Contents(u)' \in [Listings -> Int]
      /\ before[u] \in [Listings -> Int] /\ req[r].lines \in Seq(Line)
      /\ \A i \in DOMAIN req[r].lines : ItemOf(r, i) \in Listings /\ Asked(r, i) \in Int
  BY <1>0, Stepping, ContinuesBusy DEF Sound, FlushUpdate
<1>2. Written1(r, u) /\ Prepared(r, u) /\ OrderOf(r) \in Orders
  BY <1>1 DEF Effect
<1>3. req[r].op \in {"add", "bulk", "update"}
  BY <1>1 DEF Placed, Request, Ops
<1>4. PICK w \in req[r].upd :
        /\ rows' = Written(w) /\ carts' = carts
        /\ \/ req[r].op = "bulk" /\ req' = [req EXCEPT ![r].upd = @ \ {w}]
           \/ req[r].op # "bulk" /\ \E a : Answer(r, a)
  BY DEF FlushUpdate, Faults
<1> DEFINE item == ItemOf(r, w.line)
<1>5. /\ \A scope : RowsIn(u, scope)' = RowsIn(u, scope)
      /\ \A id \in RowId : id # w.id => rows'[id] = rows[id]
      /\ RowsIn(u, {item}) = {w.id}
      /\ item \in Listings
      /\ \A l \in Listings : Contents(u)'[l] = IF l = item THEN w.quantity ELSE Contents(u)[l]
  BY <1>2, <1>4, FlushWrites
<1>6. /\ w.line \in DOMAIN req[r].lines /\ w.loaded = Contents(u)[item]
      /\ w.quantity = Asked(r, w.line) + IF req[r].op = "update" THEN 0 ELSE Contents(u)[item]
      /\ w.line \notin req[r].ins /\ \A v \in req[r].upd : v.line = w.line => v = w
  <2>1. w.loaded = rows[w.id].quantity /\ w.id \in RowsIn(u, {item})
    BY <1>2 DEF Prepared
  <2>2. Tallied(u, item)
    BY <1>5, ContentsAre DEF EffectInv
  <2>3. w.loaded = Contents(u)[item]
    BY <2>1, <2>2 DEF Tallied
  <2> QED BY <1>1, <1>2, <2>3 DEF Prepared, Lined
<1> HIDE DEF item
<1>7. CASE req[r].op = "bulk"
  <2>1. LinesApart(req[r].lines)
    BY <1>1, <1>7, LinesOf
  <2>2. /\ req'[r].pc = "flush" /\ req'[r].op = "bulk" /\ req'[r].lines = req[r].lines
        /\ req'[r].scope = req[r].scope /\ req'[r].upd = req[r].upd \ {w}
        /\ req'[r].ins = req[r].ins
    BY <1>1, <1>4, <1>7 DEF Request
  <2>3. ASSUME NEW i \in DOMAIN req[r].lines, i # w.line PROVE ItemOf(r, i) # item
    BY <1>6, <2>1, <2>3 DEF LinesApart, ItemOf, item
  <2>4. Contents(u)[item] = before[u][item]
    <3>1. \/ Contents(u)[item] = before[u][item]
          \/ \A v \in req[r].upd : v.line # w.line
      BY <1>1, <1>2, <1>6, <1>7 DEF Written1, item
    <3> QED BY <3>1
  <2>5. Written1(r, u)'
    <3>1. ASSUME NEW l \in Listings, \A i \in DOMAIN req[r].lines : ItemOf(r, i) # l
          PROVE  Contents(u)'[l] = before[u][l]
      BY <1>1, <1>2, <1>5, <1>6, <1>7, <3>1 DEF Written1, item
    <3>2. ASSUME NEW i \in DOMAIN req[r].lines
          PROVE  \/ Contents(u)'[ItemOf(r, i)] = before[u][ItemOf(r, i)]
                 \/ /\ Contents(u)'[ItemOf(r, i)] = before[u][ItemOf(r, i)] + Asked(r, i)
                    /\ i \notin req[r].ins /\ \A v \in req[r].upd \ {w} : v.line # i
      <4>1. CASE i = w.line
        <5>1. Contents(u)'[item] = Asked(r, i) + before[u][item]
          BY <1>5, <1>6, <1>7, <2>4, <4>1
        <5>2. Asked(r, i) \in Int /\ before[u][item] \in Int
          BY <1>1, <1>5
        <5>3. Contents(u)'[item] = before[u][item] + Asked(r, i)
          BY <5>1, <5>2
        <5> QED BY <1>6, <4>1, <5>3 DEF item
      <4>2. CASE i # w.line
        <5>1. Contents(u)'[ItemOf(r, i)] = Contents(u)[ItemOf(r, i)]
          BY <1>1, <1>5, <2>3, <4>2
        <5> QED BY <1>1, <1>2, <1>7, <5>1 DEF Written1
      <4> QED BY <4>1, <4>2
    <3>3. before'[u] = before[u]
      OBVIOUS
    <3> QED BY <2>2, <3>1, <3>2, <3>3 DEF Written1, ItemOf, Asked
  <2>6. Prepared(r, u)'
    <3>1. ASSUME NEW v \in req[r].upd, v # w
          PROVE  v.id \in RowsIn(u, {ItemOf(r, v.line)})' /\ rows'[v.id] = rows[v.id]
      <4>1. v.id \in RowsIn(u, {ItemOf(r, v.line)})
        BY <1>2 DEF Prepared
      <4>2. v.line \in DOMAIN req[r].lines /\ v.line # w.line
        BY <1>1, <1>6, <3>1 DEF Lined
      <4>3. ItemOf(r, v.line) # item
        BY <2>3, <4>2
      <4>4. v.id \in RowId /\ v.id # w.id
        BY <1>5, <4>1, <4>3 DEF RowsIn, RowsOf, Live
      <4>5. PICK l : l = ItemOf(r, v.line)
        OBVIOUS
      <4>6. ItemOf(r, v.line)' = l
        BY <2>2, <4>5 DEF ItemOf
      <4>7. v.id \in RowsIn(u, {l})'
        BY <1>5, <4>1, <4>5
      <4> QED BY <1>5, <4>4, <4>6, <4>7
    <3>2. \A v \in req'[r].upd : v \in req[r].upd /\ v # w
      BY <2>2
    <3> QED BY <1>1, <1>2, <1>7, <2>2, <3>1, <3>2 DEF Prepared, ItemOf, Asked
  <2>7. OrderOf(r)' = OrderOf(r)
    BY <1>7, <2>2 DEF OrderOf
  <2> QED BY <1>1, <1>2, <2>2, <2>5, <2>6, <2>7 DEF Served, Effect, Busy, Over
<1>8. CASE req[r].op # "bulk"
  <2>1. Effect(r)' /\ ~Busy(r)'
    BY <1>1, <1>4, <1>8, Answered
  <2>2. Contents(u) = before[u] /\ w.line = 1
    BY <1>2, <1>8 DEF Written1, Prepared
  <2>3. CASE req[r].op = "add"
    <3>1. LinesApart(req[r].lines) /\ OrderOf(r).op = "add" /\ OrderOf(r).lines = req[r].lines
      BY <1>1, <2>3, LinesOf DEF OrderOf
    <3>2. DOMAIN req[r].lines = {1}
      BY <1>1, <2>3 DEF Placed, Busy, Over
    <3>3. /\ Asked(r, 1) \in Int /\ before[u][item] \in Int
          /\ Contents(u)'[item] = Asked(r, 1) + before[u][item]
      BY <1>1, <1>5, <1>6, <2>2, <2>3
    <3>4. Contents(u)'[item] = before[u][item] + Asked(r, 1)
      BY <3>3
    <3>5. Contents(u)' \in Abstract!Outcomes(OrderOf(r), before[u])
      <4>1. \A i \in DOMAIN req[r].lines : i = w.line
        BY <2>2, <3>2
      <4>2. \A l \in Listings : l # item => Contents(u)'[l] = before[u][l]
        BY <1>5, <2>2
      <4> QED BY <1>1, <1>6, <2>2, <2>3, <3>1, <3>4, <4>1, <4>2, LinesDone DEF item
    <3> QED BY <2>1, <3>5 DEF Served
  <2>4. CASE req[r].op = "update"
    <3>1. Asked(r, 1) \in Int
      BY <1>1, <1>6, <2>2
    <3>2. w.quantity = Asked(r, 1)
      BY <1>6, <2>2, <2>4, <3>1
    <3>3. Contents(u)' = [before[u] EXCEPT ![item] = Asked(r, 1)]
      BY <1>1, <1>5, <2>2, <3>2
    <3>4. OrderOf(r).op = "update" /\ OrderOf(r).lines = req[r].lines
      BY <2>4 DEF OrderOf
    <3> QED BY <2>1, <2>2, <3>3, <3>4, UpdateOutcome DEF Served, item, ItemOf, Asked
  <2> QED BY <1>3, <1>8, <2>3, <2>4
<1> QED BY <1>7, <1>8

\* The new lines become rows.
LEMMA InsertServed ==
  ASSUME EffectInv, SerialInv', ~DbFaults, NEW r \in Requests, InsertItems(r),
         before' = before, NEW u \in Users, u = req[r].user
  PROVE  Served(r, u)
<1>0. Continue(r)
  BY DEF Continue
<1>1. /\ req[r] \in Request /\ req \in [Requests -> Request]
      /\ Placed(r) /\ Lined(r) /\ Owned(r) /\ Placing(r) /\ Effect(r) /\ Busy(r) /\ CartInv
      /\ SerialInv /\ req[r].pc = "insert"
      /\ Contents(u) \in [Listings -> Int] /\ Contents(u)' \in [Listings -> Int]
      /\ before[u] \in [Listings -> Int] /\ req[r].lines \in Seq(Line)
      /\ \A i \in DOMAIN req[r].lines : ItemOf(r, i) \in Listings /\ Asked(r, i) \in Int
  BY <1>0, Stepping, ContinuesBusy DEF Sound, InsertItems, EffectInv
<1>2. /\ Written1(r, u) /\ req[r].op \in {"add", "bulk"} /\ req[r].cart # NoCart
      /\ carts[req[r].cart] = u
  BY <1>1 DEF Effect, Placed, Request, Ops, Owned
<1>3. /\ rows' = [id \in RowId |->
                   IF id[1] = r /\ id[2] \in req[r].ins
                   THEN [cart |-> req[r].cart, listing |-> req[r].lines[id[2]].listing,
                         quantity |-> req[r].lines[id[2]].quantity]
                   ELSE rows[id]]
      /\ carts' = carts /\ \E a : Answer(r, a)
  BY DEF InsertItems, Faults
<1>4. LinesApart(req[r].lines) /\ OrderOf(r).op = req[r].op /\ OrderOf(r).lines = req[r].lines
  BY <1>1, <1>2, LinesOf DEF OrderOf
<1>5. \A l \in Listings : Tallied(u, l) /\ Tallied(u, l)'
  BY ContentsAre, ContentsAreNext DEF EffectInv
<1>6. ASSUME NEW id \in RowId, id[1] = r PROVE rows[id] = NoRow
  BY <1>1, <1>6 DEF CartInv, RowSound
<1>7. ASSUME NEW i \in req[r].ins
      PROVE  /\ i \in DOMAIN req[r].lines /\ Contents(u)[ItemOf(r, i)] = 0
             /\ Contents(u)'[ItemOf(r, i)] = Asked(r, i)
  <2>1. i \in DOMAIN req[r].lines /\ ItemOf(r, i) \in Listings /\ i \in 1..MaxLines
    BY <1>1 DEF Lined, Request
  <2>2. RowsInCart(req[r].cart, ItemOf(r, i)) = {}
    BY <1>1 DEF Placing, ItemOf
  <2>3. ASSUME NEW id \in RowsIn(u, {ItemOf(r, i)}) PROVE FALSE
    <3>1. /\ id \in RowId /\ rows[id] # NoRow /\ rows[id] \in Row
          /\ carts[rows[id].cart] = u /\ rows[id].listing = ItemOf(r, i)
      BY <1>1, <2>3 DEF RowsIn, RowsOf, Live, CartInv, TypeOK
    <3>2. rows[id].cart \in CartsOf(u) /\ req[r].cart \in CartsOf(u)
      BY <1>1, <1>2, <3>1 DEF CartsOf, Row, Request
    <3>3. rows[id].cart = req[r].cart
      BY <1>1, <3>2, OneOfEach
    <3> QED BY <2>2, <3>1, <3>3 DEF RowsInCart, Live
  <2>4. <<r, i>> \in RowId /\ <<r, i>>[1] = r /\ <<r, i>>[2] = i
    BY <2>1 DEF RowId
  <2>5. rows'[<<r, i>>] = [cart |-> req[r].cart, listing |-> ItemOf(r, i),
                           quantity |-> Asked(r, i)]
    BY <1>3, <2>4 DEF ItemOf, Asked
  <2>6. rows'[<<r, i>>] # NoRow
    <3>1. req[r].cart \in Requests
      BY <1>1, <1>2 DEF Request
    <3>2. [cart |-> req[r].cart, listing |-> ItemOf(r, i), quantity |-> Asked(r, i)]
            \in [cart: Requests, listing: Listings, quantity: Int]
      BY <1>1, <2>1, <3>1
    <3> QED BY <2>5, <3>2, CartAssumption
  <2>7. PICK l \in Listings : l = ItemOf(r, i)
    BY <2>1
  <2>8. Contents(u)'[l] = rows'[<<r, i>>].quantity
    <3>1. /\ rows'[<<r, i>>].listing = l
          /\ carts'[rows'[<<r, i>>].cart] = u
      <4>1. carts' = carts
        BY <1>3
      <4>2. rows'[<<r, i>>].listing = l /\ rows'[<<r, i>>].cart = req[r].cart
        BY <2>5, <2>7
      <4> QED BY <1>2, <4>1, <4>2
    <3>2. <<r, i>> \in RowsIn(u, {l})'
      BY <2>4, <2>6, <3>1 DEF RowsIn, RowsOf, Live
    <3> QED BY <1>5, <2>7, <3>2 DEF Tallied
  <2>9. Contents(u)[ItemOf(r, i)] = 0
    BY <1>5, <2>1, <2>3 DEF Tallied
  <2> QED BY <2>1, <2>5, <2>7, <2>8, <2>9
<1>8. ASSUME NEW l \in Listings, \A i \in req[r].ins : ItemOf(r, i) # l
      PROVE  Contents(u)'[l] = Contents(u)[l]
  <2>1. ASSUME NEW id \in RowId
        PROVE  \/ rows'[id] = rows[id]
               \/ /\ rows[id] = NoRow
                  /\ rows'[id].listing # l
    <3>1. CASE id[1] = r /\ id[2] \in req[r].ins
      <4>1. rows'[id] = [cart |-> req[r].cart, listing |-> req[r].lines[id[2]].listing,
                         quantity |-> req[r].lines[id[2]].quantity]
        BY <1>3, <3>1
      <4>2. rows'[id].listing = ItemOf(r, id[2])
        BY <4>1 DEF ItemOf
      <4> QED BY <1>6, <1>8, <3>1, <4>2
    <3>2. CASE ~(id[1] = r /\ id[2] \in req[r].ins)
      BY <1>3, <3>2
    <3> QED BY <3>1, <3>2
  <2>2. RowsIn(u, {l})' = RowsIn(u, {l})
    BY <1>3, <2>1 DEF RowsIn, RowsOf, Live
  <2>3. CASE RowsIn(u, {l}) = {}
    BY <1>5, <2>2, <2>3 DEF Tallied
  <2>4. ASSUME NEW id \in RowsIn(u, {l}) PROVE Contents(u)'[l] = Contents(u)[l]
    <3>1. rows'[id] = rows[id]
      BY <2>1, <2>4 DEF RowsIn, RowsOf, Live
    <3> QED BY <1>5, <2>2, <2>4, <3>1 DEF Tallied
  <2> QED BY <2>3, <2>4
<1>9. \A l \in Listings :
        (\A i \in DOMAIN req[r].lines : ItemOf(r, i) # l) => Contents(u)'[l] = before[u][l]
  <2>1. ASSUME NEW l \in Listings, \A i \in DOMAIN req[r].lines : ItemOf(r, i) # l
        PROVE  Contents(u)'[l] = before[u][l]
    <3>1. Contents(u)'[l] = Contents(u)[l]
      BY <1>7, <1>8, <2>1
    <3> QED BY <1>1, <1>2, <2>1, <3>1 DEF Written1
  <2> QED BY <2>1
<1>10. ASSUME NEW i \in DOMAIN req[r].lines
       PROVE  LET l == ItemOf(r, i)
              IN  \/ Contents(u)'[l] = before[u][l]
                  \/ Contents(u)'[l] = before[u][l] + Asked(r, i)
  <2> DEFINE l == ItemOf(r, i)
  <2>0. l \in Listings /\ Asked(r, i) \in Int /\ before[u][l] \in Int
    BY <1>1
  <2>1. CASE i \in req[r].ins
    <3>1. Contents(u)[l] = before[u][l]
      BY <1>1, <1>2, <2>0, <2>1 DEF Written1
    <3>2. before[u][l] = 0 /\ Contents(u)'[l] = Asked(r, i)
      BY <1>7, <2>1, <3>1
    <3>3. before[u][l] + Asked(r, i) = Asked(r, i)
      BY <2>0, <3>2
    <3> QED BY <3>2, <3>3
  <2>2. CASE i \notin req[r].ins
    <3>1. \A j \in req[r].ins : ItemOf(r, j) # l
      BY <1>4, <1>7, <2>2 DEF LinesApart, ItemOf
    <3>2. Contents(u)'[l] = Contents(u)[l]
      BY <1>8, <2>0, <3>1
    <3>3. Contents(u)[l] = before[u][l] \/ Contents(u)[l] = before[u][l] + Asked(r, i)
      BY <1>1, <1>2, <2>0 DEF Written1
    <3> QED BY <3>2, <3>3
  <2> QED BY <2>1, <2>2
<1>11. Contents(u)' \in Abstract!Outcomes(OrderOf(r), before[u])
  BY <1>1, <1>2, <1>4, <1>9, <1>10, LinesDone
<1>12. Effect(r)' /\ ~Busy(r)'
  BY <1>1, <1>3, Answered
<1> QED BY <1>11, <1>12 DEF Served

\* The rows read are deleted.
LEMMA DeleteServed ==
  ASSUME EffectInv, SerialInv', ~DbFaults, NEW r \in Requests, Delete(r),
         before' = before, NEW u \in Users, u = req[r].user
  PROVE  Served(r, u)
<1>0. Continue(r)
  BY DEF Continue
<1>1. /\ Effect(r) /\ Busy(r) /\ CartInv /\ req[r].pc = "delete"
      /\ Contents(u) \in [Listings -> Int] /\ Contents(u)' \in [Listings -> Int]
  BY <1>0, Stepping, ContinuesBusy DEF Delete
<1>2. /\ req[r].op \in {"remove", "clear"} /\ req[r].del = RowsIn(u, req[r].scope)
      /\ Contents(u) = before[u]
  BY <1>1 DEF Effect, Prepared, Written1
<1>3. /\ rows' = [id \in RowId |-> IF id \in req[r].del THEN NoRow ELSE rows[id]]
      /\ carts' = carts /\ Answer(r, "ok")
  BY DEF Delete, Faults
<1>4. \A l \in Listings : Tallied(u, l) /\ Tallied(u, l)'
  BY ContentsAre, ContentsAreNext DEF EffectInv
<1>5. ASSUME NEW l \in Listings, l \in req[r].scope PROVE Contents(u)'[l] = 0
  <2>1. ASSUME NEW id \in RowsIn(u, {l})' PROVE FALSE
    <3>1. id \in RowId /\ rows'[id] # NoRow /\ carts[rows'[id].cart] = u /\ rows'[id].listing = l
      BY <1>3, <2>1 DEF RowsIn, RowsOf, Live
    <3>2. id \notin req[r].del /\ rows'[id] = rows[id]
      BY <1>3, <3>1
    <3> QED BY <1>2, <1>5, <3>1, <3>2 DEF RowsIn, RowsOf, Live
  <2> QED BY <1>4, <2>1 DEF Tallied
<1>6. ASSUME NEW l \in Listings, l \notin req[r].scope PROVE Contents(u)'[l] = Contents(u)[l]
  <2>1. ASSUME NEW id \in RowId, rows[id].listing = l
        PROVE  rows'[id] = rows[id]
    BY <1>2, <1>3, <1>6, <2>1 DEF RowsIn
  <2>2. ASSUME NEW id \in RowId, rows'[id] # NoRow PROVE rows'[id] = rows[id]
    BY <1>3, <2>2
  <2>3. RowsIn(u, {l})' = RowsIn(u, {l})
    BY <1>3, <2>1, <2>2 DEF RowsIn, RowsOf, Live
  <2>4. CASE RowsIn(u, {l}) = {}
    BY <1>4, <2>3, <2>4 DEF Tallied
  <2>5. ASSUME NEW id \in RowsIn(u, {l}) PROVE Contents(u)'[l] = Contents(u)[l]
    <3>1. rows'[id] = rows[id]
      BY <2>1, <2>5 DEF RowsIn, RowsOf, Live
    <3> QED BY <1>4, <2>3, <2>5, <3>1 DEF Tallied
  <2> QED BY <2>4, <2>5
<1>7. Contents(u)' \in Abstract!Outcomes(OrderOf(r), before[u])
  <2>1. OrderOf(r).op = req[r].op /\ OrderOf(r).scope = req[r].scope
    BY DEF OrderOf
  <2>2. \A l \in Listings : Contents(u)'[l] = IF l \in req[r].scope THEN 0 ELSE before[u][l]
    BY <1>2, <1>5, <1>6
  <2> QED BY <1>1, <1>2, <2>1, <2>2, ClearOutcome
<1>8. Effect(r)' /\ ~Busy(r)'
  BY <1>1, <1>3, Answered
<1> QED BY <1>7, <1>8 DEF Served

\* Whatever step a request takes, it goes on towards what it was asked, or has done it.
LEMMA ContinueServed ==
  ASSUME EffectInv, SerialInv', ~DbFaults, NEW r \in Requests, Continue(r),
         before' = before, NEW u \in Users, u = req[r].user
  PROVE  Served(r, u)
BY FindItemServed, MapItemsServed, ReadServed, FlushServed, InsertServed, DeleteServed
DEF Continue

-----------------------------------------------------------------------------
(* The invariant and the refinement *)

\* Nobody is served, and the carts hold what they held.
LEMMA EffectInvInit == SerialInit => EffectInv
<1> SUFFICES ASSUME SerialInit PROVE EffectInv
  OBVIOUS
<1>1. SerialInv
  BY SerialInvInit
<1>2. \A u \in Users, l \in Listings : Contents(u)[l] \in Int
  BY <1>1, ContentsAre DEF Tallied
<1>3. \A u \in Users : Contents(u) \in [Listings -> Int]
  BY <1>2 DEF Contents
<1>4. before \in [Users -> [Listings -> Int]]
  BY <1>3 DEF SerialInit
<1>5. ASSUME NEW r \in Requests PROVE Effect(r)
  <2>1. \E u \in Users : req[r] = Idle(u)
    BY DEF SerialInit, Init
  <2> QED BY <2>1 DEF Idle, Effect, Busy, Over
<1> QED BY <1>1, <1>4, <1>5 DEF EffectInv

\* A step that touches neither carts nor requests changes nothing that matters.
LEMMA Untouched ==
  ASSUME SerialInv, SerialInv', UNCHANGED <<carts, rows, req, before>>
  PROVE  /\ \A u \in Users : Contents(u)' = Contents(u)
         /\ \A u \in Users : \A scope : RowsIn(u, scope)' = RowsIn(u, scope)
<1>1. \A u \in Users : RowsOf(u)' = RowsOf(u)
  BY DEF RowsOf, Live
<1> QED BY <1>1, ContentsSame

\* Every step keeps the invariant.
LEMMA EffectInvNext ==
  ASSUME ~DbFaults, \A b \in BulkOrders : LinesApart(b), EffectInv,
         [SerialNext]_<<vars, before>>
  PROVE  EffectInv'
<1>1. SerialInv /\ SerialInv'
  BY SerialInvNext DEF EffectInv
<1>2. ASSUME NEW r \in Requests, SerialStart(r) \/ (Continue(r) /\ UNCHANGED before)
      PROVE  EffectInv'
  <2>1. Start(r) \/ Continue(r)
    BY <1>2 DEF SerialStart
  <2>2. PICK u \in Users : u = req[r].user
    BY <1>1, <2>1, Stepping
  <2>3. Contents(u) \in [Listings -> Int]
    BY <1>1, <2>1, <2>2, Stepping
  <2>4. before' \in [Users -> [Listings -> Int]]
    BY <1>2, <2>2, <2>3 DEF SerialStart, EffectInv
  <2>5. Effect(r)'
    BY <1>1, <1>2, <2>2, StartStep, ContinueServed DEF Served
  <2>6. \A q \in Requests \ {r} : Effect(q)'
    BY <1>1, <1>2, EffectOthers
  <2> QED BY <1>1, <2>4, <2>5, <2>6 DEF EffectInv
<1>3. CASE UNCHANGED <<carts, rows, req, before>>
  <2>1. ASSUME NEW r \in Requests PROVE Effect(r)'
    <3>1. PICK u \in Users : u = req[r].user
      BY <1>1 DEF SerialInv, CartInv, TypeOK, Request
    <3>2. Contents(u)' = Contents(u) /\ \A scope : RowsIn(u, scope)' = RowsIn(u, scope)
      BY <1>1, <1>3, Untouched
    <3>3. Effect(r)
      BY DEF EffectInv
    <3>4. Written1(r, u) => Written1(r, u)'
      BY <1>3, <3>2 DEF Written1, ItemOf, Asked
    <3>5. Prepared(r, u) => Prepared(r, u)'
      <4>1. ASSUME NEW w \in req[r].upd, w.id \in RowsIn(u, {ItemOf(r, w.line)})
            PROVE  w.id \in RowsIn(u, {ItemOf(r, w.line)})'
        BY <1>3, <3>2, <4>1 DEF ItemOf
      <4> QED BY <1>3, <3>2, <4>1 DEF Prepared, ItemOf, Asked
    <3> QED BY <1>3, <3>1, <3>3, <3>4, <3>5 DEF Effect, Busy, OrderOf
  <2> QED BY <1>1, <1>3, <2>1 DEF EffectInv
<1> QED BY <1>2, <1>3 DEF SerialNext, SellerSetsStock, vars

\* The one request of a user that is under way.
LEMMA ActiveIs ==
  SerialInv =>
    \A r \in Requests : Busy(r) => Active(req[r].user) = {r}
BY DEF SerialInv, OneBusy, Active, Busy, Over

\* ... in the next state as well.
LEMMA ActiveIsNext ==
  SerialInv' =>
    (\A r \in Requests : Busy(r) => Active(req[r].user) = {r})'
BY ActiveIs, PTL

\* What AbstractCart sees of user u: her cart as it was when the request she waits for began,
\* and that request.
Seen(u)   == IF Active(u) = {} THEN Contents(u) ELSE before[u]
Waited(u) == IF Active(u) = {} THEN NoOrder ELSE OrderOf(CHOOSE r \in Active(u) : TRUE)

\* A user whose requests a step leaves alone is seen to do nothing.
LEMMA SeenSame ==
  ASSUME NEW u \in Users,
         \A q \in Requests : req[q].user = u \/ req'[q].user = u => req'[q] = req[q],
         Contents(u)' = Contents(u), Active(u) # {} => before'[u] = before[u]
  PROVE  Seen(u)' = Seen(u) /\ Waited(u)' = Waited(u)
<1>1. Active(u)' = Active(u)
  BY DEF Active
<1>2. CASE Active(u) = {}
  BY <1>1, <1>2 DEF Seen, Waited
<1>3. CASE Active(u) # {}
  <2>1. PICK q : q = CHOOSE r \in Active(u) : TRUE
    OBVIOUS
  <2>2. q \in Active(u)
    BY <1>3, <2>1
  <2>3. OrderOf(q)' = OrderOf(q)
    BY <2>2 DEF OrderOf, Active
  <2>4. q = CHOOSE r \in Active(u)' : TRUE
    BY <1>1, <2>1
  <2>5. Waited(u) = OrderOf(q) /\ Waited(u)' = OrderOf(q)'
    BY <1>1, <1>3, <2>1, <2>4 DEF Waited
  <2> QED BY <1>1, <1>3, <2>3, <2>5 DEF Seen
<1> QED BY <1>2, <1>3

\* What is seen of the user who takes a step: she submits a request, it is completed, or
\* nothing.
LEMMA SeenStep ==
  ASSUME EffectInv, EffectInv', ~DbFaults, NEW r \in Requests,
         SerialStart(r) \/ (Continue(r) /\ UNCHANGED before), NEW u \in Users, u = req[r].user
  PROVE  \/ Seen(u)' = Seen(u) /\ Waited(u)' = Waited(u)
         \/ /\ Waited(u) = NoOrder /\ Waited(u)' \in Orders /\ Seen(u)' = Seen(u)
         \/ /\ Waited(u) # NoOrder /\ Waited(u)' = NoOrder
            /\ Seen(u)' \in Abstract!Outcomes(Waited(u), Seen(u))
<1>0. Start(r) \/ Continue(r)
  BY DEF SerialStart
<1>1. /\ SerialInv /\ SerialInv' /\ Effect(r) /\ req'[r].user = u
      /\ \A q \in Requests \ {r} : req'[q] = req[q]
  BY <1>0, Stepping, OneActs DEF EffectInv, SerialInv
<1>2. Busy(r) => Active(u) = {r} /\ Waited(u) = OrderOf(r) /\ Seen(u) = before[u]
  BY <1>1, ActiveIs DEF Seen, Waited
<1>3. Busy(r)' => Active(u)' = {r} /\ Waited(u)' = OrderOf(r)' /\ Seen(u)' = before'[u]
  <2>1. Busy(r)' => Active(u)' = {r}
    BY <1>1, ActiveIsNext
  <2> QED BY <2>1 DEF Seen, Waited
<1>4. ASSUME Active(u) \subseteq {r}, ~Busy(r)'
      PROVE  Active(u)' = {} /\ Waited(u)' = NoOrder /\ Seen(u)' = Contents(u)'
  <2>1. Active(u)' = {}
    BY <1>1, <1>4 DEF Active, Busy, Over
  <2> QED BY <2>1 DEF Seen, Waited
<1>5. ASSUME NEW q \in Requests, Busy(q), Effect(q) PROVE OrderOf(q) # NoOrder
  BY <1>5, SerialAssumption DEF Effect
<1>6. CASE SerialStart(r)
  <2>1. Active(u) = {} /\ Seen(u) = Contents(u) /\ Waited(u) = NoOrder
    BY <1>6 DEF SerialStart, Seen, Waited
  <2>2. Effect(r)' /\ rows' = rows
    BY <1>1, <1>6, StartStep
  <2>3. Contents(u)' = Contents(u) /\ before'[u] = Contents(u)
    BY <1>0, <1>1, <1>6, <2>2, ContentsKept DEF SerialStart, EffectInv
  <2>4. Busy(r)' => OrderOf(r)' \in Orders
    BY <2>2 DEF Effect
  <2> QED BY <1>3, <1>4, <2>1, <2>3, <2>4
<1>7. CASE Continue(r) /\ UNCHANGED before
  <2>1. Served(r, u)
    BY <1>1, <1>7, ContinueServed
  <2>2. Busy(r)
    BY <1>7, ContinuesBusy
  <2> QED BY <1>1, <1>2, <1>3, <1>4, <1>5, <1>7, <2>1, <2>2 DEF Served
<1> QED BY <1>6, <1>7

\* The handlers of cart.service.ts, many database calls each and interleaved with those of
\* other users, do what AbstractCart does in one step per request, provided that every user
\* waits for her answers, the database answers and no bulk request names a listing twice.
THEOREM HandlersImplement ==
  ASSUME ~DbFaults,
         \A b \in BulkOrders : \A i, j \in DOMAIN b : i # j => b[i].listing # b[j].listing
  PROVE  SerialSpec => ImplementsAbstractCart
<1> DEFINE contents == [u \in Users |-> Seen(u)]
           order == [u \in Users |-> Waited(u)]
<1>0. \A b \in BulkOrders : LinesApart(b)
  BY DEF LinesApart
<1>1. EffectInv /\ [SerialNext]_<<vars, before>> => EffectInv'
  BY <1>0, EffectInvNext
<1>2. SerialInit => Abstract!Init
  <2> SUFFICES ASSUME SerialInit PROVE Abstract!Init
    OBVIOUS
  <2>1. ASSUME NEW u \in Users PROVE Active(u) = {} /\ Contents(u) = Abstract!Empty
    <3>1. \A r \in Requests : req[r].pc = "idle"
      BY DEF SerialInit, Init, Idle
    <3>2. \A l \in Listings : RowsIn(u, {l}) = {}
      BY DEF SerialInit, Init, RowsIn, RowsOf, Live
    <3>3. \A l \in Listings : Contents(u)[l] = 0
      BY <3>2, SerialInvInit, ContentsAre DEF Tallied
    <3> QED BY <3>1, <3>3 DEF Active, Contents, Abstract!Empty
  <2> QED BY <2>1 DEF Abstract!Init
<1>3. ASSUME EffectInv, EffectInv', [SerialNext]_<<vars, before>>
      PROVE  [Abstract!Next]_<<contents, order>>
  <2> HIDE DEF contents, order
  <2>1. SerialInv /\ SerialInv'
    BY <1>3 DEF EffectInv
  <2>2. ASSUME NEW r \in Requests, SerialStart(r) \/ (Continue(r) /\ UNCHANGED before)
        PROVE  [Abstract!Next]_<<contents, order>>
    <3>0. Start(r) \/ Continue(r)
      BY <2>2 DEF SerialStart
    <3>1. PICK u \in Users : u = req[r].user
      BY <1>3, <2>1, <3>0, Stepping
    <3>2. ASSUME NEW v \in Users \ {u} PROVE Seen(v)' = Seen(v) /\ Waited(v)' = Waited(v)
      <4>1. Contents(v)' = Contents(v)
        BY <2>1, <3>0, <3>1, ContentsKept
      <4>2. \A q \in Requests : req[q].user = v \/ req'[q].user = v => req'[q] = req[q]
        BY <2>1, <3>0, <3>1, OneActs DEF SerialInv
      <4>3. before'[v] = before[v]
        BY <1>3, <2>2, <3>1 DEF SerialStart, EffectInv
      <4> QED BY <4>1, <4>2, <4>3, SeenSame
    <3>3. /\ contents' = [contents EXCEPT ![u] = Seen(u)']
          /\ order' = [order EXCEPT ![u] = Waited(u)']
          /\ contents[u] = Seen(u) /\ order[u] = Waited(u)
      BY <3>2 DEF contents, order
    <3>4. CASE Seen(u)' = Seen(u) /\ Waited(u)' = Waited(u)
      BY <3>2, <3>4 DEF contents, order
    <3>5. CASE Waited(u) = NoOrder /\ Waited(u)' \in Orders /\ Seen(u)' = Seen(u)
      <4>1. contents' = contents
        BY <3>2, <3>5 DEF contents
      <4>2. Abstract!Submit(u, Waited(u)')
        BY <3>3, <3>5, <4>1 DEF Abstract!Submit, contents, order, Seen, Waited
      <4> QED BY <3>5, <4>2 DEF Abstract!Next
    <3>6. CASE /\ Waited(u) # NoOrder /\ Waited(u)' = NoOrder
               /\ Seen(u)' \in Abstract!Outcomes(Waited(u), Seen(u))
      <4>1. Abstract!Complete(u)
        BY <3>3, <3>6 DEF Abstract!Complete, contents, order, Seen, Waited
      <4> QED BY <4>1 DEF Abstract!Next
    <3> QED BY <1>3, <2>2, <3>1, <3>4, <3>5, <3>6, SeenStep
  <2>3. CASE UNCHANGED <<carts, rows, req, before>>
    <3>1. ASSUME NEW v \in Users PROVE Seen(v)' = Seen(v) /\ Waited(v)' = Waited(v)
      BY <2>1, <2>3, Untouched, SeenSame
    <3> QED BY <3>1 DEF contents, order
  <2> QED BY <1>3, <2>2, <2>3 DEF SerialNext, SellerSetsStock, vars
<1>4. [Abstract!Next]_<<contents, order>> =>
        [Abstract!Next]_<<[u \in Users |-> IF Active(u) = {} THEN Contents(u) ELSE before[u]],
                         [u \in Users |-> IF Active(u) = {} THEN NoOrder
                                          ELSE OrderOf(CHOOSE r \in Active(u) : TRUE)]>>
  BY DEF Seen, Waited
<1> HIDE DEF contents, order
<1> QED
  BY <1>1, <1>2, <1>3, <1>4, EffectInvInit, PTL
  DEF SerialSpec, ImplementsAbstractCart, Abstract!Spec

=============================================================================
