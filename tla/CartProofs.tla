------------------------------ MODULE CartProofs ------------------------------
(***************************************************************************)
(* Proofs about Cart for any users, listings, shops and requests, with and *)
(* without database faults.  The invariants follow from one inductive      *)
(* invariant, CartInv: what the local variables of a request mean at each  *)
(* of its steps, although other requests run between the steps.            *)
(***************************************************************************)
EXTENDS Cart, TLAPS

Over == {"idle", "done"}

\* Where a request stands says what it holds.
Placed(r) ==
  /\ req[r].answer # "none" => req[r].pc = "done"
  /\ req[r].pc = "idle" =>
       req[r].op = "add" /\ req[r].upd = {} /\ req[r].ins = {} /\ req[r].del = {}
  /\ req[r].op \in {"remove", "clear"} => req[r].pc \in {"findRows", "delete", "done"}
  /\ req[r].op = "update" =>
       /\ req[r].pc \in {"fetchListings", "flush", "done"}
       /\ req[r].pc \in {"fetchListings", "flush"} => req[r].upd # {}
       /\ req[r].pc = "fetchListings" =>
            Len(req[r].lines) = 1 /\ \A w \in req[r].upd : w.quantity = req[r].lines[1].quantity
  /\ req[r].pc = "findItem" => req[r].op = "add"
  /\ req[r].del # {} => req[r].op \in {"remove", "clear"}
  /\ req[r].op = "add" /\ req[r].pc \notin Over => Len(req[r].lines) = 1
  /\ \/ req[r].pc \in {"findItem", "insert"}
     \/ req[r].op = "bulk" /\ req[r].pc \in {"fetchListings", "findRows"}
     \/ req[r].op \in {"add", "bulk"} /\ req[r].pc = "flush"
     => req[r].cart # NoCart

\* Lines refer to the body of the request.
Lined(r) ==
  /\ Len(req[r].lines) <= MaxLines
  /\ req[r].ins \subseteq DOMAIN req[r].lines
  /\ \A w \in req[r].upd : w.line \in DOMAIN req[r].lines

\* A stock that was read was offered at some time, and so was a quantity validated with it.
Offered(r) ==
  /\ \A l \in Listings : req[r].seen[l] <= peak[l]
  /\ req[r].op = "add" /\ req[r].pc \notin Over =>
       req[r].lines[1].quantity <= peak[req[r].lines[1].listing]
  /\ \A i \in req[r].ins : req[r].lines[i].quantity <= peak[req[r].lines[i].listing]
  /\ req[r].pc = "flush" =>
       \A w \in req[r].upd : w.quantity <= peak[req[r].lines[w.line].listing]

\* A row a request has read was inserted by a request that is over, so nobody inserts it
\* again; if it still exists its owner has not changed.
Mine(r, id) ==
  /\ req[id[1]].pc = "done"
  /\ rows[id] # NoRow => carts[rows[id].cart] = req[r].user

Owned(r) ==
  /\ req[r].cart # NoCart => carts[req[r].cart] = req[r].user
  /\ \A w \in req[r].upd :
       /\ Mine(r, w.id)
       /\ rows[w.id] # NoRow => rows[w.id].listing = req[r].lines[w.line].listing
  /\ \A id \in req[r].del : Mine(r, id)
  /\ req[r].answer = "ok" => \A id \in req[r].del : rows[id] = NoRow

Sound(r) == Placed(r) /\ Lined(r) /\ Offered(r) /\ Owned(r)

\* A row was inserted by a request that is over, into a cart that is stored.
RowSound(id) ==
  rows[id] # NoRow =>
    /\ req[id[1]].pc = "done"
    /\ carts[rows[id].cart] # NoUser
    /\ rows[id].quantity <= peak[rows[id].listing]

CartInv ==
  /\ TypeOK
  /\ \A l \in Listings : listedQty[l] <= peak[l]
  /\ \A c \in Requests : carts[c] \in {NoUser, req[c].user}
  /\ \A id \in RowId : RowSound(id)
  /\ \A r \in Requests : Sound(r)

-----------------------------------------------------------------------------

\* Nothing is stored and no request has begun.
LEMMA CartInvInit == Init => CartInv
<1> SUFFICES ASSUME Init PROVE CartInv
  OBVIOUS
<1>1. ASSUME NEW u \in Users PROVE Idle(u) \in Request
  BY CartAssumption DEF Idle, Request, Pcs, Ops, NoStock
<1>2. TypeOK
  BY <1>1 DEF Init, TypeOK
<1>3. ASSUME NEW l \in Listings PROVE peak[l] \in Nat /\ listedQty[l] <= peak[l]
  <2>1. peak = listedQty /\ peak[l] \in Stocks /\ Stocks \subseteq Nat
    BY CartAssumption DEF Init, Stock
  <2>2. peak[l] \in Nat /\ listedQty[l] = peak[l]
    BY <2>1
  <2> QED BY <2>2
<1>4. ASSUME NEW r \in Requests PROVE \E u \in Users : req[r] = Idle(u)
  BY DEF Init
<1>5. ASSUME NEW r \in Requests PROVE Sound(r)
  <2>1. PICK u \in Users : req[r] = Idle(u)
    BY <1>4
  <2>2. \A l \in Listings : 0 <= peak[l]
    BY <1>3
  <2>3. Placed(r) /\ Lined(r)
    BY <2>1, CartAssumption DEF Idle, Placed, Lined, Over
  <2>4. Offered(r) /\ Owned(r)
    BY <2>1, <2>2 DEF Idle, NoStock, Offered, Owned, Over
  <2> QED BY <2>3, <2>4 DEF Sound
<1> QED BY <1>2, <1>3, <1>5 DEF Init, CartInv, RowSound

\* A cart that is stored keeps its owner, a new one belongs to the user of its request.
CartsKept ==
  /\ carts' \in [Requests -> Users \cup {NoUser}]
  /\ \A c \in Requests : /\ carts[c] # NoUser => carts'[c] = carts[c]
                         /\ carts'[c] \in {NoUser, req[c].user}

\* A step that changes one request r, and rows that are its own or keep their place, keeps
\* the rest of CartInv: a request that is over stays so, a row that is gone stays so.
LEMMA CartInvStep ==
  ASSUME CartInv, NEW r \in Requests, req[r].pc # "done",
         NEW k \in Request, req' = [req EXCEPT ![r] = k], k.user = req[r].user,
         CartsKept, UNCHANGED <<listedQty, peak>>,
         rows' \in [RowId -> Row \cup {NoRow}],
         \A id \in RowId :
           /\ RowSound(id)'
           /\ rows'[id] = NoRow \/ id[1] = r
              \/ /\ rows[id] # NoRow
                 /\ rows'[id].cart = rows[id].cart /\ rows'[id].listing = rows[id].listing,
         Sound(r)'
  PROVE  CartInv'
<1> USE DEF CartInv
<1>1. TypeOK'
  BY DEF TypeOK, CartsKept
<1>2. \A q \in Requests \ {r} : req'[q] = req[q]
  BY DEF TypeOK
<1>3. \A q \in Requests : /\ req'[q].user = req[q].user
                          /\ req[q].pc = "done" => q # r /\ req'[q].pc = "done"
  BY DEF TypeOK
<1>4. ASSUME NEW q \in Requests \ {r} PROVE Sound(q)'
  <2>1. Sound(q)
    OBVIOUS
  <2>2. Placed(q)' /\ Lined(q)' /\ Offered(q)'
    BY <1>2, <2>1 DEF Sound, Placed, Lined, Offered
  <2>3. /\ \A w \in req[q].upd : w.id \in RowId /\ w.id[1] \in Requests
        /\ \A id \in req[q].del : id \in RowId /\ id[1] \in Requests
        /\ req[q].cart \in Requests \cup {NoCart} /\ req[q].user # NoUser
    BY CartAssumption DEF TypeOK, Request, Write, RowId
  <2>4. ASSUME NEW id \in RowId, id[1] \in Requests, Mine(q, id)
        PROVE  Mine(q, id)' /\ (rows'[id] # NoRow => rows[id] # NoRow
                                   /\ rows'[id].listing = rows[id].listing)
    <3>1. rows[id] # NoRow => rows[id].cart \in Requests
      BY <2>4 DEF TypeOK, Row
    <3> QED BY <1>3, <2>3, <2>4, <3>1 DEF Mine, CartsKept
  <2>5. Owned(q)'
    BY <1>2, <2>1, <2>3, <2>4 DEF Sound, Owned, CartsKept
  <2> QED BY <2>2, <2>5 DEF Sound
<1> QED BY <1>1, <1>3, <1>4 DEF CartsKept

\* A step that changes the local variables of r only.
LEMMA CartInvQuiet ==
  ASSUME CartInv, NEW r \in Requests, req[r].pc # "done",
         NEW k \in Request, req' = [req EXCEPT ![r] = k], k.user = req[r].user,
         UNCHANGED <<carts, rows, listedQty, peak>>,
         Sound(r)'
  PROVE  CartInv'
<1>1. ASSUME NEW id \in RowId PROVE RowSound(id)'
  <2>1. \A q \in Requests : req[q].pc = "done" => req'[q].pc = "done"
    BY DEF CartInv, TypeOK
  <2> QED BY <2>1 DEF CartInv, RowSound, RowId
<1> QED BY <1>1, CartInvStep DEF CartInv, TypeOK, CartsKept

\* What CartInv says of the types of one request.
LEMMA RequestTypes ==
  ASSUME CartInv, NEW r \in Requests
  PROVE  /\ req[r] \in Request /\ req \in [Requests -> Request] /\ Sound(r)
         /\ rows \in [RowId -> Row \cup {NoRow}] /\ listedQty \in Stock /\ peak \in Stock
         /\ NoStock \in [Listings -> Nat] /\ listedQty \in [Listings -> Nat]
         /\ \A l \in Listings : 0 <= peak[l] /\ listedQty[l] <= peak[l]
<1>1. Stocks \subseteq Nat
  BY CartAssumption
<1>2. TypeOK /\ Sound(r) /\ \A l \in Listings : listedQty[l] <= peak[l]
  BY DEF CartInv
<1>3. listedQty \in [Listings -> Nat] /\ peak \in [Listings -> Nat]
  BY <1>1, <1>2 DEF TypeOK, Stock
<1>4. \A l \in Listings : 0 <= peak[l]
  BY <1>3
<1> QED BY <1>2, <1>3, <1>4 DEF TypeOK, NoStock

\* Answering is sound wherever what was to be deleted is, or an error is reported.
LEMMA AnswerSound ==
  ASSUME CartInv, NEW r \in Requests, req[r].pc # "done", NEW a \in {"ok", "err"}, Answer(r, a),
         CartsKept, UNCHANGED <<listedQty, peak>>, rows' \in [RowId -> Row \cup {NoRow}],
         (\A id \in req[r].del : rows'[id] = NoRow) \/ (a = "err" /\ rows' = rows)
  PROVE  /\ Sound(r)'
         /\ req'[r] \in Request /\ req' = [req EXCEPT ![r] = req'[r]]
         /\ req'[r].user = req[r].user
<1>0. req[r] \in Request /\ req \in [Requests -> Request] /\ Sound(r)
      /\ NoStock \in [Listings -> Nat] /\ \A l \in Listings : 0 <= peak[l]
  BY RequestTypes
<1> DEFINE k == [req[r] EXCEPT !.pc = "done", !.answer = a, !.lines = <<>>,
                               !.cart = NoCart, !.seen = NoStock, !.upd = {}, !.ins = {}]
<1>1. req' = [req EXCEPT ![r] = k] /\ req'[r] = k
  BY <1>0 DEF Answer
<1>2. k \in Request
  <2>1. <<>> \in Seq(Line) /\ {} \in SUBSET Write /\ {} \in SUBSET (1..MaxLines)
    OBVIOUS
  <2>2. "done" \in Pcs /\ a \in {"none", "ok", "err"} /\ NoCart \in Requests \cup {NoCart}
    BY DEF Pcs
  <2> QED BY <1>0, <2>1, <2>2 DEF Request
<1>3. /\ k.pc = "done" /\ k.answer = a /\ k.lines = <<>> /\ k.cart = NoCart
      /\ k.seen = NoStock /\ k.upd = {} /\ k.ins = {} /\ k.del = req[r].del
      /\ k.op = req[r].op /\ k.user = req[r].user
  BY <1>0 DEF Request
<1> HIDE DEF k
<1>4. Placed(r)' /\ Lined(r)'
  BY <1>0, <1>1, <1>3, CartAssumption DEF Placed, Lined, Over, Sound
<1>5. Offered(r)'
  BY <1>0, <1>1, <1>3 DEF Offered, NoStock, Over
<1>6. Owned(r)'
  <2>1. \A id \in req[r].del : id[1] \in Requests
    BY <1>0 DEF Request, RowId
  <2>2. ASSUME NEW id \in req[r].del PROVE Mine(r, id)'
    <3>1. Mine(r, id)
      BY <1>0 DEF Sound, Owned
    <3>2. req'[id[1]].pc = "done"
      BY <1>0, <1>1, <1>3, <2>1, <3>1 DEF Mine
    <3>3. rows[id] # NoRow => rows[id].cart \in Requests
      BY <1>0 DEF CartInv, TypeOK, Row, Request
    <3>4. req[r].user # NoUser
      BY <1>0, CartAssumption DEF Request
    <3> QED BY <1>1, <1>3, <3>1, <3>2, <3>3, <3>4 DEF Mine, CartsKept
  <2> QED BY <1>1, <1>3, <2>2 DEF Owned
<1>7. Sound(r)'
  BY <1>4, <1>5, <1>6 DEF Sound
<1> QED BY <1>1, <1>2, <1>3, <1>7

\* ... and keeps CartInv when no row changes.
LEMMA AnswerInv ==
  ASSUME CartInv, NEW r \in Requests, req[r].pc # "done", NEW a \in {"ok", "err"}, Answer(r, a),
         UNCHANGED <<carts, rows, listedQty, peak>>,
         req[r].del = {} \/ a = "err"
  PROVE  CartInv'
<1>1. CartsKept
  BY DEF CartsKept, CartInv, TypeOK
<1> QED BY <1>1, AnswerSound, CartInvQuiet, RequestTypes

-----------------------------------------------------------------------------
(* Requests arriving *)

\* A request to add a listing begins with the one line it brings.
LEMMA AddItemInv ==
  ASSUME CartInv, NEW r \in Requests, NEW l \in Listings, NEW q \in Quantities, AddItem(r, l, q)
  PROVE  CartInv'
<1>0. req[r] \in Request /\ req \in [Requests -> Request] /\ Sound(r) /\ req[r].pc = "idle"
      /\ listedQty \in [Listings -> Nat] /\ \A m \in Listings : listedQty[m] <= peak[m]
      /\ peak \in [Listings -> Nat]
  BY RequestTypes, CartAssumption DEF AddItem, Stock
<1>1. UNCHANGED <<carts, rows, listedQty, peak>>
  BY DEF AddItem
<1>2. req[r].upd = {} /\ req[r].ins = {} /\ req[r].del = {} /\ req[r].answer = "none"
  BY <1>0 DEF Sound, Placed
<1>3. CASE Answer(r, "err")
  BY <1>0, <1>1, <1>2, <1>3, AnswerInv
<1> DEFINE line == [listing |-> l, quantity |-> q]
           k == [req[r] EXCEPT !.op = "add", !.pc = "findCart", !.lines = <<line>>,
                               !.seen = listedQty]
<1>4. CASE req' = [req EXCEPT ![r] = k] /\ ValidListing(listedQty, l, q)
  <2>1. <<line>> \in Seq(Line) /\ Len(<<line>>) = 1 /\ <<line>>[1] = line
        /\ DOMAIN <<line>> = 1..1
    BY DEF Line
  <2> DEFINE ls == <<line>>
  <2> HIDE DEF ls
  <2>2. k \in Request
    BY <1>0, <2>1 DEF Request, Pcs, Ops, ls
  <2>3. /\ k.pc = "findCart" /\ k.op = "add" /\ k.lines = <<line>> /\ k.seen = listedQty
        /\ k.upd = {} /\ k.ins = {} /\ k.del = {} /\ k.cart = req[r].cart
        /\ k.user = req[r].user /\ k.answer = "none"
    BY <1>0, <1>2 DEF Request
  <2>4. req'[r] = k
    BY <1>0, <1>4
  <2> HIDE DEF k
  <2>5. Placed(r)' /\ Lined(r)'
    BY <2>1, <2>3, <2>4, CartAssumption DEF Placed, Lined
  <2>6. Offered(r)'
    <3>1. q <= peak[l]
      BY <1>0, <1>4, CartAssumption DEF ValidListing
    <3> QED BY <1>0, <1>1, <2>1, <2>3, <2>4, <3>1 DEF Offered
  <2>7. Owned(r)'
    BY <1>0, <1>1, <2>3, <2>4 DEF Owned, Sound
  <2> QED BY <1>0, <1>1, <1>4, <2>2, <2>3, <2>5, <2>6, <2>7, CartInvQuiet DEF Sound
<1> QED BY <1>3, <1>4 DEF AddItem

\* A request to add several listings begins with all the lines it brings.
LEMMA AddItemsBulkInv ==
  ASSUME CartInv, NEW r \in Requests, NEW lines \in BulkOrders, AddItemsBulk(r, lines)
  PROVE  CartInv'
<1>0. req[r] \in Request /\ req \in [Requests -> Request] /\ Sound(r) /\ req[r].pc = "idle"
  BY RequestTypes DEF AddItemsBulk
<1>1. req[r].upd = {} /\ req[r].ins = {} /\ req[r].del = {} /\ req[r].answer = "none"
  BY <1>0 DEF Sound, Placed
<1>2. lines \in Seq(Line) /\ Len(lines) <= MaxLines
  <2>1. BulkOrders \subseteq Seq(Line)
    BY CartAssumption DEF Line
  <2>2. Len(lines) \in 1..MaxLines /\ MaxLines \in Nat
    BY CartAssumption
  <2> QED BY <2>1, <2>2
<1> DEFINE k == [req[r] EXCEPT !.op = "bulk", !.lines = lines, !.pc = "findCart"]
<1>3. k \in Request
  BY <1>0, <1>2 DEF Request, Pcs, Ops
<1>4. /\ k.pc = "findCart" /\ k.op = "bulk" /\ k.lines = lines /\ k.seen = req[r].seen
      /\ k.upd = {} /\ k.ins = {} /\ k.del = {} /\ k.cart = req[r].cart
      /\ k.user = req[r].user /\ k.answer = "none"
  BY <1>0, <1>1 DEF Request
<1>5. req' = [req EXCEPT ![r] = k] /\ req'[r] = k
      /\ UNCHANGED <<carts, rows, listedQty, peak>>
  BY <1>0 DEF AddItemsBulk
<1> HIDE DEF k
<1>6. Placed(r)' /\ Lined(r)'
  BY <1>2, <1>4, <1>5 DEF Placed, Lined
<1>7. Offered(r)' /\ Owned(r)'
  BY <1>0, <1>4, <1>5 DEF Offered, Owned, Sound
<1> QED BY <1>0, <1>3, <1>4, <1>5, <1>6, <1>7, CartInvQuiet DEF Sound

\* A request to change a quantity begins, and names one listing.
LEMMA UpdateItemQuantityInv ==
  ASSUME CartInv, NEW r \in Requests, NEW l \in Listings, NEW q \in Quantities,
         UpdateItemQuantity(r, l, q)
  PROVE  CartInv'
<1>0. req[r] \in Request /\ req \in [Requests -> Request] /\ Sound(r) /\ req[r].pc = "idle"
      /\ rows \in [RowId -> Row \cup {NoRow}]
  BY RequestTypes DEF UpdateItemQuantity
<1>1. UNCHANGED <<carts, rows, listedQty, peak>>
  BY DEF UpdateItemQuantity
<1>2. req[r].upd = {} /\ req[r].ins = {} /\ req[r].del = {} /\ req[r].answer = "none"
  BY <1>0 DEF Sound, Placed
<1>3. CASE Answer(r, "err")
  BY <1>0, <1>1, <1>3, AnswerInv
<1> DEFINE line == [listing |-> l, quantity |-> q]
           W(id) == [line |-> 1, id |-> id, quantity |-> q, loaded |-> rows[id].quantity]
           K(id) == [req[r] EXCEPT !.op = "update", !.lines = <<line>>, !.upd = {W(id)},
                                   !.pc = "fetchListings"]
<1>4. ASSUME NEW id \in RowsIn(req[r].user, {l}), req' = [req EXCEPT ![r] = K(id)]
      PROVE  CartInv'
  <2> DEFINE w == W(id)
             k == K(id)
  <2>1. <<line>> \in Seq(Line) /\ Len(<<line>>) = 1 /\ <<line>>[1] = line
        /\ DOMAIN <<line>> = 1..1
    BY DEF Line
  <2>2. id \in RowId /\ rows[id] # NoRow /\ carts[rows[id].cart] = req[r].user
        /\ rows[id].listing = l /\ rows[id] \in Row
    BY <1>0 DEF RowsIn, RowsOf, Live
  <2>3. w \in Write /\ w.id = id /\ w.line = 1 /\ w.quantity = q
    BY <2>2, CartAssumption DEF Write, Row
  <2>4. Mine(r, id)
    BY <2>2 DEF CartInv, RowSound, Mine
  <2>5. req'[r] = k
    BY <1>0, <1>4
  <2> HIDE DEF w
  <2>6. {w} \in SUBSET Write /\ k = [req[r] EXCEPT !.op = "update", !.lines = <<line>>,
                                       !.upd = {w}, !.pc = "fetchListings"]
    BY <2>3 DEF w
  <2> HIDE DEF k, line
  <2>7. k \in Request
    BY <1>0, <2>1, <2>6 DEF Request, Pcs, Ops
  <2>8. /\ k.pc = "fetchListings" /\ k.op = "update" /\ k.lines = <<line>>
        /\ k.seen = req[r].seen /\ k.upd = {w} /\ k.ins = {} /\ k.del = {}
        /\ k.cart = req[r].cart /\ k.user = req[r].user /\ k.answer = "none"
    BY <1>0, <1>2, <2>6 DEF Request
  <2>9. line.quantity = q /\ line.listing = l
    BY DEF line
  <2>10. Placed(r)' /\ Lined(r)'
    BY <2>1, <2>3, <2>5, <2>8, <2>9, CartAssumption DEF Placed, Lined
  <2>11. Offered(r)'
    BY <1>0, <1>1, <2>5, <2>8 DEF Offered, Sound
  <2>12. Mine(r, id)'
    <3>1. id[1] \in Requests /\ id[1] # r
      BY <1>0, <2>2, <2>4 DEF RowId, Mine
    <3> QED BY <1>0, <1>1, <1>4, <2>4, <2>5, <2>8, <3>1 DEF Mine
  <2>13. Owned(r)'
    BY <1>0, <1>1, <2>1, <2>2, <2>3, <2>5, <2>8, <2>9, <2>12 DEF Owned, Sound
  <2> QED
    BY <1>0, <1>1, <1>4, <2>5, <2>7, <2>8, <2>10, <2>11, <2>13, CartInvQuiet DEF Sound, k
<1> QED BY <1>0, <1>3, <1>4 DEF UpdateItemQuantity

\* A request to remove a listing begins, and names that listing.
LEMMA RemoveItemInv ==
  ASSUME CartInv, NEW r \in Requests, NEW l \in Listings, RemoveItem(r, l)
  PROVE  CartInv'
<1>0. req[r] \in Request /\ req \in [Requests -> Request] /\ Sound(r) /\ req[r].pc = "idle"
      /\ rows \in [RowId -> Row \cup {NoRow}]
  BY RequestTypes DEF RemoveItem
<1>1. UNCHANGED <<carts, rows, listedQty, peak>>
  BY DEF RemoveItem
<1>2. req[r].upd = {} /\ req[r].ins = {} /\ req[r].del = {} /\ req[r].answer = "none"
  BY <1>0 DEF Sound, Placed
<1>3. CASE Answer(r, "err")
  BY <1>0, <1>1, <1>3, AnswerInv
<1>4. ASSUME NEW id \in RowsIn(req[r].user, {l}),
             req' = [req EXCEPT ![r].op = "remove", ![r].scope = {l}, ![r].del = {id},
                                ![r].pc = "findRows"]
      PROVE  CartInv'
  <2> DEFINE k == [req[r] EXCEPT !.op = "remove", !.scope = {l}, !.del = {id},
                                 !.pc = "findRows"]
  <2>1. id \in RowId /\ Mine(r, id)
    BY <1>0 DEF RowsIn, RowsOf, Live, CartInv, RowSound, Mine
  <2>2. req' = [req EXCEPT ![r] = k] /\ req'[r] = k
    BY <1>0, <1>4
  <2>3. k \in Request
    BY <1>0, <2>1 DEF Request, Pcs, Ops
  <2>4. /\ k.pc = "findRows" /\ k.op = "remove" /\ k.lines = req[r].lines
        /\ k.seen = req[r].seen /\ k.upd = {} /\ k.ins = {} /\ k.del = {id}
        /\ k.cart = req[r].cart /\ k.user = req[r].user /\ k.answer = "none"
    BY <1>0, <1>2 DEF Request
  <2> HIDE DEF k
  <2>5. Placed(r)' /\ Lined(r)'
    BY <1>0, <2>2, <2>4 DEF Placed, Lined, Sound
  <2>6. Offered(r)'
    BY <1>0, <1>1, <2>2, <2>4 DEF Offered, Sound
  <2>7. Mine(r, id)'
    <3>1. id[1] \in Requests /\ id[1] # r
      BY <1>0, <2>1 DEF RowId, Mine
    <3> QED BY <1>0, <1>1, <2>1, <2>2, <2>4, <3>1 DEF Mine
  <2>8. Owned(r)'
    BY <1>0, <1>1, <2>2, <2>4, <2>7 DEF Owned, Sound
  <2> QED BY <1>0, <1>1, <2>2, <2>3, <2>4, <2>5, <2>6, <2>8, CartInvQuiet DEF Sound
<1> QED BY <1>0, <1>3, <1>4 DEF RemoveItem

\* A cleanup begins, and names the listings that were bought.
LEMMA ClearScopeInv ==
  ASSUME CartInv, NEW r \in Requests, NEW scope \in SUBSET Listings, ClearScope(r, scope)
  PROVE  CartInv'
<1>0. req[r] \in Request /\ req \in [Requests -> Request] /\ Sound(r) /\ req[r].pc = "idle"
  BY RequestTypes DEF ClearScope
<1>1. req[r].upd = {} /\ req[r].ins = {} /\ req[r].del = {} /\ req[r].answer = "none"
  BY <1>0 DEF Sound, Placed
<1> DEFINE k == [req[r] EXCEPT !.op = "clear", !.scope = scope, !.pc = "findRows"]
<1>2. req' = [req EXCEPT ![r] = k] /\ req'[r] = k
      /\ UNCHANGED <<carts, rows, listedQty, peak>>
  BY <1>0 DEF ClearScope
<1>3. k \in Request
  BY <1>0 DEF Request, Pcs, Ops
<1>4. /\ k.pc = "findRows" /\ k.op = "clear" /\ k.lines = req[r].lines
      /\ k.seen = req[r].seen /\ k.upd = {} /\ k.ins = {} /\ k.del = {}
      /\ k.cart = req[r].cart /\ k.user = req[r].user /\ k.answer = "none"
  BY <1>0, <1>1 DEF Request
<1> HIDE DEF k
<1>5. Placed(r)' /\ Lined(r)'
  BY <1>0, <1>2, <1>4 DEF Placed, Lined, Sound
<1>6. Offered(r)' /\ Owned(r)'
  BY <1>0, <1>2, <1>4 DEF Offered, Owned, Sound
<1> QED BY <1>0, <1>2, <1>3, <1>4, <1>5, <1>6, CartInvQuiet DEF Sound

-----------------------------------------------------------------------------
(* Requests going on *)

\* getOrCreateCart: whatever is found belongs to the user.
LEMMA LookForCartInv ==
  ASSUME CartInv, NEW r \in Requests,
         \/ req[r].pc = "findCart" /\ LookForCart(r, "recheckCart")
         \/ req[r].pc = "recheckCart" /\ LookForCart(r, "createCart")
  PROVE  CartInv'
<1>0. req[r] \in Request /\ req \in [Requests -> Request] /\ Sound(r)
      /\ req[r].pc \in {"findCart", "recheckCart"}
  BY RequestTypes
<1>1. UNCHANGED <<carts, rows, listedQty, peak>>
  BY DEF LookForCart
<1>2. req[r].op \in {"add", "bulk"} /\ req[r].del = {} /\ req[r].answer = "none"
  BY <1>0 DEF Sound, Placed, Request, Ops
<1>3. PICK c \in Requests \cup {NoCart}, pc \in Pcs :
        /\ req' = [req EXCEPT ![r].cart = c, ![r].pc = pc]
        /\ \/ c # NoCart /\ carts[c] = req[r].user /\ pc = AfterCart(r)
           \/ c = req[r].cart /\ pc \in {"recheckCart", "createCart"}
  <2>1. CASE CartsOf(req[r].user) # {}
    <3>1. PICK c \in CartsOf(req[r].user) :
            req' = [req EXCEPT ![r].cart = c, ![r].pc = AfterCart(r)]
      BY <2>1 DEF LookForCart
    <3>2. c \in Requests /\ c # NoCart /\ carts[c] = req[r].user /\ AfterCart(r) \in Pcs
      BY CartAssumption DEF CartsOf, AfterCart, Pcs
    <3> QED BY <3>1, <3>2
  <2>2. CASE CartsOf(req[r].user) = {}
    <3>1. PICK pc \in {"recheckCart", "createCart"} : req' = [req EXCEPT ![r].pc = pc]
      BY <2>2 DEF LookForCart
    <3>2. req' = [req EXCEPT ![r].cart = req[r].cart, ![r].pc = pc] /\ pc \in Pcs
      BY <1>0, <3>1 DEF Request, Pcs
    <3> QED BY <1>0, <3>2 DEF Request
  <2> QED BY <2>1, <2>2
<1> DEFINE k == [req[r] EXCEPT !.cart = c, !.pc = pc]
<1>4. req' = [req EXCEPT ![r] = k] /\ req'[r] = k
  BY <1>0, <1>3
<1>5. k \in Request
  BY <1>0, <1>3 DEF Request
<1>6. /\ k.pc = pc /\ k.op = req[r].op /\ k.lines = req[r].lines /\ k.seen = req[r].seen
      /\ k.upd = req[r].upd /\ k.ins = req[r].ins /\ k.del = {} /\ k.cart = c
      /\ k.user = req[r].user /\ k.answer = "none"
  BY <1>0, <1>2 DEF Request
<1>7. pc \in {"recheckCart", "createCart", "findItem", "fetchListings"}
      /\ (pc = "findItem" => req[r].op = "add" /\ c # NoCart)
      /\ (pc = "fetchListings" => req[r].op = "bulk" /\ c # NoCart)
  BY <1>2, <1>3 DEF AfterCart
<1> HIDE DEF k
<1>8. Placed(r)' /\ Lined(r)'
  BY <1>0, <1>2, <1>4, <1>6, <1>7 DEF Placed, Lined, Sound, Over
<1>9. Offered(r)'
  BY <1>0, <1>1, <1>2, <1>4, <1>6, <1>7 DEF Offered, Sound, Over
<1>10. Owned(r)'
  <2>1. ASSUME NEW w \in req[r].upd PROVE Mine(r, w.id)'
    <3>1. Mine(r, w.id) /\ w.id[1] \in Requests
      BY <1>0 DEF Sound, Owned, Request, Write, RowId
    <3> QED BY <1>0, <1>1, <1>4, <1>6, <3>1 DEF Mine
  <2>2. c # NoCart => carts[c] = req[r].user
    BY <1>0, <1>3 DEF Sound, Owned
  <2>3. Owned(r)
    BY <1>0 DEF Sound
  <2> QED BY <1>1, <1>4, <1>6, <2>1, <2>2, <2>3 DEF Owned
<1> QED BY <1>0, <1>1, <1>4, <1>5, <1>6, <1>8, <1>9, <1>10, CartInvQuiet DEF Sound

\* The new cart belongs to the user of the request that is its name.
LEMMA CreateCartInv ==
  ASSUME CartInv, NEW r \in Requests, CreateCart(r)
  PROVE  CartInv'
<1>0. req[r] \in Request /\ req \in [Requests -> Request] /\ Sound(r)
      /\ req[r].pc = "createCart" /\ carts \in [Requests -> Users \cup {NoUser}]
      /\ req[r].user \in Users /\ req[r].user # NoUser
  BY RequestTypes, CartAssumption DEF CreateCart, CartInv, TypeOK, Request
<1>1. UNCHANGED <<rows, listedQty, peak>>
  BY DEF CreateCart
<1>2. req[r].op \in {"add", "bulk"} /\ req[r].del = {} /\ req[r].answer = "none"
  BY <1>0 DEF Sound, Placed, Request, Ops
<1>3. carts' = carts \/ carts' = [carts EXCEPT ![r] = req[r].user]
  BY DEF CreateCart
<1>4. \A c \in Requests : carts[c] \in {NoUser, req[c].user}
  BY DEF CartInv
<1>5. CartsKept
  BY <1>0, <1>3, <1>4 DEF CartsKept
<1>6. \A q \in Requests : req[q].pc = "done" => q # r
  BY <1>0
<1>7. ASSUME NEW k \in Request, req' = [req EXCEPT ![r] = k], k.user = req[r].user, Sound(r)'
      PROVE  CartInv'
  <2>1. \A id \in RowId : id[1] \in Requests
    BY DEF RowId
  <2>2. \A id \in RowId : rows[id] # NoRow => rows[id].cart \in Requests
    BY DEF CartInv, TypeOK, Row
  <2>3. \A id \in RowId : RowSound(id)'
    BY <1>0, <1>1, <1>5, <1>6, <1>7, <2>1, <2>2 DEF CartInv, RowSound, CartsKept
  <2> QED BY <1>0, <1>1, <1>5, <1>7, <2>3, CartInvStep, RequestTypes
<1>8. CASE Answer(r, "err")
  <2>1. Sound(r)' /\ req'[r] \in Request /\ req' = [req EXCEPT ![r] = req'[r]]
        /\ req'[r].user = req[r].user
    BY <1>0, <1>1, <1>2, <1>5, <1>8, AnswerSound, RequestTypes
  <2> QED BY <1>7, <2>1
<1>9. CASE /\ req' = [req EXCEPT ![r].cart = r, ![r].pc = AfterCart(r)]
           /\ carts' = [carts EXCEPT ![r] = req[r].user]
  <2> DEFINE k == [req[r] EXCEPT !.cart = r, !.pc = AfterCart(r)]
  <2>1. req' = [req EXCEPT ![r] = k] /\ req'[r] = k /\ carts'[r] = req[r].user
    BY <1>0, <1>9
  <2>2. k \in Request
    BY <1>0 DEF Request, AfterCart, Pcs
  <2>3. /\ k.pc = AfterCart(r) /\ k.op = req[r].op /\ k.lines = req[r].lines
        /\ k.seen = req[r].seen /\ k.upd = req[r].upd /\ k.ins = req[r].ins /\ k.del = {}
        /\ k.cart = r /\ k.user = req[r].user /\ k.answer = "none"
    BY <1>0, <1>2 DEF Request
  <2>4. /\ r # NoCart
        /\ \/ AfterCart(r) = "findItem" /\ req[r].op = "add"
           \/ AfterCart(r) = "fetchListings" /\ req[r].op = "bulk"
    <3>1. NoCart \notin Requests
      BY CartAssumption
    <3> QED BY <1>2, <3>1 DEF AfterCart
  <2> HIDE DEF k
  <2>5. Placed(r)' /\ Lined(r)'
    BY <1>0, <1>2, <2>1, <2>3, <2>4 DEF Placed, Lined, Sound, Over
  <2>6. Offered(r)'
    BY <1>0, <1>1, <1>2, <2>1, <2>3, <2>4 DEF Offered, Sound, Over
  <2>7. Owned(r)'
    <3>1. ASSUME NEW w \in req[r].upd PROVE Mine(r, w.id)'
      <4>1. Mine(r, w.id) /\ w.id \in RowId /\ w.id[1] \in Requests
        BY <1>0 DEF Sound, Owned, Request, Write, RowId
      <4>2. rows[w.id] # NoRow => rows[w.id].cart \in Requests
        BY <4>1 DEF CartInv, TypeOK, Row
      <4> QED BY <1>0, <1>1, <1>5, <2>1, <2>3, <4>1, <4>2 DEF Mine, CartsKept
    <3> QED BY <1>0, <1>1, <2>1, <2>3, <3>1 DEF Owned, Sound
  <2> QED BY <1>7, <2>1, <2>2, <2>3, <2>5, <2>6, <2>7 DEF Sound
<1> QED BY <1>8, <1>9 DEF CreateCart

\* A step to pc that changes seen, upd, ins and del of r only ...
Goes(r, pc, seen, upd, ins, del) ==
  req' = [req EXCEPT ![r].pc = pc, ![r].seen = seen, ![r].upd = upd, ![r].ins = ins,
                     ![r].del = del]

\* ... to what r held before or finds in the rows of its user.
Found(r, upd, del) ==
  /\ \A w \in upd :
       /\ w \in req[r].upd \/ w.id \in RowsOf(req[r].user)
       /\ rows[w.id] # NoRow => rows[w.id].listing = req[r].lines[w.line].listing
  /\ \A id \in del : id \in req[r].del \/ id \in RowsOf(req[r].user)

\* A request that stores nothing in a step keeps the invariant if what it knows is sound.
LEMMA StepInv ==
  ASSUME CartInv, NEW r \in Requests, req[r].pc \notin {"idle", "done"},
         UNCHANGED <<carts, rows, listedQty, peak>>,
         NEW pc \in Pcs \ {"done"}, NEW seen \in [Listings -> Nat], NEW upd \in SUBSET Write,
         NEW ins \in SUBSET (1..MaxLines), NEW del \in SUBSET RowId,
         Goes(r, pc, seen, upd, ins, del), Found(r, upd, del),
         Placed(r)', Lined(r)', Offered(r)'
  PROVE  CartInv'
<1>0. req[r] \in Request /\ req \in [Requests -> Request] /\ Sound(r)
  BY RequestTypes
<1> DEFINE k == [req[r] EXCEPT !.pc = pc, !.seen = seen, !.upd = upd, !.ins = ins, !.del = del]
<1>1. req' = [req EXCEPT ![r] = k] /\ req'[r] = k
  BY <1>0 DEF Goes
<1>2. k \in Request
  BY <1>0 DEF Request
<1>3. /\ k.pc = pc /\ k.upd = upd /\ k.del = del /\ k.cart = req[r].cart
      /\ k.user = req[r].user /\ k.answer = req[r].answer /\ k.lines = req[r].lines
  BY <1>0 DEF Request
<1> HIDE DEF k
<1>4. ASSUME NEW id \in RowId, Mine(r, id) \/ id \in RowsOf(req[r].user) PROVE Mine(r, id)'
  <2>1. Mine(r, id) /\ id[1] \in Requests
    BY <1>4 DEF RowsOf, Live, CartInv, RowSound, Mine, RowId
  <2> QED BY <1>0, <1>1, <1>3, <2>1 DEF Mine
<1>5. /\ \A w \in upd : Mine(r, w.id)'
      /\ \A id \in del : Mine(r, id)'
  <2>1. ASSUME NEW w \in upd PROVE Mine(r, w.id)'
    <3>1. w.id \in RowId
      BY DEF Write
    <3>2. Mine(r, w.id) \/ w.id \in RowsOf(req[r].user)
      BY <1>0 DEF Sound, Owned, Found
    <3> QED BY <1>4, <3>1, <3>2
  <2>2. ASSUME NEW id \in del PROVE Mine(r, id)'
    <3>1. Mine(r, id) \/ id \in RowsOf(req[r].user)
      BY <1>0 DEF Sound, Owned, Found
    <3> QED BY <1>4, <3>1
  <2> QED BY <2>1, <2>2
<1>6. req[r].answer = "none"
  BY <1>0 DEF Sound, Placed, Request
<1>7. Owned(r)'
  BY <1>0, <1>1, <1>3, <1>5, <1>6 DEF Owned, Sound, Found
<1> QED BY <1>0, <1>1, <1>2, <1>3, <1>7, CartInvQuiet DEF Sound

\* What a request knows when it goes on.
LEMMA GoesFields ==
  ASSUME CartInv, NEW r \in Requests, NEW pc, NEW seen, NEW upd, NEW ins, NEW del,
         Goes(r, pc, seen, upd, ins, del)
  PROVE  /\ req'[r].pc = pc /\ req'[r].seen = seen /\ req'[r].upd = upd /\ req'[r].ins = ins
         /\ req'[r].del = del /\ req'[r].op = req[r].op /\ req'[r].lines = req[r].lines
         /\ req'[r].cart = req[r].cart /\ req'[r].answer = req[r].answer
         /\ Found(r, req[r].upd, req[r].del)
<1>1. req[r] \in Request /\ req \in [Requests -> Request] /\ Sound(r)
  BY RequestTypes
<1> QED BY <1>1 DEF Goes, Request, Sound, Owned, Found

\* The sum is validated against a stock that was read: it was offered.
LEMMA FindItemInv ==
  ASSUME CartInv, NEW r \in Requests, FindItem(r)
  PROVE  CartInv'
<1>0. /\ req[r] \in Request /\ req \in [Requests -> Request] /\ Sound(r)
      /\ req[r].pc = "findItem" /\ rows \in [RowId -> Row \cup {NoRow}]
      /\ UNCHANGED <<carts, rows, listedQty, peak>>
  BY RequestTypes DEF FindItem
<1>1. /\ req[r].op = "add" /\ req[r].del = {} /\ req[r].answer = "none"
      /\ req[r].cart # NoCart /\ carts[req[r].cart] = req[r].user
      /\ Len(req[r].lines) = 1 /\ req[r].lines[1].quantity <= peak[req[r].lines[1].listing]
      /\ \A l \in Listings : req[r].seen[l] <= peak[l]
  BY <1>0 DEF Sound, Placed, Offered, Owned, Over
<1> DEFINE line == req[r].lines[1]
<1>2. DOMAIN req[r].lines = {1} /\ line \in Line /\ req[r].lines \in Seq(Line)
      /\ 1 \in 1..MaxLines /\ line.listing \in Listings /\ line.quantity \in Int
  <2>1. Quantities \subseteq Int /\ 1 \in 1..MaxLines
    BY CartAssumption
  <2>2. req[r].lines \in Seq(Line)
    BY <1>0 DEF Request
  <2>3. DOMAIN req[r].lines = {1} /\ line \in Line
    BY <1>1, <2>2
  <2> QED BY <2>1, <2>2, <2>3 DEF Line
<1>3. CASE Answer(r, "err")
  BY <1>0, <1>1, <1>3, AnswerInv
<1>4. CASE req' = [req EXCEPT ![r].pc = "insert", ![r].ins = {1}]
  <2>1. /\ req'[r].pc = "insert" /\ req'[r].ins = {1} /\ req'[r].op = "add"
        /\ req'[r].upd = req[r].upd /\ req'[r].del = {} /\ req'[r].lines = req[r].lines
        /\ req'[r].seen = req[r].seen /\ req'[r].cart = req[r].cart /\ req'[r].answer = "none"
    BY <1>0, <1>1, <1>4 DEF Request
  <2>2. Goes(r, "insert", req[r].seen, req[r].upd, {1}, req[r].del)
    BY <1>0, <1>4, ZenonT(60) DEF Goes, Request
  <2>3. Placed(r)' /\ Lined(r)'
    BY <1>0, <1>1, <1>2, <2>1, CartAssumption DEF Placed, Lined, Sound, Over
  <2>4. Offered(r)'
    BY <1>0, <1>1, <2>1 DEF Offered, Over
  <2>5. Found(r, req[r].upd, req[r].del)
    BY <1>0 DEF Sound, Owned, Found
  <2>6. /\ "insert" \in Pcs \ {"done"} /\ req[r].seen \in [Listings -> Nat]
        /\ req[r].upd \in SUBSET Write /\ req[r].del \in SUBSET RowId
        /\ {1} \in SUBSET (1..MaxLines)
    BY <1>0, <1>2 DEF Pcs, Request
  <2> QED BY <1>0, <1>1, <2>2, <2>3, <2>4, <2>5, <2>6, StepInv
<1>5. ASSUME NEW id \in RowsInCart(req[r].cart, line.listing),
             ValidListing(req[r].seen, line.listing, rows[id].quantity + line.quantity),
             req' = [req EXCEPT ![r].pc = "flush",
                        ![r].upd = {[line |-> 1, id |-> id, loaded |-> rows[id].quantity,
                                     quantity |-> rows[id].quantity + line.quantity]}]
      PROVE  CartInv'
  <2> DEFINE w == [line |-> 1, id |-> id, loaded |-> rows[id].quantity,
                   quantity |-> rows[id].quantity + line.quantity]
  <2>1. /\ id \in RowId /\ rows[id] # NoRow /\ rows[id] \in Row /\ rows[id].listing = line.listing
        /\ rows[id].cart = req[r].cart
    BY <1>0 DEF RowsInCart, Live
  <2>2. id \in RowsOf(req[r].user)
    BY <1>1, <2>1 DEF RowsOf, Live
  <2>3. /\ w \in Write /\ w.id = id /\ w.line = 1
        /\ w.quantity = rows[id].quantity + line.quantity
    BY <1>2, <2>1 DEF Write, Row
  <2>4. w.quantity <= peak[line.listing]
    <3>1. /\ peak[line.listing] \in Nat /\ req[r].seen[line.listing] \in Nat
          /\ req[r].seen[line.listing] <= peak[line.listing]
      <4>1. Stocks \subseteq Nat
        BY CartAssumption
      <4> QED BY <1>0, <1>1, <1>2, <4>1, RequestTypes DEF Request, Stock
    <3>2. rows[id].quantity + line.quantity <= req[r].seen[line.listing]
      BY <1>5 DEF ValidListing
    <3>3. rows[id].quantity + line.quantity \in Int
      BY <1>2, <2>1 DEF Row
    <3> QED BY <2>3, <3>1, <3>2, <3>3
  <2>5. req' = [req EXCEPT ![r].pc = "flush", ![r].upd = {w}]
    BY <1>5
  <2> HIDE DEF w
  <2>6. /\ req'[r].pc = "flush" /\ req'[r].upd = {w} /\ req'[r].op = "add"
        /\ req'[r].ins = req[r].ins /\ req'[r].del = {} /\ req'[r].lines = req[r].lines
        /\ req'[r].seen = req[r].seen /\ req'[r].cart = req[r].cart /\ req'[r].answer = "none"
    BY <1>0, <1>1, <2>5 DEF Request
  <2>7. Goes(r, "flush", req[r].seen, {w}, req[r].ins, req[r].del)
    BY <1>0, <2>5, ZenonT(60) DEF Goes, Request
  <2>8. Placed(r)' /\ Lined(r)'
    BY <1>0, <1>1, <1>2, <2>3, <2>6 DEF Placed, Lined, Sound, Over
  <2>9. Offered(r)'
    BY <1>0, <1>1, <2>3, <2>4, <2>6 DEF Offered, Sound, Over
  <2>10. /\ "flush" \in Pcs \ {"done"} /\ req[r].seen \in [Listings -> Nat]
         /\ {w} \in SUBSET Write /\ req[r].del \in SUBSET RowId
         /\ req[r].ins \in SUBSET (1..MaxLines)
    BY <1>0, <2>3 DEF Pcs, Request
  <2>11. Found(r, {w}, req[r].del)
    BY <2>1, <2>2, <2>3 DEF Found
  <2> HIDE DEF line
  <2> QED BY <1>0, <1>1, <2>7, <2>8, <2>9, <2>10, <2>11, StepInv
<1> QED
  <2>1. CASE req' = [req EXCEPT ![r].pc = "insert", ![r].ins = {1}]
    BY <1>4, <2>1
  <2>2. ASSUME NEW id \in RowsInCart(req[r].cart, line.listing),
               IF ValidListing(req[r].seen, line.listing, rows[id].quantity + line.quantity)
               THEN req' = [req EXCEPT ![r].pc = "flush",
                      ![r].upd = {[line |-> 1, id |-> id, loaded |-> rows[id].quantity,
                                   quantity |-> rows[id].quantity + line.quantity]}]
               ELSE Answer(r, "err")
        PROVE  CartInv'
    BY <1>3, <1>5, <2>2
  <2> QED BY <2>1, <2>2 DEF FindItem

\* The listings are fetched: what they offer is no more than they ever did.
LEMMA FetchListingsInv ==
  ASSUME CartInv, NEW r \in Requests, FetchListings(r)
  PROVE  CartInv'
<1>0. /\ req[r] \in Request /\ req \in [Requests -> Request] /\ Sound(r)
      /\ req[r].pc = "fetchListings" /\ req[r].op = "bulk"
      /\ UNCHANGED <<carts, rows, listedQty, peak>>
      /\ \A l \in Listings : 0 <= peak[l] /\ listedQty[l] <= peak[l]
  BY RequestTypes DEF FetchListings
<1>1. PICK seen \in {NoStock, listedQty} :
        req' = [req EXCEPT ![r].pc = "findRows", ![r].seen = seen]
  BY DEF FetchListings
<1>2. Goes(r, "findRows", seen, req[r].upd, req[r].ins, req[r].del)
  BY <1>0, <1>1 DEF Goes, Request
<1>3. /\ "findRows" \in Pcs \ {"done"} /\ seen \in [Listings -> Nat]
      /\ req[r].upd \in SUBSET Write /\ req[r].del \in SUBSET RowId
      /\ req[r].ins \in SUBSET (1..MaxLines)
  BY <1>0, RequestTypes DEF Pcs, Request
<1>4. \A l \in Listings : seen[l] <= peak[l]
  BY <1>0 DEF NoStock
<1>5. Placed(r)' /\ Lined(r)'
  BY <1>0, <1>2, GoesFields DEF Placed, Lined, Sound
<1>6. Offered(r)'
  BY <1>0, <1>2, <1>4, GoesFields DEF Offered, Sound
<1> QED BY <1>0, <1>2, <1>3, <1>5, <1>6, GoesFields, StepInv

\* Every line that becomes a write passed validateListingFromCache on a stock that was read.
LEMMA MapItemsForBulkInv ==
  ASSUME CartInv, NEW r \in Requests, MapItemsForBulk(r)
  PROVE  CartInv'
<1>0. /\ req[r] \in Request /\ req \in [Requests -> Request] /\ Sound(r)
      /\ req[r].pc = "findRows" /\ req[r].op = "bulk"
      /\ UNCHANGED <<carts, rows, listedQty, peak>>
      /\ rows \in [RowId -> Row \cup {NoRow}]
      /\ peak \in [Listings -> Nat]
  BY RequestTypes, CartAssumption DEF MapItemsForBulk, Stock
<1>1. /\ req[r].cart # NoCart /\ carts[req[r].cart] = req[r].user
      /\ \A l \in Listings : req[r].seen[l] <= peak[l]
  BY <1>0 DEF Sound, Placed, Offered, Owned
<1> DEFINE lines == req[r].lines
<1>2. /\ lines \in Seq(Line) /\ DOMAIN lines \subseteq 1..MaxLines
      /\ \A i \in DOMAIN lines : lines[i].listing \in Listings /\ lines[i].quantity \in Int
  <2>1. Quantities \subseteq Int /\ MaxLines \in Nat
    BY CartAssumption
  <2>2. lines \in Seq(Line) /\ Len(lines) <= MaxLines
    BY <1>0 DEF Request, Sound, Lined
  <2>3. DOMAIN lines = 1..Len(lines) /\ Len(lines) \in Nat /\ \A i \in DOMAIN lines : lines[i] \in Line
    BY <2>2
  <2>4. DOMAIN lines \subseteq 1..MaxLines
    BY <2>1, <2>2, <2>3
  <2>5. ASSUME NEW i \in DOMAIN lines
        PROVE  lines[i].listing \in Listings /\ lines[i].quantity \in Int
    <3>1. lines[i] \in Line
      BY <2>3
    <3> HIDE DEF lines
    <3> QED BY <2>1, <3>1 DEF Line
  <2> QED BY <2>2, <2>4, <2>5
<1>3. PICK item \in [Listings -> RowId \cup {NoRow}], fault \in Faults :
        /\ \A l \in Listings : item[l] \in IF fault \/ RowsInCart(req[r].cart, l) = {}
                                          THEN {NoRow} ELSE RowsInCart(req[r].cart, l)
        /\ LET Sum(i) == rows[item[lines[i].listing]].quantity + lines[i].quantity
               valid == {i \in DOMAIN lines :
                           ValidListing(req[r].seen, lines[i].listing, lines[i].quantity)}
               known == {i \in valid : item[lines[i].listing] # NoRow}
           IN  req' = [req EXCEPT
                 ![r].pc = "flush",
                 ![r].upd = {[line |-> i, id |-> item[lines[i].listing], quantity |-> Sum(i),
                              loaded |-> rows[item[lines[i].listing]].quantity] :
                               i \in {j \in known :
                                  ValidListing(req[r].seen, lines[j].listing, Sum(j))}},
                 ![r].ins = valid \ known]
  BY DEF MapItemsForBulk
<1> DEFINE Sum(i) == rows[item[lines[i].listing]].quantity + lines[i].quantity
           valid == {i \in DOMAIN lines :
                       ValidListing(req[r].seen, lines[i].listing, lines[i].quantity)}
           known == {i \in valid : item[lines[i].listing] # NoRow}
           raised == {j \in known : ValidListing(req[r].seen, lines[j].listing, Sum(j))}
           W(i) == [line |-> i, id |-> item[lines[i].listing], quantity |-> Sum(i),
                    loaded |-> rows[item[lines[i].listing]].quantity]
           upd == {W(i) : i \in raised}
           ins == valid \ known
<1>4. req' = [req EXCEPT ![r].pc = "flush", ![r].upd = upd, ![r].ins = ins]
  BY <1>3
<1>5. \A l \in Listings : item[l] # NoRow => item[l] \in RowsInCart(req[r].cart, l)
  BY <1>3
<1>6. ASSUME NEW i \in raised
      PROVE  /\ W(i) \in Write /\ W(i).line = i /\ i \in DOMAIN lines
             /\ W(i).id \in RowsOf(req[r].user) /\ rows[W(i).id].listing = lines[i].listing
             /\ W(i).quantity <= peak[lines[i].listing]
  <2> DEFINE id == item[lines[i].listing]
             l  == lines[i].listing
  <2>1. i \in DOMAIN lines /\ l \in Listings /\ id # NoRow /\ ValidListing(req[r].seen, l, Sum(i))
    BY <1>2
  <2>2. id \in RowsInCart(req[r].cart, l)
    BY <1>5, <2>1
  <2>3. /\ id \in RowId /\ rows[id] # NoRow /\ rows[id] \in Row /\ rows[id].listing = l
        /\ rows[id].cart = req[r].cart /\ id \in RowsOf(req[r].user)
    BY <1>0, <1>1, <2>2 DEF RowsInCart, RowsOf, Live
  <2>4. Sum(i) \in Int /\ rows[id].quantity \in Int
    <3>1. rows[id].quantity \in Int
      BY <2>3 DEF Row
    <3>2. lines[i].quantity \in Int
      BY <1>2, <2>1
    <3> DEFINE m == rows[id].quantity
               n == lines[i].quantity
    <3>3. Sum(i) = m + n
      OBVIOUS
    <3> HIDE DEF m, n, Sum
    <3>4. m \in Int /\ n \in Int
      BY <3>1, <3>2 DEF m, n
    <3> QED BY <3>1, <3>3, <3>4
  <2>5. Sum(i) <= peak[l]
    <3>1. peak[l] \in Nat /\ req[r].seen[l] \in Nat /\ req[r].seen[l] <= peak[l]
      BY <1>0, <1>1, <2>1 DEF Request
    <3>2. Sum(i) <= req[r].seen[l]
      BY <2>1 DEF ValidListing
    <3> HIDE DEF Sum, l
    <3> QED BY <2>4, <3>1, <3>2
  <2>6. i \in 1..MaxLines
    BY <1>2, <2>1
  <2> HIDE DEF Sum, lines
  <2>7. W(i) \in Write
    BY <2>3, <2>4, <2>6 DEF Write
  <2> QED BY <2>1, <2>3, <2>5, <2>7
<1>7. ASSUME NEW i \in ins
      PROVE  i \in DOMAIN lines /\ lines[i].quantity <= peak[lines[i].listing]
  <2> DEFINE l == lines[i].listing
  <2>1. i \in DOMAIN lines /\ ValidListing(req[r].seen, l, lines[i].quantity)
    OBVIOUS
  <2>2. /\ l \in Listings /\ lines[i].quantity \in Int /\ peak[l] \in Nat
        /\ req[r].seen[l] \in Nat /\ req[r].seen[l] <= peak[l]
    BY <1>0, <1>1, <1>2, <2>1 DEF Request
  <2> QED BY <2>1, <2>2 DEF ValidListing
<1>8. /\ upd \in SUBSET Write /\ ins \in SUBSET (1..MaxLines) /\ ins \subseteq DOMAIN lines
      /\ \A w \in upd : /\ w.line \in DOMAIN lines /\ w.id \in RowsOf(req[r].user)
                        /\ rows[w.id].listing = lines[w.line].listing
                        /\ w.quantity <= peak[lines[w.line].listing]
      /\ \A i \in ins : lines[i].quantity <= peak[lines[i].listing]
  <2> HIDE DEF raised, W
  <2>1. \A w \in upd : \E i \in raised : w = W(i)
    OBVIOUS
  <2>2. upd \in SUBSET Write
    BY <1>6, <2>1
  <2>3. ins \subseteq DOMAIN lines
    OBVIOUS
  <2>4. ASSUME NEW w \in upd
        PROVE  /\ w.line \in DOMAIN lines /\ w.id \in RowsOf(req[r].user)
               /\ rows[w.id].listing = lines[w.line].listing
               /\ w.quantity <= peak[lines[w.line].listing]
    BY <1>6, <2>1
  <2> HIDE DEF upd, ins
  <2> QED BY <1>2, <1>7, <2>2, <2>3, <2>4
<1> HIDE DEF upd, ins
<1>9. Goes(r, "flush", req[r].seen, upd, ins, req[r].del)
  BY <1>0, <1>4, ZenonT(60) DEF Goes, Request
<1>10. /\ "flush" \in Pcs \ {"done"} /\ req[r].seen \in [Listings -> Nat]
       /\ req[r].del \in SUBSET RowId
  BY <1>0 DEF Pcs, Request
<1>11. Placed(r)' /\ Lined(r)'
  <2>1. Placed(r)'
    BY <1>0, <1>1, <1>9, GoesFields DEF Placed, Sound, Over
  <2>2. Lined(r)'
    BY <1>0, <1>8, <1>9, GoesFields DEF Lined, Sound
  <2> QED BY <2>1, <2>2
<1>12. Offered(r)'
  <2>1. /\ req'[r].op = "bulk" /\ req'[r].pc = "flush" /\ req'[r].seen = req[r].seen
        /\ req'[r].lines = lines /\ req'[r].upd = upd /\ req'[r].ins = ins
        /\ peak' = peak
    BY <1>0, <1>9, GoesFields
  <2>2. \A l \in Listings : req[r].seen[l] <= peak[l]
    BY <1>1
  <2>3. /\ \A i \in ins : lines[i].quantity <= peak[lines[i].listing]
        /\ \A w \in upd : w.quantity <= peak[lines[w.line].listing]
    BY <1>8
  <2> HIDE DEF lines
  <2> QED BY <2>1, <2>2, <2>3 DEF Offered
<1>13. Found(r, upd, req[r].del)
  BY <1>8 DEF Found
<1> QED BY <1>0, <1>8, <1>9, <1>10, <1>11, <1>12, <1>13, StepInv

\* The quantity asked for is compared with the stock that was read.
LEMMA ValidateUpdateInv ==
  ASSUME CartInv, NEW r \in Requests, ValidateUpdate(r)
  PROVE  CartInv'
<1>0. /\ req[r] \in Request /\ req \in [Requests -> Request] /\ Sound(r)
      /\ req[r].pc = "fetchListings" /\ req[r].op = "update"
      /\ UNCHANGED <<carts, rows, listedQty, peak>>
      /\ listedQty \in [Listings -> Nat] /\ peak \in [Listings -> Nat]
      /\ \A l \in Listings : listedQty[l] <= peak[l]
  BY RequestTypes, CartAssumption DEF ValidateUpdate, Stock
<1> DEFINE line == req[r].lines[1]
<1>1. /\ Len(req[r].lines) = 1 /\ \A w \in req[r].upd : w.quantity = line.quantity
      /\ req[r].upd # {} /\ req[r].del = {}
  BY <1>0 DEF Sound, Placed
<1>2. DOMAIN req[r].lines = {1} /\ line.listing \in Listings /\ line.quantity \in Int
  <2>1. Quantities \subseteq Int
    BY CartAssumption
  <2>2. req[r].lines \in Seq(Line)
    BY <1>0 DEF Request
  <2>3. DOMAIN req[r].lines = {1} /\ line \in Line
    BY <1>1, <2>2
  <2> QED BY <2>1, <2>3 DEF Line
<1>3. CASE Answer(r, "err")
  BY <1>0, <1>1, <1>3, AnswerInv
<1>4. CASE /\ ValidListing(listedQty, line.listing, line.quantity)
           /\ req' = [req EXCEPT ![r].pc = "flush", ![r].seen = listedQty]
  <2>1. Goes(r, "flush", listedQty, req[r].upd, req[r].ins, req[r].del)
    BY <1>0, <1>4 DEF Goes, Request
  <2>2. /\ "flush" \in Pcs \ {"done"}
        /\ req[r].upd \in SUBSET Write /\ req[r].del \in SUBSET RowId
        /\ req[r].ins \in SUBSET (1..MaxLines)
    BY <1>0 DEF Pcs, Request
  <2>3. line.quantity <= peak[line.listing]
    <3>1. /\ listedQty[line.listing] \in Nat /\ peak[line.listing] \in Nat
          /\ listedQty[line.listing] <= peak[line.listing]
          /\ line.quantity <= listedQty[line.listing]
      BY <1>0, <1>2, <1>4 DEF ValidListing
    <3> QED BY <1>2, <3>1
  <2>4. \A w \in req[r].upd : w.line = 1 /\ w.quantity <= peak[req[r].lines[w.line].listing]
    BY <1>0, <1>1, <1>2, <2>3 DEF Sound, Lined
  <2>5. Placed(r)'
    BY <1>0, <1>1, <2>1, GoesFields DEF Placed, Sound
  <2>6. Lined(r)'
    BY <1>0, <2>1, GoesFields DEF Lined, Sound
  <2>7. Offered(r)'
    BY <1>0, <2>1, <2>4, GoesFields DEF Offered, Sound
  <2> QED BY <1>0, <2>1, <2>2, <2>5, <2>6, <2>7, GoesFields, StepInv
<1> QED BY <1>3, <1>4 DEF ValidateUpdate

\* The end of a flush leaves the rows as they are.
LEMMA FlushDoneInv ==
  ASSUME CartInv, NEW r \in Requests, FlushDone(r)
  PROVE  CartInv'
<1>0. /\ req[r] \in Request /\ req \in [Requests -> Request] /\ Sound(r)
      /\ req[r].pc = "flush" /\ req[r].upd = {}
      /\ UNCHANGED <<carts, rows, listedQty, peak>>
  BY RequestTypes DEF FlushDone
<1>1. /\ req[r].op \in {"add", "bulk"} /\ req[r].cart # NoCart
  BY <1>0 DEF Sound, Placed, Request, Ops
<1>2. Goes(r, "insert", req[r].seen, req[r].upd, req[r].ins, req[r].del)
  BY <1>0 DEF FlushDone, Goes, Request
<1>3. /\ "insert" \in Pcs \ {"done"} /\ req[r].seen \in [Listings -> Nat]
      /\ req[r].upd \in SUBSET Write /\ req[r].del \in SUBSET RowId
      /\ req[r].ins \in SUBSET (1..MaxLines)
  BY <1>0 DEF Pcs, Request
<1>4. Placed(r)'
  BY <1>0, <1>1, <1>2, GoesFields DEF Placed, Sound, Over
<1>5. Lined(r)' /\ Offered(r)'
  BY <1>0, <1>2, GoesFields DEF Lined, Offered, Sound, Over
<1> QED BY <1>0, <1>2, <1>3, <1>4, <1>5, GoesFields, StepInv

\* deleteMany deletes rows that r found among those of its user.
LEMMA ToDeleteInv ==
  ASSUME CartInv, NEW r \in Requests, req[r].pc = "findRows",
         req[r].op \in {"remove", "clear"}, NEW found \in SUBSET RowId,
         \A id \in found : id \in req[r].del \/ id \in RowsOf(req[r].user),
         ToDelete(r, found), UNCHANGED <<carts, rows, listedQty, peak>>
  PROVE  CartInv'
<1>0. req[r] \in Request /\ req \in [Requests -> Request] /\ Sound(r)
  BY RequestTypes
<1>1. CASE Answer(r, "err")
  BY <1>1, AnswerInv
<1>2. CASE req' = [req EXCEPT ![r].pc = "delete", ![r].del = found]
  <2>1. Goes(r, "delete", req[r].seen, req[r].upd, req[r].ins, found)
    BY <1>0, <1>2 DEF Goes, Request
  <2>2. /\ "delete" \in Pcs \ {"done"} /\ req[r].seen \in [Listings -> Nat]
        /\ req[r].upd \in SUBSET Write /\ req[r].ins \in SUBSET (1..MaxLines)
    BY <1>0 DEF Pcs, Request
  <2>3. Placed(r)' /\ Lined(r)' /\ Offered(r)'
    BY <1>0, <2>1, GoesFields DEF Placed, Lined, Offered, Sound, Over
  <2>4. Found(r, req[r].upd, found)
    BY <2>1, GoesFields DEF Found
  <2> QED BY <2>1, <2>2, <2>3, <2>4, StepInv
<1> QED BY <1>1, <1>2 DEF ToDelete

\* The rows to delete are found, and are the user's own.
LEMMA FindRemovedInv ==
  ASSUME CartInv, NEW r \in Requests, FindRemoved(r) \/ FindCleared(r)
  PROVE  CartInv'
<1>1. PICK found \in {{}, req[r].del \cap Live, RowsIn(req[r].user, req[r].scope)} :
        ToDelete(r, found)
  BY DEF FindRemoved, FindCleared
<1>2. found \in SUBSET RowId
  BY DEF Live, RowsIn, RowsOf
<1>3. \A id \in found : id \in req[r].del \/ id \in RowsOf(req[r].user)
  BY DEF RowsIn
<1> QED BY <1>1, <1>2, <1>3, ToDeleteInv DEF FindRemoved, FindCleared

\* A quantity is written to the row it was computed for, or to none.
LEMMA FlushUpdateInv ==
  ASSUME CartInv, NEW r \in Requests, FlushUpdate(r)
  PROVE  CartInv'
<1>0. /\ req[r] \in Request /\ req \in [Requests -> Request] /\ Sound(r)
      /\ req[r].pc = "flush" /\ rows \in [RowId -> Row \cup {NoRow}]
      /\ UNCHANGED <<carts, listedQty, peak>>
  BY RequestTypes DEF FlushUpdate
<1>1. req[r].del = {} /\ req[r].answer = "none"
  BY <1>0 DEF Sound, Placed
<1>2. PICK w \in req[r].upd, fault \in Faults :
        /\ rows' = IF fault THEN rows ELSE Written(w)
        /\ IF req[r].op = "bulk"
           THEN req' = [req EXCEPT ![r].upd = @ \ {w}]
           ELSE \E a \in {"ok", "err"} : Answer(r, a)
  BY DEF FlushUpdate, Told
<1>3. /\ w \in Write /\ w.id \in RowId /\ w.quantity \in Int
      /\ w.quantity <= peak[req[r].lines[w.line].listing]
      /\ rows[w.id] # NoRow => rows[w.id].listing = req[r].lines[w.line].listing
  BY <1>0, <1>2 DEF Request, Write, Sound, Offered, Owned
<1>4. \A id \in RowId :
        \/ rows'[id] = rows[id]
        \/ /\ id = w.id /\ rows[id] # NoRow
           /\ rows'[id] = [rows[id] EXCEPT !.quantity = w.quantity]
  <2>1. CASE rows' = rows
    BY <2>1
  <2>2. CASE rows' = Written(w)
    BY <2>2 DEF Written
  <2> QED BY <1>2, <2>1, <2>2
<1>5. /\ rows' \in [RowId -> Row \cup {NoRow}]
      /\ \A id \in RowId :
           /\ rows'[id] = NoRow <=> rows[id] = NoRow
           /\ rows[id] # NoRow =>
                rows'[id].cart = rows[id].cart /\ rows'[id].listing = rows[id].listing
  <2>1. NoRow \notin Row
    BY CartAssumption DEF Row
  <2>2. ASSUME NEW id \in RowId
        PROVE  /\ rows'[id] \in Row \cup {NoRow}
               /\ rows'[id] = NoRow <=> rows[id] = NoRow
               /\ rows[id] # NoRow =>
                    rows'[id].cart = rows[id].cart /\ rows'[id].listing = rows[id].listing
    <3>1. CASE rows'[id] = rows[id]
      BY <1>0, <3>1
    <3>2. CASE rows[id] # NoRow /\ rows'[id] = [rows[id] EXCEPT !.quantity = w.quantity]
      <4>1. rows[id] \in Row
        BY <1>0, <3>2
      <4>2. rows'[id] \in Row /\ rows'[id].cart = rows[id].cart
            /\ rows'[id].listing = rows[id].listing
        BY <1>3, <3>2, <4>1 DEF Row
      <4> QED BY <2>1, <3>2, <4>2
    <3> QED BY <1>4, <3>1, <3>2
  <2>3. rows' = [id \in RowId |-> rows'[id]]
    BY <1>0, <1>2 DEF Written
  <2> QED BY <2>2, <2>3
<1>6. CartsKept /\ \A q \in Requests : req[q].pc = "done" => q # r
  BY <1>0 DEF CartsKept, CartInv, TypeOK
<1>7. ASSUME NEW k \in Request, req' = [req EXCEPT ![r] = k], k.user = req[r].user, Sound(r)'
      PROVE  CartInv'
  <2>1. ASSUME NEW id \in RowId PROVE RowSound(id)'
    <3>1. RowSound(id) /\ id[1] \in Requests
      BY DEF CartInv, RowId
    <3>2. rows[id] # NoRow => req'[id[1]].pc = "done"
      BY <1>0, <1>6, <1>7, <3>1 DEF RowSound
    <3>3. CASE rows'[id] = rows[id]
      BY <1>0, <3>1, <3>2, <3>3 DEF RowSound
    <3>4. CASE /\ id = w.id /\ rows[id] # NoRow
               /\ rows'[id] = [rows[id] EXCEPT !.quantity = w.quantity]
      <4>1. rows[id] \in Row
        BY <1>0, <3>4
      <4>2. rows'[id].quantity = w.quantity
        BY <3>4, <4>1 DEF Row
      <4> QED BY <1>0, <1>3, <1>5, <3>1, <3>2, <3>4, <4>2 DEF RowSound
    <3> QED BY <1>4, <3>3, <3>4
  <2> QED BY <1>0, <1>5, <1>6, <1>7, <2>1, CartInvStep
<1>8. CASE \E a \in {"ok", "err"} : Answer(r, a)
  <2>1. Sound(r)' /\ req'[r] \in Request /\ req' = [req EXCEPT ![r] = req'[r]]
        /\ req'[r].user = req[r].user
    BY <1>0, <1>1, <1>5, <1>6, <1>8, AnswerSound
  <2> QED BY <1>7, <2>1
<1>9. CASE req[r].op = "bulk" /\ req' = [req EXCEPT ![r].upd = @ \ {w}]
  <2> DEFINE k == [req[r] EXCEPT !.upd = @ \ {w}]
  <2>1. req' = [req EXCEPT ![r] = k] /\ req'[r] = k
    BY <1>0, <1>9
  <2>2. k \in Request
    BY <1>0 DEF Request
  <2>3. /\ k.pc = "flush" /\ k.op = "bulk" /\ k.lines = req[r].lines
        /\ k.seen = req[r].seen /\ k.upd = req[r].upd \ {w} /\ k.ins = req[r].ins
        /\ k.del = {} /\ k.cart = req[r].cart /\ k.user = req[r].user /\ k.answer = "none"
    BY <1>0, <1>1, <1>9 DEF Request
  <2> HIDE DEF k
  <2>4. Placed(r)' /\ Lined(r)' /\ Offered(r)'
    BY <1>0, <1>9, <2>1, <2>3 DEF Placed, Lined, Offered, Sound, Over
  <2>5. ASSUME NEW v \in req[r].upd
        PROVE  /\ Mine(r, v.id)'
               /\ rows'[v.id] # NoRow => rows'[v.id].listing = req[r].lines[v.line].listing
    <3>1. /\ Mine(r, v.id) /\ v.id \in RowId /\ v.id[1] \in Requests
          /\ rows[v.id] # NoRow => rows[v.id].listing = req[r].lines[v.line].listing
      BY <1>0 DEF Request, Write, RowId, Sound, Owned
    <3>2. req'[v.id[1]].pc = "done"
      BY <1>0, <1>6, <2>1, <3>1 DEF Mine
    <3> QED BY <1>0, <1>5, <2>1, <2>3, <3>1, <3>2 DEF Mine
  <2>6. Owned(r)'
    BY <1>0, <2>1, <2>3, <2>5 DEF Owned, Sound
  <2> QED BY <1>7, <2>1, <2>2, <2>3, <2>4, <2>6 DEF Sound
<1> QED BY <1>2, <1>8, <1>9

\* New rows lie in the cart the request was given, with quantities that were offered.
LEMMA InsertItemsInv ==
  ASSUME CartInv, NEW r \in Requests, InsertItems(r)
  PROVE  CartInv'
<1>0. /\ req[r] \in Request /\ req \in [Requests -> Request] /\ Sound(r)
      /\ req[r].pc = "insert" /\ rows \in [RowId -> Row \cup {NoRow}]
      /\ UNCHANGED <<carts, listedQty, peak>>
  BY RequestTypes DEF InsertItems
<1>1. /\ req[r].del = {} /\ req[r].cart # NoCart /\ carts[req[r].cart] = req[r].user
      /\ req[r].cart \in Requests /\ req[r].user \in Users /\ req[r].user # NoUser
  BY <1>0, CartAssumption DEF Sound, Placed, Owned, Request
<1> DEFINE new(i) == [cart |-> req[r].cart, listing |-> req[r].lines[i].listing,
                      quantity |-> req[r].lines[i].quantity]
<1>2. PICK fault \in Faults :
        /\ rows' = IF fault THEN rows
                   ELSE [id \in RowId |-> IF id[1] = r /\ id[2] \in req[r].ins
                                          THEN new(id[2]) ELSE rows[id]]
        /\ \E a \in {"ok", "err"} : Answer(r, a)
  BY DEF InsertItems, Told
<1>3. ASSUME NEW i \in req[r].ins
      PROVE  /\ new(i) \in Row /\ new(i).cart = req[r].cart
             /\ new(i).quantity <= peak[new(i).listing]
  <2>1. req[r].lines \in Seq(Line) /\ i \in DOMAIN req[r].lines
    BY <1>0 DEF Request, Sound, Lined
  <2>2. req[r].lines[i] \in Line /\ Quantities \subseteq Int
    BY <2>1, CartAssumption
  <2>3. req[r].lines[i].listing \in Listings /\ req[r].lines[i].quantity \in Int
    BY <2>2 DEF Line
  <2> QED BY <1>0, <1>1, <2>3 DEF Row, Sound, Offered
<1>4. \A id \in RowId : \/ rows'[id] = rows[id]
                        \/ id[1] = r /\ id[2] \in req[r].ins /\ rows'[id] = new(id[2])
  BY <1>0, <1>2
<1> HIDE DEF new
<1>5. rows' \in [RowId -> Row \cup {NoRow}]
  <2>1. rows' = [id \in RowId |-> rows'[id]]
    BY <1>0, <1>2
  <2>2. \A id \in RowId : rows'[id] \in Row \cup {NoRow}
    BY <1>0, <1>3, <1>4
  <2> QED BY <2>1, <2>2
<1>6. CartsKept /\ \A q \in Requests : req[q].pc = "done" => q # r
  BY <1>0 DEF CartsKept, CartInv, TypeOK
<1>7. Sound(r)' /\ req'[r] \in Request /\ req' = [req EXCEPT ![r] = req'[r]]
      /\ req'[r].user = req[r].user
  BY <1>0, <1>1, <1>2, <1>5, <1>6, AnswerSound
<1>8. req'[r].pc = "done"
  BY <1>0, <1>2 DEF Answer
<1>9. ASSUME NEW id \in RowId PROVE RowSound(id)'
  <2>1. RowSound(id) /\ id[1] \in Requests
    BY DEF CartInv, RowId
  <2>2. CASE rows'[id] = rows[id]
    <3>1. req[id[1]].pc = "done" => req'[id[1]].pc = "done"
      BY <1>0, <1>6, <1>7, <2>1
    <3> QED BY <1>0, <2>1, <2>2, <3>1 DEF RowSound
  <2>3. CASE id[1] = r /\ id[2] \in req[r].ins /\ rows'[id] = new(id[2])
    BY <1>0, <1>1, <1>3, <1>8, <2>3 DEF RowSound
  <2> QED BY <1>4, <2>2, <2>3
<1>10. \A id \in RowId : rows'[id] = rows[id] \/ id[1] = r
  BY <1>4
<1> QED BY <1>0, <1>5, <1>6, <1>7, <1>9, <1>10, CartInvStep

\* The rows found are gone when the request answers "ok".
LEMMA DeleteInv ==
  ASSUME CartInv, NEW r \in Requests, Delete(r)
  PROVE  CartInv'
<1>0. /\ req[r] \in Request /\ req \in [Requests -> Request] /\ Sound(r)
      /\ req[r].pc = "delete" /\ rows \in [RowId -> Row \cup {NoRow}]
      /\ UNCHANGED <<carts, listedQty, peak>>
  BY RequestTypes DEF Delete
<1>1. PICK fault \in Faults :
        /\ rows' = IF fault THEN rows
                   ELSE [id \in RowId |-> IF id \in req[r].del THEN NoRow ELSE rows[id]]
        /\ Answer(r, IF fault THEN "err" ELSE "ok")
  BY DEF Delete
<1>2. /\ rows' \in [RowId -> Row \cup {NoRow}]
      /\ \A id \in RowId : rows'[id] = rows[id] \/ rows'[id] = NoRow
  BY <1>0, <1>1
<1>3. (\A id \in req[r].del : rows'[id] = NoRow) \/ (fault /\ rows' = rows)
  BY <1>0, <1>1 DEF Request
<1>4. CartsKept /\ \A q \in Requests : req[q].pc = "done" => q # r
  BY <1>0 DEF CartsKept, CartInv, TypeOK
<1>5. Sound(r)' /\ req'[r] \in Request /\ req' = [req EXCEPT ![r] = req'[r]]
      /\ req'[r].user = req[r].user
  BY <1>0, <1>1, <1>2, <1>3, <1>4, AnswerSound
<1>6. ASSUME NEW id \in RowId PROVE RowSound(id)'
  <2>1. RowSound(id) /\ id[1] \in Requests
    BY DEF CartInv, RowId
  <2>2. req[id[1]].pc = "done" => req'[id[1]].pc = "done"
    BY <1>0, <1>4, <1>5, <2>1
  <2> QED BY <1>0, <1>2, <2>1, <2>2 DEF RowSound
<1> QED BY <1>0, <1>2, <1>4, <1>5, <1>6, CartInvStep

\* The stock changes; what was offered stays on record.
LEMMA SellerSetsStockInv ==
  ASSUME CartInv, NEW l \in Listings, NEW n \in Stocks, SellerSetsStock(l, n)
  PROVE  CartInv'
<1>0. /\ listedQty \in [Listings -> Stocks] /\ peak \in [Listings -> Stocks]
      /\ Stocks \subseteq Nat /\ UNCHANGED <<carts, rows, req>>
      /\ listedQty' = [listedQty EXCEPT ![l] = n]
      /\ peak' = [peak EXCEPT ![l] = IF n > peak[l] THEN n ELSE peak[l]]
  BY CartAssumption DEF CartInv, TypeOK, Stock, SellerSetsStock
<1>1. TypeOK'
  BY <1>0 DEF CartInv, TypeOK, Stock
<1>2. \A m \in Listings : peak[m] \in Nat /\ peak'[m] \in Nat /\ peak[m] <= peak'[m]
  <2> SUFFICES ASSUME NEW m \in Listings
               PROVE  peak[m] \in Nat /\ peak'[m] \in Nat /\ peak[m] <= peak'[m]
    OBVIOUS
  <2>1. peak[m] \in Nat /\ n \in Nat
    BY <1>0
  <2>2. peak'[m] = peak[m] \/ (peak'[m] = n /\ n > peak[m])
    BY <1>0
  <2> QED BY <2>1, <2>2
<1>3. \A m \in Listings : listedQty'[m] <= peak'[m]
  <2> SUFFICES ASSUME NEW m \in Listings PROVE listedQty'[m] <= peak'[m]
    OBVIOUS
  <2>1. listedQty[m] <= peak[m] /\ listedQty[m] \in Nat /\ n \in Nat
    BY <1>0 DEF CartInv
  <2>2. CASE m = l
    BY <1>0, <1>2, <2>1, <2>2
  <2>3. CASE m # l
    BY <1>0, <1>2, <2>1, <2>3
  <2> QED BY <2>2, <2>3
<1>4. \A q \in Int, k \in Listings : q <= peak[k] => q <= peak'[k]
  BY <1>2
<1>5. ASSUME NEW id \in RowId PROVE RowSound(id)'
  <2>1. RowSound(id) /\ rows[id] \in Row \cup {NoRow}
    BY DEF CartInv, TypeOK
  <2> QED BY <1>0, <1>4, <2>1 DEF RowSound, Row
<1>6. ASSUME NEW r \in Requests PROVE Sound(r)'
  <2>1. Sound(r) /\ req[r] \in Request
    BY DEF CartInv, TypeOK
  <2>2. Placed(r)' /\ Lined(r)' /\ Owned(r)'
    BY <1>0, <2>1 DEF Sound, Placed, Lined, Owned, Mine
  <2>3. /\ req[r].lines \in Seq(Line) /\ req[r].ins \subseteq DOMAIN req[r].lines
        /\ \A w \in req[r].upd : w.line \in DOMAIN req[r].lines /\ w.quantity \in Int
        /\ \A k \in Listings : req[r].seen[k] \in Nat
    BY <2>1 DEF Request, Write, Sound, Lined
  <2>4. \A i \in DOMAIN req[r].lines :
          req[r].lines[i].listing \in Listings /\ req[r].lines[i].quantity \in Int
    <3>1. Quantities \subseteq Int
      BY CartAssumption
    <3>2. \A i \in DOMAIN req[r].lines : req[r].lines[i] \in Line
      BY <2>3
    <3> QED BY <3>1, <3>2 DEF Line
  <2>5. req[r].op = "add" /\ req[r].pc \notin Over => 1 \in DOMAIN req[r].lines
    BY <2>1, <2>3 DEF Sound, Placed
  <2>6. Offered(r)'
    <3>1. Offered(r)
      BY <2>1 DEF Sound
    <3>2. \A k \in Listings : req[r].seen[k] <= peak'[k]
      BY <1>4, <2>3, <3>1 DEF Offered
    <3>3. req[r].op = "add" /\ req[r].pc \notin Over =>
            req[r].lines[1].quantity <= peak'[req[r].lines[1].listing]
      BY <1>4, <2>4, <2>5, <3>1 DEF Offered
    <3>4. \A i \in req[r].ins : req[r].lines[i].quantity <= peak'[req[r].lines[i].listing]
      BY <1>4, <2>3, <2>4, <3>1 DEF Offered
    <3>5. req[r].pc = "flush" =>
            \A w \in req[r].upd : w.quantity <= peak'[req[r].lines[w.line].listing]
      BY <1>4, <2>3, <2>4, <3>1 DEF Offered
    <3> QED BY <1>0, <3>2, <3>3, <3>4, <3>5 DEF Offered
  <2> QED BY <2>2, <2>6 DEF Sound
<1> QED BY <1>0, <1>1, <1>3, <1>5, <1>6 DEF CartInv

-----------------------------------------------------------------------------

\* Every step of every handler, and of the sellers' portal, preserves CartInv.
LEMMA CartInvNext == CartInv /\ [Next]_vars => CartInv'
<1> SUFFICES ASSUME CartInv, [Next]_vars PROVE CartInv'
  OBVIOUS
<1>1. ASSUME NEW r \in Requests, Start(r) PROVE CartInv'
  <2>1. \A s : {l \in Listings : ShopOf[l] = s} \in SUBSET Listings
    OBVIOUS
  <2> QED
    BY <1>1, <2>1, AddItemInv, UpdateItemQuantityInv, AddItemsBulkInv, RemoveItemInv, ClearScopeInv
    DEF Start, ClearCart, ClearShopItems, RemoveItemsByListingIds
<1>2. ASSUME NEW r \in Requests, Continue(r) PROVE CartInv'
  BY <1>2, LookForCartInv, CreateCartInv, FindItemInv, FetchListingsInv, MapItemsForBulkInv,
     ValidateUpdateInv, FlushUpdateInv, FlushDoneInv, InsertItemsInv, FindRemovedInv, DeleteInv
  DEF Continue, FindCart, RecheckCart
<1>3. CASE UNCHANGED vars
  BY <1>3 DEF vars, CartInv, TypeOK, Stock, RowSound, Sound, Placed, Lined, Offered, Owned, Mine
<1> QED BY <1>1, <1>2, <1>3, SellerSetsStockInv DEF Next

\* CartInv holds in every reachable state.
THEOREM CartInvAlways == Spec => []CartInv
BY CartInvInit, CartInvNext, PTL DEF Spec

-----------------------------------------------------------------------------

\* The states of the cart keep their types.
THEOREM CartTypeOK == Spec => []TypeOK
BY CartInvAlways, PTL DEF CartInv

\* No item ever asks for more than its listing offered at some time, whichever requests
\* interleave and whichever database calls fail.
THEOREM CartQuantityWasOffered == Spec => []QuantityWasOffered
<1>1. CartInv => QuantityWasOffered
  BY DEF CartInv, QuantityWasOffered, Live, RowSound
<1> QED BY <1>1, CartInvAlways, PTL

\* Every item lies in a stored cart, also when the creation of a cart failed halfway.
THEOREM CartItemsLieInCarts == Spec => []ItemsLieInCarts
<1>1. CartInv => ItemsLieInCarts
  BY DEF CartInv, ItemsLieInCarts, Live, RowSound
<1> QED BY <1>1, CartInvAlways, PTL

\* An item a request reported as deleted is never written again.
THEOREM CartDeletedStaysDeleted == Spec => []DeletedStaysDeleted
<1>1. CartInv => DeletedStaysDeleted
  BY DEF CartInv, DeletedStaysDeleted, Live, Sound, Owned
<1> QED BY <1>1, CartInvAlways, PTL

-----------------------------------------------------------------------------

\* Rows are written in three places only.
LEMMA RowWriters ==
  ASSUME CartInv, [Next]_vars, rows' # rows
  PROVE  \E q \in Requests : FlushUpdate(q) \/ InsertItems(q) \/ Delete(q)
<1>1. ASSUME NEW r \in Requests, Start(r) PROVE rows' = rows
  BY <1>1 DEF Start, AddItem, UpdateItemQuantity, AddItemsBulk, RemoveItem, ClearCart,
     ClearShopItems, RemoveItemsByListingIds, ClearScope
<1>2. ASSUME NEW r \in Requests, Continue(r)
      PROVE  rows' = rows \/ FlushUpdate(r) \/ InsertItems(r) \/ Delete(r)
  BY <1>2 DEF Continue, FindCart, RecheckCart, LookForCart, CreateCart, FindItem, FetchListings,
     MapItemsForBulk, ValidateUpdate, FlushDone, FindRemoved, FindCleared
<1> QED BY <1>1, <1>2 DEF Next, SellerSetsStock, vars

\* The request that writes a row is the one that acts.
LEMMA ActsAlone ==
  ASSUME CartInv, NEW q \in Requests, FlushUpdate(q) \/ InsertItems(q) \/ Delete(q),
         NEW r \in Requests, Acts(r)
  PROVE  r = q
<1>1. req \in [Requests -> Request]
  BY DEF CartInv, TypeOK
<1>2. ASSUME NEW a, Answer(q, a) PROVE \A o \in Requests \ {q} : req'[o] = req[o]
  BY <1>1, <1>2 DEF Answer
<1>3. \A o \in Requests \ {q} : req'[o] = req[o]
  <2>1. CASE \E a : Answer(q, a)
    BY <1>2, <2>1
  <2>2. CASE \E w : req' = [req EXCEPT ![q].upd = @ \ {w}]
    BY <1>1, <2>2
  <2> QED BY <2>1, <2>2 DEF FlushUpdate, InsertItems, Delete
<1> QED BY <1>3 DEF Acts

\* A row that a request writes is in a cart of its user.
LEMMA OwnRows ==
  ASSUME CartInv, NEW r \in Requests, FlushUpdate(r) \/ InsertItems(r) \/ Delete(r),
         NEW id \in RowId, rows'[id] # rows[id]
  PROVE  carts[(IF rows[id] # NoRow THEN rows[id] ELSE rows'[id]).cart] = req[r].user
<1>1. req[r] \in Request /\ Sound(r) /\ RowSound(id)
  BY DEF CartInv, TypeOK
<1>2. CASE FlushUpdate(r)
  <2>1. PICK w \in req[r].upd : rows' \in {rows, Written(w)}
    BY <1>2 DEF FlushUpdate
  <2>2. id = w.id /\ rows[id] # NoRow
    BY <2>1 DEF Written
  <2> QED BY <1>1, <2>1, <2>2 DEF Sound, Owned, Mine
<1>3. CASE InsertItems(r)
  <2>1. id[1] = r /\ req[r].pc = "insert" /\ rows'[id].cart = req[r].cart
    BY <1>3 DEF InsertItems
  <2>2. rows[id] = NoRow
    BY <1>1, <2>1 DEF RowSound
  <2> QED BY <1>1, <2>1, <2>2 DEF Sound, Placed, Owned
<1>4. CASE Delete(r)
  <2>1. id \in req[r].del /\ rows'[id] = NoRow
    BY <1>4 DEF Delete
  <2> QED BY <1>1, <2>1 DEF Sound, Owned, Mine
<1> QED BY <1>2, <1>3, <1>4

\* A request writes rows of its own user only, although it addresses them by ids it read
\* before an await.
THEOREM CartOwnItemsOnly == Spec => OwnItemsOnly
<1>1. CartInv /\ [Next]_vars =>
        [\A r \in Requests, id \in RowId :
           Acts(r) /\ rows'[id] # rows[id] =>
             carts[(IF rows[id] # NoRow THEN rows[id] ELSE rows'[id]).cart] = req[r].user]_vars
  BY RowWriters, ActsAlone, OwnRows
<1> QED BY <1>1, CartInvAlways, PTL DEF Spec, OwnItemsOnly
-----------------------------------------------------------------------------
(* What a step leaves alone *)

\* A step of a request changes that request only, which is not over, and never its user.
LEMMA OneActs ==
  ASSUME CartInv, NEW r \in Requests,
         Start(r) \/ Continue(r) \/ \E scope : ClearScope(r, scope)
  PROVE  /\ req[r].pc # "done" /\ req'[r].user = req[r].user
         /\ \A q \in Requests \ {r} : req'[q] = req[q]
<1>1. req \in [Requests -> Request] /\ req[r] \in Request
  BY DEF CartInv, TypeOK
<1>2. ASSUME NEW a, Answer(r, a)
      PROVE  req'[r].user = req[r].user /\ \A q \in Requests \ {r} : req'[q] = req[q]
  BY <1>1, <1>2 DEF Answer, Request
<1>3. CASE Start(r) \/ \E scope : ClearScope(r, scope)
  <2>1. CASE \E l, q : AddItem(r, l, q)
    BY <1>1, <1>2, <2>1 DEF AddItem, Request
  <2>2. CASE \E l, q : UpdateItemQuantity(r, l, q)
    <3>1. req[r].pc = "idle"
          /\ \/ Answer(r, "err")
             \/ \E lines, upd : req' = [req EXCEPT ![r].op = "update", ![r].lines = lines,
                                                  ![r].upd = upd, ![r].pc = "fetchListings"]
      BY <2>2, Zenon DEF UpdateItemQuantity
    <3>2. ASSUME NEW lines, NEW upd,
                 req' = [req EXCEPT ![r].op = "update", ![r].lines = lines, ![r].upd = upd,
                                    ![r].pc = "fetchListings"]
          PROVE  req'[r].user = req[r].user /\ \A q \in Requests \ {r} : req'[q] = req[q]
      BY <1>1, <3>2 DEF Request
    <3> QED BY <1>2, <3>1, <3>2
  <2>3. CASE \E lines : AddItemsBulk(r, lines)
    BY <1>1, <2>3 DEF AddItemsBulk, Request
  <2>4. CASE \E l : RemoveItem(r, l)
    <3>1. req[r].pc = "idle"
          /\ \/ Answer(r, "err")
             \/ \E scope, del : req' = [req EXCEPT ![r].op = "remove", ![r].scope = scope,
                                                  ![r].del = del, ![r].pc = "findRows"]
      BY <2>4, Zenon DEF RemoveItem
    <3>2. ASSUME NEW scope, NEW del,
                 req' = [req EXCEPT ![r].op = "remove", ![r].scope = scope, ![r].del = del,
                                    ![r].pc = "findRows"]
          PROVE  req'[r].user = req[r].user /\ \A q \in Requests \ {r} : req'[q] = req[q]
      BY <1>1, <3>2 DEF Request
    <3> QED BY <1>2, <3>1, <3>2
  <2>5. CASE \E scope : ClearScope(r, scope)
    BY <1>1, <2>5, ZenonT(60) DEF ClearScope, Request
  <2> QED
    BY <1>3, <2>1, <2>2, <2>3, <2>4, <2>5
    DEF Start, ClearCart, ClearShopItems, RemoveItemsByListingIds
<1>4. CASE Continue(r)
  <2>1. CASE FindCart(r) \/ RecheckCart(r)
    BY <1>1, <2>1, ZenonT(60) DEF FindCart, RecheckCart, LookForCart, Request
  <2>2. CASE CreateCart(r)
    BY <1>1, <1>2, <2>2 DEF CreateCart, Request
  <2>3. CASE FindItem(r)
    BY <1>1, <1>2, <2>3 DEF FindItem, Request
  <2>4. CASE FetchListings(r) \/ FlushDone(r)
    BY <1>1, <2>4 DEF FetchListings, FlushDone, Request
  <2>5. CASE MapItemsForBulk(r)
    <3>1. req[r].pc = "findRows"
          /\ \E upd, ins : req' = [req EXCEPT ![r].pc = "flush", ![r].upd = upd, ![r].ins = ins]
      BY <2>5 DEF MapItemsForBulk
    <3> QED BY <1>1, <3>1 DEF Request
  <2>6. CASE ValidateUpdate(r)
    BY <1>1, <1>2, <2>6 DEF ValidateUpdate, Request
  <2>7. CASE FlushUpdate(r)
    BY <1>1, <1>2, <2>7 DEF FlushUpdate, Request
  <2>8. CASE InsertItems(r) \/ Delete(r)
    BY <1>1, <1>2, <2>8 DEF InsertItems, Delete
  <2>9. CASE FindRemoved(r) \/ FindCleared(r)
    BY <1>1, <1>2, <2>9 DEF FindRemoved, FindCleared, ToDelete, Request
  <2> QED BY <1>4, <2>1, <2>2, <2>3, <2>4, <2>5, <2>6, <2>7, <2>8, <2>9 DEF Continue
<1> QED BY <1>3, <1>4

\* A row inserted by a request that is over keeps its cart and its listing until it is deleted,
\* and does not come back then.
LEMMA RowKept ==
  ASSUME CartInv, [Next]_vars, NEW id \in RowId, req[id[1]].pc = "done", rows'[id] # NoRow
  PROVE  /\ rows[id] # NoRow
         /\ rows'[id].cart = rows[id].cart /\ rows'[id].listing = rows[id].listing
<1>1. rows \in [RowId -> Row \cup {NoRow}]
  BY DEF CartInv, TypeOK
<1>2. CASE rows' = rows
  BY <1>2
<1>3. ASSUME NEW r \in Requests, FlushUpdate(r) \/ InsertItems(r) \/ Delete(r),
             rows' # rows
      PROVE  /\ rows[id] # NoRow
             /\ rows'[id].cart = rows[id].cart /\ rows'[id].listing = rows[id].listing
  <2>1. CASE FlushUpdate(r)
    <3>1. PICK w : rows' = Written(w)
      BY <1>3, <2>1 DEF FlushUpdate
    <3>2. rows'[id] = rows[id] \/ (rows[id] # NoRow
                                   /\ rows'[id] = [rows[id] EXCEPT !.quantity = w.quantity])
      BY <3>1 DEF Written
    <3>3. rows[id] # NoRow => rows[id] \in Row
      BY <1>1
    <3> QED BY <3>2, <3>3 DEF Row
  <2>2. CASE InsertItems(r)
    BY <1>3, <2>2 DEF InsertItems
  <2>3. CASE Delete(r)
    BY <1>3, <2>3 DEF Delete
  <2> QED BY <1>3, <2>1, <2>2, <2>3
<1> QED BY <1>2, <1>3, RowWriters

\* A cart that is stored keeps its owner.
LEMMA CartStays ==
  ASSUME CartInv, [Next]_vars, NEW c \in Requests, carts[c] # NoUser
  PROVE  carts'[c] = carts[c]
<1>1. ASSUME NEW r \in Requests, CreateCart(r) PROVE carts'[c] = carts[c]
  <2>1. carts' = carts \/ carts' = [carts EXCEPT ![r] = req[r].user]
    BY <1>1 DEF CreateCart
  <2>2. carts \in [Requests -> Users \cup {NoUser}] /\ carts[c] = req[c].user
    BY DEF CartInv, TypeOK
  <2> QED BY <2>1, <2>2
<1>2. ASSUME NEW r \in Requests, Start(r) \/ Continue(r), ~CreateCart(r)
      PROVE  carts' = carts
  BY <1>2
  DEF Start, AddItem, UpdateItemQuantity, AddItemsBulk, RemoveItem, ClearCart,
      ClearShopItems, RemoveItemsByListingIds, ClearScope, Continue, FindCart,
      RecheckCart, LookForCart, FindItem, FetchListings, MapItemsForBulk,
      ValidateUpdate, FlushUpdate, FlushDone, InsertItems, FindRemoved,
      FindCleared, Delete
<1> QED
  BY <1>1, <1>2 DEF Next, SellerSetsStock, vars

=============================================================================
