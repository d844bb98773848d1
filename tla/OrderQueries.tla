------------------------------ MODULE OrderQueries ------------------------------
(***************************************************************************)
(* What customers are shown of their orders (orders.service.ts): the list  *)
(* with its filters, the details of an order, and the status calculated    *)
(* from its sources.  The sources are moved on by the dashboard of the     *)
(* shops, another project on the same database, which brings the status    *)
(* of the order after them, and by the gateway's callback (OrderCreation-  *)
(* Service), which may write between the dashboard's writes what it read   *)
(* before them.  Callbacks that overlap are Payments'.                     *)
(***************************************************************************)
EXTENDS Naturals, FiniteSets, Functions

CONSTANTS
  Orders, Sources, Shops,
  OrderOf,   \* OrderOf[s]: the order of source s
  ShopOf,    \* ShopOf[s]: its shop, or NoShop
  NoShop,
  ByCard,    \* the orders paid through the gateway
  Filters,   \* bound: the statuses a list is asked for by
  MaxMoves   \* bound: changes of a source's status by the dashboard

\* what a run assumes of the constants
OrderQueriesAssumption ==
  /\ Orders # {} /\ IsFiniteSet(Orders)
  /\ OrderOf \in [Sources -> Orders]
  /\ ShopOf \in [Sources -> Shops \cup {NoShop}]
  /\ \A o \in Orders : \E s \in Sources : OrderOf[s] = o
  /\ ByCard \subseteq Orders
  /\ MaxMoves \in Nat

\* Requests do not write: one is followed at a time.
VARIABLES
  source,   \* source[s]: the status of source s
  status,   \* status[o]: the stored status of order o
  trx,      \* trx[o]: the status of its payment's transaction
  details,  \* a request for the details of an order
  list,     \* a request for the list of orders
  moves,
  callback  \* the gateway's callback being handled; bound: one at a time

vars == <<source, status, trx, details, list, moves, callback>>

-----------------------------------------------------------------------------
(* Statuses *)

OrderStatuses ==
  {"Pending", "Verifying Payment", "Payment Failed", "In Progress", "Partially Fulfilled",
   "Completed", "Cancelled"}
SourceStatuses ==
  {"Pending", "Verifying Payment", "Payment Failed", "Confirmed", "Picked", "Shipped",
   "Delivered", "Cancelled"}
TrxStatuses == {"PENDING", "APPROVED", "DECLINED"}

\* the gateway's word, and what APG_ORDER_STATUS_MAP and APG_TRX_STATUS_MAP make of it
BankStatuses == {"Initiated", "Paid", "Failed"}
OrderStatus(b) == [Initiated |-> "Pending", Paid |-> "Verifying Payment", Failed |-> "Payment Failed"][b]
TrxStatus(b)   == [Initiated |-> "PENDING", Paid |-> "APPROVED", Failed |-> "DECLINED"][b]

SourcesOf(o) == {s \in Sources : OrderOf[s] = o}
Statuses(o) == {source[s] : s \in SourcesOf(o)}

\* calculateOrderStatus, of the set of the sources' statuses
CalculateOrderStatus(statuses) ==
  CASE statuses = {}                      -> "Pending"
    [] statuses = {"Payment Failed"}      -> "Payment Failed"
    [] "Verifying Payment" \in statuses   -> "Verifying Payment"
    [] statuses = {"Cancelled"}           -> "Cancelled"
    [] statuses = {"Delivered"}           -> "Completed"
    [] OTHER ->
         IF "Delivered" \in statuses /\ statuses \ {"Delivered", "Cancelled"} # {}
         THEN "Partially Fulfilled"
         ELSE IF statuses \cap {"Confirmed", "Picked", "Shipped"} # {}
         THEN "In Progress" ELSE "Pending"

Displayed(o) == CalculateOrderStatus(Statuses(o))

-----------------------------------------------------------------------------

Details ==
  [pc: {"idle", "order", "payment", "answered"}, order: Orders, status: OrderStatuses,
   trx: TrxStatuses, groups: SUBSET SUBSET Sources]
\* a list is asked for by status, or for all
List ==
  [pc: {"idle", "found", "answered"}, filter: Filters \cup {"all"}, found: SUBSET Orders,
   shown: [Orders -> OrderStatuses], counts: [OrderStatuses -> Nat]]

\* what the gateway said when it was asked, and what was read of the order
Callback ==
  [pc: {"idle", "read", "flush"}, order: Orders, seen: BankStatuses,
   sources: [Sources -> SourceStatuses], trx: TrxStatuses]

NoDetails == [pc |-> "idle", order |-> CHOOSE o \in Orders : TRUE, status |-> "Pending",
              trx |-> "PENDING", groups |-> {}]
NoList == [pc |-> "idle", filter |-> "all", found |-> {}, shown |-> [o \in Orders |-> "Pending"],
           counts |-> [st \in OrderStatuses |-> 0]]
NoCallback == [pc |-> "idle", order |-> CHOOSE o \in Orders : TRUE, seen |-> "Initiated",
               sources |-> [s \in Sources |-> "Pending"], trx |-> "PENDING"]

TypeOK ==
  /\ source \in [Sources -> SourceStatuses]
  /\ status \in [Orders -> OrderStatuses]
  /\ trx \in [Orders -> TrxStatuses]
  /\ details \in Details
  /\ list \in List
  /\ moves \in 0 .. MaxMoves
  /\ callback \in Callback

Init ==
  /\ source = [s \in Sources |-> "Pending"]
  /\ status = [o \in Orders |-> "Pending"]
  /\ trx = [o \in Orders |-> "PENDING"]
  /\ details = NoDetails
  /\ list = NoList
  /\ moves = 0
  /\ callback = NoCallback

-----------------------------------------------------------------------------
(* A callback of the gateway: updateOrderDataAfterPaymentByCard *)

\* the gateway was asked for its word, the last once the payment is decided
CallbackArrives(o, b) ==
  /\ callback.pc = "idle" /\ o \in ByCard
  /\ trx[o] # "PENDING" => TrxStatus(b) = trx[o]
  /\ callback' = [NoCallback EXCEPT !.pc = "read", !.order = o, !.seen = b]
  /\ UNCHANGED <<source, status, trx, details, list, moves>>

\* mutant: an order that was decided is not told from one that is pending
CallbackReadsAny(found) ==
  LET o == callback.order
  IN /\ callback.pc = "read"
     /\ callback' = IF found
                    THEN [callback EXCEPT !.pc = "flush", !.trx = trx[o],
                            !.sources = [s \in Sources |-> IF s \in SourcesOf(o) THEN source[s]
                                                            ELSE "Pending"]]
                    ELSE NoCallback
     /\ UNCHANGED <<source, status, trx, details, list, moves>>

\* the order with its sources and its payment: one that is found and stored as pending
CallbackReads(found) ==
  LET o == callback.order
  IN /\ callback.pc = "read"
     /\ callback' = IF found /\ status[o] = "Pending"
                    THEN [callback EXCEPT !.pc = "flush", !.trx = trx[o],
                            !.sources = [s \in Sources |-> IF s \in SourcesOf(o) THEN source[s]
                                                            ELSE "Pending"]]
                    ELSE NoCallback
     /\ UNCHANGED <<source, status, trx, details, list, moves>>

\* one flush of all sources, the payment and the order, of the columns that are not as they were
\* read, over whatever the dashboard has written since; it may fail
CallbackFlushes(ok) ==
  LET o  == callback.order
      st == OrderStatus(callback.seen)
      tr == TrxStatus(callback.seen)
  IN /\ callback.pc = "flush"
     /\ callback' = NoCallback
     /\ IF ok
        THEN /\ source' = [s \in Sources |-> IF s \in SourcesOf(o) /\ callback.sources[s] # st
                                             THEN st ELSE source[s]]
             /\ status' = [status EXCEPT ![o] = IF st # "Pending" THEN st ELSE @]
             /\ trx' = [trx EXCEPT ![o] = IF callback.trx # tr THEN tr ELSE @]
        ELSE UNCHANGED <<source, status, trx>>
     /\ UNCHANGED <<details, list, moves>>

-----------------------------------------------------------------------------
(* The dashboard *)

\* docs/orders-knowledge.md:100-107
Transitions ==
  {<<"Pending", "Confirmed">>, <<"Verifying Payment", "Confirmed">>,
   <<"Verifying Payment", "Payment Failed">>, <<"Confirmed", "Picked">>, <<"Picked", "Shipped">>,
   <<"Shipped", "Delivered">>} \cup {<<st, "Cancelled">> : st \in SourceStatuses \ {"Cancelled"}}

DashboardMoves(s, to) ==
  /\ <<source[s], to>> \in Transitions
  /\ moves < MaxMoves /\ moves' = moves + 1
  /\ source' = [source EXCEPT ![s] = to]
  /\ UNCHANGED <<status, trx, details, list, callback>>

\* the dashboard's calculation of the status is not in this repository: its own is used
DashboardFollows(o) ==
  /\ status[o] # Displayed(o)
  /\ status' = [status EXCEPT ![o] = Displayed(o)]
  /\ UNCHANGED <<source, trx, details, list, moves, callback>>

-----------------------------------------------------------------------------
(* Details: getOrderById *)

\* sources by shop; one without a shop is a group of its own
Groups(o) ==
  LET Key(s) == IF ShopOf[s] = NoShop THEN s ELSE ShopOf[s]
  IN {{t \in SourcesOf(o) : Key(t) = Key(s)} : s \in SourcesOf(o)}

AskDetails(o) ==
  /\ details.pc = "idle" /\ list.pc = "idle"
  /\ details' = [NoDetails EXCEPT !.pc = "order", !.order = o]
  /\ UNCHANGED <<source, status, trx, list, moves, callback>>

\* mutant: the payment is read first
PaymentFirst ==
  LET o == details.order
  IN \/ /\ details.pc = "order"
        /\ details' = [details EXCEPT !.pc = "payment", !.trx = trx[o]]
        /\ UNCHANGED <<source, status, trx, list, moves, callback>>
     \/ /\ details.pc = "payment"
        /\ details' = [details EXCEPT !.pc = "answered", !.status = Displayed(o),
                                      !.groups = Groups(o)]
        /\ UNCHANGED <<source, status, trx, list, moves, callback>>

\* the order with its sources is read, and the status calculated of what was read
ReadOrder ==
  LET o == details.order
  IN /\ details.pc = "order"
     /\ details' = [details EXCEPT !.pc = "payment", !.status = Displayed(o), !.groups = Groups(o)]
     /\ UNCHANGED <<source, status, trx, list, moves, callback>>

\* the payment is read next, and the answer given
ReadPayment ==
  /\ details.pc = "payment"
  /\ details' = [details EXCEPT !.pc = "answered", !.trx = trx[details.order]]
  /\ UNCHANGED <<source, status, trx, list, moves, callback>>

CloseDetails ==
  /\ details.pc = "answered"
  /\ details' = NoDetails
  /\ UNCHANGED <<source, status, trx, list, moves, callback>>

-----------------------------------------------------------------------------
(* The list: fetchAllDeliveryOrders *)

\* the rows by their stored status, each shown with the calculated one; no rows, no answer
Matching(filter) == {o \in Orders : filter = "all" \/ status[o] = filter}

AskList(filter) ==
  /\ list.pc = "idle" /\ details.pc = "idle"
  /\ list' = [NoList EXCEPT !.pc = "found", !.filter = filter, !.found = Matching(filter),
                !.shown = [o \in Orders |-> IF o \in Matching(filter) THEN Displayed(o)
                                            ELSE "Pending"]]
  /\ UNCHANGED <<source, status, trx, details, moves, callback>>

\* getStatusCounts, of the same conditions without the status
CountStatuses ==
  /\ list.pc = "found"
  /\ list' = [list EXCEPT !.pc = "answered",
                !.counts = [st \in OrderStatuses |->
                              Cardinality({o \in Orders : status[o] = st})]]
  /\ UNCHANGED <<source, status, trx, details, moves, callback>>

CloseList ==
  /\ list.pc = "answered"
  /\ list' = NoList
  /\ UNCHANGED <<source, status, trx, details, moves, callback>>

-----------------------------------------------------------------------------
(* updateOrderData *)

\* of an order that is not shown pending, or not with a pending payment by card, nothing may be
\* changed; otherwise the table of payments is asked for an order number, a column that it does
\* not have, and the update fails
UpdateAnswer(o, changes) ==
  IF Displayed(o) # "Pending" \/ o \notin ByCard \/ trx[o] # "PENDING" THEN "refused"
  ELSE IF ~changes THEN "No changes detected" ELSE "failed"

UpdateOrderData(o, changes) ==
  /\ details.pc = "idle" /\ list.pc = "idle"
  /\ UpdateAnswer(o, changes) \in {"refused", "No changes detected", "failed"}
  /\ UNCHANGED vars

Next ==
  \/ \E o \in Orders : \/ \E changes \in BOOLEAN : UpdateOrderData(o, changes)
                       \/ \E b \in BankStatuses : CallbackArrives(o, b)
                       \/ DashboardFollows(o) \/ AskDetails(o)
  \/ \E ok \in BOOLEAN : CallbackReads(ok) \/ CallbackFlushes(ok)
  \/ \E s \in Sources, to \in SourceStatuses : DashboardMoves(s, to)
  \/ ReadOrder \/ ReadPayment \/ CloseDetails
  \/ \E filter \in Filters \cup {"all"} : AskList(filter)
  \/ CountStatuses \/ CloseList

Spec == Init /\ [][Next]_vars

-----------------------------------------------------------------------------
(* Properties *)

\* a callback that has read order o is still to write it
ToBeWritten(o) == callback.pc = "flush" /\ callback.order = o

\* An order that is stored and shown finished, with no callback still to write it, has nothing
\* to come: none of its sources moves on except into cancellation, and no late callback gets to
\* write it.  A callback that read the order before it was finished does overwrite it.
FinishedStays ==
  \A o \in Orders :
    /\ Displayed(o) \in {"Completed", "Cancelled", "Payment Failed"}
    /\ status[o] # "Pending" /\ ~ToBeWritten(o)
    => /\ \A s \in SourcesOf(o) : source'[s] \in {source[s], "Cancelled"}
       /\ ~ToBeWritten(o)'
FinishedMeansFinished == [][FinishedStays]_vars

\* The details of an order never show it paid with a payment that is not approved, whatever the
\* dashboard does between the steps of a callback: the payment is read after the order, both are
\* written at once, and what a callback read of the payment is what it writes over.
PaymentNotBehind ==
  details.pc = "answered" /\ details.status = "Verifying Payment" => details.trx = "APPROVED"

=============================================================================
