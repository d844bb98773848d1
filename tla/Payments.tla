-------------------------------- MODULE Payments --------------------------------
(***************************************************************************)
(* A payment by the gateway (apg.service.ts): the order is stored, then    *)
(* the handshake is made and the customer redirected; later the gateway    *)
(* posts callbacks, as often as it likes.  A callback carries no status:   *)
(* its handler asks the gateway, reads the order and writes it             *)
(* (updateOrderDataAfterPaymentByCard).  The server may crash.             *)
(***************************************************************************)
EXTENDS Naturals, FiniteSets

CONSTANTS
  Orders,
  Handlers,     \* bound: callbacks handled at a time
  MaxInFlight,  \* bound: callbacks of an order on their way
  MaxCrashes    \* bound: crashes of the server

ASSUME PaymentsAssumption ==
  Orders # {} /\ IsFiniteSet(Handlers) /\ MaxInFlight \in Nat /\ MaxCrashes \in Nat

VARIABLES
  row,        \* row[o]: order o with its payment and sources, as stored
  client,     \* client[o]: how far the checkout of o is
  bank,       \* bank[o]: the gateway's status of the transaction
  inFlight,   \* inFlight[o]: callbacks on their way
  handler,    \* handler[h]: what a callback's handler knows
  announced,  \* announced[o]: checkout.completed events
  lookup,     \* whether fetchOne finds an order by { where, populate } given as its condition
  crashes

vars == <<row, client, bank, inFlight, handler, announced, lookup, crashes>>

-----------------------------------------------------------------------------

Statuses == {"Pending", "Verifying Payment", "Payment Failed"}
TrxStatuses == {"PENDING", "APPROVED", "DECLINED"}
BankStatuses == {"none", "Initiated", "Paid", "Failed"}

\* APG_ORDER_STATUS_MAP and APG_TRX_STATUS_MAP
OrderStatus(b) == CASE b = "Paid"   -> "Verifying Payment"
                    [] b = "Failed" -> "Payment Failed"
                    [] OTHER        -> "Pending"

\* mutant: the order's map is used for the transaction too
OrderStatusAgain(b) == OrderStatus(b)

TrxStatus(b)   == CASE b = "Paid"   -> "APPROVED"
                    [] b = "Failed" -> "DECLINED"
                    [] OTHER        -> "PENDING"

Row == [stored: BOOLEAN, status: Statuses, sources: Statuses, trxStatus: TrxStatuses]
NoRow == [stored |-> FALSE, status |-> "Pending", sources |-> "Pending", trxStatus |-> "PENDING"]

Clients == {"idle", "handshake", "redirected", "failed", "lost"}
Handler == [pc: {"idle", "read", "flush", "notify", "emit"}, order: Orders, seen: BankStatuses,
            read: Row]

TypeOK ==
  /\ row \in [Orders -> Row]
  /\ client \in [Orders -> Clients]
  /\ bank \in [Orders -> BankStatuses]
  /\ inFlight \in [Orders -> 0 .. MaxInFlight]
  /\ handler \in [Handlers -> Handler]
  /\ announced \in [Orders -> 0 .. Cardinality(Handlers)]
  /\ lookup \in BOOLEAN
  /\ crashes \in 0 .. MaxCrashes

IdleHandler == [pc |-> "idle", order |-> CHOOSE o \in Orders : TRUE, seen |-> "none", read |-> NoRow]

Init ==
  /\ row = [o \in Orders |-> NoRow]
  /\ client = [o \in Orders |-> "idle"]
  /\ bank = [o \in Orders |-> "none"]
  /\ inFlight = [o \in Orders |-> 0]
  /\ handler = [h \in Handlers |-> IdleHandler]
  /\ announced = [o \in Orders |-> 0]
  /\ lookup \in BOOLEAN
  /\ crashes = 0

At(h, pc) == handler[h].pc = pc
Goto(h, pc) == handler' = [handler EXCEPT ![h].pc = pc]
Return(h) == handler' = [handler EXCEPT ![h] = IdleHandler]

-----------------------------------------------------------------------------
(* The checkout: initHandShakeAndSSO *)

CreateOrder(o, ok) ==
  /\ client[o] = "idle"
  /\ row' = IF ok THEN [row EXCEPT ![o].stored = TRUE] ELSE row
  /\ client' = [client EXCEPT ![o] = IF ok THEN "handshake" ELSE "failed"]
  /\ UNCHANGED <<bank, inFlight, handler, announced, lookup, crashes>>

\* any failure is thrown to the client; the order stays
Handshake(o, token) ==
  /\ client[o] = "handshake"
  /\ client' = [client EXCEPT ![o] = IF token THEN "redirected" ELSE "failed"]
  /\ UNCHANGED <<row, bank, inFlight, handler, announced, lookup, crashes>>

-----------------------------------------------------------------------------
(* The gateway *)

OpenPage(o) ==
  /\ client[o] = "redirected" /\ bank[o] = "none"
  /\ bank' = [bank EXCEPT ![o] = "Initiated"]
  /\ UNCHANGED <<row, client, inFlight, handler, announced, lookup, crashes>>

Decide(o, outcome) ==
  /\ bank[o] = "Initiated"
  /\ bank' = [bank EXCEPT ![o] = outcome]
  /\ UNCHANGED <<row, client, inFlight, handler, announced, lookup, crashes>>

Post(o) ==
  /\ bank[o] # "none" /\ inFlight[o] < MaxInFlight
  /\ inFlight' = [inFlight EXCEPT ![o] = @ + 1]
  /\ UNCHANGED <<row, client, bank, handler, announced, lookup, crashes>>

Lose(o) ==
  /\ inFlight[o] > 0
  /\ inFlight' = [inFlight EXCEPT ![o] = @ - 1]
  /\ UNCHANGED <<row, client, bank, handler, announced, lookup, crashes>>

-----------------------------------------------------------------------------
(* A callback: listenAndUpdateOrderStatusAfterTrxnCompletion *)

\* the gateway's status is asked for; a failure of that is thrown and the callback is gone
Ask(h, o, ok) ==
  /\ At(h, "idle") /\ inFlight[o] > 0
  /\ inFlight' = [inFlight EXCEPT ![o] = @ - 1]
  /\ IF ok THEN handler' = [handler EXCEPT ![h] = [IdleHandler EXCEPT !.pc = "read", !.order = o,
                                                                      !.seen = bank[o]]]
     ELSE UNCHANGED handler
  /\ UNCHANGED <<row, client, bank, announced, lookup, crashes>>

\* only a pending order may be updated
ReadOrder(h) ==
  LET o == handler[h].order
  IN /\ At(h, "read")
     /\ IF lookup /\ row[o].stored /\ row[o].status = "Pending"
        THEN handler' = [handler EXCEPT ![h].pc = "flush", ![h].read = row[o]]
        ELSE Return(h)
     /\ UNCHANGED <<row, client, bank, inFlight, announced, lookup, crashes>>

\* mutant: every column is written, those that did not change too
FlushAll(h) ==
  LET o == handler[h].order
      b == handler[h].seen
  IN /\ At(h, "flush")
     /\ row' = [row EXCEPT ![o].status = OrderStatus(b), ![o].sources = OrderStatus(b),
                           ![o].trxStatus = TrxStatus(b)]
     /\ Goto(h, "notify")
     /\ UNCHANGED <<client, bank, inFlight, announced, lookup, crashes>>

\* mutant: the sources keep their status
FlushOrder(h) ==
  LET o == handler[h].order
      read == handler[h].read
      Changed(old, new, now) == IF new # old THEN new ELSE now
      b == handler[h].seen
  IN /\ At(h, "flush")
     /\ row' = [row EXCEPT ![o].status = Changed(read.status, OrderStatus(b), @),
                           ![o].trxStatus = Changed(read.trxStatus, TrxStatus(b), @)]
     /\ Goto(h, "notify")
     /\ UNCHANGED <<client, bank, inFlight, announced, lookup, crashes>>

\* the order, its payment and its sources, in one flush that writes the columns whose value
\* differs from the one read
Flush(h) ==
  LET o == handler[h].order
      read == handler[h].read
      Changed(old, new, now) == IF new # old THEN new ELSE now
      b == handler[h].seen
  IN /\ At(h, "flush")
     /\ row' = [row EXCEPT ![o].status = Changed(read.status, OrderStatus(b), @),
                           ![o].sources = Changed(read.sources, OrderStatus(b), @),
                           ![o].trxStatus = Changed(read.trxStatus, TrxStatus(b), @)]
     /\ Goto(h, "notify")
     /\ UNCHANGED <<client, bank, inFlight, announced, lookup, crashes>>

\* the SMS; its failure is swallowed
Notify(h) ==
  /\ At(h, "notify")
  /\ IF TrxStatus(handler[h].seen) = "APPROVED" /\ handler[h].read.trxStatus # "APPROVED"
     THEN Goto(h, "emit") ELSE Return(h)
  /\ UNCHANGED <<row, client, bank, inFlight, announced, lookup, crashes>>

\* bound: announced stops at the number of handlers
Emit(h) ==
  LET o == handler[h].order
  IN /\ At(h, "emit")
     /\ announced' = [announced EXCEPT ![o] = IF @ < Cardinality(Handlers) THEN @ + 1 ELSE @]
     /\ Return(h)
     /\ UNCHANGED <<row, client, bank, inFlight, lookup, crashes>>

\* the server dies with everything it handles
Crash ==
  /\ crashes < MaxCrashes
  /\ crashes' = crashes + 1
  /\ handler' = [h \in Handlers |-> IdleHandler]
  /\ client' = [o \in Orders |-> IF client[o] = "handshake" THEN "lost" ELSE client[o]]
  /\ UNCHANGED <<row, bank, inFlight, announced, lookup>>

-----------------------------------------------------------------------------

Handle(h) == ReadOrder(h) \/ Flush(h) \/ Notify(h) \/ Emit(h)

Next ==
  \/ \E o \in Orders :
       \/ \E ok \in BOOLEAN : CreateOrder(o, ok) \/ Handshake(o, ok)
       \/ OpenPage(o) \/ Post(o) \/ Lose(o)
       \/ \E outcome \in {"Paid", "Failed"} : Decide(o, outcome)
       \/ \E h \in Handlers, ok \in BOOLEAN : Ask(h, o, ok)
  \/ \E h \in Handlers : Handle(h)
  \/ Crash

Spec == Init /\ [][Next]_vars

-----------------------------------------------------------------------------
(* Properties *)

\* What is stored of a payment is the gateway's word: the order, its transaction and all its
\* sources agree, and are approved or declined only when the gateway said so.
StoredIsTheBanksWord ==
  \A o \in Orders :
    LET b == IF row[o].status = "Pending" THEN "Initiated" ELSE bank[o]
    IN /\ row[o].status = OrderStatus(b)
       /\ row[o].sources = OrderStatus(b)
       /\ row[o].trxStatus = TrxStatus(b)

\* A payment once decided stays: no callback that was late, or had read the order before,
\* opens or turns it.
DecidedStays ==
  [][\A o \in Orders : row[o].status # "Pending" => row'[o] = row[o]]_vars

=============================================================================
