------------------------------ MODULE Checkout ------------------------------
(***************************************************************************)
(* POST /checkout: checkout.service.ts routes a request to createOrder of  *)
(* order-creation.service.ts, which validates, calculates, stores the      *)
(* order in one transaction, empties the cart of what was bought and       *)
(* announces the order.  One process per request, one step per layer that  *)
(* awaits; the server may crash between any two steps.                     *)
(*                                                                         *)
(* Amounts are left out: whether the listings are valid, the voucher       *)
(* applies and the client's total matches are inputs of the steps that     *)
(* find it out.  A failed shipping calculation is no input: the order goes *)
(* on with no delivery charge.                                             *)
(***************************************************************************)
EXTENDS FiniteSets

CONSTANTS
  Requests,  \* bound: each is one checkout
  Users, Listings,
  Guest,     \* the user of a request without a token
  DbFaults   \* whether a statement of the transaction may fail

ASSUME CheckoutAssumption == Guest \notin Users /\ DbFaults \in BOOLEAN

VARIABLES
  co,        \* co[r]: what checkout r knows
  order,     \* order[r]: what is stored of the order of checkout r
  texted,    \* checkouts whose customer got the SMS
  announced  \* checkouts whose checkout.completed event was emitted

vars == <<co, order, texted, announced>>

-----------------------------------------------------------------------------

CashMethods == {"Cash", "BankTransfer"}
ApgMethods  == {"Card", "Raast", "CardBNPL"}
Methods     == CashMethods \cup ApgMethods

Pcs == {"idle", "validate", "calculate", "transaction", "cleanup", "cleaning", "notify",
        "emit", "done", "lost"}
Answers == {"none", "ok", "invalid", "voucher", "fee", "total", "failed"}

Body == [user: Users \cup {Guest}, items: SUBSET Listings, method: Methods, voucher: BOOLEAN]
Checkout ==
  [pc: Pcs, user: Users \cup {Guest}, items: SUBSET Listings, method: Methods,
   voucher: BOOLEAN, discounted: BOOLEAN, answer: Answers]

\* the rows of the order, its payment, address and tracking; with its sources and items too
Stored == {"nothing", "header", "full"}

TypeOK ==
  /\ co \in [Requests -> Checkout]
  /\ order \in [Requests -> Stored]
  /\ texted \subseteq Requests
  /\ announced \subseteq Requests

Idle == [pc |-> "idle", user |-> Guest, items |-> {}, method |-> "Cash", voucher |-> FALSE,
         discounted |-> FALSE, answer |-> "none"]

Init ==
  /\ co = [r \in Requests |-> Idle]
  /\ order = [r \in Requests |-> "nothing"]
  /\ texted = {}
  /\ announced = {}

At(r, p) == co[r].pc = p
Goto(r, p) == co' = [co EXCEPT ![r].pc = p]
Answer(r, a) == co' = [co EXCEPT ![r].pc = "done", ![r].answer = a]

-----------------------------------------------------------------------------
(* The layers of createOrder *)

\* mutant: the user of a request without a token is not normalised
SubmitUntyped(r, u, items, m, v) ==
  /\ At(r, "idle")
  /\ co' = [co EXCEPT ![r] = [Idle EXCEPT !.pc = "validate", !.items = items, !.method = m,
               !.voucher = v, !.user = IF u = Guest THEN "undefined" ELSE u]]
  /\ UNCHANGED <<order, texted, announced>>

Submit(r, u, items, m, v) ==
  /\ At(r, "idle")
  /\ co' = [co EXCEPT ![r] = [Idle EXCEPT !.pc = "validate", !.user = u, !.items = items,
                                          !.method = m, !.voucher = v]]
  /\ UNCHANGED <<order, texted, announced>>

\* validateCartItems and validateCartItemPrices on one read of the listings, then the city
\* and the e-mail
Validate(r, ok) ==
  /\ At(r, "validate")
  /\ IF ok THEN Goto(r, "calculate") ELSE Answer(r, "invalid")
  /\ UNCHANGED <<order, texted, announced>>

\* processCashBasedPayment and processApgPayment build the payment details of the amount and
\* the method only, the checkout body has no platform charges
PlatformChargesSent(m) == FALSE

\* validatePlatformFee: the charges are required of every method with a fee
FeeRefused(m) == m \in ApgMethods /\ ~PlatformChargesSent(m)

\* mutant: a voucher that does not apply is dropped
CalculateWithoutVoucher(r, applies, totalMatches) ==
  /\ At(r, "calculate")
  /\ LET discounted == co[r].voucher /\ applies
     IN  IF FeeRefused(co[r].method) THEN Answer(r, "fee")
         ELSE IF ~totalMatches THEN Answer(r, "total")
         ELSE co' = [co EXCEPT ![r].pc = "transaction", ![r].discounted = discounted]
  /\ UNCHANGED <<order, texted, announced>>

\* voucher and shipping in parallel; a voucher asked for and refused blocks the order; then
\* the platform fee and the client's total are validated
Calculate(r, applies, totalMatches) ==
  /\ At(r, "calculate")
  /\ LET discounted == co[r].voucher /\ applies
     IN  IF co[r].voucher /\ ~applies THEN Answer(r, "voucher")
         ELSE IF FeeRefused(co[r].method) THEN Answer(r, "fee")
         ELSE IF ~totalMatches THEN Answer(r, "total")
         ELSE co' = [co EXCEPT ![r].pc = "transaction", ![r].discounted = discounted]
  /\ UNCHANGED <<order, texted, announced>>

\* a gateway payment is announced by its callback, not here
Announce(r) == IF co[r].method \in ApgMethods THEN Answer(r, "ok") ELSE Goto(r, "notify")

\* the order is stored; only a signed-in user has a cart to empty
Commit(r) ==
  /\ At(r, "transaction")
  /\ order' = [order EXCEPT ![r] = "full"]
  /\ IF co[r].user = Guest THEN Announce(r) ELSE Goto(r, "cleanup")
  /\ UNCHANGED <<texted, announced>>

\* mutant: the result of the transaction is not looked at
CommitFailsUnchecked(r) ==
  /\ DbFaults
  /\ At(r, "transaction")
  /\ \E s \in Stored : order' = [order EXCEPT ![r] = s]
  /\ IF co[r].user = Guest THEN Announce(r) ELSE Goto(r, "cleanup")
  /\ UNCHANGED <<texted, announced>>

\* A statement of the flush fails.  The callback catches the error and returns, so the
\* transaction is not rolled back: it flushes once more and commits whatever went through,
\* or that fails too and everything is rolled back.
CommitFails(r) ==
  /\ DbFaults
  /\ At(r, "transaction")
  /\ \E s \in Stored : order' = [order EXCEPT ![r] = s]
  /\ Answer(r, "failed")
  /\ UNCHANGED <<texted, announced>>

\* removeItemsByListingIds is called ...
StartCleanup(r) ==
  /\ At(r, "cleanup")
  /\ Goto(r, "cleaning")
  /\ UNCHANGED <<order, texted, announced>>

\* ... and returns; its answer is ignored
CleanupDone(r) ==
  /\ At(r, "cleaning")
  /\ Announce(r)
  /\ UNCHANGED <<order, texted, announced>>

\* mutant: a failed SMS ends the announcement
NotifyThrows(r) ==
  /\ At(r, "notify")
  /\ \E sent \in BOOLEAN :
       /\ texted' = IF sent THEN texted \cup {r} ELSE texted
       /\ IF sent THEN Goto(r, "emit") ELSE Answer(r, "ok")
  /\ UNCHANGED <<order, announced>>

\* sendOrderNotification swallows every failure
Notify(r) ==
  /\ At(r, "notify")
  /\ \E sent \in BOOLEAN : texted' = IF sent THEN texted \cup {r} ELSE texted
  /\ Goto(r, "emit")
  /\ UNCHANGED <<order, announced>>

EmitCompleted(r) ==
  /\ At(r, "emit")
  /\ announced' = announced \cup {r}
  /\ Answer(r, "ok")
  /\ UNCHANGED <<order, texted>>

InFlight(r) == co[r].pc \notin {"idle", "done", "lost"}

\* the server dies: its requests get no answer, an open transaction is rolled back
Crash ==
  /\ \E r \in Requests : InFlight(r)
  /\ co' = [r \in Requests |-> IF InFlight(r) THEN [co[r] EXCEPT !.pc = "lost"] ELSE co[r]]
  /\ UNCHANGED <<order, texted, announced>>

-----------------------------------------------------------------------------

Step(r) ==
  \/ \E ok \in BOOLEAN : Validate(r, ok)
  \/ \E applies, totalMatches \in BOOLEAN : Calculate(r, applies, totalMatches)
  \/ Commit(r) \/ CommitFails(r)
  \/ StartCleanup(r) \/ CleanupDone(r) \/ Notify(r) \/ EmitCompleted(r)

Next ==
  \/ \E r \in Requests :
       \/ \E u \in Users \cup {Guest}, items \in (SUBSET Listings) \ {{}}, m \in Methods,
             v \in BOOLEAN : Submit(r, u, items, m, v)
       \/ Step(r)
  \/ Crash

Spec == Init /\ [][Next]_vars

-----------------------------------------------------------------------------
(* Properties *)

\* A customer told that the order was placed has one, whole.
AcknowledgedIsStored == \A r \in Requests : co[r].answer = "ok" => order[r] = "full"

\* checkout.completed and the SMS speak of a cash order that is stored, also when the server
\* crashes around the commit.
AnnouncedIsStored ==
  \A r \in texted \cup announced : order[r] = "full" /\ co[r].method \in CashMethods

\* The cash order of an acknowledged checkout was announced, whatever became of the SMS and
\* the cart ("Cash/Bank Transfer order created" emits checkout.completed).
AcknowledgedIsAnnounced ==
  \A r \in Requests :
    co[r].answer = "ok" /\ co[r].method \in CashMethods => r \in announced

\* An order asked for with a voucher is stored with the discount or not at all.
DiscountOrNothing ==
  \A r \in Requests : order[r] # "nothing" /\ co[r].voucher => co[r].discounted

\* "Uses database transaction to ensure atomicity" (order-creation.service.ts:68): of a
\* refused or failed checkout nothing is stored.
FailedLeavesNothing ==
  \A r \in Requests : co[r].answer \notin {"none", "ok"} => order[r] = "nothing"

\* docs/orders-knowledge.md:27-30: a checkout by Card, BNPL or Raast creates the order and
\* goes to the gateway; nothing a client can send makes its platform charges refused.
GatewayCheckoutNotRefused == \A r \in Requests : co[r].answer # "fee"

=============================================================================
