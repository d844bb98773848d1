------------------------------- MODULE LegacyOrders -------------------------------
(***************************************************************************)
(* The orders of the old dashboard (legacy-orders.service.ts): one product *)
(* each, stored without a transaction and then told to the customer by     *)
(* SMS and to the rest of the system by an event or a payment link; and    *)
(* their update by the payment's caller.                                   *)
(***************************************************************************)
EXTENDS Naturals, FiniteSets

CONSTANTS
  Orders,      \* requests to add an order
  Patches,     \* bound: updates at a time
  MaxPatches,  \* bound: updates
  Bodies,      \* bound: what clients ask for
  MaxTime      \* bound: milliseconds

VARIABLES
  now,       \* the clock that order numbers are made of
  row,       \* row[o]: the order as stored
  adding,    \* adding[o]: how far its request is
  told,      \* told[o]: what was sent out about it
  patch,     \* patch[p]: an update that has read an order
  decided,   \* auxiliary, decided[o]: how often the payment of o was decided
  patches    \* updates begun

vars == <<now, row, adding, told, patch, decided, patches>>

-----------------------------------------------------------------------------

Decisions == {"APPROVED", "DECLINED"}
TrxStatuses == {"PENDING"} \cup Decisions
Statuses == {"Pending", "Verifying Payment", "Payment Failed"}
TrxMethods == {"Cash", "Card", "Bank Transfer"}

\* CreateLegacyOrderDto: the client says how it pays and may say whether it has paid; complete is
\* whether shop and location are given as more than 0, which the event reads
Body == [trxMethod: TrxMethods, trxStatus: TrxStatuses, complete: BOOLEAN]

\* what a run assumes of the constants
LegacyOrdersAssumption ==
  IsFiniteSet(Patches) /\ MaxPatches \in Nat /\ MaxTime \in Nat /\ Bodies \subseteq Body

Row == [stored: BOOLEAN, number: 0 .. MaxTime, trxMethod: TrxMethods, complete: BOOLEAN,
        status: Statuses, trxStatus: TrxStatuses]
NoRow == [stored |-> FALSE, number |-> 0, trxMethod |-> "Cash", complete |-> FALSE,
          status |-> "Pending", trxStatus |-> "PENDING"]
Adding == {"idle", "sms", "publish", "refetch", "ok", "link", "err"}
Told == SUBSET {"sms", "order.created", "link", "order.updated"}
Patch == [pc: {"flush", "refetch"}, order: Orders, to: Decisions]
NoPatch == [pc |-> "idle"]

TypeOK ==
  /\ now \in 0 .. MaxTime
  /\ row \in [Orders -> Row]
  /\ adding \in [Orders -> Adding]
  /\ told \in [Orders -> Told]
  /\ patch \in [Patches -> Patch \cup {NoPatch}]
  /\ decided \in [Orders -> 0 .. MaxPatches]
  /\ patches \in 0 .. MaxPatches

Init ==
  /\ now = 0
  /\ row = [o \in Orders |-> NoRow]
  /\ adding = [o \in Orders |-> "idle"]
  /\ told = [o \in Orders |-> {}]
  /\ patch = [p \in Patches |-> NoPatch]
  /\ decided = [o \in Orders |-> 0]
  /\ patches = 0

At(o, pc) == adding[o] = pc
Goto(o, pc) == adding' = [adding EXCEPT ![o] = pc]
Tell(o, what) == told' = [told EXCEPT ![o] = @ \cup what]
PatchesUnchanged == UNCHANGED <<patch, decided, patches>>

\* fetchOne by number: numbers are made of the millisecond and nothing keeps them apart, so
\* that it may find another order
Found(number, o) == row[o].stored /\ row[o].number = number

Tick ==
  /\ now < MaxTime
  /\ now' = now + 1
  /\ UNCHANGED <<row, adding, told>> /\ PatchesUnchanged

-----------------------------------------------------------------------------
(* addDeliveryOrder *)

\* listing, location and item are looked up; the row is created, with a number made of the
\* clock; or the request is refused
Add(o, body, ok) ==
  /\ At(o, "idle")
  /\ IF ok
     THEN /\ row' = [row EXCEPT ![o] = [NoRow EXCEPT !.stored = TRUE, !.number = now, !.trxMethod = body.trxMethod,
                                     !.trxStatus = body.trxStatus, !.complete = body.complete]]
          /\ Goto(o, "sms")
     ELSE Goto(o, "err") /\ UNCHANGED row
  /\ UNCHANGED <<now, told>> /\ PatchesUnchanged

\* mutant: the failure of the SMS is overlooked
SmsAnyway(o, ok) ==
  /\ At(o, "sms")
  /\ IF ok THEN Tell(o, {"sms"}) ELSE UNCHANGED told
  /\ Goto(o, "publish")
  /\ UNCHANGED <<now, row>> /\ PatchesUnchanged

\* a failure of the SMS is the answer, and the order stays
Sms(o, ok) ==
  /\ At(o, "sms")
  /\ IF ok THEN Goto(o, "publish") /\ Tell(o, {"sms"})
     ELSE Goto(o, "err") /\ UNCHANGED told
  /\ UNCHANGED <<now, row>> /\ PatchesUnchanged

\* to redis; a failure is only logged
Publish(o) ==
  /\ At(o, "publish")
  /\ Goto(o, "refetch")
  /\ UNCHANGED <<now, row, told>> /\ PatchesUnchanged

\* the order is read again by its number.  What cannot be read, an order without shop or
\* location and a failed look-up in the spam log end in an exception.
Complete(o, ok) ==
  /\ At(o, "refetch")
  /\ \E found \in {f \in Orders : Found(row[o].number, f)} :
       IF ~ok \/ (row[found].trxMethod # "Card" /\ ~row[found].complete)
       THEN Goto(o, "err") /\ UNCHANGED told
       ELSE IF row[found].trxMethod = "Card"
       THEN Goto(o, "link") /\ Tell(o, {"link"})
       ELSE Goto(o, "ok") /\ Tell(found, {"order.created"})
  /\ UNCHANGED <<now, row>> /\ PatchesUnchanged

-----------------------------------------------------------------------------
(* updateOrderData *)

\* mutant: only the method is looked at
ReadAnyCard(p, o, to) ==
  /\ patch[p].pc = "idle" /\ patches < MaxPatches
  /\ \E found \in {f \in Orders : Found(row[o].number, f)} :
       /\ row[found].trxMethod = "Card"
       /\ patch' = [patch EXCEPT ![p] = [pc |-> "flush", order |-> found, to |-> to]]
  /\ patches' = patches + 1
  /\ UNCHANGED <<now, row, adding, told, decided>>

\* pending orders by card with a pending transaction only; anything else is refused without
\* effect.  The caller is the page the gateway returns to, with what the gateway decided.
ReadPending(p, o, to) ==
  /\ patch[p].pc = "idle" /\ patches < MaxPatches /\ row[o].stored
  /\ \E found \in {f \in Orders : Found(row[o].number, f)} :
       /\ row[found].trxMethod = "Card" /\ row[found].status = "Pending"
       /\ row[found].trxStatus = "PENDING"
       /\ patch' = [patch EXCEPT ![p] = [pc |-> "flush", order |-> found, to |-> to]]
  /\ patches' = patches + 1
  /\ UNCHANGED <<now, row, adding, told, decided>>

\* mutant: the status of the payment is written as that of the order
FlushPatchMixed(p, ok) ==
  LET o == patch[p].order
  IN /\ patch[p].pc = "flush"
     /\ row' = [row EXCEPT ![o].trxStatus = patch[p].to, ![o].status = patch[p].to]
     /\ patch' = [patch EXCEPT ![p] = NoPatch]
     /\ UNCHANGED <<now, adding, told, decided, patches>>

\* updateEntity reads it again, without a look at its status, and writes
FlushPatch(p, ok) ==
  LET o == patch[p].order
  IN /\ patch[p].pc = "flush"
     /\ IF ok
        THEN /\ row' = [row EXCEPT ![o].trxStatus = patch[p].to,
                          ![o].status = IF patch[p].to = "APPROVED" THEN "Verifying Payment"
                                        ELSE "Payment Failed"]
             /\ decided' = [decided EXCEPT ![o] = @ + 1]
        ELSE UNCHANGED <<row, decided>>
     /\ patch' = [patch EXCEPT ![p] = IF ok THEN [@ EXCEPT !.pc = "refetch"] ELSE NoPatch]
     /\ UNCHANGED <<now, adding, told, patches>>

\* the order is read again, and announced if its payment, as it is by now, has not failed
AnnouncePatch(p, ok) ==
  /\ patch[p].pc = "refetch"
  /\ \E found \in {f \in Orders : Found(row[patch[p].order].number, f)} :
       IF ok /\ row[found].trxMethod = "Card" /\ row[found].status # "Payment Failed"
       THEN Tell(found, {"order.updated"}) ELSE UNCHANGED told
  /\ patch' = [patch EXCEPT ![p] = NoPatch]
  /\ UNCHANGED <<now, row, adding, decided, patches>>

Next ==
  \/ Tick
  \/ \E o \in Orders :
       \/ \E body \in Bodies, ok \in BOOLEAN : Add(o, body, ok)
       \/ \E ok \in BOOLEAN : Sms(o, ok) \/ Complete(o, ok)
       \/ Publish(o)
       \/ \E p \in Patches, to \in Decisions : ReadPending(p, o, to)
  \/ \E p \in Patches, ok \in BOOLEAN : FlushPatch(p, ok) \/ AnnouncePatch(p, ok)

Spec == Init /\ [][Next]_vars

-----------------------------------------------------------------------------
(* Properties *)

\* A payment is decided no more often than updates overlapped: none that begins after a
\* decision is let through.
DecidedUpToOverlaps == \A o \in Orders : decided[o] <= Cardinality(Patches)

NumbersDistinct ==
  \A o1, o2 \in Orders :
    row[o1].stored /\ row[o2].stored /\ o1 # o2 => row[o1].number # row[o2].number

\* Nothing is sent out about an order before its customer has the SMS; and an order that was
\* acknowledged was announced, unless another one has its number.
ToldInOrder ==
  NumbersDistinct =>
    \A o \in Orders :
      /\ told[o] \cap {"order.created", "link"} # {} => "sms" \in told[o]
      /\ At(o, "ok") <=> "order.created" \in told[o]

=============================================================================
