------------------------------ MODULE ServicesProofs ------------------------------
(***************************************************************************)
(* The safety of the services around the orders.  A behaviour of the       *)
(* composition is one of the part that its first state chose: each part    *)
(* has an invariant of its own, which its steps keep and which the steps   *)
(* of the others do not touch.                                             *)
(***************************************************************************)
EXTENDS ServiceSide, FiniteSetTheorems, SequenceTheorems, TLAPS

\* The safety part of the specification, without fairness.
Services == ServicesInit /\ [][ServicesNext]_allVars

-----------------------------------------------------------------------------
(* Payments.  PInv rests on two facts: the gateway never takes a decision  *)
(* back, so that what a handler once saw decided is still so; and a        *)
(* handler writes only after it has read the order as pending.             *)

Decided == {"Paid", "Failed"}

\* The order is as it was stored first, or as the gateway has decided.
Open(o) == row[o].status = "Pending" /\ row[o].sources = "Pending" /\ row[o].trxStatus = "PENDING"
Settled(o) ==
  /\ bank[o] \in Decided
  /\ row[o].status = OrderStatus(bank[o])
  /\ row[o].sources = OrderStatus(bank[o])
  /\ row[o].trxStatus = TrxStatus(bank[o])
Word(o) == Open(o) \/ Settled(o)

\* Nobody pays before being redirected.
UnpaidBefore(o) == client[o] # "redirected" => bank[o] = "none"

\* What a handler saw decided is so, and it writes what it read as pending.
Sound(h) ==
  /\ handler[h].seen \in Decided => bank[handler[h].order] = handler[h].seen
  /\ At(h, "flush") => /\ handler[h].read.status = "Pending"
                       /\ handler[h].read.sources = "Pending"
                       /\ handler[h].read.trxStatus = "PENDING"

PInv ==
  /\ TypeOK
  /\ \A o \in Orders : Word(o) /\ UnpaidBefore(o)
  /\ \A h \in Handlers : Sound(h)

-----------------------------------------------------------------------------

\* The maps of apg.helper.ts know every status of the gateway.
LEMMA StatusTypes ==
  ASSUME NEW b \in BankStatuses
  PROVE  /\ OrderStatus(b) \in Statuses /\ TrxStatus(b) \in TrxStatuses
         /\ b \in Decided => OrderStatus(b) # "Pending" /\ TrxStatus(b) # "PENDING"
         /\ b \notin Decided => OrderStatus(b) = "Pending" /\ TrxStatus(b) = "PENDING"
BY DEF OrderStatus, TrxStatus, Statuses, TrxStatuses, BankStatuses, Decided

\* The handlers can be counted.
LEMMA HandlersCounted == Cardinality(Handlers) \in Nat
BY PaymentsAssumption, FS_CardinalityType

\* A handler that is free knows nothing.
LEMMA IdleType == IdleHandler \in Handler /\ IdleHandler.seen = "none" /\ IdleHandler.pc = "idle"
<1>1. (CHOOSE o \in Orders : TRUE) \in Orders
  BY PaymentsAssumption
<1>2. NoRow \in Row
  BY DEF NoRow, Row, Statuses, TrxStatuses
<1> QED BY <1>1, <1>2 DEF IdleHandler, Handler, BankStatuses

\* What PInv says of what is stored is the property that the runs check.
LEMMA WordIsTheProperty == PInv => StoredIsTheBanksWord
<1> SUFFICES ASSUME PInv, NEW o \in Orders
             PROVE  LET b == IF row[o].status = "Pending" THEN "Initiated" ELSE bank[o]
                    IN /\ row[o].status = OrderStatus(b)
                       /\ row[o].sources = OrderStatus(b)
                       /\ row[o].trxStatus = TrxStatus(b)
  BY DEF StoredIsTheBanksWord
<1>1. CASE Open(o)
  BY <1>1 DEF Open, OrderStatus, TrxStatus
<1>2. CASE Settled(o)
  <2>1. row[o].status # "Pending"
    BY <1>2, StatusTypes DEF Settled, Decided, BankStatuses
  <2> QED BY <1>2, <2>1 DEF Settled
<1> QED BY <1>1, <1>2 DEF PInv, Word

-----------------------------------------------------------------------------

\* Before anything is ordered nothing is paid.
LEMMA PInvInit == Init => PInv
<1> SUFFICES ASSUME Init PROVE PInv
  OBVIOUS
<1>1. NoRow \in Row
  BY DEF NoRow, Row, Statuses, TrxStatuses
<1>2. TypeOK
  BY <1>1, IdleType, HandlersCounted, PaymentsAssumption
     DEF Init, TypeOK, Clients, BankStatuses
<1>3. ASSUME NEW o \in Orders PROVE Word(o) /\ UnpaidBefore(o)
  BY DEF Init, NoRow, Word, Open, UnpaidBefore
<1>4. ASSUME NEW h \in Handlers PROVE Sound(h)
  BY IdleType DEF Init, Sound, At, Decided
<1> QED BY <1>2, <1>3, <1>4 DEF PInv

\* A step that leaves orders, gateway and the work of the handlers alone, but for handlers
\* that become free, keeps the invariant.
LEMMA PInvQuiet ==
  ASSUME PInv, TypeOK', UNCHANGED <<row, bank>>,
         \A o \in Orders : client'[o] = "redirected" \/ client'[o] = client[o]
                           \/ bank[o] = "none",
         \A h \in Handlers : Sound(h)'
  PROVE  PInv'
<1>1. ASSUME NEW o \in Orders PROVE Word(o)' /\ UnpaidBefore(o)'
  <2>1. Word(o) /\ UnpaidBefore(o)
    BY DEF PInv
  <2> QED BY <2>1 DEF Word, Open, Settled, UnpaidBefore
<1> QED BY <1>1 DEF PInv

\* The soundness of a handler is a matter of its own record and of the gateway.
LEMMA SoundStays ==
  ASSUME NEW h \in Handlers, Sound(h), UNCHANGED bank,
         handler'[h] = handler[h] \/ handler'[h] = IdleHandler
  PROVE  Sound(h)'
BY IdleType DEF Sound, At, Decided

\* The checkout: the row is created pending, before any payment; the handshake redirects.
LEMMA PInvCheckout ==
  ASSUME PInv, NEW o \in Orders, NEW ok \in BOOLEAN,
         CreateOrder(o, ok) \/ Handshake(o, ok)
  PROVE  PInv'
<1>1. ASSUME NEW h \in Handlers PROVE Sound(h)'
  BY SoundStays DEF PInv, CreateOrder, Handshake
<1>2. TypeOK /\ Word(o) /\ UnpaidBefore(o)
  BY DEF PInv
<1>3. CASE CreateOrder(o, ok)
  <2>1. bank[o] = "none" /\ UNCHANGED bank
    BY <1>2, <1>3 DEF CreateOrder, UnpaidBefore
  <2>2. TypeOK'
    BY <1>2, <1>3 DEF CreateOrder, TypeOK, Row, Clients
  <2>3. ASSUME NEW q \in Orders PROVE Word(q)' /\ UnpaidBefore(q)'
    <3>1. Word(q) /\ UnpaidBefore(q)
      BY DEF PInv
    <3>2. /\ row'[q].status = row[q].status /\ row'[q].sources = row[q].sources
          /\ row'[q].trxStatus = row[q].trxStatus
      BY <1>2, <1>3 DEF CreateOrder, TypeOK, Row
    <3>3. UnpaidBefore(q)'
      BY <1>2, <1>3, <2>1, <3>1 DEF CreateOrder, TypeOK, UnpaidBefore
    <3> QED BY <2>1, <3>1, <3>2, <3>3 DEF Word, Open, Settled
  <2> QED BY <1>1, <2>2, <2>3 DEF PInv
<1>4. CASE Handshake(o, ok)
  <2>1. bank[o] = "none" /\ UNCHANGED <<row, bank>>
    BY <1>2, <1>4 DEF Handshake, UnpaidBefore
  <2>2. TypeOK'
    BY <1>2, <1>4 DEF Handshake, TypeOK, Clients
  <2>3. \A q \in Orders \ {o} : client'[q] = client[q]
    BY <1>2, <1>4 DEF Handshake, TypeOK
  <2> QED BY <1>1, <2>1, <2>2, <2>3, PInvQuiet
<1> QED BY <1>3, <1>4

\* The gateway: a payment begins after the redirection and is decided once.
LEMMA PInvGateway ==
  ASSUME PInv, NEW o \in Orders, NEW outcome \in Decided,
         OpenPage(o) \/ Decide(o, outcome)
  PROVE  PInv'
<1>1. TypeOK /\ Word(o)
  BY DEF PInv
<1>2. /\ bank[o] \notin Decided
      /\ \E b \in BankStatuses : bank' = [bank EXCEPT ![o] = b]
  BY DEF OpenPage, Decide, Decided, BankStatuses
<1>3. TypeOK'
  BY <1>1 DEF OpenPage, Decide, TypeOK, BankStatuses, Decided
<1>4. client[o] = "redirected" /\ UNCHANGED <<row, client, handler>>
  <2>1. UnpaidBefore(o)
    BY DEF PInv
  <2> QED BY <2>1 DEF OpenPage, Decide, UnpaidBefore
<1>5. ASSUME NEW q \in Orders PROVE Word(q)' /\ UnpaidBefore(q)'
  <2>1. Word(q) /\ UnpaidBefore(q)
    BY DEF PInv
  <2>2. CASE q = o
    BY <1>1, <1>2, <1>4, <2>2 DEF Word, Open, Settled, UnpaidBefore
  <2>3. CASE q # o
    <3>1. bank'[q] = bank[q]
      BY <1>1, <1>2, <2>3 DEF TypeOK
    <3> QED BY <1>4, <2>1, <3>1 DEF Word, Open, Settled, UnpaidBefore
  <2> QED BY <2>2, <2>3
<1>6. ASSUME NEW h \in Handlers PROVE Sound(h)'
  <2>1. Sound(h)
    BY DEF PInv
  <2>2. handler[h].seen \in Decided => bank'[handler[h].order] = handler[h].seen
    BY <1>1, <1>2, <2>1 DEF Sound, TypeOK, Handler
  <2> QED BY <1>4, <2>1, <2>2 DEF Sound, At
<1> QED BY <1>3, <1>5, <1>6 DEF PInv

\* Callbacks on their way change nothing that is known or stored.
LEMMA PInvInFlight ==
  ASSUME PInv, NEW o \in Orders, Post(o) \/ Lose(o)
  PROVE  PInv'
<1>1. TypeOK'
  BY PaymentsAssumption DEF PInv, Post, Lose, TypeOK
<1>2. ASSUME NEW h \in Handlers PROVE Sound(h)'
  BY SoundStays DEF PInv, Post, Lose
<1> QED BY <1>1, <1>2, PInvQuiet DEF Post, Lose

\* A handler that begins knows the gateway's status of this moment.
LEMMA PInvAsk ==
  ASSUME PInv, NEW h \in Handlers, NEW o \in Orders, NEW ok \in BOOLEAN, Ask(h, o, ok)
  PROVE  PInv'
<1> DEFINE asking == [IdleHandler EXCEPT !.pc = "read", !.order = o, !.seen = bank[o]]
<1>1. TypeOK
  BY DEF PInv
<1>2. /\ asking \in Handler /\ asking.pc = "read" /\ asking.order = o /\ asking.seen = bank[o]
  BY <1>1, IdleType DEF TypeOK, Handler
<1> HIDE DEF asking
<1>3. /\ handler' = IF ok THEN [handler EXCEPT ![h] = asking] ELSE handler
      /\ inFlight' = [inFlight EXCEPT ![o] = @ - 1] /\ inFlight[o] > 0
      /\ UNCHANGED <<row, client, bank, announced, lookup, crashes>>
  BY DEF Ask, asking
<1>4. TypeOK'
  BY <1>1, <1>2, <1>3, PaymentsAssumption DEF TypeOK
<1>5. ASSUME NEW g \in Handlers PROVE Sound(g)'
  <2>1. CASE g = h /\ ok
    BY <1>1, <1>2, <1>3, <2>1 DEF Sound, At, TypeOK
  <2>2. CASE ~(g = h /\ ok)
    <3>1. handler'[g] = handler[g]
      BY <1>1, <1>3, <2>2 DEF TypeOK
    <3> QED BY <1>3, <3>1, SoundStays DEF PInv
  <2> QED BY <2>1, <2>2
<1> QED BY <1>3, <1>4, <1>5, PInvQuiet

\* An order that is read as pending has pending sources and a pending transaction.
LEMMA PInvRead ==
  ASSUME PInv, NEW h \in Handlers, ReadOrder(h)
  PROVE  PInv'
<1> DEFINE o == handler[h].order
<1>1. TypeOK /\ o \in Orders /\ Word(o) /\ Sound(h) /\ handler[h] \in Handler
  BY DEF PInv, TypeOK, Handler
<1>2. UNCHANGED <<row, client, bank, inFlight, announced, lookup, crashes>>
  BY DEF ReadOrder
<1>3. CASE lookup /\ row[o].stored /\ row[o].status = "Pending"
  <2>1. handler' = [handler EXCEPT ![h].pc = "flush", ![h].read = row[o]]
    BY <1>3 DEF ReadOrder
  <2>2. Open(o)
    BY <1>1, <1>3, StatusTypes DEF Word, Settled, TypeOK
  <2>3. TypeOK'
    BY <1>1, <1>2, <2>1 DEF TypeOK, Handler
  <2>4. ASSUME NEW g \in Handlers PROVE Sound(g)'
    <3>1. CASE g = h
      <4>1. /\ handler'[h].read = row[o] /\ handler'[h].seen = handler[h].seen
            /\ handler'[h].order = o
        BY <1>1, <2>1 DEF TypeOK, Handler
      <4> QED BY <1>1, <1>2, <2>2, <3>1, <4>1 DEF Sound, Open
    <3>2. CASE g # h
      <4>1. handler'[g] = handler[g]
        BY <1>1, <2>1, <3>2 DEF TypeOK
      <4> QED BY <1>2, <4>1, SoundStays DEF PInv
    <3> QED BY <3>1, <3>2
  <2> QED BY <1>2, <2>3, <2>4, PInvQuiet
<1>4. CASE ~(lookup /\ row[o].stored /\ row[o].status = "Pending")
  <2>1. handler' = [handler EXCEPT ![h] = IdleHandler]
    BY <1>4 DEF ReadOrder, Return
  <2>2. TypeOK'
    BY <1>1, <1>2, <2>1, IdleType DEF TypeOK
  <2>3. ASSUME NEW g \in Handlers PROVE Sound(g)'
    BY <1>1, <1>2, <2>1, SoundStays DEF PInv, TypeOK
  <2> QED BY <1>2, <2>2, <2>3, PInvQuiet
<1> QED BY <1>3, <1>4

\* A flush writes the gateway's decision, or nothing: columns go out only where the value
\* differs from the pending one that was read.
LEMMA FlushWritesTheWord ==
  ASSUME PInv, NEW h \in Handlers, Flush(h)
  PROVE  LET o == handler[h].order
             b == handler[h].seen
         IN /\ o \in Orders /\ b \in BankStatuses
            /\ b \notin Decided => row' = row
            /\ b \in Decided =>
                 /\ bank[o] = b
                 /\ row' = [row EXCEPT ![o].status = OrderStatus(b), ![o].sources = OrderStatus(b),
                                       ![o].trxStatus = TrxStatus(b)]
<1> DEFINE o == handler[h].order
           b == handler[h].seen
           read == handler[h].read
           new(old, v, now) == IF v # old THEN v ELSE now
<1>1. /\ TypeOK /\ Sound(h) /\ o \in Orders /\ b \in BankStatuses /\ row \in [Orders -> Row]
      /\ read.status = "Pending" /\ read.sources = "Pending" /\ read.trxStatus = "PENDING"
  BY DEF PInv, TypeOK, Handler, Sound, Flush
<1>2. row' = [row EXCEPT ![o].status = new(read.status, OrderStatus(b), @),
                         ![o].sources = new(read.sources, OrderStatus(b), @),
                         ![o].trxStatus = new(read.trxStatus, TrxStatus(b), @)]
  BY DEF Flush
<1>3. CASE b \in Decided
  <2>1. OrderStatus(b) # "Pending" /\ TrxStatus(b) # "PENDING"
    BY <1>1, <1>3, StatusTypes
  <2>2. bank[o] = b
    BY <1>1, <1>3 DEF Sound
  <2> QED BY <1>1, <1>2, <1>3, <2>1, <2>2
<1>4. CASE b \notin Decided
  <2>1. OrderStatus(b) = "Pending" /\ TrxStatus(b) = "PENDING"
    BY <1>1, <1>4, StatusTypes
  <2>2. row' = [row EXCEPT ![o].status = @, ![o].sources = @, ![o].trxStatus = @]
    BY <1>1, <1>2, <2>1
  <2>3. row' = row
    BY <1>1, <2>2 DEF Row
  <2> QED BY <1>1, <1>4, <2>3
<1> QED BY <1>3, <1>4

\* A handler goes on to its next step, and knows what it knew.
LEMMA PInvGoto ==
  ASSUME PInv, NEW h \in Handlers, NEW pc \in {"notify", "emit"}, Goto(h, pc)
  PROVE  /\ handler' \in [Handlers -> Handler]
         /\ UNCHANGED bank => \A g \in Handlers : Sound(g)'
<1>1. handler \in [Handlers -> Handler] /\ handler' = [handler EXCEPT ![h].pc = pc]
  BY DEF PInv, TypeOK, Goto
<1>2. handler' \in [Handlers -> Handler]
  BY <1>1 DEF Handler
<1>3. ASSUME UNCHANGED bank, NEW g \in Handlers PROVE Sound(g)'
  <2>1. Sound(g)
    BY DEF PInv
  <2>2. /\ handler'[g].seen = handler[g].seen /\ handler'[g].order = handler[g].order
        /\ handler'[g].read = handler[g].read
        /\ handler'[g].pc = "flush" => handler[g].pc = "flush"
    BY <1>1 DEF Handler
  <2> QED BY <1>3, <2>1, <2>2 DEF Sound, At
<1> QED BY <1>2, <1>3

\* A handler stores what it decided, and the status moves as the statuses may.
LEMMA PInvFlush ==
  ASSUME PInv, NEW h \in Handlers, Flush(h)
  PROVE  PInv'
<1> DEFINE o == handler[h].order
           b == handler[h].seen
<1>1. TypeOK
  BY DEF PInv
<1>2. UNCHANGED <<client, bank, inFlight, announced, lookup, crashes>> /\ Goto(h, "notify")
  BY DEF Flush
<1>3. handler' \in [Handlers -> Handler] /\ \A g \in Handlers : Sound(g)'
  BY <1>2, PInvGoto
<1>4. CASE b \notin Decided
  <2>1. UNCHANGED row
    BY <1>4, FlushWritesTheWord, Zenon
  <2>2. TypeOK'
    BY <1>1, <1>2, <1>3, <2>1 DEF TypeOK
  <2> QED BY <1>2, <1>3, <2>1, <2>2, PInvQuiet, Zenon
<1>5. CASE b \in Decided
  <2>1. /\ o \in Orders /\ b \in BankStatuses /\ bank[o] = b
        /\ row' = [row EXCEPT ![o].status = OrderStatus(b), ![o].sources = OrderStatus(b),
                              ![o].trxStatus = TrxStatus(b)]
    BY <1>5, FlushWritesTheWord, Zenon
  <2>2. OrderStatus(b) \in Statuses /\ TrxStatus(b) \in TrxStatuses
    BY <2>1, StatusTypes
  <2> HIDE DEF o, b
  <2>3. row' \in [Orders -> Row]
    <3> DEFINE r == [row[o] EXCEPT !.status = OrderStatus(b), !.sources = OrderStatus(b),
                                   !.trxStatus = TrxStatus(b)]
    <3>1. row[o] \in Row /\ row \in [Orders -> Row]
      BY <1>1, <2>1 DEF TypeOK
    <3>2. r \in Row
      BY <2>2, <3>1 DEF Row
    <3>3. row' = [row EXCEPT ![o] = r]
      BY <2>1, <3>1
    <3> HIDE DEF r
    <3> QED BY <3>1, <3>2, <3>3
  <2>4. TypeOK'
    BY <1>1, <1>2, <1>3, <2>3 DEF TypeOK
  <2>5. ASSUME NEW q \in Orders PROVE Word(q)' /\ UnpaidBefore(q)'
    <3>1. Word(q) /\ UnpaidBefore(q)
      BY DEF PInv
    <3>2. CASE q = o
      <4>1. /\ row'[o].status = OrderStatus(b) /\ row'[o].sources = OrderStatus(b)
            /\ row'[o].trxStatus = TrxStatus(b)
        BY <1>1, <2>1 DEF TypeOK, Row
      <4> QED BY <1>2, <1>5, <2>1, <3>1, <3>2, <4>1 DEF Word, Settled, UnpaidBefore, b
    <3>3. CASE q # o
      <4>1. row'[q] = row[q]
        BY <1>1, <2>1, <3>3 DEF TypeOK
      <4> QED BY <1>2, <3>1, <4>1 DEF Word, Open, Settled, UnpaidBefore
    <3> QED BY <3>2, <3>3
  <2> QED BY <1>3, <2>4, <2>5, Zenon DEF PInv
<1> QED BY <1>4, <1>5

\* The SMS and the event write no order.
LEMMA PInvTell ==
  ASSUME PInv, NEW h \in Handlers, Notify(h) \/ Emit(h)
  PROVE  PInv'
<1>1. TypeOK /\ handler[h].order \in Orders
  BY DEF PInv, TypeOK, Handler
<1>2. UNCHANGED <<row, client, bank, inFlight, lookup, crashes>>
  BY DEF Notify, Emit
<1>3. Goto(h, "emit") \/ Return(h)
  BY DEF Notify, Emit
<1>4. handler' \in [Handlers -> Handler] /\ \A g \in Handlers : Sound(g)'
  <2>1. CASE Goto(h, "emit")
    BY <1>2, <2>1, PInvGoto
  <2>2. CASE Return(h)
    BY <1>1, <1>2, <2>2, IdleType, SoundStays DEF PInv, TypeOK, Return
  <2> QED BY <1>3, <2>1, <2>2
<1>5. announced' \in [Orders -> 0 .. Cardinality(Handlers)]
  BY <1>1, HandlersCounted DEF TypeOK, Notify, Emit
<1>6. TypeOK'
  BY <1>1, <1>2, <1>4, <1>5 DEF TypeOK
<1> QED BY <1>2, <1>4, <1>6, PInvQuiet

\* A crash makes the handlers forget, and lets nobody be redirected.
LEMMA PInvCrash == PInv /\ Crash => PInv'
<1> SUFFICES ASSUME PInv, Crash PROVE PInv'
  OBVIOUS
<1>1. TypeOK'
  BY IdleType, PaymentsAssumption DEF PInv, Crash, TypeOK, Clients
<1>2. ASSUME NEW h \in Handlers PROVE Sound(h)'
  BY SoundStays DEF PInv, Crash
<1>3. ASSUME NEW o \in Orders PROVE client'[o] = client[o] \/ bank[o] = "none"
  BY DEF PInv, Crash, TypeOK, UnpaidBefore
<1> QED BY <1>1, <1>2, <1>3, PInvQuiet DEF Crash

\* Every step of the checkout, the gateway and the handlers, and a crash between any two,
\* preserves the invariant.
LEMMA PInvNext == PInv /\ [Next]_vars => PInv'
<1> SUFFICES ASSUME PInv, [Next]_vars PROVE PInv'
  OBVIOUS
<1>1. ASSUME NEW o \in Orders, NEW ok \in BOOLEAN, CreateOrder(o, ok) \/ Handshake(o, ok)
      PROVE  PInv'
  BY <1>1, PInvCheckout
<1>2. ASSUME NEW o \in Orders, OpenPage(o) PROVE PInv'
  BY <1>2, PInvGateway DEF Decided
<1>3. ASSUME NEW o \in Orders, NEW outcome \in {"Paid", "Failed"}, Decide(o, outcome)
      PROVE  PInv'
  BY <1>3, PInvGateway DEF Decided
<1>4. ASSUME NEW o \in Orders, Post(o) \/ Lose(o) PROVE PInv'
  BY <1>4, PInvInFlight
<1>5. ASSUME NEW o \in Orders, NEW h \in Handlers, NEW ok \in BOOLEAN, Ask(h, o, ok)
      PROVE  PInv'
  BY <1>5, PInvAsk
<1>6. ASSUME NEW h \in Handlers, Handle(h) PROVE PInv'
  BY <1>6, PInvRead, PInvFlush, PInvTell DEF Handle
<1>7. CASE Crash
  BY <1>7, PInvCrash
<1>8. CASE UNCHANGED vars
  BY <1>8 DEF vars, PInv, TypeOK, Word, Open, Settled, UnpaidBefore, Sound, At
<1> QED BY <1>1, <1>2, <1>3, <1>4, <1>5, <1>6, <1>7, <1>8 DEF Next

-----------------------------------------------------------------------------

\* At no point does a variable leave its type.
THEOREM TypeCorrect == Spec => []TypeOK
<1>1. PInv => TypeOK
  BY DEF PInv
<1> QED BY PInvInit, PInvNext, <1>1, PTL DEF Spec

\* The order, its transaction and its sources agree with each other and with the gateway, for
\* any callbacks, repeated, late or overlapping, and over crashes.
THEOREM StoredWord == Spec => []StoredIsTheBanksWord
BY PInvInit, PInvNext, WordIsTheProperty, PTL DEF Spec

\* A step leaves a decided payment as it is: the order is not created again, since it was paid
\* after the redirection, and a late flush writes what is there.
LEMMA DecidedStep ==
  ASSUME PInv, [Next]_vars, NEW o \in Orders, row[o].status # "Pending"
  PROVE  row'[o] = row[o]
<1>1. TypeOK /\ Settled(o) /\ UnpaidBefore(o)
  BY DEF PInv, Word, Open
<1>2. client[o] = "redirected"
  BY <1>1 DEF Settled, UnpaidBefore, Decided
<1>3. ASSUME NEW q \in Orders, NEW ok \in BOOLEAN, CreateOrder(q, ok)
      PROVE  row'[o] = row[o]
  <2>1. q # o
    BY <1>2, <1>3 DEF CreateOrder
  <2> QED BY <1>1, <1>3, <2>1 DEF CreateOrder, TypeOK
<1>4. ASSUME NEW h \in Handlers, Flush(h)
      PROVE  row'[o] = row[o]
  <2> DEFINE b == handler[h].seen
             q == handler[h].order
  <2>1. CASE b \notin Decided
    BY <1>4, <2>1, FlushWritesTheWord, Zenon
  <2>2. CASE b \in Decided
    <3>1. /\ q \in Orders /\ bank[q] = b
          /\ row' = [row EXCEPT ![q].status = OrderStatus(b), ![q].sources = OrderStatus(b),
                                ![q].trxStatus = TrxStatus(b)]
      BY <1>4, <2>2, FlushWritesTheWord, Zenon
    <3> HIDE DEF b, q
    <3>2. CASE q # o
      BY <1>1, <3>1, <3>2 DEF TypeOK
    <3>3. CASE q = o
      <4>1. row' = [row EXCEPT ![o].status = @, ![o].sources = @, ![o].trxStatus = @]
        BY <1>1, <3>1, <3>3 DEF Settled
      <4> QED BY <1>1, <4>1 DEF TypeOK, Row
    <3> QED BY <3>2, <3>3, Zenon
  <2> QED BY <2>1, <2>2, Zenon
<1>5. CASE UNCHANGED row
  BY <1>5
<1> QED
  BY <1>3, <1>4, <1>5, ZenonT(60)
  DEF Next, vars, Handle, Handshake, OpenPage, Decide, Post, Lose, Ask, ReadOrder, Notify, Emit, Crash

\* No callback opens or turns a payment that was decided.
THEOREM DecidedForGood == Spec => DecidedStays
<1>1. PInv /\ [Next]_vars =>
        [\A o \in Orders : row[o].status # "Pending" => row'[o] = row[o]]_vars
  BY DecidedStep
<1> QED BY PInvInit, PInvNext, <1>1, PTL DEF Spec, DecidedStays

-----------------------------------------------------------------------------
(* Phones *)

PhonesInv == part = "phones" => Ph!TypeOK

\* The types hold at the start.
LEMMA PhonesInit == ServicesInit => PhonesInv
<1> SUFFICES ASSUME ServicesInit, part = "phones"
             PROVE  Ph!TypeOK
  BY DEF PhonesInv
<1>1. Ph!Init
  BY DEF ServicesInit
<1> QED BY <1>1, ServiceSideAssumption
        DEF Ph!Init, Ph!TypeOK, Ph!NoVerify

\* A step of the phones keeps the types.
LEMMA PhonesTyped == Ph!TypeOK /\ Ph!Next => Ph!TypeOK'
<1> SUFFICES ASSUME Ph!TypeOK, Ph!Next PROVE Ph!TypeOK'
  OBVIOUS
<1> USE DEF Ph!TypeOK, Ph!Customers, Ph!Verify, Ph!NoVerify, Ph!Answer
<1>1. ASSUME NEW c \in Ph!Customers, NEW p \in PhPhones, Ph!Confirm(c, p) PROVE Ph!TypeOK'
  BY <1>1 DEF Ph!Confirm
<1>2. ASSUME NEW c \in Ph!Customers, NEW p \in PhPhones, NEW sms \in BOOLEAN,
             Ph!SendCode(c, p, sms)
      PROVE  Ph!TypeOK'
  BY <1>2 DEF Ph!SendCode
<1>3. ASSUME NEW c \in Ph!Customers, Ph!DeleteCode(c) PROVE Ph!TypeOK'
  <2>1. v3[c] \in Ph!Verify
    BY <1>3 DEF Ph!DeleteCode
  <2> QED BY <1>3, <2>1 DEF Ph!DeleteCode
<1>4. ASSUME NEW u \in PhUsers, NEW ok \in BOOLEAN, Ph!Update(u, ok) PROVE Ph!TypeOK'
  <2>1. v3[u] \in Ph!Verify
    BY <1>4 DEF Ph!Update
  <2> QED BY <1>4, <2>1 DEF Ph!Update
<1>5. ASSUME NEW p \in PhPhones, Ph!Expire(p) PROVE Ph!TypeOK'
  BY <1>5 DEF Ph!Expire
<1> QED BY <1>1, <1>2, <1>3, <1>4, <1>5 DEF Ph!Next

\* The steps of the composition keep what is said of the phones.
LEMMA PhonesInvStep == PhonesInv /\ [ServicesNext]_allVars => PhonesInv'
<1> SUFFICES ASSUME PhonesInv, [ServicesNext]_allVars, part' = "phones" PROVE PhonesInv'
  BY DEF PhonesInv
<1>1. CASE PhonesStep
  BY <1>1, PhonesTyped DEF PhonesStep, PhonesInv
<1>2. CASE UNCHANGED allVars
  <2>1. UNCHANGED <<part, v1, v2, v3, v4>>
    BY <1>2 DEF allVars, slots
  <2> QED BY <2>1 DEF PhonesInv, Ph!TypeOK
<1>3. CASE ServicesNext /\ ~PhonesStep
  BY <1>3 DEF ServicesNext, PaymentsStep, UsersStep, FiltersStep, ModelsStep, PicksStep, SearchStep
<1> QED BY <1>1, <1>2, <1>3

-----------------------------------------------------------------------------
(* Users *)

UsersPart == part = "users" => Us!UsersInv

\* Division by a positive number, as the day of an hour is found.
LEMMA Division ==
  ASSUME NEW a \in Nat, NEW n \in Nat, n > 0
  PROVE  a \div n \in Nat /\ a % n \in 0 .. n - 1 /\ a = n * (a \div n) + (a % n)
<1> DEFINE q == a \div n
           r == a % n
<1>1. r \in 0 .. n - 1
  BY Z3
<1>2. a = n * q + r
  BY Z3
<1>3. q \in Int
  OBVIOUS
<1>4. q >= 0
  <2> HIDE DEF q, r
  <2> SUFFICES ASSUME q <= -1 PROVE FALSE
    BY <1>3
  <2>1. PICK k \in Nat : q = -1 - k
    <3>1. -1 - q \in Nat /\ q = -1 - (-1 - q)
      BY <1>3
    <3> QED BY <3>1
  <2>2. n * q = -n - n * k
    BY <2>1, Z3
  <2>3. n * k \in Nat
    BY <2>1
  <2> QED BY <1>1, <1>2, <1>3, <2>2, <2>3
<1>5. q \in Nat
  <2> HIDE DEF q
  <2> QED BY <1>3, <1>4
<1> QED BY <1>1, <1>2, <1>5, Zenon

\* A day never comes back: a later hour is not of an earlier day.
LEMMA DayMonotone ==
  ASSUME NEW a \in Nat, NEW b \in Nat, a <= b
  PROVE  Us!Day(a) \in Nat /\ Us!Day(b) \in Nat /\ Us!Day(a) <= Us!Day(b)
<1> DEFINE n == UsHours
           p == a \div n
           q == b \div n
           r == a % n
           t == b % n
<1>1. n \in Nat /\ n > 0
  BY ServiceSideAssumption DEF Us!UsersAssumption
<1> HIDE DEF n
<1>2. /\ p \in Nat /\ q \in Nat /\ r \in 0 .. n - 1 /\ t \in 0 .. n - 1
      /\ a = n * p + r /\ b = n * q + t
  BY <1>1, Division
<1> HIDE DEF p, q, r, t
<1>3. ASSUME p > q PROVE FALSE
  <2>1. PICK k \in Nat : p = q + 1 + k
    <3>1. p - q - 1 \in Nat /\ p = q + 1 + (p - q - 1)
      BY <1>2, <1>3
    <3> QED BY <3>1
  <2>2. n * p = n * q + n + n * k
    BY <1>1, <1>2, <2>1, Z3
  <2>3. n * k \in Nat /\ n * q \in Nat
    BY <1>1, <1>2, <2>1
  <2> QED BY <1>1, <1>2, <2>2, <2>3
<1>4. p <= q
  BY <1>2, <1>3
<1> QED BY <1>2, <1>4 DEF Us!Day, p, q, n

\* The cardinality that an instance brings with it is the cardinality.
LEMMA UsersCardinality ==
  /\ \A S : Us!Cardinality(S) = Cardinality(S)
  /\ \A S : Us!IsFiniteSet(S) <=> IsFiniteSet(S)
<1>1. \A S : Us!Cardinality(S) = Cardinality(S)
  BY DEF Us!Cardinality, Cardinality
<1>2. \A S : Us!IsFiniteSet(S) <=> IsFiniteSet(S)
  BY DEF Us!IsFiniteSet, IsFiniteSet
<1> QED BY <1>1, <1>2

\* What is counted is finite, and no more requests are pending than there are.
LEMMA UsersFinite ==
  ASSUME Us!UsersInv, NEW kind, NEW u, NEW thing, NEW d
  PROVE  /\ IsFiniteSet(UsRequests) /\ Cardinality(UsRequests) \in Nat
         /\ IsFiniteSet(Us!Of(kind, u, thing)) /\ Cardinality(Us!Of(kind, u, thing)) \in Nat
         /\ IsFiniteSet(Us!DoneOn(kind, u, thing, d))
         /\ Cardinality(Us!DoneOn(kind, u, thing, d)) \in Nat
         /\ IsFiniteSet(Us!Pending(kind, u, thing))
         /\ Cardinality(Us!Pending(kind, u, thing)) \in Nat
<1>1. IsFiniteSet(UsRequests)
  BY ServiceSideAssumption, UsersCardinality DEF Us!UsersAssumption
<1>2. Us!Pending(kind, u, thing) \subseteq UsRequests
  BY DEF Us!Pending
<1>3. /\ Us!Of(kind, u, thing) \subseteq v2 /\ Us!DoneOn(kind, u, thing, d) \subseteq v2
      /\ IsFiniteSet(v2)
  BY UsersCardinality DEF Us!Of, Us!DoneOn, Us!UsersInv
<1>4. IsFiniteSet(Us!Pending(kind, u, thing)) /\ IsFiniteSet(Us!Of(kind, u, thing))
      /\ IsFiniteSet(Us!DoneOn(kind, u, thing, d))
  BY <1>1, <1>2, <1>3, FS_Subset
<1> QED BY <1>1, <1>4, FS_CardinalityType

\* As long as the counts of a thing do not grow, what is said of them holds on.
LEMMA CountsKept ==
  ASSUME Us!UsersInv, v1' = v1, NEW kind, NEW u, NEW thing, NEW d,
         Us!Of(kind, u, thing)' \subseteq Us!Of(kind, u, thing),
         Us!Pending(kind, u, thing)' \subseteq Us!Pending(kind, u, thing)
  PROVE  /\ Cardinality(Us!Of(kind, u, thing)') <= Cardinality(Us!Of(kind, u, thing))
         /\ Cardinality(Us!DoneOn(kind, u, thing, d)') <= Cardinality(Us!DoneOn(kind, u, thing, d))
         /\ Cardinality(Us!Pending(kind, u, thing)') <= Cardinality(Us!Pending(kind, u, thing))
         /\ Cardinality(Us!Of(kind, u, thing)') \in Nat
         /\ Cardinality(Us!DoneOn(kind, u, thing, d)') \in Nat
         /\ Cardinality(Us!Pending(kind, u, thing)') \in Nat
<1>1. Us!DoneOn(kind, u, thing, d)' \subseteq Us!DoneOn(kind, u, thing, d)
  BY DEF Us!DoneOn
<1> QED BY <1>1, UsersFinite, FS_Subset, FS_CardinalityType

\* As long as the counts of a thing do not grow, what is said of them holds on.
LEMMA CountsMet ==
  ASSUME Us!UsersInv, v1' = v1, NEW kind, NEW u, NEW thing, Us!Counted(kind, u, thing),
         Us!Of(kind, u, thing)' \subseteq Us!Of(kind, u, thing),
         Us!Pending(kind, u, thing)' \subseteq Us!Pending(kind, u, thing)
  PROVE  Us!Counted(kind, u, thing)'
<1>1. Us!Day(v1)' = Us!Day(v1)
  BY DEF Us!Day
<1>2. Cardinality(UsRequests) \in Nat
  BY UsersFinite
<1> DEFINE of(S) == Cardinality(S)
<1>3. /\ kind \in {"reservation", "visit"} =>
         /\ Cardinality(Us!DoneOn(kind, u, thing, Us!Day(v1))')
              + Cardinality(Us!Pending(kind, u, thing)') <= Cardinality(UsRequests)
         /\ \A d \in 0 .. UsDays :
              Cardinality(Us!DoneOn(kind, u, thing, d)') <= Cardinality(UsRequests)
      /\ kind = "review" =>
           Cardinality(Us!Of(kind, u, thing)') + Cardinality(Us!Pending(kind, u, thing)')
             <= Cardinality(UsRequests)
  <2>1. \A d : /\ Cardinality(Us!DoneOn(kind, u, thing, d)')
                    <= Cardinality(Us!DoneOn(kind, u, thing, d))
               /\ Cardinality(Us!DoneOn(kind, u, thing, d)') \in Nat
               /\ Cardinality(Us!DoneOn(kind, u, thing, d)) \in Nat
    BY CountsKept, UsersFinite
  <2>2. /\ Cardinality(Us!Of(kind, u, thing)') <= Cardinality(Us!Of(kind, u, thing))
        /\ Cardinality(Us!Pending(kind, u, thing)') <= Cardinality(Us!Pending(kind, u, thing))
        /\ Cardinality(Us!Of(kind, u, thing)') \in Nat
        /\ Cardinality(Us!Pending(kind, u, thing)') \in Nat
        /\ Cardinality(Us!Of(kind, u, thing)) \in Nat
        /\ Cardinality(Us!Pending(kind, u, thing)) \in Nat
    BY CountsKept, UsersFinite
  <2> QED BY <1>2, <2>1, <2>2, UsersCardinality DEF Us!Counted
<1> QED BY <1>1, <1>3, UsersCardinality DEF Us!Counted, Us!DoneOn, Us!Of, Us!Pending

AllCounted ==
  \A kind \in Us!Kinds, u \in UsUsers, thing \in Us!Things : Us!Counted(kind, u, thing)

\* A step that writes nothing and begins nothing keeps the counts.
LEMMA QuietCounts ==
  ASSUME Us!UsersInv, v1' = v1, v2' \subseteq v2,
         \A r \in UsRequests : v4'[r] \in {v4[r], Us!NoRequest}
  PROVE  AllCounted'
<1>1. ASSUME NEW kind, NEW u, NEW thing
      PROVE  /\ Us!Of(kind, u, thing)' \subseteq Us!Of(kind, u, thing)
             /\ Us!Pending(kind, u, thing)' \subseteq Us!Pending(kind, u, thing)
  BY DEF Us!Of, Us!Pending, Us!NoRequest
<1>2. ASSUME NEW kind \in Us!Kinds, NEW u \in UsUsers, NEW thing \in Us!Things
      PROVE  Us!Counted(kind, u, thing)'
  BY <1>1, CountsMet DEF Us!UsersInv
<1> QED BY <1>2 DEF AllCounted, Us!Things, Us!Kinds

\* A request that looked begins only where nothing is done yet: it and the others that are
\* pending are no more than all requests.
LEMMA BegunCounts ==
  ASSUME Us!UsersInv, NEW r \in UsRequests, NEW k \in Us!Kinds, NEW w \in UsUsers,
         NEW l \in Us!Things, NEW blind \in BOOLEAN,
         Us!Proceed(r, k, w, l, blind),
         k = "review" => Us!Of(k, w, l) = {} /\ ~blind,
         k \in {"reservation", "visit"} /\ ~blind => Us!OfToday(k, w, l) = {}
  PROVE  AllCounted'
<1> SUFFICES ASSUME NEW kind \in Us!Kinds, NEW u \in UsUsers, NEW thing \in Us!Things
             PROVE  Us!Counted(kind, u, thing)'
  BY DEF AllCounted, Us!Things, Us!Kinds
<1>1. /\ v1' = v1 /\ v2' = v2
      /\ v4' = [v4 EXCEPT ![r] = [pc |-> "create", kind |-> k, user |-> w, thing |-> l,
                                  blind |-> blind]]
      /\ v4 \in [UsRequests -> Us!Request \cup {Us!NoRequest}]
  BY DEF Us!Proceed, Us!UsersInv, Us!TypeOK
<1>2. /\ Us!Of(kind, u, thing)' = Us!Of(kind, u, thing)
      /\ \A d : Us!DoneOn(kind, u, thing, d)' = Us!DoneOn(kind, u, thing, d)
      /\ Us!Day(v1)' = Us!Day(v1)
  BY <1>1 DEF Us!Of, Us!DoneOn, Us!Day
<1>3. CASE ~(kind = k /\ u = w /\ thing = l /\ ~blind)
  <2>1. Us!Pending(kind, u, thing)' \subseteq Us!Pending(kind, u, thing)
    BY <1>1, <1>3 DEF Us!Pending
  <2> QED BY <1>1, <1>2, <2>1, CountsMet DEF Us!UsersInv
<1>4. CASE kind = k /\ u = w /\ thing = l /\ ~blind
  <2>1. /\ Us!Pending(kind, u, thing)' \subseteq UsRequests
        /\ IsFiniteSet(UsRequests)
        /\ Cardinality(UsRequests) \in Nat
    BY UsersFinite DEF Us!Pending
  <2>2. Cardinality(Us!Pending(kind, u, thing)') <= Cardinality(UsRequests)
        /\ Cardinality(Us!Pending(kind, u, thing)') \in Nat
    BY <2>1, FS_Subset, FS_CardinalityType
  <2>3. ASSUME kind \in {"reservation", "visit"}
        PROVE  Us!DoneOn(kind, u, thing, Us!Day(v1)) = {}
    <3>1. Us!OfToday(kind, u, thing) = {}
      BY <1>4, <2>3
    <3> QED BY <3>1 DEF Us!OfToday, Us!DoneOn
  <2>4. ASSUME kind = "review" PROVE Us!Of(kind, u, thing) = {}
    BY <1>4, <2>4
  <2>5. Cardinality({}) = 0
    BY FS_EmptySet
  <2>6. kind \in {"reservation", "visit"} =>
          Cardinality(Us!DoneOn(kind, u, thing, Us!Day(v1))')
            + Cardinality(Us!Pending(kind, u, thing)') <= Cardinality(UsRequests)
    <3> SUFFICES ASSUME kind \in {"reservation", "visit"}
                 PROVE  Cardinality(Us!DoneOn(kind, u, thing, Us!Day(v1))')
                          + Cardinality(Us!Pending(kind, u, thing)') <= Cardinality(UsRequests)
      OBVIOUS
    <3>1. Cardinality(Us!DoneOn(kind, u, thing, Us!Day(v1))') = 0
      BY <1>2, <2>3, <2>5
    <3> QED BY <2>1, <2>2, <3>1
  <2>7. kind = "review" => Cardinality(Us!Of(kind, u, thing)')
                             + Cardinality(Us!Pending(kind, u, thing)') <= Cardinality(UsRequests)
    BY <1>2, <2>1, <2>2, <2>4, <2>5
  <2>8. kind \in {"reservation", "visit"} =>
          \A d \in 0 .. UsDays : Cardinality(Us!DoneOn(kind, u, thing, d)')
                                   <= Cardinality(UsRequests)
    BY <1>2, UsersCardinality DEF Us!UsersInv, Us!Counted
  <2> QED BY <1>2, <2>6, <2>7, <2>8, UsersCardinality
          DEF Us!Counted, Us!DoneOn, Us!Of, Us!Pending
<1> QED BY <1>3, <1>4

\* A day that begins has nothing done on it.
LEMMA TickCounts ==
  ASSUME Us!UsersInv, Us!Tick
  PROVE  AllCounted'
<1> SUFFICES ASSUME NEW kind \in Us!Kinds, NEW u \in UsUsers, NEW thing \in Us!Things
             PROVE  Us!Counted(kind, u, thing)'
  BY DEF AllCounted, Us!Things, Us!Kinds
<1>1. v1 \in Nat /\ v1' = v1 + 1 /\ v2' = v2 /\ v4' = v4
  BY ServiceSideAssumption
     DEF Us!Tick, Us!UsersInv, Us!TypeOK, Us!UsersAssumption
<1>2. /\ Us!Of(kind, u, thing)' = Us!Of(kind, u, thing)
      /\ Us!Pending(kind, u, thing)' = Us!Pending(kind, u, thing)
      /\ \A d : Us!DoneOn(kind, u, thing, d)' = Us!DoneOn(kind, u, thing, d)
  BY <1>1 DEF Us!Of, Us!DoneOn, Us!Pending
<1>3. Us!Day(v1)' = Us!Day(v1 + 1)
  BY <1>1 DEF Us!Day
<1>4. Us!Counted(kind, u, thing)
  BY DEF Us!UsersInv
<1>5. CASE Us!Day(v1 + 1) = Us!Day(v1)
  BY <1>2, <1>3, <1>4, <1>5 DEF Us!Counted, Us!DoneOn, Us!Of, Us!Pending
<1>6. CASE Us!Day(v1 + 1) # Us!Day(v1)
  <2>1. Us!DoneOn(kind, u, thing, Us!Day(v1 + 1)) = {}
    <3> SUFFICES ASSUME NEW x \in v2, Us!Day(x.made) = Us!Day(v1 + 1) PROVE FALSE
      BY DEF Us!DoneOn, Us!Of
    <3>1. x.made \in Nat /\ x.made <= v1
      BY ServiceSideAssumption
         DEF Us!UsersInv, Us!TypeOK, Us!Row, Us!Times, Us!UsersAssumption
    <3>2. Us!Day(x.made) <= Us!Day(v1) /\ Us!Day(v1) <= Us!Day(v1 + 1)
          /\ Us!Day(v1) \in Nat /\ Us!Day(v1 + 1) \in Nat
      BY <1>1, <3>1, DayMonotone
    <3> QED BY <1>6, <3>2
  <2>2. Us!Pending(kind, u, thing) \subseteq UsRequests
    BY DEF Us!Pending
  <2>3. /\ Cardinality(Us!Pending(kind, u, thing)) <= Cardinality(UsRequests)
        /\ Cardinality(Us!Pending(kind, u, thing)) \in Nat /\ Cardinality(UsRequests) \in Nat
    BY <2>2, UsersFinite, FS_Subset
  <2>4. Cardinality(Us!DoneOn(kind, u, thing, Us!Day(v1 + 1))) = 0
    BY <2>1, FS_EmptySet
  <2>5. Cardinality(Us!DoneOn(kind, u, thing, Us!Day(v1 + 1)))
          + Cardinality(Us!Pending(kind, u, thing)) <= Cardinality(UsRequests)
    BY <2>3, <2>4
  <2> QED BY <1>2, <1>3, <1>4, <2>5, UsersCardinality, ZenonT(60)
          DEF Us!Counted, Us!DoneOn, Us!Of, Us!Pending
<1> QED BY <1>5, <1>6

\* There is a number left for a row while there is room for one.
LEMMA RoomForRow ==
  ASSUME NEW S, IsFiniteSet(S), NEW n \in Nat, Cardinality(S) < n,
         NEW f, f = [i \in 1 .. n |-> f[i]],
         \A i, j \in 1 .. n : f[i] = f[j] => i = j
  PROVE  \E i \in 1 .. n : f[i] \notin S
<1> SUFFICES ASSUME \A i \in 1 .. n : f[i] \in S PROVE FALSE
  OBVIOUS
<1>1. f \in Injection(1 .. n, S)
  BY DEF Injection, IsInjective
<1>2. Cardinality(1 .. n) <= Cardinality(S)
  BY <1>1, FS_Injection
<1>3. Cardinality(1 .. n) = n
  <2>1. 1 \in Int /\ n \in Int
    OBVIOUS
  <2>2. Cardinality(1 .. n) = IF 1 > n THEN 0 ELSE n - 1 + 1
    BY <2>1, FS_Interval, Zenon
  <2> QED BY <2>2
<1> QED BY <1>2, <1>3, FS_CardinalityType

\* A row that is written takes the place of the request that was pending, and counts for the day
\* on which it is written only.
LEMMA WrittenCounts ==
  ASSUME Us!UsersInv, NEW r \in UsRequests, NEW x, x \in Us!Row,
         v1' = v1, v2' = v2 \cup {x}, v4' = [v4 EXCEPT ![r] = Us!NoRequest],
         v4[r].pc = "create", x.kind = v4[r].kind, x.user = v4[r].user,
         x.thing = v4[r].thing, x.blind = v4[r].blind, x.made = v1
  PROVE  AllCounted'
<1> SUFFICES ASSUME NEW kind \in Us!Kinds, NEW u \in UsUsers, NEW thing \in Us!Things
             PROVE  Us!Counted(kind, u, thing)'
  BY DEF AllCounted, Us!Things, Us!Kinds
<1>1. v4 \in [UsRequests -> Us!Request \cup {Us!NoRequest}]
  BY DEF Us!UsersInv, Us!TypeOK
<1>2. Us!Counted(kind, u, thing)
  BY DEF Us!UsersInv
<1>3. Us!Pending(kind, u, thing)' \subseteq Us!Pending(kind, u, thing)
  BY <1>1 DEF Us!Pending, Us!NoRequest
<1>4. Us!Day(v1)' = Us!Day(v1)
  BY DEF Us!Day
<1>5. CASE ~(kind = x.kind /\ u = x.user /\ thing = x.thing)
  <2>1. Us!Of(kind, u, thing)' \subseteq Us!Of(kind, u, thing)
    BY <1>5 DEF Us!Of
  <2> QED BY <1>2, <1>3, <2>1, CountsMet
<1>6. CASE kind = x.kind /\ u = x.user /\ thing = x.thing /\ x.blind /\ kind # "review"
  <2>1. \A d : Us!DoneOn(kind, u, thing, d)' = Us!DoneOn(kind, u, thing, d)
    BY <1>6 DEF Us!DoneOn, Us!Of
  <2>2. /\ Cardinality(Us!Pending(kind, u, thing)') <= Cardinality(Us!Pending(kind, u, thing))
        /\ Cardinality(Us!Pending(kind, u, thing)') \in Nat
        /\ Cardinality(Us!Pending(kind, u, thing)) \in Nat
        /\ Cardinality(UsRequests) \in Nat
        /\ \A d : Cardinality(Us!DoneOn(kind, u, thing, d)) \in Nat
    BY <1>3, UsersFinite, FS_Subset, FS_CardinalityType
  <2>3. kind \in {"reservation", "visit"} =>
          /\ Cardinality(Us!DoneOn(kind, u, thing, Us!Day(v1))')
               + Cardinality(Us!Pending(kind, u, thing)') <= Cardinality(UsRequests)
          /\ \A d \in 0 .. UsDays : Cardinality(Us!DoneOn(kind, u, thing, d)')
                                      <= Cardinality(UsRequests)
    BY <1>2, <2>1, <2>2, UsersCardinality DEF Us!Counted
  <2> QED BY <1>4, <1>6, <2>3, UsersCardinality
          DEF Us!Counted, Us!DoneOn, Us!Of, Us!Pending
<1>7. CASE /\ kind = x.kind /\ u = x.user /\ thing = x.thing /\ (~x.blind \/ kind = "review")
  <2>1. ~x.blind
    BY <1>1, <1>7 DEF Us!UsersInv, Us!NoRequest
  <2>2. r \in Us!Pending(kind, u, thing)
        /\ Us!Pending(kind, u, thing)' = Us!Pending(kind, u, thing) \ {r}
    BY <1>1, <1>7, <2>1 DEF Us!Pending, Us!NoRequest
  <2>3. /\ Cardinality(Us!Pending(kind, u, thing)') = Cardinality(Us!Pending(kind, u, thing)) - 1
        /\ Cardinality(Us!Pending(kind, u, thing)) \in Nat
        /\ Cardinality(Us!Pending(kind, u, thing)') \in Nat
        /\ Cardinality(UsRequests) \in Nat
    <3>1. IsFiniteSet(Us!Pending(kind, u, thing)')
      BY <2>2, UsersFinite, FS_RemoveElement
    <3> QED BY <2>2, <3>1, UsersFinite, FS_RemoveElement, FS_CardinalityType
  <2>4. ASSUME NEW S, NEW T, IsFiniteSet(S), T \subseteq S \cup {x}
        PROVE  Cardinality(T) \in Nat /\ Cardinality(S) \in Nat
               /\ Cardinality(T) <= Cardinality(S) + 1
    <3>1. IsFiniteSet(S \cup {x}) /\ Cardinality(S \cup {x}) <= Cardinality(S) + 1
          /\ Cardinality(S) \in Nat
      <4>1. IsFiniteSet(S \cup {x})
            /\ Cardinality(S \cup {x}) = IF x \in S THEN Cardinality(S) ELSE Cardinality(S) + 1
        BY <2>4, FS_AddElement
      <4>2. Cardinality(S) \in Nat
        BY <2>4, FS_CardinalityType
      <4> QED BY <4>1, <4>2
    <3>2. IsFiniteSet(T) /\ Cardinality(T) <= Cardinality(S \cup {x})
      BY <2>4, <3>1, FS_Subset
    <3> QED BY <3>1, <3>2, FS_CardinalityType
  <2>5. \A d : /\ Us!DoneOn(kind, u, thing, d)' \subseteq Us!DoneOn(kind, u, thing, d) \cup {x}
               /\ d # Us!Day(v1) =>
                    Us!DoneOn(kind, u, thing, d)' \subseteq Us!DoneOn(kind, u, thing, d)
    BY DEF Us!DoneOn, Us!Of
  <2>6. Us!Of(kind, u, thing)' \subseteq Us!Of(kind, u, thing) \cup {x}
    BY DEF Us!Of
  <2>7. kind = "review" => Cardinality(Us!Of(kind, u, thing)')
                             + Cardinality(Us!Pending(kind, u, thing)') <= Cardinality(UsRequests)
    <3>1. /\ Cardinality(Us!Of(kind, u, thing)') <= Cardinality(Us!Of(kind, u, thing)) + 1
          /\ Cardinality(Us!Of(kind, u, thing)') \in Nat /\ Cardinality(Us!Of(kind, u, thing)) \in Nat
      BY <2>4, <2>6, UsersFinite
    <3> QED BY <1>2, <2>3, <3>1, UsersCardinality DEF Us!Counted
  <2>8. ASSUME kind \in {"reservation", "visit"}
        PROVE  /\ Cardinality(Us!DoneOn(kind, u, thing, Us!Day(v1))')
                    + Cardinality(Us!Pending(kind, u, thing)') <= Cardinality(UsRequests)
               /\ \A d \in 0 .. UsDays : Cardinality(Us!DoneOn(kind, u, thing, d)')
                                           <= Cardinality(UsRequests)
    <3>1. /\ Cardinality(Us!DoneOn(kind, u, thing, Us!Day(v1))')
               <= Cardinality(Us!DoneOn(kind, u, thing, Us!Day(v1))) + 1
          /\ Cardinality(Us!DoneOn(kind, u, thing, Us!Day(v1))') \in Nat
          /\ Cardinality(Us!DoneOn(kind, u, thing, Us!Day(v1))) \in Nat
      BY <2>4, <2>5, UsersFinite
    <3>2. Cardinality(Us!DoneOn(kind, u, thing, Us!Day(v1)))
            + Cardinality(Us!Pending(kind, u, thing)) <= Cardinality(UsRequests)
      BY <1>2, <2>8, UsersCardinality DEF Us!Counted
    <3>3. Cardinality(Us!DoneOn(kind, u, thing, Us!Day(v1))')
            + Cardinality(Us!Pending(kind, u, thing)') <= Cardinality(UsRequests)
      BY <2>3, <3>1, <3>2
    <3>4. ASSUME NEW d \in 0 .. UsDays
          PROVE  Cardinality(Us!DoneOn(kind, u, thing, d)') <= Cardinality(UsRequests)
      <4>1. CASE d = Us!Day(v1)
        BY <2>3, <3>1, <3>3, <4>1
      <4>2. CASE d # Us!Day(v1)
        <5>1. /\ Cardinality(Us!DoneOn(kind, u, thing, d)')
                   <= Cardinality(Us!DoneOn(kind, u, thing, d))
              /\ Cardinality(Us!DoneOn(kind, u, thing, d)') \in Nat
              /\ Cardinality(Us!DoneOn(kind, u, thing, d)) \in Nat
          BY <2>5, <4>2, UsersFinite, FS_Subset, FS_CardinalityType
        <5>2. Cardinality(Us!DoneOn(kind, u, thing, d)) <= Cardinality(UsRequests)
          BY <1>2, <2>8, UsersCardinality DEF Us!Counted
        <5> QED BY <2>3, <5>1, <5>2
      <4> QED BY <4>1, <4>2
    <3> QED BY <3>3, <3>4
  <2> QED BY <1>4, <2>7, <2>8, UsersCardinality
          DEF Us!Counted, Us!DoneOn, Us!Of, Us!Pending
<1> QED BY <1>5, <1>6, <1>7

\* The row that a request writes is the one it was about to write.
LEMMA RowWritten ==
  ASSUME Us!UsersInv, NEW r \in UsRequests, Us!CreateRow(r, TRUE)
  PROVE  \E x \in Us!Row :
           /\ v2' = v2 \cup {x} /\ x.made = v1
           /\ x.kind = v4[r].kind /\ x.user = v4[r].user /\ x.thing = v4[r].thing
           /\ x.blind = v4[r].blind
<1> DEFINE new(i) == [kind |-> v4[r].kind, user |-> v4[r].user, thing |-> v4[r].thing,
                      stamp |-> IF v4[r].kind = "visit" THEN v1 ELSE v1 + UsAhead,
                      made |-> v1, blind |-> v4[r].blind, n |-> i]
           f == [i \in 1 .. UsMaxRows |-> new(i)]
           m == CHOOSE i \in 1 .. UsMaxRows : new(i) \notin v2
<1>1. \A i, j \in 1 .. UsMaxRows : f[i] = f[j] => i = j
  OBVIOUS
<1>2. \E i \in 1 .. UsMaxRows : f[i] \notin v2
  <2>1. f = [i \in 1 .. UsMaxRows |-> f[i]]
    OBVIOUS
  <2>2. IsFiniteSet(v2) /\ Cardinality(v2) < UsMaxRows /\ UsMaxRows \in Nat
    BY UsersCardinality, ServiceSideAssumption DEF Us!UsersInv, Us!CreateRow, Us!UsersAssumption
  <2> HIDE DEF f
  <2> QED BY <1>1, <2>1, <2>2, RoomForRow
<1>3. m \in 1 .. UsMaxRows
  <2>1. \E i \in 1 .. UsMaxRows : new(i) \notin v2
    BY <1>2
  <2> QED BY <2>1
<1>4. v2' = v2 \cup {new(m)}
  BY DEF Us!CreateRow, Us!DateTime
<1>5. v4[r] \in Us!Request
  BY DEF Us!UsersInv, Us!TypeOK, Us!CreateRow, Us!NoRequest
<1>6. v1 \in Us!Times /\ v1 + UsAhead \in Us!Times
  <2>1. UsHours * UsDays \in Nat /\ UsAhead \in Nat
    BY ServiceSideAssumption DEF Us!UsersAssumption
  <2>2. v1 \in 0 .. UsHours * UsDays
    BY DEF Us!UsersInv, Us!TypeOK
  <2> DEFINE hd == UsHours * UsDays
  <2> HIDE DEF hd
  <2>3. v1 \in 0 .. hd /\ hd \in Nat
    BY <2>1, <2>2 DEF hd
  <2>4. v1 \in 0 .. hd + UsAhead /\ v1 + UsAhead \in 0 .. hd + UsAhead
    BY <2>1, <2>3
  <2> QED BY <2>4 DEF Us!Times, hd
<1> HIDE DEF m
<1>7. new(m) \in Us!Row
  BY <1>3, <1>5, <1>6 DEF Us!Request, Us!Row
<1> QED BY <1>4, <1>7

\* The types, and that what follows a failed look-up is no review, are kept by every step.
LEMMA UsersTyped ==
  ASSUME Us!UsersInv, Us!Next
  PROVE  /\ Us!TypeOK' /\ Us!IsFiniteSet(v2)' /\ \A x \in v2' : x.made <= v1'
         /\ \A r \in UsRequests :
              v4'[r] # Us!NoRequest /\ v4'[r].kind = "review" => ~v4'[r].blind
<1> DEFINE Goal == /\ Us!TypeOK' /\ Us!IsFiniteSet(v2)' /\ \A x \in v2' : x.made <= v1'
                   /\ \A r \in UsRequests :
                        v4'[r] # Us!NoRequest /\ v4'[r].kind = "review" => ~v4'[r].blind
<1> USE DEF Us!UsersInv, Us!TypeOK
<1>1. CASE Us!Tick
  <2>1. v1' = v1 + 1 /\ v1' \in 0 .. UsHours * UsDays /\ UNCHANGED <<v2, v3, v4>>
    <3>1. UsHours * UsDays \in Nat
      BY ServiceSideAssumption DEF Us!UsersAssumption
    <3> QED BY <1>1, <3>1 DEF Us!Tick
  <2>2. \A x \in v2 : x.made \in Nat
    BY ServiceSideAssumption DEF Us!Row, Us!Times, Us!UsersAssumption
  <2>3. v1 \in Nat
    OBVIOUS
  <2>4. \A x \in v2' : x.made <= v1'
    BY <2>1, <2>2, <2>3
  <2> QED BY <2>1, <2>4
<1>2. ASSUME NEW r \in UsRequests, NEW k \in Us!Kinds, NEW w \in UsUsers, NEW l \in Us!Things,
             NEW blind \in BOOLEAN, Us!Proceed(r, k, w, l, blind), k = "review" => ~blind
      PROVE  Goal
  BY <1>2 DEF Us!Proceed, Us!Request, Us!NoRequest
<1>3. ASSUME NEW u \in UsUsers, NEW l \in UsListings, Us!RemoveWish(u, l) PROVE Goal
  <2>1. v2' \subseteq v2 /\ UNCHANGED <<v1, v3, v4>>
    BY <1>3 DEF Us!RemoveWish
  <2>2. Us!IsFiniteSet(v2')
    BY <2>1, UsersCardinality, FS_Subset
  <2> QED BY <2>1, <2>2
<1>4. ASSUME NEW u \in UsUsers, NEW a \in UsAddresses, NEW c \in UsContents,
             Us!AddAddress(u, a, c) \/ Us!UpdateAddress(u, a, c)
      PROVE  Goal
  <2>1. UNCHANGED <<v1, v2, v4>>
    BY <1>4 DEF Us!AddAddress, Us!UpdateAddress
  <2>2. v3' \in [UsAddresses -> Us!Address \cup {Us!NoAddress}]
    BY <1>4 DEF Us!AddAddress, Us!UpdateAddress, Us!Address
  <2> QED BY <2>1, <2>2
<1>5. ASSUME NEW r \in UsRequests, NEW ok \in BOOLEAN, Us!CreateRow(r, ok) PROVE Goal
  <2>1. UNCHANGED <<v1, v3>> /\ v4' = [v4 EXCEPT ![r] = Us!NoRequest]
    BY <1>5 DEF Us!CreateRow
  <2>2. CASE ~ok
    <3>1. v2' = v2
      BY <1>5, <2>2 DEF Us!CreateRow
    <3> QED BY <2>1, <3>1
  <2>3. CASE ok
    <3>1. PICK x \in Us!Row : v2' = v2 \cup {x} /\ x.made = v1
      BY <1>5, <2>3, RowWritten
    <3>2. Us!IsFiniteSet(v2')
      BY <3>1, UsersCardinality, FS_AddElement
    <3>3. v1 \in Nat
      BY ServiceSideAssumption DEF Us!UsersAssumption
    <3> QED BY <2>1, <3>1, <3>2, <3>3
  <2> QED BY <2>2, <2>3
<1> QED BY <1>1, <1>2, <1>3, <1>4, <1>5, ZenonT(60)
        DEF Us!Next, Us!Reserve, Us!Visit, Us!Look, Us!AddWish, Us!BeginReview, Us!Kinds, Us!Things

\* Every step keeps the counts.
LEMMA UsersCounted ==
  ASSUME Us!UsersInv, Us!Next
  PROVE  AllCounted'
<1>1. CASE Us!Tick
  BY <1>1, TickCounts
<1>2. ASSUME NEW r \in UsRequests, NEW u \in UsUsers, NEW l \in UsListings, Us!AddWish(r, u, l)
      PROVE  AllCounted'
  <2>1. Us!Proceed(r, "wish", u, l, FALSE) /\ l \in Us!Things /\ "wish" \in Us!Kinds
    BY <1>2 DEF Us!AddWish, Us!Things, Us!Kinds
  <2> QED BY <2>1, BegunCounts
<1>3. ASSUME NEW r \in UsRequests, NEW u \in UsUsers, NEW l \in UsListings,
             NEW failed \in BOOLEAN, NEW k \in {"reservation", "visit"},
             Us!Look(r, k, u, l, failed)
      PROVE  AllCounted'
  <2>1. /\ Us!Proceed(r, k, u, l, failed) /\ l \in Us!Things /\ k \in Us!Kinds /\ k # "review"
        /\ ~failed => Us!OfToday(k, u, l) = {}
    BY <1>3 DEF Us!Look, Us!Things, Us!Kinds
  <2> QED BY <2>1, BegunCounts
<1>4. ASSUME NEW r \in UsRequests, NEW u \in UsUsers, NEW rev \in UsReviews,
             Us!BeginReview(r, u, rev)
      PROVE  AllCounted'
  <2>1. /\ Us!Proceed(r, "review", u, rev, FALSE) /\ rev \in Us!Things /\ "review" \in Us!Kinds
        /\ Us!Of("review", u, rev) = {}
    BY <1>4 DEF Us!BeginReview, Us!Things, Us!Kinds
  <2> QED BY <2>1, BegunCounts
<1>5. ASSUME NEW r \in UsRequests, Us!CreateRow(r, FALSE) PROVE AllCounted'
  <2>1. v1' = v1 /\ v2' = v2 /\ v4' = [v4 EXCEPT ![r] = Us!NoRequest]
        /\ v4 \in [UsRequests -> Us!Request \cup {Us!NoRequest}]
    BY <1>5 DEF Us!CreateRow, Us!UsersInv, Us!TypeOK
  <2> QED BY <2>1, QuietCounts
<1>6. ASSUME NEW r \in UsRequests, Us!CreateRow(r, TRUE) PROVE AllCounted'
  <2>1. v1' = v1 /\ v4' = [v4 EXCEPT ![r] = Us!NoRequest] /\ v4[r].pc = "create"
    BY <1>6 DEF Us!CreateRow
  <2> QED BY <1>6, <2>1, RowWritten, WrittenCounts
<1>7. ASSUME NEW u \in UsUsers, NEW l \in UsListings, Us!RemoveWish(u, l) PROVE AllCounted'
  <2>1. v1' = v1 /\ v2' \subseteq v2 /\ v4' = v4
    BY <1>7 DEF Us!RemoveWish
  <2> QED BY <2>1, QuietCounts
<1>8. ASSUME NEW u \in UsUsers, NEW a \in UsAddresses, NEW c \in UsContents,
             Us!AddAddress(u, a, c) \/ Us!UpdateAddress(u, a, c)
      PROVE  AllCounted'
  <2>1. v1' = v1 /\ v2' = v2 /\ v4' = v4
    BY <1>8 DEF Us!AddAddress, Us!UpdateAddress
  <2> QED BY <2>1, QuietCounts
<1> QED BY <1>1, <1>2, <1>3, <1>4, <1>5, <1>6, <1>7, <1>8 DEF Us!Next, Us!Reserve, Us!Visit

\* At the start nothing is done and no request is on its way.
LEMMA UsersInit == ServicesInit => UsersPart
<1> SUFFICES ASSUME Us!Init PROVE Us!UsersInv
  BY DEF ServicesInit, UsersPart
<1>1. Us!TypeOK
  <2>1. UsHours * UsDays \in Nat
    BY ServiceSideAssumption DEF Us!UsersAssumption
  <2> QED BY <2>1 DEF Us!Init, Us!TypeOK
<1>2. Us!IsFiniteSet(v2)
  BY FS_EmptySet, UsersCardinality DEF Us!Init
<1>3. ASSUME NEW kind, NEW u, NEW thing PROVE Us!Counted(kind, u, thing)
  <2>1. /\ Us!Of(kind, u, thing) = {} /\ Us!Pending(kind, u, thing) = {}
        /\ \A d : Us!DoneOn(kind, u, thing, d) = {}
    BY DEF Us!Init, Us!Of, Us!Pending, Us!DoneOn, Us!NoRequest
  <2>2. Cardinality({}) = 0 /\ Cardinality(UsRequests) \in Nat
    BY FS_EmptySet, FS_CardinalityType, ServiceSideAssumption, UsersCardinality
       DEF Us!UsersAssumption
  <2>3. Cardinality({}) + Cardinality({}) <= Cardinality(UsRequests)
        /\ Cardinality({}) <= Cardinality(UsRequests)
    BY <2>2
  <2> QED BY <2>1, <2>3, UsersCardinality DEF Us!Counted
<1> QED BY <1>1, <1>2, <1>3 DEF Us!UsersInv, Us!Init, Us!NoRequest

\* The steps of the composition keep what is said of the users.
LEMMA UsersInvStep == UsersPart /\ [ServicesNext]_allVars => UsersPart'
<1> SUFFICES ASSUME UsersPart, [ServicesNext]_allVars, part' = "users" PROVE Us!UsersInv'
  BY DEF UsersPart
<1>1. CASE UsersStep
  BY <1>1, UsersTyped, UsersCounted DEF UsersStep, UsersPart, AllCounted, Us!UsersInv
<1>2. CASE UNCHANGED allVars
  <2>1. UNCHANGED <<part, v1, v2, v3, v4>>
    BY <1>2 DEF allVars, slots
  <2>2. Us!UsersInv
    BY <2>1 DEF UsersPart
  <2>3. Us!TypeOK' /\ Us!IsFiniteSet(v2)' /\ \A x \in v2' : x.made <= v1'
    BY <2>1, <2>2 DEF Us!UsersInv, Us!TypeOK
  <2>4. AllCounted'
    BY <2>1, <2>2, QuietCounts
  <2> QED BY <2>1, <2>2, <2>3, <2>4 DEF Us!UsersInv, AllCounted
<1>3. CASE ServicesNext /\ ~UsersStep
  BY <1>3
     DEF ServicesNext, PaymentsStep, PhonesStep, FiltersStep, ModelsStep, PicksStep, SearchStep
<1> QED BY <1>1, <1>2, <1>3

\* A user has one reservation and one visit of a listing a day and submits a review once, up to the
\* requests that overlap, for any number of users, listings, requests, hours and days.
THEOREM DoneOnce == Services => []OnceUpToOverlaps
<1>1. UsersPart => OnceUpToOverlaps
  <2> SUFFICES ASSUME Us!UsersInv PROVE Us!OnceUpToOverlaps
    BY DEF UsersPart, OnceUpToOverlaps
  <2>1. ASSUME NEW u \in UsUsers, NEW rev \in UsReviews
        PROVE  Cardinality(Us!Of("review", u, rev)) <= Cardinality(UsRequests)
    <3>1. Cardinality(Us!Of("review", u, rev)) + Cardinality(Us!Pending("review", u, rev))
            <= Cardinality(UsRequests)
      BY UsersCardinality DEF Us!UsersInv, Us!Counted, Us!Kinds, Us!Things
    <3> QED BY <3>1, UsersFinite
  <2>2. ASSUME NEW kind \in {"reservation", "visit"}, NEW u \in UsUsers, NEW l \in UsListings,
               NEW d \in 0 .. UsDays
        PROVE  Cardinality(Us!DoneOn(kind, u, l, d)) <= Cardinality(UsRequests)
    BY UsersCardinality DEF Us!UsersInv, Us!Counted, Us!Kinds, Us!Things
  <2> QED BY <2>1, <2>2, UsersCardinality DEF Us!OnceUpToOverlaps
<1> QED BY UsersInit, UsersInvStep, <1>1, PTL DEF Services

-----------------------------------------------------------------------------
(* Search.  What is saved stays at the end of the history until it is pushed
   out of it; a chat that saves after a stale reading takes others out. *)

Message == [by: CSChats, role: {"user", "assistant"}]
Places == {"new", "intent", "search", "live", "save", "answered", "failed"}
Readings == CSIntents \cup {CS!Fallback, None}
ChatRecord ==
  [pc: Places, seen: Seq(Message), read: SUBSET CSChats, intent: Readings,
   hits: SUBSET CSListings, products: SUBSET CSListings]

\* The turn of c stands in h with j turns after it.
TurnAt(h, j, c) ==
  /\ 2 * j + 2 <= Len(h)
  /\ h[Len(h) - 2 * j - 1] = [by |-> c, role |-> "user"]
  /\ h[Len(h) - 2 * j] = [by |-> c, role |-> "assistant"]

\* The turn saved at place p stands in h, with no more turns after it than were saved after it.
Stands(h, p) == \E j \in 0 .. Len(v8) - p : TurnAt(h, j, v8[p])
Recent(p) == Len(v8) - p < CSMaxHistory \div 2

\* What is in the history is there, and what a chat has read of it, unless it is lost; a chat
\* saves once.
SearchInv ==
  /\ v6 \in Seq(Message) /\ v7 \in [CSChats -> ChatRecord] /\ v8 \in Seq(CSChats)
  /\ \A p \in 1 .. Len(v8) : v7[v8[p]].pc = "answered"
  /\ \A p \in 1 .. Len(v8) : Recent(p) /\ v8[p] \notin v9 => Stands(v6, p)
  /\ \A c \in CSChats :
       /\ v7[c].read \subseteq CS!Range(v8)
       /\ \A p \in 1 .. Len(v8) : Recent(p) /\ v8[p] \in v7[c].read \ v9 => Stands(v7[c].seen, p)

SearchPart == part = "search" => SearchInv

\* The larger and the smaller of two numbers.
LEMMA LargerOfTwo ==
  ASSUME NEW a \in Int, NEW b \in Int
  PROVE  CS!Max({a, b}) = IF a >= b THEN a ELSE b
<1>1. CS!Max({a, b}) = CHOOSE x \in {a, b} : \A y \in {a, b} : x >= y
  BY DEF CS!Max
<1>2. (IF a >= b THEN a ELSE b) \in {a, b} /\ \A y \in {a, b} : (IF a >= b THEN a ELSE b) >= y
  OBVIOUS
<1>3. \A x \in {a, b} : (\A y \in {a, b} : x >= y) => x = IF a >= b THEN a ELSE b
  OBVIOUS
<1> QED BY <1>1, <1>2, <1>3

\* The newest messages are the end of the list, and no more than it may have.
LEMMA NewestMessages ==
  ASSUME NEW m \in Seq(Message)
  PROVE  LET h == CS!Newest(m)
         IN /\ h \in Seq(Message)
            /\ Len(h) = IF Len(m) <= CSMaxHistory THEN Len(m) ELSE CSMaxHistory
            /\ \A k \in 0 .. Len(h) - 1 : h[Len(h) - k] = m[Len(m) - k]
<1> DEFINE M == CSMaxHistory
           n == Len(m)
           lo == IF 1 >= n - M + 1 THEN 1 ELSE n - M + 1
           h == CS!Newest(m)
<1>1. M \in Nat /\ M > 0 /\ n \in Nat
  BY ServiceSideAssumption DEF CS!CatalogueSearchAssumption
<1>2. h = SubSeq(m, lo, n)
  <2>1. n - M + 1 \in Int
    BY <1>1
  <2>2. CS!Max({1, n - M + 1}) = lo
    <3> DEFINE b == n - M + 1
    <3>1. b \in Int
      BY <2>1
    <3> HIDE DEF b
    <3>2. CS!Max({1, b}) = IF 1 >= b THEN 1 ELSE b
      BY <3>1, LargerOfTwo
    <3> QED BY <3>2 DEF b
  <2> HIDE DEF lo
  <2> QED BY <2>2 DEF CS!Newest
<1>3. lo \in Nat /\ lo >= 1 /\ n \in Int /\ lo <= n + 1
  BY <1>1
<1>4. \A i \in lo .. n : m[i] \in Message
  BY <1>1, <1>3
<1> HIDE DEF h
<1>5. /\ h \in Seq(Message) /\ Len(h) = IF lo <= n THEN n - lo + 1 ELSE 0
      /\ \A i \in 1 .. n - lo + 1 : h[i] = m[lo + i - 1]
  <2> HIDE DEF lo, n
  <2>1. lo \in Int /\ n \in Int
    BY <1>3
  <2> QED BY <1>2, <1>4, <2>1, SubSeqProperties
<1>6. Len(h) = n - lo + 1 /\ Len(h) = IF n <= M THEN n ELSE M
  <2> HIDE DEF n
  <2>1. CASE lo <= n
    BY <1>1, <1>3, <1>5, <2>1
  <2>2. CASE ~(lo <= n)
    BY <1>1, <1>3, <1>5, <2>2
  <2> QED BY <2>1, <2>2
<1>7. ASSUME NEW k \in 0 .. Len(h) - 1 PROVE h[Len(h) - k] = m[n - k]
  <2> HIDE DEF lo, n, M
  <2>1. Len(h) - k \in 1 .. n - lo + 1 /\ lo + (Len(h) - k) - 1 = n - k
    BY <1>3, <1>6
  <2> QED BY <1>5, <2>1
<1> QED BY <1>5, <1>6, <1>7 DEF h

\* A turn that is recent enough is not cut off.
LEMMA NewestTurn ==
  ASSUME NEW m \in Seq(Message), NEW j \in Nat, NEW c, 2 * j + 2 <= CSMaxHistory, TurnAt(m, j, c)
  PROVE  TurnAt(CS!Newest(m), j, c)
<1> DEFINE h == CS!Newest(m)
<1>1. /\ h \in Seq(Message) /\ Len(h) = IF Len(m) <= CSMaxHistory THEN Len(m) ELSE CSMaxHistory
      /\ \A k \in 0 .. Len(h) - 1 : h[Len(h) - k] = m[Len(m) - k]
  BY NewestMessages
<1> HIDE DEF h
<1>2. Len(h) \in Nat /\ Len(m) \in Nat /\ 2 * j + 2 <= Len(h)
  BY <1>1 DEF TurnAt
<1>3. 2 * j + 1 \in 0 .. Len(h) - 1 /\ 2 * j \in 0 .. Len(h) - 1
  BY <1>2
<1>4. h[Len(h) - (2 * j + 1)] = m[Len(m) - (2 * j + 1)] /\ h[Len(h) - 2 * j] = m[Len(m) - 2 * j]
  BY <1>1, <1>3
<1>5. Len(h) - (2 * j + 1) = Len(h) - 2 * j - 1 /\ Len(m) - (2 * j + 1) = Len(m) - 2 * j - 1
  BY <1>2
<1> QED BY <1>2, <1>4, <1>5 DEF TurnAt, h

\* A new turn is the last one, and the others have one more after them.
LEMMA OneMoreTurn ==
  ASSUME NEW s \in Seq(Message), NEW d \in CSChats
  PROVE  /\ s \o CS!Turn(d) \in Seq(Message)
         /\ TurnAt(s \o CS!Turn(d), 0, d)
         /\ \A j \in Nat : \A c : TurnAt(s, j, c) => TurnAt(s \o CS!Turn(d), j + 1, c)
<1> DEFINE t == CS!Turn(d)
           m == s \o t
<1>1. t \in Seq(Message) /\ Len(t) = 2 /\ t[1] = [by |-> d, role |-> "user"]
      /\ t[2] = [by |-> d, role |-> "assistant"]
  <2>1. [by |-> d, role |-> "user"] \in Message /\ [by |-> d, role |-> "assistant"] \in Message
    BY DEF Message
  <2> QED BY <2>1 DEF CS!Turn
<1> HIDE DEF t
<1>2. m \in Seq(Message) /\ Len(m) = Len(s) + 2 /\ Len(s) \in Nat
      /\ \A i \in 1 .. Len(m) : m[i] = IF i <= Len(s) THEN s[i] ELSE t[i - Len(s)]
  <2>1. \A i \in 1 .. Len(s) + Len(t) : m[i] = IF i <= Len(s) THEN s[i] ELSE t[i - Len(s)]
    BY <1>1, ConcatProperties, Zenon
  <2>2. m \in Seq(Message) /\ Len(m) = Len(s) + Len(t) /\ Len(s) \in Nat
    <3>1. m \in Seq(Message) /\ Len(m) = Len(s) + Len(t)
      BY <1>1, ConcatProperties, Zenon
    <3>2. Len(s) \in Nat
      BY LenProperties
    <3> QED BY <3>1, <3>2
  <2> HIDE DEF m
  <2> QED BY <1>1, <2>1, <2>2
<1> HIDE DEF m
<1>3. TurnAt(m, 0, d)
  <2>1. 2 * 0 + 2 <= Len(m) /\ Len(m) - 2 * 0 - 1 = Len(s) + 1 /\ Len(m) - 2 * 0 = Len(s) + 2
    BY <1>2
  <2>2. m[Len(s) + 1] = t[1] /\ m[Len(s) + 2] = t[2]
    <3>1. Len(s) + 1 - Len(s) = 1 /\ Len(s) + 2 - Len(s) = 2 /\ Len(s) + 1 \in 1 .. Len(m)
          /\ Len(s) + 2 \in 1 .. Len(m) /\ ~(Len(s) + 1 <= Len(s)) /\ ~(Len(s) + 2 <= Len(s))
      BY <1>2
    <3> QED BY <1>2, <3>1
  <2> QED BY <1>1, <2>1, <2>2 DEF TurnAt
<1>4. ASSUME NEW j \in Nat, NEW c, TurnAt(s, j, c) PROVE TurnAt(m, j + 1, c)
  <2>1. /\ 2 * (j + 1) + 2 <= Len(m)
        /\ Len(m) - 2 * (j + 1) - 1 = Len(s) - 2 * j - 1 /\ Len(m) - 2 * (j + 1) = Len(s) - 2 * j
        /\ Len(s) - 2 * j - 1 \in 1 .. Len(m) /\ Len(s) - 2 * j - 1 <= Len(s)
        /\ Len(s) - 2 * j \in 1 .. Len(m) /\ Len(s) - 2 * j <= Len(s)
    BY <1>2, <1>4 DEF TurnAt
  <2>2. m[Len(s) - 2 * j - 1] = s[Len(s) - 2 * j - 1] /\ m[Len(s) - 2 * j] = s[Len(s) - 2 * j]
    BY <1>2, <2>1
  <2> QED BY <1>4, <2>1, <2>2 DEF TurnAt
<1>5. \A j \in Nat : \A c : TurnAt(s, j, c) => TurnAt(m, j + 1, c)
  BY <1>4
<1> QED BY <1>2, <1>3, <1>5 DEF m, t

\* Half of the messages that are kept are turns.
LEMMA Halves ==
  ASSUME NEW j \in Nat, j < CSMaxHistory \div 2
  PROVE  2 * j + 2 <= CSMaxHistory
<1>1. CSMaxHistory \in Nat
  BY ServiceSideAssumption DEF CS!CatalogueSearchAssumption
<1> QED BY <1>1, Z3

\* At first nothing is saved.
LEMMA SearchBegins == CS!Init => SearchInv
<1> SUFFICES ASSUME CS!Init PROVE SearchInv
  OBVIOUS
<1>1. CS!NoChat \in ChatRecord /\ CS!NoChat.read = {}
  <2>1. <<>> \in Seq(Message)
    OBVIOUS
  <2> QED BY <2>1 DEF CS!NoChat, ChatRecord, Places, Readings
<1>2. v6 \in Seq(Message) /\ v8 \in Seq(CSChats) /\ Len(v8) = 0
      /\ v7 = [c \in CSChats |-> CS!NoChat]
  BY DEF CS!Init
<1> QED BY <1>1, <1>2 DEF SearchInv

\* The composition that is a search begins there.
LEMMA SearchInvInit == ServicesInit => SearchPart
<1>1. ServicesInit /\ part = "search" => CS!Init
  BY DEF ServicesInit
<1> QED BY <1>1, SearchBegins DEF SearchPart

\* A chat that reads, asks, searches or fails saves nothing.
LEMMA ChatQuiet ==
  ASSUME SearchInv, UNCHANGED <<v6, v8>>, v9 \subseteq v9', v7' \in [CSChats -> ChatRecord],
         \A c \in CSChats :
           /\ v7[c].pc = "answered" => v7'[c].pc = "answered"
           /\ v7'[c].read \in {{}, v7[c].read, CS!Range(v8)}
           /\ v7'[c].read = v7[c].read => v7'[c].seen = v7[c].seen
           /\ v7'[c].read # {} /\ v7'[c].read # v7[c].read => v7'[c].seen = v6
  PROVE  SearchInv'
<1>1. \A p \in 1 .. Len(v8) : v8[p] \in CSChats
  BY DEF SearchInv
<1>2. CS!Range(v8)' = CS!Range(v8) /\ v8' = v8 /\ v6' = v6
  OBVIOUS
<1>3. \A p \in 1 .. Len(v8') : v7'[v8'[p]].pc = "answered"
  BY <1>1 DEF SearchInv
<1>4. \A p \in 1 .. Len(v8') : Recent(p)' /\ v8'[p] \notin v9' => Stands(v6, p)'
  BY DEF SearchInv, Recent, Stands
<1>5. ASSUME NEW c \in CSChats
      PROVE  /\ v7'[c].read \subseteq CS!Range(v8)'
             /\ \A p \in 1 .. Len(v8') :
                  Recent(p)' /\ v8'[p] \in v7'[c].read \ v9' => Stands(v7[c].seen, p)'
  <2>1. CASE v7'[c].read = {}
    BY <2>1
  <2>2. CASE v7'[c].read = v7[c].read
    BY <1>2, <2>2 DEF SearchInv, Recent, Stands
  <2>3. CASE v7'[c].read # {} /\ v7'[c].read # v7[c].read
    <3>1. v7'[c].read = CS!Range(v8) /\ v7'[c].seen = v6
      BY <2>3
    <3>2. \A p \in 1 .. Len(v8') : Recent(p)' /\ v8'[p] \notin v9' => Stands(v7[c].seen, p)'
      BY <1>2, <3>1 DEF SearchInv, Recent, Stands
    <3> QED BY <1>2, <3>1, <3>2
  <2> QED BY <2>1, <2>2, <2>3
<1>6. v6' \in Seq(Message) /\ v8' \in Seq(CSChats)
  BY DEF SearchInv
<1> QED BY <1>3, <1>4, <1>5, <1>6 DEF SearchInv

\* A chat that has read the history has read what stands there.
LEMMA HistoryRead ==
  ASSUME SearchInv, NEW c \in CSChats, NEW r \in ChatRecord, v7[c].pc # "answered",
         v7' = [v7 EXCEPT ![c] = r], UNCHANGED <<v6, v8, v9>>, r.read = CS!Range(v8), r.seen = v6
  PROVE  SearchInv'
<1>1. v7 \in [CSChats -> ChatRecord]
  BY DEF SearchInv
<1>2. v7' \in [CSChats -> ChatRecord] /\ v7'[c] = r /\ \A d \in CSChats : d # c => v7'[d] = v7[d]
  BY <1>1
<1>3. CS!Range(v8') = CS!Range(v8) /\ v6' = v6 /\ v8' = v8 /\ v9' = v9
  OBVIOUS
<1>4. \A p \in 1 .. Len(v8) : v8[p] # c /\ v8[p] \in CSChats
  BY DEF SearchInv
<1>5. \A p \in 1 .. Len(v8) : v7'[v8[p]].pc = "answered"
  BY <1>2, <1>4 DEF SearchInv
<1>6. \A p \in 1 .. Len(v8) : Recent(p)' /\ v8[p] \notin v9 => Stands(v6, p)'
  BY <1>3 DEF SearchInv, Recent, Stands
<1>7. ASSUME NEW d \in CSChats
      PROVE  /\ v7'[d].read \subseteq CS!Range(v8)
             /\ \A p \in 1 .. Len(v8) : Recent(p)' /\ v8[p] \in v7'[d].read \ v9 => Stands(v7[d].seen, p)'
  <2>1. CASE d = c
    BY <1>2, <1>3, <2>1 DEF SearchInv, Recent, Stands
  <2>2. CASE d # c
    BY <1>2, <1>3, <2>2 DEF SearchInv, Recent, Stands
  <2> QED BY <2>1, <2>2
<1> QED BY <1>2, <1>3, <1>5, <1>6, <1>7 DEF SearchInv

\* A chat that has failed knows nothing more.
LEMMA ChatFailed ==
  ASSUME SearchInv, NEW c \in CSChats, NEW r \in ChatRecord, v7[c].pc # "answered",
         v7' = [v7 EXCEPT ![c] = r], UNCHANGED <<v6, v8, v9>>, r.read = {}
  PROVE  SearchInv'
<1>1. v7 \in [CSChats -> ChatRecord]
  BY DEF SearchInv
<1>2. v7' \in [CSChats -> ChatRecord] /\ v7'[c] = r /\ \A d \in CSChats : d # c => v7'[d] = v7[d]
  BY <1>1
<1>3. CS!Range(v8') = CS!Range(v8) /\ v6' = v6 /\ v8' = v8 /\ v9' = v9
  OBVIOUS
<1>4. \A p \in 1 .. Len(v8) : v8[p] # c /\ v8[p] \in CSChats
  BY DEF SearchInv
<1>5. \A p \in 1 .. Len(v8) : v7'[v8[p]].pc = "answered"
  BY <1>2, <1>4 DEF SearchInv
<1>6. \A p \in 1 .. Len(v8) : Recent(p)' /\ v8[p] \notin v9 => Stands(v6, p)'
  BY <1>3 DEF SearchInv, Recent, Stands
<1>7. ASSUME NEW d \in CSChats
      PROVE  /\ v7'[d].read \subseteq CS!Range(v8)
             /\ \A p \in 1 .. Len(v8) : Recent(p)' /\ v8[p] \in v7'[d].read \ v9 => Stands(v7[d].seen, p)'
  <2>1. CASE d = c
    BY <1>2, <2>1
  <2>2. CASE d # c
    BY <1>2, <1>3, <2>2 DEF SearchInv, Recent, Stands
  <2> QED BY <2>1, <2>2
<1> QED BY <1>2, <1>3, <1>5, <1>6, <1>7 DEF SearchInv

\* A saved turn is the newest, and those that the chat had read stand before it.
LEMMA TurnSaved ==
  ASSUME SearchInv, NEW d \in CSChats, CS!SaveHistory(d)
  PROVE  SearchInv'
<1> DEFINE m == v7[d].seen \o CS!Turn(d)
           n == Len(v8)
<1>1. /\ v7[d].pc = "save" /\ v6' = CS!Newest(m) /\ v8' = Append(v8, d)
      /\ v9' = v9 \cup (CS!Range(v8) \ v7[d].read)
      /\ v7' = [v7 EXCEPT ![d] = [CS!NoChat EXCEPT !.pc = "answered", !.products = v7[d].products]]
  BY DEF CS!SaveHistory
<1>2. /\ v7[d] \in ChatRecord /\ v7[d].seen \in Seq(Message) /\ v8 \in Seq(CSChats)
      /\ v7 \in [CSChats -> ChatRecord]
  BY DEF SearchInv, ChatRecord
<1>3. m \in Seq(Message)
  BY <1>2, OneMoreTurn
<1>4. v6' \in Seq(Message)
  BY <1>1, <1>3, NewestMessages
<1>5. /\ v8' \in Seq(CSChats) /\ Len(v8') = n + 1 /\ n \in Nat /\ v8'[n + 1] = d
      /\ \A p \in 1 .. n : v8'[p] = v8[p]
  BY <1>1, <1>2, AppendProperties
<1>6. /\ v7' \in [CSChats -> ChatRecord] /\ v7'[d].pc = "answered" /\ v7'[d].read = {}
      /\ \A c \in CSChats : c # d => v7'[c] = v7[c]
  <2> DEFINE new == [CS!NoChat EXCEPT !.pc = "answered", !.products = v7[d].products]
  <2>1. v7[d].products \in SUBSET CSListings /\ <<>> \in Seq(Message)
    BY <1>2 DEF ChatRecord
  <2>2. new \in ChatRecord /\ new.pc = "answered" /\ new.read = {}
    BY <2>1 DEF CS!NoChat, ChatRecord, Places, Readings
  <2> HIDE DEF new
  <2>3. v7' = [v7 EXCEPT ![d] = new]
    BY <1>1 DEF new
  <2> QED BY <1>2, <2>2, <2>3
<1>7. \A p \in 1 .. n : v8[p] \in CSChats /\ v7[v8[p]].pc = "answered" /\ v8[p] # d
  BY <1>1, <1>2 DEF SearchInv
<1>8. \A p \in 1 .. n : v8[p] \in CS!Range(v8)
  BY <1>2 DEF CS!Range
<1>9. CS!Range(v8) \subseteq CS!Range(v8')
  <2> SUFFICES ASSUME NEW x \in CS!Range(v8) PROVE x \in CS!Range(v8')
    OBVIOUS
  <2>1. PICK p \in 1 .. n : v8[p] = x
    BY <1>2 DEF CS!Range
  <2>2. p \in DOMAIN v8' /\ v8'[p] = x
    BY <1>5, <2>1
  <2> QED BY <2>2 DEF CS!Range
<1>10. \A p \in 1 .. n : \A h : Stands(h, p) =>
         \E j \in Nat : j <= n - p /\ TurnAt(h, j, v8[p])
  BY <1>5 DEF Stands
<1> HIDE DEF m, n
<1>11. \A p \in 1 .. Len(v8') : v7'[v8'[p]].pc = "answered"
  BY <1>5, <1>6, <1>7
<1>12. ASSUME NEW p \in 1 .. Len(v8'), Len(v8') - p < CSMaxHistory \div 2, v8'[p] \notin v9'
       PROVE  \E j \in 0 .. Len(v8') - p : TurnAt(v6', j, v8'[p])
  <2>1. CASE p = n + 1
    <3>1. TurnAt(m, 0, d)
      BY <1>2, OneMoreTurn DEF m
    <3>2. 0 < CSMaxHistory \div 2 /\ 0 \in 0 .. Len(v8') - p
      BY <1>5, <1>12, <2>1
    <3>3. 2 * 0 + 2 <= CSMaxHistory
      BY <3>2, Halves
    <3>4. TurnAt(v6', 0, d)
      BY <1>1, <1>3, <3>1, <3>3, NewestTurn
    <3> QED BY <1>5, <2>1, <3>2, <3>4
  <2>2. CASE p # n + 1
    <3>1. p \in 1 .. n /\ v8'[p] = v8[p]
      BY <1>5, <2>2
    <3>2. Recent(p) /\ v8[p] \in v7[d].read \ v9
      <4>1. CSMaxHistory \div 2 \in Int
        BY ServiceSideAssumption DEF CS!CatalogueSearchAssumption
      <4>2. n - p < CSMaxHistory \div 2
        BY <1>5, <1>12, <3>1, <4>1
      <4>3. v8[p] \in v7[d].read \ v9
        BY <1>1, <1>8, <1>12, <3>1
      <4> QED BY <4>2, <4>3 DEF Recent, n
    <3>3. Stands(v7[d].seen, p)
      BY <3>1, <3>2 DEF SearchInv, n
    <3>4. PICK j \in Nat : j <= n - p /\ TurnAt(v7[d].seen, j, v8[p])
      BY <1>10, <3>1, <3>3
    <3>5. TurnAt(m, j + 1, v8[p])
      BY <1>2, <3>4, OneMoreTurn DEF m
    <3>6. j + 1 \in Nat /\ j + 1 <= Len(v8') - p
      BY <1>5, <3>1, <3>4
    <3>7. j + 1 < CSMaxHistory \div 2
      <4>1. CSMaxHistory \div 2 \in Int
        BY ServiceSideAssumption DEF CS!CatalogueSearchAssumption
      <4> QED BY <1>5, <1>12, <3>6, <4>1
    <3>8. 2 * (j + 1) + 2 <= CSMaxHistory
      BY <3>6, <3>7, Halves
    <3>9. TurnAt(v6', j + 1, v8'[p])
      BY <1>1, <1>3, <3>1, <3>5, <3>6, <3>8, NewestTurn
    <3>10. j + 1 \in 0 .. Len(v8') - p
      BY <1>5, <3>6
    <3> QED BY <3>9, <3>10
  <2> QED BY <2>1, <2>2
<1>13. ASSUME NEW c \in CSChats, c # d
       PROVE  /\ v7[c].read \subseteq CS!Range(v8')
              /\ \A p \in 1 .. Len(v8') :
                   Len(v8') - p < CSMaxHistory \div 2 /\ v8'[p] \in v7[c].read \ v9' =>
                     \E j \in 0 .. Len(v8') - p : TurnAt(v7[c].seen, j, v8'[p])
  <2>1. v7[c].read \subseteq CS!Range(v8)
    BY DEF SearchInv
  <2>2. d \notin CS!Range(v8)
    BY <1>2, <1>7 DEF CS!Range, n
  <2>3. ASSUME NEW p \in 1 .. Len(v8'), Len(v8') - p < CSMaxHistory \div 2,
               v8'[p] \in v7[c].read \ v9'
        PROVE  \E j \in 0 .. Len(v8') - p : TurnAt(v7[c].seen, j, v8'[p])
    <3>1. p \in 1 .. n /\ v8'[p] = v8[p]
      BY <1>5, <2>1, <2>2, <2>3
    <3>2. Recent(p)
      <4>1. CSMaxHistory \div 2 \in Int
        BY ServiceSideAssumption DEF CS!CatalogueSearchAssumption
      <4>2. n - p < CSMaxHistory \div 2
        BY <1>5, <2>3, <3>1, <4>1
      <4> QED BY <4>2 DEF Recent, n
    <3>3. v8[p] \in v7[c].read \ v9
      BY <1>1, <2>3, <3>1
    <3>4. Stands(v7[c].seen, p)
      BY <3>1, <3>2, <3>3 DEF SearchInv, n
    <3>5. PICK j \in Nat : j <= n - p /\ TurnAt(v7[c].seen, j, v8[p])
      BY <1>10, <3>1, <3>4
    <3>6. j \in 0 .. Len(v8') - p
      BY <1>5, <3>1, <3>5
    <3> QED BY <3>1, <3>5, <3>6
  <2> QED BY <1>9, <2>1, <2>3
<1>14. /\ \A p \in 1 .. Len(v8') : Recent(p)' /\ v8'[p] \notin v9' => Stands(v6, p)'
       /\ \A c \in CSChats :
            /\ v7'[c].read \subseteq CS!Range(v8')
            /\ \A p \in 1 .. Len(v8') : Recent(p)' /\ v8'[p] \in v7'[c].read \ v9'
                                          => Stands(v7[c].seen, p)'
  BY <1>6, <1>12, <1>13 DEF Recent, Stands
<1> QED BY <1>4, <1>5, <1>6, <1>11, <1>14 DEF SearchInv

\* Every step of the search keeps the invariant.
LEMMA SearchKept == SearchInv /\ CS!Next => SearchInv'
<1> SUFFICES ASSUME SearchInv, CS!Next PROVE SearchInv'
  OBVIOUS
<1> DEFINE Goes(c, r) == v7' = [v7 EXCEPT ![c] = r] /\ UNCHANGED <<v6, v8, v9>>
<1>1. v7 \in [CSChats -> ChatRecord] /\ v6 \in Seq(Message)
      /\ CS!Range(v8) \subseteq CSChats
  BY DEF SearchInv, CS!Range
<1>2. ASSUME NEW c \in CSChats, NEW r \in ChatRecord, Goes(c, r), v7[c].pc # "answered",
             r.read \in {{}, v7[c].read, CS!Range(v8)},
             r.read = v7[c].read => r.seen = v7[c].seen,
             r.read # {} /\ r.read # v7[c].read => r.seen = v6
      PROVE  SearchInv'
  <2>1. v7' \in [CSChats -> ChatRecord] /\ v7'[c] = r /\ \A d \in CSChats : d # c => v7'[d] = v7[d]
    BY <1>1, <1>2
  <2> QED BY <1>2, <2>1, ChatQuiet
<1>3. ASSUME UNCHANGED <<v6, v7, v8, v9>> PROVE SearchInv'
  BY <1>1, <1>3, ChatQuiet
<1>4. CASE CS!Start \/ CS!Script \/ CS!Exit \/ CS!Move
  BY <1>3, <1>4 DEF CS!Start, CS!Script, CS!EnsureCollection, CS!FetchActiveListings,
     CS!GenerateEmbeddings, CS!Upsert, CS!Summary, CS!Exit, CS!Move, CS!chatVars
<1>5. CASE CS!Expire
  <2>1. /\ v6' = <<>> /\ v9' = v9 \cup CS!Range(v8) /\ v7' = v7 /\ v8' = v8
    BY <1>5 DEF CS!Expire
  <2>2. v6' \in Seq(Message)
    BY <2>1
  <2>3. \A p \in 1 .. Len(v8) : v8[p] \in v9'
    BY <2>1 DEF CS!Range, SearchInv
  <2>4. CS!Range(v8') = CS!Range(v8)
    BY <2>1
  <2> QED BY <2>1, <2>2, <2>3, <2>4 DEF SearchInv
<1>6. ASSUME NEW c \in CSChats, CS!GetHistory(c) PROVE SearchInv'
  <2>1. v7[c].pc = "new" /\ v7[c] \in ChatRecord
    BY <1>1, <1>6 DEF CS!GetHistory
  <2>2. CASE Goes(c, [v7[c] EXCEPT !.pc = "intent", !.seen = v6, !.read = CS!Range(v8)])
    <3> DEFINE r == [v7[c] EXCEPT !.pc = "intent", !.seen = v6, !.read = CS!Range(v8)]
    <3>1. r \in ChatRecord /\ r.read = CS!Range(v8) /\ r.seen = v6
      <4>1. "intent" \in Places
        BY DEF Places
      <4> QED BY <1>1, <2>1, <4>1 DEF ChatRecord
    <3>2. v7[c].read \subseteq CS!Range(v8)
      BY DEF SearchInv
    <3> HIDE DEF r
    <3>3. Goes(c, r)
      BY <2>2 DEF r
    <3> QED BY <1>1, <2>1, <3>1, <3>2, <3>3, HistoryRead
  <2>3. CASE Goes(c, [v7[c] EXCEPT !.pc = "intent"])
    <3> DEFINE r == [v7[c] EXCEPT !.pc = "intent"]
    <3>1. r \in ChatRecord /\ r.read = v7[c].read /\ r.seen = v7[c].seen
      <4>1. "intent" \in Places
        BY DEF Places
      <4> QED BY <1>1, <2>1, <4>1 DEF ChatRecord
    <3> HIDE DEF r
    <3>2. Goes(c, r)
      BY <2>3 DEF r
    <3> QED BY <1>2, <2>1, <3>1, <3>2
  <2> QED BY <1>6, <2>2, <2>3 DEF CS!GetHistory
<1>7. ASSUME NEW c \in CSChats, CS!ExtractIntent(c) PROVE SearchInv'
  <2>1. PICK intent \in Readings :
          Goes(c, [v7[c] EXCEPT !.intent = intent, !.pc = IF intent.followUp THEN "save" ELSE "search"])
    BY <1>7 DEF CS!ExtractIntent, Readings
  <2> DEFINE pc == IF intent.followUp THEN "save" ELSE "search"
             r == [v7[c] EXCEPT !.intent = intent, !.pc = pc]
  <2>2. v7[c] \in ChatRecord /\ v7[c].pc # "answered" /\ pc \in Places
    BY <1>1, <1>7 DEF CS!ExtractIntent, Places
  <2> HIDE DEF pc
  <2>3. r \in ChatRecord /\ r.read = v7[c].read /\ r.seen = v7[c].seen
    BY <2>2 DEF ChatRecord
  <2>4. Goes(c, r)
    BY <2>1 DEF pc
  <2> HIDE DEF r
  <2> QED BY <1>2, <2>2, <2>3, <2>4
<1>8. ASSUME NEW c \in CSChats, CS!SearchIndex(c) PROVE SearchInv'
  <2>1. PICK hits \in SUBSET CSListings :
          Goes(c, [v7[c] EXCEPT !.hits = hits, !.pc = IF hits = {} THEN "save" ELSE "live"])
    BY <1>8 DEF CS!SearchIndex, CS!kSubset
  <2> DEFINE pc == IF hits = {} THEN "save" ELSE "live"
             r == [v7[c] EXCEPT !.hits = hits, !.pc = pc]
  <2>2. v7[c] \in ChatRecord /\ v7[c].pc # "answered" /\ pc \in Places
    BY <1>1, <1>8 DEF CS!SearchIndex, Places
  <2> HIDE DEF pc
  <2>3. r \in ChatRecord /\ r.read = v7[c].read /\ r.seen = v7[c].seen
    BY <2>2 DEF ChatRecord
  <2>4. Goes(c, r)
    BY <2>1 DEF pc
  <2> HIDE DEF r
  <2> QED BY <1>2, <2>2, <2>3, <2>4
<1>9. ASSUME NEW c \in CSChats, CS!FetchLive(c) PROVE SearchInv'
  <2> DEFINE products == v7[c].hits \cap CS!Active
             r == [v7[c] EXCEPT !.products = products, !.pc = "save"]
  <2>1. Goes(c, r) /\ v7[c].pc # "answered" /\ "save" \in Places
    BY <1>9 DEF CS!FetchLive, Places
  <2>2. v7[c] \in ChatRecord /\ products \in SUBSET CSListings
    BY <1>1 DEF CS!Active
  <2> HIDE DEF products
  <2>3. r \in ChatRecord /\ r.read = v7[c].read /\ r.seen = v7[c].seen
    BY <2>1, <2>2 DEF ChatRecord
  <2> HIDE DEF r
  <2> QED BY <1>2, <2>1, <2>3
<1>10. ASSUME NEW c \in CSChats, CS!Fail(c) PROVE SearchInv'
  <2> DEFINE r == [CS!NoChat EXCEPT !.pc = "failed"]
  <2>1. r \in ChatRecord /\ r.read = {} /\ r.seen = <<>>
    <3>1. <<>> \in Seq(Message)
      OBVIOUS
    <3> QED BY <3>1 DEF CS!NoChat, ChatRecord, Places, Readings
  <2>2. Goes(c, r) /\ v7[c].pc # "answered"
    BY <1>10 DEF CS!Fail
  <2> HIDE DEF r
  <2> QED BY <1>1, <2>1, <2>2, ChatFailed
<1> QED BY <1>4, <1>5, <1>6, <1>7, <1>8, <1>9, <1>10, TurnSaved DEF CS!Next

\* The steps of the composition keep what is said of the search.
LEMMA SearchInvStep == SearchPart /\ [ServicesNext]_allVars => SearchPart'
<1> SUFFICES ASSUME SearchPart, [ServicesNext]_allVars, part' = "search" PROVE SearchInv'
  BY DEF SearchPart
<1>1. CASE SearchStep
  BY <1>1, SearchKept DEF SearchStep, SearchPart
<1>2. CASE UNCHANGED allVars
  <2>1. UNCHANGED <<part, v6, v7, v8, v9>>
    BY <1>2 DEF allVars, slots, after4
  <2>2. SearchInv
    BY <2>1 DEF SearchPart
  <2> QED BY <2>1, <2>2, ChatQuiet DEF SearchInv
<1>3. CASE ServicesNext /\ ~SearchStep
  BY <1>3
     DEF ServicesNext, PaymentsStep, PhonesStep, UsersStep, FiltersStep, ModelsStep, PicksStep
<1> QED BY <1>1, <1>2, <1>3

\* What is kept stands in the history.
LEMMA KeptStands == SearchInv => CS!TurnsKeptUpToOverlaps
<1> SUFFICES ASSUME SearchInv, NEW c \in CS!Kept
             PROVE  \E i \in 1 .. (Len(v6) - 1) : SubSeq(v6, i, i + 1) = CS!Turn(c)
  BY DEF CS!TurnsKeptUpToOverlaps
<1> DEFINE n == Len(v8)
           half == CSMaxHistory \div 2
           lo == IF 1 >= n - half + 1 THEN 1 ELSE n - half + 1
<1>1. n \in Nat /\ half \in Int /\ half >= 0 /\ v8 \in Seq(CSChats) /\ v6 \in Seq(Message)
  <2>1. CSMaxHistory \in Nat
    BY ServiceSideAssumption DEF CS!CatalogueSearchAssumption
  <2> QED BY <2>1, Z3 DEF SearchInv
<1>2. PICK p \in 1 .. n : v8[p] = c /\ n - p < half /\ c \notin v9
  <2>1. CS!Kept = CS!Range(SubSeq(v8, CS!Max({1, n - half + 1}), n)) \ v9
    BY DEF CS!Kept
  <2> HIDE DEF half, n
  <2>2. CS!Max({1, n - half + 1}) = lo
    <3> DEFINE b == n - half + 1
    <3>1. b \in Int
      BY <1>1
    <3> HIDE DEF b
    <3>2. CS!Max({1, b}) = IF 1 >= b THEN 1 ELSE b
      BY <3>1, LargerOfTwo
    <3> QED BY <3>2 DEF b
  <2>3. lo \in Nat /\ lo >= 1 /\ lo <= n + 1 /\ lo >= n - half + 1
    BY <1>1
  <2> HIDE DEF lo
  <2>4. \A i \in lo .. n : v8[i] \in CSChats
    BY <1>1, <2>3 DEF n
  <2> DEFINE s == SubSeq(v8, lo, n)
  <2>5. /\ s \in Seq(CSChats) /\ Len(s) = IF lo <= n THEN n - lo + 1 ELSE 0
        /\ \A i \in 1 .. n - lo + 1 : s[i] = v8[lo + i - 1]
    <3>1. lo \in Int /\ n \in Int
      BY <1>1, <2>3
    <3> QED BY <2>4, <3>1, SubSeqProperties
  <2>6. c \in CS!Range(s) \ v9
    BY <2>1, <2>2
  <2> HIDE DEF s
  <2>7. PICK i \in 1 .. Len(s) : s[i] = c
    BY <2>5, <2>6 DEF CS!Range
  <2>8. i \in 1 .. n - lo + 1 /\ lo + i - 1 \in 1 .. n /\ n - (lo + i - 1) < half
    BY <1>1, <2>3, <2>5, <2>7
  <2> QED BY <2>5, <2>6, <2>7, <2>8
<1>3. Stands(v6, p)
  BY <1>2 DEF SearchInv, Recent
<1>4. PICK j \in Nat : TurnAt(v6, j, c)
  BY <1>1, <1>2, <1>3 DEF Stands
<1> DEFINE i == Len(v6) - 2 * j - 1
<1>5. i \in 1 .. Len(v6) - 1 /\ i + 1 = Len(v6) - 2 * j /\ i \in Nat
      /\ v6[i] = [by |-> c, role |-> "user"] /\ v6[i + 1] = [by |-> c, role |-> "assistant"]
  <2>1. Len(v6) \in Nat /\ 2 * j + 2 <= Len(v6)
    BY <1>1, <1>4 DEF TurnAt
  <2>2. i \in 1 .. Len(v6) - 1 /\ i + 1 = Len(v6) - 2 * j /\ i \in Nat
    BY <2>1
  <2> QED BY <1>4, <2>2 DEF TurnAt
<1> HIDE DEF i
<1>6. SubSeq(v6, i, i + 1) = CS!Turn(c)
  <2>1. i \in Int /\ i + 1 \in Int /\ i <= i + 1 /\ i + 1 - i + 1 = 2
        /\ i + 1 - 1 = i /\ i + 2 - 1 = i + 1 /\ Len(v6) \in Nat /\ i + 1 <= Len(v6)
    BY <1>1, <1>5
  <2>2. \A k \in i .. i + 1 : v6[k] \in Message
    BY <1>1, <1>5, <2>1
  <2>3. /\ SubSeq(v6, i, i + 1) \in Seq(Message)
        /\ Len(SubSeq(v6, i, i + 1)) = IF i <= i + 1 THEN i + 1 - i + 1 ELSE 0
        /\ \A k \in 1 .. i + 1 - i + 1 : SubSeq(v6, i, i + 1)[k] = v6[i + k - 1]
    BY <2>1, <2>2, SubSeqProperties
  <2>4. 1 \in 1 .. 2 /\ 2 \in 1 .. 2
    OBVIOUS
  <2>5. SubSeq(v6, i, i + 1)[1] = v6[i] /\ SubSeq(v6, i, i + 1)[2] = v6[i + 1]
        /\ Len(SubSeq(v6, i, i + 1)) = 2
    BY <2>1, <2>3, <2>4
  <2> DEFINE s == SubSeq(v6, i, i + 1)
  <2>6. s \in Seq(Message) /\ Len(s) = 2
    BY <2>3, <2>5
  <2> HIDE DEF s
  <2>7. s = <<s[1], s[2]>>
    BY <2>6
  <2> QED BY <1>5, <2>5, <2>7 DEF CS!Turn, s
<1> QED BY <1>5, <1>6

\* A turn of a chat is lost by an overlap or by the end of the session only, for any number of
\* chats, of messages that are kept, and of steps of the script and of the sellers meanwhile.
THEOREM TurnsKept == Services => []TurnsKeptUpToOverlaps
<1>1. SearchPart => TurnsKeptUpToOverlaps
  BY KeptStands DEF SearchPart, TurnsKeptUpToOverlaps
<1> QED BY SearchInvInit, SearchInvStep, <1>1, PTL DEF Services

-----------------------------------------------------------------------------
(* Orders on finite sets *)

\* Where every element has a place and no two have the same, each place below the number of the
\* elements is taken: place[x] is the number of those before x.
LEMMA EveryPlaceTaken ==
  ASSUME NEW S, IsFiniteSet(S), NEW before \in SUBSET (S \X S),
         \A x \in S : <<x, x>> \notin before,
         \A x, y \in S : x # y => <<x, y>> \in before \/ <<y, x>> \in before,
         \A x, y, z \in S : <<x, y>> \in before /\ <<y, z>> \in before => <<x, z>> \in before,
         NEW i \in 1 .. Cardinality(S)
  PROVE  \E y \in S : Cardinality({x \in S : <<x, y>> \in before}) = i - 1
<1> DEFINE n == Cardinality(S)
           Below(y) == {x \in S : <<x, y>> \in before}
           place == [y \in S |-> Cardinality(Below(y)) + 1]
<1>1. n \in Nat
  BY FS_CardinalityType
<1>2. ASSUME NEW y \in S
      PROVE  IsFiniteSet(Below(y)) /\ Cardinality(Below(y)) \in Nat /\ Cardinality(Below(y)) < n
  <2>1. Below(y) \subseteq S /\ y \notin Below(y)
    OBVIOUS
  <2> HIDE DEF Below
  <2>2. IsFiniteSet(Below(y)) /\ Cardinality(Below(y)) <= n /\ (Cardinality(Below(y)) = n => Below(y) = S)
    BY <2>1, FS_Subset
  <2>3. Cardinality(Below(y)) \in Nat
    BY <2>2, FS_CardinalityType
  <2> QED BY <1>1, <2>1, <2>2, <2>3
<1>3. ASSUME NEW x \in S, NEW y \in S, <<x, y>> \in before
      PROVE  Cardinality(Below(x)) < Cardinality(Below(y))
  <2>1. Below(x) \subseteq Below(y) /\ x \in Below(y) /\ x \notin Below(x)
    BY <1>3
  <2> HIDE DEF Below
  <2>2. /\ Cardinality(Below(x)) <= Cardinality(Below(y))
        /\ Cardinality(Below(x)) = Cardinality(Below(y)) => Below(x) = Below(y)
    BY <1>2, <2>1, FS_Subset
  <2> QED BY <1>2, <2>1, <2>2
<1>4. place \in [S -> 1 .. n]
  <2> HIDE DEF Below, n
  <2> QED BY <1>1, <1>2
<1>5. \A x, y \in S : place[x] = place[y] => x = y
  <2> SUFFICES ASSUME NEW x \in S, NEW y \in S, x # y PROVE place[x] # place[y]
    OBVIOUS
  <2>1. Cardinality(Below(x)) # Cardinality(Below(y))
    <3> HIDE DEF Below
    <3>1. CASE <<x, y>> \in before
      BY <1>2, <1>3, <3>1
    <3>2. CASE <<y, x>> \in before
      BY <1>2, <1>3, <3>2
    <3> QED BY <3>1, <3>2
  <2> HIDE DEF Below
  <2> QED BY <1>2, <2>1
<1>6. Cardinality(1 .. n) = n /\ IsFiniteSet(1 .. n)
  <2> HIDE DEF n
  <2>1. 1 \in Int /\ n \in Int
    BY <1>1
  <2>2. IsFiniteSet(1 .. n) /\ Cardinality(1 .. n) = IF 1 > n THEN 0 ELSE n - 1 + 1
    BY <2>1, FS_Interval, Zenon
  <2> QED BY <1>1, <2>2
<1>7. place \in Surjection(S, 1 .. n)
  <2> HIDE DEF place
  <2>1. place \in Injection(S, 1 .. n)
    BY <1>4, <1>5 DEF Injection, IsInjective
  <2> HIDE DEF n
  <2> QED BY <1>6, <2>1, FS_Injection DEF n
<1>8. PICK y \in S : place[y] = i
  BY <1>7 DEF Surjection
<1> QED
  <2> HIDE DEF Below, n
  <2>1. Cardinality(Below(y)) + 1 = i /\ Cardinality(Below(y)) \in Nat
    BY <1>2, <1>8
  <2>2. Cardinality(Below(y)) = i - 1
    BY <2>1
  <2> QED BY <2>2 DEF Below

\* A finite set that is not empty has a largest and a smallest number.
LEMMA Bounds ==
  ASSUME NEW S \in SUBSET Int, IsFiniteSet(S), S # {}
  PROVE  /\ \E x \in S : \A y \in S : x >= y
         /\ \E x \in S : \A y \in S : x <= y
<1> DEFINE before == {p \in S \X S : p[1] < p[2]}
           n == Cardinality(S)
<1>1. n \in Nat /\ n # 0
  BY FS_CardinalityType, FS_EmptySet
<1>2. \A x, y \in S : <<x, y>> \in before <=> x < y
  OBVIOUS
<1> HIDE DEF before
<1>3. \A i \in 1 .. n : \E y \in S : Cardinality({x \in S : <<x, y>> \in before}) = i - 1
  <2>1. before \in SUBSET (S \X S)
    BY DEF before
  <2>2. /\ \A x \in S : <<x, x>> \notin before
        /\ \A x, y \in S : x # y => <<x, y>> \in before \/ <<y, x>> \in before
        /\ \A x, y, z \in S : <<x, y>> \in before /\ <<y, z>> \in before => <<x, z>> \in before
    BY <1>2
  <2> QED BY <2>1, <2>2, EveryPlaceTaken, ZenonT(60)
<1>4. PICK x \in S : Cardinality({w \in S : <<w, x>> \in before}) = n - 1
  BY <1>1, <1>3
<1>5. PICK y \in S : Cardinality({w \in S : <<w, y>> \in before}) = 1 - 1
  BY <1>1, <1>3
<1>6. ASSUME NEW w \in S PROVE x >= w
  <2> DEFINE T == {v \in S : <<v, x>> \in before}
             U == S \ {x}
  <2>1. T \subseteq U /\ IsFiniteSet(U) /\ Cardinality(U) = n - 1
    <3>1. T \subseteq U
      BY <1>2
    <3> QED BY <3>1, FS_RemoveElement
  <2>2. T = U
    <3> HIDE DEF T, U
    <3> QED BY <1>4, <2>1, FS_Subset DEF T
  <2>3. w = x \/ <<w, x>> \in before
    BY <2>2
  <2> QED BY <1>2, <2>3
<1>7. ASSUME NEW w \in S PROVE y <= w
  <2> DEFINE T == {v \in S : <<v, y>> \in before}
  <2>1. T = {}
    <3>1. IsFiniteSet(T)
      BY FS_Subset
    <3> HIDE DEF T
    <3> QED BY <1>5, <3>1, FS_EmptySet DEF T
  <2>2. ~(w < y)
    BY <1>2, <2>1
  <2> QED BY <2>2
<1> QED BY <1>6, <1>7

-----------------------------------------------------------------------------
(* Filters *)

FilterNames == LF!ListingColumns \cup LF!ListedSpecification

\* A listing that can be seen has this value of the filter and meets all the other filters.
Offered(name, v, s) ==
  \E r \in v1 : LF!Interdependent(r, LF!Without(s, name)) /\ LF!Value(r, name) = v
Honest(name, o, s) == o.count > 0 => Offered(name, o.value, s)
Found(s) == \E r \in v1 : LF!Interdependent(r, s)
Option(o) == o.count \in 0 .. Cardinality(LFRows) /\ o.isSelected \in BOOLEAN
InRange(s, range) == [s EXCEPT !.min = range.min, !.max = range.max]

\* The values on the screen were read with the search in titles that the request has.
SameSearch == v4.search = v3.search

\* While the catalogue stands still, what the panel says is so: its values have listings, its
\* range has one, its total is the number of what is listed; and so has what was ticked.
FiltersInv ==
  /\ LF!TypeOK
  /\ DOMAIN v4.facets \subseteq FilterNames
  /\ v4.range.max \notin {None, 0} => LFRows # {}
  /\ v10 /\ v5 \in {"asked", "answered"} /\ SameSearch =>
       \A name \in DOMAIN v4.facets : \A o \in v4.facets[name] : Honest(name, o, v3)
  /\ v10 /\ v5 \in {"asked", "answered"} /\ v4.range.max \notin {None, 0} =>
       Found(InRange(v3, v4.range))
  /\ v10 /\ v5 \in {"answered", "listed"} /\ v4.answer = "ok" =>
       v4.total = LF!FilteredListingsCount(v3)
  /\ v5 = "listed" => v4.answer = "ok" /\ (v10 => v7 = LF!Listed(v3))
  /\ v10 /\ v5 = "chosen" /\ v11 > 0 /\ SameSearch => Found(v3)
  /\ v5 = "landed" => LF!NoDeadEnd

FiltersPart == part = "filters" => FiltersInv

\* The operators that the instance brings with it are the library's.
LEMMA FiltersLibrary ==
  /\ \A S : LF!Cardinality(S) = Cardinality(S)
  /\ \A S : LF!IsFiniteSet(S) <=> IsFiniteSet(S)
<1>1. \A S : LF!Cardinality(S) = Cardinality(S)
  BY DEF LF!Cardinality, Cardinality
<1>2. \A S : LF!IsFiniteSet(S) <=> IsFiniteSet(S)
  BY DEF LF!IsFiniteSet, IsFiniteSet
<1> QED BY <1>1, <1>2

\* The rows are finitely many, and so is every set of rows that is read.
LEMMA RowsFinite ==
  /\ IsFiniteSet(LFRows) /\ Cardinality(LFRows) \in Nat
  /\ \A S \in SUBSET LFRows :
       IsFiniteSet(S) /\ Cardinality(S) \in 0 .. Cardinality(LFRows)
  /\ \A r \in LFRows : r.price \in Nat
<1>1. IsFiniteSet(LFRows) /\ Cardinality(LFRows) \in Nat
  BY ServiceSideAssumption, FiltersLibrary, FS_CardinalityType DEF LF!ListingFiltersAssumption
<1>2. ASSUME NEW S \in SUBSET LFRows
      PROVE  IsFiniteSet(S) /\ Cardinality(S) \in 0 .. Cardinality(LFRows)
  <2>1. IsFiniteSet(S) /\ Cardinality(S) <= Cardinality(LFRows) /\ Cardinality(S) \in Nat
    BY <1>1, FS_Subset, FS_CardinalityType
  <2> QED BY <1>1, <2>1
<1>3. \A r \in LFRows : r.price \in Nat
  BY ServiceSideAssumption DEF LF!ListingFiltersAssumption
<1> QED BY <1>1, <1>2, <1>3

\* The two translations of a request agree, but for the three readings.
LEMMA Alike ==
  ASSUME NEW s, LF!IsRequest(s), LF!ReadAlike(s), NEW r \in LFRows
  PROVE  LF!ListWhere(r, s) <=> r \in v1 /\ r \in v2 /\ LF!Interdependent(r, s)
<1>1. r.price \in Nat /\ s.min \in Int \cup {None} /\ s.max \in Int \cup {None} /\ s.max # 0
      /\ None \notin Int
  BY RowsFinite, ServiceSideAssumption
     DEF LF!IsRequest, LF!ReadAlike, LF!ListingFiltersAssumption
<1>2. /\ (s.min \notin {None, 0} => r.price >= s.min) <=> (s.min # None => r.price >= s.min)
      /\ (s.max \notin {None, 0} => r.price <= s.max) <=> (s.max # None => r.price <= s.max)
  BY <1>1
<1>3. (\A name \in DOMAIN s.values \cap (LF!ListingColumns \cup LF!SpecificationFilters) :
         LF!Skipped(s.values[name]) \/ LF!Value(r, name) \in s.values[name])
      <=> (\A name \in DOMAIN s.values \cap (LF!ListingColumns \cup LF!ListedSpecification) :
             s.values[name] = {} \/ LF!Value(r, name) \in s.values[name])
  BY Zenon DEF LF!ReadAlike, LF!Skipped, LF!ListedSpecification
<1> QED BY <1>2, <1>3 DEF LF!ListWhere, LF!Interdependent

\* What is listed is what is counted.
LEMMA ListedCounted ==
  ASSUME LF!TypeOK, LF!ReadAlike(v3)
  PROVE  LF!FilteredListingsCount(v3) = Cardinality(LF!Listed(v3))
<1>1. LF!Listed(v3) = {r \in v1 \cap v2 : LF!Interdependent(r, v3)}
  BY Alike DEF LF!Listed, LF!TypeOK
<1> QED BY <1>1, FiltersLibrary DEF LF!FilteredListingsCount

\* Options of different values are in a strict order, in which each has its place.
LEMMA OrderedOptions ==
  ASSUME NEW S, IsFiniteSet(S),
         \A o \in S : o.count \in Nat /\ o.value \in DOMAIN LFRank,
         \A o, p \in S : o.value = p.value => o = p
  PROVE  LF!Ordered(S) \in [1 .. Cardinality(S) -> S]
<1> DEFINE before == {p \in S \X S : LF!Before(p[1], p[2])}
<1>1. \A v, w \in DOMAIN LFRank : LFRank[v] \in Nat /\ (LFRank[v] = LFRank[w] => v = w)
  BY ServiceSideAssumption DEF LF!ListingFiltersAssumption
<1>2. before \in SUBSET (S \X S) /\ \A x, y \in S : <<x, y>> \in before <=> LF!Before(x, y)
  OBVIOUS
<1> HIDE DEF before
<1>3. \A x \in S : <<x, x>> \notin before
  BY <1>1, <1>2 DEF LF!Before
<1>4. ASSUME NEW x \in S, NEW y \in S, x # y PROVE <<x, y>> \in before \/ <<y, x>> \in before
  <2>1. LFRank[x.value] # LFRank[y.value]
    BY <1>1, <1>4
  <2>2. LFRank[x.value] \in Nat /\ LFRank[y.value] \in Nat /\ x.count \in Nat /\ y.count \in Nat
    BY <1>1
  <2> QED BY <1>2, <2>1, <2>2 DEF LF!Before
<1>5. ASSUME NEW x \in S, NEW y \in S, NEW z \in S, <<x, y>> \in before, <<y, z>> \in before
      PROVE  <<x, z>> \in before
  <2>1. /\ LFRank[x.value] \in Nat /\ LFRank[y.value] \in Nat /\ LFRank[z.value] \in Nat
        /\ x.count \in Nat /\ y.count \in Nat /\ z.count \in Nat
    BY <1>1
  <2> QED BY <1>2, <1>5, <2>1 DEF LF!Before
<1>6. ASSUME NEW i \in 1 .. Cardinality(S)
      PROVE  \E y \in S : Cardinality({x \in S : <<x, y>> \in before}) = i - 1
  BY <1>2, <1>3, <1>4, <1>5, EveryPlaceTaken
<1>7. ASSUME NEW i \in 1 .. Cardinality(S)
      PROVE  \E y \in S : LF!Cardinality({x \in S : LF!Before(x, y)}) = i - 1
  <2>1. PICK y \in S : Cardinality({x \in S : <<x, y>> \in before}) = i - 1
    BY <1>6
  <2>2. {x \in S : <<x, y>> \in before} = {x \in S : LF!Before(x, y)}
    BY <1>2
  <2> QED BY <2>1, <2>2, FiltersLibrary
<1> QED BY <1>7, FiltersLibrary DEF LF!Ordered

\* What a query of a filter answers has the value of a row, and counts some.
LEMMA Fetched ==
  ASSUME v1 \subseteq LFRows, NEW name \in FilterNames, NEW s, NEW offset \in Nat,
         NEW limit \in Nat, NEW within,
         NEW o \in LF!Range(LF!FetchFilterValues(name, s, offset, limit, within))
  PROVE  /\ o.count \in 0 .. Cardinality(LFRows)
         /\ \E r \in v1 : LF!Interdependent(r, s) /\ LF!Value(r, name) = o.value
<1> DEFINE rows == {r \in v1 : /\ LF!HasValue(r, name) /\ LF!Interdependent(r, s)
                           /\ LF!Matches(LF!Value(r, name), within)}
           Count(v) == LF!Cardinality({r \in rows : LF!Value(r, name) = v})
           values == {LF!Value(r, name) : r \in rows}
           options == {[value |-> v, count |-> Count(v)] : v \in values}
           n == Cardinality(options)
           hi == LF!Min({offset + limit, n})
<1>1. \A v : Count(v) \in 0 .. Cardinality(LFRows)
  <2>1. \A v : {r \in rows : LF!Value(r, name) = v} \in SUBSET LFRows
    OBVIOUS
  <2> HIDE DEF rows
  <2> QED BY <2>1, RowsFinite, FiltersLibrary
<1>2. \A v \in values : v \in DOMAIN LFRank
  BY ServiceSideAssumption DEF LF!ListingFiltersAssumption, FilterNames
<1>3. IsFiniteSet(options) /\ n \in Nat
  <2>1. IsFiniteSet(rows)
    BY RowsFinite
  <2>2. IsFiniteSet(options)
    <3> DEFINE f == [r \in rows |-> [value |-> LF!Value(r, name), count |-> Count(LF!Value(r, name))]]
    <3>1. options = {f[r] : r \in rows}
      <4> HIDE DEF rows, Count
      <4> QED OBVIOUS
    <3>2. f \in Surjection(rows, options)
      <4>1. DOMAIN f = rows /\ f \in [rows -> options]
        BY <3>1
      <4> HIDE DEF f, options, rows
      <4> QED BY <3>1, <4>1 DEF Surjection
    <3> HIDE DEF f, options, rows
    <3> QED BY <2>1, <3>2, FS_Surjection
  <2> QED BY <2>2, FS_CardinalityType
<1>4. \A p \in options : /\ p.count \in 0 .. Cardinality(LFRows) /\ p.value \in DOMAIN LFRank
                        /\ \E r \in v1 : LF!Interdependent(r, s) /\ LF!Value(r, name) = p.value
  <2> SUFFICES ASSUME NEW v \in values
               PROVE  /\ Count(v) \in 0 .. Cardinality(LFRows) /\ v \in DOMAIN LFRank
                      /\ \E r \in v1 : LF!Interdependent(r, s) /\ LF!Value(r, name) = v
    <3> HIDE DEF Count, values
    <3> QED OBVIOUS
  <2> QED BY <1>1, <1>2
<1>5. \A p, q \in options : p.value = q.value => p = q
  <2> HIDE DEF Count, values
  <2> QED OBVIOUS
<1>6. LF!Ordered(options) \in [1 .. n -> options]
  <2> HIDE DEF options
  <2>1. \A p \in options : p.count \in Nat /\ p.value \in DOMAIN LFRank
    BY <1>4
  <2> QED BY <1>3, <1>5, <2>1, OrderedOptions
<1> DEFINE q == SubSeq(LF!Ordered(options), offset + 1, LF!Min({offset + limit, LF!Cardinality(options)}))
<1>7. LF!FetchFilterValues(name, s, offset, limit, within) = IF LF!QueryFails(name, s) THEN <<>> ELSE q
  BY Zenon DEF LF!FetchFilterValues
<1>8. o \in LF!Range(q)
  <2> HIDE DEF q
  <2>1. LF!Range(<<>>) = {}
    BY DEF LF!Range
  <2> QED BY <1>7, <2>1
<1>9. hi \in Int /\ hi <= n
  <2> HIDE DEF n
  <2>1. LF!Min({offset + limit, n}) = CHOOSE x \in {offset + limit, n} : \A y \in {offset + limit, n} : x <= y
    BY DEF LF!Min
  <2>2. \E x \in {offset + limit, n} : \A y \in {offset + limit, n} : x <= y
    BY <1>3
  <2> QED BY <1>3, <2>1, <2>2
<1>10. \A i \in offset + 1 .. hi : LF!Ordered(options)[i] \in options
  <2> HIDE DEF options, hi, n
  <2> QED BY <1>3, <1>6, <1>9
<1>11. q \in Seq(options)
  <2>1. q = SubSeq(LF!Ordered(options), offset + 1, hi)
    BY FiltersLibrary
  <2> HIDE DEF options, hi, n, q
  <2> QED BY <1>9, <1>10, <2>1, SubSeqProperties
<1>12. o \in options
  <2> HIDE DEF options, q
  <2> QED BY <1>8, <1>11 DEF LF!Range
<1> HIDE DEF options
<1> QED BY <1>4, <1>12

\* What the panel or a filter's own page offers.
LEMMA Built ==
  ASSUME v1 \subseteq LFRows, NEW name \in FilterNames, NEW offset \in Nat, NEW limit \in Nat,
         NEW s, NEW within, NEW o \in LF!BuildFilter(name, s, offset, limit, within)
  PROVE  Option(o) /\ Honest(name, o, s)
<1> DEFINE read == LF!Range(LF!FetchFilterValues(name, LF!Without(s, name), offset, limit, within))
           options == {[value |-> p.value, count |-> p.count,
                        isSelected |-> LF!IsValueSelected(s, name, p.value)] : p \in read}
<1>1. \/ o \in options
      \/ \E v : o = [value |-> v, count |-> 0, isSelected |-> FALSE]
  <2> HIDE DEF options
  <2>1. o \in options \/ o \in LF!EnsureBooleanOptions(options)
    BY DEF LF!BuildFilter, options
  <2> QED BY <2>1 DEF LF!EnsureBooleanOptions
<1>2. ASSUME NEW p \in read
      PROVE  /\ p.count \in 0 .. Cardinality(LFRows)
             /\ Offered(name, p.value, s)
  BY Fetched DEF Offered
<1>3. CASE o \in options
  <2> HIDE DEF read
  <2>1. PICK p \in read : o = [value |-> p.value, count |-> p.count,
                               isSelected |-> LF!IsValueSelected(s, name, p.value)]
    BY <1>3
  <2>2. LF!IsValueSelected(s, name, p.value) \in BOOLEAN
    BY DEF LF!IsValueSelected
  <2> QED BY <1>2, <2>1, <2>2 DEF Option, Honest
<1>4. CASE \E v : o = [value |-> v, count |-> 0, isSelected |-> FALSE]
  BY <1>4, RowsFinite DEF Option, Honest
<1> QED BY <1>1, <1>3, <1>4

\* The range has a listing at its upper end.
LEMMA RangeFound ==
  ASSUME LF!IsRequest(v3), v1 \subseteq LFRows
  PROVE  LET range == LF!FetchRange(v3)
         IN /\ DOMAIN range = {"min", "max"}
            /\ range.min \in Int \cup {None} /\ range.max \in Int \cup {None}
            /\ range.max \notin {None, 0} => LFRows # {} /\ Found(InRange(v3, range))
<1> DEFINE rows == {x \in v1 : LF!Interdependent(x, v3)}
           prices == {r.price : r \in rows} \ {0}
           low == LF!Min(prices)
           high == LF!Max(prices)
           range == LF!FetchRange(v3)
<1>1. range = IF LF!QueryFails("price", v3) THEN [min |-> None, max |-> None]
              ELSE IF prices = {} THEN [min |-> 0, max |-> 0] ELSE [min |-> low, max |-> high]
  BY Zenon DEF LF!FetchRange
<1>2. CASE prices # {} /\ range = [min |-> low, max |-> high]
  <2>1. prices \in SUBSET Int /\ IsFiniteSet(prices)
    <3>1. prices \in SUBSET Int /\ IsFiniteSet(rows)
      BY RowsFinite
    <3>2. IsFiniteSet({r.price : r \in rows})
      <4> HIDE DEF rows
      <4> DEFINE f == [r \in rows |-> r.price]
                 P == {r.price : r \in rows}
      <4>1. f \in Surjection(rows, P)
        BY DEF Surjection
      <4> HIDE DEF f, P
      <4> QED BY <3>1, <4>1, FS_Surjection DEF P
    <3> QED BY <3>1, <3>2, FS_Difference
  <2>2. low \in prices /\ high \in prices /\ high >= low
    <3> HIDE DEF prices
    <3>1. low \in prices
      <4>1. \E x \in prices : \A y \in prices : x <= y
        BY <1>2, <2>1, Bounds
      <4> QED BY <4>1 DEF LF!Min
    <3>2. high \in prices /\ \A y \in prices : high >= y
      <4>1. \E x \in prices : \A y \in prices : x >= y
        BY <1>2, <2>1, Bounds
      <4> QED BY <4>1 DEF LF!Max
    <3> QED BY <3>1, <3>2
  <2>3. PICK r \in v1 : LF!Interdependent(r, v3) /\ r.price = high
    <3> HIDE DEF low, high
    <3> QED BY <2>2
  <2> HIDE DEF low, high, prices
  <2> HIDE DEF range
  <2>4. low \in Int /\ high \in Int /\ range.min = low /\ range.max = high
        /\ DOMAIN range = {"min", "max"}
    <3>1. low \in Int /\ high \in Int
      BY <2>1, <2>2
    <3>2. range.min = low /\ range.max = high
      BY <1>2
    <3>3. DOMAIN range = {"min", "max"}
      BY <1>2
    <3> QED BY <3>1, <3>2, <3>3
  <2>5. LF!Interdependent(r, InRange(v3, range))
    <3> DEFINE s == InRange(v3, range)
    <3>1. /\ s.category = v3.category /\ s.search = v3.search /\ s.store = v3.store
          /\ s.values = v3.values /\ s.min = low /\ s.max = high
      BY <2>4 DEF InRange, LF!IsRequest
    <3> HIDE DEF s
    <3>2. r.price >= s.min /\ r.price <= s.max
      BY <2>2, <2>3, <2>4, <3>1
    <3>3. LF!MatchesSearch(r, s) <=> LF!MatchesSearch(r, v3)
      BY <3>1 DEF LF!MatchesSearch
    <3>4. LF!MatchesStore(r, s) <=> LF!MatchesStore(r, v3)
      BY <3>1 DEF LF!MatchesStore
    <3>5. LF!Interdependent(r, s)
      BY <2>3, <3>1, <3>2, <3>3, <3>4 DEF LF!Interdependent
    <3> QED BY <3>5 DEF s
  <2> QED BY <2>4, <2>5 DEF Found, range
<1>3. CASE range \in {[min |-> None, max |-> None], [min |-> 0, max |-> 0]}
  BY <1>3
<1> QED BY <1>1, <1>2, <1>3

\* A request that has not been answered yet shows nothing.
LEMMA FiltersInvInit == ServicesInit => FiltersPart
<1> SUFFICES ASSUME LF!Init PROVE FiltersInv
  BY DEF ServicesInit, FiltersPart
<1>1. /\ v4 = LF!NoPage /\ v5 = "browsing" /\ v6 = {} /\ v7 = {} /\ v8 = 0 /\ v9 = 0 /\ v10 = TRUE
      /\ v11 = 0 /\ v1 \subseteq LFRows /\ v2 = LFRows /\ LF!IsRequest(v3)
  BY ServiceSideAssumption DEF LF!Init, LF!ListingFiltersAssumption
<1>2. DOMAIN v4.facets = {} /\ v4.range.max = None
  BY <1>1 DEF LF!NoPage, LF!NoRange
<1>3. LF!IsPage(v4)
  BY <1>1, <1>2, RowsFinite, FiltersLibrary DEF LF!IsPage, LF!NoPage, LF!NoRange
<1>4. LF!TypeOK
  BY <1>1, <1>3, RowsFinite, FiltersLibrary, ServiceSideAssumption
     DEF LF!TypeOK, LF!ListingFiltersAssumption
<1> QED BY <1>1, <1>2, <1>4 DEF FiltersInv

\* A change of the catalogue, after which nothing is said of it.
LEMMA FiltersMove == FiltersInv /\ LF!Move => FiltersInv'
<1> SUFFICES ASSUME FiltersInv, LF!Move PROVE FiltersInv'
  OBVIOUS
<1>1. /\ v10' = FALSE /\ UNCHANGED <<v3, v4, v5, v6, v7, v9, v11>>
      /\ v8' \in 0 .. LFMaxMoves /\ v1' \subseteq LFRows /\ v2' \subseteq LFRows
  BY ServiceSideAssumption
     DEF FiltersInv, LF!Move, LF!TypeOK, LF!ListingFiltersAssumption
<1>2. LF!TypeOK'
  BY <1>1 DEF FiltersInv, LF!TypeOK
<1>3. LF!NoDeadEnd'
  BY <1>1 DEF LF!NoDeadEnd
<1> QED BY <1>1, <1>2, <1>3 DEF FiltersInv

\* The panel is asked for.
LEMMA FiltersAsked == FiltersInv /\ LF!AskFilters => FiltersInv'
<1> SUFFICES ASSUME FiltersInv, LF!AskFilters PROVE FiltersInv'
  OBVIOUS
<1>1. /\ UNCHANGED <<v1, v2, v3, v7, v8, v9, v11>> /\ v10' \in BOOLEAN /\ v6' \subseteq LF!Groups
      /\ \/ v5' = "asked" /\ v4' = [LF!NoPage EXCEPT !.answer = "waiting", !.search = v3.search]
         \/ v5' = "answered" /\ v4' = [LF!NoPage EXCEPT !.answer = "bad request"]
  BY DEF FiltersInv, LF!AskFilters, LF!TypeOK, LF!catalogue
<1>2. /\ DOMAIN v4' = DOMAIN LF!NoPage /\ v4'.facets = <<>> /\ v4'.range = LF!NoRange
      /\ v4'.total = 0 /\ v4'.answer # "ok"
  BY <1>1 DEF LF!NoPage
<1>3. DOMAIN v4'.facets = {} /\ v4'.range.max = None /\ v4'.range.min = None
  BY <1>2 DEF LF!NoRange
<1>4. LF!IsPage(v4')
  BY <1>2, <1>3, RowsFinite, FiltersLibrary DEF LF!IsPage
<1>5. LF!TypeOK'
  BY <1>1, <1>4 DEF FiltersInv, LF!TypeOK
<1> QED BY <1>1, <1>2, <1>3, <1>5 DEF FiltersInv

\* The queries of one group of filters: what they add to the panel is so.
LEMMA FiltersRead ==
  ASSUME NEW group \in LF!Groups, FiltersInv, LF!ReadFilters(group)
  PROVE  FiltersInv'
<1> DEFINE names == LF!FiltersToProcess(v3, group)
           built == [n \in names \ {"price"} |-> LF!BuildFilter(n, v3, 0, LFLimit, LF!NoSearch)]
           shown == {n \in DOMAIN built : built[n] # {}}
           facets == [n \in DOMAIN v4.facets \cup shown |->
                        IF n \in DOMAIN v4.facets THEN v4.facets[n] ELSE built[n]]
           range == IF "price" \in names THEN LF!FetchRange(v3) ELSE v4.range
<1>1. /\ v5 = "asked" /\ v6' \subseteq LF!Groups /\ UNCHANGED <<v1, v2, v3, v5, v7, v8, v9, v10, v11>>
      /\ v4' = [v4 EXCEPT !.facets = facets, !.range = range]
  BY DEF FiltersInv, LF!ReadFilters, LF!TypeOK, LF!catalogue
<1>2. /\ LF!IsRequest(v3) /\ LF!IsPage(v4) /\ v1 \subseteq LFRows /\ DOMAIN v4.facets \subseteq FilterNames
      /\ v4.range.max \notin {None, 0} => LFRows # {}
      /\ v10 /\ SameSearch => \A name \in DOMAIN v4.facets : \A o \in v4.facets[name] : Honest(name, o, v3)
      /\ v10 /\ v4.range.max \notin {None, 0} => Found(InRange(v3, v4.range))
  BY <1>1 DEF FiltersInv, LF!TypeOK
<1> HIDE DEF facets, range
<1>3. v4'.facets = facets /\ v4'.range = range /\ v4'.total = v4.total /\ v4'.answer = v4.answer
      /\ DOMAIN v4' = DOMAIN LF!NoPage /\ v4'.search = v4.search
  BY <1>1, <1>2 DEF LF!IsPage, LF!NoPage
<1>4. names \ {"price"} \subseteq FilterNames
  <2>1. names \subseteq LF!CommonFilters \cup LF!FiltersForCategory(LF!NormalizeCategoryName(v3.category))
    BY DEF LF!FiltersToProcess
  <2>2. \A c : LF!FiltersForCategory(c) \subseteq LF!SpecificationFilters \cup {"model"}
    <3> SUFFICES ASSUME NEW c \in LF!CategoryNames, NEW n \in LF!CategoryFilters[c]
                 PROVE  n \in LF!SpecificationFilters \cup {"model"}
      BY DEF LF!FiltersForCategory
    <3>1. CASE n = "model"
      BY <3>1
    <3>2. CASE n # "model"
      <4> DEFINE all == UNION {LF!CategoryFilters[d] : d \in LF!CategoryNames}
      <4>1. n \in all \ {"model"}
        BY <3>2
      <4>2. all \ {"model"} \subseteq LF!SpecificationFilters
        BY DEF LF!SpecificationFilters
      <4> QED BY <4>1, <4>2, Zenon
    <3> QED BY <3>1, <3>2
  <2> HIDE DEF names
  <2> QED BY <2>1, <2>2 DEF LF!CommonFilters, LF!ListedSpecification, FilterNames
<1>5. ASSUME NEW name \in shown, NEW o \in built[name]
      PROVE  Option(o) /\ Honest(name, o, v3)
  <2>1. name \in FilterNames /\ o \in LF!BuildFilter(name, v3, 0, LFLimit, LF!NoSearch)
    <3> HIDE DEF names
    <3> QED BY <1>4
  <2>2. 0 \in Nat /\ LFLimit \in Nat
    BY ServiceSideAssumption DEF LF!ListingFiltersAssumption
  <2> QED BY <1>2, <2>1, <2>2, Built
<1>6. shown \subseteq FilterNames /\ \A n \in shown : built[n] # {}
  <2> HIDE DEF names
  <2> QED BY <1>4
<1> HIDE DEF names, built, shown
<1>7. /\ DOMAIN facets = DOMAIN v4.facets \cup shown
      /\ \A n \in DOMAIN facets : facets[n] = IF n \in DOMAIN v4.facets THEN v4.facets[n] ELSE built[n]
  BY DEF facets
<1>8. ASSUME NEW name \in DOMAIN facets
      PROVE  /\ facets[name] # {}
             /\ \A o \in facets[name] : Option(o) /\ (v10 /\ SameSearch => Honest(name, o, v3))
  <2>1. CASE name \in DOMAIN v4.facets
    BY <1>2, <1>7, <2>1, FiltersLibrary DEF LF!IsPage, Option
  <2>2. CASE name \notin DOMAIN v4.facets
    BY <1>5, <1>6, <1>7, <2>2
  <2> QED BY <2>1, <2>2
<1>9. /\ DOMAIN range = DOMAIN LF!NoRange
      /\ range.min \in Int \cup {None} /\ range.max \in Int \cup {None}
      /\ range.max \notin {None, 0} => LFRows # {} /\ (v10 => Found(InRange(v3, range)))
  <2>1. DOMAIN LF!NoRange = {"min", "max"}
    BY DEF LF!NoRange
  <2>2. CASE range = LF!FetchRange(v3)
    BY <1>2, <2>1, <2>2, RangeFound
  <2>3. CASE range = v4.range
    BY <1>2, <2>3 DEF LF!IsPage
  <2> QED BY <2>2, <2>3 DEF range
<1>10. LF!IsPage(v4')
  <2>1. v4.total \in 0 .. Cardinality(LFRows)
    BY <1>2, FiltersLibrary DEF LF!IsPage
  <2>2. \A name \in DOMAIN v4'.facets :
          /\ v4'.facets[name] # {}
          /\ \A o \in v4'.facets[name] : Option(o)
    BY <1>3, <1>8
  <2> QED BY <1>3, <1>9, <2>1, <2>2, FiltersLibrary DEF LF!IsPage, Option
<1>11. LF!TypeOK'
  BY <1>1, <1>10 DEF FiltersInv, LF!TypeOK
<1>12. DOMAIN v4'.facets \subseteq FilterNames
  BY <1>2, <1>3, <1>6, <1>7
<1>13. v10' /\ SameSearch' => \A name \in DOMAIN v4'.facets : \A o \in v4'.facets[name] : Honest(name, o, v3)'
  BY <1>1, <1>3, <1>8 DEF Honest, Offered, SameSearch
<1>14. v10' /\ v4'.range.max \notin {None, 0} => Found(InRange(v3, v4.range))'
  BY <1>1, <1>3, <1>9 DEF Found, InRange
<1> QED BY <1>1, <1>3, <1>9, <1>11, <1>12, <1>13, <1>14 DEF FiltersInv

\* The total, read last.
LEMMA FiltersTotal == FiltersInv /\ LF!ReadTotal => FiltersInv'
<1> SUFFICES ASSUME FiltersInv, LF!ReadTotal PROVE FiltersInv'
  OBVIOUS
<1> DEFINE count == LF!FilteredListingsCount(v3)
<1>1. count \in 0 .. Cardinality(LFRows)
  <2>1. {r \in v1 \cap v2 : LF!Interdependent(r, v3)} \in SUBSET LFRows
    BY DEF FiltersInv, LF!TypeOK
  <2> QED BY <2>1, RowsFinite, FiltersLibrary DEF LF!FilteredListingsCount
<1>2. /\ v5 = "asked" /\ v5' = "answered" /\ UNCHANGED <<v1, v2, v3, v6, v7, v8, v9, v10, v11>>
      /\ v4' = [v4 EXCEPT !.total = count, !.answer = "ok"]
  BY DEF LF!ReadTotal, LF!catalogue
<1> HIDE DEF count
<1>3. LF!IsPage(v4)
  BY DEF FiltersInv, LF!TypeOK
<1>4. v4'.facets = v4.facets /\ v4'.range = v4.range /\ v4'.total = count /\ v4'.answer = "ok"
      /\ DOMAIN v4' = DOMAIN LF!NoPage /\ v4'.search = v4.search
  BY <1>2, <1>3 DEF LF!IsPage, LF!NoPage
<1>5. LF!IsPage(v4')
  BY <1>1, <1>3, <1>4, FiltersLibrary DEF LF!IsPage
<1>6. LF!TypeOK'
  BY <1>2, <1>5 DEF FiltersInv, LF!TypeOK
<1>7. v10' /\ SameSearch' => \A name \in DOMAIN v4'.facets : \A o \in v4'.facets[name] : Honest(name, o, v3)'
  BY <1>2, <1>4 DEF FiltersInv, Honest, Offered, SameSearch
<1>8. v10' /\ v4'.range.max \notin {None, 0} => Found(InRange(v3, v4.range))'
  BY <1>2, <1>4 DEF FiltersInv, Found, InRange
<1>9. v4'.total = LF!FilteredListingsCount(v3)'
  BY <1>2, <1>4 DEF count, LF!FilteredListingsCount
<1> QED BY <1>2, <1>4, <1>6, <1>7, <1>8, <1>9 DEF FiltersInv

\* One page of one filter's values, read without the search in titles.
LEMMA FiltersByName ==
  ASSUME NEW name \in DOMAIN v4.facets, NEW number \in 1 .. 2, NEW within, FiltersInv,
         LF!FilterByName(name, number, within)
  PROVE  FiltersInv'
<1> DEFINE offset == (number - 1) * LFPageSize
           s == [v3 EXCEPT !.search = LF!NoSearch]
           values == LF!BuildFilter(name, s, offset, LFPageSize, within)
           facets == [n \in {name} |-> values]
<1>1. /\ v5 = "answered" /\ v4.answer = "ok" /\ values # {}
      /\ v4' = [v4 EXCEPT !.facets = facets, !.search = LF!NoSearch]
      /\ UNCHANGED <<v1, v2, v3, v5, v6, v7, v8, v9, v10, v11>>
  BY DEF LF!FilterByName, LF!catalogue
<1>2. LF!IsRequest(v3) /\ LF!IsPage(v4) /\ v1 \subseteq LFRows /\ name \in FilterNames
  BY DEF FiltersInv, LF!TypeOK
<1>3. ASSUME NEW o \in values PROVE Option(o) /\ Honest(name, o, s)
  <2>1. LFPageSize \in Nat
    BY ServiceSideAssumption DEF LF!ListingFiltersAssumption
  <2>2. offset \in Nat
    <3>1. CASE number = 1
      BY <2>1, <3>1
    <3>2. CASE number = 2
      BY <2>1, <3>2
    <3> QED BY <3>1, <3>2
  <2> HIDE DEF offset, s
  <2> QED BY <1>2, <1>3, <2>1, <2>2, Built
<1>4. ASSUME v3.search = LF!NoSearch, NEW o, Honest(name, o, s) PROVE Honest(name, o, v3)
  <2> SUFFICES ASSUME NEW r \in v1, LF!Interdependent(r, LF!Without(s, name))
               PROVE  LF!Interdependent(r, LF!Without(v3, name))
    BY <1>4 DEF Honest, Offered
  <2>1. /\ DOMAIN s = DOMAIN v3 /\ s.min = v3.min /\ s.max = v3.max /\ s.search = v3.search
        /\ s.store = v3.store /\ s.category = v3.category /\ s.values = v3.values
    BY <1>2, <1>4 DEF LF!IsRequest
  <2> HIDE DEF s
  <2> DEFINE w == LF!Without(s, name)
             x == LF!Without(v3, name)
  <2>2. /\ w.min = x.min /\ w.max = x.max /\ w.search = x.search /\ w.store = x.store
        /\ w.category = x.category /\ w.values = x.values
    BY <1>2, <2>1 DEF LF!Without, LF!IsRequest
  <2>3. LF!Interdependent(r, w)
    OBVIOUS
  <2> HIDE DEF w, x
  <2>4. LF!Interdependent(r, x)
    BY <2>2, <2>3 DEF LF!Interdependent, LF!MatchesSearch, LF!MatchesStore
  <2> QED BY <2>4 DEF x
<1> HIDE DEF values, s
<1>5. DOMAIN facets = {name} /\ \A n \in DOMAIN facets : n = name /\ facets[n] = values
  OBVIOUS
<1> HIDE DEF facets
<1>6. v4'.facets = facets /\ v4'.range = v4.range /\ v4'.total = v4.total /\ v4'.answer = v4.answer
      /\ DOMAIN v4' = DOMAIN LF!NoPage /\ v4'.search = LF!NoSearch
  BY <1>1, <1>2 DEF LF!IsPage, LF!NoPage
<1>7. LF!IsPage(v4')
  <2>1. \A n \in DOMAIN v4'.facets : v4'.facets[n] # {} /\ \A o \in v4'.facets[n] : Option(o)
    BY <1>1, <1>3, <1>5, <1>6
  <2> QED BY <1>2, <1>6, <2>1, FiltersLibrary DEF LF!IsPage, Option
<1>8. LF!TypeOK'
  BY <1>1, <1>7 DEF FiltersInv, LF!TypeOK
<1>9. v10' /\ SameSearch' => \A n \in DOMAIN v4'.facets : \A o \in v4'.facets[n] : Honest(n, o, v3)'
  <2> SUFFICES ASSUME v3.search = LF!NoSearch, NEW n \in DOMAIN v4'.facets, NEW o \in v4'.facets[n]
               PROVE  Honest(n, o, v3)'
    BY <1>1, <1>6 DEF SameSearch
  <2>1. n = name /\ o \in values
    BY <1>5, <1>6
  <2>2. Honest(n, o, v3)
    BY <1>3, <1>4, <2>1
  <2> QED BY <1>1, <2>2 DEF Honest, Offered
<1>10. v10' /\ v4'.range.max \notin {None, 0} => Found(InRange(v3, v4.range))'
  BY <1>1, <1>6 DEF FiltersInv, Found, InRange
<1>11. v10' => v4'.total = LF!FilteredListingsCount(v3)'
  BY <1>1, <1>6 DEF FiltersInv, LF!FilteredListingsCount
<1> QED BY <1>1, <1>2, <1>5, <1>6, <1>8, <1>9, <1>10, <1>11 DEF FiltersInv

\* A value is ticked: the listing that it was offered for meets the request it leads to.
LEMMA FiltersChoose ==
  ASSUME NEW name \in DOMAIN v4.facets, NEW option \in v4.facets[name], FiltersInv,
         LF!Choose(name, option)
  PROVE  FiltersInv'
<1> DEFINE old == v3.values
           ticked == {option.value} \cup
                       IF name \in DOMAIN old \ LF!BooleanFilters THEN old[name] ELSE {}
           new == [n \in DOMAIN old \cup {name} |-> IF n # name THEN old[n] ELSE ticked]
<1>1. /\ v5 = "answered" /\ v5' = "chosen" /\ v11' = option.count /\ v9' = v9 + 1 /\ v9 < LFMaxChoices
      /\ v3' = IF name = "categoryName" THEN [v3 EXCEPT !.category = option.value]
               ELSE [v3 EXCEPT !.values = new]
      /\ UNCHANGED <<v1, v2, v4, v6, v7, v8, v10>>
  BY DEF LF!Choose, LF!catalogue
<1>2. LF!IsRequest(v3) /\ LF!IsPage(v4) /\ v9 \in 0 .. LFMaxChoices /\ name \in FilterNames
  BY DEF FiltersInv, LF!TypeOK
<1>3. Option(option) /\ (v10 /\ SameSearch => Honest(name, option, v3))
  BY <1>1, <1>2, FiltersLibrary DEF FiltersInv, LF!IsPage, Option
<1>4. v9' \in 0 .. LFMaxChoices
  BY <1>1, <1>2, ServiceSideAssumption DEF LF!ListingFiltersAssumption
<1>5. /\ ticked # {} /\ option.value \in ticked
      /\ name \in LF!BooleanFilters => Cardinality(ticked) = 1
  <2>1. name \in LF!BooleanFilters => ticked = {option.value}
    OBVIOUS
  <2> QED BY <2>1, FS_Singleton
<1>6. DOMAIN new = DOMAIN old \cup {name} /\ new[name] = ticked
      /\ \A n \in DOMAIN old \ {name} : new[n] = old[n]
  <2> HIDE DEF ticked
  <2> QED OBVIOUS
<1> HIDE DEF ticked, new
<1>7. /\ DOMAIN v3' = DOMAIN v3 /\ v3'.min = v3.min /\ v3'.max = v3.max /\ v3'.search = v3.search
      /\ v3'.store = v3.store
      /\ v3'.category = (IF name = "categoryName" THEN option.value ELSE v3.category)
      /\ v3'.values = (IF name = "categoryName" THEN old ELSE new)
  BY <1>1, <1>2 DEF LF!IsRequest
<1>8. LF!IsRequest(v3')
  <2>1. CASE name = "categoryName"
    BY <1>2, <1>7, <2>1 DEF LF!IsRequest
  <2>2. CASE name # "categoryName"
    <3>1. \A n \in DOMAIN new : new[n] # {} /\ (n \in LF!BooleanFilters => LF!Cardinality(new[n]) = 1)
      BY <1>2, <1>5, <1>6, FiltersLibrary DEF LF!IsRequest
    <3>2. DOMAIN new \subseteq (LF!ListingColumns \cup LF!ListedSpecification) \ {"categoryName"}
      BY <1>2, <1>6, <2>2 DEF LF!IsRequest, FilterNames
    <3> QED BY <1>2, <1>7, <2>2, <3>1, <3>2 DEF LF!IsRequest
  <2> QED BY <2>1, <2>2
<1>9. LF!TypeOK'
  BY <1>1, <1>3, <1>4, <1>8, FiltersLibrary DEF FiltersInv, LF!TypeOK, Option
<1>10. ASSUME v10', v11' > 0, SameSearch' PROVE Found(v3)'
  <2>1. PICK r \in v1 : LF!Interdependent(r, LF!Without(v3, name)) /\ LF!Value(r, name) = option.value
    BY <1>1, <1>3, <1>7, <1>10 DEF Honest, Offered, SameSearch
  <2> DEFINE w == LF!Without(v3, name)
  <2>2. /\ w.min = v3.min /\ w.max = v3.max /\ w.search = v3.search /\ w.store = v3.store
        /\ w.category = (IF name = "categoryName" THEN "" ELSE v3.category)
        /\ DOMAIN w.values = DOMAIN old \ {name} /\ \A n \in DOMAIN w.values : w.values[n] = old[n]
    BY <1>2 DEF LF!Without, LF!IsRequest
  <2>3. LF!Interdependent(r, w)
    BY <2>1
  <2> HIDE DEF w, old
  <2>4. LF!SameCategory(r, v3'.category)
    <3>1. CASE name = "categoryName"
      <4>1. LF!Value(r, "categoryName") = r.category
        <5>1. r \in LFRows
          BY DEF FiltersInv, LF!TypeOK
        <5>2. "categoryName" \notin DOMAIN r.own \cup DOMAIN r.spec
          BY <5>1, ServiceSideAssumption DEF LF!ListingFiltersAssumption
        <5> QED BY <5>2 DEF LF!Value
      <4>2. v3'.category = r.category
        BY <1>7, <2>1, <3>1, <4>1
      <4> QED BY <4>2 DEF LF!SameCategory
    <3>2. CASE name # "categoryName"
      BY <1>7, <2>2, <2>3, <3>2 DEF LF!Interdependent
    <3> QED BY <3>1, <3>2
  <2>5. LF!MatchesSearch(r, v3') /\ LF!MatchesStore(r, v3')
    BY <1>7, <2>2, <2>3 DEF LF!Interdependent, LF!MatchesSearch, LF!MatchesStore
  <2>6. ASSUME NEW n \in DOMAIN v3'.values \cap (LF!ListingColumns \cup LF!SpecificationFilters)
        PROVE  LF!Skipped(v3'.values[n]) \/ LF!Value(r, n) \in v3'.values[n]
    <3>1. CASE n = name
      <4>1. name # "categoryName"
        BY <1>8, <3>1 DEF LF!IsRequest
      <4> QED BY <1>5, <1>6, <1>7, <2>1, <3>1, <4>1
    <3>2. CASE n # name
      <4>1. n \in DOMAIN w.values /\ v3'.values[n] = w.values[n]
        BY <1>6, <1>7, <2>2, <3>2
      <4> QED BY <2>3, <4>1 DEF LF!Interdependent
    <3> QED BY <3>1, <3>2
  <2>7. /\ v3'.min \notin {None, 0} => r.price >= v3'.min
        /\ v3'.max \notin {None, 0} => r.price <= v3'.max
    BY <1>7, <2>2, <2>3 DEF LF!Interdependent
  <2>8. LF!Interdependent(r, v3')
    BY <2>4, <2>5, <2>6, <2>7 DEF LF!Interdependent
  <2> QED BY <1>1, <2>8 DEF Found
<1> QED BY <1>1, <1>9, <1>10 DEF FiltersInv

\* The range that the panel names is taken.
LEMMA FiltersChooseRange == FiltersInv /\ LF!ChooseRange => FiltersInv'
<1> SUFFICES ASSUME FiltersInv, LF!ChooseRange PROVE FiltersInv'
  OBVIOUS
<1>1. /\ v5 = "answered" /\ v5' = "chosen" /\ v11' = 1 /\ v9' = v9 + 1 /\ v9 < LFMaxChoices
      /\ v4.range.max \notin {None, 0} /\ v3' = InRange(v3, v4.range)
      /\ UNCHANGED <<v1, v2, v4, v6, v7, v8, v10>>
  BY DEF LF!ChooseRange, LF!catalogue, InRange
<1>2. /\ LF!IsRequest(v3) /\ v9 \in 0 .. LFMaxChoices /\ LFRows # {}
      /\ v4.range.min \in Int \cup {None} /\ v4.range.max \in Int \cup {None}
  BY <1>1 DEF FiltersInv, LF!TypeOK, LF!IsPage
<1>3. v11' \in 0 .. Cardinality(LFRows)
  BY <1>1, <1>2, RowsFinite, FS_EmptySet
<1>4. v9' \in 0 .. LFMaxChoices
  BY <1>1, <1>2, ServiceSideAssumption DEF LF!ListingFiltersAssumption
<1>5. LF!IsRequest(v3')
  <2>1. DOMAIN v3' = DOMAIN v3 /\ v3'.min = v4.range.min /\ v3'.max = v4.range.max
        /\ v3'.values = v3.values
    BY <1>1, <1>2 DEF InRange, LF!IsRequest
  <2> QED BY <1>2, <2>1 DEF LF!IsRequest
<1>6. LF!TypeOK'
  BY <1>1, <1>3, <1>4, <1>5, FiltersLibrary DEF FiltersInv, LF!TypeOK
<1>7. v10' => Found(v3)'
  BY <1>1 DEF FiltersInv, Found
<1> QED BY <1>1, <1>6, <1>7 DEF FiltersInv

\* The list, which shows what was found.
LEMMA FiltersShow == FiltersInv /\ LF!ShowList => FiltersInv'
<1> SUFFICES ASSUME FiltersInv, LF!ShowList PROVE FiltersInv'
  OBVIOUS
<1>1. /\ \/ v5 = "answered" /\ v4.answer = "ok" /\ v5' = "listed"
         \/ v5 = "chosen" /\ v5' = "landed"
      /\ v7' = LF!Listed(v3) /\ UNCHANGED <<v1, v2, v3, v4, v6, v8, v9, v10, v11>>
  BY DEF LF!ShowList, LF!catalogue
<1>2. LF!TypeOK'
  <2>1. LF!Listed(v3) \subseteq LFRows
    BY DEF LF!Listed
  <2> QED BY <1>1, <2>1 DEF FiltersInv, LF!TypeOK
<1>3. CASE v5' = "listed"
  <2>1. v7' = LF!Listed(v3)'
    BY <1>1 DEF LF!Listed, LF!ListWhere
  <2>2. v10' => v4'.total = LF!FilteredListingsCount(v3)'
    BY <1>1, <1>3 DEF FiltersInv, LF!FilteredListingsCount
  <2> QED BY <1>1, <1>2, <1>3, <2>1, <2>2 DEF FiltersInv
<1>4. CASE v5' = "landed"
  <2>1. ASSUME v10, v11 > 0, v1 \subseteq v2, LF!ReadAlike(v3), SameSearch
        PROVE  LF!Listed(v3) # {}
    <3>1. PICK r \in v1 : LF!Interdependent(r, v3)
      BY <1>1, <1>4, <2>1 DEF FiltersInv, Found
    <3>2. LF!IsRequest(v3) /\ r \in LFRows /\ r \in v2
      BY <2>1 DEF FiltersInv, LF!TypeOK
    <3>3. LF!ListWhere(r, v3)
      BY <2>1, <3>1, <3>2, Alike
    <3> QED BY <3>2, <3>3 DEF LF!Listed
  <2>2. LF!NoDeadEnd'
    BY <1>1, <2>1 DEF LF!NoDeadEnd, LF!ReadAlike, SameSearch
  <2> QED BY <1>1, <1>2, <1>4, <2>2 DEF FiltersInv
<1> QED BY <1>1, <1>3, <1>4

\* Back to the panel.
LEMMA FiltersReturn == FiltersInv /\ LF!Return => FiltersInv'
<1> SUFFICES ASSUME FiltersInv, LF!Return PROVE FiltersInv'
  OBVIOUS
<1>1. /\ v5' = "browsing" /\ v4' = LF!NoPage /\ v7' = {} /\ v11' = 0
      /\ UNCHANGED <<v1, v2, v3, v6, v8, v9, v10>>
  BY DEF LF!Return, LF!catalogue
<1>2. DOMAIN v4'.facets = {} /\ v4'.range.max = None
  BY <1>1 DEF LF!NoPage, LF!NoRange
<1>3. LF!IsPage(v4')
  BY <1>1, <1>2, RowsFinite, FiltersLibrary DEF LF!IsPage, LF!NoPage, LF!NoRange
<1>4. LF!TypeOK'
  BY <1>1, <1>3, RowsFinite, FiltersLibrary DEF FiltersInv, LF!TypeOK
<1> QED BY <1>1, <1>2, <1>4 DEF FiltersInv

\* Every step of the composition keeps the invariant of the filters.
LEMMA FiltersInvStep == FiltersPart /\ [ServicesNext]_allVars => FiltersPart'
<1> SUFFICES ASSUME FiltersPart, [ServicesNext]_allVars, part' = "filters" PROVE FiltersInv'
  BY DEF FiltersPart
<1>1. CASE FiltersStep
  <2>1. FiltersInv /\ LF!Next
    BY <1>1 DEF FiltersStep, FiltersPart
  <2> QED BY <2>1, FiltersMove, FiltersAsked, FiltersRead, FiltersTotal, FiltersByName,
             FiltersChoose, FiltersChooseRange, FiltersShow, FiltersReturn DEF LF!Next
<1>2. CASE UNCHANGED allVars
  <2>1. UNCHANGED <<part, v1, v2, v3, v4, v5, v6, v7, v8, v9, v10, v11>>
    BY <1>2 DEF allVars, slots, after4
  <2>2. FiltersInv
    BY <2>1 DEF FiltersPart
  <2>3. LF!TypeOK' /\ LF!NoDeadEnd' = LF!NoDeadEnd
    BY <2>1, <2>2 DEF FiltersInv, LF!TypeOK, LF!NoDeadEnd
  <2>4. LF!FilteredListingsCount(v3)' = LF!FilteredListingsCount(v3) /\ LF!Listed(v3)' = LF!Listed(v3)
    BY <2>1 DEF LF!FilteredListingsCount, LF!Listed, LF!ListWhere
  <2>5. Found(v3)' = Found(v3) /\ Found(InRange(v3, v4.range))' = Found(InRange(v3, v4.range))
    BY <2>1 DEF Found, InRange
  <2>6. (v10 /\ v5 \in {"asked", "answered"} /\ SameSearch =>
          \A name \in DOMAIN v4.facets : \A o \in v4.facets[name] : Honest(name, o, v3))'
    BY <2>1, <2>2 DEF FiltersInv, Honest, Offered, SameSearch
  <2> QED BY <2>1, <2>2, <2>3, <2>4, <2>5, <2>6 DEF FiltersInv, SameSearch
<1>3. CASE ServicesNext /\ ~FiltersStep
  BY <1>3
     DEF ServicesNext, PaymentsStep, PhonesStep, UsersStep, ModelsStep, PicksStep, SearchStep
<1> QED BY <1>1, <1>2, <1>3

-----------------------------------------------------------------------------
(* Models *)

ModelNames == MF!FilterNames \cup {"categoryName"}

\* A model has this value of the filter and meets all the other filters.
ModelOffered(name, v, s) == \E r \in MF!Where(s, {name}) : MF!Value(r, name) = v
ModelOption(o) == o.count \in 1 .. Cardinality(MFRows) /\ o.isSelected \in BOOLEAN

\* While the models stand still, each value of the panel has a model; and a list that is read
\* shows one variant each of what is counted, and shows some after a value was ticked.
ModelsInv ==
  /\ MF!TypeOK
  /\ DOMAIN v3.facets \subseteq ModelNames
  /\ v4 = "asked" => v5 \in Seq(ModelNames) /\ v5 # <<>>
  /\ v10 /\ v4 \in {"asked", "answered"} =>
       \A name \in DOMAIN v3.facets : \A o \in v3.facets[name] : ModelOffered(name, o.value, v2)
  /\ v4 \in {"listing", "landing"} => v5 \in {<<"list", "count">>, <<"list">>, <<"count">>}
  /\ v10 /\ (v4 \in {"listed", "landed"} \/ (v4 \in {"listing", "landing"} /\ v5 = <<"count">>)) =>
       \E first \in MF!FirstVariants(MF!RawWhere(v2)) : v6 = {r \in first : r.pictured}
  /\ v10 /\ (v4 \in {"listed", "landed"} \/ (v4 \in {"listing", "landing"} /\ v5 = <<"list">>)) =>
       v7 = MF!Cardinality(MF!Groups(MF!RawWhere(v2)))
  /\ v10 /\ v4 \in {"chosen", "landing", "landed"} => MF!RawWhere(v2) # {}

ModelsPart == part = "models" => ModelsInv

\* The operators that the instance brings with it are the library's.
LEMMA ModelsLibrary ==
  /\ \A S : MF!Cardinality(S) = Cardinality(S)
  /\ \A S : MF!IsFiniteSet(S) <=> IsFiniteSet(S)
<1>1. \A S : MF!Cardinality(S) = Cardinality(S)
  BY DEF MF!Cardinality, Cardinality
<1>2. \A S : MF!IsFiniteSet(S) <=> IsFiniteSet(S)
  BY DEF MF!IsFiniteSet, IsFiniteSet
<1> QED BY <1>1, <1>2

\* The models are finitely many, and so is every set of models that is read.
LEMMA ModelsFinite ==
  /\ IsFiniteSet(MFRows) /\ Cardinality(MFRows) \in Nat
  /\ \A S \in SUBSET MFRows :
       IsFiniteSet(S) /\ Cardinality(S) \in 0 .. Cardinality(MFRows)
<1>1. IsFiniteSet(MFRows) /\ Cardinality(MFRows) \in Nat
  BY ServiceSideAssumption, ModelsLibrary, FS_CardinalityType DEF MF!ModelFiltersAssumption
<1>2. ASSUME NEW S \in SUBSET MFRows
      PROVE  IsFiniteSet(S) /\ Cardinality(S) \in 0 .. Cardinality(MFRows)
  <2>1. IsFiniteSet(S) /\ Cardinality(S) <= Cardinality(MFRows) /\ Cardinality(S) \in Nat
    BY <1>1, FS_Subset, FS_CardinalityType
  <2> QED BY <1>1, <2>1
<1> QED BY <1>1, <1>2

\* There are no more names of brands than models.
LEMMA GroupsCounted ==
  ASSUME NEW rows \in SUBSET MFRows
  PROVE  Cardinality(MF!Groups(rows)) \in 0 .. Cardinality(MFRows)
<1> DEFINE G == {<<r.name, r.brand>> : r \in rows}
           f == [r \in rows |-> <<r.name, r.brand>>]
<1>1. IsFiniteSet(rows) /\ Cardinality(rows) \in 0 .. Cardinality(MFRows)
  BY ModelsFinite
<1>2. f \in Surjection(rows, G)
  BY DEF Surjection
<1>3. IsFiniteSet(G) /\ Cardinality(G) <= Cardinality(rows)
  <2> HIDE DEF f, G
  <2> QED BY <1>1, <1>2, FS_Surjection
<1>4. Cardinality(G) \in Nat
  BY <1>3, FS_CardinalityType
<1>5. MF!Groups(rows) = G
  BY DEF MF!Groups
<1> HIDE DEF G
<1> QED BY <1>1, <1>3, <1>4, <1>5, ModelsFinite

\* A page of options has nothing but options.
LEMMA WindowOfOptions ==
  ASSUME NEW options, IsFiniteSet(options), NEW offset \in Nat, NEW limit \in Nat,
         NEW values \in MF!Windows(options, offset, limit)
  PROVE  values \subseteq options
<1>1. PICK q \in MF!SetToSeqs(options) :
        values = MF!ToSet(SubSeq(q, offset + 1, MF!Min({offset + limit, Len(q)})))
  BY DEF MF!Windows
<1> DEFINE n == Len(q)
           hi == MF!Min({offset + limit, n})
<1>2. q \in Seq(options) /\ n \in Nat
  <2>1. q \in [1 .. Cardinality(options) -> options]
    BY <1>1, ModelsLibrary DEF MF!SetToSeqs
  <2>2. Cardinality(options) \in Nat
    BY FS_CardinalityType
  <2> QED BY <2>1, <2>2
<1>3. hi \in Int /\ hi <= n
  <2> DEFINE b == offset + limit
  <2>1. b \in Int /\ n \in Int
    BY <1>2
  <2> HIDE DEF b, n
  <2>2. MF!Min({b, n}) = CHOOSE x \in {b, n} : \A y \in {b, n} : x <= y
    BY DEF MF!Min
  <2>3. \E x \in {b, n} : \A y \in {b, n} : x <= y
    BY <2>1
  <2>4. MF!Min({b, n}) \in {b, n} /\ MF!Min({b, n}) <= n
    BY <2>2, <2>3
  <2> QED BY <2>1, <2>4 DEF b
<1>4. \A i \in offset + 1 .. hi : q[i] \in options
  <2> HIDE DEF hi
  <2> QED BY <1>2, <1>3
<1> DEFINE w == SubSeq(q, offset + 1, hi)
<1>5. w \in Seq(options)
  <2> HIDE DEF hi
  <2> QED BY <1>3, <1>4, SubSeqProperties
<1> HIDE DEF w
<1>6. MF!ToSet(w) \subseteq options
  BY <1>5 DEF MF!ToSet
<1> QED BY <1>1, <1>6 DEF w

\* What a query of a filter answers has the value of a model, and counts one at least.
LEMMA ModelFetched ==
  ASSUME NEW rows \in SUBSET MFRows, NEW name, NEW s, NEW offset \in Nat, NEW limit \in Nat,
         NEW values \in MF!Windows(MF!Options(rows, name, s), offset, limit), NEW o \in values
  PROVE  ModelOption(o) /\ \E r \in rows : MF!Value(r, name) = o.value
<1> DEFINE With(v) == {r \in rows : MF!Value(r, name) = v}
           taken == {MF!Value(r, name) : r \in rows} \ {"nil"}
           Count(v) == MF!Cardinality(With(v))
           options == {[value |-> v, count |-> Count(v),
                        isSelected |-> MF!IsValueSelected(s, name, v)] : v \in taken}
<1>1. options = MF!Options(rows, name, s)
  BY Zenon DEF MF!Options
<1>2. ASSUME NEW v \in taken
      PROVE  Count(v) \in 1 .. Cardinality(MFRows) /\ \E r \in rows : MF!Value(r, name) = v
  <2>1. With(v) \in SUBSET MFRows /\ With(v) # {}
    OBVIOUS
  <2>2. PICK r \in rows : MF!Value(r, name) = v
    OBVIOUS
  <2> HIDE DEF With, taken
  <2>3. Cardinality(With(v)) \in 0 .. Cardinality(MFRows) /\ Cardinality(With(v)) # 0
    BY <2>1, ModelsFinite, FS_EmptySet
  <2> QED BY <2>2, <2>3, ModelsLibrary
<1>3. IsFiniteSet(options)
  <2>1. IsFiniteSet(rows)
    BY ModelsFinite
  <2>2. IsFiniteSet(taken)
    <3> DEFINE f == [r \in rows |-> MF!Value(r, name)]
               P == {MF!Value(r, name) : r \in rows}
    <3>1. f \in Surjection(rows, P)
      BY DEF Surjection
    <3>2. IsFiniteSet(P)
      <4> HIDE DEF f, P
      <4> QED BY <2>1, <3>1, FS_Surjection
    <3> HIDE DEF P
    <3> QED BY <3>2, FS_Difference DEF P
  <2>3. IsFiniteSet(options)
    <3> HIDE DEF taken, Count
    <3> DEFINE f == [v \in taken |-> [value |-> v, count |-> Count(v),
                                      isSelected |-> MF!IsValueSelected(s, name, v)]]
    <3>1. f \in Surjection(taken, options)
      BY DEF Surjection
    <3> HIDE DEF f, options
    <3> QED BY <2>2, <3>1, FS_Surjection
  <2> QED BY <2>3
<1>4. o \in options
  <2> HIDE DEF options
  <2> QED BY <1>1, <1>3, WindowOfOptions
<1>5. PICK v \in taken : /\ o.value = v /\ o.count = Count(v)
                        /\ o.isSelected = MF!IsValueSelected(s, name, v)
  <2> HIDE DEF taken, Count
  <2> QED BY <1>4
<1>6. MF!IsValueSelected(s, name, v) \in BOOLEAN
  BY DEF MF!IsValueSelected
<1> HIDE DEF taken, Count
<1> QED BY <1>2, <1>5, <1>6 DEF ModelOption

\* An option stands for a model while the models stand still.
LEMMA ModelsHonest ==
  ASSUME UNCHANGED <<v1, v2>>, NEW name, NEW v, ModelOffered(name, v, v2)
  PROVE  ModelOffered(name, v, v2)'
BY DEF ModelOffered, MF!Where

\* A request that has not been answered yet shows nothing.
LEMMA ModelsInvInit == ServicesInit => ModelsPart
<1> SUFFICES ASSUME MF!Init PROVE ModelsInv
  BY DEF ServicesInit, ModelsPart
<1>1. /\ v3 = MF!NoPage /\ v4 = "browsing" /\ v6 = {} /\ v7 = 0 /\ v8 = 0 /\ v9 = 0 /\ v10 = TRUE
      /\ v11 = 0 /\ v1 = MFRows /\ MF!IsRequest(v2)
  BY ServiceSideAssumption DEF MF!Init, MF!ModelFiltersAssumption
<1>2. DOMAIN v3.facets = {}
  BY <1>1 DEF MF!NoPage
<1>3. MF!TypeOK
  BY <1>1, <1>2, ModelsFinite, ModelsLibrary, ServiceSideAssumption
     DEF MF!TypeOK, MF!IsPage, MF!ModelFiltersAssumption
<1> QED BY <1>1, <1>2, <1>3 DEF ModelsInv

\* A model is added or removed, after which nothing is said of the list.
LEMMA ModelsMove == ModelsInv /\ MF!Move => ModelsInv'
<1> SUFFICES ASSUME ModelsInv, MF!Move PROVE ModelsInv'
  OBVIOUS
<1>1. /\ v10' = FALSE /\ UNCHANGED <<v2, v3, v4, v5, v6, v7, v9, v11>>
      /\ v8' \in 0 .. MFMaxMoves /\ v1' \subseteq MFRows
  BY ServiceSideAssumption DEF ModelsInv, MF!Move, MF!TypeOK, MF!ModelFiltersAssumption
<1>2. MF!TypeOK'
  BY <1>1 DEF ModelsInv, MF!TypeOK
<1> QED BY <1>1, <1>2 DEF ModelsInv

\* The filters of a category are filters.
LEMMA ModelFilterNames ==
  ASSUME NEW c
  PROVE  /\ MF!FiltersForCategory(c) \in Seq(ModelNames)
         /\ \A name : MF!Applicable(name, c) => name \in ModelNames
<1> DEFINE own == MF!CategoryFilters[c]
<1>1. ASSUME c \in MF!CategoryNames PROVE own \in Seq(ModelNames)
  <2>1. own \in Seq(MF!ToSet(own))
    <3> DEFINE Listed(f) == f \in Seq(MF!ToSet(f))
    <3>1. Listed(MF!LaptopFilters)
      BY DEF MF!LaptopFilters, MF!ToSet
    <3>2. Listed(MF!MobileFilters)
      BY DEF MF!MobileFilters, MF!ToSet
    <3>3. Listed(MF!TvMonitorFilters)
      BY DEF MF!TvMonitorFilters, MF!ToSet
    <3>4. Listed(<<"hasSimSupport">>) /\ Listed(<<"desktopType">>) /\ Listed(<<"accessoryType">>)
      BY DEF MF!ToSet
    <3>5. own \in {MF!LaptopFilters, MF!MobileFilters, <<"hasSimSupport">>, MF!TvMonitorFilters,
                   <<"desktopType">>, <<"accessoryType">>}
      BY <1>1 DEF MF!CategoryNames, MF!CategoryFilters
    <3> HIDE DEF own, Listed
    <3>6. Listed(own)
      BY <3>1, <3>2, <3>3, <3>4, <3>5
    <3> QED BY <3>6 DEF Listed
  <2>2. MF!ToSet(own) \subseteq ModelNames
    BY <1>1 DEF ModelNames, MF!FilterNames
  <2> HIDE DEF own
  <2> QED BY <2>1, <2>2
<1>2. MF!CommonFilters \in Seq(ModelNames)
  BY DEF MF!CommonFilters, ModelNames, MF!FilterNames
<1>3. MF!FiltersForCategory(c) \in Seq(ModelNames)
  <2>1. CASE c \in MF!CategoryNames
    <3> HIDE DEF own
    <3>1. MF!CommonFilters \o own \in Seq(ModelNames)
      BY <1>1, <1>2, <2>1
    <3> QED BY <2>1, <3>1 DEF MF!FiltersForCategory, own
  <2>2. CASE c \notin MF!CategoryNames
    BY <2>2 DEF MF!FiltersForCategory
  <2> QED BY <2>1, <2>2
<1>4. ASSUME NEW name, MF!Applicable(name, c) PROVE name \in ModelNames
  <2>1. CASE name \in MF!ToSet(MF!FiltersForCategory(c))
    BY <1>3, <2>1 DEF MF!ToSet
  <2>2. CASE c \in DOMAIN MF!BorrowedFilters /\ name \in MF!BorrowedFilters[c]
    BY <2>2 DEF ModelNames, MF!FilterNames
  <2> QED BY <1>4, <2>1, <2>2 DEF MF!Applicable
<1> QED BY <1>3, <1>4

\* The panel is asked for.
LEMMA ModelsAsked == ModelsInv /\ MF!AskFilters => ModelsInv'
<1> SUFFICES ASSUME ModelsInv, MF!AskFilters PROVE ModelsInv'
  OBVIOUS
<1>1. /\ UNCHANGED <<v1, v2, v6, v7, v8, v9, v11>> /\ v10' = TRUE
      /\ v5' = MF!FiltersForCategory(v2.category)
      /\ v4' = IF v5' = <<>> THEN "answered" ELSE "asked"
      /\ v3'.facets = <<>> /\ DOMAIN v3' = DOMAIN MF!NoPage
  BY DEF MF!AskFilters, MF!NoPage
<1>2. DOMAIN v3'.facets = {}
  BY <1>1
<1>3. MF!TypeOK'
  BY <1>1, <1>2 DEF ModelsInv, MF!TypeOK, MF!IsPage
<1>4. v5' \in Seq(ModelNames)
  BY <1>1, ModelFilterNames
<1> QED BY <1>1, <1>2, <1>3, <1>4 DEF ModelsInv

\* One more filter is read: its values have models.
LEMMA ModelsRead == ModelsInv /\ MF!ReadFilter => ModelsInv'
<1> SUFFICES ASSUME ModelsInv, MF!ReadFilter PROVE ModelsInv'
  OBVIOUS
<1> DEFINE name == Head(v5)
           rows == MF!Where(v2, {name} \ {"categoryName"})
<1>1. PICK values \in MF!Windows(MF!Options(rows, name, v2), 0, MFPerFilter[v2.source]) :
        v3' = IF values = {} THEN v3
              ELSE [v3 EXCEPT !.facets = [n \in DOMAIN v3.facets \cup {name} |->
                                            IF n = name THEN values ELSE v3.facets[n]]]
  BY DEF MF!ReadFilter
<1>2. /\ v4 = "asked" /\ v5' = Tail(v5) /\ v4' = IF v5' = <<>> THEN "answered" ELSE "asked"
      /\ UNCHANGED <<v1, v2, v6, v7, v8, v9, v10, v11>>
  BY DEF MF!ReadFilter
<1>3. /\ MF!IsRequest(v2) /\ MF!IsPage(v3) /\ v1 \subseteq MFRows
      /\ v5 \in Seq(ModelNames) /\ v5 # <<>> /\ DOMAIN v3.facets \subseteq ModelNames
  BY <1>2 DEF ModelsInv, MF!TypeOK
<1>4. name \in ModelNames /\ v5' \in Seq(ModelNames)
  BY <1>2, <1>3
<1>5. rows \in SUBSET MFRows /\ rows \subseteq MF!Where(v2, {name})
  <2>1. MF!Where(v2, {name} \ {"categoryName"}) \subseteq MF!Where(v2, {name})
    <3>1. CASE name = "categoryName"
      <4>1. ASSUME NEW r \in MF!Where(v2, {}) PROVE r \in MF!Where(v2, {"categoryName"})
        BY DEF MF!Where
      <4>2. {name} \ {"categoryName"} = {} /\ {name} = {"categoryName"}
        BY <3>1
      <4> QED BY <4>1, <4>2, Zenon
    <3>2. CASE name # "categoryName"
      <4>1. {name} \ {"categoryName"} = {name}
        BY <3>2
      <4> QED BY <4>1
    <3> QED BY <3>1, <3>2
  <2>2. rows \subseteq v1
    BY DEF MF!Where
  <2> QED BY <1>3, <2>1, <2>2
<1> HIDE DEF name, rows
<1>6. ASSUME NEW o \in values PROVE ModelOption(o) /\ ModelOffered(name, o.value, v2)
  <2>1. 0 \in Nat /\ MFPerFilter[v2.source] \in Nat
    BY <1>3, ServiceSideAssumption DEF MF!ModelFiltersAssumption, MF!IsRequest
  <2>2. ModelOption(o) /\ \E r \in rows : MF!Value(r, name) = o.value
    BY <1>5, <2>1, ModelFetched
  <2> QED BY <1>5, <2>2 DEF ModelOffered
<1>7. /\ DOMAIN v3' = DOMAIN MF!NoPage /\ DOMAIN v3'.facets \subseteq ModelNames
      /\ \A n \in DOMAIN v3'.facets :
           \/ n = name /\ v3'.facets[n] = values /\ values # {}
           \/ n \in DOMAIN v3.facets /\ v3'.facets[n] = v3.facets[n]
  <2>1. CASE values = {}
    BY <1>1, <1>3, <2>1 DEF MF!IsPage
  <2>2. CASE values # {}
    <3> DEFINE facets == [n \in DOMAIN v3.facets \cup {name} |->
                            IF n = name THEN values ELSE v3.facets[n]]
    <3>1. /\ DOMAIN facets = DOMAIN v3.facets \cup {name}
          /\ \A n \in DOMAIN facets : facets[n] = IF n = name THEN values ELSE v3.facets[n]
      OBVIOUS
    <3>2. v3' = [v3 EXCEPT !.facets = facets]
      BY <1>1, <2>2
    <3> HIDE DEF facets
    <3>3. v3'.facets = facets /\ DOMAIN v3' = DOMAIN MF!NoPage
      BY <1>3, <3>2 DEF MF!IsPage, MF!NoPage
    <3> QED BY <1>3, <1>4, <2>2, <3>1, <3>3
  <2> QED BY <2>1, <2>2
<1>8. ASSUME NEW n \in DOMAIN v3'.facets
      PROVE  /\ v3'.facets[n] # {}
             /\ \A o \in v3'.facets[n] : ModelOption(o) /\ (v10 => ModelOffered(n, o.value, v2))
  <2>1. CASE n = name /\ v3'.facets[n] = values /\ values # {}
    BY <1>6, <2>1
  <2>2. CASE n \in DOMAIN v3.facets /\ v3'.facets[n] = v3.facets[n]
    BY <1>2, <1>3, <2>2, ModelsLibrary DEF ModelsInv, MF!IsPage, ModelOption
  <2> QED BY <1>7, <2>1, <2>2
<1>9. MF!IsPage(v3')
  BY <1>7, <1>8, ModelsLibrary DEF MF!IsPage, ModelOption
<1>10. MF!TypeOK'
  BY <1>2, <1>9 DEF ModelsInv, MF!TypeOK
<1>11. v10' => \A n \in DOMAIN v3'.facets : \A o \in v3'.facets[n] : ModelOffered(n, o.value, v2)'
  BY <1>2, <1>8, ModelsHonest
<1> QED BY <1>2, <1>4, <1>7, <1>10, <1>11 DEF ModelsInv

\* One page of one filter's values.
LEMMA ModelsByName ==
  ASSUME NEW name \in MFAsked, NEW number \in 1 .. 2, ModelsInv, MF!FilterByName(name, number)
  PROVE  ModelsInv'
<1> DEFINE offset == (number - 1) * MFPageSize
           rows == MF!Where(v2, {name})
<1>1. PICK values \in MF!Windows(MF!Options(rows, name, v2), offset, MFPageSize) :
        values # {} /\ v3' = [v3 EXCEPT !.facets = [n \in {name} |-> values]]
  BY DEF MF!FilterByName
<1>2. /\ v4 = "answered" /\ MF!Applicable(name, v2.category)
      /\ UNCHANGED <<v1, v2, v4, v5, v6, v7, v8, v9, v10, v11>>
  BY DEF MF!FilterByName
<1>3. MF!IsPage(v3) /\ v1 \subseteq MFRows /\ name \in ModelNames
  BY <1>2, ModelFilterNames DEF ModelsInv, MF!TypeOK
<1>4. rows \in SUBSET MFRows
  BY <1>3 DEF MF!Where
<1>5. ASSUME NEW o \in values PROVE ModelOption(o) /\ ModelOffered(name, o.value, v2)
  <2>1. MFPageSize \in Nat
    BY ServiceSideAssumption DEF MF!ModelFiltersAssumption
  <2>2. offset \in Nat
    <3>1. CASE number = 1
      BY <2>1, <3>1
    <3>2. CASE number = 2
      BY <2>1, <3>2
    <3> QED BY <3>1, <3>2
  <2> HIDE DEF offset, rows
  <2>3. ModelOption(o) /\ \E r \in rows : MF!Value(r, name) = o.value
    BY <1>4, <2>1, <2>2, ModelFetched
  <2> QED BY <2>3 DEF ModelOffered, rows
<1> DEFINE facets == [n \in {name} |-> values]
<1>6. DOMAIN facets = {name} /\ facets[name] = values
  OBVIOUS
<1> HIDE DEF facets
<1>7. v3'.facets = facets /\ DOMAIN v3' = DOMAIN MF!NoPage
  BY <1>1, <1>3 DEF MF!IsPage, MF!NoPage, facets
<1>8. MF!IsPage(v3')
  BY <1>1, <1>5, <1>6, <1>7, ModelsLibrary DEF MF!IsPage, ModelOption
<1>9. MF!TypeOK'
  BY <1>2, <1>8 DEF ModelsInv, MF!TypeOK
<1>10. \A n \in DOMAIN v3'.facets : \A o \in v3'.facets[n] : ModelOffered(n, o.value, v2)'
  BY <1>2, <1>5, <1>6, <1>7, ModelsHonest
<1> QED BY <1>2, <1>3, <1>6, <1>7, <1>9, <1>10 DEF ModelsInv

\* A failed query.
LEMMA ModelsFail == ModelsInv /\ MF!Fail => ModelsInv'
<1> SUFFICES ASSUME ModelsInv, MF!Fail PROVE ModelsInv'
  OBVIOUS
<1>1. /\ v4' = "answered" /\ v6' = {} /\ v7' = 0 /\ v3'.facets = <<>> /\ DOMAIN v3' = DOMAIN MF!NoPage
      /\ UNCHANGED <<v1, v2, v8, v9, v10, v11>>
  BY DEF MF!Fail, MF!NoPage
<1>2. DOMAIN v3'.facets = {}
  BY <1>1
<1>3. MF!TypeOK'
  BY <1>1, <1>2, ModelsFinite, ModelsLibrary DEF ModelsInv, MF!TypeOK, MF!IsPage
<1> QED BY <1>1, <1>2, <1>3 DEF ModelsInv

\* A value is ticked: the model that it was offered for meets the request it leads to.
LEMMA ModelsChoose ==
  ASSUME NEW name \in DOMAIN v3.facets, NEW option \in v3.facets[name], ModelsInv,
         MF!Choose(name, option)
  PROVE  ModelsInv'
<1> DEFINE old == v2.values
           ticked == {option.value} \cup
                       IF name \in DOMAIN old \ MF!BooleanFilters THEN old[name] ELSE {}
           new == [n \in DOMAIN old \cup {name} |-> IF n # name THEN old[n] ELSE ticked]
<1>1. /\ v4 = "answered" /\ v4' = "chosen" /\ v11' = option.count /\ v9' = v9 + 1 /\ v9 < MFMaxChoices
      /\ v2' = IF name = "categoryName" THEN [v2 EXCEPT !.category = option.value]
               ELSE [v2 EXCEPT !.values = new]
      /\ UNCHANGED <<v1, v3, v5, v6, v7, v8, v10>>
  BY DEF MF!Choose
<1>2. MF!IsRequest(v2) /\ MF!IsPage(v3) /\ v9 \in 0 .. MFMaxChoices /\ name \in ModelNames
      /\ v1 \subseteq MFRows
  BY DEF ModelsInv, MF!TypeOK
<1>3. ModelOption(option) /\ (v10 => ModelOffered(name, option.value, v2))
  BY <1>1, <1>2, ModelsLibrary DEF ModelsInv, MF!IsPage, ModelOption
<1>4. v9' \in 0 .. MFMaxChoices
  BY <1>1, <1>2, ServiceSideAssumption DEF MF!ModelFiltersAssumption
<1>5. /\ ticked # {} /\ option.value \in ticked
      /\ name \in MF!BooleanFilters => Cardinality(ticked) = 1
  <2>1. name \in MF!BooleanFilters => ticked = {option.value}
    OBVIOUS
  <2> QED BY <2>1, FS_Singleton
<1>6. DOMAIN new = DOMAIN old \cup {name} /\ new[name] = ticked
      /\ \A n \in DOMAIN old \ {name} : new[n] = old[n]
  <2> HIDE DEF ticked
  <2> QED OBVIOUS
<1> HIDE DEF ticked, new
<1>7. /\ DOMAIN v2' = DOMAIN v2 /\ v2'.source = v2.source /\ v2'.sort = v2.sort
      /\ v2'.search = v2.search
      /\ v2'.category = (IF name = "categoryName" THEN option.value ELSE v2.category)
      /\ v2'.values = (IF name = "categoryName" THEN old ELSE new)
  BY <1>1, <1>2 DEF MF!IsRequest
<1>8. MF!IsRequest(v2')
  <2>1. CASE name = "categoryName"
    BY <1>2, <1>7, <2>1 DEF MF!IsRequest
  <2>2. CASE name # "categoryName"
    <3>1. \A n \in DOMAIN new : new[n] # {} /\ (n \in MF!BooleanFilters => MF!Cardinality(new[n]) = 1)
      BY <1>2, <1>5, <1>6, ModelsLibrary DEF MF!IsRequest
    <3>2. DOMAIN new \subseteq MF!FilterNames \ {"categoryName"}
      BY <1>2, <1>6, <2>2 DEF MF!IsRequest, ModelNames
    <3> QED BY <1>2, <1>7, <2>2, <3>1, <3>2 DEF MF!IsRequest
  <2> QED BY <2>1, <2>2
<1>9. MF!TypeOK'
  <2>1. v11' \in 0 .. Cardinality(MFRows)
    BY <1>1, <1>3, ModelsFinite DEF ModelOption
  <2> QED BY <1>1, <1>4, <1>8, <2>1, ModelsLibrary DEF ModelsInv, MF!TypeOK
<1>10. ASSUME v10' PROVE (MF!RawWhere(v2) # {})'
  <2>1. PICK r \in MF!Where(v2, {name}) : MF!Value(r, name) = option.value
    BY <1>1, <1>3, <1>10 DEF ModelOffered
  <2>2. /\ r \in v1 /\ v2.search \in r.words \cup {""}
        /\ name = "categoryName" \/ r.category = v2.category
        /\ \A n \in DOMAIN old \ {name} : MF!Value(r, n) \in old[n]
    BY DEF MF!Where
  <2>3. r.category = v2'.category
    <3>1. CASE name = "categoryName"
      <4>1. MF!Value(r, "categoryName") = r.category
        <5>1. "categoryName" \notin DOMAIN r.spec
          BY <1>2, <2>2, ServiceSideAssumption DEF MF!ModelFiltersAssumption
        <5> QED BY <5>1 DEF MF!Value
      <4> QED BY <1>7, <2>1, <3>1, <4>1
    <3>2. CASE name # "categoryName"
      BY <1>7, <2>2, <3>2
    <3> QED BY <3>1, <3>2
  <2> HIDE DEF old
  <2>4. ASSUME NEW n \in DOMAIN v2'.values PROVE MF!Value(r, n) \in v2'.values[n]
    <3>1. CASE n = name
      <4>1. name # "categoryName"
        BY <1>8, <3>1 DEF MF!IsRequest
      <4> QED BY <1>5, <1>6, <1>7, <2>1, <3>1, <4>1
    <3>2. CASE n # name
      BY <1>6, <1>7, <2>2, <3>2
    <3> QED BY <3>1, <3>2
  <2>5. v2'.search = "" \/ v2'.search \in r.words
    BY <1>7, <2>2
  <2>6. r \in MF!RawWhere(v2)'
    BY <1>1, <2>2, <2>3, <2>4, <2>5 DEF MF!RawWhere
  <2> QED BY <2>6
<1> QED BY <1>1, <1>9, <1>10 DEF ModelsInv

\* The list is asked for: both of its queries are to be answered.
LEMMA ModelsAskList == ModelsInv /\ MF!AskList => ModelsInv'
<1> SUFFICES ASSUME ModelsInv, MF!AskList PROVE ModelsInv'
  OBVIOUS
<1>1. /\ (v4 = "answered" /\ v4' = "listing") \/ (v4 = "chosen" /\ v4' = "landing")
      /\ v5' = <<"list", "count">> /\ v6' = {} /\ v7' = 0
      /\ UNCHANGED <<v1, v2, v3, v8, v9, v10, v11>>
  BY DEF MF!AskList
<1>2. MF!TypeOK'
  BY <1>1, ModelsFinite, ModelsLibrary DEF ModelsInv, MF!TypeOK
<1>3. v5' # <<"list">> /\ v5' # <<"count">>
  BY <1>1
<1>4. v10' /\ v4' = "landing" => MF!RawWhere(v2)' # {}
  BY <1>1 DEF ModelsInv, MF!RawWhere
<1> QED BY <1>1, <1>2, <1>3, <1>4 DEF ModelsInv

\* A piece of one element is that element.
LEMMA PieceOfOne ==
  ASSUME NEW S, NEW s \in Seq(S), NEW k \in 1 .. Len(s)
  PROVE  SubSeq(s, k, k) = <<s[k]>>
<1>1. k \in Int /\ k + 1 \in Int /\ k < k + 1 /\ k \in k .. Len(s)
  OBVIOUS
<1>2. SubSeq(s, k, k) = <<s[k]>> \o SubSeq(s, k + 1, k)
  BY <1>1, SubSeqRecursiveFirst
<1>3. SubSeq(s, k + 1, k) = <<>>
  BY <1>1, SubSeqEmpty
<1>4. <<s[k]>> \in Seq(S)
  BY ElementOfSeq
<1>5. <<s[k]>> \o <<>> = <<s[k]>>
  BY <1>4, ConcatEmptySeq
<1> QED BY <1>2, <1>3, <1>5, Zenon

\* Of two queries the other one is left.
LEMMA OneIsLeft ==
  ASSUME NEW query \in {"list", "count"}, MF!Answered(query),
         v5 \in {<<"list", "count">>, <<"list">>, <<"count">>}
  PROVE  \/ v5 = <<"list", "count">> /\ v5' = <<IF query = "list" THEN "count" ELSE "list">>
         \/ v5 = <<query>> /\ v5' = <<>>
<1>1. PICK i \in DOMAIN v5 : v5[i] = query /\ v5' = MF!RemoveAt(v5, i)
  BY DEF MF!Answered
<1>2. v5' = SubSeq(v5, 1, i - 1) \o SubSeq(v5, i + 1, Len(v5))
  BY <1>1 DEF MF!RemoveAt
<1>3. CASE v5 = <<"list", "count">>
  <2>1. \/ i = 1 /\ query = "list"
        \/ i = 2 /\ query = "count"
    BY <1>1, <1>3
  <2>2. SubSeq(v5, 1, 0) = <<>> /\ SubSeq(v5, 3, 2) = <<>>
    BY <1>3
  <2>3. \A k \in {1, 2} : SubSeq(v5, k, k) = <<v5[k]>>
    <3>1. v5 \in Seq({"list", "count"}) /\ \A k \in {1, 2} : k \in 1 .. Len(v5)
      BY <1>3
    <3> QED BY <3>1, PieceOfOne
  <2>4. v5[1] = "list" /\ v5[2] = "count" /\ Len(v5) = 2
    BY <1>3
  <2>5. CASE i = 1 /\ query = "list"
    <3>1. SubSeq(v5, i + 1, Len(v5)) = <<"count">> /\ SubSeq(v5, 1, i - 1) = <<>>
      BY <2>2, <2>3, <2>4, <2>5
    <3>2. v5' = <<"count">>
      <4>1. <<"count">> \in Seq({"list", "count"})
        OBVIOUS
      <4> QED BY <1>2, <3>1, <4>1, ConcatEmptySeq
    <3> QED BY <1>3, <2>5, <3>2
  <2>6. CASE i = 2 /\ query = "count"
    <3>1. SubSeq(v5, i + 1, Len(v5)) = <<>> /\ SubSeq(v5, 1, i - 1) = <<"list">>
      BY <2>2, <2>3, <2>4, <2>6
    <3>2. v5' = <<"list">>
      <4>1. <<"list">> \in Seq({"list", "count"})
        OBVIOUS
      <4> QED BY <1>2, <3>1, <4>1, ConcatEmptySeq
    <3> QED BY <1>3, <2>6, <3>2
  <2> QED BY <2>1, <2>5, <2>6
<1>4. ASSUME NEW x \in {"list", "count"}, v5 = <<x>> PROVE v5 = <<query>> /\ v5' = <<>>
  <2>1. i = 1 /\ query = x
    BY <1>1, <1>4
  <2>2. SubSeq(v5, 1, 0) = <<>> /\ SubSeq(v5, 2, 1) = <<>>
    BY <1>4
  <2> QED BY <1>2, <1>4, <2>1, <2>2
<1> QED BY <1>3, <1>4

\* One variant of each name and brand is in the list, and the list of all is counted.
LEMMA ModelsAnswered ==
  ASSUME ModelsInv, MF!ReadList \/ MF!CountList
  PROVE  ModelsInv'
<1> DEFINE query == IF MF!ReadList THEN "list" ELSE "count"
           found == MF!RawWhere(v2)
<1>1. /\ MF!Answered(query) /\ v4 \in {"listing", "landing"}
      /\ v4' = (IF v5' # <<>> THEN v4 ELSE IF v4 = "listing" THEN "listed" ELSE "landed")
      /\ UNCHANGED <<v1, v2, v3, v8, v9, v10, v11>>
  <2>1. MF!Answered(query)
    BY DEF MF!ReadList, MF!CountList
  <2>2. v4' = IF v5' # <<>> THEN v4 ELSE IF v4 = "listing" THEN "listed" ELSE "landed"
    BY <2>1 DEF MF!Answered
  <2> HIDE DEF query
  <2> QED BY <2>1, <2>2, Zenon DEF MF!Answered
<1>2. /\ query = "list" => v7' = v7 /\ \E first \in MF!FirstVariants(found) :
                                         v6' = {r \in first : r.pictured}
      /\ query = "count" => v6' = v6 /\ v7' = MF!Cardinality(MF!Groups(found))
  BY DEF MF!ReadList, MF!CountList
<1>3. query \in {"list", "count"}
  OBVIOUS
<1> HIDE DEF query
<1>4. \/ v5 = <<"list", "count">> /\ v5' = <<IF query = "list" THEN "count" ELSE "list">>
      \/ v5 = <<query>> /\ v5' = <<>>
  BY <1>1, <1>3, OneIsLeft DEF ModelsInv
<1>5. found' = found /\ found \in SUBSET MFRows
  BY <1>1 DEF MF!RawWhere, ModelsInv, MF!TypeOK
<1> HIDE DEF found
<1>6. MF!TypeOK'
  <2>1. v6' \subseteq MFRows
    BY <1>2, <1>3, <1>5 DEF MF!FirstVariants, ModelsInv, MF!TypeOK
  <2>2. v7' \in 0 .. MF!Cardinality(MFRows)
    BY <1>2, <1>3, <1>5, GroupsCounted, ModelsLibrary DEF ModelsInv, MF!TypeOK
  <2> QED BY <1>1, <2>1, <2>2 DEF ModelsInv, MF!TypeOK
<1>7. v4' \in {"listing", "landing"} => v5' \in {<<"list", "count">>, <<"list">>, <<"count">>}
  BY <1>1, <1>3, <1>4
<1>8. v10' /\ (v4' \in {"listed", "landed"} \/ (v4' \in {"listing", "landing"} /\ v5' = <<"count">>)) =>
        \E first \in MF!FirstVariants(found) : v6' = {r \in first : r.pictured}
  <2>1. CASE query = "list"
    BY <1>2, <2>1
  <2>2. CASE query = "count"
    <3>1. \/ (v5 = <<"list", "count">> /\ v5' = <<"list">> /\ v4' = v4)
          \/ v5 = <<"count">>
      BY <1>1, <1>4, <2>2
    <3>2. v6' = v6
      BY <1>2, <2>2
    <3> QED BY <1>1, <3>1, <3>2 DEF ModelsInv, found
  <2> QED BY <1>3, <2>1, <2>2
<1>9. v10' /\ (v4' \in {"listed", "landed"} \/ (v4' \in {"listing", "landing"} /\ v5' = <<"list">>)) =>
        v7' = MF!Cardinality(MF!Groups(found))
  <2>1. CASE query = "count"
    BY <1>2, <2>1
  <2>2. CASE query = "list"
    <3>1. \/ (v5 = <<"list", "count">> /\ v5' = <<"count">> /\ v4' = v4)
          \/ v5 = <<"list">>
      BY <1>1, <1>4, <2>2
    <3>2. v7' = v7
      BY <1>2, <2>2
    <3> QED BY <1>1, <3>1, <3>2 DEF ModelsInv, found
  <2> QED BY <1>3, <2>1, <2>2
<1>10. v10' /\ v4' \in {"chosen", "landing", "landed"} => found # {}
  BY <1>1 DEF ModelsInv, found
<1>11. MF!RawWhere(v2)' = found
  BY <1>5 DEF found
<1>12. DOMAIN v3'.facets \subseteq ModelNames /\ v4' \notin {"asked", "answered"}
  BY <1>1 DEF ModelsInv
<1> QED
  <2>1. MF!FirstVariants(found) = MF!FirstVariants(MF!RawWhere(v2)')
        /\ MF!Groups(found) = MF!Groups(MF!RawWhere(v2)')
    BY <1>11
  <2> QED BY <1>6, <1>7, <1>8, <1>9, <1>10, <1>11, <1>12 DEF ModelsInv

\* Back to the panel.
LEMMA ModelsReturn == ModelsInv /\ MF!Return => ModelsInv'
<1> SUFFICES ASSUME ModelsInv, MF!Return PROVE ModelsInv'
  OBVIOUS
<1>1. /\ v4' = "browsing" /\ v6' = {} /\ v7' = 0 /\ v11' = 0 /\ v3' = MF!NoPage
      /\ UNCHANGED <<v1, v2, v5, v8, v9, v10>>
  BY DEF MF!Return
<1>2. DOMAIN v3'.facets = {}
  BY <1>1 DEF MF!NoPage
<1>3. MF!TypeOK'
  BY <1>1, <1>2, ModelsFinite, ModelsLibrary DEF ModelsInv, MF!TypeOK, MF!IsPage
<1> QED BY <1>1, <1>2, <1>3 DEF ModelsInv

\* Every step of the composition keeps the invariant of the models.
LEMMA ModelsInvStep == ModelsPart /\ [ServicesNext]_allVars => ModelsPart'
<1> SUFFICES ASSUME ModelsPart, [ServicesNext]_allVars, part' = "models" PROVE ModelsInv'
  BY DEF ModelsPart
<1>1. CASE ModelsStep
  <2>1. ModelsInv /\ MF!Next
    BY <1>1 DEF ModelsStep, ModelsPart
  <2> QED BY <2>1, ModelsMove, ModelsAsked, ModelsRead, ModelsFail, ModelsByName, ModelsChoose,
             ModelsAskList, ModelsAnswered, ModelsReturn DEF MF!Next
<1>2. CASE UNCHANGED allVars
  <2>1. UNCHANGED <<part, v1, v2, v3, v4, v5, v6, v7, v8, v9, v10, v11>>
    BY <1>2 DEF allVars, slots, after4
  <2>2. ModelsInv
    BY <2>1 DEF ModelsPart
  <2>3. MF!TypeOK' /\ MF!RawWhere(v2)' = MF!RawWhere(v2)
    BY <2>1, <2>2 DEF ModelsInv, MF!TypeOK, MF!RawWhere
  <2>4. (v10 /\ v4 \in {"asked", "answered"} =>
          \A name \in DOMAIN v3.facets : \A o \in v3.facets[name] : ModelOffered(name, o.value, v2))'
    BY <2>1, <2>2, ModelsHonest DEF ModelsInv
  <2>5. \A S : MF!FirstVariants(S)' = MF!FirstVariants(S)
    OBVIOUS
  <2> QED BY <2>1, <2>2, <2>3, <2>4 DEF ModelsInv
<1>3. CASE ServicesNext /\ ~ModelsStep
  BY <1>3
     DEF ServicesNext, PaymentsStep, PhonesStep, UsersStep, FiltersStep, PicksStep, SearchStep
<1> QED BY <1>1, <1>2, <1>3

\* What the list says is what it shows, and it shows some after a value was ticked.
LEMMA ModelsCounted == ModelsInv => MF!TotalCountsTheList /\ MF!NoDeadEnd
<1> SUFFICES ASSUME ModelsInv, v4 \in {"listed", "landed"}, v10, MF!Pictured
             PROVE  /\ MF!Reported = MF!Cardinality(MF!Groups(v6))
                    /\ v4 = "landed" => v6 # {}
  BY DEF MF!TotalCountsTheList, MF!NoDeadEnd
<1> DEFINE found == MF!RawWhere(v2)
<1>1. PICK first \in MF!FirstVariants(found) : v6 = {r \in first : r.pictured}
  BY DEF ModelsInv
<1>2. v7 = MF!Cardinality(MF!Groups(found)) /\ (v4 = "landed" => found # {})
  BY DEF ModelsInv
<1>3. found \subseteq v1
  BY DEF MF!RawWhere
<1> HIDE DEF found
<1>4. first \subseteq found /\ MF!Groups(first) = MF!Groups(found)
  BY DEF MF!FirstVariants
<1>5. v6 = first
  BY <1>1, <1>3, <1>4 DEF MF!Pictured
<1>6. v6 = {} => MF!Groups(v6) = {} /\ found = {}
  BY <1>4, <1>5 DEF MF!Groups
<1> QED BY <1>2, <1>4, <1>5, <1>6, ModelsLibrary, FS_EmptySet DEF MF!Reported

\* While nothing moves in the meantime, the number that the listings' page and the models' page show
\* is the number of entries there are, for any catalogue, any filters and any page size.
THEOREM TotalsCount == Services => []TotalCountsTheList
<1>1. FiltersPart /\ ModelsPart => TotalCountsTheList
  <2>1. FiltersInv => LF!TotalCountsTheList
    <3> SUFFICES ASSUME FiltersInv, v5 = "listed", v10, LF!ReadAlike(v3)
                 PROVE  v4.total = LF!Cardinality(v7)
      BY DEF LF!TotalCountsTheList
    <3>1. v4.total = LF!FilteredListingsCount(v3) /\ v7 = LF!Listed(v3) /\ LF!TypeOK
      BY DEF FiltersInv
    <3>2. LF!FilteredListingsCount(v3) = Cardinality(LF!Listed(v3))
      BY <3>1, ListedCounted
    <3> QED BY <3>1, <3>2, FiltersLibrary
  <2>2. ModelsInv => MF!TotalCountsTheList
    BY ModelsCounted
  <2> QED BY <2>1, <2>2 DEF FiltersPart, ModelsPart, TotalCountsTheList
<1> QED BY FiltersInvInit, FiltersInvStep, ModelsInvInit, ModelsInvStep, <1>1, PTL DEF Services

\* While nothing moves in the meantime, no value that the panel of the listings or of the models
\* offers leads to an empty list when it is ticked.
THEOREM NoEmptyTick == Services => []NoDeadEnd
<1>1. FiltersPart /\ ModelsPart => NoDeadEnd
  BY ModelsCounted DEF FiltersPart, ModelsPart, FiltersInv, NoDeadEnd, LF!NoDeadEnd
<1> QED BY FiltersInvInit, FiltersInvStep, ModelsInvInit, ModelsInvStep, <1>1, PTL DEF Services

-----------------------------------------------------------------------------
(* Picks *)

Pick == [row: LPRows, turn: 0 .. 3]
RandomKinds == {"optimized", "fallback", "featured"}
CountedKinds == RandomKinds \cup {"mostViewed", "discounted"}
Distinct(s) == \A i, j \in DOMAIN s : i # j => s[i] # s[j]
\* What a turn has found, no later turn finds.
Anew(s) == \A i, j \in DOMAIN s : s[i].turn < s[j].turn => s[i].row # s[j].row

\* What is shown was found by the turns so far, as many as were asked for at most; a pick of one turn
\* gets no more than it has offsets for.
PicksInv ==
  /\ LP!TypeOK
  /\ v8 \in Seq(Pick) /\ v7 \in Seq(LPRows) /\ v6 \in SUBSET Nat /\ IsFiniteSet(v6)
  /\ DOMAIN v3 = {"kind", "count", "place", "ids", "of", "filters"}
  /\ v3.kind # "related" => v3.count \in Nat
  /\ v4 = "asked" => v3.ids \in Seq(Int)
  /\ v4 \in {"asked", "anyPlace", "within20", "within30"} => v5 = 0 /\ v8 = <<>>
  /\ v4 \in {"count", "reads"} =>
       /\ v5 \in 0 .. 2 /\ v3.kind \in RandomKinds /\ (v3.kind = "optimized" => v8 = <<>>)
       /\ \A i \in DOMAIN v8 : v8[i].turn <= v5
  /\ v4 = "elsewhere" => v3.kind = "discounted" /\ \A i \in DOMAIN v8 : v8[i].turn <= 0
  /\ v4 \in {"within20", "within30"} => v3.kind = "related"
  /\ v4 = "reads" /\ v3.kind = "optimized" => Len(v7) + Cardinality(v6) <= v3.count
  /\ Anew(v8)
  /\ v3.kind \in CountedKinds => Len(v8) <= v3.count
  /\ v10 /\ v4 \in {"within20", "within30"} => v3.count = v2[v3.of]
  /\ v10 /\ v3.kind = "related" => v3.of \notin LP!Shown

PicksPart == part = "picks" => PicksInv

\* The operators that the instance brings with it are the library's, and the rows are finitely many.
LEMMA PicksLibrary ==
  /\ \A S : LP!Cardinality(S) = Cardinality(S)
  /\ \A S \in SUBSET LPRows : IsFiniteSet(S)
<1>1. \A S : LP!Cardinality(S) = Cardinality(S)
  BY DEF LP!Cardinality, Cardinality
<1>2. \A S : LP!IsFiniteSet(S) <=> IsFiniteSet(S)
  BY DEF LP!IsFiniteSet, IsFiniteSet
<1>3. IsFiniteSet(LPRows)
  BY <1>2, ServiceSideAssumption DEF LP!ListingPicksAssumption
<1> QED BY <1>1, <1>3, FS_Subset

\* Every element stands at one place of an order.
LEMMA InOrderPlaces ==
  ASSUME NEW S, IsFiniteSet(S), NEW before \in SUBSET (S \X S),
         \A x \in S : <<x, x>> \notin before,
         \A x, y \in S : x # y => <<x, y>> \in before \/ <<y, x>> \in before,
         \A x, y, z \in S : <<x, y>> \in before /\ <<y, z>> \in before => <<x, z>> \in before
  PROVE  /\ LP!InOrder(S, before) \in Seq(S)
         /\ Distinct(LP!InOrder(S, before))
         /\ Len(LP!InOrder(S, before)) = Cardinality(S)
<1> DEFINE n == LP!Cardinality(S)
           s == LP!InOrder(S, before)
           Place(i, y) == LP!Cardinality({x \in S : <<x, y>> \in before}) = i - 1
<1>1. n \in Nat
  BY FS_CardinalityType, PicksLibrary
<1>2. s = [i \in 1 .. n |-> CHOOSE y \in S : Place(i, y)]
  BY DEF LP!InOrder
<1>3. \A i \in 1 .. n : \E y \in S : Place(i, y)
  <2> SUFFICES ASSUME NEW i \in 1 .. n PROVE \E y \in S : Place(i, y)
    OBVIOUS
  <2>1. i \in 1 .. Cardinality(S)
    BY PicksLibrary
  <2>2. PICK y \in S : Cardinality({x \in S : <<x, y>> \in before}) = i - 1
    BY <2>1, EveryPlaceTaken
  <2> QED BY <2>2, PicksLibrary
<1> HIDE DEF s, n
<1>4. \A i \in 1 .. n : s[i] \in S /\ Place(i, s[i])
  <2> HIDE DEF Place
  <2> QED BY <1>2, <1>3
<1>5. s \in [1 .. n -> S]
  BY <1>2, <1>4
<1>6. ASSUME NEW i \in 1 .. n, NEW j \in 1 .. n, s[i] = s[j] PROVE i = j
  <2>1. LP!Cardinality({x \in S : <<x, s[i]>> \in before}) = i - 1
    BY <1>4
  <2>2. LP!Cardinality({x \in S : <<x, s[i]>> \in before}) = j - 1
    BY <1>4, <1>6
  <2>3. i - 1 = j - 1
    BY <2>1, <2>2
  <2> QED BY <1>1, <2>3
<1>7. s \in Seq(S) /\ DOMAIN s = 1 .. n /\ Len(s) = n
  BY <1>1, <1>5
<1> QED BY <1>6, <1>7, PicksLibrary DEF Distinct, s, n

\* Rows, and bookings, in the order of their identifiers.
LEMMA InOrderOfIds ==
  ASSUME NEW S, IsFiniteSet(S), \A x \in S : x.id \in Int, \A x, y \in S : x.id = y.id => x = y
  PROVE  LP!ById(S) \in Seq(S) /\ Distinct(LP!ById(S))
<1> DEFINE before == {p \in S \X S : p[1].id < p[2].id}
<1>1. before \in SUBSET (S \X S) /\ \A x, y \in S : <<x, y>> \in before <=> x.id < y.id
  OBVIOUS
<1>2. LP!ById(S) = LP!InOrder(S, before)
  BY DEF LP!ById
<1> HIDE DEF before
<1>3. /\ \A x \in S : <<x, x>> \notin before
      /\ \A x, y \in S : x # y => <<x, y>> \in before \/ <<y, x>> \in before
      /\ \A x, y, z \in S : <<x, y>> \in before /\ <<y, z>> \in before => <<x, z>> \in before
  BY <1>1
<1> QED BY <1>1, <1>2, <1>3, InOrderPlaces

\* What stands at some places of a sequence, in their order.
LEMMA KeptStand ==
  ASSUME NEW S, NEW s \in Seq(S), NEW P \in SUBSET DOMAIN s
  PROVE  /\ LP!Kept(s, P) \in Seq(S)
         /\ Len(LP!Kept(s, P)) <= Len(s)
         /\ \A k \in DOMAIN LP!Kept(s, P) : \E p \in P : LP!Kept(s, P)[k] = s[p]
         /\ \A k, l \in DOMAIN LP!Kept(s, P) : k # l =>
              \E p, q \in P : p # q /\ LP!Kept(s, P)[k] = s[p] /\ LP!Kept(s, P)[l] = s[q]
<1> DEFINE before == {p \in P \X P : p[1] < p[2]}
           order == LP!InOrder(P, before)
           kept == LP!Kept(s, P)
<1>1. before \in SUBSET (P \X P) /\ \A x, y \in P : <<x, y>> \in before <=> x < y
  OBVIOUS
<1>2. kept = [k \in DOMAIN order |-> s[order[k]]]
  BY DEF LP!Kept
<1> HIDE DEF before, kept
<1>3. DOMAIN s = 1 .. Len(s) /\ Len(s) \in Nat
  OBVIOUS
<1>4. IsFiniteSet(P) /\ Cardinality(P) <= Len(s)
  <2>1. IsFiniteSet(1 .. Len(s)) /\ Cardinality(1 .. Len(s)) = Len(s)
    <3>1. Cardinality(1 .. Len(s)) = IF 1 > Len(s) THEN 0 ELSE Len(s) - 1 + 1
      BY <1>3, FS_Interval, 1 \in Int, Len(s) \in Int, Zenon
    <3>2. IsFiniteSet(1 .. Len(s))
      BY <1>3, FS_Interval, 1 \in Int, Len(s) \in Int, Zenon
    <3> QED BY <1>3, <3>1, <3>2
  <2> QED BY <1>3, <2>1, FS_Subset
<1>5. order \in Seq(P) /\ Distinct(order) /\ Len(order) <= Len(s)
  <2>1. \A x \in P : x \in Int
    BY <1>3
  <2>2. /\ \A x \in P : <<x, x>> \notin before
        /\ \A x, y \in P : x # y => <<x, y>> \in before \/ <<y, x>> \in before
        /\ \A x, y, z \in P : <<x, y>> \in before /\ <<y, z>> \in before => <<x, z>> \in before
    BY <1>1, <2>1
  <2> QED BY <1>1, <1>4, <2>2, InOrderPlaces
<1> HIDE DEF order
<1>6. DOMAIN order = 1 .. Len(order) /\ Len(order) \in Nat /\ \A k \in DOMAIN order : order[k] \in P
  BY <1>5
<1>7. DOMAIN kept = 1 .. Len(order) /\ \A k \in DOMAIN kept : kept[k] = s[order[k]] /\ kept[k] \in S
  BY <1>2, <1>3, <1>6
<1>8. kept \in Seq(S) /\ Len(kept) <= Len(s)
  <2>1. kept \in [1 .. Len(order) -> S]
    BY <1>2, <1>6, <1>7
  <2>2. kept \in Seq(S) /\ Len(kept) = Len(order)
    BY <1>6, <2>1
  <2> QED BY <1>5, <2>2
<1>9. \A k \in DOMAIN kept : \E p \in P : kept[k] = s[p]
  BY <1>6, <1>7
<1>10. ASSUME NEW k \in DOMAIN kept, NEW l \in DOMAIN kept, k # l
       PROVE  \E p, q \in P : p # q /\ kept[k] = s[p] /\ kept[l] = s[q]
  <2>1. order[k] # order[l] /\ order[k] \in P /\ order[l] \in P
    BY <1>5, <1>6, <1>7, <1>10 DEF Distinct
  <2> QED BY <1>7, <2>1
<1> QED BY <1>8, <1>9, <1>10 DEF kept

\* The beginning of a sequence.
LEMMA FirstOf ==
  ASSUME NEW S, NEW s \in Seq(S), NEW n \in Int
  PROVE  /\ LP!First(s, n) \in Seq(S)
         /\ n >= 0 => Len(LP!First(s, n)) <= n
         /\ \A k \in DOMAIN LP!First(s, n) : k \in DOMAIN s /\ LP!First(s, n)[k] = s[k]
<1> DEFINE l == Len(s)
           m == LP!Min({n, l})
<1>1. l \in Nat /\ DOMAIN s = 1 .. l /\ \A k \in 1 .. l : s[k] \in S
  OBVIOUS
<1>2. m \in Int /\ m <= l /\ m <= n
  <2> HIDE DEF l
  <2>1. LP!Min({n, l}) = CHOOSE x \in {n, l} : \A y \in {n, l} : x <= y
    BY DEF LP!Min
  <2>2. \E x \in {n, l} : \A y \in {n, l} : x <= y
    BY <1>1
  <2>3. LP!Min({n, l}) \in {n, l} /\ LP!Min({n, l}) <= l /\ LP!Min({n, l}) <= n
    BY <2>1, <2>2
  <2> QED BY <1>1, <2>3
<1>3. LP!First(s, n) = SubSeq(s, 1, m)
  BY DEF LP!First
<1> HIDE DEF l, m
<1> DEFINE w == SubSeq(s, 1, m)
<1>4. /\ w \in Seq(S) /\ Len(w) = (IF 1 <= m THEN m - 1 + 1 ELSE 0)
      /\ \A k \in 1 .. m - 1 + 1 : w[k] = s[1 + k - 1]
  BY <1>1, <1>2, SubSeqProperties
<1> HIDE DEF w
<1>5. \A k \in DOMAIN w : k \in 1 .. m /\ w[k] = s[k]
  BY <1>2, <1>4
<1>6. n >= 0 => Len(w) <= n
  BY <1>2, <1>4
<1> QED BY <1>1, <1>2, <1>3, <1>4, <1>5, <1>6 DEF w

\* What is shown, with the turn that found it.
LEMMA PicksOfRows ==
  ASSUME NEW rows \in Seq(LPRows), NEW t \in 0 .. 3
  PROVE  /\ LP!AsPicks(rows, t) \in Seq(Pick)
         /\ Len(LP!AsPicks(rows, t)) = Len(rows)
         /\ \A i \in DOMAIN rows : LP!AsPicks(rows, t)[i] = [row |-> rows[i], turn |-> t]
<1> DEFINE s == LP!AsPicks(rows, t)
<1>1. s = [i \in 1 .. Len(rows) |-> [row |-> rows[i], turn |-> t]]
  BY DEF LP!AsPicks
<1>2. \A i \in 1 .. Len(rows) : [row |-> rows[i], turn |-> t] \in Pick
  BY DEF Pick
<1> HIDE DEF s
<1>3. s \in [1 .. Len(rows) -> Pick] /\ Len(rows) \in Nat
  BY <1>1, <1>2
<1>4. s \in Seq(Pick) /\ Len(s) = Len(rows)
  BY <1>3
<1> QED BY <1>1, <1>4 DEF s

\* The rows with the largest keys.
LEMMA TopRows ==
  ASSUME NEW S \in SUBSET LPRows, NEW key, \A r \in S : key[r] \in Int, NEW n \in Int
  PROVE  LP!Top(S, key, n) \in Seq(LPRows) /\ (n >= 0 => Len(LP!Top(S, key, n)) <= n)
<1> DEFINE Before(a, b) == key[a] > key[b] \/ (key[a] = key[b] /\ a.id < b.id)
           before == {p \in S \X S : Before(p[1], p[2])}
<1>1. LP!Top(S, key, n) = LP!First(LP!InOrder(S, before), n)
  BY DEF LP!Top
<1>2. before \in SUBSET (S \X S) /\ \A x, y \in S : <<x, y>> \in before <=> Before(x, y)
  OBVIOUS
<1> HIDE DEF before
<1>3. (\A x \in S : x.id \in Int) /\ (\A x, y \in S : x.id = y.id => x = y)
  BY ServiceSideAssumption DEF LP!ListingPicksAssumption
<1>4. /\ \A x \in S : ~Before(x, x)
      /\ \A x, y \in S : x # y => Before(x, y) \/ Before(y, x)
      /\ \A x, y, z \in S : Before(x, y) /\ Before(y, z) => Before(x, z)
  BY <1>3
<1> HIDE DEF Before
<1>5. LP!InOrder(S, before) \in Seq(S)
  <2>1. /\ \A x \in S : <<x, x>> \notin before
        /\ \A x, y \in S : x # y => <<x, y>> \in before \/ <<y, x>> \in before
        /\ \A x, y, z \in S : <<x, y>> \in before /\ <<y, z>> \in before => <<x, z>> \in before
    BY <1>2, <1>4
  <2> QED BY <1>2, <2>1, PicksLibrary, InOrderPlaces
<1>6. LP!InOrder(S, before) \in Seq(LPRows)
  <2> DEFINE m == LP!InOrder(S, before)
  <2> HIDE DEF m
  <2>1. m \in Seq(S) => m \in Seq(LPRows)
    OBVIOUS
  <2> QED BY <1>5, <2>1 DEF m
<1> QED BY <1>1, <1>6, FirstOf

\* The answer of one query is of one turn.
LEMMA OneTurn ==
  ASSUME NEW rows \in Seq(LPRows), NEW t \in 0 .. 3
  PROVE  LET s == LP!AsPicks(rows, t)
         IN  /\ s \in Seq(Pick) /\ Len(s) = Len(rows) /\ Anew(s)
             /\ \A i \in DOMAIN s : /\ i \in DOMAIN rows /\ s[i].row = rows[i]
                                   /\ s[i].row \in LPRows /\ s[i].turn = t
<1> DEFINE s == LP!AsPicks(rows, t)
<1>1. /\ s \in Seq(Pick) /\ Len(s) = Len(rows)
      /\ \A i \in DOMAIN rows : s[i] = [row |-> rows[i], turn |-> t]
  BY PicksOfRows
<1> HIDE DEF s
<1>2. DOMAIN s = DOMAIN rows /\ \A i \in DOMAIN rows : rows[i] \in LPRows
  BY <1>1
<1>3. \A i \in DOMAIN s : s[i].row = rows[i] /\ s[i].turn = t
  BY <1>1, <1>2
<1>4. Anew(s)
  BY <1>3 DEF Anew
<1> QED BY <1>1, <1>2, <1>3, <1>4 DEF s

\* The same of an answer to what is no fallback.
LEMMA AnswerAtOnce ==
  ASSUME NEW rows \in Seq(LPRows), v8' = LP!AsPicks(rows, 0)
  PROVE  /\ v8' \in Seq(Pick) /\ Len(v8') = Len(rows) /\ Anew(v8')
         /\ \A i \in DOMAIN v8' : /\ i \in DOMAIN rows /\ v8'[i].row = rows[i]
                                 /\ v8'[i].row \in LPRows /\ v8'[i].turn <= 0
<1>1. 0 \in 0 .. 3 /\ (\A t : t = 0 => t <= 0)
  OBVIOUS
<1>2. v8' \in Seq(Pick) /\ Len(v8') = Len(rows) /\ Anew(v8')
      /\ \A i \in DOMAIN v8' : /\ i \in DOMAIN rows /\ v8'[i].row = rows[i]
                               /\ v8'[i].row \in LPRows /\ v8'[i].turn = 0
  BY <1>1, OneTurn, Zenon
<1> QED BY <1>1, <1>2, Zenon

\* Nothing is shown before a request is answered.
LEMMA PicksInvInit == ServicesInit => PicksPart
<1> SUFFICES ASSUME LP!Init PROVE PicksInv
  BY DEF ServicesInit, PicksPart
<1>1. v8 = <<>> /\ v7 = <<>> /\ v6 = {} /\ v5 = 0 /\ v4 = "asked" /\ v10 = TRUE /\ v9 = 0
  BY DEF LP!Init
<1>2. LP!IsRequest(v3)
  BY ServiceSideAssumption DEF LP!Init, LP!ListingPicksAssumption
<1>3. LP!TypeOK
  BY <1>1, ServiceSideAssumption DEF LP!TypeOK, LP!Init, LP!ListingPicksAssumption
<1>4. Anew(v8) /\ LP!Shown = {} /\ Len(v8) = 0
  BY <1>1 DEF Anew, LP!Shown
<1>5. v8 \in Seq(Pick) /\ v7 \in Seq(LPRows) /\ v6 \in SUBSET Nat /\ IsFiniteSet(v6)
  BY <1>1, FS_EmptySet
<1>6. v3.kind \in CountedKinds => Len(v8) <= v3.count
  BY <1>2, <1>4 DEF LP!IsRequest
<1> QED BY <1>1, <1>2, <1>3, <1>4, <1>5, <1>6 DEF PicksInv, LP!IsRequest

\* When the catalogue has moved nothing more is said.
LEMMA PicksMove == PicksInv /\ LP!Move => PicksInv'
<1> SUFFICES ASSUME PicksInv, LP!Move PROVE PicksInv'
  OBVIOUS
<1>1. v9' \in 0 .. LPMaxMoves /\ v10' = FALSE /\ UNCHANGED <<v3, v4, v5, v6, v7, v8>>
  BY ServiceSideAssumption DEF LP!Move, PicksInv, LP!TypeOK, LP!ListingPicksAssumption
<1>2. v1' \subseteq LPRows
  BY DEF LP!Move, PicksInv, LP!TypeOK
<1>3. LP!TypeOK'
  BY <1>1, <1>2 DEF PicksInv, LP!TypeOK
<1> QED BY <1>1, <1>3 DEF PicksInv

\* A random pick begins with nothing.
LEMMA PicksAskRandom == PicksInv /\ LP!AskRandom => PicksInv'
<1> SUFFICES ASSUME PicksInv, LP!AskRandom PROVE PicksInv'
  OBVIOUS
<1>1. /\ v4 = "asked" /\ v4' = "count" /\ v3.kind = "random"
      /\ v3' = [v3 EXCEPT !.kind = LP!Strategy(v3)]
      /\ UNCHANGED <<v1, v2, v5, v6, v7, v8, v9, v10>>
  BY DEF LP!AskRandom
<1>2. LP!Strategy(v3) \in {"optimized", "fallback"}
  BY DEF LP!Strategy
<1>3. /\ v3'.kind \in {"optimized", "fallback"} /\ v3'.count = v3.count
      /\ DOMAIN v3' = {"kind", "count", "place", "ids", "of", "filters"}
  <2> DEFINE kind == LP!Strategy(v3)
  <2> HIDE DEF kind
  <2>1. v3' = [v3 EXCEPT !.kind = kind] /\ kind \in {"optimized", "fallback"}
    BY <1>1, <1>2 DEF kind
  <2> QED BY <2>1 DEF PicksInv
<1>4. LP!TypeOK'
  BY <1>1 DEF PicksInv, LP!TypeOK
<1>5. v8 = <<>> /\ v5 = 0 /\ v3.count \in Nat /\ Len(v8) = 0
  BY <1>1 DEF PicksInv
<1> QED BY <1>1, <1>3, <1>4, <1>5 DEF PicksInv, RandomKinds

\* The bookings come before any turn.
LEMMA PicksReadFeatured == PicksInv /\ LP!ReadFeatured => PicksInv'
<1> SUFFICES ASSUME PicksInv, LP!ReadFeatured PROVE PicksInv'
  OBVIOUS
<1> DEFINE place == IF v4 = "asked" THEN v3.place ELSE None
<1>1. /\ v4 \in {"asked", "anyPlace"} /\ v3.kind = "featured"
      /\ UNCHANGED <<v1, v2, v3, v5, v6, v7, v9, v10>>
  BY DEF LP!ReadFeatured
<1>2. PICK fails \in LPFails :
        LET booked == IF fails THEN <<>> ELSE LP!FeaturedBookings(place, v3.count)
        IN \/ v4' = "anyPlace" /\ v8' = v8
           \/ /\ v8' = LP!AsPicks([i \in DOMAIN booked |-> booked[i].row], 0)
              /\ v4' \in {"count", "done"}
  BY DEF LP!ReadFeatured
<1>3. v3.count \in Nat /\ v5 = 0 /\ v8 = <<>>
  BY <1>1 DEF PicksInv
<1> DEFINE booked == IF fails THEN <<>> ELSE LP!FeaturedBookings(place, v3.count)
           rows == [i \in DOMAIN booked |-> booked[i].row]
<1>4. booked \in Seq(LPBookings) /\ Len(booked) <= v3.count
  <2> DEFINE S == {b \in LPBookings : b.row.featured /\ place \in {None, b.place}}
  <2>1. LP!FeaturedBookings(place, v3.count) = LP!First(LP!ById(S), v3.count)
    BY DEF LP!FeaturedBookings
  <2>2. S \in SUBSET LPBookings
    OBVIOUS
  <2> HIDE DEF S
  <2>3. IsFiniteSet(LPBookings)
    <3>1. \A T : LP!IsFiniteSet(T) <=> IsFiniteSet(T)
      BY DEF LP!IsFiniteSet, IsFiniteSet
    <3> QED BY <3>1, ServiceSideAssumption DEF LP!ListingPicksAssumption
  <2>4. IsFiniteSet(S)
    BY <2>2, <2>3, FS_Subset
  <2>5. (\A x \in S : x.id \in Int) /\ (\A x, y \in S : x.id = y.id => x = y)
    BY <2>2, ServiceSideAssumption DEF LP!ListingPicksAssumption
  <2> DEFINE m == LP!ById(S)
  <2>6. m \in Seq(S)
    BY <2>4, <2>5, InOrderOfIds
  <2> HIDE DEF m
  <2>7. m \in Seq(LPBookings)
    BY <2>2, <2>6
  <2>8. LP!First(m, v3.count) \in Seq(LPBookings) /\ Len(LP!First(m, v3.count)) <= v3.count
    <3>1. v3.count \in Int /\ v3.count >= 0
      BY <1>3
    <3> QED BY <2>7, <3>1, FirstOf, Zenon
  <2>9. CASE fails
    BY <1>3, <2>9
  <2>10. CASE ~fails
    BY <2>1, <2>8, <2>10 DEF m
  <2> QED BY <2>9, <2>10
<1>5. \/ v4' = "anyPlace" /\ v8' = v8
      \/ v8' = LP!AsPicks(rows, 0) /\ v4' \in {"count", "done"}
  BY <1>2
<1> HIDE DEF booked
<1>6. rows \in Seq(LPRows) /\ Len(rows) <= v3.count
  <2>1. \A i \in 1 .. Len(booked) : booked[i].row \in LPRows
    BY <1>4, ServiceSideAssumption DEF LP!ListingPicksAssumption
  <2>2. rows \in [1 .. Len(booked) -> LPRows] /\ Len(booked) \in Nat
    BY <1>4, <2>1
  <2> HIDE DEF rows
  <2>3. rows \in Seq(LPRows) /\ Len(rows) = Len(booked)
    BY <2>2
  <2> QED BY <1>4, <2>3
<1> HIDE DEF rows
<1>7. /\ v8' \in Seq(Pick) /\ Anew(v8') /\ Len(v8') <= v3.count
      /\ \A i \in DOMAIN v8' : v8'[i].row \in LPRows /\ v8'[i].turn <= 0
  <2>1. CASE v8' = v8
    BY <1>3, <2>1 DEF Anew
  <2>2. CASE v8' = LP!AsPicks(rows, 0)
    <3>1. v8' \in Seq(Pick) /\ Len(v8') = Len(rows) /\ Anew(v8')
          /\ \A i \in DOMAIN v8' : v8'[i].row \in LPRows /\ v8'[i].turn <= 0
      BY <1>6, <2>2, AnswerAtOnce, Zenon
    <3> QED BY <1>6, <3>1
  <2> QED BY <1>5, <2>1, <2>2, Zenon
<1>8. (v4' = "anyPlace" /\ v8' = <<>>) \/ v4' \in {"count", "done"}
  <2>1. (v4' = "anyPlace" /\ v8' = v8) \/ v4' \in {"count", "done"}
    BY <1>5, Zenon
  <2> QED BY <1>3, <2>1
<1>9. LP!TypeOK'
  <2>1. \A i \in DOMAIN v8' : v8'[i] \in Pick
    BY <1>7
  <2> QED BY <1>1, <1>8, <2>1 DEF PicksInv, LP!TypeOK, Pick
<1> QED BY <1>1, <1>3, <1>7, <1>8, <1>9 DEF PicksInv, RandomKinds

\* A turn begins with nothing that it got.
LEMMA PicksCount == PicksInv /\ LP!CountMatching => PicksInv'
<1> SUFFICES ASSUME PicksInv, LP!CountMatching PROVE PicksInv'
  OBVIOUS
<1> DEFINE M == LP!Matching(LP!TurnFilters)
           total == LP!Cardinality(M)
<1>1. /\ v4 = "count" /\ v4' = "reads" /\ v7' = <<>>
      /\ UNCHANGED <<v1, v2, v3, v5, v8, v9, v10>>
  BY DEF LP!CountMatching
<1>2. total \in Nat
  <2>1. M \in SUBSET LPRows
    BY DEF LP!Matching, PicksInv, LP!TypeOK
  <2> HIDE DEF M
  <2> QED BY <2>1, PicksLibrary, FS_CardinalityType
<1>3. v6' = {} \/ (v6' \in SUBSET (0 .. total - 1) /\ LP!Cardinality(v6') <= LP!RequestSize)
  BY DEF LP!CountMatching
<1> HIDE DEF total
<1>4. v6' \in SUBSET Nat /\ IsFiniteSet(v6')
  <2>1. 0 .. total - 1 \subseteq Nat /\ IsFiniteSet(0 .. total - 1)
    BY <1>2, FS_Interval
  <2>2. CASE v6' = {}
    BY <2>2, FS_EmptySet
  <2>3. CASE v6' \in SUBSET (0 .. total - 1)
    BY <2>1, <2>3, FS_Subset
  <2> QED BY <1>3, <2>2, <2>3
<1>5. v3.kind = "optimized" => Cardinality(v6') <= v3.count
  <2> SUFFICES ASSUME v3.kind = "optimized" PROVE Cardinality(v6') <= v3.count
    OBVIOUS
  <2>1. LP!RequestSize = v3.count /\ v3.count \in Nat
    BY DEF LP!RequestSize, PicksInv
  <2> QED BY <1>3, <2>1, PicksLibrary, FS_EmptySet
<1>6. Cardinality(v6') \in Nat /\ Len(v7') = 0 /\ v7' \in Seq(LPRows)
  BY <1>1, <1>4, FS_CardinalityType
<1>7. v3.kind = "optimized" => Len(v7') + Cardinality(v6') <= v3.count
  BY <1>5, <1>6 DEF PicksInv
<1>8. LP!TypeOK' /\ LP!Shown' = LP!Shown
  BY <1>1 DEF PicksInv, LP!TypeOK, LP!Shown
<1> QED BY <1>1, <1>4, <1>6, <1>7, <1>8 DEF PicksInv, RandomKinds

\* What is shown already, and what a later turn adds to it.
LEMMA Added ==
  ASSUME NEW s \in Seq(Pick), Anew(s), NEW rows \in Seq(LPRows), NEW t \in 0 .. 3,
         \A k \in DOMAIN rows : \A i \in DOMAIN s : s[i].row # rows[k],
         \A i \in DOMAIN s : s[i].turn <= t
  PROVE  LET u == s \o LP!AsPicks(rows, t)
         IN /\ u \in Seq(Pick) /\ Anew(u) /\ Len(u) = Len(s) + Len(rows)
            /\ \A i \in DOMAIN u : u[i].turn <= t
<1> DEFINE w == LP!AsPicks(rows, t)
           u == s \o w
           n == Len(s)
<1>1. /\ w \in Seq(Pick) /\ Len(w) = Len(rows)
      /\ \A i \in DOMAIN rows : w[i] = [row |-> rows[i], turn |-> t]
  BY PicksOfRows
<1> HIDE DEF w
<1>2. u \in Seq(Pick) /\ Len(u) = n + Len(w)
      /\ \A i \in 1 .. n + Len(w) : u[i] = IF i <= n THEN s[i] ELSE w[i - n]
  <2>1. u \in Seq(Pick) /\ Len(u) = n + Len(w)
    BY <1>1, ConcatProperties, Zenon
  <2>2. \A i \in 1 .. Len(s) + Len(w) : u[i] = IF i <= Len(s) THEN s[i] ELSE w[i - Len(s)]
    <3>1. s \in Seq(Pick) /\ w \in Seq(Pick)
      BY <1>1
    <3> HIDE DEF n
    <3> QED BY <3>1, ConcatProperties
  <2> QED BY <2>1, <2>2
<1>3. n \in Nat /\ Len(w) \in Nat /\ DOMAIN s = 1 .. n /\ DOMAIN rows = 1 .. Len(w)
  BY <1>1
<1>4. DOMAIN u = 1 .. n + Len(w) /\ Len(u) = n + Len(rows)
  BY <1>1, <1>2
<1>5. \A i \in DOMAIN s : s[i].turn \in 0 .. 3
  <2>1. \A i \in DOMAIN s : s[i] \in Pick
    OBVIOUS
  <2> QED BY <2>1 DEF Pick
<1> HIDE DEF u, n
<1>6. ASSUME NEW i \in DOMAIN u, n < i
      PROVE  i - n \in DOMAIN rows /\ u[i].row = rows[i - n] /\ u[i].turn = t
  <2>1. i - n \in 1 .. Len(w) /\ ~(i <= n)
    BY <1>3, <1>4, <1>6
  <2>2. w[i - n] = [row |-> rows[i - n], turn |-> t]
    BY <1>1, <1>3, <2>1
  <2> QED BY <1>2, <1>3, <1>4, <2>1, <2>2
<1>7. ASSUME NEW i \in DOMAIN u, ~(n < i) PROVE i \in DOMAIN s /\ u[i] = s[i]
  BY <1>2, <1>3, <1>4, <1>7
<1>8. ASSUME NEW i \in DOMAIN u, NEW j \in DOMAIN u, u[i].turn < u[j].turn
      PROVE  u[i].row # u[j].row
  <2>1. CASE n < i
    <3>1. ~(n < j) => u[j].turn \in 0 .. 3 /\ u[j].turn <= t
      BY <1>5, <1>7
    <3>2. u[i].turn = t /\ (n < j => u[j].turn = t)
      BY <1>6, <2>1
    <3> QED BY <1>8, <3>1, <3>2
  <2>2. CASE ~(n < i) /\ n < j
    BY <1>6, <1>7, <2>2
  <2>3. CASE ~(n < i) /\ ~(n < j)
    BY <1>7, <1>8, <2>3 DEF Anew
  <2> QED BY <2>1, <2>2, <2>3
<1>9. ASSUME NEW i \in DOMAIN u PROVE u[i].turn <= t
  <2>1. CASE n < i
    BY <1>6, <2>1
  <2>2. CASE ~(n < i)
    BY <1>7, <2>2
  <2> QED BY <2>1, <2>2
<1>10. Anew(u)
  BY <1>8 DEF Anew
<1> QED BY <1>2, <1>4, <1>9, <1>10 DEF u, n, w

\* A query answers one listing at most, any one, and is not asked again.
LEMMA PicksReadOffset ==
  ASSUME PicksInv, NEW offset \in v6, LP!ReadOffset(offset)
  PROVE  PicksInv'
<1>1. /\ v4 = "reads" /\ v6' = v6 \ {offset}
      /\ v7' = v7 \/ \E r \in LP!Joined(LP!TurnFilters) : v7' = Append(v7, r)
      /\ UNCHANGED <<v1, v2, v3, v4, v5, v8, v9, v10>>
  BY DEF LP!ReadOffset
<1>2. v7 \in Seq(LPRows) /\ v6 \in SUBSET Nat /\ IsFiniteSet(v6) /\ Cardinality(v6) \in Nat
  BY FS_CardinalityType DEF PicksInv
<1>3. v7' \in Seq(LPRows) /\ Len(v7') \in {Len(v7), Len(v7) + 1} /\ Len(v7) \in Nat
  <2>1. CASE v7' = v7
    BY <1>2, <2>1
  <2>2. ASSUME NEW r \in LP!Joined(LP!TurnFilters), v7' = Append(v7, r)
        PROVE  v7' \in Seq(LPRows) /\ Len(v7') = Len(v7) + 1
    <3>1. r \in LPRows
      BY DEF LP!Joined, LP!Matching, PicksInv, LP!TypeOK
    <3> QED BY <1>2, <2>2, <3>1, AppendProperties
  <2> QED BY <1>1, <1>2, <2>1, <2>2
<1>4. v6' \in SUBSET Nat /\ IsFiniteSet(v6') /\ Cardinality(v6') = Cardinality(v6) - 1
  BY <1>1, <1>2, FS_RemoveElement
<1>5. v3.kind = "optimized" => Len(v7') + Cardinality(v6') <= v3.count
  BY <1>1, <1>2, <1>3, <1>4 DEF PicksInv
<1>6. LP!TypeOK' /\ LP!Shown' = LP!Shown
  BY <1>1 DEF PicksInv, LP!TypeOK, LP!Shown
<1> QED BY <1>1, <1>3, <1>4, <1>5, <1>6 DEF PicksInv, RandomKinds

\* What a turn got, less what is shown already.
LEMMA NewRows ==
  ASSUME NEW rows \in Seq(LPRows)
  PROVE  /\ LP!NewItems(rows) \in Seq(LPRows)
         /\ Len(LP!NewItems(rows)) <= Len(rows)
         /\ \A k \in DOMAIN LP!NewItems(rows) : LP!NewItems(rows)[k] \notin LP!Shown
<1> DEFINE P == {i \in DOMAIN rows : rows[i] \notin LP!Shown}
           kept == LP!Kept(rows, P)
<1>1. P \in SUBSET DOMAIN rows /\ \A p \in P : rows[p] \notin LP!Shown
  OBVIOUS
<1>2. LP!NewItems(rows) = kept
  BY DEF LP!NewItems
<1> HIDE DEF P
<1>3. /\ kept \in Seq(LPRows) /\ Len(kept) <= Len(rows)
      /\ \A k \in DOMAIN kept : \E p \in P : kept[k] = rows[p]
  BY <1>1, KeptStand
<1> HIDE DEF kept
<1> QED BY <1>1, <1>2, <1>3

\* What a turn adds is not shown yet, and no more than is needed.
LEMMA PicksCollect == PicksInv /\ LP!Collect => PicksInv'
<1> SUFFICES ASSUME PicksInv, LP!Collect PROVE PicksInv'
  OBVIOUS
<1> DEFINE new == LP!NewItems(v7)
           picked == IF v3.kind = "optimized" THEN v7 ELSE LP!First(new, LP!Needed)
           filters == LP!Loosen(v3.filters, v5 + 1)
<1>1. /\ v4 = "reads" /\ v6 = {} /\ v5' = v5 + 1 /\ v8' = v8 \o LP!AsPicks(picked, v5 + 1)
      /\ v4' \in {"done", "count"} /\ (v4' = "count" => v3.kind # "optimized" /\ v5 # 2)
      /\ v3' = (IF v3.kind = "fallback" THEN [v3 EXCEPT !.filters = filters] ELSE v3)
      /\ UNCHANGED <<v1, v2, v6, v7, v9, v10>>
  BY DEF LP!Collect
<1>2. /\ v5 \in 0 .. 2 /\ v3.kind \in RandomKinds /\ v8 \in Seq(Pick) /\ v7 \in Seq(LPRows)
      /\ v3.count \in Nat /\ (v3.kind = "optimized" => v8 = <<>>) /\ Anew(v8)
      /\ DOMAIN v3 = {"kind", "count", "place", "ids", "of", "filters"}
      /\ Len(v8) <= v3.count /\ \A i \in DOMAIN v8 : v8[i].turn <= v5
  <2>1. /\ v5 \in 0 .. 2 /\ v3.kind \in RandomKinds /\ v8 \in Seq(Pick) /\ v7 \in Seq(LPRows)
        /\ (v3.kind = "optimized" => v8 = <<>>) /\ Anew(v8)
        /\ DOMAIN v3 = {"kind", "count", "place", "ids", "of", "filters"}
        /\ \A i \in DOMAIN v8 : v8[i].turn <= v5
    BY <1>1 DEF PicksInv
  <2>2. v3.count \in Nat /\ Len(v8) <= v3.count
    BY <2>1 DEF PicksInv, CountedKinds, RandomKinds
  <2> QED BY <2>1, <2>2
<1>3. /\ v3'.kind = v3.kind /\ v3'.count = v3.count
      /\ DOMAIN v3' = {"kind", "count", "place", "ids", "of", "filters"}
  <2> HIDE DEF filters
  <2> QED BY <1>1, <1>2
<1>4. /\ new \in Seq(LPRows)
      /\ \A k \in DOMAIN new : new[k] \notin LP!Shown
  BY <1>2, NewRows
<1> HIDE DEF new
<1>5. /\ picked \in Seq(LPRows) /\ Len(v8) + Len(picked) <= v3.count
      /\ \A k \in DOMAIN picked : picked[k] \notin LP!Shown
  <2>1. CASE v3.kind = "optimized"
    <3>1. LP!Shown = {} /\ Len(v8) = 0
      BY <1>2, <2>1 DEF LP!Shown
    <3>2. Len(v7) <= v3.count
      <4>1. Cardinality(v6) = 0 /\ Len(v7) \in Nat
        BY <1>1, <1>2, FS_EmptySet
      <4> QED BY <1>1, <2>1, <4>1 DEF PicksInv
    <3> QED BY <1>2, <2>1, <3>1, <3>2
  <2>2. CASE v3.kind # "optimized"
    <3> DEFINE n == LP!Needed
               f == LP!First(new, n)
    <3>1. n \in Int /\ n >= 0 /\ Len(v8) + n = v3.count
      BY <1>2 DEF LP!Needed
    <3> HIDE DEF n
    <3>2. f \in Seq(LPRows) /\ Len(f) <= n /\ \A k \in DOMAIN f : k \in DOMAIN new /\ f[k] = new[k]
      BY <1>4, <3>1, FirstOf, Zenon
    <3>3. picked = f
      BY <2>2 DEF n
    <3> HIDE DEF f
    <3>4. \A k \in DOMAIN f : f[k] \notin LP!Shown
      BY <1>4, <3>2
    <3>5. Len(v8) + Len(f) <= v3.count
      BY <1>2, <3>1, <3>2
    <3> QED BY <3>2, <3>3, <3>4, <3>5
  <2> QED BY <2>1, <2>2
<1> HIDE DEF picked
<1>6. /\ v8' \in Seq(Pick) /\ Anew(v8') /\ Len(v8') <= v3.count
      /\ \A i \in DOMAIN v8' : v8'[i].turn <= v5 + 1
  <2> DEFINE t == v5 + 1
  <2>1. t \in 0 .. 3 /\ \A i \in DOMAIN v8 : v8[i].turn <= t
    <3>1. \A i \in DOMAIN v8 : v8[i].turn \in 0 .. 3
      <4>1. \A i \in DOMAIN v8 : v8[i] \in Pick
        BY <1>2
      <4> QED BY <4>1 DEF Pick
    <3> QED BY <1>2, <3>1
  <2>2. v8' = v8 \o LP!AsPicks(picked, t)
    BY <1>1, Zenon
  <2> HIDE DEF t
  <2>3. \A k \in DOMAIN picked : \A i \in DOMAIN v8 : v8[i].row # picked[k]
    BY <1>5 DEF LP!Shown
  <2> DEFINE u == v8 \o LP!AsPicks(picked, t)
  <2>4. u \in Seq(Pick) /\ Anew(u) /\ Len(u) = Len(v8) + Len(picked) /\ \A i \in DOMAIN u : u[i].turn <= t
    BY <1>2, <1>5, <2>1, <2>3, Added
  <2> HIDE DEF u
  <2>5. Len(u) <= v3.count
    BY <1>5, <2>4
  <2> QED BY <2>2, <2>4, <2>5 DEF u, t
<1>7. \A i \in DOMAIN v8' : v8'[i].row \in LPRows /\ v8'[i].turn \in 0 .. 3
  <2>1. \A i \in DOMAIN v8' : v8'[i] \in Pick
    BY <1>6
  <2> QED BY <2>1 DEF Pick
<1>8. LP!TypeOK'
  <2>1. /\ v5' \in 0 .. 3 /\ v4' \in {"done", "count"}
        /\ UNCHANGED <<v1, v9, v10>>
    <3>1. v5' = v5 + 1 /\ v4' \in {"done", "count"} /\ UNCHANGED <<v1, v9, v10>>
      BY <1>1, Zenon
    <3> QED BY <1>2, <3>1
  <2> QED BY <1>7, <2>1 DEF PicksInv, LP!TypeOK
<1>9. /\ v4' \in {"done", "count"} /\ UNCHANGED <<v6, v7, v10>> /\ v5' = v5 + 1
      /\ (v4' = "count" => v3.kind # "optimized" /\ v5' \in 0 .. 2)
  <2>1. v4' = "count" => v5 # 2 /\ v5' = v5 + 1
    BY <1>1, Zenon
  <2>2. v4' = "count" => v5' \in 0 .. 2
    BY <1>2, <2>1
  <2> QED BY <1>1, <2>2, Zenon
<1> QED BY <1>2, <1>3, <1>6, <1>8, <1>9 DEF PicksInv, RandomKinds

\* The most viewed listings.
LEMMA PicksMostViewed == PicksInv /\ LP!AskMostViewed => PicksInv'
<1> SUFFICES ASSUME PicksInv, LP!AskMostViewed PROVE PicksInv'
  OBVIOUS
<1> DEFINE rows == LP!MostViewed(v3)
<1>1. /\ v8' = LP!AsPicks(rows, 0) /\ v4 = "asked" /\ v3.kind = "mostViewed" /\ v4' = "done"
      /\ UNCHANGED <<v1, v2, v3, v5, v6, v7, v9, v10>>
  BY Zenon DEF LP!AskMostViewed, LP!Answer
<1>2. rows \in Seq(LPRows) /\ Len(rows) <= v3.count
  <2> DEFINE S == {r \in v1 : LP!Meets(r, v3.filters)}
             key == [r \in v1 |-> r.visits]
             n == v3.count
  <2>1. rows = LP!Top(S, key, n)
    BY DEF LP!MostViewed
  <2>2. S \in SUBSET LPRows /\ (\A r \in S : key[r] \in Int) /\ n \in Int /\ n >= 0
    BY <1>1, ServiceSideAssumption DEF PicksInv, LP!TypeOK, LP!ListingPicksAssumption
  <2> HIDE DEF S, key, n
  <2>3. rows \in Seq(LPRows) /\ Len(rows) <= n
    BY <2>1, <2>2, TopRows
  <2> QED BY <2>3 DEF n
<1> HIDE DEF rows
<1>3. /\ v8' \in Seq(Pick) /\ Len(v8') = Len(rows) /\ Anew(v8')
      /\ \A i \in DOMAIN v8' : v8'[i] \in Pick
  <2>1. v8' \in Seq(Pick) /\ Len(v8') = Len(rows) /\ Anew(v8')
    BY <1>1, <1>2, AnswerAtOnce, Zenon
  <2> QED BY <2>1
<1>4. v3.kind = "mostViewed" /\ v4' = "done" /\ UNCHANGED <<v1, v2, v3, v5, v6, v7, v9, v10>>
  BY <1>1, Zenon
<1>5. LP!TypeOK'
  BY <1>3, <1>4 DEF PicksInv, LP!TypeOK, Pick
<1> QED BY <1>2, <1>3, <1>4, <1>5 DEF PicksInv

\* The listings with the largest discounts, of any city when the city has too few.
LEMMA DiscountedRows ==
  ASSUME LP!TypeOK, NEW city, NEW category, NEW n \in Int
  PROVE  /\ LP!Discounted(city, category, n) \in Seq(LPRows)
         /\ n >= 0 => Len(LP!Discounted(city, category, n)) <= n
<1> DEFINE S == {r \in v1 : v2[r] > 0 /\ city \in {None, r.city} /\ category \in {None, r.category}}
           key == [r \in v1 |-> r.discount]
<1>1. LP!Discounted(city, category, n) = LP!Top(S, key, n)
  BY DEF LP!Discounted
<1>2. S \in SUBSET LPRows /\ (\A r \in S : key[r] \in Int)
  BY ServiceSideAssumption DEF LP!TypeOK, LP!ListingPicksAssumption
<1> HIDE DEF S, key
<1> QED BY <1>1, <1>2, TopRows

\* The first answer to a request for discounts.
LEMMA PicksDiscounted == PicksInv /\ LP!AskTopDiscounted => PicksInv'
<1> SUFFICES ASSUME PicksInv, LP!AskTopDiscounted PROVE PicksInv'
  OBVIOUS
<1> DEFINE rows == LP!Discounted(v3.filters.city, v3.filters.category, v3.count)
<1>1. /\ v8' = LP!AsPicks(rows, 0) /\ v4 = "asked" /\ v3.kind = "discounted"
      /\ v4' \in {"elsewhere", "done"} /\ UNCHANGED <<v1, v2, v3, v5, v6, v7, v9, v10>>
  <2>1. v4' = IF Len(rows) < v3.count THEN "elsewhere" ELSE "done"
    BY Zenon DEF LP!AskTopDiscounted
  <2> HIDE DEF rows
  <2>2. v4' \in {"elsewhere", "done"}
    BY <2>1
  <2> QED BY <2>2, Zenon DEF LP!AskTopDiscounted, rows
<1>2. v3.kind = "discounted" /\ v4' \in {"elsewhere", "done"}
      /\ UNCHANGED <<v1, v2, v3, v5, v6, v7, v9, v10>>
  BY <1>1, Zenon
<1>3. rows \in Seq(LPRows) /\ Len(rows) <= v3.count
  BY <1>2, DiscountedRows DEF PicksInv
<1> HIDE DEF rows
<1>4. /\ v8' \in Seq(Pick) /\ Len(v8') = Len(rows) /\ Anew(v8')
      /\ \A i \in DOMAIN v8' : v8'[i] \in Pick /\ v8'[i].turn <= 0
  <2>1. v8' \in Seq(Pick) /\ Len(v8') = Len(rows) /\ Anew(v8')
        /\ \A i \in DOMAIN v8' : v8'[i].turn <= 0
    BY <1>1, <1>3, AnswerAtOnce, Zenon
  <2> QED BY <2>1
<1>5. LP!TypeOK'
  BY <1>2, <1>4 DEF PicksInv, LP!TypeOK, Pick
<1> QED BY <1>2, <1>3, <1>4, <1>5 DEF PicksInv

\* The second answer to a request for discounts.
LEMMA PicksElsewhere == PicksInv /\ LP!DiscountedElsewhere => PicksInv'
<1> SUFFICES ASSUME PicksInv, LP!DiscountedElsewhere PROVE PicksInv'
  OBVIOUS
<1> DEFINE found == LP!Discounted(None, v3.filters.category, LP!Needed)
           rows == LP!NewItems(found)
<1>1. /\ v8' = v8 \o LP!AsPicks(rows, 1) /\ v4 = "elsewhere" /\ v4' = "done"
      /\ UNCHANGED <<v1, v2, v3, v5, v6, v7, v9, v10>>
  BY Zenon DEF LP!DiscountedElsewhere, LP!Answer
<1>2. v4 = "elsewhere" /\ v4' = "done" /\ UNCHANGED <<v1, v2, v3, v5, v6, v7, v9, v10>>
  BY <1>1, Zenon
<1>3. /\ v3.kind = "discounted" /\ v8 \in Seq(Pick) /\ Anew(v8) /\ v3.count \in Nat
      /\ Len(v8) <= v3.count /\ \A i \in DOMAIN v8 : v8[i].turn <= 0
  BY <1>2 DEF PicksInv, CountedKinds
<1>4. /\ rows \in Seq(LPRows) /\ Len(v8) + Len(rows) <= v3.count
      /\ \A k \in DOMAIN rows : rows[k] \notin LP!Shown
  <2> DEFINE n == LP!Needed
  <2>1. n \in Int /\ n >= 0 /\ Len(v8) + n = v3.count
    BY <1>3 DEF LP!Needed
  <2> HIDE DEF n
  <2>2. /\ LP!Discounted(None, v3.filters.category, n) \in Seq(LPRows)
        /\ Len(LP!Discounted(None, v3.filters.category, n)) <= n
    BY <2>1, DiscountedRows DEF PicksInv
  <2>3. found \in Seq(LPRows) /\ Len(found) <= n
    BY <2>2 DEF n
  <2> HIDE DEF found
  <2>4. rows \in Seq(LPRows) /\ Len(rows) <= Len(found) /\ \A k \in DOMAIN rows : rows[k] \notin LP!Shown
    BY <2>3, NewRows
  <2> HIDE DEF rows
  <2> QED BY <1>3, <2>1, <2>3, <2>4
<1> HIDE DEF rows
<1>5. v8' \in Seq(Pick) /\ Anew(v8') /\ Len(v8') <= v3.count
  <2> PICK t \in 0 .. 3 : t = 1
    OBVIOUS
  <2>1. v8' = v8 \o LP!AsPicks(rows, t)
    BY <1>1, Zenon
  <2>2. \A i \in DOMAIN v8 : v8[i].turn <= t
    <3>1. \A i \in DOMAIN v8 : v8[i].turn \in 0 .. 3
      <4>1. \A i \in DOMAIN v8 : v8[i] \in Pick
        BY <1>3
      <4> QED BY <4>1 DEF Pick
    <3> QED BY <1>3, <3>1
  <2>3. \A k \in DOMAIN rows : \A i \in DOMAIN v8 : v8[i].row # rows[k]
    BY <1>4 DEF LP!Shown
  <2> DEFINE u == v8 \o LP!AsPicks(rows, t)
  <2>4. u \in Seq(Pick) /\ Anew(u) /\ Len(u) = Len(v8) + Len(rows)
    BY <1>3, <1>4, <2>2, <2>3, Added
  <2> HIDE DEF u
  <2>5. Len(u) <= v3.count
    BY <1>4, <2>4
  <2> QED BY <2>1, <2>4, <2>5 DEF u
<1>6. \A i \in DOMAIN v8' : v8'[i] \in Pick
  BY <1>5
<1>7. LP!TypeOK'
  BY <1>2, <1>6 DEF PicksInv, LP!TypeOK, Pick
<1> QED BY <1>2, <1>3, <1>5, <1>7 DEF PicksInv

\* The related products are looked for from the price of the product.
LEMMA PicksAskRelated == PicksInv /\ LP!AskRelated => PicksInv'
<1> SUFFICES ASSUME PicksInv, LP!AskRelated PROVE PicksInv'
  OBVIOUS
<1>1. v4 = "asked" /\ v3.kind = "related" /\ UNCHANGED <<v1, v2, v5, v6, v7, v8, v9, v10>>
  BY DEF LP!AskRelated
<1>2. /\ v5 = 0 /\ v8 = <<>> /\ DOMAIN v3 = {"kind", "count", "place", "ids", "of", "filters"}
  BY <1>1 DEF PicksInv
<1>3. LP!Shown' = {} /\ Anew(v8') /\ Len(v8') = 0
  BY <1>1, <1>2 DEF LP!Shown, Anew
<1>4. CASE v3.of \in v1
  <2>1. v4' = "within20" /\ v3' = [v3 EXCEPT !.count = v2[v3.of]]
    BY <1>4 DEF LP!AskRelated
  <2>2. /\ v3'.kind = "related" /\ v3'.of = v3.of /\ v3'.count = v2[v3.of]
        /\ DOMAIN v3' = {"kind", "count", "place", "ids", "of", "filters"}
    <3> DEFINE base == v2[v3.of]
    <3>1. v3' = [v3 EXCEPT !.count = base]
      BY <2>1
    <3> HIDE DEF base
    <3>2. v3'.count = base
      BY <1>2, <3>1
    <3> QED BY <1>1, <1>2, <3>1, <3>2 DEF base
  <2>3. LP!TypeOK'
    BY <1>1, <2>1 DEF PicksInv, LP!TypeOK
  <2> QED BY <1>1, <1>2, <1>3, <2>1, <2>2, <2>3 DEF PicksInv, CountedKinds, RandomKinds
<1>5. CASE v3.of \notin v1
  <2> DEFINE none == [f \in LP!Filters |-> None]
  <2>1. v4' = "count" /\ v3' = [v3 EXCEPT !.kind = "optimized", !.count = 10, !.filters = none]
    BY <1>5 DEF LP!AskRelated
  <2> HIDE DEF none
  <2>2. /\ v3'.kind = "optimized" /\ v3'.count = 10
        /\ DOMAIN v3' = {"kind", "count", "place", "ids", "of", "filters"}
    BY <1>2, <2>1
  <2>3. LP!TypeOK'
    BY <1>1, <2>1 DEF PicksInv, LP!TypeOK
  <2> QED BY <1>1, <1>2, <1>3, <2>1, <2>2, <2>3 DEF PicksInv, RandomKinds
<1> QED BY <1>4, <1>5

\* A product has its own price, and is not related to itself.
LEMMA PicksReadRelated == PicksInv /\ LP!ReadRelated => PicksInv'
<1> SUFFICES ASSUME PicksInv, LP!ReadRelated PROVE PicksInv'
  OBVIOUS
<1> DEFINE S == LP!Related(v3.of, v3.count, IF v4 = "within20" THEN 20 ELSE 30)
           rows == LP!ById(S)
<1>1. /\ v4 \in {"within20", "within30"} /\ UNCHANGED <<v1, v2, v3, v5, v6, v7, v9, v10>>
      /\ \/ v4' = "within30" /\ v8' = v8
         \/ v4' = "done" /\ v8' = LP!AsPicks(rows, 0)
  BY Zenon DEF LP!ReadRelated, LP!Answer
<1>2. v4 \in {"within20", "within30"} /\ UNCHANGED <<v1, v2, v3, v5, v6, v7, v9, v10>>
      /\ ((v4' = "within30" /\ v8' = v8) \/ v4' = "done")
  BY <1>1, Zenon
<1>3. v3.kind = "related" /\ v5 = 0 /\ v8 = <<>>
  BY <1>2 DEF PicksInv
<1>4. S \in SUBSET LPRows /\ \A r \in S : v2[r] # v3.count
  BY DEF LP!Related
<1> HIDE DEF S
<1>5. rows \in Seq(S)
  <2>1. (\A x \in S : x.id \in Int) /\ (\A x, y \in S : x.id = y.id => x = y)
    BY <1>4, ServiceSideAssumption DEF LP!ListingPicksAssumption
  <2> QED BY <1>4, <2>1, PicksLibrary, InOrderOfIds
<1> HIDE DEF rows
<1>6. rows \in Seq(LPRows) /\ \A i \in DOMAIN rows : rows[i] \in S
  BY <1>4, <1>5
<1>7. CASE v8' = v8
  <2>1. Anew(v8') /\ LP!Shown' = {} /\ v8' \in Seq(Pick)
    BY <1>3, <1>7 DEF Anew, LP!Shown
  <2>2. LP!TypeOK'
    BY <1>2, <1>3, <1>7 DEF PicksInv, LP!TypeOK
  <2> QED BY <1>2, <1>3, <1>7, <2>1, <2>2 DEF PicksInv, CountedKinds, RandomKinds
<1>8. CASE v4' = "done" /\ v8' = LP!AsPicks(rows, 0)
  <2>1. /\ v8' \in Seq(Pick) /\ Anew(v8')
        /\ \A i \in DOMAIN v8' : i \in DOMAIN rows /\ v8'[i].row = rows[i] /\ v8'[i] \in Pick
    <3>1. /\ v8' \in Seq(Pick) /\ Anew(v8')
          /\ \A i \in DOMAIN v8' : i \in DOMAIN rows /\ v8'[i].row = rows[i]
      BY <1>6, <1>8, AnswerAtOnce, Zenon
    <3> QED BY <3>1
  <2>2. v4' = "done"
    BY <1>8, Zenon
  <2>3. ASSUME v10 PROVE v3.of \notin LP!Shown'
    <3>1. v3.count = v2[v3.of]
      BY <1>2, <2>3 DEF PicksInv
    <3>2. \A i \in DOMAIN v8' : v8'[i].row \in S
      BY <1>6, <2>1
    <3>3. v3.of \notin S
      BY <1>4, <3>1
    <3> QED BY <3>2, <3>3 DEF LP!Shown
  <2>4. LP!TypeOK'
    BY <1>2, <2>1, <2>2 DEF PicksInv, LP!TypeOK, Pick
  <2> QED BY <1>2, <1>3, <2>1, <2>2, <2>3, <2>4 DEF PicksInv, CountedKinds, RandomKinds
<1> QED BY <1>1, <1>7, <1>8, Zenon

\* The listings of some identifiers.
LEMMA PicksByIds == PicksInv /\ LP!AskByIds => PicksInv'
<1> SUFFICES ASSUME PicksInv, LP!AskByIds PROVE PicksInv'
  OBVIOUS
<1> DEFINE ids == v3.ids
           rows == LP!Wanted(ids)
           begun == {i \in DOMAIN ids : ids[i] > 0 /\ \A j \in 1 .. (i - 1) : ids[j] # ids[i]}
           P == {i \in begun : \E r \in LPRows : r.id = ids[i]}
           found == LP!Kept(ids, P)
<1>1. /\ v8' = LP!AsPicks(rows, 0) /\ v4 = "asked" /\ v3.kind = "byIds" /\ v4' = "done"
      /\ UNCHANGED <<v1, v2, v3, v5, v6, v7, v9, v10>>
  BY Zenon DEF LP!AskByIds, LP!Answer
<1>2. /\ v4 = "asked" /\ v3.kind = "byIds" /\ v4' = "done"
      /\ UNCHANGED <<v1, v2, v3, v5, v6, v7, v9, v10>>
  BY <1>1, Zenon
<1>3. ids \in Seq(Int)
  BY <1>2 DEF PicksInv
<1>4. rows = [k \in DOMAIN found |-> CHOOSE r \in LPRows : r.id = found[k]]
  BY DEF LP!Wanted
<1> HIDE DEF ids, rows
<1>5. P \in SUBSET DOMAIN ids /\ \A p \in P : \E r \in LPRows : r.id = ids[p]
  OBVIOUS
<1> HIDE DEF P
<1>6. /\ found \in Seq(Int)
      /\ \A k \in DOMAIN found : \E p \in P : found[k] = ids[p]
  BY <1>3, <1>5, KeptStand
<1> HIDE DEF found
<1>7. \A k \in DOMAIN found : rows[k] \in LPRows /\ rows[k].id = found[k]
  <2> SUFFICES ASSUME NEW k \in DOMAIN found PROVE rows[k] \in LPRows /\ rows[k].id = found[k]
    OBVIOUS
  <2>1. \E r \in LPRows : r.id = found[k]
    BY <1>5, <1>6
  <2> QED BY <1>4, <2>1
<1>8. rows \in Seq(LPRows) /\ DOMAIN rows = DOMAIN found
  <2>1. rows \in [1 .. Len(found) -> LPRows] /\ Len(found) \in Nat /\ DOMAIN found = 1 .. Len(found)
    BY <1>4, <1>6, <1>7
  <2> QED BY <2>1
<1>9. /\ v8' \in Seq(Pick) /\ Anew(v8') /\ \A i \in DOMAIN v8' : v8'[i] \in Pick
  <2>1. v8' \in Seq(Pick) /\ Anew(v8')
    BY <1>1, <1>8, AnswerAtOnce, Zenon
  <2> QED BY <2>1
<1>10. LP!TypeOK'
  BY <1>2, <1>9 DEF PicksInv, LP!TypeOK, Pick
<1> QED BY <1>2, <1>9, <1>10 DEF PicksInv, CountedKinds, RandomKinds

\* Every step of the composition keeps the invariant of the picks.
LEMMA PicksInvStep == PicksPart /\ [ServicesNext]_allVars => PicksPart'
<1> SUFFICES ASSUME PicksPart, [ServicesNext]_allVars, part' = "picks" PROVE PicksInv'
  BY DEF PicksPart
<1>1. CASE PicksStep
  <2>1. PicksInv /\ LP!Next
    BY <1>1 DEF PicksStep, PicksPart
  <2> QED BY <2>1, PicksMove, PicksAskRandom, PicksReadFeatured, PicksCount, PicksCollect,
             PicksMostViewed, PicksDiscounted, PicksElsewhere, PicksAskRelated, PicksReadRelated,
             PicksByIds, PicksReadOffset DEF LP!Next
<1>2. CASE UNCHANGED allVars
  <2>1. UNCHANGED <<part, v1, v2, v3, v4, v5, v6, v7, v8, v9, v10, v11>>
    BY <1>2 DEF allVars, slots, after4
  <2>2. PicksInv
    BY <2>1 DEF PicksPart
  <2>3. LP!TypeOK' /\ LP!Shown' = LP!Shown
    BY <2>1, <2>2 DEF PicksInv, LP!TypeOK, LP!Shown
  <2> QED BY <2>1, <2>2, <2>3 DEF PicksInv
<1>3. CASE ServicesNext /\ ~PicksStep
  BY <1>3
     DEF ServicesNext, PaymentsStep, PhonesStep, UsersStep, FiltersStep, ModelsStep, SearchStep
<1> QED BY <1>1, <1>2, <1>3

\* Whatever the catalogue does, and though the queries have no order, no turn of a pick adds a listing
\* that an earlier turn has found or that is booked, and all of them no more than were asked for, for
\* any catalogue, any bookings, any filters and any number of listings; and a product is not related
\* to itself while its price stands still.
THEOREM PickedApart == Services => []TurnsAddNew
<1>1. PicksPart => TurnsAddNew
  BY DEF PicksPart, PicksInv, TurnsAddNew, LP!TurnsAddNew, Anew, CountedKinds, RandomKinds
<1> QED BY PicksInvInit, PicksInvStep, <1>1, PTL DEF Services

-----------------------------------------------------------------------------
(* The script of the search.  Its states: a batch is begun only where a    *)
(* listing is left, so that its number is one of those there may be.       *)

\* a state of the script
Snapshots(s) ==
  /\ DOMAIN s = {"pc", "snapshot", "at", "failed"}
  /\ s.pc \in {"off", "collection", "listings", "embed", "upsert", "summary"}
  /\ s.at \in Nat /\ Len(s.snapshot) \in 0 .. Cardinality(CSListings)
  /\ s.pc \in {"embed", "upsert"} => s.at < Len(s.snapshot)
  /\ s.pc \notin {"embed", "upsert", "summary"} => s.at = 0
  /\ s.failed \subseteq 1 .. Cardinality(CSListings)
\* a listing as the catalogue has it
ListingRow ==
  [active: BOOLEAN, qty: 0 .. 1, price: CSPrices, brand: {"Dell"}, category: {"Laptop"}]

\* The script has a batch to do in its loop, whose number is one of those there may be.
ScriptInv ==
  /\ SearchInv /\ v1 \in [CSListings -> ListingRow] /\ Snapshots(v3)
  /\ Len(v6) <= CSMaxHistory /\ v9 \subseteq CS!Range(v8)

ScriptPart == part = "search" => ScriptInv

\* The operators that the instance brings with it are the library's.
LEMMA SearchLibrary ==
  /\ \A S : CS!Cardinality(S) = Cardinality(S)
  /\ IsFiniteSet(CSListings) /\ Cardinality(CSListings) \in Nat
  /\ CS!Min(CSPrices) \in CSPrices
<1>1. \A S : CS!Cardinality(S) = Cardinality(S)
  BY DEF CS!Cardinality, Cardinality
<1>2. \A S : CS!IsFiniteSet(S) <=> IsFiniteSet(S)
  BY DEF CS!IsFiniteSet, IsFiniteSet
<1>3. IsFiniteSet(CSListings) /\ Cardinality(CSListings) \in Nat
  BY <1>2, ServiceSideAssumption, FS_CardinalityType DEF CS!CatalogueSearchAssumption
<1>4. CS!Min(CSPrices) \in CSPrices
  <2>1. IsFiniteSet(CSPrices) /\ CSPrices # {} /\ CSPrices \subseteq Int
    BY <1>2, ServiceSideAssumption DEF CS!CatalogueSearchAssumption
  <2>2. \E x \in CSPrices : \A y \in CSPrices : x <= y
    BY <2>1, Bounds
  <2> QED BY <2>2 DEF CS!Min
<1> QED BY <1>1, <1>3, <1>4

\* A batch that failed is left behind: its number is one of those there are.
LEMMA BatchSkipped ==
  ASSUME NEW s, Snapshots(s), s.pc \in {"embed", "upsert"}
  PROVE  Snapshots(CS!NextBatch(s)) /\ Snapshots(CS!SkipBatch(s))
<1> DEFINE n == Cardinality(CSListings)
           l == Len(s.snapshot)
           number == CS!BatchNumber(s)
<1>1. CSBatchSize \in Nat /\ CSBatchSize # 0 /\ n \in Nat
  BY ServiceSideAssumption, SearchLibrary DEF CS!CatalogueSearchAssumption
<1>2. s.at \in Nat /\ l \in 0 .. n /\ s.at < l
  BY DEF Snapshots
<1>3. number \in 1 .. n
  <2> DEFINE at == s.at
             b == CSBatchSize
  <2> HIDE DEF at, b, n, l
  <2>1. at \div b \in Nat /\ at \div b <= at
    <3>1. at \in Nat /\ b \in Nat /\ b >= 1
      BY <1>1, <1>2 DEF at, b
    <3> DEFINE q == at \div b
               k == b - 1
    <3>2. q \in Nat /\ at = b * q + (at % b) /\ at % b \in Nat
      BY <3>1, Division
    <3> HIDE DEF q
    <3>3. k \in Nat /\ b = 1 + k
      BY <3>1
    <3> HIDE DEF k
    <3>4. b * q = q + k * q /\ k * q \in Nat
      BY <3>2, <3>3
    <3> DEFINE m == k * q
               w == at % b
    <3>5. at = q + m + w /\ m \in Nat /\ w \in Nat
      BY <3>2, <3>4
    <3> HIDE DEF m, w
    <3>6. q \in Nat /\ q <= at
      BY <3>1, <3>2, <3>5
    <3> QED BY <3>6 DEF q
  <2>2. at \div b + 1 \in 1 .. n
    <3>1. at \in Nat /\ l \in 0 .. n /\ at < l /\ n \in Nat
      BY <1>1, <1>2 DEF at
    <3> QED BY <2>1, <3>1
  <2> QED BY <2>2 DEF CS!BatchNumber, at, b
<1>4. ASSUME NEW t, Snapshots(t), t.pc \in {"embed", "upsert"} PROVE Snapshots(CS!NextBatch(t))
  <2> DEFINE at == t.at + CSBatchSize
             pc == IF at < Len(t.snapshot) THEN "embed" ELSE "summary"
             u == [t EXCEPT !.at = at, !.pc = pc]
  <2>1. CS!NextBatch(t) = u
    BY DEF CS!NextBatch
  <2>2. at \in Nat /\ pc \in {"embed", "summary"} /\ (pc = "embed" => at < Len(t.snapshot))
    BY <1>1, <1>4 DEF Snapshots
  <2> HIDE DEF at, pc
  <2>3. /\ DOMAIN u = DOMAIN t /\ u.at = at /\ u.pc = pc /\ u.snapshot = t.snapshot
        /\ u.failed = t.failed
    BY <1>4 DEF Snapshots
  <2> HIDE DEF u
  <2> QED BY <1>4, <2>1, <2>2, <2>3 DEF Snapshots
<1>5. Snapshots(CS!SkipBatch(s))
  <2> DEFINE failed == s.failed \cup {number}
             t == [s EXCEPT !.failed = failed]
  <2>1. CS!SkipBatch(s) = CS!NextBatch(t)
    BY DEF CS!SkipBatch
  <2>2. failed \subseteq 1 .. n
    BY <1>3 DEF Snapshots
  <2> HIDE DEF failed
  <2>3. /\ DOMAIN t = DOMAIN s /\ t.at = s.at /\ t.pc = s.pc /\ t.snapshot = s.snapshot
        /\ t.failed = failed
    BY DEF Snapshots
  <2> HIDE DEF t
  <2>4. Snapshots(t) /\ t.pc \in {"embed", "upsert"}
    BY <2>2, <2>3 DEF Snapshots
  <2> QED BY <1>4, <2>1, <2>4
<1> QED BY <1>4, <1>5

\* The first run of the script has nothing to do yet.
LEMMA ScriptInvInit == ServicesInit => ScriptPart
<1> SUFFICES ASSUME CS!Init PROVE ScriptInv
  BY DEF ServicesInit, ScriptPart
<1>1. SearchInv
  BY SearchBegins
<1>2. v1 \in [CSListings -> ListingRow]
  <2> DEFINE p == CS!Min(CSPrices)
             first == [active : {TRUE}, qty : {1}, price : {p}, brand : {"Dell"},
                       category : {"Laptop"}]
  <2>1. p \in CSPrices /\ v1 \in [CSListings -> first]
    BY SearchLibrary DEF CS!Init
  <2> HIDE DEF p
  <2>2. {TRUE} \subseteq BOOLEAN /\ {1} \subseteq 0 .. 1 /\ {p} \subseteq CSPrices
    BY <2>1
  <2>3. first \subseteq ListingRow
    BY <2>2, Zenon DEF ListingRow
  <2> QED BY <2>1, <2>3
<1>3. Snapshots(v3)
  BY SearchLibrary DEF CS!Init, CS!NoScript, Snapshots
<1>4. Len(v6) <= CSMaxHistory /\ v9 \subseteq CS!Range(v8)
  BY ServiceSideAssumption DEF CS!Init, CS!CatalogueSearchAssumption
<1> QED BY <1>1, <1>2, <1>3, <1>4 DEF ScriptInv

\* The steps of the script.
LEMMA ScriptSteps ==
  ASSUME ScriptInv, CS!Start \/ CS!Script \/ CS!Exit
  PROVE  Snapshots(v3') /\ UNCHANGED <<v1, v6, v8, v9>>
<1>1. UNCHANGED <<v1, v6, v8, v9>>
  BY DEF CS!Start, CS!Script, CS!EnsureCollection, CS!FetchActiveListings,
     CS!GenerateEmbeddings, CS!Upsert, CS!Summary, CS!Exit, CS!chatVars
<1> SUFFICES Snapshots(v3')
  BY <1>1
<1>2. Snapshots(v3)
  BY DEF ScriptInv
<1>3. Snapshots(CS!NoScript)
  BY SearchLibrary DEF CS!NoScript, Snapshots
<1>4. CASE CS!Summary \/ CS!Exit
  BY <1>3, <1>4 DEF CS!Summary, CS!Exit
<1>5. CASE CS!Start
  <2>1. v3' = [CS!NoScript EXCEPT !.pc = "collection"]
    BY <1>5 DEF CS!Start
  <2> QED BY <2>1, SearchLibrary DEF CS!NoScript, Snapshots
<1>6. CASE CS!EnsureCollection
  <2>1. v3' = [v3 EXCEPT !.pc = "listings"]
    BY <1>6 DEF CS!EnsureCollection
  <2>2. /\ DOMAIN v3' = DOMAIN v3 /\ v3'.pc = "listings" /\ v3'.at = v3.at
        /\ v3'.snapshot = v3.snapshot /\ v3'.failed = v3.failed
    BY <1>2, <2>1 DEF Snapshots
  <2>3. v3.at = 0
    BY <1>2, <1>6 DEF CS!EnsureCollection, Snapshots
  <2> QED BY <1>2, <2>2, <2>3 DEF Snapshots
<1>7. CASE CS!GenerateEmbeddings
  <2>1. v3.pc = "embed" /\ (v3' = [v3 EXCEPT !.pc = "upsert"] \/ v3' = CS!SkipBatch(v3))
    BY <1>7 DEF CS!GenerateEmbeddings
  <2>2. CASE v3' = [v3 EXCEPT !.pc = "upsert"]
    BY <1>2, <2>1, <2>2 DEF Snapshots
  <2>3. CASE v3' = CS!SkipBatch(v3)
    BY <1>2, <2>1, <2>3, BatchSkipped
  <2> QED BY <2>1, <2>2, <2>3
<1>8. CASE CS!Upsert
  <2>1. v3.pc = "upsert" /\ (v3' = CS!NextBatch(v3) \/ v3' = CS!SkipBatch(v3))
    BY <1>8 DEF CS!Upsert
  <2> QED BY <1>2, <2>1, BatchSkipped
<1>9. CASE CS!FetchActiveListings
  <2> DEFINE order == CS!InOrder(CS!Active)
             snapshot == [i \in DOMAIN order |-> [id |-> order[i], payload |-> CS!Metadata(order[i])]]
             pc == IF CS!Active = {} THEN "off" ELSE "embed"
             n == Cardinality(CS!Active)
  <2>1. v3.pc = "listings" /\ v3' = [v3 EXCEPT !.snapshot = snapshot, !.pc = pc]
    BY <1>9 DEF CS!FetchActiveListings
  <2>2. CS!Active \subseteq CSListings
    BY DEF CS!Active
  <2>3. n \in Nat /\ n <= Cardinality(CSListings) /\ (CS!Active # {} => n # 0)
    BY <2>2, SearchLibrary, FS_Subset, FS_CardinalityType, FS_EmptySet
  <2>4. DOMAIN snapshot = 1 .. n
    BY SearchLibrary DEF CS!InOrder
  <2> HIDE DEF snapshot, n
  <2>5. Len(snapshot) = n
    <3>1. \E T : snapshot \in [1 .. n -> T]
      <4>1. snapshot \in [1 .. n -> {snapshot[i] : i \in 1 .. n}]
        BY <2>4 DEF snapshot
      <4> QED BY <4>1
    <3> QED BY <2>3, <3>1
  <2>6. pc \in {"off", "embed"} /\ (pc = "embed" => CS!Active # {})
    OBVIOUS
  <2> HIDE DEF pc
  <2>7. /\ DOMAIN v3' = DOMAIN v3 /\ v3'.pc = pc /\ v3'.snapshot = snapshot
        /\ v3'.failed = v3.failed /\ v3'.at = v3.at
    BY <1>2, <2>1 DEF Snapshots
  <2>8. v3.at = 0
    BY <1>2, <2>1 DEF Snapshots
  <2> QED BY <1>2, <2>3, <2>5, <2>6, <2>7, <2>8, SearchLibrary DEF Snapshots
<1> QED BY <1>4, <1>5, <1>6, <1>7, <1>8, <1>9 DEF CS!Script

\* Every step of the search keeps the types.
LEMMA ScriptKept == ScriptInv /\ CS!Next => ScriptInv'
<1> SUFFICES ASSUME ScriptInv, CS!Next PROVE ScriptInv'
  OBVIOUS
<1>1. SearchInv /\ SearchInv'
  BY SearchKept DEF ScriptInv
<1>2. CASE CS!Start \/ CS!Script \/ CS!Exit
  <2>1. Snapshots(v3') /\ UNCHANGED <<v1, v6, v8, v9>>
    BY <1>2, ScriptSteps
  <2> QED BY <1>1, <2>1 DEF ScriptInv
<1>3. CASE CS!Move
  <2>1. UNCHANGED <<v3, v6, v8, v9>>
    BY <1>3 DEF CS!Move, CS!scriptVars, CS!chatVars
  <2>2. v1' \in [CSListings -> ListingRow]
    <3>1. v1 \in [CSListings -> ListingRow]
      BY DEF ScriptInv
    <3>2. PICK l \in CSListings :
            \/ v1' = [v1 EXCEPT ![l].active = ~@]
            \/ v1' = [v1 EXCEPT ![l].qty = 1 - @]
            \/ \E p \in CSPrices : v1' = [v1 EXCEPT ![l].price = p]
      BY <1>3 DEF CS!Move
    <3> DEFINE r == v1[l]
    <3>3. r \in ListingRow
      BY <3>1
    <3>4. \A q \in ListingRow : [v1 EXCEPT ![l] = q] \in [CSListings -> ListingRow]
      BY <3>1
    <3>5. CASE v1' = [v1 EXCEPT ![l].active = ~@]
      <4>1. v1' = [v1 EXCEPT ![l] = [r EXCEPT !.active = ~r.active]]
        BY <3>5
      <4>2. [r EXCEPT !.active = ~r.active] \in ListingRow
        BY <3>3, Zenon DEF ListingRow
      <4> QED BY <3>4, <4>1, <4>2
    <3>6. CASE v1' = [v1 EXCEPT ![l].qty = 1 - @]
      <4>1. v1' = [v1 EXCEPT ![l] = [r EXCEPT !.qty = 1 - r.qty]]
        BY <3>6
      <4>2. [r EXCEPT !.qty = 1 - r.qty] \in ListingRow
        BY <3>3 DEF ListingRow
      <4> QED BY <3>4, <4>1, <4>2
    <3>7. ASSUME NEW p \in CSPrices, v1' = [v1 EXCEPT ![l].price = p]
          PROVE  v1' \in [CSListings -> ListingRow]
      <4>1. v1' = [v1 EXCEPT ![l] = [r EXCEPT !.price = p]]
        BY <3>7
      <4>2. [r EXCEPT !.price = p] \in ListingRow
        BY <3>3 DEF ListingRow
      <4> QED BY <3>4, <4>1, <4>2
    <3> QED BY <3>2, <3>5, <3>6, <3>7
  <2> QED BY <1>1, <2>1, <2>2 DEF ScriptInv
<1>4. CASE CS!Expire
  <2>1. /\ v6' = <<>> /\ v9' = v9 \cup CS!Range(v8) /\ v8' = v8 /\ v1' = v1 /\ v3' = v3
    BY <1>4 DEF CS!Expire, CS!scriptVars
  <2>2. CSMaxHistory \in Nat /\ Len(v6') = 0
    BY <2>1, ServiceSideAssumption DEF CS!CatalogueSearchAssumption
  <2> QED BY <1>1, <2>1, <2>2 DEF ScriptInv
<1>5. ASSUME NEW c \in CSChats, CS!SaveHistory(c) PROVE ScriptInv'
  <2> DEFINE m == v7[c].seen \o CS!Turn(c)
  <2>1. /\ v6' = CS!Newest(m) /\ v8' = Append(v8, c) /\ v1' = v1 /\ v3' = v3
        /\ v9' = v9 \cup (CS!Range(v8) \ v7[c].read)
    BY <1>5 DEF CS!SaveHistory, CS!scriptVars
  <2>2. v7[c].seen \in Seq(Message) /\ v8 \in Seq(CSChats)
    BY <1>1 DEF SearchInv, ChatRecord
  <2>3. m \in Seq(Message)
    BY <2>2, OneMoreTurn
  <2> HIDE DEF m
  <2>4. Len(v6') <= CSMaxHistory
    <3>1. Len(v6') = IF Len(m) <= CSMaxHistory THEN Len(m) ELSE CSMaxHistory
      BY <2>1, <2>3, NewestMessages
    <3>2. CSMaxHistory \in Nat /\ Len(m) \in Nat
      BY <2>3, ServiceSideAssumption DEF CS!CatalogueSearchAssumption
    <3> QED BY <3>1, <3>2
  <2>5. CS!Range(v8) \subseteq CS!Range(v8')
    <3> SUFFICES ASSUME NEW x \in CS!Range(v8) PROVE x \in CS!Range(v8')
      OBVIOUS
    <3>1. PICK p \in DOMAIN v8 : v8[p] = x
      BY DEF CS!Range
    <3>2. p \in DOMAIN v8' /\ v8'[p] = x
      BY <2>1, <2>2, <3>1, AppendProperties
    <3> QED BY <3>2 DEF CS!Range
  <2>6. v9' \subseteq CS!Range(v8')
    BY <2>1, <2>5 DEF ScriptInv
  <2> QED BY <1>1, <2>1, <2>4, <2>6 DEF ScriptInv
<1>6. ASSUME NEW c \in CSChats,
             CS!GetHistory(c) \/ CS!ExtractIntent(c) \/ CS!SearchIndex(c) \/ CS!FetchLive(c) \/ CS!Fail(c)
      PROVE  ScriptInv'
  <2>1. UNCHANGED <<v1, v3, v6, v8, v9>>
    BY <1>6 DEF CS!GetHistory, CS!ExtractIntent, CS!SearchIndex, CS!FetchLive, CS!Fail, CS!scriptVars
  <2> QED BY <1>1, <2>1 DEF ScriptInv
<1> QED BY <1>2, <1>3, <1>4, <1>5, <1>6 DEF CS!Next

\* The steps of the composition keep the types of the search.
LEMMA ScriptInvStep == ScriptPart /\ [ServicesNext]_allVars => ScriptPart'
<1> SUFFICES ASSUME ScriptPart, [ServicesNext]_allVars, part' = "search" PROVE ScriptInv'
  BY DEF ScriptPart
<1>1. CASE SearchStep
  BY <1>1, ScriptKept DEF SearchStep, ScriptPart
<1>2. CASE UNCHANGED allVars
  <2>1. UNCHANGED <<part, v1, v3, v6, v8, v9>>
    BY <1>2 DEF allVars, slots, after4
  <2>2. ScriptInv /\ SearchPart
    BY <2>1 DEF ScriptPart, ScriptInv, SearchPart
  <2>3. SearchInv'
    BY <1>2, <2>1, <2>2, SearchInvStep DEF SearchPart, ScriptPart
  <2> QED BY <2>1, <2>2, <2>3 DEF ScriptInv
<1>3. CASE ServicesNext /\ ~SearchStep
  BY <1>3
     DEF ServicesNext, PaymentsStep, PhonesStep, UsersStep, FiltersStep, ModelsStep, PicksStep
<1> QED BY <1>1, <1>2, <1>3

-----------------------------------------------------------------------------
(* The types of all the parts *)

PaymentsPart == part \in Parts /\ PInv

\* The payments are at their start whichever part the behaviour is one of.
LEMMA PaymentsPartInit == ServicesInit => PaymentsPart
<1>1. ServicesInit => part \in Parts /\ Init
  BY Zenon DEF ServicesInit, Parts
<1> QED BY <1>1, PInvInit DEF PaymentsPart

\* Only a step of the payments changes what is said of them.
LEMMA PaymentsPartStep == PaymentsPart /\ [ServicesNext]_allVars => PaymentsPart'
<1> SUFFICES ASSUME PaymentsPart, [ServicesNext]_allVars PROVE PaymentsPart'
  OBVIOUS
<1>1. CASE PaymentsStep
  <2>1. UNCHANGED part /\ Next
    BY <1>1 DEF PaymentsStep
  <2> QED BY <2>1, PInvNext DEF PaymentsPart
<1>2. CASE UNCHANGED <<vars, part>>
  <2>1. UNCHANGED vars /\ UNCHANGED part
    BY <1>2
  <2> QED BY <2>1, PInvNext DEF PaymentsPart
<1>3. CASE UNCHANGED allVars
  <2>1. UNCHANGED <<vars, part>>
    BY <1>3 DEF allVars
  <2> QED BY <1>2, <2>1
<1>4. CASE ServicesNext /\ ~PaymentsStep
  <2>1. UNCHANGED <<vars, part>>
    BY <1>4 DEF ServicesNext, PhonesStep, UsersStep, FiltersStep, ModelsStep, PicksStep, SearchStep
  <2> QED BY <1>2, <2>1
<1> QED BY <1>1, <1>3, <1>4

\* Every service keeps the types of its state, for any values of the constants.  In the search
\* it takes that a batch is begun only where a listing is left, and that a history is cut to its
\* greatest length when it is saved.
THEOREM PartsTyped == Services => []PartTypeOK
<1>1. PaymentsPart /\ PhonesInv /\ UsersPart /\ FiltersPart /\ ModelsPart /\ PicksPart /\ ScriptPart
        => PartTypeOK
  <2> SUFFICES ASSUME PaymentsPart, PhonesInv, UsersPart, FiltersPart, ModelsPart, PicksPart,
                      ScriptPart
               PROVE  PartTypeOK
    OBVIOUS
  <2>1. part \in Parts /\ TypeOK
    BY DEF PaymentsPart, PInv
  <2>2. part = "phones" => Ph!TypeOK
    BY DEF PhonesInv
  <2>3. part = "users" => Us!TypeOK
    BY DEF UsersPart, Us!UsersInv
  <2>4. part = "filters" => LF!TypeOK
    BY DEF FiltersPart, FiltersInv
  <2>5. part = "models" => MF!TypeOK
    BY DEF ModelsPart, ModelsInv
  <2>6. part = "picks" => LP!TypeOK
    BY DEF PicksPart, PicksInv
  <2>7. ScriptInv => CS!TypeOK
    <3> SUFFICES ASSUME ScriptInv PROVE CS!TypeOK
      OBVIOUS
    <3>1. \A l \in CSListings : v1[l].qty \in 0 .. 1 /\ v1[l].price \in CSPrices
      BY DEF ScriptInv, ListingRow
    <3>2. v3.failed \subseteq 1 .. CS!Cardinality(CSListings)
      BY SearchLibrary DEF ScriptInv, Snapshots
    <3>3. v3.pc \in {"off", "collection", "listings", "embed", "upsert", "summary"}
      BY DEF ScriptInv, Snapshots
    <3> QED BY <3>1, <3>2, <3>3 DEF ScriptInv, CS!TypeOK
  <2> QED BY <2>1, <2>2, <2>3, <2>4, <2>5, <2>6, <2>7 DEF ScriptPart, PartTypeOK
<1> QED
  BY PaymentsPartInit, PaymentsPartStep, PhonesInit, PhonesInvStep, UsersInit, UsersInvStep,
     FiltersInvInit, FiltersInvStep, ModelsInvInit, ModelsInvStep, PicksInvInit, PicksInvStep,
     ScriptInvInit, ScriptInvStep, <1>1, PTL DEF Services

=============================================================================
