------------------------------- MODULE OrdersProofs -------------------------------
(***************************************************************************)
(* The safety of the order side.  A behaviour of the composition is one of *)
(* the part that its first state chose: each part has an invariant of its  *)
(* own, which its steps keep and which the steps of the others do not      *)
(* touch.  The amounts of an order and the pages of a list have their      *)
(* proofs in modules of their own, which are taken over here.              *)
(***************************************************************************)
EXTENDS OrderSide, FiniteSetTheorems, SequenceTheorems, WellFoundedInduction, TLAPS

AP == INSTANCE AmountsProofs WITH
  tag <- v1, page <- v2, order <- v3, answer <- v4, request <- v5, since <- v6,
  Listings <- AmListings, Shops <- AmShops, Locations <- AmLocations,
  Cities <- AmCities, Categories <- AmCategories,
  Details <- AmDetails, PriceTags <- AmPriceTags, FirstTags <- AmFirstTags,
  Repriced <- AmRepriced, Tariff <- AmTariff, Default <- AmDefault,
  Destinations <- AmDestinations, Quantities <- AmQuantities,
  MaxLines <- AmMaxLines, Vouchers <- AmVouchers,
  Deviations <- AmDeviations, Absent <- None

RP == INSTANCE RepositoryProofs WITH
  table <- v1, reader <- v2, writer <- v3, writes <- v4,
  Ids <- ReIds, Keys <- ReKeys, Sizes <- ReSizes,
  Failures <- ReFailures, MaxWrites <- ReMaxWrites

-----------------------------------------------------------------------------
(* The checkout.  Every invariant follows from one inductive invariant,     *)
(* CInv, which says for each place a checkout can stand at what is stored  *)
(* and announced of its order by then.                                     *)

BeforeCommit == {"idle", "validate", "calculate", "transaction"}
AfterCommit  == {"cleanup", "cleaning", "notify", "emit"}

\* Before the transaction nothing of the order exists and nobody was told of it; after it,
\* until the request is over, all of it is stored.
StoredByPlace(r) ==
  /\ co[r].pc \in BeforeCommit =>
       order[r] = "nothing" /\ r \notin texted /\ r \notin announced
  /\ co[r].pc \in AfterCommit => order[r] = "full"

\* No answer is given before the request is over; "ok" only for a whole order.
Answered(r) ==
  /\ co[r].answer # "none" => co[r].pc = "done"
  /\ co[r].answer = "ok" => order[r] = "full"
  /\ co[r].answer = "ok" /\ co[r].method \in CashMethods => r \in announced

\* Only a cash order comes to the announcement.
Announced(r) ==
  /\ co[r].pc \in {"notify", "emit"} => co[r].method \in CashMethods
  /\ r \in texted \/ r \in announced => order[r] = "full" /\ co[r].method \in CashMethods

\* A voucher asked for was applied by the time the transaction begins.
VoucherApplied(r) ==
  co[r].voucher /\ (co[r].pc \in {"transaction"} \cup AfterCommit \/ order[r] # "nothing") =>
    co[r].discounted

Consistent(r) == StoredByPlace(r) /\ Answered(r) /\ Announced(r) /\ VoucherApplied(r)

CInv == TypeOK /\ \A r \in Requests : Consistent(r)

-----------------------------------------------------------------------------

\* Nothing is stored or announced when the server starts.
LEMMA CInvInit == Init => CInv
<1> SUFFICES ASSUME Init PROVE CInv
  OBVIOUS
<1>1. Idle \in Checkout
  BY DEF Idle, Checkout, Pcs, Answers, Methods, CashMethods
<1>2. TypeOK
  BY <1>1 DEF Init, TypeOK, Stored
<1>3. ASSUME NEW r \in Requests PROVE Consistent(r)
  BY DEF Init, Idle, Consistent, StoredByPlace, Answered, Announced, VoucherApplied,
     BeforeCommit, AfterCommit
<1> QED BY <1>2, <1>3 DEF CInv

\* Checkouts share no state: a step of r that keeps the types and leaves r consistent keeps
\* every other checkout consistent.
LEMMA CInvOfOne ==
  ASSUME CInv, TypeOK', NEW r \in Requests, Consistent(r)',
         \A q \in Requests \ {r} :
           /\ co'[q] = co[q] /\ order'[q] = order[q]
           /\ q \in texted' <=> q \in texted
           /\ q \in announced' <=> q \in announced
  PROVE  CInv'
<1>1. ASSUME NEW q \in Requests \ {r} PROVE Consistent(q)'
  <2>1. Consistent(q) BY DEF CInv
  <2> QED BY <2>1 DEF Consistent, StoredByPlace, Answered, Announced, VoucherApplied
<1> QED BY <1>1 DEF CInv

\* A step of r that stores and announces nothing.
LEMMA CInvQuiet ==
  ASSUME CInv, NEW r \in Requests, NEW k \in Checkout, co' = [co EXCEPT ![r] = k],
         UNCHANGED <<order, texted, announced>>,
         Consistent(r)'
  PROVE  CInv'
<1>1. TypeOK'
  BY DEF CInv, TypeOK
<1> QED BY <1>1, CInvOfOne DEF CInv, TypeOK

\* Every step of createOrder, and a crash between any two, preserves CInv.
LEMMA CInvNext == CInv /\ [Next]_vars => CInv'
<1> SUFFICES ASSUME CInv, [Next]_vars PROVE CInv'
  OBVIOUS
<1> USE DEF CInv
<1>0. ASSUME NEW r \in Requests
      PROVE  /\ co[r] \in Checkout /\ order[r] \in Stored /\ Consistent(r)
             /\ co \in [Requests -> Checkout] /\ order \in [Requests -> Stored]
  BY DEF TypeOK
<1>1. ASSUME NEW r \in Requests, NEW u \in Users \cup {Guest}, NEW items \in SUBSET Listings,
             NEW m \in Methods, NEW v \in BOOLEAN, Submit(r, u, items, m, v)
      PROVE  CInv'
  <2> DEFINE k == [Idle EXCEPT !.pc = "validate", !.user = u, !.items = items,
                               !.method = m, !.voucher = v]
  <2>1. k \in Checkout /\ k.pc = "validate" /\ k.answer = "none"
    BY DEF Idle, Checkout, Pcs, Answers
  <2>2. co' = [co EXCEPT ![r] = k] /\ co'[r] = k /\ UNCHANGED <<order, texted, announced>>
    BY <1>0, <1>1 DEF Submit
  <2>3. order[r] = "nothing" /\ r \notin texted /\ r \notin announced
    BY <1>0, <1>1 DEF Submit, At, Consistent, StoredByPlace, BeforeCommit
  <2> HIDE DEF k
  <2>4. Consistent(r)'
    BY <2>1, <2>2, <2>3 DEF Consistent, StoredByPlace, Answered, Announced, VoucherApplied,
       BeforeCommit, AfterCommit
  <2> QED BY <2>1, <2>2, <2>4, CInvQuiet
<1>2. ASSUME NEW r \in Requests, NEW ok \in BOOLEAN, Validate(r, ok)
      PROVE  CInv'
  <2>1. /\ co'[r] \in Checkout /\ co' = [co EXCEPT ![r] = co'[r]]
        /\ UNCHANGED <<order, texted, announced>>
    BY <1>0, <1>2 DEF Validate, Goto, Answer, Checkout, Pcs, Answers
  <2>2. Consistent(r)'
    BY <1>0, <1>2 DEF Validate, At, Goto, Answer, Checkout, Consistent, StoredByPlace,
       Answered, Announced, VoucherApplied, BeforeCommit, AfterCommit
  <2> QED BY <2>1, <2>2, CInvQuiet
<1>3. ASSUME NEW r \in Requests, NEW applies \in BOOLEAN, NEW totalMatches \in BOOLEAN,
             Calculate(r, applies, totalMatches)
      PROVE  CInv'
  <2>1. /\ co'[r] \in Checkout /\ co' = [co EXCEPT ![r] = co'[r]]
        /\ UNCHANGED <<order, texted, announced>>
    BY <1>0, <1>3 DEF Calculate, Answer, Checkout, Pcs, Answers
  <2>2. Consistent(r)'
    BY <1>0, <1>3 DEF Calculate, At, Answer, Checkout, Consistent, StoredByPlace,
       Answered, Announced, VoucherApplied, BeforeCommit, AfterCommit
  <2> QED BY <2>1, <2>2, CInvQuiet
<1>4. ASSUME NEW r \in Requests, Commit(r)
      PROVE  CInv'
  <2>1. /\ co'[r] \in Checkout /\ co' = [co EXCEPT ![r] = co'[r]]
        /\ order' = [order EXCEPT ![r] = "full"] /\ UNCHANGED <<texted, announced>>
    BY <1>0, <1>4 DEF Commit, Announce, Goto, Answer, Checkout, Pcs, Answers
  <2>2. TypeOK'
    BY <2>1 DEF TypeOK, Stored
  <2>3. Consistent(r)'
    <3>1. co[r].pc = "transaction" /\ Consistent(r) /\ order'[r] = "full"
      BY <1>0, <1>4 DEF Commit, At
    <3>2. CASE co'[r] = [co[r] EXCEPT !.pc = "done", !.answer = "ok"] /\ co[r].method \in ApgMethods
      <4>1. co[r].method \notin CashMethods
        BY <3>2 DEF ApgMethods, CashMethods
      <4> QED
        BY <1>0, <2>1, <3>1, <3>2, <4>1 DEF Checkout, Consistent, StoredByPlace, Answered,
           Announced, VoucherApplied, BeforeCommit, AfterCommit
    <3>3. CASE co'[r] = [co[r] EXCEPT !.pc = "notify"] /\ co[r].method \in CashMethods
      BY <1>0, <2>1, <3>1, <3>3 DEF Checkout, Consistent, StoredByPlace, Answered,
         Announced, VoucherApplied, BeforeCommit, AfterCommit
    <3>4. CASE co'[r] = [co[r] EXCEPT !.pc = "cleanup"]
      BY <1>0, <2>1, <3>1, <3>4 DEF Checkout, Consistent, StoredByPlace, Answered,
         Announced, VoucherApplied, BeforeCommit, AfterCommit
    <3> QED
      BY <1>0, <1>4, <3>2, <3>3, <3>4 DEF Commit, Announce, Goto, Answer, Checkout, Methods
  <2> QED BY <2>1, <2>2, <2>3, <1>0, CInvOfOne
<1>5. ASSUME NEW r \in Requests, CommitFails(r)
      PROVE  CInv'
  <2>1. PICK s \in Stored : order' = [order EXCEPT ![r] = s]
    BY <1>5 DEF CommitFails
  <2>2. /\ co' = [co EXCEPT ![r].pc = "done", ![r].answer = "failed"] /\ co[r].pc = "transaction"
        /\ UNCHANGED <<texted, announced>>
    BY <1>5 DEF CommitFails, Answer, At
  <2>3. TypeOK'
    <3>1. co'[r] \in Checkout /\ co' = [co EXCEPT ![r] = co'[r]]
      BY <1>0, <2>2 DEF Checkout, Pcs, Answers
    <3> QED BY <2>1, <2>2, <3>1 DEF TypeOK
  <2>4. Consistent(r)'
    BY <1>0, <2>1, <2>2 DEF Checkout, Consistent, StoredByPlace,
       Answered, Announced, VoucherApplied, BeforeCommit, AfterCommit
  <2> QED BY <2>1, <2>2, <2>3, <2>4, <1>0, CInvOfOne
<1>6. ASSUME NEW r \in Requests, StartCleanup(r)
      PROVE  CInv'
  <2>1. /\ co'[r] \in Checkout /\ co' = [co EXCEPT ![r] = co'[r]]
        /\ UNCHANGED <<order, texted, announced>>
    BY <1>0, <1>6 DEF StartCleanup, Goto, Checkout, Pcs
  <2>2. Consistent(r)'
    BY <1>0, <1>6 DEF StartCleanup, At, Goto, Checkout, Consistent, StoredByPlace,
       Answered, Announced, VoucherApplied, BeforeCommit, AfterCommit
  <2> QED BY <2>1, <2>2, CInvQuiet
<1>7. ASSUME NEW r \in Requests, CleanupDone(r)
      PROVE  CInv'
  <2>1. /\ co'[r] \in Checkout /\ co' = [co EXCEPT ![r] = co'[r]]
        /\ UNCHANGED <<order, texted, announced>>
    BY <1>0, <1>7 DEF CleanupDone, Announce, Goto, Answer, Checkout, Pcs, Answers
  <2>2. Consistent(r)'
    <3>1. co[r].pc = "cleaning" /\ Consistent(r)
      BY <1>0, <1>7 DEF CleanupDone, At
    <3>2. CASE co'[r] = [co[r] EXCEPT !.pc = "done", !.answer = "ok"] /\ co[r].method \in ApgMethods
      <4>1. co[r].method \notin CashMethods
        BY <3>2 DEF ApgMethods, CashMethods
      <4> QED
        BY <1>0, <2>1, <3>1, <3>2, <4>1 DEF Checkout, Consistent, StoredByPlace, Answered,
           Announced, VoucherApplied, BeforeCommit, AfterCommit
    <3>3. CASE co'[r] = [co[r] EXCEPT !.pc = "notify"] /\ co[r].method \in CashMethods
      BY <1>0, <2>1, <3>1, <3>3 DEF Checkout, Consistent, StoredByPlace, Answered,
         Announced, VoucherApplied, BeforeCommit, AfterCommit
    <3> QED
      BY <1>0, <1>7, <3>2, <3>3 DEF CleanupDone, Announce, Goto, Answer, Checkout, Methods
  <2> QED BY <2>1, <2>2, CInvQuiet
<1>8. ASSUME NEW r \in Requests, Notify(r)
      PROVE  CInv'
  <2>1. /\ co' = [co EXCEPT ![r].pc = "emit"] /\ co[r].pc = "notify"
        /\ texted' \in {texted, texted \cup {r}} /\ UNCHANGED <<order, announced>>
    BY <1>8 DEF Notify, Goto, At
  <2>2. TypeOK'
    BY <1>0, <2>1 DEF TypeOK, Checkout, Pcs
  <2>3. Consistent(r)'
    BY <1>0, <2>1 DEF Checkout, Consistent, StoredByPlace, Answered, Announced,
       VoucherApplied, BeforeCommit, AfterCommit
  <2> QED BY <2>1, <2>2, <2>3, <1>0, CInvOfOne
<1>9. ASSUME NEW r \in Requests, EmitCompleted(r)
      PROVE  CInv'
  <2>1. /\ co' = [co EXCEPT ![r].pc = "done", ![r].answer = "ok"] /\ co[r].pc = "emit"
        /\ announced' = announced \cup {r} /\ UNCHANGED <<order, texted>>
    BY <1>9 DEF EmitCompleted, Answer, At
  <2>2. TypeOK'
    <3>1. co'[r] \in Checkout /\ co' = [co EXCEPT ![r] = co'[r]]
      BY <1>0, <2>1 DEF Checkout, Pcs, Answers
    <3> QED BY <2>1, <3>1 DEF TypeOK
  <2>3. Consistent(r)'
    BY <1>0, <2>1 DEF Checkout, Consistent, StoredByPlace, Answered, Announced,
       VoucherApplied, BeforeCommit, AfterCommit
  <2> QED BY <2>1, <2>2, <2>3, <1>0, CInvOfOne
<1>10. CASE Crash
  <2>1. TypeOK'
    BY <1>0, <1>10 DEF Crash, TypeOK, Checkout, Pcs
  <2>2. ASSUME NEW r \in Requests PROVE Consistent(r)'
    BY <1>0, <1>10 DEF Crash, InFlight, Checkout, Consistent, StoredByPlace, Answered,
       Announced, VoucherApplied, BeforeCommit, AfterCommit
  <2> QED BY <2>1, <2>2
<1>11. CASE UNCHANGED vars
  BY <1>11 DEF vars, TypeOK, Consistent, StoredByPlace, Answered, Announced, VoucherApplied
<1> QED
  <2> HIDE DEF CInv
  <2> QED
    BY <1>1, <1>2, <1>3, <1>4, <1>5, <1>6, <1>7, <1>8, <1>9, <1>10, <1>11 DEF Next, Step

\* CInv holds in every reachable state.
THEOREM CInvAlways == Spec => []CInv
BY CInvInit, CInvNext, PTL DEF Spec

-----------------------------------------------------------------------------

\* The states of the checkout keep their types, whatever interleaves and fails.
THEOREM CheckoutTypeOK == Spec => []TypeOK
BY CInvAlways, PTL DEF CInv

\* A customer told that the order was placed has one, whole: no answer of createOrder
\* overtakes its transaction.
THEOREM CheckoutAcknowledgedIsStored == Spec => []AcknowledgedIsStored
<1>1. CInv => AcknowledgedIsStored
  BY DEF CInv, AcknowledgedIsStored, Consistent, Answered
<1> QED BY <1>1, CInvAlways, PTL

\* The SMS and the checkout.completed event speak of a stored cash order, across crashes.
THEOREM CheckoutAnnouncedIsStored == Spec => []AnnouncedIsStored
<1>1. CInv => AnnouncedIsStored
  BY DEF CInv, TypeOK, AnnouncedIsStored, Consistent, Announced
<1> QED BY <1>1, CInvAlways, PTL

\* An acknowledged cash order was announced, whether or not its SMS went out.
THEOREM CheckoutAcknowledgedIsAnnounced == Spec => []AcknowledgedIsAnnounced
<1>1. CInv => AcknowledgedIsAnnounced
  BY DEF CInv, AcknowledgedIsAnnounced, Consistent, Answered
<1> QED BY <1>1, CInvAlways, PTL

\* What is stored of an order asked for with a voucher has the discount, also of an order
\* whose transaction failed halfway.
THEOREM CheckoutDiscountOrNothing == Spec => []DiscountOrNothing
<1>1. CInv => DiscountOrNothing
  BY DEF CInv, DiscountOrNothing, Consistent, VoucherApplied
<1> QED BY <1>1, CInvAlways, PTL

-----------------------------------------------------------------------------

\* The operators that the instances bring with them are the library's.
LEMMA OrdersLibrary ==
  /\ \A S : OQ!Cardinality(S) = Cardinality(S) /\ LO!Cardinality(S) = Cardinality(S)
  /\ \A S : (OQ!IsFiniteSet(S) <=> IsFiniteSet(S)) /\ (LO!IsFiniteSet(S) <=> IsFiniteSet(S))
BY DEF OQ!Cardinality, LO!Cardinality, Cardinality, OQ!IsFiniteSet, LO!IsFiniteSet, IsFiniteSet

-----------------------------------------------------------------------------
(* Amounts *)

AmountsPart == part = "amounts" => AP!AInv

\* The proofs' instance of the amounts is the composition's.
LEMMA AmountsAreProofs ==
  /\ AP!AmountsAssumption /\ (Am!Init => AP!Init) /\ (Am!Next => AP!Next)
  /\ AP!AInv => /\ Am!TypeOK /\ Am!FeeCoversTheCut /\ Am!SourcesCarryTheOrder
                /\ Am!NoSaleAtOldPrice
<1>1. AP!AmountsAssumption
  BY OrderSideAssumption DEF Am!AmountsAssumption, AP!AmountsAssumption
<1>2. Am!Init => AP!Init
  BY DEF Am!Init, Am!NotRead, AP!Init, AP!NotRead
<1>3. Am!Next => AP!Next
  <2>1. \A lines : /\ Am!SubTotal(lines) = AP!SubTotal(lines)
                     /\ Am!ProductDiscount(lines) = AP!ProductDiscount(lines)
    BY DEF Am!SubTotal, Am!ProductDiscount, Am!Discount, Am!Priced, Am!SumLines,
           Am!SumFunction, Am!SumFunctionOnSet, Am!FoldFunctionOnSet, Am!MapThenFoldSet,
           AP!SubTotal, AP!ProductDiscount, AP!Discount, AP!Priced, AP!SumLines,
           AP!SumFunction, AP!SumFunctionOnSet, AP!FoldFunctionOnSet, AP!MapThenFoldSet
  <2>2. \A lines, city, ok : Am!Delivery(lines, city, ok) = AP!Delivery(lines, city, ok)
    BY DEF Am!Delivery, Am!HasMeta, Am!ShippingCharge, Am!ChargesOf, Am!SumLines,
           Am!SumFunction, Am!SumFunctionOnSet, Am!FoldFunctionOnSet, Am!MapThenFoldSet,
           AP!Delivery, AP!HasMeta, AP!ShippingCharge, AP!ChargesOf, AP!SumLines,
           AP!SumFunction, AP!SumFunctionOnSet, AP!FoldFunctionOnSet, AP!MapThenFoldSet
  <2>3. \A s, d, v, m : Am!OrderTotals(s, d, v, m) = AP!OrderTotals(s, d, v, m)
    BY DEF Am!OrderTotals, Am!BnplTotals, Am!PlatformFee, Am!WholeRupees, Am!CeilDiv,
           Am!BASIS, Am!RUPEE, Am!Rate, AP!OrderTotals, AP!BnplTotals, AP!PlatformFee,
           AP!WholeRupees, AP!CeilDiv, AP!BASIS, AP!RUPEE, AP!Rate
  <2>4. \A lines, d, v : Am!Header(lines, d, v) = AP!Header(lines, d, v)
    BY <2>1 DEF Am!Header, Am!SumLines, Am!SumFunction, Am!SumFunctionOnSet,
           Am!FoldFunctionOnSet, Am!MapThenFoldSet, AP!Header, AP!SumLines, AP!SumFunction,
           AP!SumFunctionOnSet, AP!FoldFunctionOnSet, AP!MapThenFoldSet
  <2>5. \A lines, of, seen : Am!Items(lines, of, seen) = AP!Items(lines, of, seen)
    BY DEF Am!Items, Am!Item, AP!Items, AP!Item
  <2>6. \A items : Am!Sources(items) = AP!Sources(items)
    BY DEF Am!Sources, Am!Source, Am!SumFunction, Am!SumFunctionOnSet, Am!FoldFunctionOnSet,
           Am!MapThenFoldSet, AP!Sources, AP!Source, AP!SumFunction, AP!SumFunctionOnSet,
           AP!FoldFunctionOnSet, AP!MapThenFoldSet
  <2>7. \A line, seen : Am!PriceMatches(line, seen) <=> AP!PriceMatches(line, seen)
    BY DEF Am!PriceMatches, Am!Discount, Am!Distance, AP!PriceMatches, AP!Discount,
           AP!Distance
  <2>8. \A fee, totals, m : /\ Am!FeeAccepted(fee, totals, m) <=> AP!FeeAccepted(fee, totals, m)
                            /\ Am!TotalAccepted(fee, totals, m) <=> AP!TotalAccepted(fee, totals, m)
    BY DEF Am!FeeAccepted, Am!TotalAccepted, Am!Distance, Am!RequiresPlatformFee, Am!Rate,
           AP!FeeAccepted, AP!TotalAccepted, AP!Distance, AP!RequiresPlatformFee, AP!Rate
  <2>9. \A req : Am!Validate(req) <=> AP!Validate(req)
    BY <2>7 DEF Am!Validate, AP!Validate
  <2>10. \A ok : Am!Store(ok) <=> AP!Store(ok)
    BY <2>1, <2>2, <2>3, <2>4, <2>5, <2>6, <2>8 DEF Am!Store, Am!Payment, Am!NotRead, AP!Store,
       AP!Payment, AP!NotRead
  <2>11. Am!LinesShown = AP!LinesShown
    BY DEF Am!LinesShown, Am!LineShown, AP!LinesShown, AP!LineShown
  <2>12. \A lines, city, m, percent :
           Am!Submit(lines, city, m, percent) <=> AP!Submit(lines, city, m, percent)
    <3> SUFFICES ASSUME NEW lines, NEW city, NEW m, NEW percent
                 PROVE  Am!Submit(lines, city, m, percent) <=> AP!Submit(lines, city, m, percent)
      OBVIOUS
    <3> DEFINE ours == Am!OrderTotals(Am!SubTotal(lines), Am!Delivery(lines, city, TRUE).total,
                                      (Am!SubTotal(lines) * percent) \div 100, m)
               theirs == AP!OrderTotals(AP!SubTotal(lines), AP!Delivery(lines, city, TRUE).total,
                                        (AP!SubTotal(lines) * percent) \div 100, m)
               Request(totals, d) ==
                 [lines |-> lines, city |-> city, method |-> m, voucher |-> percent,
                  fee |-> IF d = None THEN None ELSE totals.platformFee + d,
                  total |-> IF d = None THEN None ELSE totals.grandTotal + d, seen |-> v1]
    <3>1. ours = theirs
      BY <2>1, <2>2, <2>3
    <3>2. Am!Submit(lines, city, m, percent)
            <=> \E d \in AmDeviations : Am!Validate(Request(ours, d))
      BY DEF Am!Submit
    <3>3. AP!Submit(lines, city, m, percent)
            <=> \E d \in AmDeviations : AP!Validate(Request(theirs, d))
      BY DEF AP!Submit
    <3> HIDE DEF ours, theirs, Request
    <3> QED BY <2>9, <3>1, <3>2, <3>3
  <2> QED
    BY <2>10, <2>11, <2>12 DEF Am!Next, Am!Reprice, Am!LoadPage, Am!Methods, AP!Next, AP!Reprice,
       AP!LoadPage, AP!Methods
<1>4. AP!FeeCoversTheCut => Am!FeeCoversTheCut
  BY DEF AP!FeeCoversTheCut, AP!CoversTheCut, AP!Rate, AP!BASIS, AP!RUPEE,
         Am!FeeCoversTheCut, Am!CoversTheCut, Am!Rate, Am!BASIS, Am!RUPEE
<1>5. AP!SourcesCarryTheOrder => Am!SourcesCarryTheOrder
  BY DEF AP!SourcesCarryTheOrder, AP!NoEmptyLine, AP!SumFunction, AP!SumFunctionOnSet,
         AP!FoldFunctionOnSet, AP!MapThenFoldSet,
     Am!SourcesCarryTheOrder, Am!NoEmptyLine, Am!SumFunction, Am!SumFunctionOnSet,
     Am!FoldFunctionOnSet, Am!MapThenFoldSet
<1>6. AP!TypeOK => Am!TypeOK
  BY DEF AP!TypeOK, AP!Request, AP!Line, AP!OrderHeader, AP!OrderPayment, AP!OrderSource, AP!OrderItem, AP!Answers,
         AP!Methods,
     Am!TypeOK, Am!Request, Am!Line, Am!OrderHeader, Am!OrderPayment, Am!OrderSource, Am!OrderItem, Am!Answers,
     Am!Methods
<1>7. AP!NoSaleAtOldPrice => Am!NoSaleAtOldPrice
  BY DEF AP!NoSaleAtOldPrice, AP!Distance, Am!NoSaleAtOldPrice, Am!Distance
<1> QED BY <1>1, <1>2, <1>3, <1>4, <1>5, <1>6, <1>7 DEF AP!AInv

\* What a step of the composition is to the amounts.
LEMMA StepOfAmounts ==
  ASSUME [OrdersNext]_allVars, part' = "amounts"
  PROVE  part = "amounts" /\ [AP!Next]_(AP!vars)
<1>1. CASE AmountsStep
  BY <1>1, AmountsAreProofs DEF AmountsStep
<1>2. CASE UNCHANGED allVars
  BY <1>2 DEF allVars, slots, AP!vars
<1>3. CASE OrdersNext /\ ~AmountsStep
  BY <1>3 DEF OrdersNext, Checkouts, VouchersStep, QueriesStep, LegacyStep, PagesStep
<1> QED BY <1>1, <1>2, <1>3

\* The first state has no order.
LEMMA AmountsInvInit == OrdersInit => AmountsPart
BY AP!AInvInit, AmountsAreProofs DEF OrdersInit, AmountsPart

\* Every step keeps the amounts' invariant.
LEMMA AmountsInvStep == AmountsPart /\ [OrdersNext]_allVars => AmountsPart'
BY StepOfAmounts, AP!AInvNext, AmountsAreProofs DEF AmountsPart

\* What is receivable of an order covers it after the gateway's cut, for any prices and charges.
THEOREM FeesCover == OrdersSpec => []FeeCoversTheCut
<1>1. AmountsPart => FeeCoversTheCut
  BY AmountsAreProofs DEF AmountsPart, FeeCoversTheCut
<1> QED BY AmountsInvInit, AmountsInvStep, <1>1, PTL DEF OrdersSpec

\* The sources of an order account for the quantities and amounts of all its lines, however they are
\* split among them.
THEOREM SourcesAccount == OrdersSpec => []SourcesCarryTheOrder
<1>1. AmountsPart => SourcesCarryTheOrder
  BY AmountsAreProofs DEF AmountsPart, SourcesCarryTheOrder
<1> QED BY AmountsInvInit, AmountsInvStep, <1>1, PTL DEF OrdersSpec

\* No order is stored at a price and a discount that its listing had only before they were read for
\* the order.
THEOREM SoldAtPricesRead == OrdersSpec => []NoSaleAtOldPrice
<1>1. AmountsPart => NoSaleAtOldPrice
  BY AmountsAreProofs DEF AmountsPart, NoSaleAtOldPrice
<1> QED BY AmountsInvInit, AmountsInvStep, <1>1, PTL DEF OrdersSpec

-----------------------------------------------------------------------------
(* Queries: v1 is source, v2 status, v3 trx, v4 details, v5 list, v6 moves *)
(* and v7 callback.  That a finished order stays finished is a matter of   *)
(* the calculation, the transitions and the check of the stored status by  *)
(* a callback; that the payment is not behind the order rests on the order *)
(* of the two reads, and on a callback that writes the payment over what   *)
(* it read of it.                                                          *)

\* A source that waits for the verification of a payment has one that was approved, and so has
\* an order that was read while one of its sources did.  A callback knows the gateway's last word
\* of a payment that is decided, and is to write over the payment that is stored.
QInv ==
  /\ OQ!TypeOK
  /\ v7.pc # "idle" /\ v3[v7.order] # "PENDING" => OQ!TrxStatus(v7.seen) = v3[v7.order]
  /\ v7.pc = "flush" => v7.trx = v3[v7.order]
  /\ \A s \in OQSources : v1[s] = "Verifying Payment" => v3[OQOrderOf[s]] = "APPROVED"
  /\ v4.pc = "payment" /\ v4.status = "Verifying Payment"
       => v3[v4.order] = "APPROVED"
  /\ OQ!PaymentNotBehind

\* What a source of an order has to do with it.
LEMMA OfSources ==
  ASSUME NEW o \in OQOrders, NEW s \in OQ!SourcesOf(o)
  PROVE  s \in OQSources /\ OQOrderOf[s] = o /\ v1[s] \in OQ!Statuses(o)
BY DEF OQ!SourcesOf, OQ!Statuses

\* What a calculated status says of the sources.
LEMMA ShownCompleted ==
  ASSUME NEW statuses, OQ!CalculateOrderStatus(statuses) = "Completed"
  PROVE  statuses = {"Delivered"}
BY DEF OQ!CalculateOrderStatus

\* An order is shown cancelled when every source of it is.
LEMMA ShownCancelled ==
  ASSUME NEW statuses, OQ!CalculateOrderStatus(statuses) = "Cancelled"
  PROVE  statuses = {"Cancelled"}
BY DEF OQ!CalculateOrderStatus

\* An order is shown unpaid when the payment of every source failed.
LEMMA ShownUnpaid ==
  ASSUME NEW statuses, OQ!CalculateOrderStatus(statuses) = "Payment Failed"
  PROVE  statuses = {"Payment Failed"}
BY DEF OQ!CalculateOrderStatus

\* An order is shown waiting for the verification only when a source of it waits.
LEMMA ShownVerifying ==
  ASSUME NEW statuses, OQ!CalculateOrderStatus(statuses) = "Verifying Payment"
  PROVE  "Verifying Payment" \in statuses
BY DEF OQ!CalculateOrderStatus

\* The calculation gives a status an order can have.
LEMMA ShownTypes ==
  ASSUME NEW statuses
  PROVE  OQ!CalculateOrderStatus(statuses) \in OQ!OrderStatuses
BY DEF OQ!CalculateOrderStatus, OQ!OrderStatuses

\* What a step of the rest of the world, or of a request, does to sources and payments.
LEMMA QueriesSteps ==
  ASSUME [OQ!Next]_(OQ!vars)
  PROVE  \/ UNCHANGED <<v1, v3>>
         \/ \E ok \in BOOLEAN : OQ!CallbackFlushes(ok)
         \/ \E s \in OQSources, to \in OQ!SourceStatuses : OQ!DashboardMoves(s, to)
BY DEF OQ!Next, OQ!vars, OQ!DashboardFollows, OQ!AskDetails, OQ!ReadOrder, OQ!ReadPayment,
       OQ!CloseDetails, OQ!AskList, OQ!CountStatuses, OQ!CloseList, OQ!UpdateOrderData,
       OQ!CallbackArrives, OQ!CallbackReads

\* What the gateway's word becomes.
LEMMA Words ==
  ASSUME NEW b \in OQ!BankStatuses
  PROVE  /\ OQ!OrderStatus(b) \in OQ!OrderStatuses /\ OQ!OrderStatus(b) \in OQ!SourceStatuses
         /\ OQ!TrxStatus(b) \in OQ!TrxStatuses
         /\ OQ!OrderStatus(b) = "Verifying Payment" => OQ!TrxStatus(b) = "APPROVED"
<1>1. CASE b = "Initiated"
  BY <1>1 DEF OQ!OrderStatus, OQ!TrxStatus, OQ!OrderStatuses, OQ!SourceStatuses, OQ!TrxStatuses
<1>2. CASE b = "Paid"
  BY <1>2 DEF OQ!OrderStatus, OQ!TrxStatus, OQ!OrderStatuses, OQ!SourceStatuses, OQ!TrxStatuses
<1>3. CASE b = "Failed"
  BY <1>3 DEF OQ!OrderStatus, OQ!TrxStatus, OQ!OrderStatuses, OQ!SourceStatuses, OQ!TrxStatuses
<1> QED BY <1>1, <1>2, <1>3 DEF OQ!BankStatuses

\* A flush makes the payment what the gateway said of it, and moves no source of another order.
LEMMA FlushWrites ==
  ASSUME QInv, NEW ok \in BOOLEAN, OQ!CallbackFlushes(ok)
  PROVE  /\ v7.order \in OQOrders /\ v7.seen \in OQ!BankStatuses
         /\ \/ v1' = v1 /\ v2' = v2 /\ v3' = v3
            \/ /\ v3' = [v3 EXCEPT ![v7.order] = OQ!TrxStatus(v7.seen)]
               /\ v1' \in [OQSources -> OQ!SourceStatuses]
               /\ \A s \in OQSources : \/ v1'[s] = v1[s]
                                       \/ /\ OQOrderOf[s] = v7.order
                                          /\ v1'[s] = OQ!OrderStatus(v7.seen)
               /\ v2' \in [OQOrders -> OQ!OrderStatuses]
<1> DEFINE o == v7.order
           st == OQ!OrderStatus(v7.seen)
           tr == OQ!TrxStatus(v7.seen)
<1>1. o \in OQOrders /\ v7.seen \in OQ!BankStatuses
  BY DEF QInv, OQ!TypeOK, OQ!Callback
<1>2. st \in OQ!OrderStatuses /\ st \in OQ!SourceStatuses /\ tr \in OQ!TrxStatuses
  BY <1>1, Words
<1>3. CASE ~ok
  BY <1>1, <1>3 DEF OQ!CallbackFlushes
<1>4. CASE ok
  <2>1. /\ v1' = [s \in OQSources |-> IF s \in OQ!SourcesOf(o) /\ v7.sources[s] # st
                                     THEN st ELSE v1[s]]
        /\ v2' = [v2 EXCEPT ![o] = IF st # "Pending" THEN st ELSE @]
        /\ v3' = [v3 EXCEPT ![o] = IF v7.trx # tr THEN tr ELSE @]
        /\ v7.pc = "flush"
    BY <1>4 DEF OQ!CallbackFlushes
  <2>2. /\ v7.trx = v3[o] /\ v3 \in [OQOrders -> OQ!TrxStatuses]
        /\ v1 \in [OQSources -> OQ!SourceStatuses] /\ v2 \in [OQOrders -> OQ!OrderStatuses]
    BY <2>1 DEF QInv, OQ!TypeOK
  <2> HIDE DEF st, tr
  <2>3. v3' = [v3 EXCEPT ![o] = tr]
    BY <1>1, <2>1, <2>2
  <2>4. v1' \in [OQSources -> OQ!SourceStatuses] /\ v2' \in [OQOrders -> OQ!OrderStatuses]
    BY <1>1, <1>2, <2>1, <2>2
  <2>5. \A s \in OQSources : v1'[s] = v1[s] \/ (OQOrderOf[s] = o /\ v1'[s] = st)
    BY <2>1 DEF OQ!SourcesOf
  <2> QED BY <1>1, <2>3, <2>4, <2>5 DEF st, tr
<1> QED BY <1>3, <1>4

\* A payment that is decided stays as it is, and no source of its order starts to wait for it.
LEMMA PaymentsOnce ==
  ASSUME OQ!OrderQueriesAssumption, QInv, [OQ!Next]_(OQ!vars)
  PROVE  /\ v1' \in [OQSources -> OQ!SourceStatuses] /\ v3' \in [OQOrders -> OQ!TrxStatuses]
         /\ \A o \in OQOrders : v3[o] # "PENDING" => v3'[o] = v3[o]
         /\ \A s \in OQSources : v1'[s] = "Verifying Payment" => v3'[OQOrderOf[s]] = "APPROVED"
<1>0. OQOrderOf \in [OQSources -> OQOrders]
  BY DEF OQ!OrderQueriesAssumption
<1>1. CASE UNCHANGED <<v1, v3>>
  BY <1>1 DEF QInv, OQ!TypeOK
<1>2. ASSUME NEW ok \in BOOLEAN, OQ!CallbackFlushes(ok)
      PROVE  /\ v1' \in [OQSources -> OQ!SourceStatuses] /\ v3' \in [OQOrders -> OQ!TrxStatuses]
             /\ \A q \in OQOrders : v3[q] # "PENDING" => v3'[q] = v3[q]
             /\ \A s \in OQSources : v1'[s] = "Verifying Payment" => v3'[OQOrderOf[s]] = "APPROVED"
  <2> DEFINE st == OQ!OrderStatus(v7.seen)
             tr == OQ!TrxStatus(v7.seen)
  <2>1. /\ v7.order \in OQOrders /\ st \in OQ!SourceStatuses /\ tr \in OQ!TrxStatuses
        /\ st = "Verifying Payment" => tr = "APPROVED"
    BY <1>2, FlushWrites, Words
  <2>2. /\ v3[v7.order] # "PENDING" => tr = v3[v7.order]
        /\ v3 \in [OQOrders -> OQ!TrxStatuses] /\ v1 \in [OQSources -> OQ!SourceStatuses]
        /\ \A s \in OQSources : v1[s] = "Verifying Payment" => v3[OQOrderOf[s]] = "APPROVED"
    BY <1>2 DEF QInv, OQ!TypeOK, OQ!CallbackFlushes
  <2>3. CASE v1' = v1 /\ v3' = v3
    BY <2>2, <2>3
  <2>4. CASE /\ v3' = [v3 EXCEPT ![v7.order] = tr]
             /\ v1' \in [OQSources -> OQ!SourceStatuses]
             /\ \A s \in OQSources : v1'[s] = v1[s] \/ (OQOrderOf[s] = v7.order /\ v1'[s] = st)
    <3> HIDE DEF st, tr
    <3>1. v3' \in [OQOrders -> OQ!TrxStatuses]
      BY <2>1, <2>2, <2>4
    <3>2. \A q \in OQOrders : v3[q] # "PENDING" => v3'[q] = v3[q]
      BY <2>1, <2>2, <2>4
    <3>3. ASSUME NEW s \in OQSources, v1'[s] = "Verifying Payment"
          PROVE  v3'[OQOrderOf[s]] = "APPROVED"
      <4>1. CASE v1'[s] = v1[s]
        BY <1>0, <2>2, <3>2, <3>3, <4>1
      <4>2. CASE OQOrderOf[s] = v7.order /\ v1'[s] = st
        BY <2>1, <2>2, <2>4, <3>3, <4>2
      <4> QED BY <2>4, <4>1, <4>2
    <3> QED BY <2>4, <3>1, <3>2, <3>3
  <2> QED BY <1>2, <2>3, <2>4, FlushWrites
<1>3. ASSUME NEW s \in OQSources, NEW to \in OQ!SourceStatuses, OQ!DashboardMoves(s, to)
      PROVE  /\ v1' \in [OQSources -> OQ!SourceStatuses] /\ v3' = v3
             /\ \A t \in OQSources : v1'[t] = "Verifying Payment" => v3'[OQOrderOf[t]] = "APPROVED"
  <2>1. to # "Verifying Payment"
    BY <1>3 DEF OQ!DashboardMoves, OQ!Transitions
  <2>2. v1' = [v1 EXCEPT ![s] = to] /\ v3' = v3
    BY <1>3 DEF OQ!DashboardMoves
  <2> QED BY <2>1, <2>2 DEF QInv, OQ!TypeOK
<1> QED BY <1>1, <1>2, <1>3, QueriesSteps DEF QInv, OQ!TypeOK

\* A list that was not asked for.
LEMMA EmptyList == OQ!NoList \in OQ!List
BY DEF OQ!NoList, OQ!List, OQ!OrderStatuses

\* No callback is being handled.
LEMMA EmptyCallback == OQOrders # {} => OQ!NoCallback \in OQ!Callback
BY DEF OQ!NoCallback, OQ!Callback, OQ!BankStatuses, OQ!SourceStatuses, OQ!TrxStatuses

\* The first orders are as their sources.
LEMMA QInvBegins == OQ!OrderQueriesAssumption /\ OQ!Init => QInv
<1> SUFFICES ASSUME OQ!OrderQueriesAssumption, OQ!Init, OQOrders # {} PROVE QInv
  BY DEF OQ!OrderQueriesAssumption
<1>1. v1 \in [OQSources -> OQ!SourceStatuses] /\ v3 \in [OQOrders -> OQ!TrxStatuses]
  BY DEF OQ!Init, OQ!SourceStatuses, OQ!TrxStatuses
<1>2. v4 \in OQ!Details /\ v4.pc = "idle"
  BY DEF OQ!Init, OQ!NoDetails, OQ!Details, OQ!OrderStatuses, OQ!TrxStatuses
<1>3. \A s \in OQSources : v1[s] # "Verifying Payment"
  BY DEF OQ!Init
<1>5. v7 \in OQ!Callback /\ v7.pc = "idle"
  BY EmptyCallback DEF OQ!Init, OQ!NoCallback
<1>4. v2 \in [OQOrders -> OQ!OrderStatuses] /\ v5 \in OQ!List /\ v6 \in 0 .. OQMaxMoves
  BY EmptyList DEF OQ!Init, OQ!OrderStatuses, OQ!OrderQueriesAssumption
<1> QED BY <1>1, <1>2, <1>3, <1>4, <1>5 DEF QInv, OQ!TypeOK, OQ!PaymentNotBehind

\* A request for the details knows of a payment what is so, since the payment is read after the
\* order and was decided with it.
LEMMA DetailsFollow ==
  ASSUME OQ!OrderQueriesAssumption, QInv, [OQ!Next]_(OQ!vars)
  PROVE  /\ v4' \in OQ!Details
         /\ v4'.pc = "payment" /\ v4'.status = "Verifying Payment"
              => v3'[v4'.order] = "APPROVED"
         /\ OQ!PaymentNotBehind'
<1>1. CASE UNCHANGED v4
  <2>1. v4.order \in OQOrders
    BY DEF QInv, OQ!TypeOK, OQ!Details
  <2> QED BY <1>1, <2>1, PaymentsOnce DEF QInv, OQ!TypeOK, OQ!PaymentNotBehind
<1>2. ASSUME NEW o \in OQOrders, OQ!AskDetails(o)
      PROVE  v4' \in OQ!Details /\ v4'.pc = "order"
  BY <1>2 DEF OQ!AskDetails, OQ!NoDetails, OQ!Details, OQ!OrderStatuses, OQ!TrxStatuses
<1>3. CASE OQ!ReadOrder
  <2> DEFINE o == v4.order
  <2>1. /\ v4' = [v4 EXCEPT !.pc = "payment", !.status = OQ!Displayed(o), !.groups = OQ!Groups(o)]
        /\ v3' = v3
    BY <1>3 DEF OQ!ReadOrder
  <2>2. o \in OQOrders /\ OQ!Displayed(o) \in OQ!OrderStatuses /\ OQ!Groups(o) \in SUBSET SUBSET OQSources
    <3>1. o \in OQOrders
      BY DEF QInv, OQ!TypeOK, OQ!Details
    <3>2. OQ!Displayed(o) \in OQ!OrderStatuses
      BY ShownTypes DEF OQ!Displayed
    <3>3. OQ!Groups(o) \in SUBSET SUBSET OQSources
      BY DEF OQ!Groups, OQ!SourcesOf
    <3> QED BY <3>1, <3>2, <3>3
  <2>3. ASSUME OQ!Displayed(o) = "Verifying Payment" PROVE v3[o] = "APPROVED"
    <3>1. "Verifying Payment" \in OQ!Statuses(o)
      BY <2>3, ShownVerifying DEF OQ!Displayed
    <3>2. PICK s \in OQ!SourcesOf(o) : v1[s] = "Verifying Payment"
      BY <3>1 DEF OQ!Statuses
    <3>3. s \in OQSources /\ OQOrderOf[s] = o
      BY <2>2, OfSources
    <3> QED BY <3>2, <3>3 DEF QInv, OQ!TypeOK
  <2> HIDE DEF o
  <2>4. /\ v4' \in OQ!Details /\ v4'.pc = "payment" /\ v4'.order = v4.order
        /\ v4'.status = OQ!Displayed(o)
    BY <2>1, <2>2 DEF QInv, OQ!TypeOK, OQ!Details
  <2> QED BY <2>1, <2>3, <2>4 DEF OQ!PaymentNotBehind, o
<1>4. CASE OQ!ReadPayment
  <2>1. /\ v4' = [v4 EXCEPT !.pc = "answered", !.trx = v3[v4.order]]
        /\ v3' = v3 /\ v4.pc = "payment"
    BY <1>4 DEF OQ!ReadPayment
  <2>2. /\ v4' \in OQ!Details /\ v4'.pc = "answered" /\ v4'.order = v4.order
        /\ v4'.status = v4.status /\ v4'.trx = v3[v4.order]
    BY <2>1 DEF QInv, OQ!TypeOK, OQ!Details
  <2> QED BY <2>1, <2>2 DEF QInv, OQ!TypeOK, OQ!PaymentNotBehind
<1>5. CASE OQ!CloseDetails
  <2>1. OQOrders # {}
    BY DEF QInv, OQ!TypeOK, OQ!Details
  <2> QED BY <1>5, <2>1 DEF OQ!CloseDetails, OQ!NoDetails, OQ!Details, OQ!OrderStatuses,
       OQ!TrxStatuses, OQ!PaymentNotBehind
<1> QED
  BY <1>1, <1>2, <1>3, <1>4, <1>5 DEF OQ!Next, OQ!vars, OQ!CallbackArrives, OQ!CallbackReads,
     OQ!CallbackFlushes, OQ!DashboardMoves, OQ!DashboardFollows, OQ!AskList, OQ!CountStatuses, OQ!CloseList, OQ!UpdateOrderData,
     OQ!PaymentNotBehind

\* A list is of the stored orders, counted by their status.
LEMMA ListTyped ==
  ASSUME OQ!OrderQueriesAssumption, QInv, [OQ!Next]_(OQ!vars)
  PROVE  v2' \in [OQOrders -> OQ!OrderStatuses] /\ v5' \in OQ!List /\ v6' \in 0 .. OQMaxMoves
<1>0. /\ v2 \in [OQOrders -> OQ!OrderStatuses] /\ v5 \in OQ!List /\ v6 \in 0 .. OQMaxMoves
      /\ OQMaxMoves \in Nat
  BY DEF QInv, OQ!TypeOK, OQ!OrderQueriesAssumption
<1>1. ASSUME NEW ok \in BOOLEAN, OQ!CallbackFlushes(ok)
      PROVE  v2' \in [OQOrders -> OQ!OrderStatuses] /\ v5' = v5 /\ v6' = v6
  BY <1>0, <1>1, FlushWrites DEF OQ!CallbackFlushes
<1>2. ASSUME NEW s \in OQSources, NEW to \in OQ!SourceStatuses, OQ!DashboardMoves(s, to)
      PROVE  v2' = v2 /\ v5' = v5 /\ v6' \in 0 .. OQMaxMoves
  BY <1>0, <1>2 DEF OQ!DashboardMoves
<1>3. ASSUME NEW o \in OQOrders, OQ!DashboardFollows(o)
      PROVE  v2' \in [OQOrders -> OQ!OrderStatuses] /\ v5' = v5 /\ v6' = v6
  <2>1. OQ!Displayed(o) \in OQ!OrderStatuses
    BY ShownTypes DEF OQ!Displayed
  <2> QED BY <1>0, <1>3, <2>1 DEF OQ!DashboardFollows
<1>4. ASSUME NEW filter \in OQFilters \cup {"all"}, OQ!AskList(filter)
      PROVE  v2' = v2 /\ v5' \in OQ!List /\ v6' = v6
  <2> DEFINE found == OQ!Matching(filter)
             shown == [o \in OQOrders |-> IF o \in found THEN OQ!Displayed(o) ELSE "Pending"]
  <2>1. found \subseteq OQOrders
    BY DEF OQ!Matching
  <2>2. shown \in [OQOrders -> OQ!OrderStatuses]
    <3>1. \A o : OQ!Displayed(o) \in OQ!OrderStatuses
      BY ShownTypes DEF OQ!Displayed
    <3>2. "Pending" \in OQ!OrderStatuses
      BY DEF OQ!OrderStatuses
    <3> QED BY <3>1, <3>2
  <2>3. v5' = [OQ!NoList EXCEPT !.pc = "found", !.filter = filter, !.found = found, !.shown = shown]
    BY <1>4 DEF OQ!AskList
  <2> HIDE DEF found, shown
  <2>4. v5' \in OQ!List
    BY <2>1, <2>2, <2>3, EmptyList DEF OQ!List
  <2> QED BY <1>4, <2>4 DEF OQ!AskList
<1>5. CASE OQ!CountStatuses
  <2> DEFINE counts == [st \in OQ!OrderStatuses |-> OQ!Cardinality({o \in OQOrders : v2[o] = st})]
  <2>1. counts \in [OQ!OrderStatuses -> Nat]
    <3>1. IsFiniteSet(OQOrders)
      BY OrdersLibrary DEF OQ!OrderQueriesAssumption
    <3>2. \A st : Cardinality({o \in OQOrders : v2[o] = st}) \in Nat
      BY <3>1, FS_Subset, FS_CardinalityType
    <3> QED BY <3>2, OrdersLibrary
  <2>2. v5' = [v5 EXCEPT !.pc = "answered", !.counts = counts]
    BY <1>5 DEF OQ!CountStatuses
  <2> HIDE DEF counts
  <2>3. v5' \in OQ!List
    BY <1>0, <2>1, <2>2 DEF OQ!List
  <2> QED BY <1>0, <1>5, <2>3 DEF OQ!CountStatuses
<1>6. CASE OQ!CloseList
  BY <1>0, <1>6, EmptyList DEF OQ!CloseList
<1> QED
  BY <1>0, <1>1, <1>2, <1>3, <1>4, <1>5, <1>6 DEF OQ!Next, OQ!vars, OQ!AskDetails, OQ!ReadOrder,
     OQ!ReadPayment, OQ!CloseDetails, OQ!UpdateOrderData, OQ!CallbackArrives, OQ!CallbackReads

\* A callback that is handled knows the last word, and of the payment what is stored: only a
\* callback writes payments, and one is handled at a time.
LEMMA CallbackKnows ==
  ASSUME OQ!OrderQueriesAssumption, QInv, [OQ!Next]_(OQ!vars)
  PROVE  /\ v7' \in OQ!Callback
         /\ v7'.pc # "idle" /\ v3'[v7'.order] # "PENDING"
              => OQ!TrxStatus(v7'.seen) = v3'[v7'.order]
         /\ v7'.pc = "flush" => v7'.trx = v3'[v7'.order]
<1>0. /\ v7 \in OQ!Callback /\ OQ!NoCallback \in OQ!Callback /\ OQ!NoCallback.pc = "idle"
      /\ v1 \in [OQSources -> OQ!SourceStatuses] /\ v3 \in [OQOrders -> OQ!TrxStatuses]
  BY EmptyCallback DEF QInv, OQ!TypeOK, OQ!OrderQueriesAssumption, OQ!NoCallback
<1>1. CASE UNCHANGED <<v3, v7>>
  BY <1>1 DEF QInv, OQ!TypeOK
<1>2. ASSUME NEW o \in OQOrders, NEW b \in OQ!BankStatuses, OQ!CallbackArrives(o, b)
      PROVE  /\ v7' \in OQ!Callback /\ v7'.pc = "read" /\ v3' = v3
             /\ v3[v7'.order] # "PENDING" => OQ!TrxStatus(v7'.seen) = v3[v7'.order]
  <2>1. /\ v7' = [OQ!NoCallback EXCEPT !.pc = "read", !.order = o, !.seen = b] /\ v3' = v3
        /\ v3[o] # "PENDING" => OQ!TrxStatus(b) = v3[o]
    BY <1>2 DEF OQ!CallbackArrives
  <2>2. v7' \in OQ!Callback /\ v7'.pc = "read" /\ v7'.order = o /\ v7'.seen = b
    BY <1>0, <2>1 DEF OQ!Callback
  <2> QED BY <2>1, <2>2
<1>3. ASSUME NEW found \in BOOLEAN, OQ!CallbackReads(found), v7' # OQ!NoCallback
      PROVE  /\ v7' \in OQ!Callback /\ v3' = v3 /\ v7.pc = "read"
             /\ v7'.order = v7.order /\ v7'.seen = v7.seen /\ v7'.trx = v3[v7.order]
  <2> DEFINE sources == [s \in OQSources |-> IF s \in OQ!SourcesOf(v7.order) THEN v1[s] ELSE "Pending"]
  <2>1. /\ v7' = [v7 EXCEPT !.pc = "flush", !.trx = v3[v7.order], !.sources = sources]
        /\ v3' = v3 /\ v7.pc = "read"
    BY <1>3 DEF OQ!CallbackReads
  <2>2. sources \in [OQSources -> OQ!SourceStatuses]
    BY <1>0 DEF OQ!SourceStatuses
  <2>3. v3[v7.order] \in OQ!TrxStatuses
    BY <1>0 DEF OQ!Callback
  <2> HIDE DEF sources
  <2> QED BY <1>0, <2>1, <2>2, <2>3 DEF OQ!Callback
<1>4. ASSUME NEW found \in BOOLEAN, OQ!CallbackReads(found), v7' = OQ!NoCallback
      PROVE  v7' \in OQ!Callback /\ v7'.pc = "idle"
  BY <1>0, <1>4
<1>5. ASSUME NEW ok \in BOOLEAN, OQ!CallbackFlushes(ok)
      PROVE  v7' \in OQ!Callback /\ v7'.pc = "idle"
  BY <1>0, <1>5 DEF OQ!CallbackFlushes
<1>6. ASSUME NEW found \in BOOLEAN, OQ!CallbackReads(found)
      PROVE  /\ v7' \in OQ!Callback
             /\ v7'.pc # "idle" /\ v3'[v7'.order] # "PENDING"
                  => OQ!TrxStatus(v7'.seen) = v3'[v7'.order]
             /\ v7'.pc = "flush" => v7'.trx = v3'[v7'.order]
  <2>1. CASE v7' # OQ!NoCallback
    BY <1>3, <1>6, <2>1 DEF QInv
  <2>2. CASE v7' = OQ!NoCallback
    BY <1>4, <1>6, <2>2
  <2> QED BY <2>1, <2>2
<1> QED
  BY <1>1, <1>2, <1>5, <1>6 DEF OQ!Next, OQ!vars, OQ!DashboardMoves,
     OQ!DashboardFollows, OQ!AskDetails, OQ!ReadOrder, OQ!ReadPayment, OQ!CloseDetails,
     OQ!AskList, OQ!CountStatuses, OQ!CloseList, OQ!UpdateOrderData

\* Every step keeps the invariant.
LEMMA QInvKept ==
  ASSUME OQ!OrderQueriesAssumption
  PROVE  QInv /\ [OQ!Next]_(OQ!vars) => QInv'
BY PaymentsOnce, DetailsFollow, ListTyped, CallbackKnows DEF QInv, OQ!TypeOK

\* The details never show an order paid with a payment that is not.
THEOREM NotBehind ==
  ASSUME OQ!OrderQueriesAssumption
  PROVE  OQ!Spec => []OQ!PaymentNotBehind
<1>1. QInv => OQ!PaymentNotBehind
  BY DEF QInv, OQ!TypeOK
<1> QED BY QInvBegins, QInvKept, <1>1, PTL DEF OQ!Spec

\* A callback that reads an order stored as decided does not get to write it.
LEMMA DecidedNotRead ==
  ASSUME [OQ!Next]_(OQ!vars), NEW o, v2[o] # "Pending", ~OQ!ToBeWritten(o)
  PROVE  ~OQ!ToBeWritten(o)'
<1>1. CASE UNCHANGED v7
  BY <1>1 DEF OQ!ToBeWritten
<1>2. ASSUME NEW q \in OQOrders, NEW b \in OQ!BankStatuses, OQ!CallbackArrives(q, b)
      PROVE  v7'.pc # "flush"
  BY <1>2 DEF OQ!CallbackArrives, OQ!NoCallback
<1>3. ASSUME NEW found \in BOOLEAN, OQ!CallbackReads(found), v7'.pc = "flush"
      PROVE  v7'.order # o
  <2>1. v7' # OQ!NoCallback
    BY <1>3 DEF OQ!NoCallback
  <2>2. v2[v7.order] = "Pending" /\ v7'.order = v7.order
    BY <1>3, <2>1 DEF OQ!CallbackReads
  <2> QED BY <2>2
<1>4. ASSUME NEW ok \in BOOLEAN, OQ!CallbackFlushes(ok)
      PROVE  v7'.pc # "flush"
  BY <1>4 DEF OQ!CallbackFlushes, OQ!NoCallback
<1> QED
  BY <1>1, <1>2, <1>3, <1>4 DEF OQ!ToBeWritten, OQ!Next, OQ!vars, OQ!DashboardMoves,
     OQ!DashboardFollows, OQ!AskDetails, OQ!ReadOrder, OQ!ReadPayment, OQ!CloseDetails,
     OQ!AskList, OQ!CountStatuses, OQ!CloseList, OQ!UpdateOrderData

\* A step moves no source of an order that is shown finished, except into cancellation.
LEMMA FinishedStep ==
  ASSUME QInv, [OQ!Next]_(OQ!vars)
  PROVE  OQ!FinishedStays
<1> SUFFICES ASSUME NEW o \in OQOrders, NEW s \in OQ!SourcesOf(o),
                    OQ!Displayed(o) \in {"Completed", "Cancelled", "Payment Failed"},
                    ~OQ!ToBeWritten(o)
             PROVE  v1'[s] \in {v1[s], "Cancelled"}
  BY DecidedNotRead DEF OQ!FinishedStays
<1>1. s \in OQSources /\ OQOrderOf[s] = o /\ v1[s] \in OQ!Statuses(o)
  BY OfSources
<1>2. \E st \in {"Delivered", "Cancelled", "Payment Failed"} : OQ!Statuses(o) = {st}
  BY ShownCompleted, ShownCancelled, ShownUnpaid DEF OQ!Displayed
<1>3. CASE UNCHANGED <<v1, v3>>
  BY <1>3
<1>4. ASSUME NEW ok \in BOOLEAN, OQ!CallbackFlushes(ok)
      PROVE  v1'[s] = v1[s]
  <2>1. v7.order # o
    BY <1>4 DEF OQ!CallbackFlushes, OQ!ToBeWritten
  <2> QED BY <1>1, <1>4, <2>1, FlushWrites
<1>5. ASSUME NEW t \in OQSources, NEW to \in OQ!SourceStatuses, OQ!DashboardMoves(t, to)
      PROVE  v1'[s] \in {v1[s], "Cancelled"}
  <2>1. v1' = [v1 EXCEPT ![t] = to] /\ <<v1[t], to>> \in OQ!Transitions
    BY <1>5 DEF OQ!DashboardMoves
  <2>2. CASE t = s
    <3>1. v1[t] \in {"Delivered", "Cancelled", "Payment Failed"}
      BY <1>1, <1>2, <2>2
    <3>2. to = "Cancelled"
      BY <2>1, <3>1 DEF OQ!Transitions
    <3> QED BY <1>1, <2>1, <2>2, <3>2 DEF QInv, OQ!TypeOK
  <2>3. CASE t # s
    BY <1>1, <2>1, <2>3 DEF QInv, OQ!TypeOK
  <2> QED BY <2>2, <2>3
<1> QED BY <1>3, <1>4, <1>5, QueriesSteps

\* An order that is stored and shown finished, with no callback still to write it, has nothing
\* to come, and no callback gets to write it.
THEOREM FinishedForGood ==
  ASSUME OQ!OrderQueriesAssumption
  PROVE  OQ!Spec => OQ!FinishedMeansFinished
<1>1. QInv /\ [OQ!Next]_(OQ!vars) => [OQ!FinishedStays]_(OQ!vars)
  BY FinishedStep
<1> QED BY QInvBegins, QInvKept, <1>1, PTL DEF OQ!Spec, OQ!FinishedMeansFinished

QueriesPart == part = "queries" => QInv

\* What a step of the composition is to the queries.
LEMMA StepOfQueries ==
  ASSUME [OrdersNext]_allVars, part' = "queries"
  PROVE  part = "queries" /\ [OQ!Next]_(OQ!vars)
<1>1. CASE QueriesStep
  BY <1>1 DEF QueriesStep
<1>2. CASE UNCHANGED allVars
  BY <1>2 DEF allVars, slots, OQ!vars
<1>3. CASE OrdersNext /\ ~QueriesStep
  BY <1>3 DEF OrdersNext, Checkouts, AmountsStep, VouchersStep, LegacyStep, PagesStep
<1> QED BY <1>1, <1>2, <1>3

\* The first orders are as their sources.
LEMMA QueriesInvInit == OrdersInit => QueriesPart
BY QInvBegins, OrderSideAssumption DEF OrdersInit, QueriesPart

\* Every step keeps the queries' invariant.
LEMMA QueriesInvStep == QueriesPart /\ [OrdersNext]_allVars => QueriesPart'
BY StepOfQueries, QInvKept, OrderSideAssumption DEF QueriesPart

\* The details of an order never show it paid with a payment that is not, for any orders, sources
\* and shops and any number of moves of the dashboard.
THEOREM PaymentAhead == OrdersSpec => []PaymentNotBehind
<1>1. QueriesPart => PaymentNotBehind
  BY DEF QueriesPart, QInv, PaymentNotBehind
<1> QED BY QueriesInvInit, QueriesInvStep, <1>1, PTL DEF OrdersSpec

\* An order that is stored and shown finished, with no callback still to write it, has nothing
\* to come, and no callback gets to write it.
THEOREM FinishedStaysFinished == OrdersSpec => FinishedMeansFinished
<1> DEFINE Stays == part = "queries" => OQ!FinishedStays
<1>1. QueriesPart /\ [OrdersNext]_allVars => [Stays]_allVars
  <2> SUFFICES ASSUME QueriesPart, [OrdersNext]_allVars, part = "queries", allVars' # allVars
               PROVE  OQ!FinishedStays
    OBVIOUS
  <2>1. part' = "queries"
    BY DEF OrdersNext, Checkouts, AmountsStep, VouchersStep, QueriesStep, LegacyStep, PagesStep
  <2> QED BY <2>1, StepOfQueries, FinishedStep DEF QueriesPart
<1> HIDE DEF Stays
<1>2. OrdersSpec => [][Stays]_allVars
  BY QueriesInvInit, QueriesInvStep, <1>1, PTL DEF OrdersSpec
<1> QED BY <1>2 DEF FinishedMeansFinished, Stays

-----------------------------------------------------------------------------
(* The old dashboard's orders: v1 is now, v2 row, v3 adding, v4 told, v5   *)
(* patch, v6 decided and v7 patches.  That a payment is decided no more    *)
(* often than updates overlap is a matter of counting: an update that has  *)
(* passed the check takes one place of Patches, and once a payment is      *)
(* decided no other passes it.                                             *)

\* The updates of order o that have passed the check and not yet written.
Passed(o) == {p \in LOPatches : v5[p].pc = "flush" /\ v5[p].order = o}

LTypes ==
  /\ v1 \in 0 .. LOMaxTime
  /\ v7 \in 0 .. LOMaxPatches
  /\ v2 \in [LOOrders -> LO!Row]
  /\ v3 \in [LOOrders -> LO!Adding]
  /\ v4 \in [LOOrders -> LO!Told]
  /\ v5 \in [LOPatches -> LO!Patch \cup {LO!NoPatch}]
  /\ v6 \in [LOOrders -> Nat]

\* An order that nobody has added yet is not there, and nothing refers to it.
NotAdded(o) ==
  LO!At(o, "idle") =>
    /\ ~v2[o].stored /\ v6[o] = 0
    /\ \A p \in LOPatches : v5[p] # LO!NoPatch => v5[p].order # o

CountedDecisions(o) ==
  /\ v6[o] > 0 => v2[o].trxStatus # "PENDING"
  /\ v6[o] + Cardinality(Passed(o)) <= Cardinality(LOPatches)
  /\ v6[o] + Cardinality(Passed(o)) <= v7

\* A request that got beyond its first step has stored its order.
RowThere(o) == v3[o] \notin {"idle", "err"} => v2[o].stored

LInv ==
  /\ LTypes
  /\ \A o \in LOOrders : NotAdded(o) /\ CountedDecisions(o) /\ RowThere(o)

\* What the invariant says of one order.
LEMMA LegacyTypes ==
  ASSUME LInv, NEW o \in LOOrders
  PROVE  /\ v2[o] \in LO!Row /\ NotAdded(o) /\ CountedDecisions(o) /\ RowThere(o)
         /\ v6[o] \in Nat /\ v3[o] \in LO!Adding /\ v4[o] \in LO!Told
BY DEF LInv, LTypes

\* Updates are finite in number, so that they can be counted.
LEMMA PassedCounted ==
  ASSUME LO!LegacyOrdersAssumption, NEW o
  PROVE  /\ Passed(o) \subseteq LOPatches /\ IsFiniteSet(Passed(o))
         /\ Cardinality(Passed(o)) \in Nat /\ Cardinality(LOPatches) \in Nat
         /\ Cardinality(Passed(o)) <= Cardinality(LOPatches)
<1>1. Passed(o) \subseteq LOPatches
  BY DEF Passed
<1>2. IsFiniteSet(LOPatches)
  BY OrdersLibrary DEF LO!LegacyOrdersAssumption
<1> QED BY <1>1, <1>2, FS_Subset, FS_CardinalityType

\* At first no order is stored and no update is under way.
LEMMA LInvInit == LO!LegacyOrdersAssumption /\ LO!Init => LInv
<1> SUFFICES ASSUME LO!LegacyOrdersAssumption, LO!Init PROVE LInv
  OBVIOUS
<1>1. LTypes
  BY DEF LO!Init, LTypes, LO!Row, LO!NoRow, LO!Adding, LO!Told, LO!Statuses, LO!TrxStatuses,
         LO!LegacyOrdersAssumption, LO!TrxMethods
<1>2. ASSUME NEW o \in LOOrders PROVE NotAdded(o) /\ CountedDecisions(o) /\ RowThere(o)
  <2>1. Passed(o) = {}
    BY DEF LO!Init, LO!NoPatch, Passed
  <2>2. Cardinality(Passed(o)) = 0 /\ Cardinality(LOPatches) \in Nat
    BY <2>1, PassedCounted, FS_EmptySet
  <2> QED BY <2>2 DEF LO!Init, LO!NoRow, LO!NoPatch, NotAdded, CountedDecisions, RowThere, LO!At
<1> QED BY <1>1, <1>2 DEF LInv

\* A step of the customer's request after the order is stored, and of the clock.
LEMMA LInvRequest ==
  ASSUME LInv, UNCHANGED <<v2, v5, v6, v7>>,
         v1' \in 0 .. LOMaxTime, v3' \in [LOOrders -> LO!Adding], v4' \in [LOOrders -> LO!Told],
         \A o \in LOOrders : \/ v3'[o] = v3[o]
                             \/ v3[o] \notin {"idle", "err"} /\ v3'[o] # "idle"
  PROVE  LInv'
<1>1. LTypes'
  BY DEF LInv, LTypes
<1>2. ASSUME NEW o \in LOOrders PROVE NotAdded(o)' /\ CountedDecisions(o)' /\ RowThere(o)'
  <2>1. NotAdded(o) /\ CountedDecisions(o) /\ RowThere(o)
    BY DEF LInv
  <2>2. Passed(o)' = Passed(o)
    BY DEF Passed
  <2> QED BY <2>1, <2>2 DEF NotAdded, CountedDecisions, RowThere, LO!At
<1> QED BY <1>1, <1>2 DEF LInv

\* The SMS, the message to the queue and the link change nothing but what was told.
LEMMA LInvTold ==
  ASSUME LInv, NEW o \in LOOrders, NEW ok \in BOOLEAN,
         LO!Sms(o, ok) \/ LO!Publish(o) \/ LO!Complete(o, ok)
  PROVE  LInv'
<1>1. /\ UNCHANGED <<v1, v2, v5, v6, v7>>
      /\ \E pc \in LO!Adding \ {"idle"} : v3' = [v3 EXCEPT ![o] = pc]
      /\ v3[o] \in {"sms", "publish", "refetch"}
  BY DEF LO!Sms, LO!Publish, LO!Complete, LO!PatchesUnchanged, LO!At, LO!Goto, LO!Adding
<1>2. \/ v4' = v4
      \/ \E q \in LOOrders, what \in LO!Told : v4' = [v4 EXCEPT ![q] = @ \cup what]
  BY DEF LO!Sms, LO!Publish, LO!Complete, LO!Tell, LO!Told
<1>3. v4' \in [LOOrders -> LO!Told]
  BY <1>2 DEF LInv, LTypes, LO!Told
<1>4. v3' \in [LOOrders -> LO!Adding] /\ v1' \in 0 .. LOMaxTime
  BY <1>1 DEF LInv, LTypes
<1> QED BY <1>1, <1>3, <1>4, LInvRequest DEF LInv, LTypes

\* An order is stored once, when nothing refers to it.
LEMMA LInvAdd ==
  ASSUME LInv, NEW o \in LOOrders, NEW body \in LO!Body, NEW ok \in BOOLEAN, LO!Add(o, body, ok)
  PROVE  LInv'
<1> DEFINE new == [LO!NoRow EXCEPT !.stored = TRUE, !.number = v1, !.trxMethod = body.trxMethod,
                                !.trxStatus = body.trxStatus, !.complete = body.complete]
<1>1. /\ v2' = IF ok THEN [v2 EXCEPT ![o] = new] ELSE v2
      /\ v3' = [v3 EXCEPT ![o] = IF ok THEN "sms" ELSE "err"]
      /\ UNCHANGED <<v1, v4, v5, v6, v7>> /\ v3[o] = "idle"
  BY DEF LO!Add, LO!Goto, LO!At, LO!PatchesUnchanged
<1>2. new \in LO!Row /\ new.stored = TRUE
  BY DEF LInv, LTypes, LO!Row, LO!NoRow, LO!Statuses, LO!TrxStatuses, LO!Body
<1> HIDE DEF new
<1>3. LTypes'
  BY <1>1, <1>2 DEF LInv, LTypes, LO!Adding
<1>4. ASSUME NEW q \in LOOrders PROVE NotAdded(q)' /\ CountedDecisions(q)' /\ RowThere(q)'
  <2>1. NotAdded(q) /\ CountedDecisions(q) /\ RowThere(q) /\ Passed(q)' = Passed(q) /\ v6[q] \in Nat
    BY <1>1 DEF LInv, LTypes, Passed
  <2>2. CASE q = o
    <3>1. v6[q] = 0
      BY <1>1, <2>1, <2>2 DEF NotAdded, LO!At
    <3>2. v3'[q] = (IF ok THEN "sms" ELSE "err") /\ (ok => v2'[q].stored)
      BY <1>1, <1>2, <2>2 DEF LInv, LTypes
    <3> QED BY <1>1, <2>1, <3>1, <3>2 DEF NotAdded, CountedDecisions, RowThere, LO!At
  <2>3. CASE q # o
    <3>1. v2'[q] = v2[q] /\ v3'[q] = v3[q]
      BY <1>1, <2>3 DEF LInv, LTypes
    <3> QED BY <1>1, <2>1, <3>1 DEF NotAdded, CountedDecisions, RowThere, LO!At
  <2> QED BY <2>2, <2>3
<1> QED BY <1>3, <1>4 DEF LInv

\* An update passes the check of an order that is undecided, for which there is a place.
LEMMA LInvRead ==
  ASSUME LO!LegacyOrdersAssumption, LInv, NEW p \in LOPatches, NEW o \in LOOrders,
         NEW to \in LO!Decisions,
         LO!ReadPending(p, o, to)
  PROVE  LInv'
<1>1. PICK f \in LOOrders :
        /\ v2[f].stored /\ v2[f].trxStatus = "PENDING"
        /\ v5' = [v5 EXCEPT ![p] = [pc |-> "flush", order |-> f, to |-> to]]
  BY DEF LO!ReadPending, LO!Found
<1>2. /\ UNCHANGED <<v1, v2, v3, v4, v6>> /\ v5[p].pc = "idle"
      /\ v7 < LOMaxPatches /\ v7' = v7 + 1
  BY DEF LO!ReadPending
<1>3. LTypes'
  BY <1>1, <1>2 DEF LInv, LTypes, LO!Patch, LO!LegacyOrdersAssumption
<1>4. ASSUME NEW q \in LOOrders PROVE NotAdded(q)' /\ CountedDecisions(q)' /\ RowThere(q)'
  <2>1. NotAdded(q) /\ CountedDecisions(q) /\ RowThere(q) /\ v6[q] \in Nat /\ v7 \in Nat
    BY DEF LInv, LTypes
  <2>2. CASE q = f
    <3>1. v6[q] = 0 /\ v3[q] # "idle"
      BY <1>1, <2>1, <2>2 DEF CountedDecisions, NotAdded, LO!At
    <3>2. Cardinality(Passed(q)') <= Cardinality(LOPatches) /\ Cardinality(Passed(q)') \in Nat
      <4>1. Passed(q)' \subseteq LOPatches
        BY DEF Passed
      <4>2. IsFiniteSet(LOPatches)
        BY OrdersLibrary DEF LO!LegacyOrdersAssumption
      <4> QED BY <4>1, <4>2, FS_Subset, FS_CardinalityType
    <3>3. Cardinality(Passed(q)') <= v7'
      <4>1. Passed(q)' = Passed(q) \cup {p} /\ p \notin Passed(q)
        BY <1>1, <1>2, <2>2 DEF LInv, LTypes, Passed
      <4>2. Cardinality(Passed(q)') = Cardinality(Passed(q)) + 1 /\ Cardinality(Passed(q)) \in Nat
        BY <4>1, PassedCounted, FS_AddElement
      <4> QED BY <1>2, <2>1, <3>1, <4>2 DEF CountedDecisions
    <3>4. CountedDecisions(q)'
      BY <1>2, <3>1, <3>2, <3>3, <2>1 DEF CountedDecisions
    <3> QED BY <1>2, <2>1, <3>1, <3>4 DEF NotAdded, RowThere, LO!At
  <2>3. CASE q # f
    <3>1. Passed(q)' = Passed(q)
      BY <1>1, <1>2, <2>3 DEF LInv, LTypes, Passed
    <3>2. NotAdded(q)'
      BY <1>1, <1>2, <2>1, <2>3 DEF LInv, LTypes, NotAdded, LO!At
    <3>3. Cardinality(Passed(q)) \in Nat
      BY PassedCounted
    <3> QED BY <1>2, <2>1, <3>1, <3>2, <3>3 DEF CountedDecisions, RowThere
  <2> QED BY <2>2, <2>3
<1> QED BY <1>3, <1>4 DEF LInv

\* An update that writes gives up its place, and leaves a payment that is decided.
LEMMA LInvFlush ==
  ASSUME LO!LegacyOrdersAssumption, LInv, NEW p \in LOPatches, NEW ok \in BOOLEAN,
         LO!FlushPatch(p, ok)
  PROVE  LInv'
<1> DEFINE o == v5[p].order
           status == IF v5[p].to = "APPROVED" THEN "Verifying Payment" ELSE "Payment Failed"
<1>1. v5[p] \in LO!Patch /\ v5[p].pc = "flush" /\ o \in LOOrders /\ v5[p].to \in LO!Decisions
  <2>1. v5[p].pc = "flush" /\ v5[p] \in LO!Patch \cup {LO!NoPatch}
    BY DEF LInv, LTypes, LO!FlushPatch
  <2>2. v5[p] \in LO!Patch
    BY <2>1 DEF LO!NoPatch
  <2> QED BY <2>1, <2>2 DEF LO!Patch
<1>2. /\ v2' = IF ok THEN [v2 EXCEPT ![o].trxStatus = v5[p].to, ![o].status = status]
                ELSE v2
      /\ v6' = IF ok THEN [v6 EXCEPT ![o] = @ + 1] ELSE v6
      /\ v5' = [v5 EXCEPT ![p] = IF ok THEN [@ EXCEPT !.pc = "refetch"] ELSE LO!NoPatch]
      /\ UNCHANGED <<v1, v3, v4, v7>>
  BY DEF LO!FlushPatch
<1>3. /\ v5' \in [LOPatches -> LO!Patch \cup {LO!NoPatch}]
      /\ \A r \in LOPatches \ {p} : v5'[r] = v5[r]
      /\ v5'[p] # LO!NoPatch => v5'[p].order = o
      /\ v5'[p].pc # "flush"
  <2> DEFINE then == [v5[p] EXCEPT !.pc = "refetch"]
  <2>1. then \in LO!Patch /\ then.pc = "refetch" /\ then.order = o
    BY <1>1 DEF LO!Patch
  <2>2. v5' = [v5 EXCEPT ![p] = IF ok THEN then ELSE LO!NoPatch]
    BY <1>2
  <2> HIDE DEF then
  <2> QED BY <2>1, <2>2 DEF LInv, LTypes, LO!NoPatch
<1>4. /\ v2' \in [LOOrders -> LO!Row] /\ \A q \in LOOrders : v2'[q].stored = v2[q].stored
      /\ \A q \in LOOrders \ {o} : v2'[q] = v2[q]
      /\ ok => v2'[o].trxStatus = v5[p].to
  <2> DEFINE new == [v2[o] EXCEPT !.trxStatus = v5[p].to, !.status = status]
  <2>1. v2[o] \in LO!Row /\ v2 \in [LOOrders -> LO!Row]
    BY <1>1 DEF LInv, LTypes
  <2>2. new \in LO!Row /\ new.stored = v2[o].stored /\ new.trxStatus = v5[p].to
    BY <1>1, <2>1 DEF LO!Row, LO!Statuses, LO!TrxStatuses
  <2>3. v2' = IF ok THEN [v2 EXCEPT ![o] = new] ELSE v2
    BY <1>1, <1>2, <2>1
  <2> HIDE DEF new, o
  <2> QED BY <1>1, <2>1, <2>2, <2>3 DEF o
<1> HIDE DEF status, o
<1>5. LTypes'
  BY <1>1, <1>2, <1>3, <1>4 DEF LInv, LTypes
<1>6. ASSUME NEW q \in LOOrders PROVE NotAdded(q)' /\ CountedDecisions(q)' /\ RowThere(q)'
  <2>1. NotAdded(q) /\ CountedDecisions(q) /\ RowThere(q) /\ v6[q] \in Nat
    BY DEF LInv, LTypes
  <2>2. CASE q = o
    <3>1. v3[q] # "idle"
      BY <1>1, <2>1, <2>2 DEF NotAdded, LO!At, LO!Patch, LO!NoPatch, o
    <3>2. /\ p \in Passed(q) /\ Passed(q)' = Passed(q) \ {p}
      BY <1>1, <1>3, <2>2 DEF Passed, o
    <3>3. /\ Cardinality(Passed(q)) \in Nat /\ Cardinality(LOPatches) \in Nat
          /\ Cardinality(Passed(q)') = Cardinality(Passed(q)) - 1
      BY <3>2, PassedCounted, FS_RemoveElement
    <3>4. v6'[q] \in {v6[q], v6[q] + 1} /\ (~ok => v6'[q] = v6[q])
      BY <1>2, <2>2 DEF LInv, LTypes
    <3>5. v6'[q] > 0 => v2'[q].trxStatus # "PENDING"
      BY <1>1, <1>2, <1>4, <2>1, <2>2, <3>4 DEF CountedDecisions, LO!Decisions
    <3>6. /\ v6'[q] + Cardinality(Passed(q)') <= Cardinality(LOPatches)
          /\ v6'[q] + Cardinality(Passed(q)') <= v7'
      <4>1. v7 \in Nat /\ v7' = v7
        BY <1>2 DEF LInv, LTypes
      <4> QED BY <2>1, <3>3, <3>4, <4>1 DEF CountedDecisions
    <3> QED BY <1>2, <1>4, <2>1, <3>1, <3>5, <3>6 DEF NotAdded, CountedDecisions, RowThere, LO!At
  <2>3. CASE q # o
    <3>1. Passed(q)' = Passed(q) /\ v6'[q] = v6[q]
      BY <1>1, <1>2, <1>3, <2>3 DEF LInv, LTypes, Passed, o
    <3>2. NotAdded(q)'
      BY <1>2, <1>3, <1>4, <2>1, <2>3, <3>1 DEF NotAdded, LO!At
    <3> QED BY <1>2, <1>4, <2>1, <2>3, <3>1, <3>2 DEF CountedDecisions, RowThere
  <2> QED BY <2>2, <2>3
<1> QED BY <1>5, <1>6 DEF LInv

\* The announcement after an update ends it, and takes no place.
LEMMA LInvAnnounce ==
  ASSUME LInv, NEW p \in LOPatches, NEW ok \in BOOLEAN, LO!AnnouncePatch(p, ok)
  PROVE  LInv'
<1>1. /\ v5' = [v5 EXCEPT ![p] = LO!NoPatch] /\ v5[p].pc = "refetch"
      /\ UNCHANGED <<v1, v2, v3, v6, v7>>
      /\ v4' = v4 \/ \E q \in LOOrders : v4' = [v4 EXCEPT ![q] = @ \cup {"order.updated"}]
  BY DEF LO!AnnouncePatch, LO!Tell
<1>2. LTypes'
  BY <1>1 DEF LInv, LTypes, LO!Told
<1>3. ASSUME NEW o \in LOOrders PROVE NotAdded(o)' /\ CountedDecisions(o)' /\ RowThere(o)'
  <2>1. NotAdded(o) /\ CountedDecisions(o) /\ RowThere(o)
    BY DEF LInv
  <2>2. Passed(o)' = Passed(o)
    BY <1>1 DEF LInv, LTypes, Passed, LO!NoPatch
  <2>3. NotAdded(o)'
    BY <1>1, <2>1 DEF LInv, LTypes, NotAdded, LO!At
  <2> QED BY <1>1, <2>1, <2>2, <2>3 DEF CountedDecisions, RowThere
<1> QED BY <1>2, <1>3 DEF LInv

\* Time passes, and nothing else.
LEMMA LInvTick == LO!LegacyOrdersAssumption /\ LInv /\ LO!Tick => LInv'
<1> SUFFICES ASSUME LO!LegacyOrdersAssumption, LInv, LO!Tick PROVE LInv'
  OBVIOUS
<1>1. v1' \in 0 .. LOMaxTime /\ UNCHANGED <<v2, v3, v4, v5, v6, v7>>
  BY DEF LInv, LTypes, LO!Tick, LO!PatchesUnchanged, LO!LegacyOrdersAssumption
<1> QED BY <1>1, LInvRequest DEF LInv, LTypes

\* Every step of the old dashboard keeps the count of decisions.
LEMMA LInvNext == LO!LegacyOrdersAssumption /\ LInv /\ [LO!Next]_(LO!vars) => LInv'
<1> SUFFICES ASSUME LO!LegacyOrdersAssumption, LInv, [LO!Next]_(LO!vars) PROVE LInv'
  OBVIOUS
<1>1. CASE LO!Tick
  BY <1>1, LInvTick
<1>2. ASSUME NEW o \in LOOrders, NEW body \in LO!Body, NEW ok \in BOOLEAN, LO!Add(o, body, ok)
      PROVE  LInv'
  BY <1>2, LInvAdd
<1>3. ASSUME NEW o \in LOOrders, NEW ok \in BOOLEAN, LO!Sms(o,
             ok) \/ LO!Publish(o) \/ LO!Complete(o, ok)
      PROVE  LInv'
  BY <1>3, LInvTold
<1>4. ASSUME NEW o \in LOOrders, LO!Publish(o) PROVE LInv'
  BY <1>4, LInvTold
<1>5. ASSUME NEW o \in LOOrders, NEW p \in LOPatches, NEW to \in LO!Decisions, LO!ReadPending(p,
             o, to)
      PROVE  LInv'
  BY <1>5, LInvRead
<1>6. ASSUME NEW p \in LOPatches, NEW ok \in BOOLEAN, LO!FlushPatch(p, ok) PROVE LInv'
  BY <1>6, LInvFlush
<1>7. ASSUME NEW p \in LOPatches, NEW ok \in BOOLEAN, LO!AnnouncePatch(p, ok) PROVE LInv'
  BY <1>7, LInvAnnounce
<1>8. CASE UNCHANGED LO!vars
  BY <1>8, LInvRequest DEF LO!vars, LInv, LTypes
<1> QED BY <1>1, <1>2, <1>3, <1>4, <1>5, <1>6, <1>7, <1>8 DEF LO!Next, LO!LegacyOrdersAssumption

\* The invariant bounds the decisions.
LEMMA DecisionsBounded == LO!LegacyOrdersAssumption /\ LInv => LO!DecidedUpToOverlaps
<1> SUFFICES ASSUME LO!LegacyOrdersAssumption, LInv, NEW o \in LOOrders
             PROVE  v6[o] <= Cardinality(LOPatches)
  BY OrdersLibrary DEF LO!DecidedUpToOverlaps
<1> QED BY LegacyTypes, PassedCounted DEF CountedDecisions

\* A payment is decided no more often than updates overlap, however many there are one after
\* the other.
THEOREM DecidedBounded ==
  ASSUME LO!LegacyOrdersAssumption
  PROVE  LO!Spec => []LO!DecidedUpToOverlaps
BY LInvInit, LInvNext, DecisionsBounded, PTL DEF LO!Spec

\* The steps of the request after the SMS.
Texted == {"publish", "refetch", "ok", "link"}

ToldSoFar(o) ==
  /\ v3[o] \in Texted => "sms" \in v4[o]
  /\ v4[o] \cap {"order.created", "link"} # {} => "sms" \in v4[o]
  /\ LO!At(o, "ok") <=> "order.created" \in v4[o]

TInv == LInv /\ (LO!NumbersDistinct => \A o \in LOOrders : ToldSoFar(o))

\* Orders are not renumbered, so that numbers that are distinct have been so before.
LEMMA DistinctBefore ==
  ASSUME LInv, [LO!Next]_(LO!vars), LO!NumbersDistinct'
  PROVE  LO!NumbersDistinct
<1>1. ASSUME NEW o \in LOOrders, v2[o].stored
      PROVE  v2'[o].stored /\ v2'[o].number = v2[o].number
  <2>1. v2[o] \in LO!Row /\ v3[o] # "idle" /\ v2 \in [LOOrders -> LO!Row]
    BY <1>1 DEF LInv, LTypes, NotAdded, LO!At
  <2>2. ASSUME NEW q \in LOOrders, NEW body \in LOBodies, NEW ok \in BOOLEAN, LO!Add(q, body, ok)
        PROVE  v2'[o] = v2[o]
    BY <2>1, <2>2 DEF LO!Add, LO!At
  <2>3. ASSUME NEW p \in LOPatches, NEW ok \in BOOLEAN, LO!FlushPatch(p, ok)
        PROVE  v2'[o].stored = v2[o].stored /\ v2'[o].number = v2[o].number
    <3> DEFINE q == v5[p].order
               trx == v5[p].to
               status == IF trx = "APPROVED" THEN "Verifying Payment" ELSE "Payment Failed"
    <3>1. \/ v2' = v2
          \/ v2' = [v2 EXCEPT ![q].trxStatus = trx, ![q].status = status]
      BY <2>3 DEF LO!FlushPatch
    <3> HIDE DEF q, trx, status
    <3>2. CASE v2' = v2
      BY <3>2
    <3>3. CASE v2' = [v2 EXCEPT ![q].trxStatus = trx, ![q].status = status] /\ q = o
      <4> DEFINE new == [v2[o] EXCEPT !.trxStatus = trx, !.status = status]
      <4>1. v2' = [v2 EXCEPT ![o] = new]
        BY <2>1, <3>3
      <4>2. new.stored = v2[o].stored /\ new.number = v2[o].number
        BY <2>1 DEF LO!Row
      <4> HIDE DEF new
      <4> QED BY <2>1, <4>1, <4>2
    <3>4. CASE v2' = [v2 EXCEPT ![q].trxStatus = trx, ![q].status = status] /\ q # o
      BY <2>1, <3>4
    <3> QED BY <3>1, <3>2, <3>3, <3>4
  <2>4. CASE UNCHANGED v2
    BY <1>1, <2>4
  <2> QED
    BY <1>1, <2>2, <2>3, <2>4 DEF LO!Next, LO!vars, LO!Tick, LO!Sms, LO!Publish, LO!Complete,
         LO!ReadPending,
       LO!AnnouncePatch
<1> QED BY <1>1 DEF LO!NumbersDistinct

\* Every step keeps what was told in the order of the code.
LEMMA TInvNext == LO!LegacyOrdersAssumption /\ TInv /\ [LO!Next]_(LO!vars) => TInv'
<1> SUFFICES ASSUME LO!LegacyOrdersAssumption, TInv, [LO!Next]_(LO!vars), LO!NumbersDistinct',
                    NEW o \in LOOrders
             PROVE  ToldSoFar(o)'
  BY LInvNext DEF TInv
<1>1. LO!NumbersDistinct /\ LInv
  BY DistinctBefore DEF TInv
<1>2. ToldSoFar(o) /\ v3 \in [LOOrders -> LO!Adding] /\ v4 \in [LOOrders -> LO!Told]
  BY <1>1 DEF TInv, LInv, LTypes
<1>3. CASE UNCHANGED <<v3, v4>>
  BY <1>2, <1>3 DEF ToldSoFar, LO!At
<1>4. ASSUME NEW q \in LOOrders, NEW body \in LO!Body, NEW ok \in BOOLEAN, LO!Add(q, body, ok)
      PROVE  ToldSoFar(o)'
  BY <1>2, <1>4 DEF LO!Add, LO!Goto, ToldSoFar, LO!At, Texted
<1>5. ASSUME NEW q \in LOOrders, NEW ok \in BOOLEAN, LO!Sms(q, ok)
      PROVE  ToldSoFar(o)'
  BY <1>2, <1>5 DEF LO!Sms, LO!Goto, LO!Tell, ToldSoFar, LO!At, Texted
<1>6. ASSUME NEW q \in LOOrders, LO!Publish(q)
      PROVE  ToldSoFar(o)'
  BY <1>2, <1>6 DEF LO!Publish, LO!Goto, ToldSoFar, LO!At, Texted
<1>7. ASSUME NEW q \in LOOrders, NEW ok \in BOOLEAN, LO!Complete(q, ok)
      PROVE  ToldSoFar(o)'
  <2>1. v3[q] = "refetch" /\ v2[q].stored
    BY <1>1, <1>7 DEF LO!Complete, LO!At, LInv, RowThere
  <2>2. \A f \in LOOrders : LO!Found(v2[q].number, f) => f = q
    BY <1>1, <2>1 DEF LO!Found, LO!NumbersDistinct
  <2>3. \/ LO!Goto(q, "err") /\ UNCHANGED v4
        \/ LO!Goto(q, "link") /\ LO!Tell(q, {"link"})
        \/ LO!Goto(q, "ok") /\ LO!Tell(q, {"order.created"})
    BY <1>7, <2>2 DEF LO!Complete
  <2> QED BY <1>2, <2>1, <2>3 DEF LO!Goto, LO!Tell, ToldSoFar, LO!At, Texted
<1>8. ASSUME NEW p \in LOPatches, NEW ok \in BOOLEAN, LO!AnnouncePatch(p, ok)
      PROVE  ToldSoFar(o)'
  <2>1. UNCHANGED v3
    BY <1>8 DEF LO!AnnouncePatch
  <2>2. v4' = v4 \/ \E q \in LOOrders : v4' = [v4 EXCEPT ![q] = @ \cup {"order.updated"}]
    BY <1>8 DEF LO!AnnouncePatch, LO!Tell
  <2>3. v4'[o] \in {v4[o], v4[o] \cup {"order.updated"}}
    BY <1>2, <2>2
  <2> QED BY <1>2, <2>1, <2>3 DEF ToldSoFar, LO!At, Texted
<1> QED
  BY <1>3, <1>4, <1>5, <1>6, <1>7, <1>8 DEF LO!LegacyOrdersAssumption, LO!Next, LO!vars, LO!Tick, LO!ReadPending,
     LO!FlushPatch

\* At the start nothing is told; and what is told in order is what the invariant says.
LEMMA TInvInit == LO!LegacyOrdersAssumption /\ LO!Init => TInv
BY LInvInit DEF LO!Init, TInv, ToldSoFar, LO!At, Texted

\* What was told by each step of a request is told in order.
LEMMA InTheirOrder == TInv => LO!ToldInOrder
BY DEF TInv, ToldSoFar, LO!ToldInOrder

\* Unless two orders share a number, nothing goes out about an order before its customer has
\* the SMS, and exactly the acknowledged orders have been announced.
THEOREM ToldAfterSms ==
  ASSUME LO!LegacyOrdersAssumption
  PROVE  LO!Spec => []LO!ToldInOrder
BY TInvInit, TInvNext, InTheirOrder, PTL DEF LO!Spec

LegacyPart == part = "legacy" => TInv

\* At first the old dashboard has no orders.
LEMMA LegacyInvInit == OrdersInit => LegacyPart
<1> SUFFICES ASSUME LO!Init PROVE TInv
  BY DEF OrdersInit, LegacyPart
<1> QED BY TInvInit, OrderSideAssumption

\* Every step keeps the old dashboard's invariant.
LEMMA LegacyInvStep == LegacyPart /\ [OrdersNext]_allVars => LegacyPart'
<1> SUFFICES ASSUME LegacyPart, [OrdersNext]_allVars, part' = "legacy" PROVE TInv'
  BY DEF LegacyPart
<1>1. CASE LegacyStep
  BY <1>1, TInvNext, OrderSideAssumption DEF LegacyStep, LegacyPart
<1>2. CASE UNCHANGED allVars
  <2>1. UNCHANGED LO!vars /\ TInv
    BY <1>2 DEF allVars, slots, LO!vars, LegacyPart
  <2> QED BY <2>1, TInvNext, OrderSideAssumption
<1>3. CASE OrdersNext /\ ~LegacyStep
  BY <1>3 DEF OrdersNext, Checkouts, AmountsStep, VouchersStep, QueriesStep, PagesStep
<1> QED BY <1>1, <1>2, <1>3

\* A payment of the old dashboard is decided no more often than updates overlap.
THEOREM DecidedOnce == OrdersSpec => []DecidedUpToOverlaps
<1>1. LegacyPart => DecidedUpToOverlaps
  BY DecisionsBounded, OrderSideAssumption DEF LegacyPart, TInv, DecidedUpToOverlaps
<1> QED BY LegacyInvInit, LegacyInvStep, <1>1, PTL DEF OrdersSpec

\* Nothing is sent out about an order of the old dashboard before its customer has the SMS.
THEOREM SmsFirst == OrdersSpec => []ToldInOrder
<1>1. LegacyPart => ToldInOrder
  BY InTheirOrder DEF LegacyPart, ToldInOrder
<1> QED BY LegacyInvInit, LegacyInvStep, <1>1, PTL DEF OrdersSpec

-----------------------------------------------------------------------------
(* Vouchers *)

VouchersPart == part = "vouchers" => Vo!VouchersInv

\* What a row is made of.
LEMMA RowTypes ==
  ASSUME v1 \in VoRows
  PROVE  /\ v1.value \in Nat /\ v1.start \in Nat /\ v1.expiry \in Nat
         /\ v1.cap \in Nat \cup {None} /\ v1.minOrderAmount \in Nat \cup {None}
         /\ v1.maxGlobalUsage \in Nat \cup {None} /\ None \notin Int
BY OrderSideAssumption DEF Vo!VouchersAssumption

\* A discount is within the order and the voucher's cap, and nothing below the voucher's minimum.
LEMMA DiscountBounds ==
  ASSUME v1 \in VoRows, NEW amount \in Nat
  PROVE  /\ Vo!Discount(amount) \in Nat /\ Vo!Discount(amount) <= amount
         /\ v1.cap # None => Vo!Discount(amount) <= v1.cap
         /\ Vo!Discount(amount) > 0 => ~Vo!BelowMinimum(amount)
<1> DEFINE raw == IF v1.unit = "%" THEN (2 * amount * v1.value + 100) \div 200
                  ELSE IF v1.unit = "PKR" THEN v1.value ELSE 0
           capped == IF v1.cap # None THEN Vo!Smaller(raw, v1.cap) ELSE raw
<1>1. raw \in Nat
  <2> DEFINE n == 2 * amount * v1.value + 100
  <2>1. n \in Nat
    BY RowTypes
  <2> HIDE DEF n
  <2>2. n \div 200 \in Nat
    BY <2>1, Z3
  <2> QED BY <2>2, RowTypes DEF n
<1> HIDE DEF raw
<1>2. capped \in Nat /\ (v1.cap # None => capped <= v1.cap)
  BY <1>1, RowTypes DEF Vo!Smaller
<1>3. Vo!Discount(amount) = IF Vo!BelowMinimum(amount) THEN 0 ELSE Vo!Smaller(capped, amount)
  BY DEF Vo!Discount, raw
<1> HIDE DEF capped
<1>4. Vo!Smaller(capped, amount) \in Nat /\ Vo!Smaller(capped, amount) <= amount
      /\ Vo!Smaller(capped, amount) <= capped
  BY <1>2 DEF Vo!Smaller
<1> QED BY <1>2, <1>3, <1>4, RowTypes

\* The payment method is all that the order calls otherwise than the client.
LEMMA MethodAlone ==
  ASSUME NEW cart, NEW user, NEW city, NEW m1, NEW m2,
         \A c \in v1.conditions : c.kind # "PAYMENT_METHOD"
  PROVE  LET f == Vo!FactsOf(cart, user, city, m1)
             g == Vo!FactsOf(cart, user, city, m2)
         IN /\ Vo!Valid(f) <=> Vo!Valid(g)
            /\ Vo!AmountGiven(f) <=> Vo!AmountGiven(g)
            /\ f.orderAmount = g.orderAmount
<1> DEFINE f == Vo!FactsOf(cart, user, city, m1)
           g == Vo!FactsOf(cart, user, city, m2)
<1>1. /\ DOMAIN f = DOMAIN g
      /\ \A k \in {"userId", "cityId", "categoryIds", "productIds", "shopId", "orderAmount"} :
           k \in DOMAIN f /\ f[k] = g[k]
  BY DEF Vo!FactsOf
<1> HIDE DEF f, g
<1>2. \A k \in {"userId", "cityId", "shopId", "orderAmount"} : Vo!FactOf(f, k) = Vo!FactOf(g, k)
  BY <1>1 DEF Vo!FactOf
<1>3. ASSUME NEW c \in v1.conditions PROVE Vo!ConditionHolds(c, f) <=> Vo!ConditionHolds(c, g)
  BY <1>1, <1>2 DEF Vo!ConditionHolds
<1>4. (Vo!AmountGiven(f) <=> Vo!AmountGiven(g)) /\ f["orderAmount"] = g["orderAmount"]
      /\ f["userId"] = g["userId"]
  BY <1>1, <1>2 DEF Vo!AmountGiven
<1>5. Vo!Valid(f) <=> Vo!Valid(g)
  BY <1>2, <1>3, <1>4 DEF Vo!Valid
<1> QED BY <1>4, <1>5 DEF f, g

\* Until another day or another use, the stored validation stands; after them it is an old one.
LEMMA VouchersTime ==
  ASSUME Vo!VouchersInv, UNCHANGED <<v1, v2, v5, v6>>,
         \/ v3' = v3 + 1 /\ v4' = v4
         \/ v3' = v3 /\ \E u \in VoUsers : v4' = Append(v4, u)
  PROVE  Vo!VouchersInv'
<1>1. /\ v3 \in Nat /\ v3' \in Nat /\ v4 \in Seq(VoUsers) /\ v4' \in Seq(VoUsers)
      /\ v3' >= v3 /\ Len(v4') >= Len(v4) /\ (v3' > v3 \/ Len(v4') > Len(v4))
  <2>1. v3 \in Nat /\ v4 \in Seq(VoUsers) /\ Len(v4) \in Nat
    BY DEF Vo!VouchersInv
  <2>2. CASE v3' = v3 + 1 /\ v4' = v4
    <3>1. v4' \in Seq(VoUsers) /\ Len(v4') >= Len(v4)
      BY <2>1, <2>2
    <3>2. v3' \in Nat /\ v3' > v3 /\ v3' >= v3
      BY <2>1, <2>2
    <3> QED BY <2>1, <3>1, <3>2
  <2>3. ASSUME v3' = v3, NEW u \in VoUsers, v4' = Append(v4, u)
        PROVE  v4' \in Seq(VoUsers) /\ Len(v4') = Len(v4) + 1
    BY <2>1, <2>3, AppendProperties
  <2> QED BY <2>1, <2>2, <2>3
<1>2. v5.facts # None => v5.day <= v3' /\ v5.uses <= Len(v4')
  BY <1>1 DEF Vo!VouchersInv
<1>3. Vo!PreviewStands'
  <2>1. v5.facts # None => v5.day # v3' \/ v5.uses # Len(v4')
    BY <1>1 DEF Vo!VouchersInv
  <2>2. v5'.facts # None => v5'.day # v3' \/ v5'.uses # Len(v4')
    BY <2>1
  <2>3. v5'.facts # None => v1'.active
    BY DEF Vo!VouchersInv, Vo!PreviewStands
  <2> QED BY <2>2, <2>3 DEF Vo!PreviewStands
<1>4. Vo!PreviewHonoured' /\ Vo!DiscountEarned'
  BY DEF Vo!VouchersInv, Vo!PreviewHonoured, Vo!DiscountEarned
<1> QED BY <1>1, <1>2, <1>3, <1>4 DEF Vo!VouchersInv

\* A validation stands when it is made, and is made before the checkout.
LEMMA VouchersPreview ==
  ASSUME Vo!VouchersInv, NEW cart \in VoCarts, NEW user, NEW city, NEW method, NEW given,
         Vo!Preview(cart, user, city, method, given)
  PROVE  Vo!VouchersInv'
<1> DEFINE all == Vo!FactsOf(cart, user, city, method)
           facts == [f \in given |-> all[f]]
           valid == Vo!InTime /\ Vo!Valid(facts)
           shown == IF valid /\ Vo!AmountGiven(facts) THEN Vo!Discount(facts["orderAmount"]) ELSE 0
<1>1. /\ v5' = [facts |-> facts, valid |-> valid, day |-> v3, uses |-> Len(v4), discount |-> shown]
      /\ UNCHANGED <<v1, v2, v3, v4, v6>> /\ v6 = Vo!NotApplied /\ v1.active
  BY DEF Vo!Preview
<1>2. /\ Vo!InTime' <=> Vo!InTime
      /\ \A g : Vo!Valid(g)' <=> Vo!Valid(g)
      /\ \A g : Vo!AmountGiven(g)' <=> Vo!AmountGiven(g)
      /\ \A a : Vo!Discount(a)' = Vo!Discount(a)
  BY <1>1 DEF Vo!InTime, Vo!Valid, Vo!BelowMinimum, Vo!UsageLeft, Vo!UsesBy, Vo!AmountGiven,
              Vo!Discount, Vo!ConditionHolds, Vo!FactOf
<1> HIDE DEF all, facts, valid, shown
<1>3. /\ v5'.facts = facts /\ v5'.valid = valid /\ v5'.day = v3 /\ v5'.uses = Len(v4)
      /\ v5'.discount = shown
  BY <1>1
<1>4. Vo!PreviewStands'
  <2>1. v5'.facts.orderAmount = facts["orderAmount"]
    BY <1>3
  <2>2. /\ valid <=> Vo!InTime' /\ Vo!Valid(facts)'
        /\ shown = IF valid /\ Vo!AmountGiven(facts)' THEN Vo!Discount(facts["orderAmount"])' ELSE 0
    BY <1>2 DEF valid, shown
  <2>3. v5'.facts # None =>
          /\ v5'.valid <=> Vo!InTime' /\ Vo!Valid(facts)'
          /\ v5'.discount = IF v5'.valid /\ Vo!AmountGiven(facts)'
                            THEN Vo!Discount(facts["orderAmount"])' ELSE 0
    BY <1>3, <2>2
  <2> QED BY <1>1, <1>3, <2>1, <2>3 DEF Vo!PreviewStands, Vo!Valid, Vo!BelowMinimum, Vo!UsageLeft,
              Vo!UsesBy, Vo!AmountGiven, Vo!Discount
<1>5. v6' = Vo!NotApplied
  BY <1>1
<1>6. Vo!PreviewHonoured' /\ Vo!DiscountEarned'
  BY <1>5 DEF Vo!PreviewHonoured, Vo!DiscountEarned, Vo!NotApplied
<1>7. v3 \in Nat /\ v4 \in Seq(VoUsers) /\ Len(v4) \in Nat /\ v3 <= v3 /\ Len(v4) <= Len(v4)
  BY DEF Vo!VouchersInv
<1> QED BY <1>1, <1>3, <1>4, <1>6, <1>7 DEF Vo!VouchersInv

\* The checkout applies the voucher on its own facts, which are those of a validation that still
\* stands but for the name of the method.
LEMMA VouchersApply ==
  ASSUME Vo!VouchersInv, NEW cart \in VoCarts, NEW user, NEW city, NEW method,
         Vo!Apply(cart, user, city, method)
  PROVE  Vo!VouchersInv'
<1> DEFINE facts == Vo!FactsOf(cart, user, city, Vo!TrxMethod(method))
           mine == Vo!FactsOf(cart, user, city, method)
           ok == v1.active /\ Vo!InTime /\ Vo!Valid(facts)
           off == IF ok /\ v1.type = "PRICE_DISCOUNT" /\ Vo!AmountGiven(facts)
                  THEN Vo!Discount(facts["orderAmount"]) ELSE 0
           free == ok /\ v1.type = "FREE_SHIPPING"
<1>1. /\ v6' = [facts |-> mine, ok |-> ok, day |-> v3, uses |-> Len(v4),
                own |-> Vo!UsesBy(user), discount |-> off, freeShipping |-> free]
      /\ UNCHANGED <<v1, v2, v3, v4, v5>> /\ v5.facts \in {None, mine}
  BY DEF Vo!Apply
<1>2. /\ facts.orderAmount = cart.subTotal /\ mine.orderAmount = cart.subTotal
      /\ facts["orderAmount"] = cart.subTotal /\ "userId" \in DOMAIN facts
      /\ "orderAmount" \in DOMAIN facts /\ facts["userId"] = mine.userId /\ mine.userId = user
      /\ cart.subTotal \in Nat
  BY OrderSideAssumption DEF Vo!FactsOf, Vo!VouchersAssumption
<1>3. v1 \in VoRows /\ v3 \in Nat /\ v4 \in Seq(VoUsers) /\ Len(v4) \in Nat
  BY DEF Vo!VouchersInv
<1>4. ASSUME \A c \in v1.conditions : c.kind # "PAYMENT_METHOD"
      PROVE  /\ Vo!Valid(facts) <=> Vo!Valid(mine)
             /\ Vo!AmountGiven(facts) <=> Vo!AmountGiven(mine)
             /\ facts.orderAmount = mine.orderAmount
  BY <1>4, MethodAlone
<1> HIDE DEF facts, mine, ok, off, free
<1>5. /\ v6'.facts = mine /\ v6'.ok = ok /\ v6'.day = v3 /\ v6'.uses = Len(v4)
      /\ v6'.own = Vo!UsesBy(user) /\ v6'.discount = off
  BY <1>1
<1>6. Vo!PreviewHonoured'
  <2> SUFFICES ASSUME mine # None, mine = v5.facts, v3 = v5.day, Len(v4) = v5.uses,
                      \A c \in v1.conditions : c.kind # "PAYMENT_METHOD"
               PROVE  /\ ok <=> v5.valid
                      /\ v1.type = "PRICE_DISCOUNT" => off = v5.discount
    BY <1>1, <1>5 DEF Vo!PreviewHonoured
  <2>1. /\ v1.active /\ (v5.valid <=> Vo!InTime /\ Vo!Valid(mine))
        /\ v5.discount = IF v5.valid /\ Vo!AmountGiven(mine)
                         THEN Vo!Discount(mine.orderAmount) ELSE 0
    BY DEF Vo!VouchersInv, Vo!PreviewStands
  <2>2. ok <=> v5.valid
    BY <1>4, <2>1 DEF ok
  <2>3. v1.type = "PRICE_DISCOUNT" =>
          off = IF ok /\ Vo!AmountGiven(facts) THEN Vo!Discount(facts.orderAmount) ELSE 0
    BY <1>2 DEF off
  <2> QED BY <1>4, <2>1, <2>2, <2>3
<1>7. Vo!DiscountEarned'
  <2> SUFFICES ASSUME off > 0
               PROVE  /\ off <= mine.orderAmount
                      /\ v1.cap # None => off <= v1.cap
                      /\ v1.start <= v3 /\ v3 <= v1.expiry
                      /\ v1.minOrderAmount # None => mine.orderAmount >= v1.minOrderAmount
                      /\ mine.userId # None =>
                           /\ v1.maxGlobalUsage # None => Len(v4) < v1.maxGlobalUsage
                           /\ Vo!UsesBy(user) < v1.maxPerUserUsage
    BY <1>1, <1>5 DEF Vo!DiscountEarned
  <2>1. ok /\ off = Vo!Discount(cart.subTotal)
    BY <1>2 DEF off
  <2>2. off \in Nat /\ off <= cart.subTotal /\ (v1.cap # None => off <= v1.cap)
        /\ ~Vo!BelowMinimum(cart.subTotal)
    BY <1>2, <1>3, <2>1, DiscountBounds
  <2>3. v1.minOrderAmount # None => cart.subTotal >= v1.minOrderAmount
    BY <1>2, <1>3, <2>2, RowTypes DEF Vo!BelowMinimum
  <2>4. mine.userId # None => Vo!UsageLeft(facts["userId"])
    BY <1>2, <2>1 DEF ok, Vo!Valid, Vo!FactOf
  <2>5. mine.userId # None =>
          /\ v1.maxGlobalUsage # None => Len(v4) < v1.maxGlobalUsage
          /\ Vo!UsesBy(user) < v1.maxPerUserUsage
    BY <1>2, <2>4 DEF Vo!UsageLeft
  <2> QED BY <1>2, <2>1, <2>2, <2>3, <2>5 DEF ok, Vo!InTime
<1>8. Vo!PreviewStands'
  <2>1. /\ Vo!InTime' <=> Vo!InTime
        /\ \A g : Vo!Valid(g)' <=> Vo!Valid(g)
        /\ \A g : Vo!AmountGiven(g)' <=> Vo!AmountGiven(g)
        /\ \A a : Vo!Discount(a)' = Vo!Discount(a)
    BY <1>1 DEF Vo!InTime, Vo!Valid, Vo!BelowMinimum, Vo!UsageLeft, Vo!UsesBy, Vo!AmountGiven,
                Vo!Discount, Vo!ConditionHolds, Vo!FactOf
  <2> QED BY <1>1, <2>1 DEF Vo!VouchersInv, Vo!PreviewStands
<1> QED BY <1>1, <1>6, <1>7, <1>8 DEF Vo!VouchersInv

\* At first nothing is validated or applied.
LEMMA VouchersInvInit == OrdersInit => VouchersPart
<1> SUFFICES ASSUME Vo!Init PROVE Vo!VouchersInv
  BY DEF OrdersInit, VouchersPart
<1> QED BY DEF Vo!Init, Vo!VouchersInv, Vo!NoPreview, Vo!NotApplied, Vo!PreviewStands,
               Vo!PreviewHonoured, Vo!DiscountEarned

\* Every step keeps the vouchers' invariant.
LEMMA VouchersInvStep == VouchersPart /\ [OrdersNext]_allVars => VouchersPart'
<1> SUFFICES ASSUME VouchersPart, [OrdersNext]_allVars, part' = "vouchers" PROVE Vo!VouchersInv'
  BY DEF VouchersPart
<1>1. CASE VouchersStep
  <2>1. Vo!Next /\ Vo!VouchersInv
    BY <1>1 DEF VouchersStep, VouchersPart
  <2>2. CASE Vo!NewDay \/ \E u \in VoUsers : Vo!LogUse(u)
    BY <2>1, <2>2, VouchersTime DEF Vo!NewDay, Vo!LogUse
  <2>3. CASE ~(Vo!NewDay \/ \E u \in VoUsers : Vo!LogUse(u))
    BY <2>1, <2>3, VouchersPreview, VouchersApply DEF Vo!Next
  <2> QED BY <2>2, <2>3
<1>2. CASE UNCHANGED allVars
  <2>1. UNCHANGED <<v1, v2, v3, v4, v5, v6>> /\ Vo!VouchersInv
    BY <1>2 DEF allVars, slots, VouchersPart
  <2> QED BY <2>1 DEF Vo!VouchersInv, Vo!PreviewStands, Vo!PreviewHonoured, Vo!DiscountEarned,
              Vo!InTime, Vo!Valid, Vo!BelowMinimum, Vo!UsageLeft, Vo!UsesBy, Vo!AmountGiven,
              Vo!Discount, Vo!ConditionHolds, Vo!FactOf
<1>3. CASE OrdersNext /\ ~VouchersStep
  BY <1>3 DEF OrdersNext, Checkouts, AmountsStep, QueriesStep, LegacyStep, PagesStep
<1> QED BY <1>1, <1>2, <1>3

\* The checkout honours the validation of the voucher, for any vouchers, carts, days and uses.
THEOREM PreviewKept == OrdersSpec => []PreviewHonoured
<1>1. VouchersPart => PreviewHonoured
  BY DEF VouchersPart, Vo!VouchersInv, PreviewHonoured
<1> QED BY VouchersInvInit, VouchersInvStep, <1>1, PTL DEF OrdersSpec

\* No order gets a discount that its voucher does not allow.
THEOREM DiscountDeserved == OrdersSpec => []DiscountEarned
<1>1. VouchersPart => DiscountEarned
  BY DEF VouchersPart, Vo!VouchersInv, DiscountEarned
<1> QED BY VouchersInvInit, VouchersInvStep, <1>1, PTL DEF OrdersSpec

-----------------------------------------------------------------------------
(* Pages *)

PagesPart == part = "pages" => RP!WInv

\* The proofs' instance of the repository is the composition's.
LEMMA PagesAreProofs ==
  /\ RP!RepositoryAssumption /\ (Re!Init => RP!Init) /\ (Re!Next => RP!Next)
  /\ RP!WalkShowsEachRowOnce => Re!WalkShowsEachRowOnce
  /\ RP!TypeOK => Re!TypeOK
<1>1. RP!RepositoryAssumption
  BY OrderSideAssumption
     DEF Re!RepositoryAssumption, RP!RepositoryAssumption, Re!IsFiniteSet, RP!IsFiniteSet
<1>2. Re!Init => RP!Init
  BY DEF Re!Init, Re!IdleReader, Re!IdleWriter, RP!Init, RP!IdleReader, RP!IdleWriter
<1>3. Re!Next => RP!Next
  <2>1. \A t : Re!Stored(t) = RP!Stored(t) /\ Re!Sortings(t) = RP!Sortings(t)
    BY DEF Re!Stored, Re!Sortings, Re!SetToSeqs, Re!Cardinality,
           RP!Stored, RP!Sortings, RP!SetToSeqs, RP!Cardinality
  <2>2. \A s, o, l : Re!Window(s, o, l) = RP!Window(s, o, l)
    BY DEF Re!Window, RP!Window
  <2>3. \A f, c, o, l : Re!Fetched(f, c, o, l) = RP!Fetched(f, c, o, l)
    BY DEF Re!Fetched, Re!EmptyPage, Re!NoInfo, Re!Info, Re!TotalPages, Re!PageAt,
           RP!Fetched, RP!EmptyPage, RP!NoInfo, RP!Info, RP!TotalPages, RP!PageAt
  <2>4. /\ \A i, p : Re!NextPage(i, p) = RP!NextPage(i, p)
        /\ \A p, n : Re!Offset(p, n) = RP!Offset(p, n)
    BY DEF Re!NextPage, Re!Offset, RP!NextPage, RP!Offset
  <2>5. \A S : Re!Cardinality(S) = RP!Cardinality(S)
    BY DEF Re!Cardinality, RP!Cardinality
  <2>6. Re!Answer => RP!Answer
    <3> DEFINE ours == Re!Fetched(v2.found, v2.count, Re!Offset(v2.page, v2.size), v2.size)
               theirs == RP!Fetched(v2.found, v2.count, RP!Offset(v2.page, v2.size), v2.size)
               here(S) == Re!Cardinality(S)
               there(S) == RP!Cardinality(S)
               n == Re!NextPage(ours.meta, v2.page)
               m == RP!NextPage(theirs.meta, v2.page)
               Shows(a, next, Size(_)) ==
                 /\ v2.pc = "reading" /\ v2.todo = {}
                 /\ v2' = [v2 EXCEPT
                      !.shown = [id \in ReIds |-> @[id] + Size({i \in DOMAIN a.data : a.data[i] = id})],
                      !.pc = IF next = 0 THEN "done" ELSE "reading",
                      !.todo = IF next = 0 THEN {} ELSE {"find", "count"},
                      !.page = IF next = 0 THEN @ ELSE next,
                      !.found = <<>>, !.count = 0]
                 /\ UNCHANGED <<v1, v3, v4>>
    <3>1. ours = theirs /\ n = m
      BY <2>3, <2>4
    <3>2. Re!Answer <=> Shows(ours, n, here)
      BY DEF Re!Answer
    <3>3. RP!Answer <=> Shows(theirs, m, there)
      BY DEF RP!Answer
    <3>4. Shows(ours, n, here) => Shows(ours, n, there)
      <4> HIDE DEF ours, n
      <4> QED BY <2>5
    <3> HIDE DEF ours, theirs, n, m, Shows
    <3> QED BY <3>1, <3>2, <3>3, <3>4, ZenonT(60)
  <2>7. (\E s \in Re!Sortings(v1) : Re!Find(s)) => (\E s \in RP!Sortings(v1) : RP!Find(s))
    BY <2>1, <2>2, <2>4 DEF Re!Find, RP!Find
  <2>8. Re!Count => RP!Count
    BY <2>1, <2>5 DEF Re!Count, RP!Count
  <2>9. \A ids : Re!DeleteMany(ids) => RP!DeleteMany(ids)
    BY <2>1 DEF Re!DeleteMany, Re!Disturbed, Re!Respond, RP!DeleteMany, RP!Disturbed, RP!Respond
  <2> QED
    BY <2>6, <2>7, <2>8, <2>9
       DEF Re!Next, Re!StartWalk, Re!LeaveList, Re!IdleReader, Re!CreateEntity, Re!FindToWrite,
           Re!FlushWrite, Re!WriteFails, Re!NextRequest, Re!DeleteBehind, Re!Write, Re!Disturbed,
           Re!Respond, Re!FetchOne, Re!ErrorStatus, Re!IdleWriter,
           RP!Next, RP!StartWalk, RP!LeaveList, RP!IdleReader, RP!CreateEntity, RP!FindToWrite,
           RP!FlushWrite, RP!WriteFails, RP!NextRequest, RP!DeleteBehind, RP!Write, RP!Disturbed,
           RP!Respond, RP!FetchOne, RP!ErrorStatus, RP!IdleWriter
<1>4. RP!WalkShowsEachRowOnce => Re!WalkShowsEachRowOnce
  BY DEF RP!WalkShowsEachRowOnce, RP!Distinct, RP!Stored,
         Re!WalkShowsEachRowOnce, Re!Distinct, Re!Stored
<1>5. RP!TypeOK => Re!TypeOK
  BY DEF RP!TypeOK, RP!Reader, RP!Writer, Re!TypeOK, Re!Reader, Re!Writer
<1> QED BY <1>1, <1>2, <1>3, <1>4, <1>5

\* Nothing is walked at first.
LEMMA PagesInvInit == OrdersInit => PagesPart
<1> SUFFICES ASSUME Re!Init PROVE RP!WInv
  BY DEF OrdersInit, PagesPart
<1> QED BY RP!WInvInit, PagesAreProofs

\* Every step keeps what is known of a walk.
LEMMA PagesInvStep == PagesPart /\ [OrdersNext]_allVars => PagesPart'
<1> SUFFICES ASSUME PagesPart, [OrdersNext]_allVars, part' = "pages" PROVE RP!WInv'
  BY DEF PagesPart
<1>1. CASE PagesStep
  BY <1>1, RP!WInvNext, PagesAreProofs DEF PagesStep, PagesPart
<1>2. CASE UNCHANGED allVars
  <2>1. UNCHANGED RP!vars /\ RP!WInv
    BY <1>2 DEF allVars, slots, RP!vars, PagesPart
  <2> QED BY <2>1, RP!WInvNext, PagesAreProofs
<1>3. CASE OrdersNext /\ ~PagesStep
  BY <1>3 DEF OrdersNext, Checkouts, AmountsStep, VouchersStep, QueriesStep, LegacyStep
<1> QED BY <1>1, <1>2, <1>3

\* Walking through a list shows each row once, for any rows, keys, sizes of a page and writes, if
\* a page has at least one row.
THEOREM EachRowOnce == 0 \notin ReSizes /\ OrdersSpec => []WalkShowsEachRowOnce
<1> SUFFICES ASSUME 0 \notin ReSizes PROVE OrdersSpec => []WalkShowsEachRowOnce
  OBVIOUS
<1>1. PagesPart => WalkShowsEachRowOnce
  BY PagesAreProofs DEF PagesPart, RP!WInv, WalkShowsEachRowOnce
<1> QED BY PagesInvInit, PagesInvStep, <1>1, PTL DEF OrdersSpec

-----------------------------------------------------------------------------
(* The types of all the parts *)

VouchersTyped == part = "vouchers" => Vo!TypeOK

\* The discount that a validation shows, or that the checkout takes off, is an amount.
LEMMA AmountOff ==
  ASSUME v1 \in VoRows, NEW facts, NEW b \in BOOLEAN,
         "orderAmount" \in DOMAIN facts => facts["orderAmount"] \in Nat
  PROVE  (IF b /\ Vo!AmountGiven(facts) THEN Vo!Discount(facts["orderAmount"]) ELSE 0) \in Nat
<1>1. CASE Vo!AmountGiven(facts)
  <2>1. facts["orderAmount"] \in Nat
    BY <1>1 DEF Vo!AmountGiven, Vo!FactOf
  <2> QED BY <2>1, DiscountBounds
<1>2. CASE ~Vo!AmountGiven(facts)
  BY <1>2
<1> QED BY <1>1, <1>2

\* At first it is the first day, and nothing is validated.
LEMMA VouchersTypedInit == OrdersInit => VouchersTyped
<1> SUFFICES ASSUME Vo!Init PROVE Vo!TypeOK
  BY DEF OrdersInit, VouchersTyped
<1> QED BY OrderSideAssumption
        DEF Vo!VouchersAssumption, Vo!Init, Vo!TypeOK, Vo!NoPreview, Vo!NotApplied

\* A validation, and the checkout, keep the types of the voucher.
LEMMA VouchersTypedKept ==
  ASSUME Vo!VouchersInv, Vo!TypeOK, Vo!Next
  PROVE  Vo!TypeOK'
<1>1. CASE Vo!NewDay
  <2>1. v3 \in 1 .. VoMaxDay /\ v3 < VoMaxDay /\ v3' = v3 + 1 /\ UNCHANGED <<v1, v2, v4, v5, v6>>
    BY <1>1 DEF Vo!NewDay, Vo!TypeOK
  <2>2. v3' \in 1 .. VoMaxDay
    BY <2>1, OrderSideAssumption DEF Vo!VouchersAssumption
  <2> QED BY <2>1, <2>2 DEF Vo!TypeOK
<1>2. ASSUME NEW u \in VoUsers, Vo!LogUse(u) PROVE Vo!TypeOK'
  <2>1. /\ Len(v4) < VoMaxUses /\ v4' = Append(v4, u) /\ UNCHANGED <<v1, v2, v3, v5, v6>>
        /\ v4 \in Seq(VoUsers)
    BY <1>2 DEF Vo!LogUse, Vo!VouchersInv
  <2>2. Len(v4') = Len(v4) + 1 /\ Len(v4) \in Nat
    BY <2>1, AppendProperties
  <2>3. Len(v4') <= VoMaxUses
    BY <2>1, <2>2, OrderSideAssumption DEF Vo!VouchersAssumption
  <2> QED BY <2>1, <2>3 DEF Vo!TypeOK
<1>3. ASSUME NEW cart \in VoCarts, NEW user, NEW city, NEW method, NEW given,
             Vo!Preview(cart, user, city, method, given)
      PROVE  Vo!TypeOK'
  <2> DEFINE all == Vo!FactsOf(cart, user, city, method)
             facts == [f \in given |-> all[f]]
             valid == Vo!InTime /\ Vo!Valid(facts)
             shown == IF valid /\ Vo!AmountGiven(facts)
                      THEN Vo!Discount(facts["orderAmount"]) ELSE 0
  <2>1. /\ v5' = [facts |-> facts, valid |-> valid, day |-> v3, uses |-> Len(v4),
                  discount |-> shown]
        /\ UNCHANGED <<v1, v2, v3, v4, v6>>
    BY <1>3 DEF Vo!Preview
  <2>2. "orderAmount" \in DOMAIN facts => facts["orderAmount"] \in Nat
    <3>1. all["orderAmount"] = cart.subTotal /\ cart.subTotal \in Nat
      BY OrderSideAssumption DEF Vo!FactsOf, Vo!VouchersAssumption
    <3> HIDE DEF all
    <3> QED BY <3>1
  <2>3. shown \in Nat
    <3> DEFINE off(b) == IF b /\ Vo!AmountGiven(facts)
                         THEN Vo!Discount(facts["orderAmount"]) ELSE 0
    <3> HIDE DEF facts
    <3>1. \A b \in BOOLEAN : off(b) \in Nat
      BY <2>2, AmountOff DEF Vo!TypeOK
    <3>2. CASE valid
      BY <3>1, <3>2
    <3>3. CASE ~valid
      BY <3>3
    <3> QED BY <3>2, <3>3
  <2> HIDE DEF facts, valid, shown
  <2>4. v5'.discount = shown
    BY <2>1
  <2> QED BY <2>1, <2>3, <2>4 DEF Vo!TypeOK
<1>4. ASSUME NEW cart \in VoCarts, NEW user, NEW city, NEW method,
             Vo!Apply(cart, user, city, method)
      PROVE  Vo!TypeOK'
  <2> DEFINE facts == Vo!FactsOf(cart, user, city, Vo!TrxMethod(method))
             ok == v1.active /\ Vo!InTime /\ Vo!Valid(facts)
             off == IF ok /\ v1.type = "PRICE_DISCOUNT" /\ Vo!AmountGiven(facts)
                    THEN Vo!Discount(facts["orderAmount"]) ELSE 0
  <2>1. v6'.discount = off /\ UNCHANGED <<v1, v2, v3, v4, v5>>
    BY <1>4 DEF Vo!Apply
  <2>2. facts["orderAmount"] \in Nat
    BY OrderSideAssumption DEF Vo!FactsOf, Vo!VouchersAssumption
  <2>3. off \in Nat
    <3> HIDE DEF facts
    <3>1. Vo!Discount(facts["orderAmount"]) \in Nat
      BY <2>2, DiscountBounds DEF Vo!TypeOK
    <3> QED BY <3>1
  <2> HIDE DEF off
  <2> QED BY <2>1, <2>3 DEF Vo!TypeOK
<1> QED BY <1>1, <1>2, <1>3, <1>4 DEF Vo!Next

\* The steps of the composition keep the types of the voucher.
LEMMA VouchersTypedStep ==
  VouchersTyped /\ VouchersPart /\ [OrdersNext]_allVars => VouchersTyped'
<1> SUFFICES ASSUME VouchersTyped, VouchersPart, [OrdersNext]_allVars, part' = "vouchers"
             PROVE  Vo!TypeOK'
  BY DEF VouchersTyped
<1>1. CASE VouchersStep
  BY <1>1, VouchersTypedKept DEF VouchersStep, VouchersTyped, VouchersPart
<1>2. CASE UNCHANGED allVars
  BY <1>2 DEF allVars, slots, VouchersTyped, Vo!TypeOK
<1>3. CASE OrdersNext /\ ~VouchersStep
  BY <1>3 DEF OrdersNext, Checkouts, AmountsStep, QueriesStep, LegacyStep, PagesStep
<1> QED BY <1>1, <1>2, <1>3

\* A payment is decided at most once by each update, so that the count of decisions has the type
\* the dashboard gives it.
LEMMA LegacyTyped == LO!LegacyOrdersAssumption /\ LInv => LO!TypeOK
<1> SUFFICES ASSUME LO!LegacyOrdersAssumption, LInv PROVE LO!TypeOK
  OBVIOUS
<1>1. ASSUME NEW o \in LOOrders PROVE v6[o] \in 0 .. LOMaxPatches
  <2>1. v6[o] \in Nat /\ CountedDecisions(o) /\ Cardinality(Passed(o)) \in Nat
    BY LegacyTypes, PassedCounted
  <2>2. v6[o] + Cardinality(Passed(o)) <= v7 /\ v7 \in 0 .. LOMaxPatches
    BY <2>1 DEF CountedDecisions, LInv, LTypes
  <2>3. LOMaxPatches \in Nat
    BY DEF LO!LegacyOrdersAssumption
  <2> HIDE DEF Passed
  <2> QED BY <2>1, <2>2, <2>3
<1>2. v6 \in [LOOrders -> 0 .. LOMaxPatches]
  BY <1>1 DEF LInv, LTypes
<1> QED BY <1>2 DEF LInv, LTypes, LO!TypeOK

\* Every part of the order side keeps the types of its state, for any values of the constants.
THEOREM OrderPartsTyped == OrdersSpec => []PartTypeOK
<1> DEFINE Known == part \in Parts
<1>1. OrdersInit => Known
  BY Zenon DEF OrdersInit, Parts
<1>2. Known /\ [OrdersNext]_allVars => Known'
  BY DEF OrdersNext, Checkouts, AmountsStep, VouchersStep, QueriesStep, LegacyStep, PagesStep,
         allVars
<1>3. /\ Known /\ AmountsPart /\ VouchersTyped
      /\ QueriesPart /\ LegacyPart /\ PagesPart
      => PartTypeOK
  <2>1. AmountsPart => (part = "amounts" => Am!TypeOK)
    BY AmountsAreProofs DEF AmountsPart
  <2>2. QueriesPart => (part = "queries" => OQ!TypeOK)
    BY DEF QueriesPart, QInv
  <2>3. LegacyPart => (part = "legacy" => LO!TypeOK)
    BY LegacyTyped, OrderSideAssumption DEF LegacyPart, TInv
  <2>4. PagesPart => (part = "pages" => Re!TypeOK)
    BY PagesAreProofs DEF PagesPart, RP!WInv
  <2> QED BY <2>1, <2>2, <2>3, <2>4 DEF VouchersTyped, PartTypeOK
<1> QED
  BY <1>1, <1>2, <1>3, AmountsInvInit, AmountsInvStep, VouchersInvInit, VouchersInvStep,
     VouchersTypedInit, VouchersTypedStep, QueriesInvInit, QueriesInvStep, LegacyInvInit,
     LegacyInvStep, PagesInvInit, PagesInvStep, PTL DEF OrdersSpec

=============================================================================
