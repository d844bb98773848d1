-------------------------------- MODULE Vouchers --------------------------------
(***************************************************************************)
(* A voucher from the cart page to the order (vouchers.service.ts): the    *)
(* customer has it validated (POST /vouchers/validate) and later sends the *)
(* checkout, which applies it again on its own facts.  Between the two the *)
(* day may change and others may use the voucher up.  Amounts in paisa.    *)
(***************************************************************************)
EXTENDS Integers, Sequences, FiniteSets

CONSTANTS
  Rows,       \* bound: the vouchers looked at
  Carts,      \* bound: the carts looked at
  Users, Cities,
  MaxDay,     \* bound: the last day
  MaxUses,    \* bound: rows of the usage log
  None        \* no value: a guest, an unknown city, no limit

VARIABLES
  voucher,    \* the row of the voucher
  userLookup, \* whether the usage log can be counted by userId, a property its entity lacks
  today,
  uses,       \* the users of the rows of the usage log
  preview,    \* the last validation the customer saw
  applied     \* what the checkout made of the voucher

vars == <<voucher, userLookup, today, uses, preview, applied>>

-----------------------------------------------------------------------------

VoucherTypes == {"PRICE_DISCOUNT", "FREE_SHIPPING"}
Kinds == {"CITY", "CATEGORY", "PRODUCT", "USER", "SHOP", "PAYMENT_METHOD", "MIN_ORDER", "CUSTOM"}
Operators == {"IN", "NOT_IN", "EQ", "GTE", "LTE", "BETWEEN"}

\* what a run assumes of the constants
VouchersAssumption ==
  /\ None \notin Users \cup Cities \cup Int
  /\ \A v \in Rows : /\ v.value \in Nat /\ v.start \in Nat /\ v.expiry \in Nat
                     /\ {v.cap, v.minOrderAmount} \subseteq Nat \cup {None}
                     /\ v.maxGlobalUsage \in (Nat \ {0}) \cup {None}  \* to the code 0 is none
                     /\ v.maxPerUserUsage \in Nat
                     /\ v.type \in VoucherTypes
                     /\ \A c \in v.conditions : c.kind \in Kinds /\ c.op \in Operators
  /\ \A cart \in Carts : cart.subTotal \in Nat
  /\ MaxDay \in Nat \ {0} /\ MaxUses \in Nat

\* the client names a payment method by the checkout's enum, an order by the transaction's
TrxMethod(paymentMethod) ==
  CASE paymentMethod = "COD" -> "Cash" [] paymentMethod = "CARD" -> "Card"

Facts == {"userId", "cityId", "categoryIds", "productIds", "shopId", "orderAmount", "paymentMethod"}

NoPreview == [facts |-> None, valid |-> FALSE, discount |-> 0, day |-> 0, uses |-> 0]
NotApplied == [facts |-> None, ok |-> FALSE, discount |-> 0, freeShipping |-> FALSE, day |-> 0,
               uses |-> 0, own |-> 0]

TypeOK ==
  /\ voucher \in Rows
  /\ voucher.type \in VoucherTypes
  /\ \A c \in voucher.conditions : c.kind \in Kinds /\ c.op \in Operators
  /\ userLookup \in BOOLEAN
  /\ today \in 1 .. MaxDay
  /\ Len(uses) <= MaxUses
  /\ preview.discount \in Nat /\ applied.discount \in Nat

Init ==
  /\ voucher \in Rows
  /\ userLookup \in BOOLEAN
  /\ today = 1
  /\ uses = <<>>
  /\ preview = NoPreview
  /\ applied = NotApplied

-----------------------------------------------------------------------------
(* Conditions: the value is a set of strings, or the range of a numeric condition *)

OneOf(data, op, values) ==
  CASE op = "EQ"     -> values = {data}
    [] op = "IN"     -> data \in values
    [] op = "NOT_IN" -> data \notin values
    [] OTHER         -> TRUE

AnyOf(data, op, values) ==
  CASE op = "IN"     -> data \cap values # {}
    [] op = "NOT_IN" -> data \cap values = {}
    [] OTHER         -> TRUE

Within(amount, op, range) ==
  CASE op = "GTE"     -> amount >= range[1]
    [] op = "LTE"     -> amount <= range[1]
    [] op = "EQ"      -> amount = range[1]
    [] op = "BETWEEN" -> amount >= range[1] /\ amount <= range[2]
    [] OTHER          -> TRUE

\* facts is a function on the facts that are given; one that is missing is "undefined"
FactOf(facts, f) == IF f \in DOMAIN facts THEN facts[f] ELSE None

ConditionHolds(c, facts) ==
  CASE c.kind = "CITY"           -> OneOf(FactOf(facts, "cityId"), c.op, c.value)
    [] c.kind = "CATEGORY"       -> "categoryIds" \in DOMAIN facts
                                    /\ AnyOf(facts["categoryIds"], c.op, c.value)
    [] c.kind = "PRODUCT"        -> "productIds" \in DOMAIN facts
                                    /\ AnyOf(facts["productIds"], c.op, c.value)
    [] c.kind = "USER"           -> OneOf(FactOf(facts, "userId"), c.op, c.value)
    [] c.kind = "SHOP"           -> OneOf(FactOf(facts, "shopId"), c.op, c.value)
    [] c.kind = "PAYMENT_METHOD" -> OneOf(FactOf(facts, "paymentMethod"), c.op, c.value)
    [] c.kind = "MIN_ORDER"      -> /\ FactOf(facts, "orderAmount") \notin {None, 0}
                                    /\ Within(facts["orderAmount"], c.op, c.range)
    [] OTHER                     -> TRUE

-----------------------------------------------------------------------------
(* Validity and discount *)

InTime == voucher.start <= today /\ today <= voucher.expiry

UsesBy(user) == Cardinality({i \in DOMAIN uses : uses[i] = user})

\* mutant: the limit of a user is forgotten
UsageLeftOfAll(user) ==
  /\ voucher.maxGlobalUsage # None => Len(uses) < voucher.maxGlobalUsage
  /\ userLookup

UsageLeft(user) ==
  /\ voucher.maxGlobalUsage # None => Len(uses) < voucher.maxGlobalUsage
  /\ userLookup
  /\ UsesBy(user) < voucher.maxPerUserUsage

AmountGiven(facts) == FactOf(facts, "orderAmount") \notin {None, 0}

BelowMinimum(amount) == voucher.minOrderAmount # None /\ amount < voucher.minOrderAmount

Valid(facts) ==
  /\ AmountGiven(facts) => ~BelowMinimum(facts["orderAmount"])
  /\ \A c \in voucher.conditions : ConditionHolds(c, facts)
  /\ FactOf(facts, "userId") # None => UsageLeft(facts["userId"])

Smaller(a, b) == IF a < b THEN a ELSE b

\* rounded to the paisa, capped by the voucher and by the order; an unknown unit takes
\* nothing off
Discount(amount) ==
  LET raw == IF voucher.unit = "%" THEN (2 * amount * voucher.value + 100) \div 200
             ELSE IF voucher.unit = "PKR" THEN voucher.value ELSE 0
      capped == IF voucher.cap # None THEN Smaller(raw, voucher.cap) ELSE raw
  IN IF BelowMinimum(amount) THEN 0 ELSE Smaller(capped, amount)

-----------------------------------------------------------------------------
(* Actions *)

NewDay ==
  /\ today < MaxDay
  /\ today' = today + 1
  /\ UNCHANGED <<voucher, userLookup, uses, preview, applied>>

\* another system writes the usage log
LogUse(u) ==
  /\ Len(uses) < MaxUses
  /\ uses' = Append(uses, u)
  /\ UNCHANGED <<voucher, userLookup, today, preview, applied>>

\* what the checkout knows of a cart, and a client that sends everything with the validation
CategoriesOf(cart) == {cart.lines[i].category : i \in DOMAIN cart.lines} \ {None}
ProductsOf(cart) == {cart.lines[i].listing : i \in DOMAIN cart.lines}
FactsOf(cart, user, city, method) ==
  [userId |-> user, cityId |-> city, categoryIds |-> CategoriesOf(cart),
   productIds |-> ProductsOf(cart), shopId |-> cart.lines[1].shop,
   orderAmount |-> cart.subTotal, paymentMethod |-> method]

\* fetchVoucherByCodeWithValidation: the discount is shown whatever the voucher's type; the
\* body may leave any fact out.  Bound: one validation, before the checkout.
Preview(cart, user, city, method, given) ==
  LET all   == FactsOf(cart, user, city, method)
      facts == [f \in given |-> all[f]]
      valid == InTime /\ Valid(facts)
  IN /\ preview = NoPreview /\ applied = NotApplied
     /\ voucher.active
     /\ preview' = [facts |-> facts, valid |-> valid, day |-> today, uses |-> Len(uses),
                    discount |-> IF valid /\ AmountGiven(facts)
                                 THEN Discount(facts["orderAmount"]) ELSE 0]
     /\ UNCHANGED <<voucher, userLookup, today, uses, applied>>

\* mutant: the city of the delivery address is not passed on
ApplyAnywhere(cart, user, city, method) ==
  LET facts == FactsOf(cart, user, None, TrxMethod(method))
      ok    == voucher.active /\ InTime /\ Valid(facts)
  IN /\ applied = NotApplied
     /\ preview.facts \in {None, FactsOf(cart, user, city, method)}
     /\ applied' = [facts |-> FactsOf(cart, user, city, method), ok |-> ok, day |-> today,
                    uses |-> Len(uses), own |-> UsesBy(user),
                    discount |-> IF ok /\ voucher.type = "PRICE_DISCOUNT" /\ AmountGiven(facts)
                                 THEN Discount(facts["orderAmount"]) ELSE 0,
                    freeShipping |-> ok /\ voucher.type = "FREE_SHIPPING"]
     /\ UNCHANGED <<voucher, userLookup, today, uses, preview>>

\* applyVoucherToOrder, as createOrder calls it: with the transaction's name of the method.
\* Free shipping is promised in the answer and createOrder does not look at it.  Bound: after
\* a validation the checkout is sent with the facts that were validated.
Apply(cart, user, city, method) ==
  LET facts == FactsOf(cart, user, city, TrxMethod(method))
      ok    == voucher.active /\ InTime /\ Valid(facts)
  IN /\ applied = NotApplied
     /\ preview.facts \in {None, FactsOf(cart, user, city, method)}
     /\ applied' = [facts |-> FactsOf(cart, user, city, method), ok |-> ok, day |-> today,
                    uses |-> Len(uses), own |-> UsesBy(user),
                    discount |-> IF ok /\ voucher.type = "PRICE_DISCOUNT" /\ AmountGiven(facts)
                                 THEN Discount(facts["orderAmount"]) ELSE 0,
                    freeShipping |-> ok /\ voucher.type = "FREE_SHIPPING"]
     /\ UNCHANGED <<voucher, userLookup, today, uses, preview>>

Next ==
  \/ NewDay
  \/ \E u \in Users : LogUse(u)
  \/ \E cart \in Carts, user \in Users \cup {None}, city \in Cities \cup {None},
        method \in {"COD", "CARD"} :
       \/ \E left \in {{}, {"categoryIds"}, {"orderAmount"}, {"userId"}} :
            Preview(cart, user, city, method, Facts \ left)
       \/ Apply(cart, user, city, method)

Spec == Init /\ [][Next]_vars

-----------------------------------------------------------------------------
(* Properties *)

\* The checkout honours the validation: with the same facts on the same day, and no use
\* logged since, the voucher is applied if it was called valid, at the discount shown.  Two
\* exceptions are the code's: a condition on the payment method, which the two calls name
\* differently, and free shipping, shown with a discount that no order gets.
PreviewHonoured ==
  /\ applied.facts # None /\ applied.facts = preview.facts
  /\ applied.day = preview.day /\ applied.uses = preview.uses
  /\ \A c \in voucher.conditions : c.kind # "PAYMENT_METHOD"
  => /\ applied.ok <=> preview.valid
     /\ voucher.type = "PRICE_DISCOUNT" => applied.discount = preview.discount

\* An order never gets more off than it costs or than the voucher's cap, and nothing of a
\* voucher out of time or for dearer orders.  Of a user who is signed in, the uses counted when
\* the voucher is applied are below both limits, all users' and his own; the code counts nothing
\* of a guest, and uses logged after that count are not looked at.
DiscountEarned ==
  applied.discount > 0 =>
    /\ applied.discount <= applied.facts.orderAmount
    /\ voucher.cap # None => applied.discount <= voucher.cap
    /\ voucher.start <= applied.day /\ applied.day <= voucher.expiry
    /\ voucher.minOrderAmount # None => applied.facts.orderAmount >= voucher.minOrderAmount
    /\ applied.facts.userId # None =>
         /\ voucher.maxGlobalUsage # None => applied.uses < voucher.maxGlobalUsage
         /\ applied.own < voucher.maxPerUserUsage

\* As long as the day is the same and no use is logged, a validation says what another would.
PreviewStands ==
  /\ preview.facts # None => voucher.active
  /\ preview.facts # None /\ preview.day = today /\ preview.uses = Len(uses) =>
       /\ preview.valid <=> InTime /\ Valid(preview.facts)
       /\ preview.discount = IF preview.valid /\ AmountGiven(preview.facts)
                             THEN Discount(preview.facts.orderAmount) ELSE 0

\* the inductive invariant
VouchersInv ==
  /\ voucher \in Rows /\ today \in Nat /\ uses \in Seq(Users)
  /\ preview.facts # None => preview.day <= today /\ preview.uses <= Len(uses)
  /\ preview.day \in Nat /\ preview.uses \in Nat
  /\ PreviewStands /\ PreviewHonoured /\ DiscountEarned

=============================================================================
