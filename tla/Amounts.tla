--------------------------------- MODULE Amounts ---------------------------------
(***************************************************************************)
(* The amounts of an order: createOrder checks the prices the client sent  *)
(* against the listings, calculates subtotal, shipping, fee and total, and *)
(* splits the lines into one source per shop and location.  The sellers    *)
(* may change their prices between the loading of the checkout page and    *)
(* the reading of the listings, and between that and the storing of the    *)
(* order, which uses what was read.  Amounts are integers in paisa; prices *)
(* have two decimals, so toFixed(2) loses nothing.                         *)
(***************************************************************************)
EXTENDS Fees, Sequences, FiniteSets, Functions

CONSTANTS
  Listings, Shops, Locations, Cities, Categories,
  Details,     \* Details[l]: the shop, location, city and category of a listing
  PriceTags,   \* bound: the pairs of effectivePrice and effectiveDiscount
  FirstTags,   \* bound: the tags the listings start with
  Repriced,    \* bound: the listings whose price may change
  Tariff,      \* the rows of delivery_charges, by city and category
  Default,     \* DEFAULT_DELIVERY_CHARGES, by category
  Destinations, \* bound: the cities of the delivery addresses, or Absent when not found
  Quantities,  \* bound: quantities of a line
  MaxLines,    \* bound: lines of a cart
  Vouchers,    \* bound: percentages of the subtotal a voucher takes off
  Deviations,  \* bound: by how much the client's fee and total differ from the server's
  Absent       \* a relation or a field that is not there

\* what a run assumes of the constants: amounts and quantities are numbers, and no delivery is
\* charged less than nothing
AmountsAssumption ==
  /\ Absent \notin Cities \cup Categories \cup Locations \cup Int
  /\ Destinations \subseteq Cities \cup {Absent}
  /\ Details \in [Listings -> [shop: Shops, location: Locations \cup {Absent},
                              city: Cities \cup {Absent}, category: Categories \cup {Absent}]]
  /\ PriceTags \subseteq [price: Int, discount: Int] /\ FirstTags \in [Listings -> PriceTags]
  /\ \A charges \in {Tariff[key] : key \in DOMAIN Tariff} \cup {Default[c] : c \in Categories} :
       charges \in [intra: Nat, inter: Nat, weight: Nat]
  /\ Quantities \subseteq Int /\ MaxLines \in Nat /\ Vouchers \subseteq Int
  /\ Deviations \subseteq Int \cup {Absent}

VARIABLES
  tag,     \* tag[l]: the price and the discount of listing l now
  page,    \* the price tags the customer was shown
  order,   \* the stored order, or Absent
  answer,  \* what the last checkout was answered
  request, \* the checkout whose prices were found right, and the tags read for that, or Absent;
           \* bound: one at a time
  since    \* auxiliary: since[l] are the tags of listing l since the request read it

vars == <<tag, page, order, answer, request, since>>

-----------------------------------------------------------------------------

Line == [listing: Listings, quantity: Quantities, unitPrice: Int, unitDiscount: Int \cup {Absent}]
Request ==
  [lines: Seq(Line), city: Destinations, method: Methods, voucher: Vouchers,
   fee: Int \cup {Absent}, total: Int \cup {Absent}, seen: [Listings -> PriceTags]]

OrderHeader ==
  [quantity: Int, subTotal: Int, productDiscount: Int, deliveryAmount: Int,
   voucherDiscount: Int, grandTotal: Int]
OrderPayment == [trxMethod: Methods, amountReceivable: Int, platformCharges: Int]
OrderSource ==
  [shop: Shops, location: Locations \cup {Absent}, quantity: Int, amount: Int,
   discountValue: Int, deliveryCharges: Int]
OrderItem ==
  [shop: Shops, location: Locations \cup {Absent}, listing: Listings, quantity: Int,
   price: Int, discount: Int, deliveryCharges: Int]

Answers == {"none", "price", "fee", "total", "ok"}

TypeOK ==
  /\ tag \in [Listings -> PriceTags]
  /\ page \in [Listings -> PriceTags]
  /\ answer \in Answers
  /\ request # Absent => request \in Request
  /\ since \in [Listings -> SUBSET PriceTags]
  /\ order # Absent =>
       /\ order.header \in OrderHeader
       /\ order.payment \in OrderPayment
       /\ order.sources \subseteq OrderSource
       /\ order.items \in Seq(OrderItem)

NotRead == [l \in Listings |-> {}]

Init ==
  /\ tag = FirstTags
  /\ page = tag
  /\ order = Absent
  /\ answer = "none"
  /\ request = Absent
  /\ since = NotRead

-----------------------------------------------------------------------------
(* Prices *)

Distance(a, b) == IF a < b THEN b - a ELSE a - b

\* item.quantity || 1, the quantity the pricing uses
Priced(line) == IF line.quantity = 0 THEN 1 ELSE line.quantity

\* item.unitDiscount || 0
Discount(line) == IF line.unitDiscount = Absent THEN 0 ELSE line.unitDiscount

SumLines(f(_), lines) == SumFunction([i \in DOMAIN lines |-> f(lines[i])])

\* mutant: only the discount is compared
OnlyDiscountMatches(line, seen) == Discount(line) \in {0, seen[line.listing].discount}

\* a discount that is sent must be the listing's; one that is not sent is not asked for
PriceMatches(line, seen) ==
  /\ Distance(line.unitPrice, seen[line.listing].price) <= 1
  /\ Discount(line) # 0 => Distance(Discount(line), seen[line.listing].discount) <= 1

ProductDiscount(lines) == SumLines(LAMBDA line : Discount(line) * Priced(line), lines)

SubTotal(lines) ==
  SumLines(LAMBDA line : (line.unitPrice - Discount(line)) * Priced(line), lines)

-----------------------------------------------------------------------------
(* Shipping *)

HasMeta(l) == Details[l].city # Absent /\ Details[l].category # Absent

\* the row of the shop's city and the category, or the default of the category
ChargesOf(l) ==
  LET key == <<Details[l].city, Details[l].category>>
  IN IF key \in DOMAIN Tariff THEN Tariff[key] ELSE Default[Details[l].category]

\* per line, whatever its quantity; a destination that was not found is another city
ShippingCharge(l, city) ==
  LET charges == ChargesOf(l)
  IN charges.weight * (IF Details[l].city = city THEN charges.intra ELSE charges.inter)

\* what createOrder makes of calculateShipping: a failure, or a listing without city or
\* category, counts as no charge
Delivery(lines, city, ok) ==
  LET Charge(l) == IF ok /\ HasMeta(l) THEN ShippingCharge(l, city) ELSE 0
  IN [total |-> SumLines(LAMBDA line : Charge(line.listing), lines),
      of    |-> [l \in Listings |-> Charge(l)]]

-----------------------------------------------------------------------------
(* The rows of the order *)

Header(lines, delivery, voucher) ==
  [quantity |-> SumLines(LAMBDA line : line.quantity, lines),
   subTotal |-> SubTotal(lines),
   productDiscount |-> ProductDiscount(lines),
   deliveryAmount |-> delivery,
   voucherDiscount |-> voucher,
   grandTotal |-> SubTotal(lines) + delivery - voucher]

Payment(method, totals) ==
  [trxMethod |-> method, amountReceivable |-> totals.grandTotal,
   platformCharges |-> totals.platformFee]

\* the discount is the one that was read, sent or not
Item(line, deliveryOf, seen) ==
  [shop |-> Details[line.listing].shop, location |-> Details[line.listing].location,
   listing |-> line.listing, quantity |-> line.quantity, price |-> line.unitPrice,
   discount |-> seen[line.listing].discount,
   deliveryCharges |-> deliveryOf[line.listing] * line.quantity]

Items(lines, deliveryOf, seen) == [i \in DOMAIN lines |-> Item(lines[i], deliveryOf, seen)]

\* mutant: a source holds the items of its first location only
SourceFirst(shop, location, items) ==
  LET mine == {i \in DOMAIN items : items[i].shop = shop}
      first == {i \in mine : \A j \in mine : i <= j}
      Sum(f(_)) == SumFunctionOnSet([i \in DOMAIN items |-> f(items[i])], first)
  IN [shop |-> shop, location |-> location,
      quantity |-> Sum(LAMBDA it : it.quantity),
      amount |-> Sum(LAMBDA it : it.quantity * it.price),
      discountValue |-> Sum(LAMBDA it : it.quantity * it.discount),
      deliveryCharges |-> Sum(LAMBDA it : it.deliveryCharges)]

\* the source of a shop and location: the sums of its items
Source(shop, location, items) ==
  LET mine == {i \in DOMAIN items : items[i].shop = shop /\ items[i].location = location}
      Sum(f(_)) == SumFunctionOnSet([i \in DOMAIN items |-> f(items[i])], mine)
  IN [shop |-> shop, location |-> location,
      quantity |-> Sum(LAMBDA it : it.quantity),
      amount |-> Sum(LAMBDA it : it.quantity * it.price),
      discountValue |-> Sum(LAMBDA it : it.quantity * it.discount),
      deliveryCharges |-> Sum(LAMBDA it : it.deliveryCharges)]

Sources(items) == {Source(items[i].shop, items[i].location, items) : i \in DOMAIN items}

-----------------------------------------------------------------------------
(* Actions *)

\* a seller changes the price of a listing; bound: until the order is stored
Reprice(l, t) ==
  /\ order = Absent
  /\ tag' = [tag EXCEPT ![l] = t]
  /\ since' = IF request = Absent THEN since ELSE [since EXCEPT ![l] = @ \cup {t}]
  /\ UNCHANGED <<page, order, answer, request>>

\* the client loads the checkout page; bound: between two requests
LoadPage ==
  /\ order = Absent /\ request = Absent
  /\ page' = tag
  /\ UNCHANGED <<tag, order, answer, request, since>>

FeeAccepted(fee, totals, method) ==
  RequiresPlatformFee(method) =>
    /\ fee # Absent
    /\ Distance(fee, totals.platformFee) <= 50

\* a total of zero is one that was not sent
TotalAccepted(total, totals, method) ==
  total \in {Absent, 0}
  \/ Distance(total, totals.grandTotal) <= (IF RequiresPlatformFee(method) THEN 50 ELSE 1)

\* createOrder reads the listings, and compares with them the prices that were sent
Validate(req) ==
  /\ order = Absent /\ request = Absent
  /\ IF \A i \in DOMAIN req.lines : PriceMatches(req.lines[i], req.seen)
     THEN /\ request' = req
          /\ since' = [l \in Listings |-> {tag[l]}]
          /\ UNCHANGED answer
     ELSE answer' = "price" /\ UNCHANGED <<request, since>>
  /\ UNCHANGED <<tag, page, order>>

\* and goes on, several awaits later, with the listings as they were read: the shipping, which may
\* fail, the voucher, the totals and, in the transaction, the rows of the order.  No other await
\* reads a price.  That the transaction may fail is Checkout's.
Store(shippingOk) ==
  LET req      == request
      delivery == Delivery(req.lines, req.city, shippingOk)
      voucher  == (SubTotal(req.lines) * req.voucher) \div 100
      totals   == OrderTotals(SubTotal(req.lines), delivery.total, voucher, req.method)
      items    == Items(req.lines, delivery.of, req.seen)
      refusal  ==
        IF ~FeeAccepted(req.fee, totals, req.method) THEN "fee"
        ELSE IF ~TotalAccepted(req.total, totals, req.method) THEN "total"
        ELSE "ok"
  IN /\ request # Absent
     /\ request' = Absent
     /\ answer' = refusal
     /\ IF refusal = "ok"
        THEN /\ order' = [header  |-> Header(req.lines, delivery.total, voucher),
                          payment |-> Payment(req.method, totals),
                          sources |-> Sources(items),
                          items   |-> items]
             /\ UNCHANGED since
        ELSE since' = NotRead /\ UNCHANGED order
     /\ UNCHANGED <<tag, page>>

\* the line of a listing as the page shows it; the client may leave the discount out
LineShown(l, quantity, withDiscount) ==
  [listing |-> l, quantity |-> quantity, unitPrice |-> page[l].price,
   unitDiscount |-> IF withDiscount /\ page[l].discount # 0 THEN page[l].discount ELSE Absent]

LinesShown ==
  UNION {[1 .. n -> {LineShown(l, q, d) : l \in Listings, q \in Quantities, d \in BOOLEAN}]
         : n \in 1 .. MaxLines}

\* the fee and the total the client calculated for what it shows, or another
Submit(lines, city, method, percent) ==
  LET delivery == Delivery(lines, city, TRUE)
      totals == OrderTotals(SubTotal(lines), delivery.total,
                            (SubTotal(lines) * percent) \div 100, method)
  IN \E d \in Deviations :
       Validate([lines |-> lines, city |-> city, method |-> method, voucher |-> percent,
                 fee |-> IF d = Absent THEN Absent ELSE totals.platformFee + d,
                 total |-> IF d = Absent THEN Absent ELSE totals.grandTotal + d, seen |-> tag])

Next ==
  \/ \E l \in Repriced, t \in PriceTags : Reprice(l, t)
  \/ LoadPage
  \/ \E lines \in LinesShown, city \in Destinations, method \in Methods,
        percent \in Vouchers :
       Submit(lines, city, method, percent)
  \/ \E ok \in BOOLEAN : Store(ok)

Spec == Init /\ [][Next]_vars

-----------------------------------------------------------------------------
(* Properties *)

\* What is receivable of an order covers it after the gateway's cut, to the rupee.
FeeCoversTheCut ==
  order # Absent =>
    CoversTheCut(order.payment.amountReceivable, order.header.grandTotal,
                 order.payment.trxMethod)

NoEmptyLine == \A i \in DOMAIN order.items : order.items[i].quantity > 0

\* The sources of an order account for what is bought: their quantities and amounts add up to the
\* header's, and each shop and location has one source.  A line of quantity zero is the exception:
\* it is priced as one and counted as none.
SourcesCarryTheOrder ==
  order # Absent /\ NoEmptyLine =>
    LET Sum(f(_)) == SumFunction([s \in order.sources |-> f(s)])
    IN /\ Sum(LAMBDA s : s.quantity) = order.header.quantity
       /\ Sum(LAMBDA s : s.amount) = order.header.subTotal + order.header.productDiscount
       /\ \A s1, s2 \in order.sources :
            s1.shop = s2.shop /\ s1.location = s2.location => s1 = s2

\* What docs/delivery-charges-breakdown-implementation.md:34 says: the delivery charges of the
\* sources add up to the header's.  Shipping charges a line once, whatever its quantity, and the
\* sources multiply that by the quantity.
DeliveryAddsUp ==
  order # Absent /\ NoEmptyLine =>
    SumFunction([s \in order.sources |-> s.deliveryCharges]) = order.header.deliveryAmount

\* However old the page is that an order was sent from, and whatever sellers do until it is stored,
\* each of its items has the price, but for the paisa that createOrder tolerates, and the discount
\* that its listing had together at some moment from the reading of the listings on.  That moment
\* may be past when the order is stored.
NoSaleAtOldPrice ==
  order # Absent =>
    \A i \in DOMAIN order.items :
      LET it == order.items[i]
      IN \E t \in since[it.listing] : Distance(it.price, t.price) <= 1 /\ it.discount = t.discount

=============================================================================
