-------------------------------- MODULE MCOrders --------------------------------
(* The instances of the parts of the order side, as small as their questions allow *)
EXTENDS OrderSide, TLC

CONSTANTS o1, o2, p1, p2

-----------------------------------------------------------------------------
(* Amounts: two listings of one shop in different locations, one of another shop without a *)
(* category, and another that gets dearer                                                  *)

Tags == {[price |-> 3000, discount |-> 0], [price |-> 5131, discount |-> 1230]}
DetailsOf(shop, location, city, category) ==
  [shop |-> shop, location |-> location, city |-> city, category |-> category]

MCDetails ==
  ("phone" :> DetailsOf(1, "north", "A", "mobile"))
  @@ ("laptop" :> DetailsOf(1, "south", "B", "laptop"))
  @@ ("cable" :> DetailsOf(2, None, "A", None))
MCFirstTags ==
  [l \in {"phone", "laptop", "cable"} |-> CHOOSE t \in Tags : (t.discount = 0) = (l # "cable")]
MCTariff == <<"B", "laptop">> :> [intra |-> 1700, inter |-> 3305, weight |-> 2]
MCDefault ==
  ("mobile" :> [intra |-> 1000, inter |-> 2000, weight |-> 1])
  @@ ("laptop" :> [intra |-> 1500, inter |-> 3000, weight |-> 2])

-----------------------------------------------------------------------------
(* Vouchers: each has one thing that may refuse it *)

Base == [type |-> "PRICE_DISCOUNT", unit |-> "%", value |-> 15, cap |-> None,
         minOrderAmount |-> None, start |-> 1, expiry |-> 2, active |-> TRUE,
         maxGlobalUsage |-> None, maxPerUserUsage |-> 1, conditions |-> {}]
If(kind, op, value) ==
  [Base EXCEPT !.conditions = {[kind |-> kind, op |-> op, value |-> value, range |-> <<0, 0>>]}]
IfAmount(op, min, max) ==
  [Base EXCEPT !.conditions =
     {[kind |-> "MIN_ORDER", op |-> op, value |-> {}, range |-> <<min, max>>]}]
Rows ==
  {Base,
   [Base EXCEPT !.cap = 200, !.minOrderAmount = 1000, !.maxGlobalUsage = 1],
   [Base EXCEPT !.unit = "PKR", !.value = 1500, !.start = 2],
   [Base EXCEPT !.type = "FREE_SHIPPING", !.expiry = 1],
   [Base EXCEPT !.unit = "Rs"], [Base EXCEPT !.active = FALSE],
   If("CITY", "IN", {"A"}), If("CITY", "EQ", {"A"}), If("SHOP", "NOT_IN", {"s2"}),
   If("USER", "EQ", {"u"}), If("PRODUCT", "IN", {"l1"}), If("PRODUCT", "NOT_IN", {"l1"}),
   If("CATEGORY", "IN", {"mobile"}), If("CATEGORY", "NOT_IN", {"mobile"}),
   If("PAYMENT_METHOD", "EQ", {"Cash"}), If("CUSTOM", "EQ", {}), If("CATEGORY", "EQ", {}),
   IfAmount("GTE", 1000, 0), IfAmount("LTE", 1000, 0), IfAmount("EQ", 1993, 0),
   IfAmount("BETWEEN", 500, 1000), IfAmount("IN", 500, 0), If("SHOP", "GTE", {"s2"})}

CartLine(listing, shop, category) == [listing |-> listing, shop |-> shop, category |-> category]
Carts ==
  {[subTotal |-> 1993, lines |-> <<CartLine("l1", "s1", "mobile"), CartLine("l2", "s2", None)>>],
   [subTotal |-> 703, lines |-> <<CartLine("l2", "s2", "laptop")>>],
   [subTotal |-> 0, lines |-> <<CartLine("l1", "s1", "mobile")>>]}

-----------------------------------------------------------------------------

\* Queries: an order of two shops and one of a source without a shop
MCOrderOf == ("s1" :> "o1") @@ ("s2" :> "o1") @@ ("s3" :> "o2")
MCShopOf  == ("s1" :> "a") @@ ("s2" :> "b") @@ ("s3" :> None)

\* The old dashboard: of cash orders only the completeness is looked at, of orders by card only the
\* payment
MCBodies ==
  {[trxMethod |-> "Cash", trxStatus |-> "PENDING", complete |-> c] : c \in BOOLEAN} \cup
  {[trxMethod |-> "Card", trxStatus |-> st, complete |-> TRUE] :
     st \in {"PENDING", "APPROVED", "DECLINED"}}

\* The orders and the updates of the old dashboard are alike
MCSymmetry ==
  Permutations(Requests) \cup Permutations({o1, o2}) \cup Permutations({p1, p2})

\* the selection of columns, a pure function of the repository base
Paths == {<<"shop">>, <<"shop", "name">>, <<"shop", "city">>, <<"title">>}

ASSUME \A paths \in SUBSET Paths : Re!FieldsInAnyOrder(paths)

=============================================================================
