----------------------------- MODULE MCPurchase -----------------------------
(* The constants of the purchase's run that a configuration cannot write *)
EXTENDS Purchase, TLC

MCShopOf == CHOOSE f \in [Listings -> Shops] : TRUE

MCBulkOrders ==
  {<<[listing |-> l, quantity |-> 1], [listing |-> l, quantity |-> 1]>> : l \in Listings}

MCSymmetry == Permutations(Shoppers) \cup Permutations(Listings)
=============================================================================
