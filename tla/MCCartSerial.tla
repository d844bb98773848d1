---------------------------- MODULE MCCartSerial ----------------------------
(* The constants of the serial cart's run: no bulk request names a listing twice *)
EXTENDS CartSerial, TLC

MCShopOf == CHOOSE f \in [Listings -> Shops] : Cardinality({f[l] : l \in Listings}) = Cardinality(Shops)

MCBulkOrders ==
  {b \in {<<[listing |-> l, quantity |-> 1], [listing |-> m, quantity |-> 1]>> : l, m \in Listings} :
     b[1].listing # b[2].listing}
MCSymmetry == Permutations(Requests)
=============================================================================
