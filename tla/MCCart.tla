------------------------------- MODULE MCCart -------------------------------
(* The constants of the cart's runs that a configuration cannot write *)
EXTENDS Cart, TLC

\* every listing has a shop of its own when there are shops enough
MCShopOf == CHOOSE f \in [Listings -> Shops] : Cardinality({f[l] : l \in Listings}) = Cardinality(Shops)

\* one line per listing, and the same listing twice
MCBulkOrders ==
  {<<[listing |-> l, quantity |-> 1], [listing |-> m, quantity |-> 1]>> : l, m \in Listings}

-----------------------------------------------------------------------------
(* Bound: two requests meet over any listings, three over one.  A request to clear the whole cart  *)
(* is then one of the two: with one listing it does what clearing its shop does.                   *)

Begun == {r \in Requests : req[r].pc # "idle"}

OverOneListing ==
  \E l \in Listings :
    /\ l = CHOOSE k \in Listings : TRUE
    /\ \A m \in Listings \ {l} : peak[m] = 0
    /\ \A r \in Begun : /\ req[r].scope \subseteq {l}
                        /\ \A i \in DOMAIN req[r].lines : req[r].lines[i].listing = l
    /\ \A id \in Live : rows[id].listing = l

\* as long as it is open whether a third request comes, it does not matter whose it would be
ThreeOverOneListing ==
  OverOneListing \/ \E r \in Requests \ Begun : req[r].user = CHOOSE u \in Users : TRUE

MayBegin(r) == Begun = Requests \ {r} => OverOneListing

MCNext ==
  \/ \E r \in Requests : (MayBegin(r) /\ Start(r)) \/ Continue(r)
  \/ \E l \in Listings, n \in Stocks : SellerSetsStock(l, n)

MCSpec == Init /\ [][MCNext]_vars

-----------------------------------------------------------------------------

MCSymmetry == Permutations(Requests)
=============================================================================
