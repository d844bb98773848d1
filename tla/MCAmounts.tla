------------------------------- MODULE MCAmounts -------------------------------
(* One listing, whose shipping is charged by the default of its category *)
EXTENDS Amounts, TLC

MCDetails ==
  [l \in Listings |-> [shop |-> 1, location |-> "north", city |-> "A", category |-> "mobile"]]
MCTags == {[price |-> 3000, discount |-> 0]}
MCFirstTags == [l \in Listings |-> [price |-> 3000, discount |-> 0]]
MCTariff == <<>>
MCDefault == "mobile" :> [intra |-> 1000, inter |-> 2000, weight |-> 1]
=============================================================================
