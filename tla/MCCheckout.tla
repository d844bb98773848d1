----------------------------- MODULE MCCheckout -----------------------------
(* Symmetry of the checkout's runs *)
EXTENDS Checkout, TLC

MCSymmetry == Permutations(Requests)
=============================================================================
