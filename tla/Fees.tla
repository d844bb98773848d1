---------------------------------- MODULE Fees ----------------------------------
(* The platform's fee on an order (platform-fee.constants.ts).  Amounts are in    *)
(* paisa, rates in basis points.  The arithmetic is exact, where the code's        *)
(* doubles can raise a fee that is a whole number of rupees by one more rupee.     *)
EXTENDS Integers

BASIS == 10000
RUPEE == 100

Methods == {"Cash", "BankTransfer", "Card", "CardBNPL", "Raast"}

Rate(method) ==
  CASE method = "Card"        -> 648
    [] method = "CardBNPL"    -> 1300
    [] method = "Raast"       -> 300
    [] OTHER                  -> 0

RequiresPlatformFee(method) == Rate(method) > 0

\* Math.ceil(a / b) for a positive b
CeilDiv(a, b) == -((-a) \div b)

WholeRupees(a, b) == RUPEE * CeilDiv(a, RUPEE * b)

\* mutant: the rate of the base, not the rate of the total that contains the fee
FeeOnBase(base, rate) == WholeRupees(base * rate, BASIS)

\* Math.ceil(base / (1 - rate) - base)
PlatformFee(base, rate) ==
  IF rate = 0 THEN 0 ELSE WholeRupees(base * rate, BASIS - rate)

\* the total is base / 0.87; the fee is what remains of it above the marked-up subtotal
\* (110 %) and the delivery, so a large discount makes it negative
BnplTotals(subtotal, delivery, voucher) ==
  LET base == subtotal + delivery - voucher
  IN [platformFee |-> WholeRupees(1000 * base - 957 * subtotal - 870 * (delivery - voucher), 870),
      grandTotal  |-> WholeRupees(100 * base, 87)]

OrderTotals(subtotal, delivery, voucher, method) ==
  IF method = "CardBNPL" THEN BnplTotals(subtotal, delivery, voucher)
  ELSE LET base == subtotal + delivery - voucher
           fee  == PlatformFee(base, Rate(method))
       IN [platformFee |-> fee, grandTotal |-> base + fee]

-----------------------------------------------------------------------------
(* Properties *)

\* What the customer pays, less the gateway's cut of it, covers the order, and by less than
\* one rupee: neither the shop nor the customer pays for the rounding.
CoversTheCut(paid, base, method) ==
  LET left == paid * (BASIS - Rate(method)) - base * BASIS
  IN 0 <= left /\ left < RUPEE * (BASIS - Rate(method))

=============================================================================
