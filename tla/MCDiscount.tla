----------------------------- MODULE MCDiscount -----------------------------
(***************************************************************************)
(* Discount for both kinds of code, around each boundary of the rules: the *)
(* minimum amount, 70 percent, 100 percent and a value above the total.    *)
(***************************************************************************)
EXTENDS Discount

code(kind, value, minAmount) ==
  [ exists |-> TRUE, active |-> TRUE, uses |-> 0, maxUses |-> 1, minAmount |-> minAmount,
    kind |-> kind, value |-> value, validFrom |-> 0, validUntil |-> 0 ]

Codes(values) ==
  {code(kind, value, minAmount) :
     kind \in DiscountType, value \in values, minAmount \in {0, 1, 10}}

AllCodes == Codes({1, 5, 33, 50, 69, 70, 71, 99, 100, 101, 250})
=============================================================================
