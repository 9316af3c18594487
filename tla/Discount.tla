------------------------------ MODULE Discount ------------------------------
(***************************************************************************)
(* A basket that fills up under one promo code, cent by cent: what Create  *)
(* and CalculateDiscount make of each total, and what orders stores.       *)
(***************************************************************************)
EXTENDS Domain

CONSTANTS
  PromoCodes,  \* the codes considered
  MaxTotal     \* bound on the basket

ASSUME PromoCodesAssumption == PromoCodes \subseteq PromoRow /\ MaxTotal \in Nat

VARIABLES
  promo,
  total, error,      \* the basket in cents, and how its float64 sum compares
  discount,          \* in hundredths of a cent
  payable, granted   \* orders.total_amount and orders.discount_amount

basket == <<promo, total, error, discount, payable, granted>>

\* The empty basket.
Init ==
  /\ promo \in PromoCodes
  /\ total = 0 /\ error = 0
  /\ discount = 0 /\ payable = 0 /\ granted = 0

AddCent ==
  /\ total < MaxTotal /\ total' = total + 1
  /\ error' \in FloatError
  /\ discount' \in CalculateDiscount(promo, total', error')
  /\ payable' \in Cents(100 * total' - discount')
  /\ granted' \in Cents(discount')
  /\ UNCHANGED promo

Spec == Init /\ [][AddCent]_basket

\* The code applies.
Reached == ~LessThan(total, error, promo.minAmount)

\* The code for which float64 decides whether the maximum is exceeded.
Seventy == promo.kind = "PERCENTAGE" /\ promo.value = 70

\* A discount is never negative and never exceeds the order's total, so the
\* CHECK (total_amount >= 0) of orders never refuses a new order.
DiscountBounded == 0 <= discount /\ discount <= 100 * total /\ 0 <= payable

\* Rounding total_amount and discount_amount to the cent, each by itself, adds or
\* loses a cent at most, and only when the discount falls on half a cent.
RoundingBounded ==
  /\ payable + granted - total \in {-1, 0, 1}
  /\ payable + granted # total => discount % 100 = 50

\* Once a code applies it goes on applying, and a larger basket never costs
\* less than a smaller one, however the sums and the rounding fall.  Not so at
\* 70 percent: there some totals are free and the next cent is not.
PayableGrows ==
  [][Reached /\ ~Seventy => discount <= discount' /\ payable <= payable']_basket
=============================================================================
