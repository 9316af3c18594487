------------------------------- MODULE Domain -------------------------------
(***************************************************************************)
(* The rules of internal/domain: the order state machine, the validity of  *)
(* a promo code and the discount it grants.  Amounts are integers (cents)  *)
(* and percentages are whole.                                              *)
(*                                                                         *)
(* The Go code computes amounts in float64 and PostgreSQL stores them as   *)
(* DECIMAL(12,2).  The float64 value of an amount that such a column can   *)
(* hold is off by far less than half a cent.  That shows in two places:    *)
(* where two equal amounts are compared, and where an amount that falls on *)
(* half a cent is stored.  There the outcome depends on how the amount was *)
(* computed (3 * 0.35 is 1.0499999999999998, and half of it is stored as   *)
(* 0.52; 0.35 itself is exact, and half of it is stored as 0.18), and the  *)
(* operators below give every outcome.                                     *)
(***************************************************************************)
EXTENDS Integers

OrderStatus ==
  {"CREATED", "PAYMENT_PENDING", "PAID", "SHIPPED", "COMPLETED", "CANCELED"}

ProductStatus == {"ACTIVE", "INACTIVE", "ARCHIVED"}

DiscountType == {"PERCENTAGE", "FIXED_AMOUNT"}

UserRole == {"USER", "SELLER", "ADMIN"}

ValidTransitions ==
  [ CREATED         |-> {"PAYMENT_PENDING", "CANCELED"},
    PAYMENT_PENDING |-> {"PAID", "CANCELED"},
    PAID            |-> {"SHIPPED"},
    SHIPPED         |-> {"COMPLETED"},
    COMPLETED       |-> {},
    CANCELED        |-> {} ]

CanTransitionTo(status, target) ==
  status \in OrderStatus /\ target \in ValidTransitions[status]

\* The statuses GetActiveOrderByUserID looks for.
ActiveStatus == {"CREATED", "PAYMENT_PENDING"}

(***************************************************************************)
(* The part of a promo_codes row that does not change while it exists, and *)
(* the part that does.  validFrom and validUntil are instants of the same  *)
(* clock as now.                                                           *)
(***************************************************************************)
PromoRow ==
  [ exists : BOOLEAN, active : BOOLEAN, uses : Nat, maxUses : Nat, minAmount : Nat,
    kind : DiscountType, value : Nat, validFrom : Nat, validUntil : Nat ]

IsValid(promo, now) ==
  /\ promo.active
  /\ promo.uses < promo.maxUses
  /\ promo.validFrom <= now
  /\ now <= promo.validUntil

\* A float64 amount can be less than the amount it stands for, equal or more.
FloatError == {-1, 0, 1}

\* total < bound, in float64.
LessThan(total, error, bound) == total < bound \/ (total = bound /\ error < 0)

\* Discounts are in hundredths of a cent, so that a percentage of an amount in
\* cents is exact.

\* Mutant: the maximum is forgotten.
NeverAboveMax(total, value) == {FALSE}

\* discount > maxDiscount; at 70 percent the two amounts are equal.
AboveMaxDiscount(total, value) ==
  {above \in BOOLEAN : value # 70 => (above <=> total * value > 70 * total)}

\* Above the maximum a percentage is not capped: it becomes the whole total.
PercentageDiscount(total, value) ==
  {IF above THEN 100 * total ELSE total * value : above \in AboveMaxDiscount(total, value)}

\* Mutant: a fixed amount above the total grants nothing.
CalculateDiscountUncapped(promo, total, error) ==
  IF LessThan(total, error, promo.minAmount) THEN {0}
  ELSE IF promo.kind = "PERCENTAGE" THEN PercentageDiscount(total, promo.value)
  ELSE {100 * (IF promo.value > total THEN 0 ELSE promo.value)}

CalculateDiscount(promo, total, error) ==
  IF LessThan(total, error, promo.minAmount) THEN {0}
  ELSE IF promo.kind = "PERCENTAGE" THEN PercentageDiscount(total, promo.value)
  ELSE {100 * (IF promo.value > total THEN total ELSE promo.value)}

\* Mutant: the fraction of a cent is cut off.
CentsTruncated(hundredths) == {hundredths \div 100}

\* A DECIMAL(12,2) column stores an amount rounded to the cent; a half goes up
\* or down with the float64 value.
Cents(hundredths) == {(hundredths + 49) \div 100, (hundredths + 50) \div 100}
=============================================================================
