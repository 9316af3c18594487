--------------------------- MODULE DiscountProofs ---------------------------
(***************************************************************************)
(* The arithmetic of CalculateDiscount, for every code and every total,    *)
(* whichever way the comparisons and the rounding of float64 amounts fall. *)
(***************************************************************************)
EXTENDS Discount, TLAPS

\* A percentage of the total is the whole of it above the maximum and exact below.
LEMMA PercentageCases ==
  ASSUME NEW t \in Nat, NEW value \in Nat, NEW d \in PercentageDiscount(t, value)
  PROVE  \/ d = 100 * t /\ (value # 70 => t * value > 70 * t)
         \/ d = t * value /\ t * value <= 70 * t
<1> DEFINE share == t * value
<1>1. share \in Int
  OBVIOUS
<1>2. PICK above \in AboveMaxDiscount(t, value) : d = IF above THEN 100 * t ELSE share
  BY DEF PercentageDiscount
<1>3. above \in BOOLEAN /\ (value # 70 => (above <=> share > 70 * t))
  BY <1>2 DEF AboveMaxDiscount
<1>4. value = 70 => share <= 70 * t
  OBVIOUS
<1> HIDE DEF share
<1>5. \/ d = 100 * t /\ (value # 70 => share > 70 * t)
      \/ d = share /\ share <= 70 * t
  BY <1>1, <1>2, <1>3, <1>4
<1> QED
  BY <1>5 DEF share

LEMMA DiscountBounds ==
  ASSUME NEW p \in PromoRow, NEW t \in Nat, NEW e \in FloatError,
         NEW d \in CalculateDiscount(p, t, e)
  PROVE  d \in Nat /\ d <= 100 * t
<1>1. p.value \in Nat /\ p.minAmount \in Nat
  BY DEF PromoRow
<1>2. CASE LessThan(t, e, p.minAmount)
  BY <1>2 DEF CalculateDiscount
<1>3. CASE ~LessThan(t, e, p.minAmount) /\ p.kind = "PERCENTAGE"
  <2>1. d \in PercentageDiscount(t, p.value)
    BY <1>3 DEF CalculateDiscount
  <2>2. d = 100 * t \/ (d = t * p.value /\ t * p.value <= 70 * t)
    BY <1>1, <2>1, PercentageCases
  <2>3. t * p.value \in Nat
    BY <1>1
  <2> QED
    BY <2>2, <2>3
<1>4. CASE ~LessThan(t, e, p.minAmount) /\ p.kind # "PERCENTAGE"
  <2>1. d = 100 * (IF p.value > t THEN t ELSE p.value)
    BY <1>4 DEF CalculateDiscount
  <2> QED
    BY <1>1, <2>1
<1> QED
  BY <1>2, <1>3, <1>4

\* The stored amounts are next to the exact ones.
LEMMA CentsBounds ==
  ASSUME NEW h \in Nat, NEW c \in Cents(h)
  PROVE  c \in Nat /\ 100 * c >= h - 50 /\ 100 * c <= h + 50
BY DEF Cents

-----------------------------------------------------------------------------
\* Each total's amounts are those of CalculateDiscount.
TypeInv ==
  /\ promo \in PromoRow /\ total \in Nat /\ error \in FloatError
  /\ discount \in CalculateDiscount(promo, total, error)
  /\ payable \in Cents(100 * total - discount)
  /\ granted \in Cents(discount)

LEMMA TypeInvHolds == Spec => []TypeInv
<1>1. Init => TypeInv
  <2> SUFFICES ASSUME Init PROVE TypeInv
    OBVIOUS
  <2>1. promo \in PromoRow /\ total = 0 /\ error = 0 /\ discount = 0 /\ payable = 0 /\ granted = 0
    BY PromoCodesAssumption DEF Init
  <2>2. promo.value \in Nat /\ promo.minAmount \in Nat
    BY <2>1 DEF PromoRow
  <2>3. 0 \in PercentageDiscount(0, promo.value)
    <3>1. FALSE \in AboveMaxDiscount(0, promo.value)
      BY <2>2 DEF AboveMaxDiscount
    <3>2. 0 = IF FALSE THEN 100 * 0 ELSE 0 * promo.value
      BY <2>2
    <3> QED
      BY <3>1, <3>2 DEF PercentageDiscount
  <2>4. 0 \in CalculateDiscount(promo, 0, 0)
    BY <2>2, <2>3 DEF CalculateDiscount
  <2>5. 0 \in Cents(0)
    BY DEF Cents
  <2> QED
    BY <2>1, <2>4, <2>5 DEF TypeInv, FloatError
<1>2. TypeInv /\ [AddCent]_basket => TypeInv'
  BY DEF TypeInv, AddCent, basket
<1> QED
  BY <1>1, <1>2, PTL DEF Spec

\* Every code, on every order: the discount is between nothing and the total, and
\* the amount stored as the order's total is not negative.
THEOREM DiscountWithinTotal == Spec => []DiscountBounded
<1>1. TypeInv => DiscountBounded
  <2> SUFFICES ASSUME TypeInv PROVE DiscountBounded
    OBVIOUS
  <2>1. total \in Nat /\ discount \in Nat /\ discount <= 100 * total
    BY DiscountBounds DEF TypeInv
  <2>2. payable \in Nat
    BY <2>1, CentsBounds DEF TypeInv
  <2> QED
    BY <2>1, <2>2 DEF DiscountBounded
<1> QED
  BY <1>1, TypeInvHolds, PTL

\* Two amounts that add up to whole cents, each stored by itself, add up to a cent
\* more or less at most, and to the same when neither ends in half a cent.
LEMMA PartsAddUp ==
  ASSUME NEW t \in Nat, NEW d \in Nat, d <= 100 * t,
         NEW p \in Cents(100 * t - d), NEW g \in Cents(d)
  PROVE  /\ p \in Nat /\ g \in Nat
         /\ p + g - t \in {-1, 0, 1}
         /\ p + g # t => d % 100 = 50
<1>1. 100 * t - d \in Nat
  OBVIOUS
<1>2. p \in Nat /\ 100 * p >= 100 * t - d - 50 /\ 100 * p <= 100 * t - d + 50
  BY <1>1, CentsBounds
<1>3. g \in Nat /\ 100 * g >= d - 50 /\ 100 * g <= d + 50
  BY CentsBounds
<1>4. p + g - t \in {-1, 0, 1}
  BY <1>2, <1>3
<1>5. p + g # t => d % 100 = 50
  <2> SUFFICES ASSUME p + g # t PROVE d % 100 = 50
    OBVIOUS
  <2>1. d = 100 * g + 50 \/ d = 100 * (g - 1) + 50
    BY <1>2, <1>3
  <2> QED
    BY <1>3, <2>1
<1> QED
  BY <1>2, <1>3, <1>4, <1>5

\* Every code, on every order: storing the two amounts adds or loses a cent at most,
\* and only a discount of half a cent does.
THEOREM RoundingWithinACent == Spec => []RoundingBounded
<1>1. TypeInv => RoundingBounded
  <2> SUFFICES ASSUME TypeInv PROVE RoundingBounded
    OBVIOUS
  <2>1. total \in Nat /\ discount \in Nat /\ discount <= 100 * total
    BY DiscountBounds DEF TypeInv
  <2> QED
    BY <2>1, PartsAddUp DEF TypeInv, RoundingBounded
<1> QED
  BY <1>1, TypeInvHolds, PTL

-----------------------------------------------------------------------------
\* Past its minimum amount, a code takes no less off a total that is a cent larger,
\* and what is left to pay stays the same whole cents or grows by 30 hundredths.
LEMMA DiscountSteps ==
  ASSUME NEW p \in PromoRow, ~(p.kind = "PERCENTAGE" /\ p.value = 70),
         NEW t \in Nat, NEW e \in FloatError, NEW f \in FloatError,
         ~LessThan(t, e, p.minAmount),
         NEW d \in CalculateDiscount(p, t, e), NEW c \in CalculateDiscount(p, t + 1, f)
  PROVE  /\ d \in Int /\ c \in Int /\ d <= c
         /\ \/ c <= d + 70
            \/ c <= d + 100 /\ \E whole \in Nat : 100 * t - d = 100 * whole
<1>1. p.value \in Nat /\ p.minAmount \in Nat
  BY DEF PromoRow
<1>2. ~LessThan(t + 1, f, p.minAmount)
  BY <1>1 DEF LessThan, FloatError
<1>3. CASE p.kind = "PERCENTAGE"
  <2> DEFINE share(n) == n * p.value
  <2>1. share(t) \in Nat /\ share(t + 1) = share(t) + p.value
    BY <1>1
  <2>2. d \in PercentageDiscount(t, p.value) /\ c \in PercentageDiscount(t + 1, p.value)
    BY <1>2, <1>3 DEF CalculateDiscount
  <2>3. \/ d = 100 * t /\ share(t) > 70 * t
        \/ d = share(t) /\ share(t) <= 70 * t
    BY <1>1, <1>3, <2>2, PercentageCases
  <2>4. \/ c = 100 * (t + 1) /\ share(t + 1) > 70 * (t + 1)
        \/ c = share(t + 1) /\ share(t + 1) <= 70 * (t + 1)
    BY <1>1, <1>3, <2>2, PercentageCases
  <2>5. CASE p.value < 70
    <3>1. share(t) <= 70 * t /\ share(t + 1) <= 70 * (t + 1)
      BY <1>1, <2>5
    <3> HIDE DEF share
    <3>2. d = share(t) /\ c = share(t + 1)
      BY <1>1, <2>1, <2>3, <2>4, <3>1
    <3> QED
      BY <1>1, <2>1, <2>5, <3>2
  <2>6. CASE p.value > 70
    <3>1. share(t + 1) > 70 * (t + 1) /\ (t = 0 \/ share(t) > 70 * t) /\ share(0) = 0
      BY <1>1, <2>6
    <3> HIDE DEF share
    <3>2. d = 100 * t /\ c = 100 * (t + 1)
      BY <1>1, <2>1, <2>3, <2>4, <3>1
    <3>3. 100 * t - d = 100 * 0
      BY <3>2
    <3> QED
      BY <3>2, <3>3
  <2> QED
    BY <1>1, <1>3, <2>5, <2>6
<1>4. CASE p.kind # "PERCENTAGE"
  <2>1. /\ d = 100 * (IF p.value > t THEN t ELSE p.value)
        /\ c = 100 * (IF p.value > t + 1 THEN t + 1 ELSE p.value)
    BY <1>2, <1>4 DEF CalculateDiscount
  <2>2. \E whole \in Nat : 100 * t - d = 100 * whole
    <3>1. CASE p.value > t
      BY <1>1, <2>1, <3>1, 100 * t - d = 100 * 0
    <3>2. CASE ~(p.value > t)
      <4>1. t - p.value \in Nat /\ 100 * t - d = 100 * (t - p.value)
        BY <1>1, <2>1, <3>2
      <4> QED
        BY <4>1
    <3> QED
      BY <3>1, <3>2
  <2> QED
    BY <1>1, <2>1, <2>2
<1> QED
  BY <1>3, <1>4

\* What is left to pay is stored as no less when it grows by 30 hundredths, or
\* stays the same whole cents.
LEMMA LeftSteps ==
  ASSUME NEW t \in Nat, NEW d \in Nat, d <= 100 * t,
         NEW c \in Nat, c <= 100 * (t + 1),
         \/ c <= d + 70
         \/ c <= d + 100 /\ \E whole \in Nat : 100 * t - d = 100 * whole,
         NEW p \in Cents(100 * t - d), NEW q \in Cents(100 * (t + 1) - c)
  PROVE  p <= q
<1> DEFINE left == 100 * t - d
           next == 100 * (t + 1) - c
<1>1. left \in Nat /\ next \in Nat
  OBVIOUS
<1>2. next >= left + 30 \/ (next >= left /\ \E whole \in Nat : left = 100 * whole)
  OBVIOUS
<1>3. p \in Cents(left) /\ q \in Cents(next)
  OBVIOUS
<1> HIDE DEF left, next
<1>4. CASE next >= left + 30
  BY <1>1, <1>3, <1>4 DEF Cents
<1>5. CASE next >= left /\ \E whole \in Nat : left = 100 * whole
  <2>1. PICK whole \in Nat : left = 100 * whole
    BY <1>5
  <2>2. p = whole
    BY <1>3, <2>1 DEF Cents
  <2> QED
    BY <1>1, <1>3, <1>5, <2>1, <2>2 DEF Cents
<1> QED
  BY <1>2, <1>4, <1>5

\* Every code but a 70 percent one: adding to an order the code applies to never
\* makes the order cheaper.
THEOREM LargerNeverCheaper == Spec => PayableGrows
<1> DEFINE A == Reached /\ ~Seventy => discount <= discount' /\ payable <= payable'
<1>1. TypeInv /\ [AddCent]_basket => [A]_basket
  <2> SUFFICES ASSUME TypeInv, AddCent, Reached, ~Seventy
               PROVE  discount <= discount' /\ payable <= payable'
    OBVIOUS
  <2>1. /\ promo \in PromoRow /\ total \in Nat /\ error \in FloatError
        /\ discount \in CalculateDiscount(promo, total, error)
        /\ payable \in Cents(100 * total - discount)
    BY DEF TypeInv
  <2>2. /\ total' = total + 1 /\ error' \in FloatError
        /\ discount' \in CalculateDiscount(promo, total + 1, error')
        /\ payable' \in Cents(100 * (total + 1) - discount')
    BY DEF AddCent
  <2>3. discount \in Nat /\ discount <= 100 * total
    BY <2>1, DiscountBounds
  <2>4. discount' \in Nat /\ discount' <= 100 * (total + 1)
    BY <2>1, <2>2, DiscountBounds, total + 1 \in Nat
  <2>5. /\ discount <= discount'
        /\ \/ discount' <= discount + 70
           \/ /\ discount' <= discount + 100
              /\ \E whole \in Nat : 100 * total - discount = 100 * whole
    BY <2>1, <2>2, DiscountSteps DEF Reached, Seventy
  <2>6. payable <= payable'
    BY <2>1, <2>2, <2>3, <2>4, <2>5, LeftSteps
  <2> QED
    BY <2>5, <2>6
<1>2. Spec => [][A]_basket
  BY <1>1, TypeInvHolds, PTL DEF Spec
<1> QED
  BY <1>2 DEF PayableGrows
=============================================================================
