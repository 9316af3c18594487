------------------------------ MODULE MCOrders ------------------------------
(***************************************************************************)
(* Small instances of Orders for TLC: the values of its constants.         *)
(***************************************************************************)
EXTENDS Orders, TLC

CONSTANTS ann, bob,    \* users
          s1, s2,      \* their sessions
          bolt, nut,   \* products
          half         \* a promo code

\* Who sits behind the sessions.
TwoUsers == s1 :> ann @@ s2 :> bob
OneUser  == s1 :> ann @@ s2 :> ann
Alone    == s1 :> ann

Users       == ann :> "USER" @@ bob :> "USER"
AdminAndUser == ann :> "ADMIN" @@ bob :> "USER"

it(p, n) == [product |-> p, qty |-> n]

\* The two products in both orders: lock cycles.
CrossedLists == { <<it(bolt, 1), it(nut, 1)>>, <<it(nut, 1), it(bolt, 1)>> }

\* One product twice in a request, lists that have no product in common, and a
\* quantity the table refuses.
MixedLists == { <<it(bolt, 1), it(bolt, 1)>>, <<it(nut, 1)>>, <<it(bolt, -1)>> }

OneEach == { <<it(bolt, 1)>>, <<it(nut, 1)>> }

OneBolt == { <<it(bolt, 1)>> }

\* The sessions of one user are interchangeable.
SameSessions == Permutations(Session)

row(n, price) == [stock |-> n, status |-> "ACTIVE", price |-> price]
TwoOfEach == bolt :> row(2, 12) @@ nut :> row(2, 6)
ThreeBolts == bolt :> row(3, 12) @@ nut :> row(2, 6)
OddPrices == bolt :> row(2, 11) @@ nut :> row(2, 6)

promoRow(max, min, value) ==
  [ exists |-> TRUE, active |-> TRUE, uses |-> 0, maxUses |-> max, minAmount |-> min,
    kind |-> "PERCENTAGE", value |-> value, validFrom |-> 0, validUntil |-> 1 ]
OneUse == half :> promoRow(1, 6, 50)
\* The minimum is what a bolt and a nut cost at odd prices: the float64 sum may
\* be below it, and half of it is stored as 8 cents or 9.
AtMinimum == half :> promoRow(2, 17, 50)
NoPromos == [c \in {} |-> promoRow(0, 0, 0)]

\* Bound: cancellations of one order that overlap return its stock again, and
\* updates of a canceled order do so without end (the rules do not look at it).
StockBound == \A p \in Product : products[p].stock <= InitialProduct[p].stock + 1
=============================================================================
