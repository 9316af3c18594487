----------------------- MODULE OrdersAccountingProofs -----------------------
(***************************************************************************)
(* The accounts of the orders service: stock, uses of promo codes, totals, *)
(* and the order book it implements.                                       *)
(***************************************************************************)
EXTENDS OrdersRulesProofs, SumProofs

-----------------------------------------------------------------------------
(* Quantities and amounts of lists of items, whatever else an item holds.    *)

Where(lines, p) == {i \in DOMAIN lines : lines[i].product = p}

QtyOf(lines) == [i \in DOMAIN lines |-> lines[i].qty]

\* What item x adds to the quantity of p.
Share(x, p) == IF x.product = p THEN x.qty ELSE 0

LEMMA QuantityDef == \A lines, p : Quantity(lines, p) = SumFunctionOnSet(QtyOf(lines), Where(lines, p))
BY DEF Quantity, QtyOf, Where

LEMMA Elements ==
  /\ \A lines, p, i : i \in Where(lines, p) <=> i \in DOMAIN lines /\ lines[i].product = p
  /\ \A lines : \A i \in DOMAIN lines : QtyOf(lines)[i] = lines[i].qty
BY DEF Where, QtyOf

LEMMA WhereFinite ==
  ASSUME NEW T, NEW lines \in Seq(T), NEW p
  PROVE  IsFiniteSet(Where(lines, p)) /\ IsFiniteSet(DOMAIN lines)
<1>1. DOMAIN lines = 1..Len(lines) /\ Len(lines) \in Nat
  OBVIOUS
<1>2. IsFiniteSet(DOMAIN lines)
  BY <1>1, FS_Interval
<1>3. Where(lines, p) \in SUBSET (DOMAIN lines)
  BY DEF Where
<1> QED
  BY <1>2, <1>3, FS_Subset

LEMMA QuantityType ==
  ASSUME NEW T, \A x \in T : x.qty \in Int, NEW lines \in Seq(T), NEW p
  PROVE  Quantity(lines, p) \in Int
<1>1. \A i \in Where(lines, p) : QtyOf(lines)[i] \in Int
  BY DEF QtyOf, Where
<1> QED
  BY <1>1, WhereFinite, SumType, QuantityDef

LEMMA QuantityOfNone == \A p : Quantity(<<>>, p) = 0
<1>1. \A p : Where(<<>>, p) = {}
  BY DEF Where
<1> QED
  BY <1>1, QuantityDef, SumEmpty

LEMMA QuantityOfAppend ==
  ASSUME NEW T, \A y \in T : y.qty \in Int, NEW lines \in Seq(T), NEW x \in T, NEW p
  PROVE  Quantity(Append(lines, x), p) = Quantity(lines, p) + Share(x, p)
<1> DEFINE all == Append(lines, x)
           n == Len(lines) + 1
           W == Where(lines, p)
           f == QtyOf(all)
<1>1. /\ all \in Seq(T) /\ DOMAIN all = 1..n /\ DOMAIN lines = 1..(n - 1) /\ n \in Nat \ {0}
      /\ all[n] = x /\ \A i \in 1..(n - 1) : all[i] = lines[i] /\ lines[i] \in T
  OBVIOUS
<1> HIDE DEF all, n
<1>2. /\ IsFiniteSet(W) /\ n \notin W
      /\ \A i \in W : f[i] = QtyOf(lines)[i] /\ f[i] \in Int
      /\ f[n] = x.qty /\ f[n] \in Int
  <2>1. n \notin DOMAIN lines /\ n \in DOMAIN all /\ DOMAIN lines \subseteq DOMAIN all
    BY <1>1
  <2>2. ASSUME NEW i \in W
        PROVE  i \in DOMAIN lines /\ f[i] = all[i].qty /\ QtyOf(lines)[i] = lines[i].qty
    <3>1. i \in DOMAIN lines
      BY Elements
    <3>2. i \in DOMAIN all
      BY <2>1, <3>1
    <3> QED
      BY <3>1, <3>2, Elements
  <2>3. IsFiniteSet(W)
    BY WhereFinite
  <2>4. n \notin W
    BY <2>1, Elements
  <2>5. f[n] = x.qty
    BY <1>1, <2>1, Elements
  <2>6. \A i \in W : all[i] = lines[i] /\ lines[i] \in T
    BY <1>1, <2>2
  <2> QED
    BY <2>2, <2>3, <2>4, <2>5, <2>6
<1>3. SumFunctionOnSet(f, W) = Quantity(lines, p)
  BY <1>2, SumExt, QuantityDef
<1>4. Quantity(lines, p) \in Int
  BY QuantityType
<1>5. CASE x.product = p
  <2>1. Where(all, p) = W \cup {n}
    <3>1. \A i : i \in Where(all, p) <=> i \in DOMAIN all /\ all[i].product = p
      BY Elements
    <3>2. \A i : i \in W <=> i \in DOMAIN lines /\ lines[i].product = p
      BY Elements
    <3>3. \A i : i \in DOMAIN all <=> i \in DOMAIN lines \/ i = n
      BY <1>1
    <3>4. \A i : i \in Where(all, p) <=> i \in W \/ i = n
      BY <1>1, <1>5, <3>1, <3>2, <3>3
    <3> HIDE DEF W
    <3> QED
      BY <3>4
  <2>2. SumFunctionOnSet(f, W \cup {n}) = f[n] + SumFunctionOnSet(f, W)
    <3> HIDE DEF W, f
    <3> QED
      BY <1>2, SumAdd
  <2>3. Quantity(all, p) = SumFunctionOnSet(f, W \cup {n})
    BY <2>1, QuantityDef
  <2> HIDE DEF W, f
  <2> QED
    BY <1>2, <1>3, <1>4, <1>5, <2>2, <2>3 DEF Share, all
<1>6. CASE x.product # p
  <2>1. Where(all, p) = W
    <3>0. /\ \A i : i \in Where(all, p) <=> i \in DOMAIN all /\ all[i].product = p
          /\ \A i : i \in W <=> i \in DOMAIN lines /\ lines[i].product = p
          /\ \A i : i \in DOMAIN all <=> i \in DOMAIN lines \/ i = n
      BY <1>1, Elements
    <3>1. \A i : i \in Where(all, p) <=> i \in W
      BY <1>1, <1>6, <3>0
    <3> HIDE DEF W
    <3> QED
      BY <3>1
  <2>2. Quantity(all, p) = SumFunctionOnSet(f, W)
    BY <2>1, QuantityDef
  <2> HIDE DEF W, f
  <2> QED
    BY <1>3, <1>4, <1>6, <2>2 DEF Share, all
<1> QED
  BY <1>5, <1>6

LEMMA QuantityOfTail ==
  ASSUME NEW T, \A y \in T : y.qty \in Int, NEW todo \in Seq(T), todo # <<>>, NEW p
  PROVE  Quantity(todo, p) = Share(Head(todo), p) + Quantity(Tail(todo), p)
<1> DEFINE rest == Tail(todo)
           W == Where(rest, p)
           f == QtyOf(todo)
           g == QtyOf(rest)
           r == [i \in W |-> i + 1]
<1>1. /\ rest \in Seq(T) /\ Len(todo) \in Nat \ {0}
      /\ DOMAIN todo = 1..Len(todo) /\ DOMAIN rest = 1..(Len(todo) - 1)
      /\ Head(todo) = todo[1]
      /\ \A i \in DOMAIN rest : rest[i] = todo[i + 1] /\ i + 1 \in DOMAIN todo /\ rest[i] \in T
  OBVIOUS
<1> HIDE DEF rest
<1>2. /\ IsFiniteSet(W)
      /\ \A i \in W : g[i] \in Int /\ f[r[i]] = g[i]
      /\ \A i, j \in W : r[i] = r[j] => i = j
  <2>1. IsFiniteSet(W)
    BY <1>1, WhereFinite
  <2>2. \A i \in W : i \in DOMAIN rest /\ i \in Int /\ r[i] = i + 1
    BY <1>1, Elements
  <2>3. ASSUME NEW i \in W PROVE g[i] = rest[i].qty /\ f[i + 1] = rest[i].qty
    <3>1. i \in DOMAIN rest /\ i + 1 \in DOMAIN todo /\ rest[i] = todo[i + 1]
      BY <1>1, <2>2
    <3> QED
      BY <3>1, Elements
  <2> QED
    BY <1>1, <2>1, <2>2, <2>3
<1>3. {r[i] : i \in W} = Where(todo, p) \ {1}
  <2>1. \A i \in W : r[i] \in Where(todo, p) \ {1}
    BY <1>1 DEF Where
  <2>2. ASSUME NEW j \in Where(todo, p) \ {1} PROVE \E i \in W : r[i] = j
    <3>1. j - 1 \in W /\ r[j - 1] = j
      BY <1>1 DEF Where
    <3> QED
      BY <3>1
  <2> QED
    BY <2>1, <2>2
<1>4. SumFunctionOnSet(f, Where(todo, p) \ {1}) = Quantity(rest, p)
  <2>1. SumFunctionOnSet(f, {r[i] : i \in W}) = SumFunctionOnSet(g, W)
    <3> HIDE DEF W, f, g, r
    <3> QED
      BY <1>2, SumImage
  <2> QED
    BY <1>3, <2>1, QuantityDef
<1>5. /\ IsFiniteSet(Where(todo, p))
      /\ \A i \in Where(todo, p) : f[i] \in Int
      /\ f[1] = Head(todo).qty
      /\ 1 \in Where(todo, p) <=> Head(todo).product = p
  <2>1. IsFiniteSet(Where(todo, p))
    BY WhereFinite
  <2>2. 1 \in DOMAIN todo /\ todo[1] = Head(todo) /\ \A i \in DOMAIN todo : todo[i] \in T
    BY <1>1
  <2> QED
    BY <2>1, <2>2 DEF Where, QtyOf
<1>6. Quantity(rest, p) \in Int
  BY <1>1, QuantityType
<1>7. CASE Head(todo).product = p
  <2>1. SumFunctionOnSet(f, Where(todo, p)) = f[1] + SumFunctionOnSet(f, Where(todo, p) \ {1})
    <3>1. IsFiniteSet(Where(todo, p)) /\ 1 \in Where(todo, p)
      BY <1>5, <1>7
    <3>2. \A i \in Where(todo, p) : f[i] \in Int
      BY <1>5
    <3> HIDE DEF f
    <3> QED
      BY <3>1, <3>2, SumRemove
  <2> QED
    BY <1>4, <1>5, <1>6, <1>7, <2>1, QuantityDef DEF Share, rest
<1>8. CASE Head(todo).product # p
  <2>1. Where(todo, p) \ {1} = Where(todo, p)
    BY <1>5, <1>8
  <2>2. Quantity(todo, p) = Quantity(rest, p)
    BY <1>4, <2>1, QuantityDef
  <2>3. Share(Head(todo), p) = 0
    BY <1>8 DEF Share
  <2> HIDE DEF f, g, r, W
  <2> QED
    BY <1>6, <2>2, <2>3 DEF rest
<1> QED
  BY <1>7, <1>8

\* The order in which a SELECT returns the items does not matter.
LEMMA QuantityOfShuffled ==
  ASSUME NEW T, \A y \in T : y.qty \in Int, NEW lines \in Seq(T), NEW p,
         NEW rank \in Bijection(DOMAIN lines, DOMAIN lines)
  PROVE  Quantity([i \in DOMAIN lines |->
                     [product |-> lines[rank[i]].product, qty |-> lines[rank[i]].qty]], p)
           = Quantity(lines, p)
<1> DEFINE todo == [i \in DOMAIN lines |->
                     [product |-> lines[rank[i]].product, qty |-> lines[rank[i]].qty]]
           W == Where(todo, p)
           f == QtyOf(lines)
           g == QtyOf(todo)
<1>1. /\ rank \in [DOMAIN lines -> DOMAIN lines]
      /\ \A i, j \in DOMAIN lines : rank[i] = rank[j] => i = j
      /\ \A j \in DOMAIN lines : \E i \in DOMAIN lines : rank[i] = j
  BY DEF Bijection, Injection, Surjection, IsInjective
<1>2. W \in SUBSET (DOMAIN lines) /\ IsFiniteSet(W)
  BY WhereFinite, FS_Subset DEF Where
<1>3. \A i \in W : g[i] \in Int /\ f[rank[i]] = g[i]
  BY <1>1, <1>2 DEF Where, QtyOf
<1>4. {rank[i] : i \in W} = Where(lines, p)
  <2>1. \A i \in DOMAIN lines : i \in W <=> rank[i] \in Where(lines, p)
    BY <1>1 DEF Where
  <2>2. Where(lines, p) \subseteq DOMAIN lines
    BY DEF Where
  <2> HIDE DEF W
  <2> QED
    BY <1>1, <1>2, <2>1, <2>2
<1>5. SumFunctionOnSet(f, {rank[i] : i \in W}) = SumFunctionOnSet(g, W)
  <2>1. \A i, j \in W : rank[i] = rank[j] => i = j
    BY <1>1, <1>2
  <2>2. IsFiniteSet(W) /\ \A i \in W : g[i] \in Int /\ f[rank[i]] = g[i]
    BY <1>2, <1>3
  <2> HIDE DEF W, f, g, todo
  <2> QED
    BY <2>1, <2>2, SumImage
<1> QED
  BY <1>4, <1>5, QuantityDef

LEMMA AmountOfNone == Amount(<<>>) = 0
BY SumEmpty DEF Amount

LEMMA AmountOfAppend ==
  ASSUME NEW lines \in Seq(Line), NEW x \in Line
  PROVE  /\ Amount(lines) \in Int
         /\ Amount(Append(lines, x)) = Amount(lines) + x.price * x.qty
<1> DEFINE all == Append(lines, x)
           n == Len(lines) + 1
           D == DOMAIN lines
           f == [i \in DOMAIN lines |-> lines[i].price * lines[i].qty]
           g == [i \in DOMAIN all |-> all[i].price * all[i].qty]
<1>1. /\ DOMAIN all = D \cup {n} /\ n \notin D /\ all[n] = x
      /\ \A i \in D : all[i] = lines[i] /\ lines[i] \in Line
  OBVIOUS
<1>2. \A y \in Line : y.price * y.qty \in Int
  BY DEF Line
<1>3. /\ \A i \in D : f[i] \in Int /\ f[i] = g[i]
      /\ g[n] = x.price * x.qty /\ g[n] \in Int
  <2> HIDE DEF all, n
  <2> QED
    BY <1>1, <1>2
<1>4. IsFiniteSet(D)
  BY WhereFinite
<1>5. Amount(lines) = SumFunctionOnSet(f, D) /\ Amount(all) = SumFunctionOnSet(g, D \cup {n})
  BY <1>1 DEF Amount
<1> HIDE DEF f, g, D, n, all
<1>6. SumFunctionOnSet(f, D) \in Int /\ SumFunctionOnSet(f, D) = SumFunctionOnSet(g, D)
  BY <1>3, <1>4, SumType, SumExt
<1>7. SumFunctionOnSet(g, D \cup {n}) = g[n] + SumFunctionOnSet(g, D)
  BY <1>1, <1>3, <1>4, SumAdd
<1> QED
  BY <1>3, <1>5, <1>6, <1>7 DEF all

-----------------------------------------------------------------------------
(* What the standing orders hold, when one row of orders is written.         *)

Stands(row) == row.status \notin {"ABSENT", "CANCELED"}

\* What a row holds of p.
HeldBy(row, p) == IF Stands(row) THEN Quantity(row.items, p) ELSE 0

\* A row that carries c, as 1 or 0.
UseBy(row, c) == IF Stands(row) /\ row.promo = c THEN 1 ELSE 0

\* What the rows b of orders hold together.
StandingIn(b) == {o \in OrderId : Stands(b[o])}
HeldIn(b, p) == SumFunctionOnSet([o \in OrderId |-> Quantity(b[o].items, p)], StandingIn(b))
CarriersIn(b, c) == {o \in StandingIn(b) : b[o].promo = c}

LEMMA HeldNow ==
  /\ Standing = StandingIn(orders) /\ Standing' = StandingIn(orders')
  /\ \A p : Held(p) = HeldIn(orders, p) /\ Held(p)' = HeldIn(orders', p)
BY DEF Standing, StandingIn, Stands, Held, HeldIn

LEMMA StoredQuantity ==
  ASSUME NEW row \in OrderRow, NEW p
  PROVE  Quantity(row.items, p) \in Int
<1>1. row.items \in Seq(StoredLine) /\ \A y \in StoredLine : y.qty \in Int
  BY DEF OrderRow, StoredLine
<1> QED
  BY <1>1, QuantityType

LEMMA StandingWritten ==
  ASSUME NEW b \in [OrderId -> OrderRow], IsFiniteSet(StandingIn(b)),
         NEW o \in OrderId, NEW row \in OrderRow
  PROVE  LET w == [b EXCEPT ![o] = row]
         IN  /\ StandingIn(w) = IF Stands(row) THEN StandingIn(b) \cup {o} ELSE StandingIn(b) \ {o}
             /\ IsFiniteSet(StandingIn(w))
             /\ IsFiniteSet(StandingIn(b) \ {o})
<1> DEFINE w == [b EXCEPT ![o] = row]
<1>1. StandingIn(w) = IF Stands(row) THEN StandingIn(b) \cup {o} ELSE StandingIn(b) \ {o}
  BY DEF StandingIn
<1>2. IsFiniteSet(StandingIn(b) \cup {o}) /\ IsFiniteSet(StandingIn(b) \ {o})
  BY FS_AddElement, FS_RemoveElement
<1> QED
  BY <1>1, <1>2

\* The quantities held: those of the other orders and those of the row.
LEMMA HeldSplit ==
  ASSUME NEW b \in [OrderId -> OrderRow], IsFiniteSet(StandingIn(b)), NEW o \in OrderId, NEW p
  PROVE  LET f == [k \in OrderId |-> Quantity(b[k].items, p)]
         IN  /\ HeldIn(b, p) = SumFunctionOnSet(f, StandingIn(b) \ {o}) + HeldBy(b[o], p)
             /\ SumFunctionOnSet(f, StandingIn(b) \ {o}) \in Int
<1> DEFINE f == [k \in OrderId |-> Quantity(b[k].items, p)]
           S == StandingIn(b)
<1>1. \A k \in OrderId : f[k] \in Int
  BY StoredQuantity
<1>2. S \subseteq OrderId /\ IsFiniteSet(S \ {o})
  BY FS_RemoveElement DEF StandingIn
<1>3. f[o] = Quantity(b[o].items, p) /\ HeldIn(b, p) = SumFunctionOnSet(f, S)
  BY DEF HeldIn
<1>4. o \in S <=> Stands(b[o])
  BY DEF StandingIn
<1>5. HeldBy(b[o], p) = IF o \in S THEN f[o] ELSE 0
  BY <1>3, <1>4 DEF HeldBy
<1> HIDE DEF f, S
<1>6. SumFunctionOnSet(f, S \ {o}) \in Int
  BY <1>1, <1>2, SumType
<1>7. CASE o \in S
  <2>1. SumFunctionOnSet(f, S) = f[o] + SumFunctionOnSet(f, S \ {o})
    <3>1. IsFiniteSet(S) /\ \A k \in S : f[k] \in Int
      BY <1>1, <1>2 DEF S
    <3> QED
      BY <1>7, <3>1, SumRemove
  <2>2. HeldIn(b, p) = SumFunctionOnSet(f, S \ {o}) + HeldBy(b[o], p)
    BY <1>1, <1>3, <1>5, <1>6, <1>7, <2>1
  <2> QED
    BY <1>6, <2>2 DEF f, S
<1>8. CASE o \notin S
  <2>1. S \ {o} = S
    BY <1>8
  <2>2. HeldIn(b, p) = SumFunctionOnSet(f, S \ {o}) + HeldBy(b[o], p)
    BY <1>3, <1>5, <1>6, <1>8, <2>1
  <2> QED
    BY <1>6, <2>2 DEF f, S
<1> QED
  BY <1>7, <1>8

LEMMA HeldWritten ==
  ASSUME NEW b \in [OrderId -> OrderRow], IsFiniteSet(StandingIn(b)),
         NEW o \in OrderId, NEW row \in OrderRow, NEW p
  PROVE  /\ HeldIn([b EXCEPT ![o] = row], p) = HeldIn(b, p) - HeldBy(b[o], p) + HeldBy(row, p)
         /\ HeldIn(b, p) \in Int /\ HeldBy(b[o], p) \in Int /\ HeldBy(row, p) \in Int
<1> DEFINE w == [b EXCEPT ![o] = row]
           f == [k \in OrderId |-> Quantity(b[k].items, p)]
           g == [k \in OrderId |-> Quantity(w[k].items, p)]
           R == StandingIn(b) \ {o}
<1>1. w \in [OrderId -> OrderRow] /\ w[o] = row /\ \A k \in R : f[k] = g[k]
  BY DEF StandingIn
<1>2. IsFiniteSet(StandingIn(w)) /\ IsFiniteSet(R) /\ StandingIn(w) \ {o} = R
  BY StandingWritten
<1>3. HeldIn(b, p) = SumFunctionOnSet(f, R) + HeldBy(b[o], p) /\ SumFunctionOnSet(f, R) \in Int
  BY HeldSplit
<1>4. HeldIn(w, p) = SumFunctionOnSet(g, R) + HeldBy(row, p)
  <2>1. HeldIn(w, p) = SumFunctionOnSet(g, StandingIn(w) \ {o}) + HeldBy(w[o], p)
    <3> HIDE DEF w
    <3> QED
      BY <1>1, <1>2, HeldSplit
  <2> QED
    BY <1>1, <1>2, <2>1
<1>5. SumFunctionOnSet(f, R) = SumFunctionOnSet(g, R)
  <2> HIDE DEF f, g, R
  <2> QED
    BY <1>1, <1>2, SumExt
<1>6. \A r \in OrderRow : HeldBy(r, p) \in Int
  BY StoredQuantity DEF HeldBy
<1>7. HeldBy(b[o], p) \in Int /\ HeldBy(row, p) \in Int
  BY <1>6
<1> HIDE DEF f, g, R, w
<1> QED
  BY <1>3, <1>4, <1>5, <1>7 DEF w

\* How many orders carry a code.
LEMMA CarriersWritten ==
  ASSUME NEW b \in [OrderId -> OrderRow], IsFiniteSet(StandingIn(b)),
         NEW o \in OrderId, NEW row \in OrderRow, NEW c
  PROVE  /\ Cardinality(CarriersIn([b EXCEPT ![o] = row], c))
              = Cardinality(CarriersIn(b, c)) - UseBy(b[o], c) + UseBy(row, c)
         /\ Cardinality(CarriersIn(b, c)) \in Nat
         /\ Cardinality(CarriersIn(b, c)) >= UseBy(b[o], c)
<1> DEFINE w == [b EXCEPT ![o] = row]
           K == CarriersIn(b, c)
<1>1. IsFiniteSet(K) /\ K \subseteq OrderId
  <2>1. K \in SUBSET StandingIn(b)
    BY DEF CarriersIn
  <2> QED
    BY <2>1, FS_Subset DEF StandingIn
<1>2. o \in K <=> UseBy(b[o], c) = 1
  BY DEF CarriersIn, StandingIn, UseBy
<1>3. UseBy(b[o], c) \in {0, 1} /\ UseBy(row, c) \in {0, 1}
  BY DEF UseBy
<1>4. CarriersIn(w, c) = IF UseBy(row, c) = 1 THEN K \cup {o} ELSE K \ {o}
  <2>1. \A k \in OrderId : k # o => (k \in CarriersIn(w, c) <=> k \in K)
    BY DEF CarriersIn, StandingIn
  <2>2. o \in CarriersIn(w, c) <=> UseBy(row, c) = 1
    BY DEF CarriersIn, StandingIn, UseBy
  <2>3. CarriersIn(w, c) \subseteq OrderId
    BY DEF CarriersIn, StandingIn
  <2> HIDE DEF w, K
  <2> QED
    BY <1>1, <2>1, <2>2, <2>3
<1>5. /\ Cardinality(K) \in Nat
      /\ o \in K => Cardinality(K) >= 1
      /\ Cardinality(K \cup {o}) = IF o \in K THEN Cardinality(K) ELSE Cardinality(K) + 1
      /\ Cardinality(K \ {o}) = IF o \in K THEN Cardinality(K) - 1 ELSE Cardinality(K)
  <2>1. Cardinality(K) \in Nat /\ (o \in K => Cardinality(K) # 0)
    BY <1>1, FS_CardinalityType, FS_EmptySet
  <2> HIDE DEF K
  <2>2. /\ Cardinality(K \cup {o}) = IF o \in K THEN Cardinality(K) ELSE Cardinality(K) + 1
        /\ Cardinality(K \ {o}) = IF o \in K THEN Cardinality(K) - 1 ELSE Cardinality(K)
    BY <1>1, FS_AddElement, FS_RemoveElement
  <2> QED
    BY <2>1, <2>2
<1> HIDE DEF w, K
<1>6. /\ Cardinality(CarriersIn(w, c)) = Cardinality(K) - UseBy(b[o], c) + UseBy(row, c)
      /\ Cardinality(K) \in Nat
      /\ Cardinality(K) >= UseBy(b[o], c)
  BY <1>2, <1>3, <1>4, <1>5
<1> QED
  BY <1>6 DEF w, K

-----------------------------------------------------------------------------
(* The inductive invariant: what each handler knows of the order it works on *)
(* and what it has done so far.  It holds when no order is changed by two    *)
(* requests at once: when no user has two connections, or when all of them   *)
(* only create orders.                                                       *)

NoSharedChanges == OneSessionPerUser \/ Ops \subseteq {"create"}

\* Which request a handler serves at each of its statements.
PlacesMatch(s) ==
  /\ ChecksMatch(s)
  /\ pc[s] # "idle" => req[s].op \in Ops
  /\ pc[s] \in {"items", "restore"} => req[s].op # "create"
  /\ pc[s] \in {"read", "reserve", "promo"} => req[s].op # "cancel"

\* A new order is not stored yet, one that is changed is.
OrderKnown(s) ==
  /\ Creating(s) => orders[req[s].order].status = "ABSENT"
  /\ Changing(s) => orders[req[s].order].status # "ABSENT"

\* The row read before the transaction is still the stored one, but for a code
\* that was deleted in the meantime.
RowKnown(s) ==
  Changing(s) /\ pc[s] \in InTx =>
    LET stored   == orders[req[s].order]
        existing == loc[s].existing
    IN  /\ stored.user = UserOf[s] /\ existing.user = UserOf[s]
        /\ existing.status = stored.status
        /\ existing.promo = stored.promo \/ ~PromoExists(existing.promo)
        /\ req[s].op = "cancel" => CanTransitionTo(stored.status, "CANCELED")

Known(s) == PlacesMatch(s) /\ OrderKnown(s) /\ RowKnown(s)

Ledger ==
  /\ Safe
  /\ \A s \in Session : Known(s)
  /\ NewIdsDiffer
  /\ IsFiniteSet(Standing)

UsesExact ==
  \A c \in Promo :
    promos[c].uses = InitialPromo[c].uses + Cardinality(CarriersIn(orders, c))
-----------------------------------------------------------------------------
(* The ledger: steps that write no order. *)

LEMMA InitLedger == Init => Ledger
<1> SUFFICES ASSUME Init PROVE Ledger
  OBVIOUS
<1>1. Safe
  BY InitSafe
<1>2. \A s \in Session : Known(s)
  BY DEF Init, Known, PlacesMatch, ChecksMatch, OrderKnown, RowKnown, Creating, Changing
<1>3. NewIdsDiffer
  BY DEF Init, NewIdsDiffer, Creating
<1>4. Standing = {}
  BY DEF Init, Standing, NoRow
<1> QED
  BY <1>1, <1>2, <1>3, <1>4, FS_EmptySet DEF Ledger

LEMMA QuietLedger ==
  ASSUME Ledger, Safe', NEW t \in Session, Quiet(t), UNCHANGED promos, Known(t)',
         Creating(t)' => \A s \in Session \ {t} : Creating(s) => req[s].order # req'[t].order
  PROVE  Ledger'
<1>1. ASSUME NEW s \in Session PROVE Known(s)'
  <2>1. CASE s = t
    BY <2>1
  <2>2. CASE s # t
    BY <2>2 DEF Quiet, Ledger, Known, PlacesMatch, ChecksMatch, OrderKnown, RowKnown,
                Creating, Changing, PromoExists
  <2> QED
    BY <2>1, <2>2
<1>2. NewIdsDiffer'
  BY DEF Quiet, Ledger, NewIdsDiffer, Creating
<1>3. IsFiniteSet(Standing)'
  BY DEF Quiet, Ledger, Standing
<1> QED
  BY <1>1, <1>2, <1>3 DEF Ledger

LEMMA RefuseLedger ==
  ASSUME Ledger, Safe', NEW t \in Session, Refuse(t)
  PROVE  Ledger'
<1>1. pc'[t] = "idle" /\ Quiet(t) /\ UNCHANGED promos
  BY DEF Ledger, Safe, TypeOK, Refuse, Answer, Goto, Quiet, tables
<1>2. Known(t)' /\ ~Creating(t)'
  BY <1>1 DEF Known, PlacesMatch, ChecksMatch, OrderKnown, RowKnown, Creating, Changing
<1> QED
  BY <1>1, <1>2, QuietLedger

LEMMA StartLedger ==
  ASSUME Ledger, Safe', NEW t \in Session, Start(t)
  PROVE  Ledger'
<1>1. Quiet(t) /\ UNCHANGED promos
  BY DEF Ledger, Safe, TypeOK, Start, StartCreate, StartUpdate, StartCancel, Goto, Quiet, tables
<1>2. CASE StartCreate(t)
  <2>1. PICK o \in OrderId, items \in ItemLists, code \in PromoCodeOpt :
          /\ orders[o].status = "ABSENT"
          /\ \A s \in Session : pc[s] # "idle" => req[s].order # o
          /\ req' = [req EXCEPT ![t] =
                       [op |-> "create", order |-> o, items |-> items, promo |-> code]]
    BY <1>2 DEF StartCreate
  <2>2. pc'[t] = "rate" /\ req'[t].op = "create" /\ req'[t].order = o /\ "create" \in Ops
    BY <1>2, <2>1 DEF StartCreate, Goto, Ledger, Safe, TypeOK
  <2>3. Known(t)'
    BY <1>1, <2>1, <2>2 DEF Known, PlacesMatch, ChecksMatch, OrderKnown, RowKnown,
                            Creating, Changing, Quiet
  <2>4. \A s \in Session \ {t} : Creating(s) => req[s].order # req'[t].order
    BY <2>1, <2>2 DEF Creating
  <2> QED
    BY <1>1, <2>3, <2>4, QuietLedger
<1>3. CASE StartUpdate(t) \/ StartCancel(t)
  <2>1. /\ pc'[t] = "authorize"
        /\ req'[t].op \in {"update", "cancel"} /\ req'[t].op \in Ops
        /\ orders[req'[t].order].status # "ABSENT"
    BY <1>3 DEF StartUpdate, StartCancel, Goto, Ledger, Safe, TypeOK
  <2>2. Known(t)' /\ ~Creating(t)'
    BY <1>1, <2>1 DEF Known, PlacesMatch, ChecksMatch, OrderKnown, RowKnown,
                      Creating, Changing, Quiet, InTx, TxSteps
  <2> QED
    BY <1>1, <2>2, QuietLedger
<1> QED
  BY <1>2, <1>3 DEF Start

LEMMA CheckLedger ==
  ASSUME Ledger, Safe', NEW t \in Session,
         CheckRateLimit(t) \/ GetActiveOrder(t) \/ Authorize(t)
  PROVE  Ledger'
<1>1. Quiet(t) /\ UNCHANGED <<promos, req, loc>>
  BY DEF Ledger, Safe, TypeOK, CheckRateLimit, GetActiveOrder, Authorize, Goto, Quiet, tables
<1>2. /\ pc[t] \in {"rate", "active", "authorize"}
      /\ pc'[t] = IF pc[t] = "rate" THEN "active" ELSE IF pc[t] = "active" THEN "begin" ELSE "load"
  BY DEF Ledger, Safe, TypeOK, CheckRateLimit, GetActiveOrder, Authorize, Goto
<1>3. Known(t)
  BY DEF Ledger
<1>4. Known(t)'
  BY <1>1, <1>2, <1>3 DEF Known, PlacesMatch, ChecksMatch, OrderKnown, RowKnown,
     Creating, Changing, Quiet, InTx, TxSteps
<1>5. Creating(t)' => \A s \in Session \ {t} : Creating(s) => req[s].order # req'[t].order
  BY <1>1, <1>2 DEF Ledger, NewIdsDiffer, Creating
<1> QED
  BY <1>1, <1>4, <1>5, QuietLedger

LEMMA LoadLedger ==
  ASSUME Ledger, Safe', NEW t \in Session, LoadOrder(t)
  PROVE  Ledger'
<1>1. Quiet(t) /\ UNCHANGED <<promos, req>>
  BY DEF Ledger, Safe, TypeOK, LoadOrder, Goto, Quiet, tables
<1>2. /\ pc[t] = "load" /\ pc'[t] = "begin"
      /\ loc'[t].existing = orders[req[t].order]
      /\ orders[req[t].order].user = UserOf[t]
      /\ StatusAllows(req[t].op, orders[req[t].order].status)
  BY DEF Ledger, Safe, TypeOK, LoadOrder, Goto, Local
<1>3. Known(t)
  BY DEF Ledger
<1>4. Known(t)' /\ ~Creating(t)'
  BY <1>1, <1>2, <1>3 DEF Known, PlacesMatch, ChecksMatch, OrderKnown, RowKnown,
     Creating, Changing, Quiet, InTx, TxSteps, StatusAllows
<1> QED
  BY <1>1, <1>4, QuietLedger

\* Where the steps of a transaction lead, for each kind of request.
LEMMA TxStepPlaces ==
  ASSUME Ledger, NEW t \in Session, TxStep(t)
  PROVE  PlacesMatch(t)'
<1>1. UNCHANGED req /\ pc \in [Session -> Label] /\ req[t] \in Request /\ PlacesMatch(t)
  BY TxStepEffect DEF Ledger, Safe, TypeOK, Known
<1>2. pc[t] # "idle" /\ pc'[t] \in InTx
  BY TxStepEffect DEF InTx, TxSteps, Ledger
<1>3. req[t].op \in Ops /\ req[t].op \in {"create", "update", "cancel"}
  BY <1>1, <1>2, DataAssumption DEF PlacesMatch
<1>4. CASE BeginTx(t)
  <2>1. pc'[t] = IF req[t].op = "create" THEN AfterItem(t, req[t].items) ELSE "items"
    BY <1>1, <1>4 DEF BeginTx, Goto
  <2> QED
    BY <1>1, <1>3, <2>1, AfterItemLabel DEF PlacesMatch, ChecksMatch
<1>5. CASE GetItems(t) \/ Restore(t)
  <2>1. pc[t] \in {"items", "restore"} /\ \E todo : pc'[t] = AfterRestore(t, todo)
    BY <1>1, <1>5 DEF GetItems, Restore, Goto
  <2>2. /\ req[t].op # "create"
        /\ pc'[t] \in {"restore", "read", "promo", "write"}
        /\ req[t].op = "cancel" => pc'[t] \in {"restore", "write"}
    BY <1>1, <1>3, <2>1, AfterItemLabel DEF PlacesMatch, AfterRestore
  <2> QED
    BY <1>1, <1>3, <2>2 DEF PlacesMatch, ChecksMatch
<1>6. CASE ReadProduct(t) \/ Reserve(t) \/ ReadPromo(t)
  <2>1. pc[t] \in {"read", "reserve", "promo"}
    BY <1>6 DEF ReadProduct, Reserve, ReadPromo
  <2>2. pc'[t] \in {"read", "reserve", "promo", "write"}
    BY <1>1, <1>6, AfterItemLabel DEF ReadProduct, Reserve, ReadPromo, Goto
  <2> QED
    BY <1>1, <1>3, <2>1, <2>2 DEF PlacesMatch, ChecksMatch
<1> QED
  BY <1>4, <1>5, <1>6 DEF TxStep

LEMMA TxStepLedger ==
  ASSUME Ledger, Safe', NEW t \in Session, TxStep(t)
  PROVE  Ledger'
<1>1. /\ Quiet(t) /\ UNCHANGED req
      /\ pc[t] \in InTx /\ pc'[t] \in InTx
      /\ loc'[t].existing = loc[t].existing
  BY TxStepEffect DEF Ledger
<1>2. UNCHANGED promos
  BY DEF TxStep, BeginTx, GetItems, Restore, ReadProduct, Reserve, ReadPromo, tables
<1>3. Known(t)
  BY DEF Ledger
<1>4. OrderKnown(t)' /\ RowKnown(t)'
  BY <1>1, <1>2, <1>3 DEF Known, OrderKnown, RowKnown, Creating, Changing, Quiet, InTx, TxSteps,
                          PromoExists
<1>5. Creating(t)' => \A s \in Session \ {t} : Creating(s) => req[s].order # req'[t].order
  BY <1>1 DEF Ledger, NewIdsDiffer, Creating, InTx, TxSteps
<1> QED
  BY <1>1, <1>2, <1>4, <1>5, TxStepPlaces, QuietLedger DEF Known

LEMMA CrashLedger ==
  ASSUME Ledger, Safe', Crash
  PROVE  Ledger'
<1>1. \A s \in Session : Known(s)' /\ ~Creating(s)'
  BY DEF Crash, Known, PlacesMatch, ChecksMatch, OrderKnown, RowKnown, Creating, Changing
<1>2. NewIdsDiffer'
  BY <1>1 DEF NewIdsDiffer
<1>3. IsFiniteSet(Standing)'
  BY DEF Ledger, Crash, tables, Standing
<1> QED
  BY <1>1, <1>2, <1>3 DEF Ledger

\* The ledger depends on nothing but the promo codes, the orders and the control.
LEMMA SameLedger ==
  ASSUME Ledger, Safe', UNCHANGED <<promos, orders, pc, req, loc>>
  PROVE  Ledger'
BY DEF Ledger, Known, PlacesMatch, ChecksMatch, OrderKnown, RowKnown, Creating, Changing,
       NewIdsDiffer, Standing, PromoExists
-----------------------------------------------------------------------------
(* The ledger: the commits. *)

\* The row of orders a commit writes.
CommittedRow(t) ==
  CASE req[t].op = "create" -> CreatedRow(t)
    [] req[t].op = "update" -> UpdatedRow(t)
    [] req[t].op = "cancel" ->
         [loc[t].existing EXCEPT !.status = "CANCELED", !.items = orders[req[t].order].items]

LEMMA CommitWrites ==
  ASSUME Safe, Safe', NEW t \in Session, Commit(t)
  PROVE  /\ pc[t] = "write" /\ Answer(t) /\ ApplyStock(t) /\ UNCHANGED now
         /\ orders' = [orders EXCEPT ![req[t].order] = CommittedRow(t)]
         /\ req[t].order \in OrderId /\ CommittedRow(t) \in OrderRow
         /\ pc'[t] = "idle"
         /\ \A s \in Session \ {t} : pc'[s] = pc[s] /\ req'[s] = req[s] /\ loc'[s] = loc[s]
<1>1. pc[t] = "write" /\ Answer(t) /\ ApplyStock(t) /\ UNCHANGED now
  BY DEF Commit, CommitCreate, CommitUpdate, CommitCancel
<1>2. orders' = [orders EXCEPT ![req[t].order] = CommittedRow(t)]
  BY DEF Commit, CommitCreate, CommitUpdate, CommitCancel, CommittedRow
<1>3. req[t].order \in OrderId
  BY DEF Safe, TypeOK, Request
<1>4. CommittedRow(t) = orders'[req[t].order]
  BY <1>2, <1>3 DEF Safe, TypeOK
<1>5. CommittedRow(t) \in OrderRow
  BY <1>3, <1>4 DEF Safe, TypeOK
<1>6. /\ pc'[t] = "idle"
      /\ \A s \in Session \ {t} : pc'[s] = pc[s] /\ req'[s] = req[s] /\ loc'[s] = loc[s]
  BY <1>1 DEF Answer, Goto, Safe, TypeOK
<1> QED
  BY <1>1, <1>2, <1>3, <1>5, <1>6

\* What the row says, for each kind of request.
LEMMA CreatedRowIs ==
  ASSUME Ledger, NEW t \in Session, CommitCreate(t)
  PROVE  /\ Creating(t) /\ CommittedRow(t) = CreatedRow(t)
         /\ ~Stands(orders[req[t].order]) /\ Stands(CommittedRow(t))
         /\ CommittedRow(t).status = "CREATED" /\ CommittedRow(t).user = UserOf[t]
         /\ CommittedRow(t).promo = req[t].promo /\ CommittedRow(t).items = loc[t].lines
<1>1. Creating(t) /\ CommittedRow(t) = CreatedRow(t)
  BY DEF CommitCreate, Creating, CommittedRow
<1>2. orders[req[t].order].status = "ABSENT"
  BY <1>1 DEF Ledger, Known, OrderKnown
<1> QED
  BY <1>1, <1>2 DEF CreatedRow, Stands

LEMMA UpdatedRowIs ==
  ASSUME Ledger, NEW t \in Session, CommitUpdate(t)
  PROVE  /\ Changing(t) /\ CommittedRow(t) = UpdatedRow(t)
         /\ CommittedRow(t).status = orders[req[t].order].status
         /\ orders[req[t].order].status # "ABSENT"
         /\ orders[req[t].order].user = UserOf[t] /\ CommittedRow(t).user = UserOf[t]
         /\ CommittedRow(t).promo = orders[req[t].order].promo
         /\ CommittedRow(t).items = loc[t].lines
         /\ CommittedRow(t).total = loc[t].total
<1>1. /\ Changing(t) /\ CommittedRow(t) = UpdatedRow(t) /\ pc[t] \in InTx
      /\ PromoExists(loc[t].existing.promo)
  BY DEF CommitUpdate, UpdateAccepted, Changing, CommittedRow, InTx, TxSteps
<1>2. loc[t].existing \in OrderRow
  BY DEF Ledger, Safe, TypeOK, Local
<1>3. RowKnown(t) /\ OrderKnown(t)
  BY DEF Ledger, Known
<1>4. /\ UpdatedRow(t).status = loc[t].existing.status /\ UpdatedRow(t).user = loc[t].existing.user
      /\ UpdatedRow(t).promo = loc[t].existing.promo /\ UpdatedRow(t).items = loc[t].lines
      /\ UpdatedRow(t).total = loc[t].total
  BY <1>2 DEF UpdatedRow, OrderRow
<1> QED
  BY <1>1, <1>3, <1>4 DEF RowKnown, OrderKnown

LEMMA CanceledRowIs ==
  ASSUME Ledger, NEW t \in Session, CommitCancel(t)
  PROVE  /\ Changing(t)
         /\ CanTransitionTo(orders[req[t].order].status, "CANCELED")
         /\ orders[req[t].order].status \in ActiveStatus
         /\ Stands(orders[req[t].order]) /\ ~Stands(CommittedRow(t))
         /\ CommittedRow(t).status = "CANCELED"
         /\ orders[req[t].order].user = UserOf[t] /\ CommittedRow(t).user = UserOf[t]
         /\ loc[t].existing.promo = orders[req[t].order].promo
         /\ CommittedRow(t).promo = orders[req[t].order].promo
         /\ CommittedRow(t).items = orders[req[t].order].items
<1> DEFINE row == [loc[t].existing EXCEPT !.status = "CANCELED",
                                          !.items = orders[req[t].order].items]
<1>1. /\ Changing(t) /\ CommittedRow(t) = row /\ pc[t] \in InTx /\ req[t].op = "cancel"
      /\ PromoExists(loc[t].existing.promo)
  BY DEF CommitCancel, Changing, CommittedRow, InTx, TxSteps
<1>2. loc[t].existing \in OrderRow
  BY DEF Ledger, Safe, TypeOK, Local
<1>3. RowKnown(t) /\ OrderKnown(t)
  BY DEF Ledger, Known
<1>4. /\ row.status = "CANCELED" /\ row.user = loc[t].existing.user
      /\ row.promo = loc[t].existing.promo /\ row.items = orders[req[t].order].items
  BY <1>2 DEF OrderRow
<1>5. orders[req[t].order].status \in ActiveStatus
  BY <1>1, <1>3 DEF RowKnown, CanTransitionTo, ValidTransitions, OrderStatus, ActiveStatus
<1>6. /\ CanTransitionTo(orders[req[t].order].status, "CANCELED")
      /\ orders[req[t].order].user = UserOf[t] /\ loc[t].existing.user = UserOf[t]
      /\ loc[t].existing.promo = orders[req[t].order].promo
  BY <1>1, <1>3 DEF RowKnown
<1>7. Stands(orders[req[t].order]) /\ ~Stands(row)
  BY <1>4, <1>5 DEF Stands, ActiveStatus
<1> HIDE DEF row
<1> QED
  BY <1>1, <1>4, <1>5, <1>6, <1>7

\* A commit deletes no code.
LEMMA CommitKeepsExistence ==
  ASSUME Safe, NEW t \in Session, Commit(t)
  PROVE  \A code \in PromoCodeOpt : PromoExists(code)' <=> PromoExists(code)
<1>1. /\ req[t].promo \in PromoCodeOpt /\ loc[t].existing.promo \in PromoCodeOpt
      /\ promos \in [Promo -> PromoRow]
  BY DEF Safe, TypeOK, Request, Local, OrderRow
<1>2. CASE CommitCreate(t)
  BY <1>1, <1>2 DEF CommitCreate, IncrementUses, PromoExists, PromoCodeOpt, PromoRow
<1>3. CASE CommitUpdate(t)
  BY <1>3 DEF CommitUpdate, PromoExists
<1>4. CASE CommitCancel(t)
  BY <1>1, <1>4 DEF CommitCancel, DecrementUses, PromoExists, PromoCodeOpt, PromoRow
<1> QED
  BY <1>2, <1>3, <1>4 DEF Commit

\* Whoever writes an order writes one of its own.
LEMMA OwnOrder ==
  ASSUME Ledger, NEW t \in Session, Commit(t)
  PROVE  /\ CommittedRow(t).user = UserOf[t] /\ CommittedRow(t).status # "ABSENT"
         /\ Creating(t) \/ Changing(t)
         /\ orders[req[t].order].status = "ABSENT" \/ orders[req[t].order].user = UserOf[t]
         /\ Changing(t) => orders[req[t].order].user = UserOf[t]
<1>1. CASE CommitCreate(t)
  <2>1. ~Changing(t) /\ orders[req[t].order].status = "ABSENT"
    BY <1>1, CreatedRowIs DEF Ledger, Known, OrderKnown, CommitCreate, Changing
  <2> QED
    BY <1>1, <2>1, CreatedRowIs
<1>2. CASE CommitUpdate(t)
  BY <1>2, UpdatedRowIs
<1>3. CASE CommitCancel(t)
  BY <1>3, CanceledRowIs
<1> QED
  BY <1>1, <1>2, <1>3 DEF Commit

\* Nobody writes the order another handler is changing.
LEMMA OthersOrder ==
  ASSUME NoSharedChanges, Ledger, NEW t \in Session, Commit(t), NEW s \in Session \ {t},
         Changing(s), pc[s] \in InTx
  PROVE  req[s].order # req[t].order
<1> SUFFICES ASSUME req[s].order = req[t].order PROVE FALSE
  OBVIOUS
<1>1. Known(s)
  BY DEF Ledger
<1>2. orders[req[t].order].user = UserOf[s] /\ orders[req[t].order].status # "ABSENT"
  BY <1>1 DEF Known, RowKnown, OrderKnown
<1>3. ~(Ops \subseteq {"create"})
  BY <1>1 DEF Known, PlacesMatch, Changing
<1> QED
  BY <1>2, <1>3, OwnOrder DEF NoSharedChanges, OneSessionPerUser

\* What the other handlers know stays true.
LEMMA OthersKnown ==
  ASSUME NoSharedChanges, Ledger, Safe', NEW t \in Session, Commit(t), NEW s \in Session \ {t}
  PROVE  Known(s)'
<1> DEFINE o == req[t].order
<1>1. /\ orders' = [orders EXCEPT ![o] = CommittedRow(t)] /\ o \in OrderId
      /\ pc'[s] = pc[s] /\ req'[s] = req[s] /\ loc'[s] = loc[s]
      /\ orders \in [OrderId -> OrderRow] /\ req[s].order \in OrderId
      /\ loc[s].existing.promo \in PromoCodeOpt
  BY CommitWrites DEF Ledger, Safe, TypeOK, Request, Local, OrderRow
<1>2. /\ CommittedRow(t).user = UserOf[t] /\ CommittedRow(t).status # "ABSENT"
      /\ Creating(t) \/ Changing(t)
      /\ orders[o].status = "ABSENT" \/ orders[o].user = UserOf[t]
  BY OwnOrder
<1>3. Known(s) /\ Known(t)
  BY DEF Ledger
<1>4. PlacesMatch(s)' /\ (Creating(s)' <=> Creating(s)) /\ (Changing(s)' <=> Changing(s))
  BY <1>1, <1>3 DEF Known, PlacesMatch, ChecksMatch, Creating, Changing
<1>5. Creating(s) => req[s].order # o
  BY <1>2, <1>3 DEF Ledger, NewIdsDiffer, Known, OrderKnown
<1>6. OrderKnown(s)'
  BY <1>1, <1>2, <1>3, <1>4, <1>5 DEF Known, OrderKnown
<1>7. Changing(s) /\ pc[s] \in InTx => req[s].order # o
  BY OthersOrder
<1>8. RowKnown(s)'
  BY <1>1, <1>3, <1>4, <1>7, CommitKeepsExistence DEF Known, RowKnown, Ledger
<1> QED
  BY <1>4, <1>6, <1>8 DEF Known

LEMMA CommitLedger ==
  ASSUME NoSharedChanges, Ledger, Safe', NEW t \in Session, Commit(t)
  PROVE  Ledger'
<1>1. /\ orders' = [orders EXCEPT ![req[t].order] = CommittedRow(t)]
      /\ req[t].order \in OrderId /\ CommittedRow(t) \in OrderRow
      /\ pc'[t] = "idle"
      /\ \A s \in Session \ {t} : pc'[s] = pc[s] /\ req'[s] = req[s] /\ loc'[s] = loc[s]
      /\ orders \in [OrderId -> OrderRow]
  BY CommitWrites DEF Ledger, Safe, TypeOK
<1>2. ASSUME NEW s \in Session PROVE Known(s)'
  <2>1. CASE s = t
    BY <1>1, <2>1 DEF Known, PlacesMatch, ChecksMatch, OrderKnown, RowKnown, Creating, Changing
  <2>2. CASE s # t
    BY <2>2, OthersKnown
  <2> QED
    BY <2>1, <2>2
<1>3. NewIdsDiffer'
  BY <1>1 DEF Ledger, NewIdsDiffer, Creating
<1>4. IsFiniteSet(Standing)'
  <2>1. IsFiniteSet(StandingIn(orders))
    BY HeldNow DEF Ledger
  <2>2. IsFiniteSet(StandingIn(orders'))
    BY <1>1, <2>1, StandingWritten
  <2> QED
    BY <2>2, HeldNow
<1> QED
  BY <1>2, <1>3, <1>4 DEF Ledger

\* A step of a handler.
LEMMA ServeLedger ==
  ASSUME NoSharedChanges, Ledger, Safe', NEW t \in Session, Serve(t)
  PROVE  Ledger'
<1>1. CASE Start(t)
  BY <1>1, StartLedger
<1>2. CASE Refusal(t)
  BY <1>2, RefusalRefuses, RefuseLedger
<1>3. CASE CheckRateLimit(t) \/ GetActiveOrder(t) \/ Authorize(t)
  BY <1>3, CheckLedger
<1>4. CASE LoadOrder(t)
  BY <1>4, LoadLedger
<1>5. CASE TxStep(t)
  BY <1>5, TxStepLedger
<1>6. CASE Commit(t)
  BY <1>6, CommitLedger
<1> QED
  BY <1>1, <1>2, <1>3, <1>4, <1>5, <1>6 DEF Serve, Advance, Refusal, TxStep, Commit

LEMMA NextLedger ==
  ASSUME NoSharedChanges
  PROVE  Ledger /\ [Next]_vars => Ledger'
<1> SUFFICES ASSUME Ledger, [Next]_vars PROVE Ledger'
  OBVIOUS
<1>1. Safe'
  BY NextSafe DEF Ledger
<1>2. CASE UNCHANGED vars
  BY <1>1, <1>2, SameLedger DEF vars
<1>3. CASE Crash
  BY <1>1, <1>3, CrashLedger
<1>4. CASE Tick
  BY <1>1, <1>4, SameLedger DEF Tick, tables
<1> QED
  BY <1>1, <1>2, <1>3, <1>4, ServeLedger DEF Next
-----------------------------------------------------------------------------
(* The uses of promo codes. *)

\* A commit counts a use up for the order it creates and down for the one it
\* cancels, and never counts above the limit.
LEMMA CommitCodes ==
  ASSUME Ledger, NEW t \in Session, Commit(t), NEW c \in Promo,
         promos[c].exists => promos[c].uses >= UseBy(orders[req[t].order], c)
  PROVE  /\ promos'[c].uses = promos[c].uses - UseBy(orders[req[t].order], c)
                                             + UseBy(CommittedRow(t), c)
         /\ promos'[c].exists = promos[c].exists /\ promos'[c].maxUses = promos[c].maxUses
         /\ promos'[c].uses <= promos[c].uses \/ promos'[c].uses <= promos[c].maxUses
<1> DEFINE old == orders[req[t].order]
           row == CommittedRow(t)
<1>1. /\ promos \in [Promo -> PromoRow] /\ promos[c] \in PromoRow
      /\ promos[c].uses \in Nat /\ promos[c].maxUses \in Nat
      /\ req[t].promo \in PromoCodeOpt /\ loc[t].existing.promo \in PromoCodeOpt
      /\ NoPromo \notin Promo
  BY SessionsAssumption DEF Ledger, Safe, TypeOK, PromoRow, Request, Local, OrderRow
<1>2. UseBy(old, c) \in {0, 1} /\ UseBy(row, c) \in {0, 1}
  BY DEF UseBy
<1>3. CASE CommitCreate(t)
  <2>1. /\ UseBy(old, c) = 0
        /\ UseBy(row, c) = IF req[t].promo = c THEN 1 ELSE 0
    BY <1>3, CreatedRowIs DEF UseBy
  <2>2. /\ promos' = IF req[t].promo = NoPromo THEN promos
                     ELSE [promos EXCEPT ![req[t].promo].uses = @ + 1]
        /\ req[t].promo # NoPromo => promos[req[t].promo].uses < promos[req[t].promo].maxUses
    BY <1>3 DEF CommitCreate, IncrementUses, CreateAccepted, UsesCheck
  <2>3. CASE req[t].promo = c
    <3>1. promos' = [promos EXCEPT ![c].uses = promos[c].uses + 1] /\ promos[c].uses < promos[c].maxUses
      BY <1>1, <2>2, <2>3
    <3>2. promos'[c] = [promos[c] EXCEPT !.uses = promos[c].uses + 1]
      BY <1>1, <3>1
    <3>3. /\ promos'[c].uses = promos[c].uses + 1
          /\ promos'[c].exists = promos[c].exists /\ promos'[c].maxUses = promos[c].maxUses
      BY <1>1, <3>2 DEF PromoRow
    <3> HIDE DEF old, row
    <3>4. promos'[c].uses = promos[c].uses - UseBy(old, c) + UseBy(row, c)
      BY <1>1, <2>1, <2>3, <3>3
    <3> QED
      BY <1>1, <3>1, <3>3, <3>4 DEF old, row
  <2>4. CASE req[t].promo # c
    <3>1. promos'[c] = promos[c]
      BY <1>1, <2>2, <2>4 DEF PromoCodeOpt
    <3> HIDE DEF old, row
    <3>2. promos'[c].uses = promos[c].uses - UseBy(old, c) + UseBy(row, c)
      BY <1>1, <2>1, <2>4, <3>1
    <3> QED
      BY <1>1, <3>1, <3>2 DEF old, row
  <2> QED
    BY <2>3, <2>4
<1>4. CASE CommitUpdate(t)
  <2>1. UseBy(old, c) = UseBy(row, c) /\ promos' = promos
    BY <1>4, UpdatedRowIs DEF UseBy, Stands, CommitUpdate
  <2> HIDE DEF old, row
  <2>2. promos'[c].uses = promos[c].uses - UseBy(old, c) + UseBy(row, c)
    BY <1>1, <1>2, <2>1
  <2> QED
    BY <1>1, <2>1, <2>2 DEF old, row
<1>5. CASE CommitCancel(t)
  <2> DEFINE code == loc[t].existing.promo
  <2>1. /\ UseBy(row, c) = 0
        /\ UseBy(old, c) = IF code = c THEN 1 ELSE 0
    BY <1>5, CanceledRowIs DEF UseBy
  <2>2. /\ PromoExists(code)
        /\ promos' = IF code # NoPromo /\ promos[code].exists /\ promos[code].uses > 0
                     THEN [promos EXCEPT ![code].uses = @ - 1] ELSE promos
    BY <1>5 DEF CommitCancel, DecrementUses
  <2>3. CASE code = c
    <3>1. promos[c].exists /\ promos[c].uses > 0
      BY <1>1, <2>1, <2>2, <2>3 DEF PromoExists
    <3>2. promos' = [promos EXCEPT ![c].uses = promos[c].uses - 1]
      BY <1>1, <2>2, <2>3, <3>1
    <3>3. promos'[c] = [promos[c] EXCEPT !.uses = promos[c].uses - 1]
      BY <1>1, <3>2
    <3>4. /\ promos'[c].uses = promos[c].uses - 1
          /\ promos'[c].exists = promos[c].exists /\ promos'[c].maxUses = promos[c].maxUses
      BY <1>1, <3>3 DEF PromoRow
    <3> HIDE DEF old, row
    <3>5. promos'[c].uses = promos[c].uses - UseBy(old, c) + UseBy(row, c)
      BY <1>1, <2>1, <2>3, <3>4
    <3> QED
      BY <1>1, <3>4, <3>5 DEF old, row
  <2>4. CASE code # c
    <3>1. promos'[c] = promos[c]
      BY <1>1, <2>2, <2>4 DEF PromoCodeOpt
    <3> HIDE DEF old, row
    <3>2. promos'[c].uses = promos[c].uses - UseBy(old, c) + UseBy(row, c)
      BY <1>1, <2>1, <2>4, <3>1
    <3> QED
      BY <1>1, <3>1, <3>2 DEF old, row
  <2> QED
    BY <2>3, <2>4
<1> QED
  BY <1>3, <1>4, <1>5 DEF Commit

\* How many orders carry a code once a commit has written its row.
LEMMA CommitCarriers ==
  ASSUME Ledger, Safe', NEW t \in Session, Commit(t), NEW c \in Promo
  PROVE  /\ Cardinality(CarriersIn(orders', c))
              = Cardinality(CarriersIn(orders, c)) - UseBy(orders[req[t].order], c)
                                                   + UseBy(CommittedRow(t), c)
         /\ Cardinality(CarriersIn(orders, c)) \in Nat
         /\ Cardinality(CarriersIn(orders, c)) >= UseBy(orders[req[t].order], c)
         /\ UseBy(orders[req[t].order], c) \in {0, 1} /\ UseBy(CommittedRow(t), c) \in {0, 1}
<1>1. /\ orders' = [orders EXCEPT ![req[t].order] = CommittedRow(t)]
      /\ req[t].order \in OrderId /\ CommittedRow(t) \in OrderRow
      /\ orders \in [OrderId -> OrderRow]
  BY CommitWrites DEF Ledger, Safe, TypeOK
<1>2. IsFiniteSet(StandingIn(orders))
  BY HeldNow DEF Ledger
<1>3. UseBy(orders[req[t].order], c) \in {0, 1} /\ UseBy(CommittedRow(t), c) \in {0, 1}
  BY DEF UseBy
<1> QED
  BY <1>1, <1>2, <1>3, CarriersWritten

\* No step of a handler but its commit writes an order or a code.
LEMMA OnlyCommitsWrite ==
  ASSUME NEW t \in Session, Serve(t), ~Commit(t)
  PROVE  UNCHANGED tables
<1>1. CASE Refusal(t)
  BY <1>1, RefusalRefuses DEF Refuse
<1>2. CASE Start(t)
  BY <1>2 DEF Start, StartCreate, StartUpdate, StartCancel
<1>3. CASE ~Refusal(t) /\ ~Start(t)
  <2>1. CheckRateLimit(t) \/ GetActiveOrder(t) \/ Authorize(t) \/ LoadOrder(t) \/ TxStep(t)
    BY <1>3 DEF Serve, Advance, Refusal, TxStep, Commit
  <2> QED
    BY <2>1 DEF CheckRateLimit, GetActiveOrder, Authorize, LoadOrder, TxStep, BeginTx, GetItems,
                Restore, ReadProduct, Reserve, ReadPromo
<1> QED
  BY <1>1, <1>2, <1>3

Uses ==
  /\ Ledger
  /\ UsesExact
  /\ \A c \in Promo : promos[c].uses <= promos[c].maxUses

LEMMA InitUses ==
  ASSUME \A c \in Promo : InitialPromo[c].uses <= InitialPromo[c].maxUses
  PROVE  Init => Uses
<1> SUFFICES ASSUME Init PROVE Uses
  OBVIOUS
<1>1. ASSUME NEW c \in Promo
      PROVE  promos[c].uses = InitialPromo[c].uses + Cardinality(CarriersIn(orders, c))
  <2>1. CarriersIn(orders, c) = {}
    BY DEF Init, CarriersIn, StandingIn, Stands, NoRow
  <2>2. Cardinality(CarriersIn(orders, c)) = 0
    BY <2>1, FS_EmptySet
  <2>3. InitialPromo[c].uses \in Nat
    BY DataAssumption DEF PromoRow
  <2> QED
    BY <2>2, <2>3 DEF Init
<1> QED
  BY <1>1, InitLedger DEF Uses, UsesExact, Init

LEMMA CommitUses ==
  ASSUME Uses, Safe', NEW t \in Session, Commit(t), NEW c \in Promo
  PROVE  /\ promos'[c].uses = InitialPromo[c].uses + Cardinality(CarriersIn(orders', c))
         /\ promos'[c].uses <= promos'[c].maxUses
<1> DEFINE n == Cardinality(CarriersIn(orders, c))
           gone == UseBy(orders[req[t].order], c)
           come == UseBy(CommittedRow(t), c)
<1>1. /\ Cardinality(CarriersIn(orders', c)) = n - gone + come
      /\ n \in Nat /\ n >= gone /\ gone \in {0, 1} /\ come \in {0, 1}
  BY CommitCarriers DEF Uses
<1>2. /\ promos[c].uses = InitialPromo[c].uses + n /\ promos[c].uses <= promos[c].maxUses
      /\ InitialPromo[c].uses \in Nat
      /\ promos[c].uses \in Nat /\ promos[c].maxUses \in Nat /\ promos'[c].uses \in Nat
  BY DataAssumption DEF Uses, UsesExact, Ledger, Safe, TypeOK, PromoRow
<1> HIDE DEF n, gone, come
<1>3. promos[c].uses >= gone
  BY <1>1, <1>2
<1>4. /\ promos'[c].uses = promos[c].uses - gone + come
      /\ promos'[c].maxUses = promos[c].maxUses
      /\ promos'[c].uses <= promos[c].uses \/ promos'[c].uses <= promos[c].maxUses
  BY <1>3, CommitCodes DEF Uses, gone, come
<1> QED
  BY <1>1, <1>2, <1>4

LEMMA NextUses ==
  ASSUME NoSharedChanges
  PROVE  Uses /\ [Next]_vars => Uses'
<1> SUFFICES ASSUME Uses, [Next]_vars PROVE Uses'
  OBVIOUS
<1>1. Ledger' /\ Safe'
  BY NextLedger DEF Uses, Ledger
<1>2. CASE UNCHANGED <<promos, orders>>
  BY <1>1, <1>2 DEF Uses, UsesExact
<1>3. ASSUME NEW t \in Session, Commit(t)
      PROVE  Uses'
  BY <1>1, <1>3, CommitUses DEF Uses, UsesExact
<1>4. CASE ~(UNCHANGED <<promos, orders>>)
  BY <1>3, <1>4, OnlyCommitsWrite DEF Next, vars, tables, Crash, Tick
<1> QED
  BY <1>2, <1>4

\* A code's counter is exact: as long as no order is changed by two requests at
\* once, the uses counted by Create and given back by Cancel are those of the
\* standing orders that carry the code, and never more than it allows, though
\* Create checks the limit in one statement and counts in another.
THEOREM PromoUsesExact ==
  ASSUME NoSharedChanges,
         \A c \in Promo : InitialPromo[c].uses <= InitialPromo[c].maxUses
  PROVE  Spec => []PromoAccounting
<1>1. Init => Uses
  BY InitUses
<1>2. Uses /\ [Next]_vars => Uses'
  BY NextUses
<1>3. Uses => PromoAccounting
  <2>1. \A c : {o \in Standing : orders[o].promo = c} = CarriersIn(orders, c)
    BY HeldNow DEF CarriersIn
  <2> QED
    BY <2>1 DEF Uses, UsesExact, PromoAccounting
<1> QED
  BY <1>1, <1>2, <1>3, PTL DEF Spec
-----------------------------------------------------------------------------
(* The totals. *)

\* A handler's running total is what its lines cost, until a create has read its
\* code: then it is what they cost less the discount, to the cent.
LineTotal(s) ==
  /\ pc[s] = "promo" => req[s].op = "create"
  /\ IF pc[s] = "write" /\ req[s].op = "create"
     THEN loc[s].total + loc[s].discount - Amount(loc[s].lines) \in {-1, 0, 1}
     ELSE loc[s].total = Amount(loc[s].lines) /\ loc[s].discount = 0

LineTotals == \A s \in Session : LineTotal(s)

LEMMA OthersTotals ==
  ASSUME LineTotals, NEW t \in Session, LineTotal(t)',
         \A s \in Session \ {t} : pc'[s] = pc[s] /\ req'[s] = req[s] /\ loc'[s] = loc[s]
  PROVE  LineTotals'
<1>1. ASSUME NEW s \in Session PROVE LineTotal(s)'
  BY DEF LineTotals, LineTotal
<1> QED
  BY <1>1 DEF LineTotals

LEMMA LinesForgotten ==
  ASSUME Safe, LineTotals, NEW t \in Session, Answer(t)
  PROVE  LineTotals'
<1>1. /\ loc'[t] = NoLoc /\ pc'[t] = "idle"
      /\ \A s \in Session \ {t} : pc'[s] = pc[s] /\ req'[s] = req[s] /\ loc'[s] = loc[s]
  BY DEF Safe, TypeOK, Answer, Goto
<1>2. LineTotal(t)'
  BY <1>1, AmountOfNone DEF LineTotal, NoLoc
<1> QED
  BY <1>1, <1>2, OthersTotals

\* The handler of t goes on with the total and the lines it has.
LEMMA LinesKept ==
  ASSUME Safe, LineTotals, NEW t \in Session, pc[t] \notin {"promo", "write"},
         loc'[t].total = loc[t].total, loc'[t].discount = loc[t].discount,
         loc'[t].lines = loc[t].lines,
         pc'[t] = "promo" => req'[t].op = "create",
         \A s \in Session \ {t} : pc'[s] = pc[s] /\ req'[s] = req[s] /\ loc'[s] = loc[s]
  PROVE  LineTotals'
<1>1. loc[t].total = Amount(loc[t].lines) /\ loc[t].discount = 0 /\ loc[t].total \in Int
  BY DEF LineTotals, LineTotal, Safe, TypeOK, Local
<1>2. LineTotal(t)'
  BY <1>1 DEF LineTotal
<1> QED
  BY <1>2, OthersTotals

LEMMA ReadProductTotals ==
  ASSUME Safe, LineTotals, NEW t \in Session, ReadProduct(t)
  PROVE  LineTotals'
<1> DEFINE item == Head(loc[t].todo)
           x == [product |-> item.product, qty |-> item.qty, price |-> products[item.product].price]
<1>1. loc[t] \in Local /\ loc[t].lines \in Seq(Line) /\ loc[t].total \in Int
  BY DEF Safe, TypeOK, Local
<1>2. item \in Item
  BY ItemsAreTyped DEF ReadProduct
<1>3. x \in Line
  BY <1>2 DEF Item, Line, Safe, TypeOK, ProductRow
<1>4. /\ loc'[t].lines = Append(loc[t].lines, x)
      /\ loc'[t].total = loc[t].total + x.price * x.qty
      /\ loc'[t].discount = loc[t].discount
      /\ pc[t] = "read" /\ pc'[t] = "reserve"
      /\ \A s \in Session \ {t} : pc'[s] = pc[s] /\ req'[s] = req[s] /\ loc'[s] = loc[s]
  BY <1>1 DEF ReadProduct, Safe, TypeOK, Local, Goto
<1>5. Amount(Append(loc[t].lines, x)) = Amount(loc[t].lines) + x.price * x.qty
  <2> HIDE DEF x
  <2> QED
    BY <1>1, <1>3, AmountOfAppend
<1>6. LineTotal(t)'
  <2> HIDE DEF x
  <2> QED
    BY <1>4, <1>5 DEF LineTotals, LineTotal
<1> QED
  BY <1>4, <1>6, OthersTotals

\* Two amounts that add up to whole cents, each rounded to the cent.
LEMMA RoundedParts ==
  ASSUME NEW whole \in Int, NEW part \in Int,
         NEW p \in Cents(100 * whole - part), NEW g \in Cents(part)
  PROVE  p \in Int /\ g \in Int /\ p + g - whole \in {-1, 0, 1}
BY DEF Cents

LEMMA ReadPromoTotals ==
  ASSUME Safe, LineTotals, NEW t \in Session, ReadPromo(t)
  PROVE  LineTotals'
<1>1. /\ loc[t] \in Local /\ req[t] \in Request /\ loc[t].total \in Int
      /\ loc[t].total = Amount(loc[t].lines)
      /\ pc[t] = "promo" /\ req[t].op = "create" /\ req' = req /\ pc'[t] = "write"
      /\ \A s \in Session \ {t} : pc'[s] = pc[s]
  BY DEF Safe, TypeOK, Local, LineTotals, LineTotal, ReadPromo, Goto
<1>2. promos[req[t].promo] \in PromoRow
  BY <1>1 DEF Safe, TypeOK, StepsDefined, Request, PromoCodeOpt
<1>3. PICK error : \E discount \in CalculateDiscount(promos[req[t].promo], loc[t].total, error) :
        \E payable \in Cents(100 * loc[t].total - discount), granted \in Cents(discount) :
          loc' = [loc EXCEPT ![t] = [loc[t] EXCEPT !.total = payable, !.discount = granted]]
  BY DEF ReadPromo
<1>4. PICK discount \in CalculateDiscount(promos[req[t].promo], loc[t].total, error) :
        \E payable \in Cents(100 * loc[t].total - discount), granted \in Cents(discount) :
          loc' = [loc EXCEPT ![t] = [loc[t] EXCEPT !.total = payable, !.discount = granted]]
  BY <1>3
<1>5. discount \in Int
  BY <1>1, <1>2, DiscountIsInt
<1>6. PICK payable \in Cents(100 * loc[t].total - discount), granted \in Cents(discount) :
        loc' = [loc EXCEPT ![t] = [loc[t] EXCEPT !.total = payable, !.discount = granted]]
  BY <1>4
<1>7. payable + granted - loc[t].total \in {-1, 0, 1}
  BY <1>1, <1>5, <1>6, RoundedParts
<1>8. /\ loc'[t].total = payable /\ loc'[t].discount = granted /\ loc'[t].lines = loc[t].lines
      /\ \A s \in Session \ {t} : loc'[s] = loc[s]
  BY <1>1, <1>6 DEF Safe, TypeOK, Local
<1>9. LineTotal(t)'
  BY <1>1, <1>7, <1>8 DEF LineTotal
<1> QED
  BY <1>1, <1>8, <1>9, OthersTotals

LEMMA ServeTotals ==
  ASSUME Safe, LineTotals, NEW t \in Session, Serve(t)
  PROVE  LineTotals'
<1>0. /\ loc \in [Session -> Local] /\ loc[t] \in Local /\ pc \in [Session -> Label]
      /\ req \in [Session -> Request]
  BY DEF Safe, TypeOK
<1>1. CASE Refusal(t) \/ Commit(t)
  <2>1. Answer(t)
    BY <1>1, RefusalRefuses DEF Refuse, Commit, CommitCreate, CommitUpdate, CommitCancel
  <2> QED
    BY <2>1, LinesForgotten
<1>2. CASE Start(t) \/ CheckRateLimit(t) \/ GetActiveOrder(t) \/ Authorize(t)
  <2>1. /\ loc' = loc /\ pc[t] \notin {"promo", "write"} /\ pc'[t] # "promo"
        /\ \A s \in Session \ {t} : pc'[s] = pc[s] /\ req'[s] = req[s]
    BY <1>0, <1>2 DEF Start, StartCreate, StartUpdate, StartCancel, CheckRateLimit,
                         GetActiveOrder, Authorize, Goto
  <2> QED
    BY <2>1, LinesKept
<1>3. CASE LoadOrder(t)
  BY <1>0, <1>3, LinesKept DEF LoadOrder, Local, Goto
<1>4. CASE BeginTx(t) \/ GetItems(t) \/ Restore(t) \/ Reserve(t)
  <2>1. /\ loc' = loc \/ \E todo : loc' = [loc EXCEPT ![t].todo = todo]
        /\ req' = req /\ pc[t] \notin {"promo", "write"}
        /\ \A s \in Session \ {t} : pc'[s] = pc[s]
    BY <1>0, <1>4 DEF BeginTx, GetItems, Restore, Reserve, Goto
  <2>2. /\ loc'[t].total = loc[t].total /\ loc'[t].lines = loc[t].lines
        /\ loc'[t].discount = loc[t].discount
        /\ \A s \in Session \ {t} : loc'[s] = loc[s]
    BY <1>0, <2>1 DEF Local
  <2>3. pc'[t] = "promo" => req'[t].op = "create"
    <3>1. \A todo : AfterItem(t, todo) = "promo" => req[t].op = "create"
      BY DEF AfterItem
    <3>2. \/ pc'[t] \in {"items", "read", "restore", "write"}
          \/ \E todo : pc'[t] = AfterItem(t, todo)
      BY <1>0, <1>4 DEF BeginTx, GetItems, Restore, Reserve, Goto, AfterRestore
    <3> QED
      BY <2>1, <3>1, <3>2
  <2> QED
    BY <2>1, <2>2, <2>3, LinesKept
<1>5. CASE ReadProduct(t)
  BY <1>5, ReadProductTotals
<1>6. CASE ReadPromo(t)
  BY <1>6, ReadPromoTotals
<1> QED
  BY <1>1, <1>2, <1>3, <1>4, <1>5, <1>6 DEF Serve, Advance, Refusal, Commit

\* Handlers serve only the requests clients make.
LEMMA RequestsMade ==
  ASSUME Safe, NEW t \in Session, Serve(t),
         \A s \in Session : pc[s] # "idle" => req[s].op \in Ops
  PROVE  \A s \in Session : pc'[s] # "idle" => req'[s].op \in Ops
<1>0. pc \in [Session -> Label] /\ req \in [Session -> Request]
  BY DEF Safe, TypeOK
<1>1. CASE Refusal(t) \/ Commit(t)
  <2>1. Answer(t)
    BY <1>1, RefusalRefuses DEF Refuse, Commit, CommitCreate, CommitUpdate, CommitCancel
  <2> QED
    BY <1>0, <2>1 DEF Answer, Goto
<1>2. CASE Start(t)
  BY <1>0, <1>2 DEF Start, StartCreate, StartUpdate, StartCancel, Goto
<1>3. CASE CheckRateLimit(t) \/ GetActiveOrder(t) \/ Authorize(t) \/ LoadOrder(t)
  BY <1>0, <1>3 DEF CheckRateLimit, GetActiveOrder, Authorize, LoadOrder, Goto
<1>4. CASE TxStep(t)
  BY <1>0, <1>4, TxStepEffect DEF Quiet, InTx, TxSteps
<1> QED
  BY <1>1, <1>2, <1>3, <1>4 DEF Serve, Advance, Refusal, Commit, TxStep

Totals ==
  /\ Safe
  /\ LineTotals
  /\ \A s \in Session : pc[s] # "idle" => req[s].op \in Ops
  /\ TotalsFollowLines
  /\ "update" \notin Ops => TotalIsDiscounted

\* A row whose amount is what its lines cost, less the discount.
RowTotal(row) ==
  Stands(row) =>
    /\ Discounted(row) \/ row.total = Amount(row.items)
    /\ "update" \notin Ops => Discounted(row)

LEMMA RowTotals ==
  /\ TotalsFollowLines /\ ("update" \notin Ops => TotalIsDiscounted) <=>
       \A o \in OrderId : RowTotal(orders[o])
  /\ TotalsFollowLines' /\ ("update" \notin Ops => TotalIsDiscounted') <=>
       \A o \in OrderId : RowTotal(orders'[o])
BY DEF TotalsFollowLines, TotalIsDiscounted, RowTotal, Discounted, Standing, Stands

LEMMA CommitTotals ==
  ASSUME Totals, Safe', NEW t \in Session, Commit(t)
  PROVE  \A o \in OrderId : RowTotal(orders'[o])
<1>1. /\ orders' = [orders EXCEPT ![req[t].order] = CommittedRow(t)]
      /\ req[t].order \in OrderId /\ orders \in [OrderId -> OrderRow]
  BY CommitWrites DEF Totals, Safe, TypeOK
<1>2. LineTotal(t) /\ loc[t] \in Local
  BY DEF Totals, LineTotals, Safe, TypeOK
<1> SUFFICES ASSUME NEW o \in OrderId PROVE RowTotal(orders'[o])
  OBVIOUS
<1>3. CASE o # req[t].order
  <2>1. orders'[o] = orders[o]
    BY <1>1, <1>3
  <2>2. RowTotal(orders[o])
    BY RowTotals DEF Totals
  <2> QED
    BY <2>1, <2>2
<1>4. CASE o = req[t].order
  <2>1. CASE CommitCreate(t)
    <3>1. orders'[o] = CreatedRow(t)
      BY <1>1, <1>4, <2>1 DEF CommitCreate
    <3>2. /\ orders'[o].total = loc[t].total /\ orders'[o].discount = loc[t].discount
          /\ orders'[o].items = loc[t].lines
      BY <3>1 DEF CreatedRow
    <3>3. loc[t].total + loc[t].discount - Amount(loc[t].lines) \in {-1, 0, 1}
      BY <1>2, <2>1 DEF CommitCreate, LineTotal
    <3>4. Discounted(orders'[o])
      BY <3>2, <3>3 DEF Discounted
    <3> QED
      BY <3>4 DEF RowTotal
  <2>2. CASE CommitUpdate(t)
    <3>1. orders'[o] = UpdatedRow(t) /\ req[t].op = "update" /\ pc[t] = "write"
      BY <1>1, <1>4, <2>2 DEF CommitUpdate
    <3>2. loc[t].existing \in OrderRow
      BY <1>2 DEF Local
    <3>3. orders'[o].total = loc[t].total /\ orders'[o].items = loc[t].lines
      BY <3>1, <3>2 DEF UpdatedRow, OrderRow
    <3>4. orders'[o].total = Amount(orders'[o].items)
      BY <1>2, <3>1, <3>3 DEF LineTotal
    <3>5. "update" \in Ops
      BY <3>1 DEF Totals
    <3> QED
      BY <3>4, <3>5 DEF RowTotal
  <2>3. CASE CommitCancel(t)
    <3>1. loc[t].existing \in OrderRow
      BY <1>2 DEF Local
    <3>2. orders'[o] = [loc[t].existing EXCEPT !.status = "CANCELED", !.items = orders[o].items]
      BY <1>1, <1>4, <2>3 DEF CommitCancel
    <3>3. orders'[o].status = "CANCELED"
      BY <3>1, <3>2 DEF OrderRow
    <3> QED
      BY <3>3 DEF RowTotal, Stands
  <2> QED
    BY <2>1, <2>2, <2>3 DEF Commit
<1> QED
  BY <1>3, <1>4

LEMMA NextTotals == Totals /\ [Next]_vars => Totals'
<1> SUFFICES ASSUME Totals, [Next]_vars PROVE Totals'
  OBVIOUS
<1>1. Safe'
  BY NextSafe DEF Totals
<1>2. \A o \in OrderId : RowTotal(orders[o])
  BY RowTotals DEF Totals
<1>3. CASE UNCHANGED <<orders, pc, req, loc>>
  <2>1. LineTotals' /\ \A o \in OrderId : RowTotal(orders'[o])
    BY <1>2, <1>3 DEF Totals, LineTotals, LineTotal
  <2> QED
    BY <1>1, <1>3, <2>1, RowTotals DEF Totals
<1>4. CASE Crash
  <2>1. LineTotals'
    BY <1>4, AmountOfNone DEF LineTotals, LineTotal, Crash, NoLoc
  <2>2. \A o \in OrderId : RowTotal(orders'[o])
    BY <1>2, <1>4 DEF Crash, tables
  <2>3. \A s \in Session : pc'[s] = "idle"
    BY <1>4 DEF Crash
  <2> QED
    BY <1>1, <2>1, <2>2, <2>3, RowTotals DEF Totals
<1>5. ASSUME NEW t \in Session, Serve(t)
      PROVE  Totals'
  <2>1. \A o \in OrderId : RowTotal(orders'[o])
    <3>1. CASE Commit(t)
      BY <1>1, <3>1, CommitTotals
    <3>2. CASE ~Commit(t)
      BY <1>2, <1>5, <3>2, OnlyCommitsWrite DEF tables, Totals
    <3> QED
      BY <3>1, <3>2
  <2>2. LineTotals' /\ \A s \in Session : pc'[s] # "idle" => req'[s].op \in Ops
    BY <1>5, ServeTotals, RequestsMade DEF Totals
  <2> QED
    BY <1>1, <2>1, <2>2, RowTotals DEF Totals
<1> QED
  BY <1>3, <1>4, <1>5 DEF Next, vars, Tick, tables

LEMMA InitTotals == Init => Totals
<1> SUFFICES ASSUME Init PROVE Totals
  OBVIOUS
<1>1. LineTotals
  BY AmountOfNone DEF Init, LineTotals, LineTotal, NoLoc
<1>2. \A o \in OrderId : RowTotal(orders[o])
  BY DEF Init, NoRow, RowTotal, Stands
<1>3. Safe /\ \A s \in Session : pc[s] = "idle"
  BY InitSafe DEF Init
<1> QED
  BY <1>1, <1>2, <1>3, RowTotals DEF Totals

\* What a customer is asked to pay is the cost of the order's lines less the
\* recorded discount, to the cent that rounding the two separately can add or
\* lose, whatever prices and codes do meanwhile; an update, which stores a total
\* without the discount, is left out.
THEOREM TotalsAddUp ==
  ASSUME "update" \notin Ops
  PROVE  Spec => []TotalIsDiscounted
<1>1. Totals /\ [Next]_vars => Totals'
  BY NextTotals
<1>2. Totals => TotalIsDiscounted
  BY DEF Totals
<1> QED
  BY <1>1, <1>2, InitTotals, PTL DEF Spec

\* Whatever requests race for an order, updates and cancellations by several
\* sessions included, its stored amount is that of its stored lines.
THEOREM AmountsMatchLines == Spec => []TotalsFollowLines
<1>1. Totals /\ [Next]_vars => Totals'
  BY NextTotals
<1>2. Totals => TotalsFollowLines
  BY DEF Totals
<1> QED
  BY <1>1, <1>2, InitTotals, PTL DEF Spec
-----------------------------------------------------------------------------
(* The stock: what each transaction has written so far. *)

Reserving == {"read", "reserve", "promo", "write"}

\* The quantities the old items of the order give back.
Returning(s, p) ==
  IF req[s].op = "create" THEN 0 ELSE Quantity(orders[req[s].order].items, p)

\* What the transaction has added to the stock of p so far.
Written(s, p) ==
  CASE pc[s] = "restore" -> Returning(s, p) - Quantity(loc[s].todo, p)
    [] pc[s] \in {"read", "promo", "write"} -> Returning(s, p) - Quantity(loc[s].lines, p)
    [] pc[s] = "reserve" ->
         Returning(s, p) - Quantity(loc[s].lines, p) + Share(Head(loc[s].todo), p)
    [] OTHER -> 0

StockProgress(s) ==
  /\ pc[s] \notin Reserving \/ req[s].op = "cancel" => loc[s].lines = <<>>
  /\ \A p \in Product : tx[s].delta[p] = Written(s, p)

\* Clients that update only open orders never update a canceled one.
OpenKnown(s) ==
  pc[s] # "idle" /\ req[s].op = "update" /\ orders[req[s].order].user = UserOf[s] =>
    orders[req[s].order].status = "CREATED"

LEMMA WrittenCases ==
  /\ \A s, p :
       /\ pc[s] = "restore" => Written(s, p) = Returning(s, p) - Quantity(loc[s].todo, p)
       /\ pc[s] \in {"read", "promo", "write"} =>
            Written(s, p) = Returning(s, p) - Quantity(loc[s].lines, p)
       /\ pc[s] = "reserve" =>
            Written(s, p) = Returning(s, p) - Quantity(loc[s].lines, p)
                                            + Share(Head(loc[s].todo), p)
       /\ pc[s] \notin Reserving \cup {"restore"} => Written(s, p) = 0
  /\ \A s, p :
       /\ pc'[s] = "restore" => Written(s, p)' = Returning(s, p)' - Quantity(loc'[s].todo, p)
       /\ pc'[s] \in {"read", "promo", "write"} =>
            Written(s, p)' = Returning(s, p)' - Quantity(loc'[s].lines, p)
       /\ pc'[s] = "reserve" =>
            Written(s, p)' = Returning(s, p)' - Quantity(loc'[s].lines, p)
                                              + Share(Head(loc'[s].todo), p)
       /\ pc'[s] \notin Reserving \cup {"restore"} => Written(s, p)' = 0
BY DEF Written, Reserving

LEMMA QuantityTypes ==
  /\ \A lines \in Seq(Item) : \A p : Quantity(lines, p) \in Int
  /\ \A lines \in Seq(Line) : \A p : Quantity(lines, p) \in Int
  /\ \A lines \in Seq(StoredLine) : \A p : Quantity(lines, p) \in Int
  /\ \A x \in Item \cup Line \cup StoredLine : \A p : Share(x, p) \in Int
<1>1. \A T : (\A x \in T : x.qty \in Int) => \A lines \in Seq(T) : \A p : Quantity(lines, p) \in Int
  BY QuantityType
<1>2. \A x \in Item \cup Line \cup StoredLine : x.qty \in Int
  BY DEF Item, Line, StoredLine
<1>3. \A x \in Item \cup Line \cup StoredLine : \A p : Share(x, p) \in Int
  BY <1>2 DEF Share
<1> QED
  BY <1>1, <1>2, <1>3

\* The types of what a handler counts.
LEMMA CountedTypes ==
  ASSUME Safe, NEW t \in Session, NEW p \in Product
  PROVE  /\ loc[t] \in Local /\ loc[t].todo \in Seq(Item) /\ loc[t].lines \in Seq(Line)
         /\ req[t] \in Request /\ req[t].order \in OrderId /\ req[t].items \in Seq(Item)
         /\ orders[req[t].order] \in OrderRow
         /\ orders[req[t].order].items \in Seq(StoredLine)
         /\ Quantity(loc[t].todo, p) \in Int /\ Quantity(loc[t].lines, p) \in Int
         /\ Quantity(orders[req[t].order].items, p) \in Int
         /\ Returning(t, p) \in Int
         /\ tx[t].delta[p] \in Int
<1>1. /\ loc[t] \in Local /\ loc[t].todo \in Seq(Item) /\ loc[t].lines \in Seq(Line)
      /\ req[t] \in Request /\ req[t].order \in OrderId /\ req[t].items \in Seq(Item)
  BY DEF Safe, TypeOK, Local, Request
<1>2. orders[req[t].order] \in OrderRow /\ orders[req[t].order].items \in Seq(StoredLine)
  BY <1>1 DEF Safe, TypeOK, OrderRow
<1>3. tx[t].delta[p] \in Int
  BY DEF Safe, TypeOK, Transaction
<1> QED
  BY <1>1, <1>2, <1>3, QuantityTypes DEF Returning

LEMMA StockUpdated ==
  ASSUME Safe, NEW t \in Session, NEW q \in Product, NEW n \in Int, UpdateStock(t, q, n),
         NEW p \in Product
  PROVE  tx'[t].delta[p] = tx[t].delta[p] + (IF q = p THEN n ELSE 0)
<1>1. tx[t].delta[p] \in Int /\ tx[t].delta \in [Product -> Int]
  BY DEF Safe, TypeOK, Transaction
<1>2. tx'[t].delta = [tx[t].delta EXCEPT ![q] = tx[t].delta[q] + n]
  BY DEF UpdateStock, Safe, TypeOK
<1> QED
  BY <1>1, <1>2
LEMMA SameReturns ==
  ASSUME NEW t \in Session, NEW p, UNCHANGED <<req, orders>>
  PROVE  Returning(t, p)' = Returning(t, p)
BY DEF Returning

LEMMA BeginTxStock ==
  ASSUME Ledger, NEW t \in Session, BeginTx(t), StockProgress(t)
  PROVE  StockProgress(t)'
<1>1. /\ pc[t] = "begin" /\ UNCHANGED <<tx, req, orders>>
      /\ pc \in [Session -> Label] /\ loc \in [Session -> Local] /\ loc[t] \in Local
  BY DEF BeginTx, tables, Ledger, Safe, TypeOK
<1>2. loc[t].lines = <<>> /\ \A p \in Product : tx[t].delta[p] = 0
  BY <1>1, WrittenCases DEF StockProgress, Reserving
<1>3. loc'[t].lines = <<>>
  BY <1>1, <1>2 DEF BeginTx, Local
<1>4. /\ req[t].op = "create" => pc'[t] \in {"read", "promo", "write"}
      /\ req[t].op # "create" => pc'[t] = "items"
  BY <1>1, AfterItemLabel DEF BeginTx, Goto
<1>5. ASSUME NEW p \in Product PROVE tx'[t].delta[p] = Written(t, p)'
  <2>1. CASE req[t].op = "create"
    <3>1. Returning(t, p) = 0 /\ Returning(t, p)' = Returning(t, p)
      BY <1>1, <2>1, SameReturns DEF Returning
    <3>2. Written(t, p)' = Returning(t, p)' - Quantity(loc'[t].lines, p)
      BY <1>4, <2>1, WrittenCases
    <3> QED
      BY <1>1, <1>2, <1>3, <3>1, <3>2, QuantityOfNone
  <2>2. CASE req[t].op # "create"
    BY <1>1, <1>2, <1>4, <2>2, WrittenCases DEF Reserving
  <2> QED
    BY <2>1, <2>2
<1> QED
  BY <1>3, <1>5 DEF StockProgress

\* What returning the last of the old items leads to.
LEMMA RestoredStock ==
  ASSUME Ledger, Safe', NEW t \in Session, UNCHANGED <<req, orders>>,
         loc'[t].lines = <<>>, NEW todo, NEW next,
         next = IF todo = <<>> /\ req[t].op = "update" THEN req[t].items ELSE todo,
         loc'[t].todo = next, pc'[t] = AfterRestore(t, todo),
         \A p \in Product :
           tx'[t].delta[p] = Returning(t, p) - Quantity(todo, p) /\ Quantity(todo, p) \in Int
  PROVE  StockProgress(t)'
<1>1. /\ pc'[t] \in {"restore", "read", "promo", "write"}
      /\ pc'[t] = "restore" => next = todo
      /\ pc'[t] # "restore" => todo = <<>>
  BY AfterItemLabel, AfterRestoreLabel DEF AfterRestore
<1>2. ASSUME NEW p \in Product PROVE tx'[t].delta[p] = Written(t, p)'
  <2>1. Returning(t, p)' = Returning(t, p) /\ Returning(t, p) \in Int
    BY SameReturns, CountedTypes DEF Ledger
  <2>2. CASE pc'[t] = "restore"
    BY <1>1, <2>1, <2>2, WrittenCases
  <2>3. CASE pc'[t] # "restore"
    <3>1. Quantity(todo, p) = 0 /\ Quantity(loc'[t].lines, p) = 0
      BY <1>1, <2>3, QuantityOfNone
    <3>2. Written(t, p)' = Returning(t, p)' - Quantity(loc'[t].lines, p)
      BY <1>1, <2>3, WrittenCases
    <3> QED
      BY <2>1, <3>1, <3>2
  <2> QED
    BY <2>2, <2>3
<1> QED
  BY <1>2 DEF StockProgress

LEMMA GetItemsStock ==
  ASSUME Ledger, Safe', NEW t \in Session, GetItems(t), StockProgress(t)
  PROVE  StockProgress(t)'
<1> DEFINE lines == orders[req[t].order].items
           shuffled(rank) == [i \in DOMAIN lines |->
             [product |-> lines[rank[i]].product, qty |-> lines[rank[i]].qty]]
           after(todo) == IF todo = <<>> /\ req[t].op = "update" THEN req[t].items ELSE todo
<1>1. /\ pc[t] = "items" /\ UNCHANGED <<tx, req, orders>>
      /\ pc \in [Session -> Label] /\ loc \in [Session -> Local] /\ loc[t] \in Local
      /\ lines \in Seq(StoredLine)
  BY CountedTypes DEF GetItems, tables, Ledger, Safe, TypeOK, Request, OrderRow
<1>2. PICK rank \in Bijection(DOMAIN lines, DOMAIN lines) :
        /\ loc' = [loc EXCEPT ![t].todo = after(shuffled(rank))]
        /\ Goto(t, AfterRestore(t, shuffled(rank)))
  BY DEF GetItems
<1> DEFINE todo == shuffled(rank)
<1>3. req[t].op # "create"
  BY <1>1 DEF Ledger, Known, PlacesMatch
<1>4. loc[t].lines = <<>> /\ \A p \in Product : tx[t].delta[p] = 0
  BY <1>1, WrittenCases DEF StockProgress, Reserving
<1>5. /\ loc'[t].lines = <<>> /\ loc'[t].todo = after(todo)
      /\ pc'[t] = AfterRestore(t, todo)
  <2> HIDE DEF todo
  <2> QED
    BY <1>1, <1>2, <1>4 DEF Goto, Local, todo
<1>6. ASSUME NEW p \in Product
      PROVE  tx'[t].delta[p] = Returning(t, p) - Quantity(todo, p) /\ Quantity(todo, p) \in Int
  <2>1. \A y \in StoredLine : y.qty \in Int
    BY DEF StoredLine
  <2>2. Quantity(todo, p) = Quantity(lines, p)
    BY <1>1, <2>1, QuantityOfShuffled
  <2>3. Returning(t, p) = Quantity(lines, p) /\ Quantity(lines, p) \in Int
    BY <1>1, <1>3, QuantityTypes DEF Returning
  <2> HIDE DEF todo, lines
  <2> QED
    BY <1>1, <1>4, <2>2, <2>3
<1> HIDE DEF todo
<1> QED
  BY <1>1, <1>5, <1>6, RestoredStock

LEMMA RestoreStock ==
  ASSUME Ledger, Safe', NEW t \in Session, Restore(t), StockProgress(t)
  PROVE  StockProgress(t)'
<1> DEFINE item == Head(loc[t].todo)
           todo == Tail(loc[t].todo)
           next == IF todo = <<>> /\ req[t].op = "update" THEN req[t].items ELSE todo
<1>1. /\ pc[t] = "restore" /\ UNCHANGED <<req, orders>>
      /\ pc \in [Session -> Label] /\ loc \in [Session -> Local] /\ loc[t] \in Local
      /\ loc[t].todo # <<>> /\ loc[t].todo \in Seq(Item)
  BY CountedTypes DEF Restore, tables, Ledger, Safe, TypeOK, StepsDefined, Local
<1>2. item \in Item /\ todo \in Seq(Item)
  BY <1>1, HeadTailProperties
<1>3. UpdateStock(t, item.product, item.qty)
  BY DEF Restore
<1>4. loc[t].lines = <<>>
  BY <1>1 DEF StockProgress, Reserving
<1>5. loc'[t].lines = <<>> /\ loc'[t].todo = next /\ pc'[t] = AfterRestore(t, todo)
  BY <1>1, <1>4 DEF Restore, Goto, Local
<1>6. ASSUME NEW p \in Product
      PROVE  tx'[t].delta[p] = Returning(t, p) - Quantity(todo, p) /\ Quantity(todo, p) \in Int
  <2>1. tx[t].delta[p] = Returning(t, p) - Quantity(loc[t].todo, p)
    BY <1>1, WrittenCases DEF StockProgress
  <2>2. Quantity(loc[t].todo, p) = Share(item, p) + Quantity(todo, p)
    <3>1. \A y \in Item : y.qty \in Int
      BY DEF Item
    <3> QED
      BY <1>1, <3>1, QuantityOfTail
  <2>3. tx'[t].delta[p] = tx[t].delta[p] + Share(item, p)
    <3>1. item.product \in Product /\ item.qty \in Int
      BY <1>2 DEF Item
    <3> HIDE DEF item
    <3> QED
      BY <1>3, <3>1, StockUpdated DEF Ledger, Share
  <2>4. Returning(t, p) \in Int /\ Quantity(todo, p) \in Int /\ Share(item, p) \in Int
    BY <1>2, CountedTypes, QuantityTypes DEF Ledger
  <2> HIDE DEF item, todo
  <2> QED
    BY <2>1, <2>2, <2>3, <2>4
<1> HIDE DEF todo
<1> QED
  BY <1>1, <1>5, <1>6, RestoredStock

LEMMA ReadProductStock ==
  ASSUME Ledger, NEW t \in Session, ReadProduct(t), StockProgress(t)
  PROVE  StockProgress(t)'
<1> DEFINE item == Head(loc[t].todo)
           x == [product |-> item.product, qty |-> item.qty, price |-> products[item.product].price]
<1>1. /\ pc[t] = "read" /\ UNCHANGED <<tx, req, orders>>
      /\ pc \in [Session -> Label] /\ loc \in [Session -> Local] /\ loc[t] \in Local
      /\ loc[t].lines \in Seq(Line) /\ pc'[t] = "reserve"
      /\ req[t].op # "cancel"
  BY DEF ReadProduct, Goto, tables, Ledger, Safe, TypeOK, Local, Known, PlacesMatch
<1>2. item \in Item
  BY <1>1, ItemsAreTyped DEF Ledger
<1>3. x \in Line
  BY <1>2 DEF Item, Line, Ledger, Safe, TypeOK, ProductRow
<1>4. loc'[t].lines = Append(loc[t].lines, x) /\ Head(loc'[t].todo) = item
  BY <1>1 DEF ReadProduct, Local
<1>5. ASSUME NEW p \in Product PROVE tx'[t].delta[p] = Written(t, p)'
  <2>1. tx[t].delta[p] = Returning(t, p) - Quantity(loc[t].lines, p)
    BY <1>1, WrittenCases DEF StockProgress
  <2>2. Quantity(loc'[t].lines, p) = Quantity(loc[t].lines, p) + Share(item, p)
    <3>1. \A y \in Line : y.qty \in Int
      BY DEF Line
    <3>2. Share(x, p) = Share(item, p)
      BY DEF Share
    <3> HIDE DEF x
    <3> QED
      BY <1>1, <1>3, <1>4, <3>1, <3>2, QuantityOfAppend
  <2>3. Written(t, p)' = Returning(t, p)' - Quantity(loc'[t].lines, p) + Share(item, p)
    BY <1>1, <1>4, WrittenCases
  <2>4. /\ Returning(t, p)' = Returning(t, p) /\ Returning(t, p) \in Int
        /\ Quantity(loc[t].lines, p) \in Int /\ Share(item, p) \in Int
    BY <1>1, <1>2, SameReturns, CountedTypes, QuantityTypes DEF Ledger
  <2> HIDE DEF item
  <2> QED
    BY <1>1, <2>1, <2>2, <2>3, <2>4
<1> QED
  BY <1>1, <1>5 DEF StockProgress, Reserving

LEMMA ReserveStock ==
  ASSUME Ledger, NEW t \in Session, Reserve(t), StockProgress(t)
  PROVE  StockProgress(t)'
<1> DEFINE item == Head(loc[t].todo)
<1>1. /\ pc[t] = "reserve" /\ UNCHANGED <<req, orders>>
      /\ pc \in [Session -> Label] /\ loc \in [Session -> Local] /\ loc[t] \in Local
      /\ req[t].op # "cancel"
  BY DEF Reserve, tables, Ledger, Safe, TypeOK, Known, PlacesMatch
<1>2. item \in Item
  BY <1>1, ItemsAreTyped DEF Ledger
<1>3. pc'[t] \in {"read", "promo", "write"} /\ loc'[t].lines = loc[t].lines
  BY <1>1, AfterItemLabel DEF Reserve, Goto, Local
<1>4. ASSUME NEW p \in Product PROVE tx'[t].delta[p] = Written(t, p)'
  <2>1. tx[t].delta[p] = Returning(t, p) - Quantity(loc[t].lines, p) + Share(item, p)
    BY <1>1, WrittenCases DEF StockProgress
  <2>2. tx'[t].delta[p] = tx[t].delta[p] - Share(item, p)
    <3>1. UpdateStock(t, item.product, -item.qty)
      BY DEF Reserve
    <3>2. item.product \in Product /\ -item.qty \in Int /\ item.qty \in Int
      BY <1>2 DEF Item
    <3>3. tx'[t].delta[p] = tx[t].delta[p] + (IF item.product = p THEN -item.qty ELSE 0)
      <4> HIDE DEF item
      <4> QED
        BY <3>1, <3>2, StockUpdated DEF Ledger
    <3> HIDE DEF item
    <3> QED
      BY <3>2, <3>3, CountedTypes DEF Share, Ledger
  <2>3. Written(t, p)' = Returning(t, p)' - Quantity(loc'[t].lines, p)
    BY <1>3, WrittenCases
  <2>4. /\ Returning(t, p)' = Returning(t, p) /\ Returning(t, p) \in Int
        /\ Quantity(loc[t].lines, p) \in Int /\ Share(item, p) \in Int
    BY <1>1, <1>2, SameReturns, CountedTypes, QuantityTypes DEF Ledger
  <2> HIDE DEF item
  <2> QED
    BY <1>3, <2>1, <2>2, <2>3, <2>4
<1> QED
  BY <1>1, <1>3, <1>4 DEF StockProgress, Reserving

LEMMA ReadPromoStock ==
  ASSUME Ledger, NEW t \in Session, ReadPromo(t), StockProgress(t)
  PROVE  StockProgress(t)'
<1>1. /\ pc[t] = "promo" /\ UNCHANGED <<tx, req, orders>> /\ pc'[t] = "write"
      /\ loc'[t].lines = loc[t].lines /\ req[t].op # "cancel"
  BY DEF ReadPromo, Goto, tables, Ledger, Safe, TypeOK, Local, Known, PlacesMatch
<1>2. ASSUME NEW p \in Product PROVE tx'[t].delta[p] = Written(t, p)'
  <2>1. Written(t, p) = Returning(t, p) - Quantity(loc[t].lines, p)
    BY <1>1, WrittenCases
  <2>2. Written(t, p)' = Returning(t, p)' - Quantity(loc'[t].lines, p)
    BY <1>1, WrittenCases
  <2> QED
    BY <1>1, <2>1, <2>2, SameReturns DEF StockProgress
<1> QED
  BY <1>1, <1>2 DEF StockProgress, Reserving

LEMMA TxStepStock ==
  ASSUME Ledger, Safe', NEW t \in Session, TxStep(t), StockProgress(t)
  PROVE  StockProgress(t)'
BY BeginTxStock, GetItemsStock, RestoreStock, ReadProductStock, ReserveStock, ReadPromoStock
   DEF TxStep
-----------------------------------------------------------------------------
(* The stock: every step. *)

\* Clients update open orders only, or none.
OnlyOpenUpdated == OnlyCreated \/ "update" \notin Ops

\* The handler of t leaves the others' state alone.
LEMMA OthersFrame ==
  ASSUME Safe, NEW t \in Session, Serve(t)
  PROVE  \A s \in Session \ {t} :
           pc'[s] = pc[s] /\ req'[s] = req[s] /\ loc'[s] = loc[s] /\ tx'[s] = tx[s]
<1>0. /\ pc \in [Session -> Label] /\ req \in [Session -> Request]
      /\ loc \in [Session -> Local] /\ tx \in [Session -> Transaction]
  BY DEF Safe, TypeOK
<1>1. CASE Refusal(t) \/ Commit(t)
  <2>1. Answer(t)
    BY <1>1, RefusalRefuses DEF Refuse, Commit, CommitCreate, CommitUpdate, CommitCancel
  <2> QED
    BY <1>0, <2>1 DEF Answer, Goto
<1>2. CASE Start(t)
  BY <1>0, <1>2 DEF Start, StartCreate, StartUpdate, StartCancel, Goto
<1>3. CASE CheckRateLimit(t) \/ GetActiveOrder(t) \/ Authorize(t) \/ LoadOrder(t)
  BY <1>0, <1>3 DEF CheckRateLimit, GetActiveOrder, Authorize, LoadOrder, Goto
<1>4. CASE TxStep(t)
  <2>1. Quiet(t) /\ UNCHANGED req
    BY <1>4, TxStepEffect
  <2>2. tx' = tx \/ \E r : tx' = [tx EXCEPT ![t] = r]
    BY <1>4 DEF TxStep, BeginTx, GetItems, Restore, ReadProduct, Reserve, ReadPromo, UpdateStock
  <2> QED
    BY <1>0, <2>1, <2>2 DEF Quiet
<1> QED
  BY <1>1, <1>2, <1>3, <1>4 DEF Serve, Advance, Refusal, Commit, TxStep

\* A handler that only starts, checks, loads or answers has written nothing.
LEMMA BeforeTxStock ==
  ASSUME Ledger, NEW t \in Session, StockProgress(t),
         \/ Start(t) \/ CheckRateLimit(t) \/ GetActiveOrder(t) \/ Authorize(t) \/ LoadOrder(t)
  PROVE  StockProgress(t)'
<1>1. /\ pc[t] \notin Reserving \cup {"restore"} /\ pc'[t] \notin Reserving \cup {"restore"}
      /\ tx' = tx /\ loc'[t].lines = loc[t].lines
  BY DEF Ledger, Safe, TypeOK, Local, Reserving, Start, StartCreate, StartUpdate, StartCancel,
         CheckRateLimit, GetActiveOrder, Authorize, LoadOrder, Goto
<1>2. \A p \in Product : tx'[t].delta[p] = Written(t, p)'
  BY <1>1, WrittenCases DEF StockProgress
<1> QED
  BY <1>1, <1>2 DEF StockProgress

LEMMA AnswerStock ==
  ASSUME Ledger, NEW t \in Session, Answer(t)
  PROVE  StockProgress(t)'
<1>1. pc'[t] = "idle" /\ loc'[t] = NoLoc /\ tx'[t] = NoTx
  BY DEF Answer, Goto, Ledger, Safe, TypeOK
<1>2. \A p \in Product : tx'[t].delta[p] = Written(t, p)'
  BY <1>1, WrittenCases DEF NoTx, Reserving
<1> QED
  BY <1>1, <1>2 DEF StockProgress, NoLoc

\* What a handler has written stays what its request calls for when others write.
LEMMA OthersStock ==
  ASSUME NoSharedChanges, Ledger, Safe', NEW t \in Session, Serve(t), NEW s \in Session \ {t},
         StockProgress(s)
  PROVE  StockProgress(s)'
<1>1. pc'[s] = pc[s] /\ req'[s] = req[s] /\ loc'[s] = loc[s] /\ tx'[s] = tx[s]
  BY OthersFrame DEF Ledger
<1>2. pc[s] \in Reserving \cup {"restore"} => \A p : Returning(s, p)' = Returning(s, p)
  <2>1. CASE ~Commit(t)
    BY <1>1, <2>1, OnlyCommitsWrite DEF tables, Returning
  <2>2. CASE Commit(t)
    <3> SUFFICES ASSUME pc[s] \in Reserving \cup {"restore"}
                 PROVE  \A p : Returning(s, p)' = Returning(s, p)
      OBVIOUS
    <3>1. req[s].op = "create" \/ (Changing(s) /\ pc[s] \in InTx)
      BY DataAssumption DEF Ledger, Known, PlacesMatch, Changing, InTx, TxSteps, Reserving
    <3>2. CASE req[s].op = "create"
      BY <1>1, <3>2 DEF Returning
    <3>3. CASE Changing(s) /\ pc[s] \in InTx
      <4>1. req[s].order # req[t].order
        BY <2>2, <3>3, OthersOrder
      <4>2. orders'[req[s].order] = orders[req[s].order]
        BY <2>2, <4>1, CommitWrites DEF Ledger, Safe, TypeOK, Request
      <4> QED
        BY <1>1, <4>2 DEF Returning
    <3> QED
      BY <3>1, <3>2, <3>3
  <2> QED
    BY <2>1, <2>2
<1>3. \A p \in Product : Written(s, p)' = Written(s, p)
  BY <1>1, <1>2, WrittenCases DEF Reserving
<1> QED
  BY <1>1, <1>3 DEF StockProgress

\* An order that is being updated stays open.
LEMMA ServeOpen ==
  ASSUME NoSharedChanges, OnlyOpenUpdated, Ledger, Ledger', NEW t \in Session, Serve(t),
         \A s \in Session : OpenKnown(s), NEW s \in Session
  PROVE  OpenKnown(s)'
<1> SUFFICES ASSUME pc'[s] # "idle", req'[s].op = "update",
                    orders'[req'[s].order].user = UserOf[s]
             PROVE  orders'[req'[s].order].status = "CREATED"
  BY DEF OpenKnown
<1>0. "update" \in Ops /\ OnlyCreated
  BY DEF Ledger, Known, PlacesMatch, OnlyOpenUpdated
<1>1. CASE s = t /\ Start(t)
  BY <1>0, <1>1 DEF Start, StartCreate, StartUpdate, StartCancel, tables, Ledger, Safe, TypeOK
<1>2. CASE ~(s = t /\ Start(t)) /\ ~Commit(t)
  <2>1. pc[s] # "idle" /\ req'[s] = req[s]
    <3>1. CASE s # t
      BY <3>1, OthersFrame DEF Ledger
    <3>2. CASE s = t /\ Refusal(t)
      BY <3>2, RefusalRefuses DEF Refuse, Answer, Goto, Ledger, Safe, TypeOK
    <3>3. CASE s = t /\ (CheckRateLimit(t) \/ GetActiveOrder(t) \/ Authorize(t) \/ LoadOrder(t))
      BY <3>3 DEF CheckRateLimit, GetActiveOrder, Authorize, LoadOrder
    <3>4. CASE s = t /\ TxStep(t)
      BY <3>4, TxStepEffect DEF Ledger, InTx, TxSteps
    <3> QED
      BY <1>2, <3>1, <3>2, <3>3, <3>4 DEF Serve, Advance, Refusal, Commit, TxStep
  <2> QED
    BY <1>2, <2>1, OnlyCommitsWrite DEF tables, OpenKnown
<1>3. CASE Commit(t)
  <2>1. /\ pc'[t] = "idle" /\ orders' = [orders EXCEPT ![req[t].order] = CommittedRow(t)]
        /\ req[t].order \in OrderId /\ orders \in [OrderId -> OrderRow]
    BY <1>3, CommitWrites DEF Ledger, Safe, TypeOK
  <2>2. s # t /\ pc[s] = pc'[s] /\ req[s] = req'[s] /\ req[s].order \in OrderId
    BY <2>1, OthersFrame DEF Ledger, Safe, TypeOK, Request
  <2>3. CASE req[s].order # req[t].order
    BY <2>1, <2>2, <2>3 DEF OpenKnown
  <2>4. CASE req[s].order = req[t].order
    <3>1. UserOf[t] = UserOf[s]
      BY <1>3, <2>1, <2>4, <2>2, OwnOrder
    <3> QED
      BY <1>0, <2>2, <3>1 DEF NoSharedChanges, OneSessionPerUser
  <2> QED
    BY <2>3, <2>4
<1> QED
  BY <1>1, <1>2, <1>3

\* A commit takes from the stock what its order holds more than before.
LEMMA CommitMoves ==
  ASSUME Ledger, NEW t \in Session, Commit(t), StockProgress(t), OpenKnown(t), NEW p \in Product
  PROVE  tx[t].delta[p] = HeldBy(orders[req[t].order], p) - HeldBy(CommittedRow(t), p)
<1>1. pc[t] = "write"
  BY DEF Commit, CommitCreate, CommitUpdate, CommitCancel
<1>2. /\ tx[t].delta[p] = Returning(t, p) - Quantity(loc[t].lines, p)
      /\ Quantity(loc[t].lines, p) \in Int
      /\ Quantity(orders[req[t].order].items, p) \in Int
  BY <1>1, WrittenCases, CountedTypes DEF StockProgress, Ledger
<1>3. CASE CommitCreate(t)
  BY <1>2, <1>3, CreatedRowIs DEF HeldBy, Returning, CommitCreate
<1>4. CASE CommitUpdate(t)
  <2>1. orders[req[t].order].status = "CREATED"
    BY <1>1, <1>4, UpdatedRowIs DEF OpenKnown, CommitUpdate
  <2> QED
    BY <1>2, <1>4, <2>1, UpdatedRowIs DEF HeldBy, Returning, CommitUpdate, Stands
<1>5. CASE CommitCancel(t)
  <2>1. Quantity(loc[t].lines, p) = 0
    BY <1>5, QuantityOfNone DEF StockProgress, CommitCancel
  <2> QED
    BY <1>2, <1>5, <2>1, CanceledRowIs DEF HeldBy, Returning, CommitCancel
<1> QED
  BY <1>3, <1>4, <1>5 DEF Commit

Stocked ==
  /\ Ledger
  /\ \A s \in Session : StockProgress(s) /\ OpenKnown(s)
  /\ StockConserved

LEMMA InitStocked == Init => Stocked
<1> SUFFICES ASSUME Init PROVE Stocked
  OBVIOUS
<1>1. ASSUME NEW s \in Session PROVE StockProgress(s) /\ OpenKnown(s)
  <2>1. pc[s] = "idle" /\ loc[s] = NoLoc /\ tx[s] = NoTx
    BY DEF Init
  <2>2. \A p \in Product : tx[s].delta[p] = Written(s, p)
    BY <2>1, WrittenCases DEF Reserving, NoTx
  <2> QED
    BY <2>1, <2>2 DEF StockProgress, OpenKnown, NoLoc
<1>2. ASSUME NEW p \in Product PROVE products[p].stock + Held(p) = InitialProduct[p].stock
  <2>1. Standing = {}
    BY DEF Init, Standing, NoRow
  <2>2. Held(p) = 0
    BY <2>1, SumEmpty DEF Held
  <2> QED
    BY <2>2, DataAssumption DEF Init, ProductRow
<1> QED
  BY <1>1, <1>2, InitLedger DEF Stocked, StockConserved

LEMMA CommitStocked ==
  ASSUME Stocked, Safe', NEW t \in Session, Commit(t)
  PROVE  StockConserved'
<1> DEFINE old == orders[req[t].order]
           row == CommittedRow(t)
<1>1. /\ orders' = [orders EXCEPT ![req[t].order] = row] /\ ApplyStock(t)
      /\ req[t].order \in OrderId /\ row \in OrderRow /\ orders \in [OrderId -> OrderRow]
  BY CommitWrites DEF Stocked, Ledger, Safe, TypeOK
<1>2. IsFiniteSet(StandingIn(orders))
  BY HeldNow DEF Stocked, Ledger
<1>3. ASSUME NEW p \in Product PROVE products'[p].stock + HeldIn(orders', p) = InitialProduct[p].stock
  <2>1. tx[t].delta[p] = HeldBy(old, p) - HeldBy(row, p)
    BY CommitMoves DEF Stocked
  <2>2. /\ HeldIn(orders', p) = HeldIn(orders, p) - HeldBy(old, p) + HeldBy(row, p)
        /\ HeldIn(orders, p) \in Int /\ HeldBy(old, p) \in Int /\ HeldBy(row, p) \in Int
    <3> HIDE DEF row
    <3> QED
      BY <1>1, <1>2, HeldWritten
  <2>3. products[p] \in ProductRow /\ products[p].stock \in Int
    BY DEF Stocked, Ledger, Safe, TypeOK, ProductRow
  <2>4. products'[p].stock = products[p].stock + tx[t].delta[p]
    BY <1>1, <2>3 DEF ApplyStock, ProductRow
  <2>5. products[p].stock + HeldIn(orders, p) = InitialProduct[p].stock
    BY HeldNow DEF Stocked, StockConserved
  <2> HIDE DEF old, row
  <2> QED
    BY <2>1, <2>2, <2>3, <2>4, <2>5
<1> QED
  BY <1>3, HeldNow DEF StockConserved

LEMMA ServeStocked ==
  ASSUME NoSharedChanges, OnlyOpenUpdated, Stocked, Ledger', NEW t \in Session, Serve(t)
  PROVE  Stocked'
<1>0. Safe' /\ Ledger
  BY DEF Stocked, Ledger
<1>1. StockProgress(t)'
  <2>1. CASE Refusal(t) \/ Commit(t)
    <3>1. Answer(t)
      BY <2>1, RefusalRefuses DEF Refuse, Commit, CommitCreate, CommitUpdate, CommitCancel
    <3> QED
      BY <1>0, <3>1, AnswerStock
  <2>2. CASE Start(t) \/ CheckRateLimit(t) \/ GetActiveOrder(t) \/ Authorize(t) \/ LoadOrder(t)
    BY <1>0, <2>2, BeforeTxStock DEF Stocked
  <2>3. CASE TxStep(t)
    BY <1>0, <2>3, TxStepStock DEF Stocked
  <2> QED
    BY <2>1, <2>2, <2>3 DEF Serve, Advance, Refusal, Commit, TxStep
<1>2. \A s \in Session : StockProgress(s)'
  BY <1>0, <1>1, OthersStock DEF Stocked
<1>3. \A s \in Session : OpenKnown(s)'
  BY <1>0, ServeOpen DEF Stocked
<1>4. StockConserved'
  <2>1. CASE Commit(t)
    BY <1>0, <2>1, CommitStocked
  <2>2. CASE ~Commit(t)
    BY <2>2, OnlyCommitsWrite DEF tables, Stocked, StockConserved, Held, Standing
  <2> QED
    BY <2>1, <2>2
<1> QED
  BY <1>2, <1>3, <1>4 DEF Stocked

LEMMA NextStocked ==
  ASSUME NoSharedChanges, OnlyOpenUpdated
  PROVE  Stocked /\ [Next]_vars => Stocked'
<1> SUFFICES ASSUME Stocked, [Next]_vars PROVE Stocked'
  OBVIOUS
<1>1. Ledger'
  BY NextLedger DEF Stocked
<1>2. CASE UNCHANGED <<products, orders, pc, req, loc, tx>>
  BY <1>1, <1>2 DEF Stocked, StockProgress, Written, Returning, OpenKnown, StockConserved, Held,
                    Standing
<1>3. CASE Crash
  <2>1. UNCHANGED <<products, orders>>
    BY <1>3 DEF Crash, tables
  <2>2. ASSUME NEW s \in Session PROVE StockProgress(s)' /\ OpenKnown(s)'
    <3>1. pc'[s] = "idle" /\ loc'[s] = NoLoc /\ tx'[s] = NoTx
      BY <1>3 DEF Crash
    <3>2. \A p \in Product : tx'[s].delta[p] = Written(s, p)'
      BY <3>1, WrittenCases DEF Reserving, NoTx
    <3> QED
      BY <3>1, <3>2 DEF StockProgress, OpenKnown, NoLoc
  <2> QED
    BY <1>1, <2>1, <2>2 DEF Stocked, StockConserved, Held, Standing
<1> QED
  BY <1>1, <1>2, <1>3, ServeStocked DEF Next, vars, Tick, tables

\* Stock is neither created nor lost: what is left of a product and what the
\* standing orders hold of it always add up to what there was, through every
\* interleaving of reservations, restorations, refusals, deadlocks and crashes,
\* when no order is changed by two requests at once and only open orders are
\* updated.
THEOREM StockIsConserved ==
  ASSUME NoSharedChanges, OnlyOpenUpdated
  PROVE  Spec => []StockConserved
<1>1. Stocked /\ [Next]_vars => Stocked'
  BY NextStocked
<1>2. Stocked => StockConserved
  BY DEF Stocked
<1> QED
  BY <1>1, <1>2, InitStocked, PTL DEF Spec
-----------------------------------------------------------------------------
(* The order book: what each handler has of the items it was asked for.      *)

\* What has its price but is not reserved yet.
InHand(s, p) == IF pc[s] = "reserve" THEN Share(Head(loc[s].todo), p) ELSE 0

\* The lines made so far and the items still to reserve are those of the request.
ListProgress(s) ==
  /\ pc[s] \in {"promo", "write"} => loc[s].todo = <<>>
  /\ pc[s] \in Reserving /\ req[s].op # "cancel" =>
       \A p \in Product :
         Quantity(loc[s].lines, p) + Quantity(loc[s].todo, p)
           = Quantity(req[s].items, p) + InHand(s, p)

Asked(s) == pc[s] # "idle" /\ req[s].op # "cancel" => req[s].items \in ItemLists

LEMMA InHandCases ==
  /\ \A s, p : InHand(s, p) = IF pc[s] = "reserve" THEN Share(Head(loc[s].todo), p) ELSE 0
  /\ \A s, p : InHand(s, p)' = IF pc'[s] = "reserve" THEN Share(Head(loc'[s].todo), p) ELSE 0
BY DEF InHand

\* The first of the new items is next, or there is none.
LEMMA ListBegins ==
  ASSUME Ledger, NEW t \in Session, UNCHANGED req,
         loc'[t].lines = <<>>, loc'[t].todo = req[t].items,
         pc'[t] = AfterItem(t, req[t].items)
  PROVE  ListProgress(t)'
<1>1. /\ pc'[t] \in {"read", "promo", "write"}
      /\ pc'[t] \in {"promo", "write"} => loc'[t].todo = <<>>
  BY DEF AfterItem
<1>2. ASSUME NEW p \in Product
      PROVE  Quantity(loc'[t].lines, p) + Quantity(loc'[t].todo, p)
               = Quantity(req'[t].items, p) + InHand(t, p)'
  <2>1. InHand(t, p)' = 0
    BY <1>1, InHandCases
  <2>2. Quantity(loc'[t].lines, p) = 0
    BY QuantityOfNone
  <2>3. Quantity(req[t].items, p) \in Int
    BY QuantityTypes, CountedTypes DEF Ledger
  <2> QED
    BY <2>1, <2>2, <2>3
<1> QED
  BY <1>1, <1>2 DEF ListProgress

\* A cancellation makes no line.
LEMMA NoList ==
  ASSUME NEW t \in Session,
         pc'[t] \notin Reserving \/ (req'[t].op = "cancel" /\ loc'[t].todo = <<>>)
  PROVE  ListProgress(t)'
BY DEF ListProgress, Reserving

LEMMA RestoredList ==
  ASSUME Ledger, NEW t \in Session, UNCHANGED req, loc'[t].lines = <<>>, NEW todo,
         req[t].op \in {"update", "cancel"},
         loc'[t].todo = IF todo = <<>> /\ req[t].op = "update" THEN req[t].items ELSE todo,
         pc'[t] = AfterRestore(t, todo)
  PROVE  ListProgress(t)'
<1>1. CASE todo # <<>>
  BY <1>1, NoList DEF AfterRestore, Reserving
<1>2. CASE todo = <<>> /\ req[t].op = "update"
  BY <1>2, ListBegins DEF AfterRestore
<1>3. CASE todo = <<>> /\ req[t].op = "cancel"
  BY <1>3, NoList
<1> QED
  BY <1>1, <1>2, <1>3

LEMMA BeginTxList ==
  ASSUME Ledger, NEW t \in Session, StockProgress(t), BeginTx(t)
  PROVE  ListProgress(t)'
<1>1. /\ pc[t] = "begin" /\ UNCHANGED req
      /\ pc \in [Session -> Label] /\ loc \in [Session -> Local] /\ loc[t] \in Local
  BY DEF BeginTx, Ledger, Safe, TypeOK
<1>2. CASE req[t].op = "create"
  <2>1. loc'[t].lines = <<>> /\ loc'[t].todo = req[t].items /\ pc'[t] = AfterItem(t, req[t].items)
    BY <1>1, <1>2 DEF BeginTx, Goto, Local, StockProgress, Reserving
  <2> QED
    BY <1>1, <2>1, ListBegins
<1>3. CASE req[t].op # "create"
  BY <1>1, <1>3, NoList DEF BeginTx, Goto, Reserving
<1> QED
  BY <1>2, <1>3
LEMMA GetItemsList ==
  ASSUME Ledger, NEW t \in Session, StockProgress(t), GetItems(t)
  PROVE  ListProgress(t)'
<1>1. /\ pc[t] = "items" /\ UNCHANGED req
      /\ pc \in [Session -> Label] /\ loc \in [Session -> Local] /\ loc[t] \in Local
      /\ req[t].op \in {"update", "cancel"}
  BY DataAssumption DEF GetItems, Ledger, Safe, TypeOK, Known, PlacesMatch
<1>2. PICK todo :
        /\ loc' = [loc EXCEPT ![t].todo =
                     IF todo = <<>> /\ req[t].op = "update" THEN req[t].items ELSE todo]
        /\ Goto(t, AfterRestore(t, todo))
  BY DEF GetItems
<1>3. /\ loc'[t].lines = <<>>
      /\ loc'[t].todo = IF todo = <<>> /\ req[t].op = "update" THEN req[t].items ELSE todo
      /\ pc'[t] = AfterRestore(t, todo)
  BY <1>1, <1>2 DEF Goto, Local, StockProgress, Reserving
<1> QED
  BY <1>1, <1>3, RestoredList

LEMMA RestoreList ==
  ASSUME Ledger, NEW t \in Session, StockProgress(t), Restore(t)
  PROVE  ListProgress(t)'
<1> DEFINE todo == Tail(loc[t].todo)
<1>1. /\ pc[t] = "restore" /\ UNCHANGED req
      /\ pc \in [Session -> Label] /\ loc \in [Session -> Local] /\ loc[t] \in Local
      /\ req[t].op \in {"update", "cancel"}
  BY DataAssumption DEF Restore, Ledger, Safe, TypeOK, Known, PlacesMatch
<1>2. /\ loc'[t].lines = <<>>
      /\ loc'[t].todo = IF todo = <<>> /\ req[t].op = "update" THEN req[t].items ELSE todo
      /\ pc'[t] = AfterRestore(t, todo)
  BY <1>1 DEF Restore, Goto, Local, StockProgress, Reserving
<1> HIDE DEF todo
<1> QED
  BY <1>1, <1>2, RestoredList

LEMMA ReadProductList ==
  ASSUME Ledger, NEW t \in Session, ListProgress(t), ReadProduct(t)
  PROVE  ListProgress(t)'
<1> DEFINE item == Head(loc[t].todo)
           x == [product |-> item.product, qty |-> item.qty, price |-> products[item.product].price]
<1>1. /\ pc[t] = "read" /\ UNCHANGED req
      /\ pc \in [Session -> Label] /\ loc \in [Session -> Local] /\ loc[t] \in Local
      /\ loc[t].lines \in Seq(Line) /\ pc'[t] = "reserve"
      /\ req[t].op # "cancel"
  BY DEF ReadProduct, Goto, Ledger, Safe, TypeOK, Local, Known, PlacesMatch
<1>2. item \in Item
  BY <1>1, ItemsAreTyped DEF Ledger
<1>3. x \in Line
  BY <1>2 DEF Item, Line, Ledger, Safe, TypeOK, ProductRow
<1>4. loc'[t].lines = Append(loc[t].lines, x) /\ loc'[t].todo = loc[t].todo
  BY <1>1 DEF ReadProduct, Local
<1>5. ASSUME NEW p \in Product
      PROVE  Quantity(loc'[t].lines, p) + Quantity(loc'[t].todo, p)
               = Quantity(req'[t].items, p) + InHand(t, p)'
  <2>1. Quantity(loc[t].lines, p) + Quantity(loc[t].todo, p)
          = Quantity(req[t].items, p) + InHand(t, p)
    BY <1>1 DEF ListProgress, Reserving
  <2>2. Quantity(loc'[t].lines, p) = Quantity(loc[t].lines, p) + Share(item, p)
    <3>1. \A y \in Line : y.qty \in Int
      BY DEF Line
    <3>2. Share(x, p) = Share(item, p)
      BY DEF Share
    <3> HIDE DEF x
    <3> QED
      BY <1>1, <1>3, <1>4, <3>1, <3>2, QuantityOfAppend
  <2>3. InHand(t, p) = 0 /\ InHand(t, p)' = Share(item, p)
    BY <1>1, <1>4, InHandCases
  <2>4. /\ Quantity(req[t].items, p) \in Int /\ Quantity(loc[t].todo, p) \in Int
        /\ Quantity(loc[t].lines, p) \in Int /\ Share(item, p) \in Int
    BY <1>2, CountedTypes, QuantityTypes DEF Ledger
  <2> HIDE DEF item
  <2> QED
    BY <1>1, <1>4, <2>1, <2>2, <2>3, <2>4
<1> QED
  BY <1>1, <1>5 DEF ListProgress

LEMMA ReserveList ==
  ASSUME Ledger, NEW t \in Session, ListProgress(t), Reserve(t)
  PROVE  ListProgress(t)'
<1> DEFINE item == Head(loc[t].todo)
           rest == Tail(loc[t].todo)
<1>1. /\ pc[t] = "reserve" /\ UNCHANGED req
      /\ pc \in [Session -> Label] /\ loc \in [Session -> Local] /\ loc[t] \in Local
      /\ req[t].op # "cancel"
      /\ loc[t].todo # <<>> /\ loc[t].todo \in Seq(Item)
  BY DEF Reserve, Ledger, Safe, TypeOK, Known, PlacesMatch, StepsDefined, Local
<1>2. item \in Item /\ rest \in Seq(Item)
  BY <1>1, HeadTailProperties
<1>3. loc'[t].lines = loc[t].lines /\ loc'[t].todo = rest /\ pc'[t] = AfterItem(t, rest)
  BY <1>1 DEF Reserve, Goto, Local
<1>4. /\ pc'[t] \in {"read", "promo", "write"}
      /\ pc'[t] \in {"promo", "write"} => loc'[t].todo = <<>>
  BY <1>3 DEF AfterItem
<1>5. ASSUME NEW p \in Product
      PROVE  Quantity(loc'[t].lines, p) + Quantity(loc'[t].todo, p)
               = Quantity(req'[t].items, p) + InHand(t, p)'
  <2>1. Quantity(loc[t].lines, p) + Quantity(loc[t].todo, p)
          = Quantity(req[t].items, p) + InHand(t, p)
    BY <1>1 DEF ListProgress, Reserving
  <2>2. Quantity(loc[t].todo, p) = Share(item, p) + Quantity(rest, p)
    <3>1. \A y \in Item : y.qty \in Int
      BY DEF Item
    <3> QED
      BY <1>1, <3>1, QuantityOfTail
  <2>3. InHand(t, p) = Share(item, p) /\ InHand(t, p)' = 0
    BY <1>1, <1>4, InHandCases
  <2>4. /\ Quantity(req[t].items, p) \in Int /\ Quantity(rest, p) \in Int
        /\ Quantity(loc[t].lines, p) \in Int /\ Share(item, p) \in Int
    BY <1>2, CountedTypes, QuantityTypes DEF Ledger
  <2> HIDE DEF item, rest
  <2> QED
    BY <1>1, <1>3, <2>1, <2>2, <2>3, <2>4
<1> QED
  BY <1>4, <1>5 DEF ListProgress

LEMMA ReadPromoList ==
  ASSUME Ledger, NEW t \in Session, ListProgress(t), ReadPromo(t)
  PROVE  ListProgress(t)'
<1>1. /\ pc[t] = "promo" /\ pc'[t] = "write" /\ UNCHANGED req /\ req[t].op # "cancel"
      /\ loc'[t].lines = loc[t].lines /\ loc'[t].todo = loc[t].todo
  BY DEF ReadPromo, Goto, Ledger, Safe, TypeOK, Local, Known, PlacesMatch
<1>2. \A p : InHand(t, p)' = InHand(t, p)
  BY <1>1, InHandCases
<1> QED
  BY <1>1, <1>2 DEF ListProgress, Reserving

LEMMA TxStepList ==
  ASSUME Ledger, NEW t \in Session, StockProgress(t), ListProgress(t), TxStep(t)
  PROVE  ListProgress(t)'
BY BeginTxList, GetItemsList, RestoreList, ReadProductList, ReserveList, ReadPromoList
   DEF TxStep

\* Every step of a handler.
LEMMA ServeList ==
  ASSUME Ledger, NEW t \in Session, Serve(t),
         \A s \in Session : StockProgress(s) /\ ListProgress(s) /\ Asked(s)
  PROVE  \A s \in Session : ListProgress(s)' /\ Asked(s)'
<1>0. /\ pc \in [Session -> Label] /\ req \in [Session -> Request]
      /\ loc \in [Session -> Local] /\ loc[t] \in Local
  BY DEF Ledger, Safe, TypeOK
<1>1. ASSUME NEW s \in Session \ {t} PROVE ListProgress(s)' /\ Asked(s)'
  <2>1. pc'[s] = pc[s] /\ req'[s] = req[s] /\ loc'[s] = loc[s]
    BY OthersFrame DEF Ledger
  <2>2. \A p : InHand(s, p)' = InHand(s, p)
    BY <2>1, InHandCases
  <2> QED
    BY <2>1, <2>2 DEF ListProgress, Asked
<1>2. CASE Refusal(t) \/ Commit(t)
  <2>1. Answer(t)
    BY <1>2, RefusalRefuses DEF Refuse, Commit, CommitCreate, CommitUpdate, CommitCancel
  <2>2. pc'[t] = "idle"
    BY <1>0, <2>1 DEF Answer, Goto
  <2> QED
    BY <1>1, <2>2, NoList DEF Asked, Reserving
<1>3. CASE Start(t)
  <2>1. pc'[t] \in {"rate", "authorize"} /\ (req'[t].op = "cancel" \/ req'[t].items \in ItemLists)
    BY <1>0, <1>3 DEF Start, StartCreate, StartUpdate, StartCancel, Goto
  <2> QED
    BY <1>1, <2>1, NoList DEF Asked, Reserving
<1>4. CASE CheckRateLimit(t) \/ GetActiveOrder(t) \/ Authorize(t) \/ LoadOrder(t)
  <2>1. pc[t] # "idle" /\ pc'[t] \in {"active", "load", "begin"} /\ UNCHANGED req
    BY <1>0, <1>4 DEF CheckRateLimit, GetActiveOrder, Authorize, LoadOrder, Goto
  <2> QED
    BY <1>1, <2>1, NoList DEF Asked, Reserving
<1>5. CASE TxStep(t)
  <2>1. pc[t] # "idle" /\ UNCHANGED req
    BY <1>5, TxStepEffect DEF Ledger, InTx, TxSteps
  <2> QED
    BY <1>1, <1>5, <2>1, TxStepList DEF Asked
<1> QED
  BY <1>2, <1>3, <1>4, <1>5 DEF Serve, Advance, Refusal, Commit, TxStep
-----------------------------------------------------------------------------
(* The order book: each commit is one of its steps. *)

\* No order is paid or shipped by this service, and nobody edits the codes.
StatusReached == \A o \in OrderId : orders[o].status \in {"ABSENT", "CREATED", "CANCELED"}
LimitsFixed == \A c \in Promo : promos[c].maxUses = InitialPromo[c].maxUses

Bookable ==
  /\ Serial
  /\ Stocked
  /\ Uses
  /\ \A s \in Session : ListProgress(s) /\ Asked(s)
  /\ StatusReached
  /\ LimitsFixed

LEMMA BookableTypes ==
  ASSUME Bookable
  PROVE  /\ Safe /\ Ledger
         /\ products \in [Product -> ProductRow] /\ promos \in [Promo -> PromoRow]
         /\ orders \in [OrderId -> OrderRow]
         /\ \A s \in Session : req[s].order \in OrderId /\ req[s].promo \in PromoCodeOpt
BY DEF Bookable, Serial, Safe, TypeOK, Uses, Request

\* The entry of the book for a row of orders.
DemandOf(lines) == [p \in Product |-> Quantity(lines, p)]

EntryOf(row) ==
  IF row.status = "ABSENT" THEN [life |-> "absent"]
  ELSE [life |-> IF Stands(row) THEN "standing" ELSE "canceled",
        user |-> row.user, promo |-> row.promo, demand |-> DemandOf(row.items)]

TheBook(b) ==
  [o \in OrderId |->
     IF b[o].status = "ABSENT" THEN [life |-> "absent"]
     ELSE [life |-> IF o \in StandingIn(b) THEN "standing" ELSE "canceled",
           user |-> b[o].user, promo |-> b[o].promo,
           demand |-> [p \in Product |-> Quantity(b[o].items, p)]]]

LEMMA BookEntries ==
  /\ \A b : TheBook(b) = [o \in OrderId |-> EntryOf(b[o])]
  /\ \A b : \A o \in OrderId : TheBook(b)[o] = EntryOf(b[o])
BY DEF TheBook, EntryOf, DemandOf, StandingIn

\* Writing one row of orders writes one entry of the book.
LEMMA EntryWritten ==
  ASSUME NEW b \in [OrderId -> OrderRow], NEW o \in OrderId, NEW row
  PROVE  TheBook([b EXCEPT ![o] = row]) = [TheBook(b) EXCEPT ![o] = EntryOf(row)]
BY BookEntries

\* The statuses make a row's place in the book plain.
LEMMA EntryCases ==
  ASSUME NEW row
  PROVE  /\ row.status = "ABSENT" => EntryOf(row).life = "absent"
         /\ row.status = "CREATED" =>
              EntryOf(row) = [life |-> "standing", user |-> row.user, promo |-> row.promo,
                              demand |-> DemandOf(row.items)]
         /\ row.status = "CANCELED" =>
              EntryOf(row) = [life |-> "canceled", user |-> row.user, promo |-> row.promo,
                              demand |-> DemandOf(row.items)]
         /\ EntryOf(row).life = "standing" => Stands(row) /\ EntryOf(row).user = row.user
BY DEF EntryOf, Stands

\* The book's variables, in terms of the tables.
StockNow == [p \in Product |-> products[p].stock]
UsesNow == [c \in Promo |-> promos[c].uses]
BookNow == TheBook(orders)

LEMMA BookNowIs ==
  [o \in OrderId |->
     IF orders[o].status = "ABSENT" THEN [life |-> "absent"]
     ELSE [life |-> IF o \in Standing THEN "standing" ELSE "canceled",
           user |-> orders[o].user, promo |-> orders[o].promo,
           demand |-> [p \in Product |-> Quantity(orders[o].items, p)]]] = BookNow
BY HeldNow DEF BookNow, TheBook

LEMMA BookNextIs ==
  [o \in OrderId |->
     IF orders'[o].status = "ABSENT" THEN [life |-> "absent"]
     ELSE [life |-> IF o \in Standing' THEN "standing" ELSE "canceled",
           user |-> orders'[o].user, promo |-> orders'[o].promo,
           demand |-> [p \in Product |-> Quantity(orders'[o].items, p)]]] = BookNow'
BY HeldNow DEF BookNow, TheBook

LEMMA NowFunctions ==
  /\ StockNow' = [p \in Product |-> StockNow'[p]]
  /\ UsesNow' = [c \in Promo |-> UsesNow'[c]]
BY DEF StockNow, UsesNow

\* What a commit does to the book's variables.
LEMMA CommitBooks ==
  ASSUME Bookable, Safe', NEW t \in Session, Commit(t)
  PROVE  LET o   == req[t].order
             old == orders[o]
             row == CommittedRow(t)
         IN  /\ o \in OrderId /\ BookNow[o] = EntryOf(old)
             /\ BookNow' = [BookNow EXCEPT ![o] = EntryOf(row)]
             /\ \A p \in Product :
                  /\ StockNow[p] = products[p].stock /\ StockNow[p] \in Int
                  /\ StockNow'[p] = StockNow[p] + HeldBy(old, p) - HeldBy(row, p)
                  /\ StockNow'[p] >= 0
                  /\ HeldBy(old, p) \in Int /\ HeldBy(row, p) \in Int
             /\ \A c \in Promo :
                  /\ UsesNow[c] = promos[c].uses /\ UsesNow[c] \in Int
                  /\ UsesNow'[c] = UsesNow[c] - UseBy(old, c) + UseBy(row, c)
                  /\ promos'[c].maxUses = promos[c].maxUses
<1> DEFINE o == req[t].order
           old == orders[o]
           row == CommittedRow(t)
<1>1. /\ Ledger /\ Safe /\ StockProgress(t) /\ OpenKnown(t)
      /\ products \in [Product -> ProductRow] /\ products' \in [Product -> ProductRow]
      /\ promos \in [Promo -> PromoRow] /\ promos' \in [Promo -> PromoRow]
      /\ orders \in [OrderId -> OrderRow]
  BY BookableTypes DEF Bookable, Stocked, Safe, TypeOK
<1>2. /\ o \in OrderId /\ row \in OrderRow /\ old \in OrderRow
      /\ orders' = [orders EXCEPT ![o] = row] /\ ApplyStock(t)
  BY <1>1, CommitWrites
<1>3. BookNow[o] = EntryOf(old) /\ BookNow' = [BookNow EXCEPT ![o] = EntryOf(row)]
  <2> HIDE DEF row
  <2> QED
    BY <1>1, <1>2, EntryWritten, BookEntries DEF BookNow
<1>4. ASSUME NEW p \in Product
      PROVE  /\ StockNow[p] = products[p].stock /\ StockNow[p] \in Int
             /\ StockNow'[p] = StockNow[p] + HeldBy(old, p) - HeldBy(row, p)
             /\ StockNow'[p] >= 0
             /\ HeldBy(old, p) \in Int /\ HeldBy(row, p) \in Int
  <2>1. HeldBy(old, p) \in Int /\ HeldBy(row, p) \in Int
    <3> HIDE DEF row
    <3> QED
      BY <1>2, StoredQuantity DEF HeldBy
  <2>2. tx[t].delta[p] = HeldBy(old, p) - HeldBy(row, p)
    BY <1>1, CommitMoves
  <2>3. /\ StockNow[p] = products[p].stock /\ products[p].stock \in Nat
        /\ StockNow'[p] = products'[p].stock /\ products'[p].stock \in Nat
    BY <1>1 DEF StockNow, ProductRow
  <2>4. products'[p].stock = products[p].stock + tx[t].delta[p]
    BY <1>1, <1>2 DEF ApplyStock, ProductRow
  <2> HIDE DEF old, row
  <2> QED
    BY <2>1, <2>2, <2>3, <2>4
<1>5. ASSUME NEW c \in Promo
      PROVE  /\ UsesNow[c] = promos[c].uses /\ UsesNow[c] \in Int
             /\ UsesNow'[c] = UsesNow[c] - UseBy(old, c) + UseBy(row, c)
             /\ promos'[c].maxUses = promos[c].maxUses
  <2>1. promos[c].uses >= UseBy(old, c)
    <3>1. /\ Cardinality(CarriersIn(orders, c)) >= UseBy(old, c)
          /\ Cardinality(CarriersIn(orders, c)) \in Nat /\ UseBy(old, c) \in {0, 1}
      BY <1>1, CommitCarriers
    <3>2. /\ promos[c].uses = InitialPromo[c].uses + Cardinality(CarriersIn(orders, c))
          /\ InitialPromo[c].uses \in Nat
      BY DataAssumption DEF Bookable, Uses, UsesExact, PromoRow
    <3> HIDE DEF old
    <3> QED
      BY <3>1, <3>2
  <2>2. /\ promos'[c].uses = promos[c].uses - UseBy(old, c) + UseBy(row, c)
        /\ promos'[c].maxUses = promos[c].maxUses
    BY <1>1, <2>1, CommitCodes
  <2> QED
    BY <1>1, <2>2 DEF UsesNow, PromoRow
<1> QED
  BY <1>2, <1>3, <1>4, <1>5

\* The lines a handler writes are those of its request.
LEMMA LinesAsked ==
  ASSUME Bookable, NEW t \in Session, pc[t] = "write", req[t].op \in {"create", "update"}
  PROVE  /\ req[t].items \in ItemLists
         /\ DemandOf(loc[t].lines) = DemandOf(req[t].items)
<1>1. req[t].items \in ItemLists /\ ListProgress(t) /\ Ledger
  BY BookableTypes DEF Bookable, Asked
<1>2. ASSUME NEW p \in Product PROVE Quantity(loc[t].lines, p) = Quantity(req[t].items, p)
  <2>1. Quantity(loc[t].lines, p) + Quantity(loc[t].todo, p)
          = Quantity(req[t].items, p) + InHand(t, p)
    BY <1>1 DEF ListProgress, Reserving
  <2>2. Quantity(loc[t].todo, p) = 0 /\ InHand(t, p) = 0
    BY <1>1, InHandCases, QuantityOfNone DEF ListProgress
  <2>3. Quantity(loc[t].lines, p) \in Int /\ Quantity(req[t].items, p) \in Int
    BY <1>1, CountedTypes, QuantityTypes DEF Ledger
  <2> QED
    BY <2>1, <2>2, <2>3
<1> QED
  BY <1>1, <1>2 DEF DemandOf

\* The commit of each request is the book's step for it.
LEMMA CreatePlaces ==
  ASSUME Bookable, Safe', NEW t \in Session, CommitCreate(t),
         NEW o, o = req[t].order, NEW c, c = req[t].promo, NEW d, d = DemandOf(req[t].items)
  PROVE  Book!Place(o, UserOf[t], c, d)
<1> DEFINE row == CommittedRow(t)
<1>1. /\ Ledger /\ Commit(t) /\ pc[t] = "write" /\ req[t].op = "create"
      /\ UsesCheck(c) /\ c \in PromoCodeOpt
  BY BookableTypes DEF Commit, CommitCreate, CreateAccepted
<1>2. /\ Creating(t) /\ ~Stands(orders[o]) /\ Stands(row)
      /\ row.status = "CREATED" /\ row.user = UserOf[t]
      /\ row.promo = c /\ row.items = loc[t].lines
  BY <1>1, CreatedRowIs
<1>3. EntryOf(row) = [life |-> "standing", user |-> UserOf[t], promo |-> c, demand |-> d]
  BY <1>1, <1>2, EntryCases, LinesAsked
<1>4. BookNow[o].life = "absent" /\ BookNow' = [BookNow EXCEPT ![o] = EntryOf(row)]
  <2>1. orders[o].status = "ABSENT"
    BY <1>1, <1>2 DEF Ledger, Known, OrderKnown
  <2> QED
    BY <1>1, <2>1, CommitBooks, EntryCases
<1>5. ASSUME NEW k \in OrderId, BookNow[k].life = "standing" PROVE BookNow[k].user # UserOf[t]
  <2>1. BookNow[k] = EntryOf(orders[k])
    BY BookEntries DEF BookNow
  <2>2. Stands(orders[k]) /\ BookNow[k].user = orders[k].user
    BY <1>5, <2>1, EntryCases
  <2>3. orders[k].status \in ActiveStatus
    BY <2>2 DEF Bookable, StatusReached, Stands, ActiveStatus
  <2>4. ~HasActiveOrder(UserOf[t])
    BY <1>1, <1>2 DEF Bookable, Serial, SessionChecked, CreateChecked, InTx, TxSteps
  <2> QED
    BY <2>2, <2>3, <2>4 DEF HasActiveOrder
<1>6. ASSUME NEW p \in Product PROVE StockNow'[p] = StockNow[p] - d[p] /\ StockNow'[p] >= 0
  <2>1. HeldBy(orders[o], p) = 0 /\ HeldBy(row, p) = d[p]
    BY <1>1, <1>2, LinesAsked DEF HeldBy, DemandOf
  <2>2. /\ StockNow'[p] = StockNow[p] + HeldBy(orders[o], p) - HeldBy(row, p)
        /\ StockNow'[p] >= 0 /\ StockNow[p] \in Int /\ HeldBy(row, p) \in Int
    BY <1>1, CommitBooks
  <2> HIDE DEF row
  <2> QED
    BY <2>1, <2>2
<1>7. ASSUME NEW k \in Promo PROVE UsesNow'[k] = UsesNow[k] + (IF k = c THEN 1 ELSE 0)
  <2>1. UseBy(orders[o], k) = 0 /\ UseBy(row, k) = IF k = c THEN 1 ELSE 0
    BY <1>2 DEF UseBy
  <2>2. /\ UsesNow'[k] = UsesNow[k] - UseBy(orders[o], k) + UseBy(row, k)
        /\ UsesNow[k] \in Int
    BY <1>1, CommitBooks
  <2> HIDE DEF row
  <2> QED
    BY <2>1, <2>2
<1>8. c # NoPromo => c \in Promo /\ UsesNow[c] < InitialPromo[c].maxUses
  BY <1>1 DEF UsesCheck, PromoCodeOpt, UsesNow, Bookable, LimitsFixed
<1>9. BookNow' = [BookNow EXCEPT ![o] =
                     [life |-> "standing", user |-> UserOf[t], promo |-> c, demand |-> d]]
  BY <1>3, <1>4
<1> HIDE DEF row
<1> QED
  <2> DEFINE left == [p \in Product |-> StockNow[p] - d[p]]
  <2>1. StockNow' = left /\ \A p \in Product : left[p] >= 0
    BY <1>6, NowFunctions
  <2>2. UsesNow' = [k \in Promo |-> UsesNow[k] + (IF k = c THEN 1 ELSE 0)]
    BY <1>7, NowFunctions
  <2>3. c # NoPromo => UsesNow[c] < [k \in Promo |-> InitialPromo[k].maxUses][c]
    BY <1>8
  <2> QED
    BY <1>4, <1>5, <1>9, <2>1, <2>2, <2>3, BookNowIs, BookNextIs
       DEF Book!Place, Book!Entry, Book!InStock, StockNow, UsesNow

AmendedEntry(o, d) ==
  /\ BookNow'[o].life = "standing" /\ BookNow'[o].demand = d
  /\ BookNow'[o] \in [life : {"standing"}, user : User, promo : Promo \cup {NoPromo}, demand : {d}]

LEMMA UpdateAmends ==
  ASSUME Bookable, Safe', NEW t \in Session, CommitUpdate(t),
         NEW o, o = req[t].order, NEW d, d = DemandOf(req[t].items)
  PROVE  Book!Amend(o, d) /\ AmendedEntry(o, d)
<1> DEFINE row == CommittedRow(t)
<1>1. Ledger /\ Commit(t) /\ pc[t] = "write" /\ req[t].op = "update" /\ OpenKnown(t)
  BY BookableTypes DEF Commit, CommitUpdate, Bookable, Stocked
<1>2. /\ row.status = orders[o].status /\ orders[o].user = UserOf[t] /\ row.user = UserOf[t]
      /\ row.promo = orders[o].promo /\ row.items = loc[t].lines
  BY <1>1, UpdatedRowIs
<1>3. orders[o].status = "CREATED" /\ Stands(orders[o]) /\ Stands(row)
  BY <1>1, <1>2 DEF OpenKnown, Stands
<1>4. /\ BookNow[o] = [life |-> "standing", user |-> orders[o].user, promo |-> orders[o].promo,
                       demand |-> DemandOf(orders[o].items)]
      /\ EntryOf(row) = [life |-> "standing", user |-> orders[o].user, promo |-> orders[o].promo,
                         demand |-> d]
  BY <1>1, <1>2, <1>3, EntryCases, LinesAsked, CommitBooks
<1>5. BookNow' = [BookNow EXCEPT ![o].demand = d] /\ BookNow[o].life = "standing"
  <2>1. EntryOf(row) = [BookNow[o] EXCEPT !.demand = d]
    BY <1>4
  <2> QED
    BY <1>1, <1>4, <2>1, CommitBooks
<1>6. ASSUME NEW p \in Product
      PROVE  StockNow'[p] = StockNow[p] + BookNow[o].demand[p] - d[p] /\ StockNow'[p] >= 0
  <2>1. HeldBy(orders[o], p) = BookNow[o].demand[p] /\ HeldBy(row, p) = d[p]
    BY <1>1, <1>2, <1>3, <1>4, LinesAsked DEF HeldBy, DemandOf
  <2>2. /\ StockNow'[p] = StockNow[p] + HeldBy(orders[o], p) - HeldBy(row, p)
        /\ StockNow'[p] >= 0 /\ StockNow[p] \in Int
    BY <1>1, CommitBooks
  <2> HIDE DEF row
  <2> QED
    BY <2>1, <2>2
<1>7. UsesNow' = UsesNow
  BY DEF CommitUpdate, UsesNow
<1> HIDE DEF row
<1> QED
  <2> DEFINE left == [p \in Product |-> StockNow[p] + BookNow[o].demand[p] - d[p]]
  <2>1. StockNow' = left /\ \A p \in Product : left[p] >= 0
    BY <1>6, NowFunctions
  <2>2. Book!Amend(o, d)
    BY <1>5, <1>7, <2>1, BookNowIs, BookNextIs DEF Book!Amend, Book!InStock, StockNow, UsesNow
  <2>3. o \in OrderId /\ orders[o] \in OrderRow
    BY BookableTypes
  <2>4. BookNow'[o] = [BookNow[o] EXCEPT !.demand = d]
    BY <1>5, <2>3 DEF BookNow, TheBook
  <2>5. AmendedEntry(o, d)
    BY <1>4, <2>3, <2>4 DEF AmendedEntry, OrderRow, PromoCodeOpt
  <2> QED
    BY <2>2, <2>5

LEMMA CancelCancels ==
  ASSUME Bookable, Safe', NEW t \in Session, CommitCancel(t), NEW o, o = req[t].order
  PROVE  Book!Cancel(o)
<1> DEFINE row == CommittedRow(t)
<1>1. Ledger /\ Commit(t)
  BY BookableTypes DEF Commit
<1>2. /\ Stands(orders[o]) /\ ~Stands(row) /\ row.status = "CANCELED"
      /\ orders[o].user = UserOf[t] /\ row.user = UserOf[t]
      /\ row.promo = orders[o].promo /\ row.items = orders[o].items
  BY <1>1, CanceledRowIs
<1>3. orders[o].status = "CREATED"
  BY <1>1, <1>2, CommitBooks DEF Bookable, StatusReached, Stands
<1>4. /\ BookNow[o] = [life |-> "standing", user |-> orders[o].user, promo |-> orders[o].promo,
                       demand |-> DemandOf(orders[o].items)]
      /\ EntryOf(row) = [life |-> "canceled", user |-> orders[o].user, promo |-> orders[o].promo,
                         demand |-> DemandOf(orders[o].items)]
  BY <1>1, <1>2, <1>3, EntryCases, CommitBooks
<1>5. BookNow' = [BookNow EXCEPT ![o].life = "canceled"] /\ BookNow[o].life = "standing"
  <2>1. EntryOf(row) = [BookNow[o] EXCEPT !.life = "canceled"]
    BY <1>4
  <2> QED
    BY <1>1, <1>4, <2>1, CommitBooks
<1>6. ASSUME NEW p \in Product PROVE StockNow'[p] = StockNow[p] + BookNow[o].demand[p]
  <2>1. HeldBy(orders[o], p) = BookNow[o].demand[p] /\ HeldBy(row, p) = 0
    BY <1>2, <1>4 DEF HeldBy, DemandOf
  <2>2. /\ StockNow'[p] = StockNow[p] + HeldBy(orders[o], p) - HeldBy(row, p)
        /\ StockNow[p] \in Int /\ HeldBy(orders[o], p) \in Int
    BY <1>1, CommitBooks
  <2> HIDE DEF row
  <2> QED
    BY <2>1, <2>2
<1>7. ASSUME NEW c \in Promo
      PROVE  UsesNow'[c] = UsesNow[c] - (IF c = BookNow[o].promo THEN 1 ELSE 0)
  <2>1. UseBy(row, c) = 0 /\ UseBy(orders[o], c) = IF c = BookNow[o].promo THEN 1 ELSE 0
    BY <1>2, <1>4 DEF UseBy
  <2>2. /\ UsesNow'[c] = UsesNow[c] - UseBy(orders[o], c) + UseBy(row, c)
        /\ UsesNow[c] \in Int
    BY <1>1, CommitBooks
  <2> HIDE DEF row
  <2> QED
    BY <2>1, <2>2
<1> HIDE DEF row
<1> QED
  <2>1. StockNow' = [p \in Product |-> StockNow[p] + BookNow[o].demand[p]]
    BY <1>6, NowFunctions
  <2>2. UsesNow' = [k \in Promo |-> UsesNow[k] - (IF k = BookNow[o].promo THEN 1 ELSE 0)]
    BY <1>7, NowFunctions
  <2> QED
    BY <1>5, <2>1, <2>2, BookNowIs, BookNextIs DEF Book!Cancel, StockNow, UsesNow

\* No commit takes an order to another status than these, or edits a code's limit.
LEMMA CommitReaches ==
  ASSUME Bookable, Safe', NEW t \in Session, Commit(t)
  PROVE  StatusReached' /\ LimitsFixed'
<1>1. /\ orders' = [orders EXCEPT ![req[t].order] = CommittedRow(t)]
      /\ req[t].order \in OrderId /\ orders \in [OrderId -> OrderRow] /\ Ledger
  BY BookableTypes, CommitWrites
<1>2. CommittedRow(t).status \in {"ABSENT", "CREATED", "CANCELED"}
  <2>1. CASE CommitCreate(t)
    BY <1>1, <2>1, CreatedRowIs
  <2>2. CASE CommitUpdate(t)
    BY <1>1, <2>2, UpdatedRowIs DEF Bookable, StatusReached
  <2>3. CASE CommitCancel(t)
    BY <1>1, <2>3, CanceledRowIs
  <2> QED
    BY <2>1, <2>2, <2>3 DEF Commit
<1>3. StatusReached'
  BY <1>1, <1>2 DEF Bookable, StatusReached
<1>4. LimitsFixed'
  BY CommitBooks DEF Bookable, LimitsFixed
<1> QED
  BY <1>3, <1>4

LEMMA NextBookable ==
  ASSUME OneSessionPerUser, OnlyOpenUpdated
  PROVE  Bookable /\ [Next]_vars => Bookable'
<1> SUFFICES ASSUME Bookable, [Next]_vars PROVE Bookable'
  OBVIOUS
<1>1. Serial' /\ Stocked' /\ Uses' /\ Safe'
  BY NextSerial, NextStocked, NextUses DEF Bookable, NoSharedChanges, Serial
<1>2. Ledger /\ \A s \in Session : StockProgress(s)
  BY DEF Bookable, Stocked
<1>3. \A s \in Session : ListProgress(s)' /\ Asked(s)'
  <2>1. CASE UNCHANGED <<pc, req, loc>>
    BY <2>1 DEF Bookable, ListProgress, InHand, Asked
  <2>2. CASE Crash
    BY <2>2, NoList DEF Crash, Asked, Reserving
  <2>3. ASSUME NEW t \in Session, Serve(t) PROVE \A s \in Session : ListProgress(s)' /\ Asked(s)'
    BY <1>2, <2>3, ServeList DEF Bookable
  <2> QED
    BY <2>1, <2>2, <2>3 DEF Next, vars, Tick
<1>4. StatusReached' /\ LimitsFixed'
  <2>1. CASE UNCHANGED <<promos, orders>>
    BY <2>1 DEF Bookable, StatusReached, LimitsFixed
  <2>2. ASSUME NEW t \in Session, Commit(t) PROVE StatusReached' /\ LimitsFixed'
    BY <1>1, <2>2, CommitReaches
  <2> QED
    BY <2>1, <2>2, OnlyCommitsWrite DEF Next, vars, tables, Crash, Tick
<1> QED
  BY <1>1, <1>3, <1>4 DEF Bookable

LEMMA InitBookable ==
  ASSUME \A c \in Promo : InitialPromo[c].uses <= InitialPromo[c].maxUses
  PROVE  Init => Bookable
<1> SUFFICES ASSUME Init PROVE Bookable
  OBVIOUS
<1>1. \A s \in Session : ListProgress(s) /\ Asked(s)
  BY DEF Init, ListProgress, Asked, Reserving
<1>2. StatusReached /\ LimitsFixed
  BY DEF Init, StatusReached, LimitsFixed, NoRow
<1> QED
  BY <1>1, <1>2, InitSerial, InitStocked, InitUses DEF Bookable

\* A step of the service is a step of the book, or leaves the book alone.
LEMMA NextBook ==
  ASSUME Bookable, Safe', [Next]_vars
  PROVE  [Book!Step]_(Book!bookVars)
<1> DEFINE Demands == {[p \in Product |-> Quantity(items, p)] : items \in ItemLists}
<1>1. ASSUME NEW t \in Session, CommitCreate(t) PROVE Book!Step
  <2>1. req[t].order \in OrderId /\ req[t].promo \in Promo \cup {NoPromo} /\ UserOf[t] \in User
    BY BookableTypes, SessionsAssumption DEF PromoCodeOpt
  <2>2. DemandOf(req[t].items) \in Demands
    BY <1>1, LinesAsked DEF CommitCreate, DemandOf
  <2>3. PICK o \in OrderId, c \in Promo \cup {NoPromo}, d \in Demands :
          o = req[t].order /\ c = req[t].promo /\ d = DemandOf(req[t].items)
    BY <2>1, <2>2
  <2>4. Book!Place(o, UserOf[t], c, d)
    BY <1>1, <2>3, CreatePlaces
  <2>5. BookNow'[o] = [life |-> "standing", user |-> UserOf[t], promo |-> c, demand |-> d]
    BY <2>4, BookNowIs, BookNextIs, BookEntries DEF Book!Place, Book!Entry, BookNow
  <2>6. BookNow'[o] \in Book!Standing
    BY <2>1, <2>5 DEF Book!Standing
  <2>7. Book!Place(o, BookNow'[o].user, BookNow'[o].promo, BookNow'[o].demand)
    BY <2>4, <2>5 DEF Book!Place, Book!Entry, Book!InStock
  <2>8. Book!Change(o, BookNow'[o])
    BY <2>6, <2>7 DEF Book!Change
  <2> QED
    BY <2>8, BookNextIs DEF Book!Step
<1>2. ASSUME NEW t \in Session, CommitUpdate(t) PROVE Book!Step
  <2>1. req[t].order \in OrderId
    BY BookableTypes
  <2>2. DemandOf(req[t].items) \in Demands
    BY <1>2, LinesAsked DEF CommitUpdate, DemandOf
  <2>3. PICK o \in OrderId, d \in Demands : o = req[t].order /\ d = DemandOf(req[t].items)
    BY <2>1, <2>2
  <2>4. Book!Amend(o, d) /\ AmendedEntry(o, d)
    BY <1>2, <2>3, UpdateAmends
  <2>5. BookNow'[o] \in Book!Standing
    BY <2>4 DEF Book!Standing, AmendedEntry
  <2>6. Book!Amend(o, BookNow'[o].demand)
    BY <2>4 DEF Book!Amend, Book!InStock, AmendedEntry
  <2>7. Book!Change(o, BookNow'[o])
    BY <2>5, <2>6 DEF Book!Change
  <2> QED
    BY <2>7, BookNextIs DEF Book!Step
<1>3. ASSUME NEW t \in Session, CommitCancel(t) PROVE Book!Step
  <2>1. PICK o \in OrderId : o = req[t].order
    BY BookableTypes
  <2>2. Book!Cancel(o)
    BY <1>3, <2>1, CancelCancels
  <2>3. Book!Change(o, BookNow'[o])
    BY <2>2 DEF Book!Change
  <2> QED
    BY <2>3, BookNextIs DEF Book!Step
<1>4. CASE UNCHANGED tables
  BY <1>4 DEF Book!bookVars, tables, Standing, Quantity
<1> QED
  BY <1>1, <1>2, <1>3, <1>4, OnlyCommitsWrite DEF Next, vars, tables, Crash, Tick, Commit

LEMMA InitBook == Init => Book!Start
BY DEF Init, Book!Start, Book!Absent, NoRow

\* The orders service implements OrderBook: when every user has one connection
\* and only open orders are updated, each request takes effect at one instant,
\* its COMMIT, exactly as if it had been served alone, through every
\* interleaving of statements, failure and restart; every other step leaves
\* stock, uses and orders as the book has them.
THEOREM ImplementsBook ==
  ASSUME OneSessionPerUser, OnlyOpenUpdated,
         \A c \in Promo : InitialPromo[c].uses <= InitialPromo[c].maxUses
  PROVE  Spec => ImplementsOrderBook
<1>1. Bookable /\ [Next]_vars => Bookable'
  BY NextBookable
<1>2. Bookable /\ Bookable' /\ [Next]_vars => [Book!Step]_(Book!bookVars)
  BY NextBook DEF Bookable, Serial
<1>3. Init => Bookable
  BY InitBookable
<1> QED
  BY InitBook, <1>1, <1>2, <1>3, PTL DEF Spec, ImplementsOrderBook, Book!BookSpec
=============================================================================
