---------------------------- MODULE OrdersProofs ----------------------------
(***************************************************************************)
(* Theorems about Orders for every set of sessions, users, products,       *)
(* orders and codes, every list of items and every bound.                  *)
(***************************************************************************)
EXTENDS Orders, SequenceTheorems, TLAPS

-----------------------------------------------------------------------------
(* Types. *)

LEMMA NullTypes ==
  /\ NoRow \in OrderRow
  /\ NoReq \in Request
  /\ NoLoc \in Local
  /\ NoTx \in Transaction
<1>1. NoRow \in OrderRow
  BY SessionsAssumption DEF NoRow, OrderRow, PromoCodeOpt
<1>2. NoReq \in Request
  BY SessionsAssumption DEF NoReq, Request, PromoCodeOpt
<1>3. NoLoc \in Local
  BY <1>1 DEF NoLoc, Local
<1>4. NoTx \in Transaction
  BY DEF NoTx, Transaction
<1> QED
  BY <1>1, <1>2, <1>3, <1>4

-----------------------------------------------------------------------------
(* The inductive invariant behind TypeOK and TransactionsDisjoint, and what  *)
(* the building blocks of the actions do to it.                              *)

Safe == TypeOK /\ TransactionsDisjoint /\ StepsDefined

LEMMA InitSafe == Init => Safe
<1> SUFFICES ASSUME Init PROVE Safe
  OBVIOUS
<1>1. TypeOK
  BY NullTypes, DataAssumption DEF Init, TypeOK, Label
<1>2. TransactionsDisjoint
  BY DataAssumption DEF Init, TransactionsDisjoint, NoTx, ProductRow
<1>3. StepsDefined
  BY DEF Init, StepsDefined
<1> QED
  BY <1>1, <1>2, <1>3 DEF Safe

\* An answer with an error leaves the tables as they were and lets go of the rows.
LEMMA RefuseSafe ==
  ASSUME Safe, NEW s \in Session, Refuse(s)
  PROVE  Safe'
<1> USE DEF Safe, Refuse, Answer, Goto
<1>1. TypeOK'
  BY NullTypes DEF TypeOK, tables, Label
<1>2. TransactionsDisjoint'
  BY DEF TypeOK, TransactionsDisjoint, Transaction, NoTx, tables, ProductRow
<1>3. StepsDefined'
  BY DEF TypeOK, StepsDefined
<1> QED
  BY <1>1, <1>2, <1>3

\* Steps that write no table keep the open transactions' reservations valid.
LEMMA ReadOnlySafe ==
  ASSUME Safe, UNCHANGED <<tables, tx>>
  PROVE  TransactionsDisjoint'
BY DEF Safe, TransactionsDisjoint, tables

\* UpdateStock under the stock check.
LEMMA WriteSafe ==
  ASSUME Safe, NEW s \in Session, NEW p \in Product, NEW n \in Int,
         UpdateStock(s, p, n), StockCheck(s, p, n), UNCHANGED tables
  PROVE  tx' \in [Session -> Transaction] /\ TransactionsDisjoint'
<1> USE DEF Safe, UpdateStock
<1>1. tx' \in [Session -> Transaction]
  <2> DEFINE after == [delta |-> [tx[s].delta EXCEPT ![p] = tx[s].delta[p] + n],
                       locks |-> tx[s].locks \cup {p}]
  <2>1. tx \in [Session -> Transaction] /\ tx[s] \in Transaction
    BY DEF TypeOK
  <2>2. after \in Transaction
    BY <2>1 DEF Transaction
  <2>3. tx' = [tx EXCEPT ![s] = after]
    OBVIOUS
  <2> QED
    BY <2>1, <2>2, <2>3
<1>2. \A t, u \in Session : t # u => tx'[t].locks \cap tx'[u].locks = {}
  BY DEF TypeOK, TransactionsDisjoint, RowFree, Transaction
<1>3. \A t \in Session, q \in Product : q \notin tx'[t].locks => tx'[t].delta[q] = 0
  BY DEF TypeOK, TransactionsDisjoint, Transaction
<1>4. ASSUME NEW t \in Session, NEW q \in Product
      PROVE  products'[q].stock + tx'[t].delta[q] >= 0
  <2>1. CASE t = s /\ q = p
    <3>1. tx'[t].delta[q] = tx[s].delta[p] + n
      <4>1. tx'[s].delta = [tx[s].delta EXCEPT ![p] = tx[s].delta[p] + n]
        BY DEF TypeOK
      <4>2. tx[s].delta \in [Product -> Int]
        BY DEF TypeOK, Transaction
      <4> QED
        BY <2>1, <4>1, <4>2
    <3>2. products[p].stock \in Int /\ tx[s].delta[p] \in Int
      BY DEF TypeOK, Transaction, ProductRow
    <3> QED
      BY <2>1, <3>1, <3>2 DEF StockCheck, tables
  <2>2. CASE ~(t = s /\ q = p)
    <3>1. tx'[t].delta[q] = tx[t].delta[q]
      BY <2>2 DEF TypeOK, Transaction
    <3> QED
      BY <3>1 DEF TransactionsDisjoint, tables
  <2> QED
    BY <2>1, <2>2
<1> QED
  BY <1>1, <1>2, <1>3, <1>4 DEF TransactionsDisjoint

\* COMMIT of the pending stock: the rows written were locked, so no other
\* transaction counted on them.
LEMMA CommitSafe ==
  ASSUME Safe, NEW s \in Session, ApplyStock(s), tx' = [tx EXCEPT ![s] = NoTx]
  PROVE  /\ products' \in [Product -> ProductRow]
         /\ tx' \in [Session -> Transaction]
         /\ TransactionsDisjoint'
<1> USE DEF Safe
<1>1. products' \in [Product -> ProductRow]
  <2>1. ASSUME NEW q \in Product
        PROVE  [products[q] EXCEPT !.stock = @ + tx[s].delta[q]] \in ProductRow
    <3>1. products[q] \in ProductRow
      BY DEF TypeOK
    <3>2. tx[s].delta[q] \in Int
      BY DEF TypeOK, Transaction
    <3>3. products[q].stock + tx[s].delta[q] >= 0
      BY DEF TransactionsDisjoint
    <3> QED
      BY <3>1, <3>2, <3>3 DEF ProductRow
  <2> QED
    BY <2>1 DEF ApplyStock
<1>2. tx' \in [Session -> Transaction]
  <2>1. tx \in [Session -> Transaction] /\ NoTx \in Transaction
    BY NullTypes DEF TypeOK
  <2> QED
    BY <2>1
<1>3. \A t, u \in Session : t # u => tx'[t].locks \cap tx'[u].locks = {}
  BY DEF TypeOK, TransactionsDisjoint, NoTx
<1>4. \A t \in Session, q \in Product : q \notin tx'[t].locks => tx'[t].delta[q] = 0
  BY DEF TypeOK, TransactionsDisjoint, NoTx
<1>5. ASSUME NEW t \in Session, NEW q \in Product
      PROVE  products'[q].stock + tx'[t].delta[q] >= 0
  <2>1. products'[q].stock = products[q].stock + tx[s].delta[q]
    BY DEF TypeOK, ProductRow, ApplyStock
  <2>2. CASE t = s
    BY <2>2, <1>1 DEF TypeOK, NoTx, ProductRow
  <2>3. CASE t # s /\ tx[s].delta[q] = 0
    BY <2>1, <2>3 DEF TypeOK, TransactionsDisjoint, ProductRow, Transaction
  <2>4. CASE t # s /\ tx[s].delta[q] # 0
    <3>1. q \in tx[s].locks /\ q \notin tx[t].locks
      BY <2>4 DEF TransactionsDisjoint
    <3>2. tx'[t].delta[q] = 0
      BY <2>4, <3>1 DEF TypeOK, TransactionsDisjoint
    <3> QED
      BY <2>1, <3>2 DEF TypeOK, TransactionsDisjoint, ProductRow, Transaction
  <2> QED
    BY <2>2, <2>3, <2>4
<1> QED
  BY <1>1, <1>2, <1>3, <1>4, <1>5 DEF TransactionsDisjoint

-----------------------------------------------------------------------------
(* One step of a session that does not refuse its request.                   *)

\* What StepsDefined asks of a session at label, with request r and locals l.
Defined(label, r, l) ==
  /\ label \in {"restore", "read", "reserve"} => l.todo # <<>>
  /\ label = "restore" => l.todo \in Seq(Returned)
  /\ label = "promo" => r.promo # NoPromo

TablesTyped ==
  /\ products \in [Product -> ProductRow]
  /\ promos \in [Promo -> PromoRow]
  /\ orders \in [OrderId -> OrderRow]
  /\ operations \subseteq Operation
  /\ now \in Nat

LEMMA SessionStep ==
  ASSUME Safe, NEW s \in Session, NEW label \in Label, NEW r \in Request, NEW l \in Local,
         pc' = [pc EXCEPT ![s] = label],
         req' = [req EXCEPT ![s] = r],
         loc' = [loc EXCEPT ![s] = l],
         Defined(label, r, l),
         TablesTyped', tx' \in [Session -> Transaction], TransactionsDisjoint'
  PROVE  Safe'
<1>1. TypeOK'
  BY DEF Safe, TypeOK, TablesTyped
<1>2. ASSUME NEW t \in Session PROVE Defined(pc'[t], req'[t], loc'[t])
  <2>1. CASE t = s
    BY <2>1 DEF Safe, TypeOK
  <2>2. CASE t # s
    <3>1. pc'[t] = pc[t] /\ req'[t] = req[t] /\ loc'[t] = loc[t]
      BY <2>2 DEF Safe, TypeOK
    <3> QED
      BY <3>1 DEF Safe, StepsDefined, Defined
  <2> QED
    BY <2>1, <2>2
<1>3. StepsDefined'
  BY <1>2 DEF StepsDefined, Defined
<1> QED
  BY <1>1, <1>3 DEF Safe

\* The same when the step reads only: no table and no transaction changes.
LEMMA ReadStep ==
  ASSUME Safe, NEW s \in Session, NEW label \in Label, NEW r \in Request, NEW l \in Local,
         pc' = [pc EXCEPT ![s] = label],
         req' = [req EXCEPT ![s] = r],
         loc' = [loc EXCEPT ![s] = l],
         Defined(label, r, l),
         UNCHANGED <<tables, now, tx>>
  PROVE  Safe'
<1>1. TransactionsDisjoint'
  BY ReadOnlySafe
<1>2. TablesTyped' /\ tx' \in [Session -> Transaction]
  BY DEF Safe, TypeOK, TablesTyped, tables
<1> QED
  BY <1>1, <1>2, SessionStep

\* The same when neither the request nor the locals change.
LEMMA LabelStep ==
  ASSUME Safe, NEW s \in Session, NEW label \in Label, Goto(s, label),
         label \notin {"restore", "read", "reserve", "promo"},
         UNCHANGED <<tables, now, req, loc, tx>>
  PROVE  Safe'
<1>1. req[s] \in Request /\ loc[s] \in Local
  BY DEF Safe, TypeOK
<1>2. req' = [req EXCEPT ![s] = req[s]] /\ loc' = [loc EXCEPT ![s] = loc[s]]
  BY DEF Safe, TypeOK
<1>3. Defined(label, req[s], loc[s])
  BY DEF Defined
<1> QED
  BY <1>1, <1>2, <1>3, ReadStep DEF Goto

LEMMA AfterItemLabel ==
  ASSUME NEW s \in Session, NEW todo
  PROVE  /\ AfterItem(s, todo) \in Label
         /\ AfterItem(s, todo) \in {"read", "promo", "write"}
         /\ AfterItem(s, todo) = "read" => todo # <<>>
         /\ AfterItem(s, todo) = "promo" => req[s].promo # NoPromo
BY DEF AfterItem, Label, TxSteps

LEMMA StartSafe ==
  ASSUME Safe, NEW s \in Session, Start(s)
  PROVE  Safe'
<1>1. CASE StartCreate(s)
  <2>1. PICK o \in OrderId, items \in ItemLists, code \in PromoCodeOpt :
          req' = [req EXCEPT ![s] =
                    [op |-> "create", order |-> o, items |-> items, promo |-> code]]
    BY <1>1 DEF StartCreate
  <2> DEFINE r == [op |-> "create", order |-> o, items |-> items, promo |-> code]
  <2>2. r \in Request
    BY DataAssumption DEF Request
  <2>3. loc[s] \in Local /\ loc' = [loc EXCEPT ![s] = loc[s]]
    BY <1>1 DEF StartCreate, Safe, TypeOK
  <2>4. Defined("rate", r, loc[s]) /\ "rate" \in Label
    BY DEF Defined, Label
  <2>5. /\ UNCHANGED <<tables, now, tx>>
        /\ pc' = [pc EXCEPT ![s] = "rate"] /\ req' = [req EXCEPT ![s] = r]
    BY <1>1, <2>1 DEF StartCreate, Goto
  <2> QED
    BY <2>2, <2>3, <2>4, <2>5, ReadStep
<1>2. CASE StartUpdate(s)
  <2>1. PICK o \in OrderId, items \in ItemLists :
          req' = [req EXCEPT ![s] =
                    [op |-> "update", order |-> o, items |-> items, promo |-> NoPromo]]
    BY <1>2 DEF StartUpdate
  <2> DEFINE r == [op |-> "update", order |-> o, items |-> items, promo |-> NoPromo]
  <2>2. r \in Request
    BY DataAssumption DEF Request, PromoCodeOpt
  <2>3. loc[s] \in Local /\ loc' = [loc EXCEPT ![s] = loc[s]]
    BY <1>2 DEF StartUpdate, Safe, TypeOK
  <2>4. Defined("authorize", r, loc[s]) /\ "authorize" \in Label
    BY DEF Defined, Label
  <2>5. /\ UNCHANGED <<tables, now, tx>>
        /\ pc' = [pc EXCEPT ![s] = "authorize"] /\ req' = [req EXCEPT ![s] = r]
    BY <1>2, <2>1 DEF StartUpdate, Goto
  <2> QED
    BY <2>2, <2>3, <2>4, <2>5, ReadStep
<1>3. CASE StartCancel(s)
  <2>1. PICK o \in OrderId :
          req' = [req EXCEPT ![s] =
                    [op |-> "cancel", order |-> o, items |-> <<>>, promo |-> NoPromo]]
    BY <1>3 DEF StartCancel
  <2> DEFINE r == [op |-> "cancel", order |-> o, items |-> <<>>, promo |-> NoPromo]
  <2>2. r \in Request
    BY DEF Request, PromoCodeOpt
  <2>3. loc[s] \in Local /\ loc' = [loc EXCEPT ![s] = loc[s]]
    BY <1>3 DEF StartCancel, Safe, TypeOK
  <2>4. Defined("authorize", r, loc[s]) /\ "authorize" \in Label
    BY DEF Defined, Label
  <2>5. /\ UNCHANGED <<tables, now, tx>>
        /\ pc' = [pc EXCEPT ![s] = "authorize"] /\ req' = [req EXCEPT ![s] = r]
    BY <1>3, <2>1 DEF StartCancel, Goto
  <2> QED
    BY <2>2, <2>3, <2>4, <2>5, ReadStep
<1> QED
  BY <1>1, <1>2, <1>3 DEF Start

LEMMA BeforeTxSafe ==
  ASSUME Safe, NEW s \in Session,
         \/ CheckRateLimit(s) \/ GetActiveOrder(s)
         \/ Authorize(s) \/ LoadOrder(s) \/ BeginTx(s)
  PROVE  Safe'
<1>1. CASE CheckRateLimit(s)
  BY <1>1, LabelStep DEF CheckRateLimit, Label
<1>2. CASE GetActiveOrder(s)
  BY <1>2, LabelStep DEF GetActiveOrder, Label
<1>3. CASE Authorize(s)
  BY <1>3, LabelStep DEF Authorize, Label
<1>4. CASE LoadOrder(s)
  <2> DEFINE l == [loc[s] EXCEPT !.existing = orders[req[s].order]]
  <2>1. loc[s] \in Local /\ req[s] \in Request /\ orders[req[s].order] \in OrderRow
    BY DEF Safe, TypeOK, Request
  <2>2. l \in Local
    BY <2>1 DEF Local
  <2>3. loc' = [loc EXCEPT ![s] = l] /\ req' = [req EXCEPT ![s] = req[s]]
    BY <1>4 DEF LoadOrder, Safe, TypeOK
  <2>4. Defined("begin", req[s], l) /\ "begin" \in Label
    BY DEF Defined, Label
  <2> QED
    BY <1>4, <2>1, <2>2, <2>3, <2>4, ReadStep DEF LoadOrder, Goto
<1>5. CASE BeginTx(s) /\ req[s].op = "create"
  <2> DEFINE l == [loc[s] EXCEPT !.todo = req[s].items]
             label == AfterItem(s, req[s].items)
  <2>1. loc[s] \in Local /\ req[s] \in Request /\ req[s].items \in Seq(Item)
    BY DEF Safe, TypeOK, Request
  <2>2. l \in Local /\ l.todo = req[s].items
    BY <2>1 DEF Local
  <2>3. loc' = [loc EXCEPT ![s] = l] /\ req' = [req EXCEPT ![s] = req[s]]
    BY <1>5 DEF BeginTx, Safe, TypeOK
  <2>4. Defined(label, req[s], l) /\ label \in Label
    BY <2>2, AfterItemLabel DEF Defined
  <2>5. pc' = [pc EXCEPT ![s] = label] /\ UNCHANGED <<tables, now, tx>>
    BY <1>5 DEF BeginTx, Goto
  <2> QED
    BY <2>1, <2>2, <2>3, <2>4, <2>5, ReadStep
<1>6. CASE BeginTx(s) /\ req[s].op # "create"
  BY <1>6, LabelStep DEF BeginTx, Label, TxSteps
<1> QED
  BY <1>1, <1>2, <1>3, <1>4, <1>5, <1>6

\* The items of a stored order, in any order, have positive quantities.
LEMMA ShuffledItems ==
  ASSUME NEW lines \in Seq(StoredLine),
         NEW rank \in Bijection(DOMAIN lines, DOMAIN lines)
  PROVE  [i \in DOMAIN lines |->
            [product |-> lines[rank[i]].product, qty |-> lines[rank[i]].qty]] \in Seq(Returned)
<1> DEFINE n == Len(lines)
<1>1. n \in Nat /\ DOMAIN lines = 1..n /\ \A i \in 1..n : lines[i] \in StoredLine
  OBVIOUS
<1>2. rank \in [DOMAIN lines -> DOMAIN lines]
  BY DEF Bijection, Injection
<1>3. ASSUME NEW i \in 1..n
      PROVE  [product |-> lines[rank[i]].product, qty |-> lines[rank[i]].qty] \in Returned
  <2>1. lines[rank[i]] \in StoredLine
    BY <1>1, <1>2
  <2> QED
    BY <2>1 DEF StoredLine, Returned
<1> QED
  BY <1>1, <1>3, IsASeq

LEMMA ReturnedAreItems == Seq(Returned) \subseteq Seq(Item)
<1>1. Returned \subseteq Item
  BY DEF Returned, Item
<1> QED
  BY <1>1, SeqMonotonic

LEMMA AfterRestoreLabel ==
  ASSUME NEW s \in Session, NEW todo, NEW next,
         next = IF todo = <<>> /\ req[s].op = "update" THEN req[s].items ELSE todo
  PROVE  /\ AfterRestore(s, todo) \in Label
         /\ AfterRestore(s, todo) \in {"restore", "read", "promo", "write"}
         /\ AfterRestore(s, todo) \in {"restore", "read"} => next # <<>>
         /\ AfterRestore(s, todo) = "restore" => next = todo
         /\ AfterRestore(s, todo) = "promo" => req[s].promo # NoPromo
BY AfterItemLabel DEF AfterRestore, Label, TxSteps

LEMMA GetItemsSafe ==
  ASSUME Safe, NEW s \in Session, GetItems(s)
  PROVE  Safe'
<1> DEFINE lines == orders[req[s].order].items
           shuffled(rank) == [i \in DOMAIN lines |->
             [product |-> lines[rank[i]].product, qty |-> lines[rank[i]].qty]]
           after(todo) == IF todo = <<>> /\ req[s].op = "update" THEN req[s].items ELSE todo
<1>1. loc[s] \in Local /\ req[s] \in Request /\ req[s].items \in Seq(Item)
  BY DEF Safe, TypeOK, Request
<1>2. lines \in Seq(StoredLine)
  BY <1>1 DEF Safe, TypeOK, Request, OrderRow
<1>3. PICK rank \in Bijection(DOMAIN lines, DOMAIN lines) :
        /\ loc' = [loc EXCEPT ![s].todo = after(shuffled(rank))]
        /\ Goto(s, AfterRestore(s, shuffled(rank)))
  BY DEF GetItems
<1> DEFINE todo == shuffled(rank)
           next == after(todo)
           l == [loc[s] EXCEPT !.todo = next]
           label == AfterRestore(s, todo)
<1>4. todo \in Seq(Returned)
  BY <1>2, ShuffledItems
<1>5. next \in Seq(Item)
  BY <1>1, <1>4, ReturnedAreItems
<1>6. l \in Local /\ l.todo = next
  BY <1>1, <1>5 DEF Local
<1>7. Defined(label, req[s], l) /\ label \in Label
  <2>1. /\ label \in Label
        /\ label \in {"restore", "read", "promo", "write"}
        /\ label \in {"restore", "read"} => next # <<>>
        /\ label = "restore" => next = todo
        /\ label = "promo" => req[s].promo # NoPromo
    <3> HIDE DEF todo
    <3> QED
      BY AfterRestoreLabel
  <2> HIDE DEF label, next, todo
  <2> QED
    BY <1>4, <1>6, <2>1 DEF Defined
<1>8. loc' = [loc EXCEPT ![s] = l] /\ req' = [req EXCEPT ![s] = req[s]]
  BY <1>3 DEF GetItems, Safe, TypeOK
<1>9. pc' = [pc EXCEPT ![s] = label] /\ UNCHANGED <<tables, now, tx>>
  BY <1>3 DEF GetItems, Goto
<1> QED
  BY <1>1, <1>6, <1>7, <1>8, <1>9, ReadStep

LEMMA RestoreSafe ==
  ASSUME Safe, NEW s \in Session, Restore(s)
  PROVE  Safe'
<1> DEFINE item == Head(loc[s].todo)
           todo == Tail(loc[s].todo)
           next == IF todo = <<>> /\ req[s].op = "update" THEN req[s].items ELSE todo
           l == [loc[s] EXCEPT !.todo = next]
           label == AfterRestore(s, todo)
<1>1. loc[s] \in Local /\ req[s] \in Request /\ req[s].items \in Seq(Item)
  BY DEF Safe, TypeOK, Request
<1>2. loc[s].todo \in Seq(Returned) /\ loc[s].todo # <<>>
  BY DEF Safe, StepsDefined, Restore
<1>3. item \in Returned /\ todo \in Seq(Returned)
  BY <1>2, HeadTailProperties
<1>4. next \in Seq(Item)
  BY <1>1, <1>3, ReturnedAreItems
<1>5. l \in Local /\ l.todo = next
  BY <1>1, <1>4 DEF Local
<1>6. Defined(label, req[s], l) /\ label \in Label
  <2>1. /\ label \in Label
        /\ label \in {"restore", "read", "promo", "write"}
        /\ label \in {"restore", "read"} => next # <<>>
        /\ label = "restore" => next = todo
        /\ label = "promo" => req[s].promo # NoPromo
    <3> HIDE DEF todo
    <3> QED
      BY AfterRestoreLabel
  <2> HIDE DEF label, next, todo
  <2> QED
    BY <1>3, <1>5, <2>1 DEF Defined
<1>7. loc' = [loc EXCEPT ![s] = l] /\ req' = [req EXCEPT ![s] = req[s]]
  BY DEF Restore, Safe, TypeOK
<1>8. item.product \in Product /\ item.qty \in Nat
  BY <1>3 DEF Returned
<1>9. StockCheck(s, item.product, item.qty)
  <2>1. products[item.product].stock \in Int /\ tx[s].delta[item.product] \in Int
    BY <1>8 DEF Safe, TypeOK, Transaction, ProductRow
  <2>2. products[item.product].stock + tx[s].delta[item.product] >= 0
    BY <1>8 DEF Safe, TransactionsDisjoint
  <2> QED
    BY <1>8, <2>1, <2>2 DEF StockCheck
<1>10. tx' \in [Session -> Transaction] /\ TransactionsDisjoint'
  BY <1>8, <1>9, WriteSafe DEF Restore
<1>11. TablesTyped'
  BY DEF Restore, Safe, TypeOK, TablesTyped, tables
<1>12. pc' = [pc EXCEPT ![s] = label]
  BY DEF Restore, Goto
<1> QED
  BY <1>1, <1>5, <1>6, <1>7, <1>10, <1>11, <1>12, SessionStep

LEMMA ItemsAreTyped ==
  ASSUME Safe, NEW s \in Session, pc[s] \in {"read", "reserve"}
  PROVE  /\ Head(loc[s].todo) \in Item
         /\ Tail(loc[s].todo) \in Seq(Item)
<1>1. loc[s].todo \in Seq(Item) /\ loc[s].todo # <<>>
  BY DEF Safe, TypeOK, StepsDefined, Local
<1> QED
  BY <1>1, HeadTailProperties

LEMMA ReadProductSafe ==
  ASSUME Safe, NEW s \in Session, ReadProduct(s)
  PROVE  Safe'
<1> DEFINE item == Head(loc[s].todo)
           price == products[item.product].price
           line == [product |-> item.product, qty |-> item.qty, price |-> price]
           lines == Append(loc[s].lines, line)
           total == loc[s].total + price * item.qty
           l == [loc[s] EXCEPT !.lines = lines, !.total = total]
<1>1. loc[s] \in Local /\ req[s] \in Request
  BY DEF Safe, TypeOK
<1>2. item \in Item
  BY ItemsAreTyped DEF ReadProduct
<1>3. price \in Nat
  BY <1>2 DEF Safe, TypeOK, Item, ProductRow
<1>4. line \in Line /\ loc[s].lines \in Seq(Line)
  BY <1>1, <1>2, <1>3 DEF Item, Line, Local
<1>5. lines \in Seq(Line)
  BY <1>4, AppendProperties
<1>6. total \in Int
  <2>1. item.qty \in Int /\ loc[s].total \in Int
    BY <1>1, <1>2 DEF Item, Local
  <2> HIDE DEF item, price
  <2> QED
    BY <1>3, <2>1
<1>7. l \in Local /\ l.todo = loc[s].todo
  <2> HIDE DEF lines, total
  <2> QED
    BY <1>1, <1>5, <1>6 DEF Local
<1>8. Defined("reserve", req[s], l) /\ "reserve" \in Label
  BY <1>7 DEF Defined, Label, TxSteps, Safe, StepsDefined, ReadProduct
<1>9. loc' = [loc EXCEPT ![s] = l] /\ req' = [req EXCEPT ![s] = req[s]]
  BY DEF ReadProduct, Safe, TypeOK
<1> QED
  BY <1>1, <1>7, <1>8, <1>9, ReadStep DEF ReadProduct, Goto

LEMMA ReserveSafe ==
  ASSUME Safe, NEW s \in Session, Reserve(s)
  PROVE  Safe'
<1> DEFINE item == Head(loc[s].todo)
           todo == Tail(loc[s].todo)
           l == [loc[s] EXCEPT !.todo = todo]
           label == AfterItem(s, todo)
<1>1. loc[s] \in Local /\ req[s] \in Request
  BY DEF Safe, TypeOK
<1>2. item \in Item /\ todo \in Seq(Item)
  BY ItemsAreTyped DEF Reserve
<1>3. l \in Local /\ l.todo = todo
  BY <1>1, <1>2 DEF Local
<1>4. Defined(label, req[s], l) /\ label \in Label
  BY <1>3, AfterItemLabel DEF Defined
<1>5. loc' = [loc EXCEPT ![s] = l] /\ req' = [req EXCEPT ![s] = req[s]]
  BY DEF Reserve, Safe, TypeOK
<1>6. item.product \in Product /\ -item.qty \in Int
  BY <1>2 DEF Item
<1>7. tx' \in [Session -> Transaction] /\ TransactionsDisjoint'
  BY <1>6, WriteSafe DEF Reserve
<1>8. TablesTyped'
  BY DEF Reserve, Safe, TypeOK, TablesTyped, tables
<1>9. pc' = [pc EXCEPT ![s] = label]
  BY DEF Reserve, Goto
<1> QED
  BY <1>1, <1>3, <1>4, <1>5, <1>7, <1>8, <1>9, SessionStep

LEMMA DiscountIsInt ==
  ASSUME NEW promo \in PromoRow, NEW total \in Int, NEW error,
         NEW discount \in CalculateDiscount(promo, total, error)
  PROVE  discount \in Int
<1>1. promo.value \in Nat
  BY DEF PromoRow
<1>2. total * promo.value \in Int
  BY <1>1
<1>3. PercentageDiscount(total, promo.value) \subseteq Int
  BY <1>2 DEF PercentageDiscount
<1> QED
  BY <1>1, <1>3 DEF CalculateDiscount

LEMMA ReadPromoSafe ==
  ASSUME Safe, NEW s \in Session, ReadPromo(s)
  PROVE  Safe'
<1>1. loc[s] \in Local /\ req[s] \in Request /\ loc[s].total \in Int
  BY DEF Safe, TypeOK, Local
<1>2. promos[req[s].promo] \in PromoRow
  BY <1>1 DEF Safe, TypeOK, StepsDefined, ReadPromo, Request, PromoCodeOpt
<1>3. PICK error \in SumError(loc[s].lines) :
        \E discount \in CalculateDiscount(promos[req[s].promo], loc[s].total, error) :
          \E payable \in Cents(100 * loc[s].total - discount), granted \in Cents(discount) :
            loc' = [loc EXCEPT ![s] = [loc[s] EXCEPT !.total = payable, !.discount = granted]]
  BY DEF ReadPromo
<1>4. PICK discount \in CalculateDiscount(promos[req[s].promo], loc[s].total, error) :
        \E payable \in Cents(100 * loc[s].total - discount), granted \in Cents(discount) :
          loc' = [loc EXCEPT ![s] = [loc[s] EXCEPT !.total = payable, !.discount = granted]]
  BY <1>3
<1>5. discount \in Int
  BY <1>1, <1>2, DiscountIsInt
<1>6. PICK payable \in Cents(100 * loc[s].total - discount), granted \in Cents(discount) :
        loc' = [loc EXCEPT ![s] = [loc[s] EXCEPT !.total = payable, !.discount = granted]]
  BY <1>4
<1>7. payable \in Int /\ granted \in Int
  BY <1>1, <1>5, <1>6 DEF Cents
<1> DEFINE l == [loc[s] EXCEPT !.total = payable, !.discount = granted]
<1>8. l \in Local
  BY <1>1, <1>7 DEF Local
<1>9. Defined("write", req[s], l) /\ "write" \in Label
  BY DEF Defined, Label, TxSteps
<1>10. loc' = [loc EXCEPT ![s] = l] /\ req' = [req EXCEPT ![s] = req[s]]
  BY <1>6 DEF ReadPromo, Safe, TypeOK
<1>11. pc' = [pc EXCEPT ![s] = "write"] /\ UNCHANGED <<tables, now, tx>>
  BY DEF ReadPromo, Goto
<1> HIDE DEF l
<1> QED
  BY <1>1, <1>8, <1>9, <1>10, <1>11, ReadStep

-----------------------------------------------------------------------------
(* The commits.                                                              *)

\* The tables a commit leaves, and the session idle.
LEMMA AnswerStep ==
  ASSUME Safe, NEW s \in Session, Answer(s), ApplyStock(s),
         promos' \in [Promo -> PromoRow],
         orders' \in [OrderId -> OrderRow],
         operations' \subseteq Operation,
         UNCHANGED now
  PROVE  Safe'
<1>1. products' \in [Product -> ProductRow] /\ tx' \in [Session -> Transaction]
      /\ TransactionsDisjoint'
  BY CommitSafe DEF Answer
<1>2. TablesTyped'
  BY <1>1 DEF TablesTyped, Safe, TypeOK
<1>3. Defined("idle", NoReq, NoLoc) /\ "idle" \in Label
  BY DEF Defined, Label
<1> QED
  BY <1>1, <1>2, <1>3, NullTypes, SessionStep DEF Answer, Goto

LEMMA StoredLines ==
  ASSUME NEW lines \in Seq(Line), LinesCheck(lines)
  PROVE  lines \in Seq(StoredLine)
<1> DEFINE n == Len(lines)
<1>1. n \in Nat /\ DOMAIN lines = 1..n /\ \A i \in 1..n : lines[i] \in Line
  OBVIOUS
<1>2. ASSUME NEW i \in 1..n PROVE lines[i] \in StoredLine
  <2>1. lines[i] \in Line /\ lines[i].qty > 0
    BY <1>1 DEF LinesCheck
  <2> QED
    BY <2>1 DEF Line, StoredLine
<1>3. lines = [i \in 1..n |-> lines[i]]
  OBVIOUS
<1> QED
  BY <1>1, <1>2, <1>3, IsASeq

LEMMA PromoRowUses ==
  ASSUME NEW promo \in PromoRow, NEW n \in Nat
  PROVE  [promo EXCEPT !.uses = n] \in PromoRow
BY DEF PromoRow

LEMMA CommitCreateSafe ==
  ASSUME Safe, NEW s \in Session, CommitCreate(s)
  PROVE  Safe'
<1> DEFINE code == req[s].promo
<1>1. loc[s] \in Local /\ req[s] \in Request
  BY DEF Safe, TypeOK
<1>2. CreatedRow(s) \in OrderRow
  <2>1. loc[s].lines \in Seq(StoredLine)
    BY <1>1, StoredLines DEF CommitCreate, CreateAccepted, Local
  <2>2. loc[s].total \in Int /\ loc[s].discount \in Int
    BY <1>1 DEF Local
  <2>3. UserOf[s] \in User /\ code \in PromoCodeOpt
    BY <1>1, SessionsAssumption DEF Request
  <2> QED
    BY <2>1, <2>2, <2>3 DEF CreatedRow, OrderRow, OrderStatus
<1>3. orders' \in [OrderId -> OrderRow]
  BY <1>1, <1>2 DEF CommitCreate, Safe, TypeOK
<1>4. promos' \in [Promo -> PromoRow]
  <2>1. CASE code = NoPromo
    BY <2>1 DEF CommitCreate, IncrementUses, Safe, TypeOK
  <2>2. CASE code # NoPromo
    <3>1. promos[code] \in PromoRow /\ promos[code].uses + 1 \in Nat
      BY <1>1, <2>2 DEF Safe, TypeOK, Request, PromoCodeOpt, PromoRow
    <3>2. [promos[code] EXCEPT !.uses = promos[code].uses + 1] \in PromoRow
      BY <3>1, PromoRowUses
    <3> QED
      BY <2>2, <3>2 DEF CommitCreate, IncrementUses, Safe, TypeOK
  <2> QED
    BY <2>1, <2>2
<1>5. operations' \subseteq Operation
  <2>1. now \in Nat /\ Zone \in Int /\ req[s] \in Request /\ UserOf[s] \in User
    BY SessionsAssumption, DataAssumption DEF Safe, TypeOK
  <2>2. now + Zone \in Int /\ req[s].order \in OrderId
    BY <1>1, <2>1 DEF Request
  <2> QED
    BY <2>1, <2>2 DEF CommitCreate, Safe, TypeOK, Operation
<1> QED
  BY <1>3, <1>4, <1>5, AnswerStep DEF CommitCreate

LEMMA CommitUpdateSafe ==
  ASSUME Safe, NEW s \in Session, CommitUpdate(s)
  PROVE  Safe'
<1>1. loc[s] \in Local /\ loc[s].existing \in OrderRow /\ loc[s].total \in Int
  BY DEF Safe, TypeOK, Local
<1>2. loc[s].lines \in Seq(StoredLine)
  BY <1>1, StoredLines DEF CommitUpdate, UpdateAccepted, Local
<1>3. UpdatedRow(s) \in OrderRow
  BY <1>1, <1>2 DEF UpdatedRow, OrderRow
<1>4. orders' \in [OrderId -> OrderRow]
  BY <1>3 DEF CommitUpdate, Safe, TypeOK
<1>5. promos' \in [Promo -> PromoRow] /\ operations' \subseteq Operation
  BY DEF CommitUpdate, Safe, TypeOK
<1> QED
  BY <1>4, <1>5, AnswerStep DEF CommitUpdate

LEMMA CommitCancelSafe ==
  ASSUME Safe, NEW s \in Session, CommitCancel(s)
  PROVE  Safe'
<1> DEFINE existing == loc[s].existing
           code == existing.promo
           canceled == [existing EXCEPT !.status = "CANCELED",
                                        !.items = orders[req[s].order].items]
<1>1. loc[s] \in Local /\ req[s] \in Request
  BY DEF Safe, TypeOK
<1>2. existing \in OrderRow /\ orders[req[s].order] \in OrderRow
  BY <1>1 DEF Safe, TypeOK, Local, Request
<1>3. canceled \in OrderRow
  <2> HIDE DEF existing
  <2> QED
    BY <1>2 DEF OrderRow, OrderStatus
<1>4. orders' \in [OrderId -> OrderRow]
  BY <1>3 DEF CommitCancel, Safe, TypeOK
<1>5. promos' \in [Promo -> PromoRow]
  <2>1. CASE code # NoPromo /\ promos[code].exists /\ promos[code].uses > 0
    <3>1. promos[code] \in PromoRow /\ promos[code].uses - 1 \in Nat
      <4>1. code \in Promo
        BY <1>2, <2>1 DEF OrderRow, PromoCodeOpt
      <4>2. promos[code] \in PromoRow
        BY <4>1 DEF Safe, TypeOK
      <4>3. promos[code].uses \in Nat /\ promos[code].uses > 0
        BY <2>1, <4>2 DEF PromoRow
      <4> QED
        BY <4>2, <4>3
    <3>2. [promos[code] EXCEPT !.uses = promos[code].uses - 1] \in PromoRow
      BY <3>1, PromoRowUses
    <3> QED
      BY <2>1, <3>2 DEF CommitCancel, DecrementUses, Safe, TypeOK
  <2>2. CASE ~(code # NoPromo /\ promos[code].exists /\ promos[code].uses > 0)
    BY <2>2 DEF CommitCancel, DecrementUses, Safe, TypeOK
  <2> QED
    BY <2>1, <2>2
<1>6. operations' \subseteq Operation
  BY DEF CommitCancel, Safe, TypeOK
<1> QED
  BY <1>4, <1>5, <1>6, AnswerStep DEF CommitCancel

-----------------------------------------------------------------------------
(* Every step. *)

LEMMA CrashSafe ==
  ASSUME Safe, Crash
  PROVE  Safe'
<1>1. TypeOK'
  BY NullTypes DEF Safe, TypeOK, Crash, tables, Label
<1>2. TransactionsDisjoint'
  BY DEF Safe, TypeOK, TransactionsDisjoint, Crash, tables, NoTx, ProductRow
<1>3. StepsDefined'
  BY DEF StepsDefined, Crash
<1> QED
  BY <1>1, <1>2, <1>3 DEF Safe

LEMMA TickSafe ==
  ASSUME Safe, Tick
  PROVE  Safe'
BY DEF Safe, TypeOK, TransactionsDisjoint, StepsDefined, Tick, tables

\* The actions that answer with an error.
Refusal(s) ==
  \/ RefuseRateLimit(s) \/ RefuseActiveOrder(s) \/ RefuseUnauthorized(s)
  \/ RefuseOwner(s) \/ RefuseStatus(s) \/ RefuseUnavailable(s) \/ RefuseReserve(s)
  \/ RefusePromo(s) \/ RefuseWrite(s) \/ DeadlockVictim(s) \/ DbError(s)

LEMMA RefusalRefuses ==
  ASSUME NEW s \in Session, Refusal(s)
  PROVE  Refuse(s)
BY DEF Refusal, RefuseRateLimit, RefuseActiveOrder, RefuseUnauthorized, RefuseOwner,
   RefuseStatus, RefuseUnavailable, RefuseReserve, RefusePromo, RefuseWrite,
   DeadlockVictim, DbError

LEMMA NextSafe == Safe /\ [Next]_vars => Safe'
<1> SUFFICES ASSUME Safe, [Next]_vars PROVE Safe'
  OBVIOUS
<1>1. CASE UNCHANGED vars
  BY <1>1 DEF Safe, TypeOK, TransactionsDisjoint, StepsDefined, vars
<1>2. CASE Crash
  BY <1>2, CrashSafe
<1>3. CASE Tick
  BY <1>3, TickSafe
<1>4. ASSUME NEW s \in Session, Serve(s)
      PROVE  Safe'
  <2>1. CASE Start(s)
    BY <2>1, StartSafe
  <2>2. CASE Refusal(s)
    BY <2>2, RefusalRefuses, RefuseSafe
  <2>3. CASE CheckRateLimit(s) \/ GetActiveOrder(s) \/ Authorize(s) \/ LoadOrder(s) \/ BeginTx(s)
    BY <2>3, BeforeTxSafe
  <2>4. CASE GetItems(s)
    BY <2>4, GetItemsSafe
  <2>5. CASE Restore(s)
    BY <2>5, RestoreSafe
  <2>6. CASE ReadProduct(s)
    BY <2>6, ReadProductSafe
  <2>7. CASE Reserve(s)
    BY <2>7, ReserveSafe
  <2>8. CASE ReadPromo(s)
    BY <2>8, ReadPromoSafe
  <2>9. CASE CommitCreate(s)
    BY <2>9, CommitCreateSafe
  <2>10. CASE CommitUpdate(s)
    BY <2>10, CommitUpdateSafe
  <2>11. CASE CommitCancel(s)
    BY <2>11, CommitCancelSafe
  <2> QED
    BY <1>4, <2>1, <2>2, <2>3, <2>4, <2>5, <2>6, <2>7, <2>8, <2>9, <2>10, <2>11
       DEF Serve, Advance, Refusal
<1> QED
  BY <1>1, <1>2, <1>3, <1>4 DEF Next

\* Whatever the requests, failures and interleavings, the tables and the
\* handlers' locals keep their types: no stock or code counter goes negative.
THEOREM TypeCorrect == Spec => []TypeOK
<1>1. Spec => []Safe
  BY InitSafe, NextSafe, PTL DEF Spec
<1>2. Safe => TypeOK
  BY DEF Safe
<1> QED
  BY <1>1, <1>2, PTL

\* Open transactions never share a product row and never overdraw one.
THEOREM TransactionsNeverOverlap == Spec => []TransactionsDisjoint
<1>1. Spec => []Safe
  BY InitSafe, NextSafe, PTL DEF Spec
<1>2. Safe => TransactionsDisjoint
  BY DEF Safe
<1> QED
  BY <1>1, <1>2, PTL
=============================================================================
