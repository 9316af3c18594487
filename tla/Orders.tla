------------------------------- MODULE Orders -------------------------------
(***************************************************************************)
(* The orders service (internal/orders) and the tables it works on.        *)
(*                                                                         *)
(* A session is one client connection: it sends one HTTP request at a time *)
(* and waits for the answer; the handler that serves it is a goroutine.    *)
(* Every database statement the handler issues is a step of its session,   *)
(* so handlers interleave between statements.  PostgreSQL runs at READ     *)
(* COMMITTED and the repositories read through the pool (r.db), not        *)
(* through the open transaction: a read sees what is committed, never what *)
(* its own transaction has written.  Writes made in a transaction are kept *)
(* in tx[s] together with the row locks they hold, and reach the tables    *)
(* when the transaction commits.                                           *)
(*                                                                         *)
(* The last statements of a transaction write the promo_codes row and then *)
(* the order's rows, always in that order and after every product row:     *)
(* they can be part of no cycle of lock waits and nobody sees them before  *)
(* the COMMIT, so they and the COMMIT are one step (Commit...).            *)
(***************************************************************************)
EXTENDS Domain, Sequences, FiniteSets, Functions

CONSTANTS
  Session,         \* client connections, each served by one handler at a time
  User, Product,   \* rows of users and products (never deleted)
  OrderId,         \* bound: the uuids an order can get
  Promo, NoPromo,  \* rows of promo_codes; the absent code
  UserOf,          \* the user whose token a session presents
  RoleOf,          \* the role in that token
  ItemLists,       \* bound: the item lists a request can carry
  Ops,             \* bound: the requests the clients make
  OnlyCreated,     \* TRUE: clients update only orders in status CREATED
  InitialProduct, InitialPromo,
  RateLimitMinutes,
  Zone,            \* minutes the server's clock is east of UTC
  MaxTime,         \* bound on the clock
  MaxOpenConns     \* db.SetMaxOpenConns

Item == [product : Product, qty : Int]
Line == [product : Product, qty : Int, price : Nat]
StoredLine == [product : Product, qty : Nat \ {0}, price : Nat]
ProductRow == [stock : Nat, status : ProductStatus, price : Nat]
PromoCodeOpt == Promo \cup {NoPromo}

\* An order together with its order_items; status ABSENT: no such row.
OrderRow ==
  [ status : OrderStatus \cup {"ABSENT"}, user : User, promo : PromoCodeOpt,
    total : Int, discount : Int, items : Seq(StoredLine) ]

ASSUME SessionsAssumption ==
  /\ UserOf \in [Session -> User]
  /\ RoleOf \in [User -> UserRole]
  /\ User # {} /\ OrderId # {} /\ NoPromo \notin Promo
ASSUME DataAssumption ==
  /\ ItemLists \subseteq Seq(Item)
  /\ Ops \subseteq {"create", "update", "cancel"}
  /\ OnlyCreated \in BOOLEAN
  /\ InitialProduct \in [Product -> ProductRow]
  /\ InitialPromo \in [Promo -> PromoRow]
  /\ RateLimitMinutes \in Nat /\ Zone \in Int /\ MaxTime \in Nat /\ MaxOpenConns \in Nat

VARIABLES
  products, promos, orders,  \* committed tables; order_items are in orders
  operations,                \* user_operations rows (all of type CREATE_ORDER)
  now,                       \* the clock, in minutes
  pc,                        \* the statement each session's handler is at
  req,                       \* the request being served
  loc,                       \* the handler's local variables; total is what the
                             \* lines cost, less the discount once that is known
  tx                         \* uncommitted writes of UpdateStock, and row locks

tables == <<products, promos, orders, operations>>
vars == <<products, promos, orders, operations, now, pc, req, loc, tx>>

NoRow == [status |-> "ABSENT", user |-> CHOOSE u \in User : TRUE, promo |-> NoPromo,
          total |-> 0, discount |-> 0, items |-> <<>>]
NoReq == [op |-> "none", order |-> CHOOSE o \in OrderId : TRUE,
          items |-> <<>>, promo |-> NoPromo]
NoLoc == [existing |-> NoRow, todo |-> <<>>, lines |-> <<>>, total |-> 0, discount |-> 0]
NoTx  == [delta |-> [p \in Product |-> 0], locks |-> {}]

Init ==
  /\ products = InitialProduct
  /\ promos = InitialPromo
  /\ orders = [o \in OrderId |-> NoRow]
  /\ operations = {}
  /\ now = 0
  /\ pc = [s \in Session |-> "idle"]
  /\ req = [s \in Session |-> NoReq]
  /\ loc = [s \in Session |-> NoLoc]
  /\ tx = [s \in Session |-> NoTx]

-----------------------------------------------------------------------------
(* The pool and the row locks. *)

\* Statements a handler issues while its transaction holds a connection.
TxSteps == {"items", "restore", "read", "reserve", "promo", "write"}

\* A read through r.db, and BeginTx, need a connection of their own.
FreeConn == Cardinality({s \in Session : pc[s] \in TxSteps}) < MaxOpenConns

\* The row of p is not locked by another transaction.
RowFree(s, p) == \A t \in Session \ {s} : p \notin tx[t].locks

Goto(s, label) == pc' = [pc EXCEPT ![s] = label]

\* The handler answers: its transaction, if any, is closed (defer tx.Rollback
\* after a COMMIT does nothing) and its locals are gone.
Answer(s) ==
  /\ Goto(s, "idle")
  /\ req' = [req EXCEPT ![s] = NoReq]
  /\ loc' = [loc EXCEPT ![s] = NoLoc]
  /\ tx' = [tx EXCEPT ![s] = NoTx]

\* Mutant: no defer tx.Rollback(): an error leaves the transaction open.
RefuseWithoutRollback(s) ==
  /\ Goto(s, "idle")
  /\ req' = [req EXCEPT ![s] = NoReq]
  /\ loc' = [loc EXCEPT ![s] = NoLoc]
  /\ UNCHANGED <<tx, tables, now>>

\* The handler answers with an error: nothing it wrote reaches the tables.
Refuse(s) == Answer(s) /\ UNCHANGED <<tables, now>>

\* What Create and Update do once the items still to reserve are todo.
AfterItem(s, todo) ==
  IF todo # <<>> THEN "read"
  ELSE IF req[s].op = "create" /\ req[s].promo # NoPromo THEN "promo" ELSE "write"

-----------------------------------------------------------------------------
(* The requests.  Handlers check no role on create: any user may order. *)

StartCreate(s) ==
  /\ pc[s] = "idle" /\ "create" \in Ops
  /\ \E o \in OrderId, items \in ItemLists, code \in PromoCodeOpt :
       /\ orders[o].status = "ABSENT"
       /\ \A t \in Session : pc[t] # "idle" => req[t].order # o
       /\ req' = [req EXCEPT ![s] =
                    [op |-> "create", order |-> o, items |-> items, promo |-> code]]
  /\ Goto(s, "rate")
  /\ UNCHANGED <<tables, now, loc, tx>>

StartUpdate(s) ==
  /\ pc[s] = "idle" /\ "update" \in Ops
  /\ \E o \in OrderId, items \in ItemLists :
       /\ orders[o].status # "ABSENT"
       /\ OnlyCreated => orders[o].status = "CREATED"
       /\ req' = [req EXCEPT ![s] =
                    [op |-> "update", order |-> o, items |-> items, promo |-> NoPromo]]
  /\ Goto(s, "authorize")
  /\ UNCHANGED <<tables, now, loc, tx>>

StartCancel(s) ==
  /\ pc[s] = "idle" /\ "cancel" \in Ops
  /\ \E o \in OrderId :
       /\ orders[o].status # "ABSENT"
       /\ req' = [req EXCEPT ![s] =
                    [op |-> "cancel", order |-> o, items |-> <<>>, promo |-> NoPromo]]
  /\ Goto(s, "authorize")
  /\ UNCHANGED <<tables, now, loc, tx>>

-----------------------------------------------------------------------------
(* Create: the checks made before the transaction begins. *)

\* Mutant: the limit is one minute short.
RateAllowedEarly(u) ==
  \A op \in operations : op.user = u => now - op.at >= RateLimitMinutes - 1

\* CheckRateLimit looks at the last CREATE_ORDER operation, the most recent one.
\* created_at is a TIMESTAMP without time zone: the local time is stored, and
\* read back as if it were UTC.
RateAllowed(u) ==
  \A op \in operations : op.user = u => now - op.at >= RateLimitMinutes

CheckRateLimit(s) ==
  /\ pc[s] = "rate" /\ FreeConn
  /\ RateAllowed(UserOf[s])
  /\ Goto(s, "active")
  /\ UNCHANGED <<tables, now, req, loc, tx>>

RefuseRateLimit(s) ==
  /\ pc[s] = "rate" /\ FreeConn
  /\ ~RateAllowed(UserOf[s])
  /\ Refuse(s)

\* Mutant: an order is active only once its payment is pending.
HasPendingOrder(u) ==
  \E o \in OrderId : orders[o].user = u /\ orders[o].status = "PAYMENT_PENDING"

HasActiveOrder(u) ==
  \E o \in OrderId : orders[o].user = u /\ orders[o].status \in ActiveStatus

GetActiveOrder(s) ==
  /\ pc[s] = "active" /\ FreeConn
  /\ ~HasActiveOrder(UserOf[s])
  /\ Goto(s, "begin")
  /\ UNCHANGED <<tables, now, req, loc, tx>>

RefuseActiveOrder(s) ==
  /\ pc[s] = "active" /\ FreeConn
  /\ HasActiveOrder(UserOf[s])
  /\ Refuse(s)

-----------------------------------------------------------------------------
(* Update and Cancel: the handler's check, then the service's own.  The    *)
(* handler lets an administrator through, the service does not.            *)

MayTouch(u, o) == RoleOf[u] = "ADMIN" \/ orders[o].user = u

Authorize(s) ==
  /\ pc[s] = "authorize" /\ FreeConn
  /\ MayTouch(UserOf[s], req[s].order)
  /\ Goto(s, "load")
  /\ UNCHANGED <<tables, now, req, loc, tx>>

RefuseUnauthorized(s) ==
  /\ pc[s] = "authorize" /\ FreeConn
  /\ ~MayTouch(UserOf[s], req[s].order)
  /\ Refuse(s)

\* Cancel asks the state machine; Update does not look at the status.
StatusAllows(op, status) == op = "cancel" => CanTransitionTo(status, "CANCELED")

LoadOrder(s) ==
  LET existing == orders[req[s].order]
  IN  /\ pc[s] = "load" /\ FreeConn
      /\ existing.user = UserOf[s]
      /\ StatusAllows(req[s].op, existing.status)
      /\ loc' = [loc EXCEPT ![s].existing = existing]
      /\ Goto(s, "begin")
      /\ UNCHANGED <<tables, now, req, tx>>

RefuseOwner(s) ==
  /\ pc[s] = "load" /\ FreeConn
  /\ orders[req[s].order].user # UserOf[s]
  /\ Refuse(s)

RefuseStatus(s) ==
  /\ pc[s] = "load" /\ FreeConn
  /\ orders[req[s].order].user = UserOf[s]
  /\ ~StatusAllows(req[s].op, orders[req[s].order].status)
  /\ Refuse(s)

-----------------------------------------------------------------------------
(* The transaction. *)

BeginTx(s) ==
  /\ pc[s] = "begin" /\ FreeConn
  /\ IF req[s].op = "create"
     THEN /\ loc' = [loc EXCEPT ![s].todo = req[s].items]
          /\ Goto(s, AfterItem(s, req[s].items))
     ELSE /\ Goto(s, "items")
          /\ UNCHANGED loc
  /\ UNCHANGED <<tables, now, req, tx>>

\* What the handler does once the old items still to return are todo.
AfterRestore(s, todo) ==
  IF todo # <<>> THEN "restore"
  ELSE IF req[s].op = "update" THEN AfterItem(s, req[s].items) ELSE "write"

\* The items are returned by a SELECT without ORDER BY: in any order.
GetItems(s) ==
  LET lines == orders[req[s].order].items
  IN  /\ pc[s] = "items" /\ FreeConn
      /\ \E rank \in Bijection(DOMAIN lines, DOMAIN lines) :
           LET todo == [i \in DOMAIN lines |->
                          [product |-> lines[rank[i]].product, qty |-> lines[rank[i]].qty]]
           IN  /\ loc' = [loc EXCEPT ![s].todo =
                            IF todo = <<>> /\ req[s].op = "update" THEN req[s].items ELSE todo]
               /\ Goto(s, AfterRestore(s, todo))
      /\ UNCHANGED <<tables, now, req, tx>>

\* Mutant: the second write of a row replaces the first.
UpdateStockOnce(s, p, n) ==
  /\ RowFree(s, p)
  /\ tx' = [tx EXCEPT ![s].delta[p] = n, ![s].locks = @ \cup {p}]

\* UpdateStock(tx, p, n): UPDATE products SET stock = stock + n takes the row
\* lock and sees the last committed stock plus this transaction's own changes.
UpdateStock(s, p, n) ==
  /\ RowFree(s, p)
  /\ tx' = [tx EXCEPT ![s] = [delta |-> [tx[s].delta EXCEPT ![p] = tx[s].delta[p] + n],
                              locks |-> tx[s].locks \cup {p}]]

\* Mutant: products has no CHECK (stock >= 0).
StockUnchecked(s, p, n) == TRUE

\* CHECK (stock >= 0) on the value the UPDATE would store.
StockCheck(s, p, n) == products[p].stock + tx[s].delta[p] + n >= 0

Restore(s) ==
  LET item == Head(loc[s].todo)
      todo == Tail(loc[s].todo)
  IN  /\ pc[s] = "restore"
      /\ UpdateStock(s, item.product, item.qty)
      /\ loc' = [loc EXCEPT ![s].todo =
                   IF todo = <<>> /\ req[s].op = "update" THEN req[s].items ELSE todo]
      /\ Goto(s, AfterRestore(s, todo))
      /\ UNCHANGED <<tables, now, req>>

\* The availability check reads the committed row, not the transaction's.
Available(p, qty) == products[p].status = "ACTIVE" /\ products[p].stock >= qty

ReadProduct(s) ==
  LET item == Head(loc[s].todo)
      row  == products[item.product]
  IN  /\ pc[s] = "read" /\ FreeConn
      /\ Available(item.product, item.qty)
      /\ loc' = [loc EXCEPT
                   ![s].lines = Append(@, [product |-> item.product, qty |-> item.qty,
                                           price |-> row.price]),
                   ![s].total = @ + row.price * item.qty]
      /\ Goto(s, "reserve")
      /\ UNCHANGED <<tables, now, req, tx>>

RefuseUnavailable(s) ==
  LET item == Head(loc[s].todo)
  IN  /\ pc[s] = "read" /\ FreeConn
      /\ ~Available(item.product, item.qty)
      /\ Refuse(s)

Reserve(s) ==
  LET item == Head(loc[s].todo)
      todo == Tail(loc[s].todo)
  IN  /\ pc[s] = "reserve"
      /\ StockCheck(s, item.product, -item.qty)
      /\ UpdateStock(s, item.product, -item.qty)
      /\ loc' = [loc EXCEPT ![s].todo = todo]
      /\ Goto(s, AfterItem(s, todo))
      /\ UNCHANGED <<tables, now, req>>

RefuseReserve(s) ==
  LET item == Head(loc[s].todo)
  IN  /\ pc[s] = "reserve"
      /\ RowFree(s, item.product)
      /\ ~StockCheck(s, item.product, -item.qty)
      /\ Refuse(s)

\* One price, or twice one price, is exact in float64; other sums need not be.
SumError(lines) ==
  IF Len(lines) <= 1 /\ \A i \in DOMAIN lines : lines[i].qty \in 0..2 THEN {0} ELSE FloatError

\* Create reads the promo code and decides on what it read.
PromoApplies(s, error) ==
  LET promo == promos[req[s].promo]
  IN  promo.exists /\ IsValid(promo, now) /\ ~LessThan(loc[s].total, error, promo.minAmount)

ReadPromo(s) ==
  /\ pc[s] = "promo" /\ FreeConn
  /\ \E error \in SumError(loc[s].lines) :
       /\ PromoApplies(s, error)
       /\ \E discount \in CalculateDiscount(promos[req[s].promo], loc[s].total, error) :
            \E payable \in Cents(100 * loc[s].total - discount), granted \in Cents(discount) :
              loc' = [loc EXCEPT ![s] = [@ EXCEPT !.total = payable, !.discount = granted]]
  /\ Goto(s, "write")
  /\ UNCHANGED <<tables, now, req, tx>>

RefusePromo(s) ==
  /\ pc[s] = "promo" /\ FreeConn
  /\ \E error \in SumError(loc[s].lines) : ~PromoApplies(s, error)
  /\ Refuse(s)

-----------------------------------------------------------------------------
(* The end of the transaction: its last statements and the COMMIT. *)

\* UpdateStock's pending changes reach products.
ApplyStock(s) ==
  products' = [p \in Product |->
                 [products[p] EXCEPT !.stock = @ + tx[s].delta[p]]]

\* CHECK (quantity > 0) on order_items.
LinesCheck(lines) == \A i \in DOMAIN lines : lines[i].qty > 0

\* The foreign key orders.promo_code_id.
PromoExists(code) == code # NoPromo => promos[code].exists

\* Mutant: promo_codes has no CHECK (current_uses <= max_uses).
UsesUnchecked(code) == TRUE

\* CHECK (current_uses <= max_uses) on the row IncrementUses stores.
UsesCheck(code) == code # NoPromo => promos[code].uses < promos[code].maxUses

IncrementUses(code) ==
  promos' = IF code = NoPromo THEN promos
            ELSE [promos EXCEPT ![code].uses = @ + 1]

\* Mutant: canceling does not give the use of the code back.
KeepUses(code) == promos' = promos

\* UPDATE ... WHERE current_uses > 0; no such row is not an error.
DecrementUses(code) ==
  promos' = IF code # NoPromo /\ promos[code].exists /\ promos[code].uses > 0
            THEN [promos EXCEPT ![code].uses = @ - 1]
            ELSE promos

\* Mutant: the discount is not taken off the total.
UndiscountedRow(s) ==
  [status |-> "CREATED", user |-> UserOf[s], promo |-> req[s].promo,
   total |-> loc[s].total + loc[s].discount, discount |-> loc[s].discount, items |-> loc[s].lines]

CreatedRow(s) ==
  [status |-> "CREATED", user |-> UserOf[s], promo |-> req[s].promo,
   total |-> loc[s].total, discount |-> loc[s].discount, items |-> loc[s].lines]

\* CHECK (total_amount >= 0), and the other constraints.
CreateAccepted(s) ==
  /\ PromoExists(req[s].promo) /\ UsesCheck(req[s].promo)
  /\ CreatedRow(s).total >= 0
  /\ LinesCheck(loc[s].lines)

CommitCreate(s) ==
  /\ pc[s] = "write" /\ req[s].op = "create"
  /\ CreateAccepted(s)
  /\ ApplyStock(s)
  /\ IncrementUses(req[s].promo)
  /\ orders' = [orders EXCEPT ![req[s].order] = CreatedRow(s)]
  /\ operations' = operations \cup
                     {[order |-> req[s].order, user |-> UserOf[s], at |-> now + Zone]}
  /\ Answer(s)
  /\ UNCHANGED now

UpdateAccepted(s) ==
  /\ PromoExists(loc[s].existing.promo)
  /\ loc[s].total >= 0
  /\ LinesCheck(loc[s].lines)

\* Mutant: an update stores the new items with the old total.
OldTotalRow(s) == [loc[s].existing EXCEPT !.items = loc[s].lines]

\* Only the total and the items are new: the discount is the one of Create.
UpdatedRow(s) == [loc[s].existing EXCEPT !.total = loc[s].total, !.items = loc[s].lines]

\* orders.Update stores every column of the row as it was read.
CommitUpdate(s) ==
  /\ pc[s] = "write" /\ req[s].op = "update"
  /\ UpdateAccepted(s)
  /\ ApplyStock(s)
  /\ orders' = [orders EXCEPT ![req[s].order] = UpdatedRow(s)]
  /\ Answer(s)
  /\ UNCHANGED <<promos, operations, now>>

CommitCancel(s) ==
  LET existing == loc[s].existing
  IN  /\ pc[s] = "write" /\ req[s].op = "cancel"
      /\ PromoExists(existing.promo)
      /\ ApplyStock(s)
      /\ DecrementUses(existing.promo)
      /\ orders' = [orders EXCEPT ![req[s].order] =
                      [existing EXCEPT !.status = "CANCELED", !.items = orders[req[s].order].items]]
      /\ Answer(s)
      /\ UNCHANGED <<operations, now>>

\* A constraint refuses one of the last statements.
RefuseWrite(s) ==
  /\ pc[s] = "write"
  /\ CASE req[s].op = "create" -> ~CreateAccepted(s)
       [] req[s].op = "update" -> ~UpdateAccepted(s)
       [] req[s].op = "cancel" -> ~PromoExists(loc[s].existing.promo)
  /\ Refuse(s)

-----------------------------------------------------------------------------
(* Failures and the environment. *)

\* The holder s waits for is t.
WaitsFor(s, t) ==
  /\ s # t /\ pc[s] \in {"restore", "reserve"}
  /\ Head(loc[s].todo).product \in tx[t].locks

\* PostgreSQL ends one transaction of a cycle of lock waits with an error.
DeadlockVictim(s) ==
  /\ \E C \in SUBSET Session :
       /\ s \in C
       /\ \A t \in C : \E u \in C : WaitsFor(t, u)
       /\ \A t \in C : \E u \in C : WaitsFor(u, t)
  /\ Refuse(s)

\* A statement fails: every err != nil of the service rolls back and answers.
\* A handler waiting for a connection of the pool is not at a statement.
DbError(s) ==
  /\ pc[s] # "idle"
  /\ pc[s] \in {"restore", "reserve", "write"} \/ FreeConn
  /\ Refuse(s)

\* The process dies and docker restarts it: PostgreSQL rolls back every open
\* transaction, the clients get no answer.
Crash ==
  /\ \E s \in Session : pc[s] # "idle"
  /\ pc' = [s \in Session |-> "idle"]
  /\ req' = [s \in Session |-> NoReq]
  /\ loc' = [s \in Session |-> NoLoc]
  /\ tx' = [s \in Session |-> NoTx]
  /\ UNCHANGED <<tables, now>>

Tick ==
  /\ now < MaxTime
  /\ now' = now + 1
  /\ UNCHANGED <<tables, pc, req, loc, tx>>

-----------------------------------------------------------------------------
Start(s) == StartCreate(s) \/ StartUpdate(s) \/ StartCancel(s)

\* One statement of the handler of s.
Advance(s) ==
  \/ CheckRateLimit(s) \/ RefuseRateLimit(s)
  \/ GetActiveOrder(s) \/ RefuseActiveOrder(s)
  \/ Authorize(s) \/ RefuseUnauthorized(s)
  \/ LoadOrder(s) \/ RefuseOwner(s) \/ RefuseStatus(s)
  \/ BeginTx(s) \/ GetItems(s) \/ Restore(s)
  \/ ReadProduct(s) \/ RefuseUnavailable(s)
  \/ Reserve(s) \/ RefuseReserve(s)
  \/ ReadPromo(s) \/ RefusePromo(s)
  \/ CommitCreate(s) \/ CommitUpdate(s) \/ CommitCancel(s) \/ RefuseWrite(s)

\* Whatever can happen to the request of s.
Serve(s) == Start(s) \/ Advance(s) \/ DeadlockVictim(s) \/ DbError(s)

Next ==
  \/ \E s \in Session : Serve(s)
  \/ Crash
  \/ Tick

Spec == Init /\ [][Next]_vars

(***************************************************************************)
(* Goroutines are scheduled fairly, PostgreSQL queues the transactions     *)
(* waiting for a row lock, database/sql queues the goroutines waiting for  *)
(* a connection, and deadlock_timeout makes the detector run.              *)
(***************************************************************************)
Fairness ==
  /\ \A s \in Session : SF_vars(Advance(s))
  /\ \A s \in Session : WF_vars(DeadlockVictim(s))

FairSpec == Spec /\ Fairness

-----------------------------------------------------------------------------
(* What the tables hold. *)

\* The orders that hold stock and a use of their promo code.
Standing == {o \in OrderId : orders[o].status \notin {"ABSENT", "CANCELED"}}

Quantity(lines, p) ==
  SumFunctionOnSet([i \in DOMAIN lines |-> lines[i].qty], {i \in DOMAIN lines : lines[i].product = p})

Held(p) == SumFunctionOnSet([o \in OrderId |-> Quantity(orders[o].items, p)], Standing)

Amount(lines) ==
  SumFunctionOnSet([i \in DOMAIN lines |-> lines[i].price * lines[i].qty], DOMAIN lines)

\* The parts an order's amount is stored in, each rounded by itself.
Discounted(row) == row.total + row.discount - Amount(row.items) \in {-1, 0, 1}

Sessions(u) == {s \in Session : UserOf[s] = u}

-----------------------------------------------------------------------------
(* Properties. *)

Label == {"idle", "rate", "active", "authorize", "load", "begin"} \cup TxSteps

Operation == [order : OrderId, user : User, at : Int]

Request ==
  [op : {"none", "create", "update", "cancel"}, order : OrderId, items : Seq(Item),
   promo : PromoCodeOpt]

Local ==
  [existing : OrderRow, todo : Seq(Item), lines : Seq(Line), total : Int, discount : Int]

Transaction == [delta : [Product -> Int], locks : SUBSET Product]

\* Every variable has its type; in particular no product's stock and no code's
\* uses ever go below zero, whatever order the handlers' statements run in.
TypeOK ==
  /\ products \in [Product -> ProductRow]
  /\ promos \in [Promo -> PromoRow]
  /\ orders \in [OrderId -> OrderRow]
  /\ operations \subseteq Operation
  /\ now \in Nat
  /\ pc \in [Session -> Label]
  /\ req \in [Session -> Request]
  /\ loc \in [Session -> Local]
  /\ tx \in [Session -> Transaction]

\* Open transactions never write the same product row, write only the rows they
\* hold, and none of them would bring a row's stock below zero if it committed
\* now: what a handler reserved stays reserved while others commit around it.
TransactionsDisjoint ==
  /\ \A s, t \in Session : s # t => tx[s].locks \cap tx[t].locks = {}
  /\ \A s \in Session, p \in Product : p \notin tx[s].locks => tx[s].delta[p] = 0
  /\ \A s \in Session, p \in Product : products[p].stock + tx[s].delta[p] >= 0

Returned == [product : Product, qty : Nat]

\* A handler about to write or read a product has one left to do, it never
\* returns a negative quantity, and one about to read a promo code was given one.
StepsDefined ==
  \A s \in Session :
    /\ pc[s] \in {"restore", "read", "reserve"} => loc[s].todo # <<>>
    /\ pc[s] = "restore" => loc[s].todo \in Seq(Returned)
    /\ pc[s] = "promo" => req[s].promo # NoPromo

\* Stock is neither created nor lost: what a product has left and what the
\* standing orders hold of it add up to what it had, through concurrent
\* reservations, refusals, deadlocks, crashes, updates and cancellations.
StockConserved ==
  \A p \in Product : products[p].stock + Held(p) = InitialProduct[p].stock

\* A code's counter is exact: its uses are those of the standing orders that
\* carry it, and never more than it allows.
PromoAccounting ==
  \A c \in Promo :
    /\ promos[c].uses = InitialPromo[c].uses
                         + Cardinality({o \in Standing : orders[o].promo = c})
    /\ promos[c].uses <= promos[c].maxUses

\* A user never has two active orders (the check of Create, ORDER_HAS_ACTIVE).
AtMostOneActiveOrder ==
  \A o, oo \in OrderId :
    /\ orders[o].status \in ActiveStatus
    /\ orders[oo].status \in ActiveStatus
    /\ orders[o].user = orders[oo].user
    => o = oo

\* However many requests a user sends at once, the active orders of that user
\* are never more than the sessions: what a create, or an update that read the
\* order while it was active, can still add is one order per session.
ActiveOrdersBounded ==
  \A u \in User :
    Cardinality({o \in OrderId : orders[o].user = u /\ orders[o].status \in ActiveStatus})
      <= Cardinality(Sessions(u))

\* The orders of a's user that were created within the limit from a on.  On a
\* server that is not at UTC the limit is longer or shorter by its offset.
Burst(a) ==
  {b \in operations :
     b.user = a.user /\ a.at <= b.at /\ b.at < a.at + RateLimitMinutes + Zone}

\* From any of its orders on, a user gets at most one order per session created
\* within the limit, even when each is canceled at once: creates that pass the
\* check together are all the limit lets through.
RateLimited == \A a \in operations : Cardinality(Burst(a)) <= Cardinality(Sessions(a.user))

\* What a customer is asked to pay is what the order's lines cost at the time
\* they were ordered, less the discount recorded with the order, up to the
\* cent that rounding the two amounts separately can add or lose.
TotalIsDiscounted == \A o \in Standing : Discounted(orders[o])

\* The amount stored with an order is that of the lines stored with it, however
\* updates of it overlap: what they cost less the discount, or what they cost
\* once an update has dropped the discount.
TotalsFollowLines ==
  \A o \in Standing : Discounted(orders[o]) \/ orders[o].total = Amount(orders[o].items)

\* A stored order's status changes only along the state machine of the domain:
\* in particular a canceled order stays canceled.
StatusFollowsTransitions ==
  [][\A o \in OrderId :
       orders[o].status \in OrderStatus /\ orders'[o].status # orders[o].status
       => CanTransitionTo(orders[o].status, orders'[o].status)]_vars

\* The orders service implements OrderBook: whatever the interleaving of the
\* handlers' statements, their failures and restarts, each request takes effect
\* at one instant, its COMMIT, exactly as if it had been alone.
Book ==
  INSTANCE OrderBook WITH
    Demand <- {[p \in Product |-> Quantity(items, p)] : items \in ItemLists},
    Stock <- [p \in Product |-> InitialProduct[p].stock],
    Uses <- [c \in Promo |-> InitialPromo[c].uses],
    MaxUses <- [c \in Promo |-> InitialPromo[c].maxUses],
    stock <- [p \in Product |-> products[p].stock],
    uses <- [c \in Promo |-> promos[c].uses],
    book <- [o \in OrderId |->
               IF orders[o].status = "ABSENT" THEN [life |-> "absent"]
               ELSE [life |-> IF o \in Standing THEN "standing" ELSE "canceled",
                     user |-> orders[o].user, promo |-> orders[o].promo,
                     demand |-> [p \in Product |-> Quantity(orders[o].items, p)]]]

ImplementsOrderBook == Book!BookSpec

\* Every request is answered: no handler waits for ever for a row lock or for
\* a connection of the pool.
Answered == \A s \in Session : pc[s] # "idle" ~> pc[s] = "idle"
=============================================================================
