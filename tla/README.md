# Verification of the marketplace backend

TLA+ models of the marketplace backend in `src/` (Go, chi, sqlx, PostgreSQL),
TLC runs on small instances and TLAPS proofs for all instances. Paths are
relative to `src/`.

## 1. The system

| Component | Code | State | Operations |
|---|---|---|---|
| Orders service | `internal/orders/service_impl.go` | locals of a request, its transaction | Create, Update, Cancel, GetByID |
| Orders repository | `internal/orders/repository_impl.go` | `orders`, `order_items` | insert, read, whole-row update, replace items, find the active order |
| Orders handlers | `internal/orders/handler.go` | none | decode, first ownership check, answer |
| Products | `internal/products` | `products` (stock, status, price) | GetByID, UpdateStock; create, update, archive, list |
| Promo codes | `internal/promos` | `promo_codes` (uses, limits, validity) | GetByCode, IncrementUses, DecrementUses; create, update, delete |
| Operations | `internal/operations` | `user_operations` | record, CheckRateLimit |
| Domain | `internal/domain/models.go` | none | state machine, IsValid, CalculateDiscount |
| Schema | `migrations/` | constraints | CHECKs, foreign keys, DECIMAL(12,2) |
| Users and tokens | `internal/users`, `internal/middleware/auth.go` | `users`; JWTs are stateless | register, login, refresh, validate |
| Start-up | `cmd/server/main.go`, `docker-compose.yml`, `Makefile` | `schema_migrations`, connection pool | connect with retries, migrate, serve; exit and restart; reset by the operator |
| Cross-cutting | `internal/middleware`, `internal/errors`, `internal/config` | none | logging, request ids, error bodies, configuration (unused) |

**How they interact.** Every request is served by a goroutine of its own. The
orders service calls the four repositories. Its writes go through one
transaction (`tx`), its reads through the pool (`r.db`), so a read sees
committed rows and not the transaction's own writes, and needs a second
connection while the transaction holds the first. There is no state in memory
that two requests share: they meet in the tables, in PostgreSQL's row locks and
in the pool of 25 connections.

**What is hard.** PostgreSQL runs at READ COMMITTED and no read locks a row.
What a request checked (the rate limit, the active order, the owner, the
status, the stock, the promo code) can be stale when it writes; what protects
the tables is `stock = stock + $1` under the row lock, the CHECK constraints
and the rollback. Requests lock products in the order of their items, so they
can deadlock. Any statement can fail and the process can die anywhere, also in the
middle of a migration. Tokens are stored nowhere: they outlive the process and
the rows they name. Amounts are computed in float64 and stored as DECIMAL(12,2).
A listing is several requests of two statements each, and
the catalog moves under it.
`PROJECT.json` lists these hazards at their lines.

**What makes each component correct.**
- Orders: stock and promo uses are conserved; a request happens entirely or not
  at all; one active order per user; the rate limit; the state machine; the
  stored total is what the stored lines cost, less the discount; every request is
  answered. Where racing requests of one user break a rule, by how much they do.
- Products and promo codes: never below zero or above the limit; an edit loses
  no reservation and no use; an order never carries a code that is gone.
- Domain: a discount lies between zero and the total; a larger basket does not
  cost less; the two stored parts of an amount are the amount, to the cent.
- Listing: a client that reads all pages misses nothing that has a place of its own
  in the order; an answer is not shorter than its own total says.
- Start-up: it ends in serving or in exiting, never in serving without a table;
  it comes up once the database stays up.
- Users: a token names the user it was issued for, whatever has become of the row.

## 2. Modules

| Module | What it is |
|---|---|
| `Domain` | The rules of `internal/domain`: operators only |
| `Orders` | The orders service on the tables, statement by statement; `Spec`, `FairSpec`, properties |
| `Marketplace` | `Orders` together with the sellers and administrators who edit products and codes |
| `Listing` | A client that lists the catalog page by page while it changes |
| `Startup` | The life of the server process and of the schema |
| `Users` | Users and tokens on that server: extends `Startup`; `ServerSpec`, `FairServerSpec` |
| `OrderBook` | The abstract specification: each request takes effect at one instant and alone |
| `Discount` | A basket that grows cent by cent under one code |
| `MCOrders`, `MCMarketplace`, `MCDiscount`, `MCListing`, `MCUsers` | The small instances TLC checks |
| `OrdersProofs` | Proofs of the type invariant and the disjointness of transactions |
| `OrdersRulesProofs` | Proofs of how far racing requests of one user can go beyond the rules, and of what a handler may trust when they do not race |
| `SumProofs` | Sums over finite sets: adding, removing and replacing a term, equal terms, renamed terms |
| `OrdersAccountingProofs` | Proofs about stock, uses of codes and totals, and that `Orders` implements `OrderBook` |
| `MarketplaceProofs` | Proofs that the staff's edits keep what the orders service relies on, and what it counts |
| `DiscountProofs` | Proofs about discounts and rounding, however float64 falls |
| `ListingProofs` | Proofs of what a listing does not miss and that its pages are not short |
| `UsersProofs` | Proofs about start-up, users and tokens |

### Orders and the code

A *session* is a client connection with a user's token: one request at a time.
Several sessions may belong to one user. `pc[s]` names the statement the
handler is at, `req[s]` is the request, `loc[s]` holds the handler's locals
(`existing`, the items still to do, the lines built so far, the totals) and
`tx[s]` the transaction: the changes of stock not committed yet, and the rows
it has locked. `products`, `promos`, `orders` (with their items) and
`operations` are the committed tables.

| `pc` | Statement | Actions |
|---|---|---|
| `rate` | `CheckRateLimit` | `CheckRateLimit`, `RefuseRateLimit` |
| `active` | `GetActiveOrderByUserID` | `GetActiveOrder`, `RefuseActiveOrder` |
| `authorize` | the handler's read and check | `Authorize`, `RefuseUnauthorized` |
| `load` | the service's read, owner, status | `LoadOrder`, `RefuseOwner`, `RefuseStatus` |
| `begin` | `BeginTx` | `BeginTx` |
| `items` | `GetItemsByOrderID`, in any order (no ORDER BY) | `GetItems` |
| `restore` | `UpdateStock(tx, +qty)` | `Restore` |
| `read` | product `GetByID` and the availability check | `ReadProduct`, `RefuseUnavailable` |
| `reserve` | `UpdateStock(tx, -qty)` | `Reserve`, `RefuseReserve` |
| `promo` | `GetByCode`, `IsValid`, minimum, discount | `ReadPromo`, `RefusePromo` |
| `write` | the remaining writes and COMMIT | `CommitCreate`, `CommitUpdate`, `CommitCancel`, `RefuseWrite` |

The remaining writes are one step with the COMMIT. They take the `promo_codes`
row and then the order's row, always in that order and after all product rows,
so they close no lock cycle, need no further connection, and are visible to
nobody before the COMMIT. What they find is what is stored at that time:
`DecrementUses` applies to the current row, `orders.Update` overwrites it with
the row loaded earlier.

Two requests that take the same rows in opposite order wait for each other and
`DeadlockVictim` ends one of them, as PostgreSQL does. `DbError` fails a
statement, `Crash` ends the process with all its transactions. A read through
the pool, and BeginTx, need `FreeConn`.

Amounts are cents; a discount is in hundredths of a cent, so that a percentage
is exact, and `Cents` is what a DECIMAL(12,2) column stores. The code computes
in float64, which is off by far less than half a cent and is visible where it
decides between two outcomes. There the model has both:
- A sum compared with an amount that it equals. `3 * 0.35` is
  `1.0499999999999998` and below a minimum of 1.05. `SumError` is how a basket's
  sum may compare (one price, or twice one price, is exact), and `LessThan` the
  comparison with the minimum, in `PromoApplies` and in `CalculateDiscount`.
- The maximum discount at exactly 70 percent: `orderTotal*70/100 > orderTotal*0.7`
  holds for some totals and not for others (`AboveMaxDiscount`).
- Half a cent. Half of the sum above is stored as 0.52, half of 0.35 as 0.18:
  `Cents` gives the cent below and the cent above. Total and discount fall
  independently, so together they can be a cent more or a cent less than the
  lines cost.

### Marketplace and the code

`Marketplace` extends `Orders` with the handlers of `internal/products` and
`internal/promos`. These open no transaction: each of their statements commits
by itself. `desk[a]` is where the connection `a` of a seller or administrator
is.

| Request | Actions |
|---|---|
| POST, DELETE `/products` | `CreateProduct`, `DeleteProduct` (archives) |
| PUT `/products/{id}` | `ReadProductRow`, then `UpdateProduct`, which writes every column as read and patched |
| POST, DELETE `/promo-codes` | `CreatePromoCode`, `DeletePromoCode` (ON DELETE SET NULL on orders) |
| PUT `/promo-codes/{id}` | `ReadPromoRow`, then `UpdatePromoCode`, which writes five columns, not the uses |
| an update whose second statement fails | `GiveUp` |

An order's transaction and an edit meet at the row lock of a product
(`RowUnlocked`), at the CHECKs and at the foreign key: an order that inserts or
writes back the id of a deleted code is refused. Orders take the promo row's
lock only in the step that commits, so an edit of a code has nobody to wait
for. A statement that has to wait simply is not enabled; one that reads before
it writes (`CreateProduct`, `DeleteProduct`) reads only what no request
changes, the seller, and is one step. A row that is inserted while the system
runs (`Later`) is, until then, a row that no request finds. A deleted code is
never inserted again under its id.

The clock of `Orders` is the service's `time.Now`. `created_at` is a TIMESTAMP
without a time zone: it keeps the local reading, and what is read back is taken
for UTC. `Zone`, how far east of UTC the server is, is therefore added to the
time an operation is stored with (`CommitCreate`) and not to the one it is
compared with (`RateAllowed`). East of UTC the limit lasts longer than it should,
west of UTC it is too short or gone; `RateLimited` takes the offset into its
window. The images in `docker-compose.yml` run at UTC, which is what the runs
take; the theorem has every `Zone`.

### Listing and the code

`step` is where the client, or the handler that serves it, is: `count` and
`page` are the two statements of `repositoryImpl.List`, `answer` the response.

| Code | Actions |
|---|---|
| POST `/products`: `created_at` first, the INSERT later | `StampProduct`, `InsertProduct` |
| PUT, DELETE `/products/{id}`, as far as a filter sees them | `SetStatus` |
| GET `/products` | `BeginListing`, `CountProducts`, `ReadPage`, `ListFails` |
| the client | `TakeAnswer`, `LastPage` |

`Window` says which rows `ORDER BY created_at DESC LIMIT .. OFFSET ..` may
return: every choice of rows with equal instants is possible. Stored products may
share an instant, as the five that `000002_seed_data` inserts in one statement do,
and a product that is created may get the instant of the one before
(`StampProduct`). `Alone` is a product that shares its instant with no other.
How a client walks the pages is not in the repository: `FirstPage` and
`StopAtTotal` give the ways to do it.

### Startup, Users and the code

`server` is where `main` is, `version`, `dirty` and `schema` are what golang-migrate
has recorded and what is really there.

| `server` | Code | Actions |
|---|---|---|
| `exited` | `restart: unless-stopped` | `Boot` |
| `connecting` | `connectWithRetry` | `Connect`, `ConnectFails` |
| `migrating` | `m.Up` reads version and flag | `ReadVersion`, `RefuseDirty` |
| `mark`, `run`, `clear` | the three statements of one migration | `MarkDirty`, `RunMigration` (`SeedUsers`), `ClearDirty` |
| any of the last four | `log.Fatalf` | `MigrationFails`, `MigrateFails` |
| `serving` | `http.ListenAndServe` | the requests below |

The environment crashes the process (`CutOff`), stops and starts PostgreSQL
(`DbDown`, `DbUp`) and drops the schema (`DropUsers`: `make migrate-down`, while no
migration runs). The SQL of one migration is sent as one query and takes effect
as a whole.

| Request | Steps (`upc`) |
|---|---|
| POST `/auth/register` | `insert` (`InsertUser`, `RefuseEmail`), then as a login |
| POST `/auth/login` | `lookup` (`FindByEmail`, `RefuseCredentials`), `issue` |
| POST `/auth/refresh` | `validate`, `find` (`FindById`, `RefuseUser`), `issue` |
| a request behind `AuthMiddleware` | `authorize`, `handle` (the requests of `Orders` and `Marketplace`) |

A token holds the user's id, role and expiry. `Token.schema`, how many resets
there had been when the user was read, is not among the claims: it is there to
state what a token promises. A password is its owner. An id, as `uuid.New` gives
it, is never given twice; the sample users of the second migration get theirs
again after a reset, and keep password and role. Nothing in a token tells an
access token from a refresh token, and `validateToken` accepts either in both
places: a client sends either of the tokens it holds (`Bearing`), with every
request that takes one, and an access token sent to `/auth/refresh` brings a new
access token. A request lasts as long as it likes: the clock (`Tick`) runs on beside
it, any statement may fail (`StatementFails`), and no step of a handler is promised.

### The abstract specification

`OrderBook` has `stock`, `uses` and `book`, and three atomic steps: `Place`,
`Amend`, `Cancel`. `Orders!ImplementsOrderBook` maps the committed tables to
them (open transactions are invisible), so every COMMIT must be a legal step
and everything else a stutter. It demands what the detailed module does not
say by itself: that a COMMIT, made of checks against several older states,
equals a request served alone.

## 3. Runs

Two sessions and two products are in every passing run of `Orders` and `Marketplace`
but for the single product of `marketplace`: the races of this
code are between two handlers (two creates, two cancellations, an update and a
cancellation), and a lock cycle needs two rows. Order ids, the items lists a
request may carry and the clock are bounded; order ids are never reused. No run but
`discount`, where the basket is full at `MaxTotal`, stops (`CHECK_DEADLOCK FALSE`);
in `v_two_active` the one user can only create and the ids run out. In `rules` the
two sessions are of one user and interchangeable, which is its symmetry.

| Run | Instance | What it shows |
|---|---|---|
| `serial` | a session for each of two users, one an administrator; 2 orders, created, updated and canceled; lists with a repeated product, without a common product and with a negative quantity; a code of one use | `TypeOK`, `TransactionsDisjoint`, `StockConserved`, `PromoAccounting`, `TotalsFollowLines`; refinement of `OrderBook` |
| `rules` | one user with two sessions, 3 orders, created, updated in any status and canceled; a clock of 2 values, limit of 1 minute | `ActiveOrdersBounded`, `RateLimited` |
| `answered` | two users, crossed lists, odd prices, a code whose minimum is the price of a list, one connection more than sessions, fairness | `TotalIsDiscounted`; every request is answered |
| `marketplace` | one product and one code, both inserted while the system runs, one clerk who edits, archives and deletes them, two users who create and cancel 2 orders | `MarketTypeOK`, `TransactionsDisjoint`, `CodeAccounting`, `NoDanglingCode`, `TotalIsDiscounted` |
| `listing` | 4 products stored, two of them of one instant, one to be inserted at a new instant or at the last one, all changing between two statuses; pages of 2; with and without a filter; from page 1 until a page is not full | `ListTypeOK`, `NothingMissed`, `NeverShort` |
| `server` | 2 clients who register one address and send either token, a sample user of one of them, 2 migrations, 2 attempts to connect, 1 failure, 1 reset, 3 instants, tokens of 1; fairness of the start | `ServerTypeOK`, `TokensNameUsers`, `ServesCompleteSchema`, `ComesUp` |
| `discount` | 66 codes, totals up to 120 cents | discount and rounding bounds, monotonicity |

Bounds. Stock of 2 or 3 per product lets one request succeed, exhaust it or ask too
much; with 3 bolts, two updates that exchange bolts for a nut can lock them
crosswise. A code with one use is the smallest that two creates compete for, and
they do when their lists have no row in common. Two
orders let one be canceled and a new one be placed while a stale handler is
still under way. In `marketplace` two orders compete for a stock of 1 (and both
stand after an edit overwrote it), a new price and a limit of one use are what
the clerk can set, and everything the clerk does falls between any two
statements of the orders; updates of orders are left to the other runs
(`TotalIsDiscounted` does not survive them, see below). `MaxTime` covers the
boundary of the rate limit. In `rules` overlapping cancellations, and updates of a
canceled order, return stock without end; the constraint `StockBound` ends a
behaviour where one unit too many has been returned, since neither rule looks at
the stock beyond whether there is some. A basket of 120
cents passes the minima (0, 1, 10 cents), the fixed values (1 to 101, and 250
stays above the total) and every rounding case of a percentage several times.

In `listing` a full listing takes three pages, so an insertion can fall
before, between and after pages, and between the COUNT and the page of each. A
page of 2 can be full, half full and empty, and the two products of one instant can
be on one page or on two. In `server` one failure is a crash, an
outage or a refused migration at any step, one reset brings a token of an older
schema together with the sample users of the new one; two ids let the second
registration of the address be refused and tried again after a reset. With
tokens of one unit every expiry falls within the run. The theorems below have
none of these bounds.

`serial` has one session per user, as refinement, stock and uses need: with two
sessions of one user they do not hold, as the next table shows. The rules about a
user's own orders are what such sessions race for, and `rules` has them do so.

### Disagreements found

Each run below is expected to fail, on the one property named.

| Run | Property | What happens |
|---|---|---|
| `v_two_active` | `AtMostOneActiveOrder` | two creates pass the check of `service_impl.go:64` before either commits |
| `v_double_cancel` | `StockConserved` | two cancellations load the order as CREATED and both return its stock |
| `v_revived` | `StatusFollowsTransitions` | an update of one session read the order before a cancellation of another committed, and writes CREATED back |
| `v_pool` | `Answered` | all connections held by transactions that need another one (2 connections stand for the 25) |
| `v_stock_overwritten` | `StockConserved` | an edit of a price writes back the stock it read before a reservation |

Other differences met while modelling are visible in the definitions and have
no run of their own.
- `UpdatedRow`: Update stores the full price and keeps the discount recorded,
  where `api/openapi/marketplace.yaml:331` says of the total "after discount".
  `TotalIsDiscounted` is therefore checked in runs without updates.
- `CalculateDiscount`: above 70 percent the discount is not capped at the
  maximum, it is the whole total; at exactly 70 percent float64 decides.
- `PromoApplies`: a basket that costs exactly the minimum of a code can be refused
  (three times 0.35 at a minimum of 1.05), and applies when it is summed otherwise.
- `RefuseOwner` refuses administrators whom `Authorize` let through, where
  `api/openapi/marketplace.yaml:917` and `964` allow them.
- Total and discount are rounded to the cent separately, so they can add up to
  a cent more than the order or a cent less (three times 0.35 at 50 percent is
  stored as 0.52 and 0.52): `RoundingBounded` allows that cent and no other.
- `Update` (`service_impl.go:195`) looks at no status: `LoadOrder` lets it through,
  and a canceled order's items are replaced and its stock returned once more,
  where `api/openapi/marketplace.yaml:915` says "Only allowed in CREATED status".
  `OnlyCreated` keeps clients from asking for it where stock is counted.
- `PageIndex`: pages count from 1, where `api/openapi/marketplace.yaml:677` says
  0-indexed and the answer's `page` counts from 0. A client that begins with
  page 0 reads the first page twice, and when it goes by `total_elements` it does
  not read the last (`FirstPage = 0`, `StopAtTotal = TRUE`).
- `LastPage`: going by `total_elements` misses a product even from page 1 on when
  one is inserted between COUNT and page (`StopAtTotal = TRUE`).
- `Front`: rows of one instant have no order, so two pages may overlap and miss
  one of them. The sample products are such rows; `NothingMissed` speaks of the
  others (`Alone`).
- A filtered listing can miss products: those that leave the filter move the
  later ones forward. `NothingMissed` speaks of the whole catalog.
- `RefuseToken`: `validateToken` compares the error with `==`, while jwt v5 wraps
  it, so an expired token is answered as an invalid one; `README.md:312` lists
  `TOKEN_EXPIRED`. The model has one refusal for both.
- `ValidateRefresh`: `/auth/refresh` takes an access token for a refresh token and
  answers with a new access token, so a session can be renewed for as long as the
  client likes, where `internal/users/service_impl.go` gives the two lifetimes of
  their own. No property bounds a session.
- `main` reads no `JWT_ACCESS_EXPIRY`, `JWT_REFRESH_EXPIRY` or `RATE_LIMIT_MINUTES`,
  which `docker-compose.yml` sets; it has the same values in its code.
- `UpdateProduct`: an update that read a product before it was archived makes
  it active again.

### Fairness

`Answered` is checked under `FairSpec`: strong fairness of `Advance(s)` and weak
fairness of `DeadlockVictim(s)`. Advancing is enabled again and again rather
than continuously when a row lock or a connection changes hands; it is granted
because PostgreSQL queues the waiters for a row, `database/sql` queues the
waiters for a connection, and the Go scheduler runs every ready goroutine. The
deadlock detector runs after `deadlock_timeout`. No fairness is assumed of
clients, failures, crashes or the clock.

`ComesUp` is checked under `FairServerSpec`: weak fairness of `BringUp`, since the
process runs and docker restarts it. `ComesUp` assumes in its own statement that the
database stays up from some time on. Its other outcome is the flag `dirty`:
nothing in the code clears a flag that a dead start has left, only the operator
does, and no fairness is assumed of the operator, of clients or of failures. Nor
is any of the requests of users: their repositories draw on the same pool of
connections as orders, which `v_pool` shows held for ever, and nothing sets a
timeout, so that they end is not claimed.

## 4. Proofs

All hold for every value of the constants under `SessionsAssumption`,
`DataAssumption` (or `PromoCodesAssumption`,
`ListingAssumption`, `StartupAssumption` and `UsersAssumption`), which TLC evaluates
in the runs. There is no bound on sessions, clients, products, orders, codes, quantities,
migrations, page sizes, failures or instants in them. Together they state every safety
property and every action property of the passing runs.

- **`TypeCorrect`, `TransactionsNeverOverlap`** (`OrdersProofs`). The inductive
  invariant `Safe` is `TypeOK /\ TransactionsDisjoint /\ StepsDefined`. That a
  stock stays a natural number when a transaction commits follows from what the
  CHECK saw when the row was written, and that only helps if nobody else has
  committed to the row since: this is `TransactionsDisjoint`. `StepsDefined`
  says that a handler about to write a product has one left to do.
- **`ActiveOrdersLimited`, `RateLimitHolds`** (`OrdersRulesProofs`), for any finite
  number of sessions, several of one user included, and any `Zone`. One active
  order and one create per limit is what the code means to grant a user; the
  theorems say that racing requests get at most one per session. `Actives` counts
  the orders that are active together with those that a handler past the check
  will store (`Potential`): a create joins them only while none is active, and then
  all of them belong to sessions. `Limits` counts, for every order stored, those
  that followed within the limit together with the creates that had passed the
  check before it (`Racing`): nobody passes it until the limit is over.
- **`Serial`**, the invariant that the refinement rests on, is in the same module,
  under `OneSessionPerUser`: what a handler has checked still holds (no active order
  for a create, owner and status for a change), and two creates have different
  ids. With two sessions of a user it does not (`v_two_active`, `v_revived`).
- **`PromoUsesExact`** (`OrdersAccountingProofs`), under `NoSharedChanges`: every
  user has one session, or all requests are creates (and then creates
  of one user may race). The inductive invariant `Uses` is `UsesExact` (the
  counter is the number of standing orders with the code), its limit, and
  `Ledger`: the id of a create is not stored; the row an update or a cancellation
  loaded is still stored with its owner, status and code (unless the code was
  deleted, and then its COMMIT is refused); and each label of `pc` belongs to the
  requests that reach it. From `Ledger` the one row a COMMIT writes is
  known (`CreatedRowIs`, `UpdatedRowIs`, `CanceledRowIs`), and with it what it
  does to the counter (`CommitCodes`) and to the set of orders (`CommitCarriers`).
- **`StockIsConserved`**, under `NoSharedChanges` and `OnlyOpenUpdated` (clients update
  orders in status CREATED only, or do not update). The inductive invariant
  `Stocked` adds `StockProgress`: what a transaction has written so far to each
  product is what its old items gave back less what the new lines took, at
  each of its statements, in whatever order the SELECT returned the items
  (`QuantityOfShuffled`). At the COMMIT this is the difference between what the old
  row and the new one hold (`CommitMoves`). Without either hypothesis it is false:
  `v_double_cancel`, and an update of a canceled order (section 3).
- **`AmountsMatchLines`** has no hypothesis: any number of sessions may create, update
  and cancel the same orders. **`TotalsAddUp`** says more, that the recorded
  discount is granted, and holds while orders are not updated (section 3).
  `Totals` carries the running sum of every handler's lines (`LineTotals`); the cent
  comes from storing two parts (`RoundedParts`), wherever float64 lets them fall.
- **`ImplementsBook`**: `Spec => ImplementsOrderBook`, the refinement, under `OneSessionPerUser`,
  `OnlyOpenUpdated` and codes that begin within their limit. The invariant
  `Bookable` joins `Serial`, `Stocked` and `Uses` with `ListProgress` (the lines made
  and the items left are those of the request), `Asked`, `StatusReached` and
  `LimitsFixed`. Each kind of COMMIT is shown to be one step of the book
  (`CreatePlaces`, `UpdateAmends`, `CancelCancels`) and every other step, a refusal,
  a deadlock, a crash, to leave it alone. The checks of Create, made at
  three moments, amount to one check at the COMMIT because `Serial` keeps the
  first, the limit is in a CHECK, and nobody takes reserved stock.
- **`MarketTypeCorrect`, `StaffRespectReservations`, `CodesAlwaysThere`**
  (`MarketplaceProofs`), under `StaffAssumption` as well. The inductive
  invariant `MarketSafe` is `Safe` with the types of the desks, and `NoDanglingCode`. The
  steps of the orders service are covered by the lemmas of `OrdersProofs`; for
  the staff's, the point is that a write to a product needs its row unlocked,
  so no open transaction has checked a stock that the write replaces.
- **`CodesCounted`, `MarketTotalsAddUp`, `MarketAmountsMatchLines`**
  (`MarketplaceProofs`): the first under `NoSharedChanges` and with codes that begin
  unused, the second without updates, the third without a hypothesis. `MarketLedger` adds to
  `Ledger` that no handler holds a code still to be inserted (`LaterUnknown`):
  otherwise an insertion could give a counter of zero to a code that an order is
  about to write back. A deletion takes the code off its orders and out of the
  count together, and a lower limit is refused below the uses; a change of price
  reaches no line already read.
- **`DiscountWithinTotal`, `RoundingWithinACent`, `LargerNeverCheaper`**
  (`DiscountProofs`), for every code and total and every outcome float64 can give;
  the last one for codes other than 70 percent (`Seventy`).
- **`ListingComplete`, `PagesNeverShort`, `ListTypeCorrect`** (`ListingProofs`), for a
  client that starts at page 1 or 0, over any catalog, products of one instant
  included; the first for a client that stops at a page that is not full. The
  products newer than a given one (`Newer`) only grow, by insertions: so what was
  there at the beginning, and shares its instant with nobody, is either seen or
  still lies behind the pages read. The inductive invariants `PageInv` and `SeenInv`
  say this with cardinalities.
- **`ServesComplete`** (`UsersProofs`). The inductive invariant `BootInv` says that
  `version` is what the schema has unless `dirty` is set, and then the last
  migration may be missing; and what each step of `runMigrations` knows of it.
- **`ServerTypeCorrect`, `TokensTrue`** (`UsersProofs`). `UsersInv`
  adds to `BootInv`: handlers run only while the server serves; ids of rows,
  tokens and registrations under way are below `nextId` and the last are
  nobody's yet (`FreshId`); every token, and every row a handler keeps until it
  signs, names a row of its holder or one that is gone (`Names`), and if its id
  is a sample user's the sample user is the holder's; a refresh under way bears a
  token of its client, of either kind (`RequestInv`).

**Sums.** `Held`, `Quantity` and `Amount` are folds over finite sets, and what a
fold yields can not be proved by an induction theorem that takes an operator. `SumProofs` gets
there with a smallest counterexample: among the subsets of a finite set, ordered
by inclusion, which is well founded, there would be a least one on which the
equation fails, and removing an element from it gives a smaller one. In this way
the fold's recursive function is shown to exist and to be the only one
(`SumExists`, `SumUnique`), and then to add up in any order. The lemmas
are about one function and one set (`SumAdd`, `SumRemove`, `SumExt`, `SumImage`)
and everything else cites those.

**Only model-checked.** `Answered` and `ComesUp`: liveness under
fairness. The five violations are counterexamples and need no proof. No check in the
code enforces `OneSessionPerUser`, `NoSharedChanges` or `OnlyOpenUpdated`: they say what a client
has to observe for stock, uses and the book, and section 3 shows what goes wrong
when one does not.

## 5. Not modelled

- Requests refused by role, seller or validation before the first write, other
  than those of `Orders`: they change nothing.
- `GetOrder` and `GetByID` as requests: they change nothing. Error texts,
  decoding, JSON and logging.
- Overflow: `quantity` and `stock` are 32-bit in the table and PostgreSQL
  refuses what does not fit with an error (`DbError`); a DECIMAL(12,2) too.
- Fractional percentages. (An amount so large that float64 is off by half a cent does
  not fit a DECIMAL(12,2) and is refused.)
- The answer to a request is not a variable: a client whose acknowledgement is
  lost is one that sends any request again.
- Signing, bcrypt, uuid and the parsing of tokens, which are taken to do what they
  promise; the `Authorization` header.
- Logging, request ids, error bodies, `internal/config` (called by nobody),
  `RequireRole` (used by no route).
- Users in `Orders`: a session's user and role are constants there, which
  `TokensNameUsers` justifies for the time a token lives.
- A reset while a migration runs, and more than one server process: the
  deployment has one.
- The statuses after CREATED other than CANCELED are never reached: no code
  performs those transitions.

## 6. Plan

1. `Marketplace`: an abstract specification for the catalog (an edit as one
   step), which holds while nobody orders, and liveness of the edits.
2. GetOrder's two reads beside an update, and a filtered listing's exact promise.
3. Proofs: the staff's product edits against `StockConserved` (which edits keep it),
   the bounds on a user's orders beside the staff, and the book under the marketplace's steps.
4. Two server processes on one database: golang-migrate's advisory lock.
