------------------------------ MODULE Listing ------------------------------
(***************************************************************************)
(* GET /products (internal/products, List): a client reads the catalog     *)
(* page by page while sellers insert products and change their status.     *)
(*                                                                         *)
(* One answer is two statements, COUNT and then the page, without a        *)
(* transaction around them, and every page is a request of its own.  A     *)
(* product is never deleted, its created_at never changes: a filter on the *)
(* status (or the category, which is treated alike) is what products leave *)
(* and enter.                                                              *)
(***************************************************************************)
EXTENDS Domain, FiniteSets

CONSTANTS
  Product,          \* bound: the products there can be
  InitialProducts,  \* their rows at the start
  Statuses,         \* bound: the statuses a seller sets
  FirstInstant,     \* the clock at the start: rows may have one instant
  AskedSize,        \* the request's ?size=
  NoFilter,         \* the request without ?status=
  Filters,          \* the filters clients ask for
  FirstPage,        \* the ?page= a client begins with: 1, or 0 as the API says
  StopAtTotal       \* TRUE: it stops when total_elements says so;
                    \* FALSE: when a page is not full

\* "new": the handler has set created_at, the row is not inserted yet.
Row == [stage : {"absent", "new", "stored"}, created : Nat, status : ProductStatus]

ASSUME ListingAssumption ==
  /\ IsFiniteSet(Product)
  /\ InitialProducts \in [Product -> Row]
  /\ FirstInstant \in Nat
  /\ \A p \in Product : InitialProducts[p].created <= FirstInstant
  /\ AskedSize \in Int
  /\ Statuses \subseteq ProductStatus
  /\ Filters \subseteq ProductStatus \cup {NoFilter} /\ NoFilter \notin ProductStatus
  /\ FirstPage \in {0, 1} /\ StopAtTotal \in BOOLEAN

VARIABLES
  products,  \* the catalog
  clock,     \* time.Now()
  step,      \* what the client, or the handler serving it, is at
  filter,    \* ?status= of the listing
  query,     \* ?page= of the request
  total,     \* total_elements of the answer
  items,     \* the products of the answer
  seen,      \* the products of all answers so far
  before     \* the products that matched when the listing began

catalog == <<products, clock>>
listVars == <<products, clock, step, filter, query, total, items, seen, before>>

ListInit ==
  /\ products = InitialProducts /\ clock = FirstInstant
  /\ step = "idle" /\ filter = NoFilter /\ query = FirstPage
  /\ total = 0 /\ items = {} /\ seen = {} /\ before = {}

-----------------------------------------------------------------------------
(* The sellers. *)

\* products.Service.Create sets created_at; two products may get one instant ...
StampProduct(p) ==
  /\ products[p].stage = "absent"
  /\ clock' \in {clock, clock + 1}
  /\ \E status \in Statuses :
       products' = [products EXCEPT ![p] =
                      [stage |-> "new", created |-> clock', status |-> status]]
  /\ UNCHANGED <<step, filter, query, total, items, seen, before>>

\* ... and inserts the row later, or never when the INSERT fails.
InsertProduct(p) ==
  /\ products[p].stage = "new"
  /\ products' = [products EXCEPT ![p].stage = "stored"]
  /\ UNCHANGED <<clock, step, filter, query, total, items, seen, before>>

\* UpdateProduct and DeleteProduct.
SetStatus(p) ==
  /\ products[p].stage = "stored"
  /\ \E status \in Statuses \ {products[p].status} :
       products' = [products EXCEPT ![p].status = status]
  /\ UNCHANGED <<clock, step, filter, query, total, items, seen, before>>

-----------------------------------------------------------------------------
(* The handler. *)

\* WHERE status = $1
Matching(f) ==
  {p \in Product : products[p].stage = "stored" /\ (f = NoFilter \/ products[p].status = f)}

\* Mutant: ?size= is not read.
DefaultPageSize(n) == 20

\* A size that is not within 1..100 is replaced by 20.
PageSize(n) == IF n \in 1..100 THEN n ELSE 20

Size == PageSize(AskedSize)

\* Mutant: the handler's number goes to the repository as it is.
PageAsAsked(q) == q

\* The handler takes pages from 1 on, the repository from 0 on; what is not a
\* positive number is the first page.
PageIndex(q) == IF q > 0 THEN q - 1 ELSE 0

\* ORDER BY created_at DESC: a front of the matching products is read before
\* the others.  Products of one instant come in any order.
Front(S, matching) ==
  /\ S \subseteq matching
  /\ \A p \in S, q \in matching \ S : products[p].created >= products[q].created

Capped(n, m) == IF n <= m THEN n ELSE m

\* LIMIT Size OFFSET offset
Window(rows, offset, matching) ==
  \E skipped \in SUBSET (matching \ rows) :
    /\ Front(skipped, matching) /\ Front(skipped \cup rows, matching)
    /\ Cardinality(skipped) = Capped(offset, Cardinality(matching))
    /\ Cardinality(rows) = Capped(Size, Cardinality(matching) - Cardinality(skipped))

CountProducts ==
  /\ step = "count"
  /\ total' = Cardinality(Matching(filter))
  /\ step' = "page"
  /\ UNCHANGED <<catalog, filter, query, items, seen, before>>

ReadPage ==
  /\ step = "page"
  /\ \E rows \in SUBSET Matching(filter) :
       /\ Window(rows, PageIndex(query) * Size, Matching(filter))
       /\ items' = rows
  /\ step' = "answer"
  /\ UNCHANGED <<catalog, filter, query, total, seen, before>>

\* A statement fails: the client is answered with an error and asks again.
ListFails ==
  /\ step \in {"count", "page"}
  /\ step' = "count" /\ total' = 0
  /\ UNCHANGED <<catalog, filter, query, items, seen, before>>

-----------------------------------------------------------------------------
(* The client. *)

BeginListing ==
  /\ step = "idle"
  /\ \E f \in Filters :
       /\ filter' = f
       /\ before' = Matching(f)
  /\ step' = "count"
  /\ UNCHANGED <<catalog, query, total, items, seen>>

LastPage ==
  IF StopAtTotal THEN (query + 1 - FirstPage) * Size >= total
  ELSE Cardinality(items) < Size

TakeAnswer ==
  /\ step = "answer"
  /\ seen' = seen \cup items
  /\ IF LastPage
     THEN step' = "done" /\ UNCHANGED query
     ELSE step' = "count" /\ query' = query + 1
  /\ total' = 0 /\ items' = {}
  /\ UNCHANGED <<catalog, filter, before>>

ListNext ==
  \/ \E p \in Product : StampProduct(p) \/ InsertProduct(p) \/ SetStatus(p)
  \/ CountProducts \/ ReadPage \/ ListFails
  \/ BeginListing \/ TakeAnswer

ListSpec == ListInit /\ [][ListNext]_listVars

-----------------------------------------------------------------------------
(* Properties. *)

\* Every variable has its type, and an answer never holds more products than
\* the client asked for.
ListTypeOK ==
  /\ products \in [Product -> Row]
  /\ clock \in Nat
  /\ step \in {"idle", "count", "page", "answer", "done"}
  /\ filter \in ProductStatus \cup {NoFilter}
  /\ query \in Nat /\ total \in Nat
  /\ AskedSize \in 1..100 => Cardinality(items) <= AskedSize
  /\ items \subseteq Product /\ seen \subseteq Product /\ before \subseteq Product

\* No other row has this product's created_at.
Alone(p) ==
  \A q \in Matching(NoFilter) \ {p} : products[q].created # products[p].created

\* Who lists the whole catalog from page 1 on until a page is not full has seen
\* every product that was there when they began and shares its created_at with no
\* other, whatever was inserted between two pages or between the two statements
\* of one.  (Rows that share one, as the sample products do, come in any order,
\* so that two pages can both show one of them and neither another.)
NothingMissed ==
  step = "done" /\ filter = NoFilter => \A p \in before : Alone(p) => p \in seen

\* A page of the whole catalog holds at least what its own total_elements
\* promises of it, although the rows are read by a later statement.
NeverShort ==
  step = "answer" /\ filter = NoFilter =>
    Cardinality(items) >= Capped(Size, total - (query - FirstPage) * Size)
=============================================================================
