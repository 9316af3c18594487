--------------------------- MODULE ListingProofs ---------------------------
(***************************************************************************)
(* A listing that goes on until a page is short misses no product whose    *)
(* created_at is its own: rows only come in, wherever in the order they    *)
(* come, and so push a product to later pages and never to earlier ones.   *)
(***************************************************************************)
EXTENDS Listing, FiniteSetTheorems, TLAPS

Stored == Matching(NoFilter)

\* The products a page shows before p.
Newer(p) == {q \in Stored : products[q].created > products[p].created}

Offset(q) == PageIndex(q) * Size

\* What one page says.
PageInv ==
  /\ ListTypeOK
  /\ query >= FirstPage
  /\ filter = NoFilter /\ step = "page" => total <= Cardinality(Stored)
  /\ NeverShort

\* What all pages together have shown: a product not seen yet comes on a later
\* page, unless another has its created_at.
SeenInv ==
  /\ step = "idle" => query = FirstPage
  /\ filter = NoFilter /\ step # "idle" => before \subseteq Stored
  /\ filter = NoFilter /\ step \in {"count", "page"} =>
       \A p \in before \ seen : Alone(p) => Cardinality(Newer(p)) >= Offset(query)
  /\ filter = NoFilter /\ step = "answer" =>
       \A p \in before \ (seen \cup items) :
         Alone(p) =>
           Cardinality(items) = Size /\ Cardinality(Newer(p)) >= Offset(query) + Size
  /\ NothingMissed

-----------------------------------------------------------------------------
(* Pages and sets of products. *)

LEMMA SizeType == Size \in Nat /\ Size >= 1 /\ (AskedSize \in 1..100 => Size = AskedSize)
BY ListingAssumption DEF Size, PageSize

LEMMA Times == \A a, b, n \in Nat : a <= b => a * n \in Nat /\ a * n <= b * n
OBVIOUS

\* Where the pages begin.
LEMMA Offsets ==
  ASSUME NEW q \in Nat, q >= FirstPage
  PROVE  /\ Offset(q) \in Nat
         /\ Offset(FirstPage) = 0
         /\ Offset(q + 1) <= Offset(q) + Size
         /\ Offset(q) <= (q - FirstPage) * Size
<1>1. PageIndex(q) \in Nat /\ q - FirstPage \in Nat /\ PageIndex(q) <= q - FirstPage
  BY ListingAssumption DEF PageIndex
<1>2. PageIndex(q + 1) \in Nat /\ PageIndex(q + 1) <= PageIndex(q) + 1
  BY DEF PageIndex
<1>3. PageIndex(FirstPage) = 0
  BY ListingAssumption DEF PageIndex
<1>4. Offset(q) \in Nat /\ Offset(q) <= (q - FirstPage) * Size
  BY <1>1, Times, SizeType DEF Offset
<1>5. PageIndex(q + 1) * Size <= (PageIndex(q) + 1) * Size
  BY <1>1, <1>2, Times, SizeType
<1>6. (PageIndex(q) + 1) * Size = PageIndex(q) * Size + Size
  BY <1>1, SizeType
<1> QED
  BY <1>2, <1>3, <1>4, <1>5, <1>6, SizeType DEF Offset

\* Sets of products are finite, and a part is not larger than the whole.
LEMMA Sizes ==
  /\ \A S \in SUBSET Product : IsFiniteSet(S) /\ Cardinality(S) \in Nat
  /\ \A S, T \in SUBSET Product : S \subseteq T => Cardinality(S) <= Cardinality(T)
  /\ \A S, T \in SUBSET Product :
       S \subseteq T /\ S # T => Cardinality(S) < Cardinality(T)
<1>1. ASSUME NEW S \in SUBSET Product
      PROVE  IsFiniteSet(S) /\ Cardinality(S) \in Nat
  BY FS_Subset, FS_CardinalityType, ListingAssumption
<1>2. ASSUME NEW S \in SUBSET Product, NEW T \in SUBSET Product, S \subseteq T
      PROVE  Cardinality(S) <= Cardinality(T) /\ (Cardinality(S) = Cardinality(T) => S = T)
  <2>1. IsFiniteSet(T) /\ S \in SUBSET T
    BY <1>1, <1>2
  <2> QED
    BY <2>1, FS_Subset
<1> QED
  BY <1>1, <1>2

\* LIMIT Size OFFSET offset over a finite set of rows.
LEMMA WindowSize ==
  ASSUME NEW matching \in SUBSET Product, NEW rows \in SUBSET matching,
         NEW offset \in Nat, NEW skipped \in SUBSET (matching \ rows),
         Cardinality(skipped) = Capped(offset, Cardinality(matching)),
         Cardinality(rows) = Capped(Size, Cardinality(matching) - Cardinality(skipped))
  PROVE  /\ Cardinality(rows) <= Size
         /\ Cardinality(rows) >= Capped(Size, Cardinality(matching) - offset)
         /\ Cardinality(skipped \cup rows) = Cardinality(skipped) + Cardinality(rows)
         /\ skipped \cup rows # matching =>
              Cardinality(skipped) = offset /\ Cardinality(rows) = Size
<1>1. /\ Cardinality(matching) \in Nat /\ Cardinality(skipped) \in Nat
      /\ Cardinality(rows) \in Nat /\ Cardinality(skipped) <= Cardinality(matching)
      /\ IsFiniteSet(rows) /\ IsFiniteSet(skipped)
  <2>1. skipped \in SUBSET Product /\ rows \in SUBSET Product /\ skipped \subseteq matching
    OBVIOUS
  <2> QED
    BY <2>1, Sizes
<1>2. /\ Cardinality(rows) <= Size
      /\ Cardinality(rows) >= Capped(Size, Cardinality(matching) - offset)
  BY <1>1, SizeType DEF Capped
<1>3. Cardinality(skipped \cup rows) = Cardinality(skipped) + Cardinality(rows)
  <2>1. skipped \cap rows = {}
    OBVIOUS
  <2> QED
    BY <1>1, <2>1, FS_Union, FS_EmptySet
<1>4. ASSUME skipped \cup rows # matching
      PROVE  Cardinality(skipped) = offset /\ Cardinality(rows) = Size
  <2>1. skipped \cup rows \in SUBSET Product /\ skipped \cup rows \subseteq matching
    OBVIOUS
  <2>2. Cardinality(skipped) + Cardinality(rows) < Cardinality(matching)
    BY <1>3, <1>4, <2>1, Sizes
  <2> QED
    BY <1>1, <2>2, SizeType DEF Capped
<1> QED
  BY <1>2, <1>3, <1>4

\* A product as far back as the page begins is on the page, or the page is full
\* and the product comes after it.
LEMMA WindowRank ==
  ASSUME products \in [Product -> Row],
         NEW offset \in Nat, NEW rows \in SUBSET Stored, Window(rows, offset, Stored),
         NEW p \in Stored \ rows, Alone(p), Cardinality(Newer(p)) >= offset
  PROVE  Cardinality(rows) = Size /\ Cardinality(Newer(p)) >= offset + Size
<1>1. PICK skipped \in SUBSET (Stored \ rows) :
        /\ Front(skipped, Stored) /\ Front(skipped \cup rows, Stored)
        /\ Cardinality(skipped) = Capped(offset, Cardinality(Stored))
        /\ Cardinality(rows) = Capped(Size, Cardinality(Stored) - Cardinality(skipped))
  BY DEF Window
<1>2. Stored \in SUBSET Product /\ Newer(p) \in SUBSET Product
  BY DEF Stored, Matching, Newer
<1>3. Cardinality(Stored) \in Nat /\ Cardinality(skipped) \in Nat /\ skipped \in SUBSET Product
      /\ Cardinality(Newer(p)) \in Nat
  <2>1. skipped \in SUBSET Product
    BY <1>2
  <2> QED
    BY <1>2, <2>1, Sizes
<1>4. \A q \in Product : products[q].created \in Nat
  BY DEF Row
<1>5. p \notin skipped
  <2> SUFFICES ASSUME p \in skipped PROVE FALSE
    OBVIOUS
  <2>1. Newer(p) \subseteq skipped
    BY <1>1, <1>2, <1>4 DEF Newer, Front
  <2>2. p \notin Newer(p)
    BY <1>2, <1>4 DEF Newer
  <2>3. Cardinality(Newer(p)) < Cardinality(skipped)
    BY <1>2, <1>3, <2>1, <2>2, Sizes
  <2> QED
    BY <1>1, <1>3, <2>3 DEF Capped
<1>6. skipped \cup rows # Stored
  BY <1>5
<1>7. Cardinality(skipped) = offset /\ Cardinality(rows) = Size
      /\ Cardinality(skipped \cup rows) = offset + Size
  <2>1. /\ Cardinality(skipped \cup rows) = Cardinality(skipped) + Cardinality(rows)
        /\ skipped \cup rows # Stored => Cardinality(skipped) = offset /\ Cardinality(rows) = Size
    <3> HIDE DEF Stored
    <3> QED
      BY <1>1, <1>2, WindowSize
  <2> QED
    BY <1>6, <2>1
<1>8. skipped \cup rows \subseteq Newer(p)
  <2> SUFFICES ASSUME NEW q \in skipped \cup rows PROVE q \in Newer(p)
    OBVIOUS
  <2>1. q \in Stored /\ q # p /\ products[q].created >= products[p].created
    BY <1>1, <1>5 DEF Front
  <2>2. products[q].created # products[p].created
    BY <2>1 DEF Alone, Stored
  <2> QED
    BY <1>2, <1>4, <2>1, <2>2 DEF Newer
<1>9. Cardinality(skipped \cup rows) <= Cardinality(Newer(p))
  <2>1. skipped \cup rows \in SUBSET Product
    BY <1>2
  <2> QED
    BY <1>2, <1>8, <2>1, Sizes
<1> QED
  BY <1>7, <1>9
-----------------------------------------------------------------------------
(* The sellers: the catalog grows, and no row changes its instant.           *)

SellerStep ==
  \E p \in Product : StampProduct(p) \/ InsertProduct(p) \/ SetStatus(p)

LEMMA InitListInv == ListInit => PageInv /\ SeenInv
<1> SUFFICES ASSUME ListInit PROVE PageInv /\ SeenInv
  OBVIOUS
<1>1. ListTypeOK
  BY ListingAssumption, FS_EmptySet DEF ListInit, ListTypeOK
<1> QED
  BY <1>1, ListingAssumption DEF ListInit, PageInv, SeenInv, NothingMissed, NeverShort

LEMMA SellersKeepRows ==
  ASSUME ListTypeOK, SellerStep
  PROVE  /\ products' \in [Product -> Row] /\ clock' \in Nat
         /\ Stored \subseteq Stored'
         /\ \A p \in Stored : products'[p].created = products[p].created
<1> USE DEF ListTypeOK, Stored, Matching
<1>1. PICK p \in Product : StampProduct(p) \/ InsertProduct(p) \/ SetStatus(p)
  BY DEF SellerStep
<1>2. CASE StampProduct(p)
  <2>1. PICK status \in Statuses :
          products' = [products EXCEPT ![p] =
                         [stage |-> "new", created |-> clock', status |-> status]]
    BY <1>2 DEF StampProduct
  <2>2. /\ products[p].stage = "absent" /\ clock' \in Nat /\ status \in ProductStatus
    BY <1>2, ListingAssumption DEF StampProduct
  <2>3. products'[p].stage = "new" /\ \A q \in Product \ {p} : products'[q] = products[q]
    BY <2>1
  <2>4. products' \in [Product -> Row]
    BY <2>1, <2>2 DEF Row
  <2> QED
    BY <2>2, <2>3, <2>4
<1>3. CASE InsertProduct(p) \/ SetStatus(p)
  <2>1. products[p] \in Row /\ products[p].stage \in {"new", "stored"} /\ clock' = clock
    BY <1>3 DEF InsertProduct, SetStatus
  <2>2. \E row \in Row : /\ products' = [products EXCEPT ![p] = row]
                          /\ row.stage = "stored" /\ row.created = products[p].created
    <3>1. CASE InsertProduct(p)
      <4> DEFINE row == [stage |-> "stored", created |-> products[p].created,
                         status |-> products[p].status]
      <4>1. row \in Row /\ [products[p] EXCEPT !.stage = "stored"] = row
        BY <2>1 DEF Row
      <4>2. products' = [products EXCEPT ![p] = row]
        BY <3>1, <4>1 DEF InsertProduct
      <4> QED
        BY <4>1, <4>2
    <3>2. CASE SetStatus(p)
      <4>1. PICK status \in Statuses : products' = [products EXCEPT ![p].status = status]
        BY <3>2 DEF SetStatus
      <4> DEFINE row == [stage |-> products[p].stage, created |-> products[p].created,
                         status |-> status]
      <4>2. status \in ProductStatus /\ products[p].stage = "stored"
        BY <3>2, ListingAssumption DEF SetStatus
      <4>3. row \in Row /\ [products[p] EXCEPT !.status = status] = row
        BY <2>1, <4>2 DEF Row
      <4>4. products' = [products EXCEPT ![p] = row]
        BY <4>1, <4>3
      <4> QED
        BY <4>2, <4>3, <4>4
    <3> QED
      BY <1>3, <3>1, <3>2
  <2>3. /\ products' \in [Product -> Row] /\ clock' = clock /\ products'[p].stage = "stored"
        /\ \A q \in Product : products'[q].created = products[q].created
        /\ \A q \in Product \ {p} : products'[q].stage = products[q].stage
    BY <2>1, <2>2
  <2>4. Stored \subseteq Stored'
    BY <2>3
  <2> QED
    BY <2>3, <2>4
<1> QED
  BY <1>1, <1>2, <1>3

\* What was before a product stays before it, and a product that is alone was
\* alone.
LEMMA NewerGrows ==
  ASSUME Stored \subseteq Stored',
         \A p \in Stored : products'[p].created = products[p].created,
         NEW p \in Stored
  PROVE  /\ Cardinality(Newer(p)) <= Cardinality(Newer(p)')
         /\ Cardinality(Newer(p)) \in Nat /\ Cardinality(Newer(p)') \in Nat
         /\ Alone(p)' => Alone(p)
<1>1. Newer(p) \subseteq Newer(p)'
  BY DEF Newer
<1>2. Newer(p) \in SUBSET Product /\ Newer(p)' \in SUBSET Product
  BY DEF Newer, Stored, Matching
<1>3. Alone(p)' => Alone(p)
  BY DEF Alone, Stored
<1> QED
  BY <1>1, <1>2, <1>3, Sizes

LEMMA SellersKeepPages ==
  ASSUME PageInv, SellerStep PROVE PageInv'
<1>1. UNCHANGED <<step, filter, query, total, items, seen, before>>
  BY DEF SellerStep, StampProduct, InsertProduct, SetStatus
<1>2. products' \in [Product -> Row] /\ clock' \in Nat /\ Stored \subseteq Stored'
  BY SellersKeepRows DEF PageInv
<1>3. Cardinality(Stored) <= Cardinality(Stored')
      /\ Cardinality(Stored) \in Nat /\ Cardinality(Stored') \in Nat
  <2>1. Stored \in SUBSET Product /\ Stored' \in SUBSET Product
    BY DEF Stored, Matching
  <2> QED
    BY <1>2, <2>1, Sizes
<1>4. ListTypeOK'
  BY <1>1, <1>2 DEF PageInv, ListTypeOK
<1>5. filter = NoFilter /\ step = "page" => total <= Cardinality(Stored')
  BY <1>3 DEF PageInv, ListTypeOK
<1>6. NeverShort'
  BY <1>1 DEF PageInv, NeverShort
<1> QED
  BY <1>1, <1>4, <1>5, <1>6 DEF PageInv

LEMMA SellersKeepSeen ==
  ASSUME PageInv, SeenInv, SellerStep PROVE SeenInv'
<1>1. UNCHANGED <<step, filter, query, total, items, seen, before>>
  BY DEF SellerStep, StampProduct, InsertProduct, SetStatus
<1>2. /\ Stored \subseteq Stored'
      /\ \A p \in Stored : products'[p].created = products[p].created
  BY SellersKeepRows DEF PageInv
<1>3. Offset(query)' = Offset(query) /\ Offset(query) \in Nat /\ Size \in Nat
  BY <1>1, Offsets, SizeType DEF PageInv, ListTypeOK, Offset, PageIndex
<1>4. \A p \in Stored : \A n \in Nat :
        Cardinality(Newer(p)) >= n => Cardinality(Newer(p)') >= n
  BY <1>2, NewerGrows
<1>5. \A p \in Stored : Alone(p)' => Alone(p)
  BY <1>2, NewerGrows
<1>6. ASSUME filter = NoFilter, step # "idle", NEW p \in before, Alone(p)'
      PROVE  p \in Stored /\ Alone(p)
  BY <1>5, <1>6 DEF SeenInv
<1>7. ASSUME filter = NoFilter, step \in {"count", "page"}, NEW p \in before \ seen, Alone(p)'
      PROVE  Cardinality(Newer(p)') >= Offset(query)
  BY <1>3, <1>4, <1>6, <1>7 DEF SeenInv
<1>8. ASSUME filter = NoFilter, step = "answer", NEW p \in before \ (seen \cup items), Alone(p)'
      PROVE  Cardinality(items) = Size /\ Cardinality(Newer(p)') >= Offset(query) + Size
  <2>1. Offset(query) + Size \in Nat
    BY <1>3
  <2> QED
    BY <2>1, <1>4, <1>6, <1>8 DEF SeenInv
<1>9. NothingMissed'
  BY <1>1, <1>6 DEF SeenInv, NothingMissed
<1>10. filter = NoFilter /\ step # "idle" => before \subseteq Stored'
  BY <1>2 DEF SeenInv
<1>11. step = "idle" => query = FirstPage
  BY DEF SeenInv
<1>12. Size' = Size
  BY DEF Size, PageSize
<1> QED
  BY <1>1, <1>3, <1>7, <1>8, <1>9, <1>10, <1>11, <1>12 DEF SeenInv
-----------------------------------------------------------------------------
(* The handler and the client: the catalog does not change.                  *)

\* What is the same in a state with the same catalog.
LEMMA SameCatalog ==
  ASSUME UNCHANGED catalog
  PROVE  /\ Stored' = Stored
         /\ \A p \in Product : Newer(p)' = Newer(p)
         /\ \A p : Alone(p)' <=> Alone(p)
BY DEF catalog, Stored, Matching, Newer, Alone

LEMMA BeginKeepsPages ==
  ASSUME PageInv, BeginListing PROVE PageInv'
<1>1. UNCHANGED catalog /\ step' = "count" /\ UNCHANGED <<query, total, items, seen>>
  BY DEF BeginListing
<1>2. PICK f \in Filters : filter' = f /\ before' = Matching(f)
  BY DEF BeginListing
<1>3. ListTypeOK'
  BY <1>1, <1>2, ListingAssumption DEF PageInv, ListTypeOK, catalog, Matching
<1> QED
  BY <1>1, <1>3 DEF PageInv, NeverShort

LEMMA BeginKeepsSeen ==
  ASSUME PageInv, SeenInv, BeginListing PROVE SeenInv'
<1>1. UNCHANGED catalog /\ step' = "count" /\ query' = FirstPage /\ query' = query
      /\ UNCHANGED <<total, items, seen>>
  BY DEF BeginListing, SeenInv
<1>2. PICK f \in Filters : filter' = f /\ before' = Matching(f)
  BY DEF BeginListing
<1>3. filter' = NoFilter => before' = Stored
  BY <1>2 DEF Stored
<1>4. ASSUME NEW p \in before' PROVE Cardinality(Newer(p)') >= Offset(query)'
  <2>1. Newer(p)' \in SUBSET Product
    BY DEF Newer, Stored, Matching
  <2>2. Offset(query)' = 0
    BY <1>1, ListingAssumption, Offsets DEF Offset, PageIndex
  <2> QED
    BY <2>1, <2>2, Sizes
<1>5. Stored' = Stored
  BY <1>1, SameCatalog
<1>6. NothingMissed'
  BY <1>1 DEF NothingMissed
<1> QED
  BY <1>1, <1>3, <1>4, <1>5, <1>6 DEF SeenInv

LEMMA CountKeepsPages ==
  ASSUME PageInv, CountProducts \/ ListFails PROVE PageInv'
<1>1. /\ UNCHANGED <<catalog, filter, query, items, seen, before>>
      /\ step' \in {"count", "page"}
      /\ total' = 0 \/ total' = Cardinality(Matching(filter))
  BY DEF CountProducts, ListFails
<1>2. Matching(filter) \in SUBSET Product /\ Stored \in SUBSET Product
  BY DEF Matching, Stored
<1>3. Cardinality(Matching(filter)) \in Nat /\ Cardinality(Stored) \in Nat
  BY <1>2, Sizes
<1>4. ListTypeOK'
  BY <1>1, <1>3 DEF PageInv, ListTypeOK, catalog
<1>5. filter = NoFilter => total' <= Cardinality(Stored)
  BY <1>1, <1>3 DEF Stored
<1>6. Stored' = Stored
  BY <1>1, SameCatalog
<1> QED
  BY <1>1, <1>4, <1>5, <1>6 DEF PageInv, NeverShort

LEMMA CountKeepsSeen ==
  ASSUME PageInv, SeenInv, CountProducts \/ ListFails PROVE SeenInv'
<1>1. /\ UNCHANGED <<catalog, filter, query, items, seen, before>>
      /\ step \in {"count", "page"} /\ step' \in {"count", "page"}
  BY DEF CountProducts, ListFails
<1>2. /\ Stored' = Stored /\ \A p \in Product : Newer(p)' = Newer(p)
      /\ \A p : Alone(p)' <=> Alone(p)
  BY <1>1, SameCatalog
<1>3. ASSUME filter = NoFilter, NEW p \in before \ seen, Alone(p)'
      PROVE  Cardinality(Newer(p)') >= Offset(query)
  <2>1. p \in Product
    BY DEF PageInv, ListTypeOK
  <2> QED
    BY <1>1, <1>2, <1>3, <2>1 DEF SeenInv
<1>4. Offset(query)' = Offset(query)
  BY <1>1 DEF Offset, PageIndex
<1> QED
  BY <1>1, <1>2, <1>3, <1>4 DEF SeenInv, NothingMissed

\* What a page says of itself.
LEMMA PageRead ==
  ASSUME PageInv, ReadPage
  PROVE  /\ UNCHANGED <<catalog, filter, query, total, seen, before>>
         /\ step = "page" /\ step' = "answer"
         /\ items' \in SUBSET Matching(filter) /\ Matching(filter) \in SUBSET Product
         /\ Window(items', Offset(query), Matching(filter))
         /\ Offset(query) \in Nat /\ Offset(query) <= (query - FirstPage) * Size
         /\ (query - FirstPage) * Size \in Nat
         /\ Cardinality(items') <= Size
         /\ Cardinality(items') >= Capped(Size, Cardinality(Matching(filter)) - Offset(query))
<1>1. /\ UNCHANGED <<catalog, filter, query, total, seen, before>>
      /\ step = "page" /\ step' = "answer"
      /\ items' \in SUBSET Matching(filter)
      /\ Window(items', Offset(query), Matching(filter))
  BY DEF ReadPage, Offset
<1>2. /\ Offset(query) \in Nat /\ Offset(query) <= (query - FirstPage) * Size
      /\ (query - FirstPage) * Size \in Nat
  <2>1. query \in Nat /\ query >= FirstPage
    BY DEF PageInv, ListTypeOK
  <2>2. query - FirstPage \in Nat
    BY <2>1, ListingAssumption
  <2>3. (query - FirstPage) * Size \in Nat
    BY <2>2, SizeType
  <2> QED
    BY <2>1, <2>3, Offsets
<1>3. Matching(filter) \in SUBSET Product
  BY DEF Matching
<1>4. PICK skipped \in SUBSET (Matching(filter) \ items') :
        /\ Cardinality(skipped) = Capped(Offset(query), Cardinality(Matching(filter)))
        /\ Cardinality(items') = Capped(Size, Cardinality(Matching(filter)) - Cardinality(skipped))
  BY <1>1 DEF Window
<1> QED
  BY <1>1, <1>2, <1>3, <1>4, WindowSize

LEMMA PageKeepsPages ==
  ASSUME PageInv, ReadPage PROVE PageInv'
<1>1. Cardinality(items') \in Nat /\ Cardinality(Matching(filter)) \in Nat
  BY PageRead, Sizes
<1>2. ListTypeOK'
  BY <1>1, PageRead, SizeType DEF PageInv, ListTypeOK, catalog
<1>3. NeverShort'
  <2> SUFFICES ASSUME filter = NoFilter
               PROVE  Cardinality(items') >= Capped(Size, total - (query - FirstPage) * Size)
    BY PageRead DEF NeverShort
  <2>1. total <= Cardinality(Matching(filter)) /\ total \in Nat
    BY PageRead DEF PageInv, ListTypeOK, Stored
  <2> QED
    BY <1>1, <2>1, PageRead, SizeType DEF Capped
<1> QED
  BY <1>2, <1>3, PageRead DEF PageInv

LEMMA PageKeepsSeen ==
  ASSUME PageInv, SeenInv, ReadPage PROVE SeenInv'
<1>1. /\ Stored' = Stored /\ \A p \in Product : Newer(p)' = Newer(p)
      /\ \A p : Alone(p)' <=> Alone(p)
  BY PageRead, SameCatalog
<1>2. ASSUME filter = NoFilter, NEW p \in before \ (seen \cup items'), Alone(p)'
      PROVE  Cardinality(items') = Size /\ Cardinality(Newer(p)') >= Offset(query) + Size
  <2>1. /\ p \in Stored \ items' /\ Cardinality(Newer(p)) >= Offset(query) /\ p \in Product
        /\ Alone(p)
    BY <1>1, <1>2, PageRead DEF PageInv, SeenInv, ListTypeOK
  <2>2. Window(items', Offset(query), Stored) /\ items' \in SUBSET Stored
    BY <1>2, PageRead DEF Stored
  <2>3. products \in [Product -> Row] /\ Offset(query) \in Nat
    BY PageRead DEF PageInv, ListTypeOK
  <2> QED
    BY <1>1, <2>1, <2>2, <2>3, WindowRank
<1>3. Offset(query)' = Offset(query)
  BY PageRead DEF Offset, PageIndex
<1>4. NothingMissed'
  BY PageRead DEF NothingMissed
<1> QED
  BY <1>1, <1>2, <1>3, <1>4, PageRead DEF SeenInv

LEMMA AnswerKeepsPages ==
  ASSUME PageInv, TakeAnswer PROVE PageInv'
<1>1. /\ UNCHANGED <<catalog, filter, before>> /\ step' \in {"done", "count"}
      /\ seen' = seen \cup items /\ total' = 0 /\ items' = {}
      /\ query' \in {query, query + 1}
  BY DEF TakeAnswer
<1>2. query' \in Nat /\ query' >= FirstPage
  BY <1>1, ListingAssumption DEF PageInv, ListTypeOK
<1>3. ListTypeOK'
  BY <1>1, <1>2, FS_EmptySet DEF PageInv, ListTypeOK, catalog
<1> QED
  BY <1>1, <1>2, <1>3 DEF PageInv, NeverShort

LEMMA AnswerKeepsSeen ==
  ASSUME ~StopAtTotal, PageInv, SeenInv, TakeAnswer PROVE SeenInv'
<1>1. /\ UNCHANGED <<catalog, filter, before>> /\ step = "answer"
      /\ seen' = seen \cup items
      /\ \/ step' = "done" /\ Cardinality(items) < Size
         \/ step' = "count" /\ query' = query + 1
  BY DEF TakeAnswer, LastPage
<1>2. query \in Nat /\ query >= FirstPage /\ query + 1 \in Nat /\ query + 1 >= FirstPage
  BY ListingAssumption DEF PageInv, ListTypeOK
<1>3. /\ Stored' = Stored /\ \A p \in Product : Newer(p)' = Newer(p)
      /\ \A p : Alone(p)' <=> Alone(p)
  BY <1>1, SameCatalog
<1>4. NothingMissed'
  <2>1. Cardinality(items) \in Nat
    BY Sizes DEF PageInv, ListTypeOK
  <2>2. ASSUME step' = "done", filter = NoFilter, NEW p \in before, Alone(p)
        PROVE  p \in seen \cup items
    BY <1>1, <2>1, <2>2, SizeType DEF SeenInv
  <2> QED
    BY <1>1, <1>3, <2>2 DEF NothingMissed
<1>5. filter = NoFilter => before \subseteq Stored
  BY <1>1 DEF SeenInv
<1>6. ASSUME filter = NoFilter, step' = "count", NEW p \in before \ (seen \cup items), Alone(p)
      PROVE  Cardinality(Newer(p)) >= Offset(query + 1)
  <2>1. Cardinality(Newer(p)) >= Offset(query) + Size
    BY <1>1, <1>6 DEF SeenInv
  <2>2. /\ Offset(query + 1) <= Offset(query) + Size
        /\ Offset(query) \in Nat /\ Offset(query + 1) \in Nat
    BY <1>2, Offsets
  <2>3. Cardinality(Newer(p)) \in Nat
    <3>1. Newer(p) \in SUBSET Product
      BY DEF Newer, Stored, Matching
    <3> QED
      BY <3>1, Sizes
  <2> QED
    BY <2>1, <2>2, <2>3, SizeType
<1>7. before \subseteq Product
  BY DEF PageInv, ListTypeOK
<1>8. step' = "count" => Offset(query)' = Offset(query + 1)
  BY <1>1 DEF Offset, PageIndex
<1>9. filter' = NoFilter /\ step' \in {"count", "page"} =>
        \A p \in before' \ seen' : Alone(p)' => Cardinality(Newer(p)') >= Offset(query)'
  BY <1>1, <1>3, <1>6, <1>7, <1>8
<1> QED
  BY <1>1, <1>3, <1>4, <1>5, <1>9 DEF SeenInv

-----------------------------------------------------------------------------

LEMMA StepKeepsPages ==
  ASSUME PageInv, [ListNext]_listVars PROVE PageInv'
<1>1. CASE UNCHANGED listVars
  BY <1>1 DEF listVars, PageInv, ListTypeOK, Stored, Matching, NeverShort
<1> QED
  BY <1>1, SellersKeepPages, BeginKeepsPages, CountKeepsPages, PageKeepsPages, AnswerKeepsPages
  DEF ListNext, SellerStep

LEMMA StepKeepsSeen ==
  ASSUME ~StopAtTotal, PageInv, SeenInv, [ListNext]_listVars PROVE SeenInv'
<1>1. CASE UNCHANGED listVars
  BY <1>1 DEF listVars, SeenInv, Alone, Stored, Matching, Newer, Offset, PageIndex, NothingMissed
<1> QED
  BY <1>1, SellersKeepSeen, BeginKeepsSeen, CountKeepsSeen, PageKeepsSeen, AnswerKeepsSeen
  DEF ListNext, SellerStep

LEMMA PagesInvariant == ListSpec => []PageInv
BY InitListInv, StepKeepsPages, PTL DEF ListSpec

\* Whatever sellers insert and edit meanwhile, a listing of the whole catalog
\* that stops at a page that is not full has shown every product that was there
\* when it began and shares its created_at with no other, for every page size and
\* every catalog, the one with the sample products included (repository_impl.go,
\* List).
THEOREM ListingComplete == ~StopAtTotal /\ ListSpec => []NothingMissed
<1> SUFFICES ASSUME ~StopAtTotal PROVE ListSpec => []NothingMissed
  OBVIOUS
<1>1. ListInit => PageInv /\ SeenInv
  BY InitListInv
<1>2. PageInv /\ SeenInv /\ [ListNext]_listVars => PageInv' /\ SeenInv'
  BY StepKeepsPages, StepKeepsSeen
<1>3. SeenInv => NothingMissed
  BY DEF SeenInv
<1> QED
  BY <1>1, <1>2, <1>3, PTL DEF ListSpec

\* No page is shorter than the total_elements it comes with promises, although
\* COUNT and page are two statements (repository_impl.go, List).
THEOREM PagesNeverShort == ListSpec => []NeverShort
BY PagesInvariant, PTL DEF PageInv

\* Types, and no answer holds more products than the client asked for.
THEOREM ListTypeCorrect == ListSpec => []ListTypeOK
BY PagesInvariant, PTL DEF PageInv
=============================================================================
