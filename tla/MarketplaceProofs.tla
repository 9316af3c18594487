------------------------- MODULE MarketplaceProofs -------------------------
(***************************************************************************)
(* The orders service keeps its invariants while the staff edit the tables *)
(* it works on, and no order ever refers to a deleted code.                *)
(***************************************************************************)
EXTENDS Marketplace, OrdersAccountingProofs

MarketSafe ==
  /\ Safe
  /\ desk \in [Staff -> Desk]
  /\ later \subseteq Product \cup Promo
  /\ NoDanglingCode

LEMMA InitMarketSafe == MarketInit => MarketSafe
<1> SUFFICES ASSUME MarketInit PROVE MarketSafe
  OBVIOUS
<1>1. Safe
  BY InitSafe DEF MarketInit
<1>2. desk \in [Staff -> Desk]
  BY DEF MarketInit, AtDesk, Desk
<1>3. later \subseteq Product \cup Promo
  BY StaffAssumption DEF MarketInit
<1>4. NoDanglingCode
  BY DEF MarketInit, Init, NoRow, NoDanglingCode, PromoExists
<1> QED
  BY <1>1, <1>2, <1>3, <1>4 DEF MarketSafe

-----------------------------------------------------------------------------
(* The tables as the staff change them.                                      *)

\* A new row for a product nobody has locked.
LEMMA ProductWritten ==
  ASSUME Safe, NEW p \in Product, NEW row \in ProductRow, RowUnlocked(p),
         products' = [products EXCEPT ![p] = row],
         UNCHANGED <<promos, orders, operations, now, pc, req, loc, tx>>
  PROVE  Safe'
<1>1. TypeOK'
  BY DEF Safe, TypeOK
<1>2. TransactionsDisjoint'
  <2>1. ASSUME NEW s \in Session, NEW q \in Product
        PROVE  products'[q].stock + tx[s].delta[q] >= 0
    <3>1. CASE q = p
      <4>1. tx[s].delta[p] = 0
        BY DEF Safe, TransactionsDisjoint, RowUnlocked
      <4>2. products'[p] = row /\ row.stock \in Nat
        BY DEF Safe, TypeOK, ProductRow
      <4> QED
        BY <3>1, <4>1, <4>2
    <3>2. CASE q # p
      BY <3>2 DEF Safe, TypeOK, TransactionsDisjoint
    <3> QED
      BY <3>1, <3>2
  <2> QED
    BY <2>1 DEF Safe, TransactionsDisjoint
<1>3. StepsDefined'
  BY DEF Safe, StepsDefined
<1> QED
  BY <1>1, <1>2, <1>3 DEF Safe

\* New contents of promo_codes, and of the orders that carried a code.
LEMMA CodesWritten ==
  ASSUME Safe, promos' \in [Promo -> PromoRow], orders' \in [OrderId -> OrderRow],
         UNCHANGED <<products, operations, now, pc, req, loc, tx>>
  PROVE  Safe'
BY DEF Safe, TypeOK, TransactionsDisjoint, StepsDefined

\* A product row as a request leaves it.
LEMMA PatchedProduct ==
  ASSUME NEW row \in ProductRow, NEW edit \in ProductEdits
  PROVE  Patched(row, edit) \in ProductData
BY StaffAssumption DEF Patched, ProductRow, ProductData

\* A code's row as a request leaves it.
LEMMA PatchedPromo ==
  ASSUME NEW row \in PromoRow, NEW edit \in PromoEdits
  PROVE  Patched(row, edit) \in PromoData
BY StaffAssumption DEF Patched, PromoRow, PromoData

\* What the CHECKs let into the tables.
LEMMA AcceptedProduct ==
  ASSUME NEW row \in ProductData, ProductAccepted(row)
  PROVE  row \in ProductRow
BY DEF ProductAccepted, ProductData, ProductRow

LEMMA AcceptedPromo ==
  ASSUME NEW row \in PromoData, PromoAccepted(row)
  PROVE  row \in PromoRow
BY DEF PromoAccepted, PromoData, PromoRow

-----------------------------------------------------------------------------
(* The staff's requests. *)

LEMMA ProductStaffSafe ==
  ASSUME MarketSafe, NEW a \in Staff,
         CreateProduct(a) \/ ReadProductRow(a) \/ UpdateProduct(a) \/ DeleteProduct(a)
  PROVE  MarketSafe'
<1>1. CASE CreateProduct(a)
  <2>1. PICK p \in Product \cap later, row \in NewProducts :
          /\ RowUnlocked(p) /\ ProductAccepted(row)
          /\ products' = [products EXCEPT ![p] = row]
          /\ later' = later \ {p}
    BY <1>1 DEF CreateProduct
  <2>2. row \in ProductRow
    BY <2>1, StaffAssumption, AcceptedProduct
  <2>3. Safe'
    BY <1>1, <2>1, <2>2, ProductWritten DEF MarketSafe, CreateProduct, OrdersUntouched
  <2> QED
    BY <1>1, <2>1, <2>3
       DEF MarketSafe, CreateProduct, OrdersUntouched, NoDanglingCode, PromoExists
<1>2. CASE ReadProductRow(a)
  <2>1. PICK p \in Product \ later, edit \in ProductEdits :
          desk' = [desk EXCEPT ![a] =
                     [step |-> "product", key |-> p, row |-> Patched(products[p], edit)]]
    BY <1>2 DEF ReadProductRow
  <2>2. Patched(products[p], edit) \in ProductData
    BY PatchedProduct DEF MarketSafe, Safe, TypeOK
  <2>3. desk' \in [Staff -> Desk]
    BY <2>1, <2>2 DEF MarketSafe, Desk
  <2>4. Safe'
    BY <1>2 DEF ReadProductRow, OrdersUntouched, MarketSafe, Safe, TypeOK,
                TransactionsDisjoint, StepsDefined
  <2> QED
    BY <1>2, <2>3, <2>4
       DEF MarketSafe, ReadProductRow, OrdersUntouched, NoDanglingCode, PromoExists
<1>3. CASE UpdateProduct(a)
  <2>1. desk[a].key \in Product /\ desk[a].row \in ProductData
    BY <1>3 DEF MarketSafe, Desk, UpdateProduct
  <2>2. desk[a].row \in ProductRow
    BY <1>3, <2>1, AcceptedProduct DEF UpdateProduct
  <2>3. Safe'
    BY <1>3, <2>1, <2>2, ProductWritten DEF MarketSafe, UpdateProduct, OrdersUntouched
  <2>4. desk' \in [Staff -> Desk]
    BY <1>3 DEF MarketSafe, UpdateProduct, Leave, AtDesk, Desk
  <2> QED
    BY <1>3, <2>3, <2>4
       DEF MarketSafe, UpdateProduct, OrdersUntouched, NoDanglingCode, PromoExists
<1>4. CASE DeleteProduct(a)
  <2>1. PICK p \in Product \ later :
          /\ RowUnlocked(p)
          /\ products' = [products EXCEPT ![p].status = "ARCHIVED"]
    BY <1>4 DEF DeleteProduct
  <2>2. [products[p] EXCEPT !.status = "ARCHIVED"] \in ProductRow
    BY DEF MarketSafe, Safe, TypeOK, ProductRow, ProductStatus
  <2>3. Safe'
    BY <1>4, <2>1, <2>2, ProductWritten DEF MarketSafe, DeleteProduct, OrdersUntouched
  <2> QED
    BY <1>4, <2>3
       DEF MarketSafe, DeleteProduct, OrdersUntouched, NoDanglingCode, PromoExists
<1> QED
  BY <1>1, <1>2, <1>3, <1>4

LEMMA PromoStaffSafe ==
  ASSUME MarketSafe, NEW a \in Staff,
         CreatePromoCode(a) \/ ReadPromoRow(a) \/ UpdatePromoCode(a)
  PROVE  MarketSafe'
<1>1. CASE CreatePromoCode(a)
  <2>1. PICK c \in Promo \cap later, row \in NewPromos :
          /\ PromoAccepted(row)
          /\ promos' = [promos EXCEPT ![c] = [row EXCEPT !.exists = TRUE, !.uses = 0]]
          /\ later' = later \ {c}
    BY <1>1 DEF CreatePromoCode
  <2>2. [row EXCEPT !.exists = TRUE, !.uses = 0] \in PromoRow
    <3>1. row \in PromoRow
      BY <2>1, StaffAssumption, AcceptedPromo
    <3> QED
      BY <3>1 DEF PromoRow
  <2>3. promos' \in [Promo -> PromoRow]
    BY <2>1, <2>2 DEF MarketSafe, Safe, TypeOK
  <2>4. Safe'
    BY <1>1, <2>3, CodesWritten DEF MarketSafe, Safe, TypeOK, CreatePromoCode, OrdersUntouched
  <2>5. NoDanglingCode'
    <3>1. \A k \in Promo : promos[k].exists => promos'[k].exists
      BY <2>1, <2>2 DEF MarketSafe, Safe, TypeOK, PromoRow
    <3>2. \A o \in OrderId : orders[o].promo \in PromoCodeOpt
      BY DEF MarketSafe, Safe, TypeOK, OrderRow
    <3> QED
      BY <1>1, <3>1, <3>2
         DEF MarketSafe, NoDanglingCode, PromoExists, PromoCodeOpt, CreatePromoCode,
             OrdersUntouched
  <2> QED
    BY <1>1, <2>1, <2>4, <2>5 DEF MarketSafe, CreatePromoCode
<1>2. CASE ReadPromoRow(a)
  <2>1. PICK c \in Promo, edit \in PromoEdits :
          desk' = [desk EXCEPT ![a] =
                     [step |-> "promo", key |-> c, row |-> Patched(promos[c], edit)]]
    BY <1>2 DEF ReadPromoRow
  <2>2. Patched(promos[c], edit) \in PromoData
    BY PatchedPromo DEF MarketSafe, Safe, TypeOK
  <2>3. desk' \in [Staff -> Desk]
    BY <2>1, <2>2 DEF MarketSafe, Desk
  <2>4. Safe'
    BY <1>2 DEF ReadPromoRow, OrdersUntouched, MarketSafe, Safe, TypeOK,
                TransactionsDisjoint, StepsDefined
  <2> QED
    BY <1>2, <2>3, <2>4
       DEF MarketSafe, ReadPromoRow, OrdersUntouched, NoDanglingCode, PromoExists
<1>3. CASE UpdatePromoCode(a)
  <2> DEFINE c == desk[a].key
             row == EditedPromo(promos[c], desk[a].row)
  <2>1. c \in Promo /\ desk[a].row \in PromoData
    BY <1>3 DEF MarketSafe, Desk, UpdatePromoCode
  <2>2. promos[c] \in PromoRow
    BY <2>1 DEF MarketSafe, Safe, TypeOK
  <2>3. row \in PromoData /\ row.exists = promos[c].exists
    BY <2>1, <2>2 DEF EditedPromo, PromoData, PromoRow
  <2>4. promos' \in [Promo -> PromoRow] /\ \A k \in Promo : promos[k].exists => promos'[k].exists
    <3>1. CASE promos[c].exists
      <4>1. promos' = [promos EXCEPT ![c] = row] /\ row \in PromoRow
        BY <1>3, <2>3, <3>1, AcceptedPromo DEF UpdatePromoCode
      <4> QED
        BY <2>1, <2>3, <4>1 DEF MarketSafe, Safe, TypeOK
    <3>2. CASE ~promos[c].exists
      BY <1>3, <3>2 DEF UpdatePromoCode, MarketSafe, Safe, TypeOK
    <3> QED
      BY <3>1, <3>2
  <2>5. Safe'
    BY <1>3, <2>4, CodesWritten DEF MarketSafe, Safe, TypeOK, UpdatePromoCode, OrdersUntouched
  <2>6. desk' \in [Staff -> Desk]
    BY <1>3 DEF MarketSafe, UpdatePromoCode, Leave, AtDesk, Desk
  <2>7. NoDanglingCode'
    <3>1. \A o \in OrderId : orders[o].promo \in PromoCodeOpt
      BY DEF MarketSafe, Safe, TypeOK, OrderRow
    <3> QED
      BY <1>3, <2>4, <3>1
         DEF MarketSafe, NoDanglingCode, PromoExists, PromoCodeOpt, UpdatePromoCode,
             OrdersUntouched
  <2> QED
    BY <1>3, <2>5, <2>6, <2>7 DEF MarketSafe, UpdatePromoCode
<1> QED
  BY <1>1, <1>2, <1>3

LEMMA DeletePromoSafe ==
  ASSUME MarketSafe, NEW a \in Staff, DeletePromoCode(a)
  PROVE  MarketSafe'
<1>1. PICK c \in Promo :
        /\ promos' = [promos EXCEPT ![c].exists = FALSE]
        /\ orders' = [o \in OrderId |-> WithoutCode(orders[o], c)]
  BY DEF DeletePromoCode
<1>2. [promos[c] EXCEPT !.exists = FALSE] \in PromoRow
  BY DEF MarketSafe, Safe, TypeOK, PromoRow
<1>3. promos' \in [Promo -> PromoRow]
  BY <1>1, <1>2 DEF MarketSafe, Safe, TypeOK
<1>4. ASSUME NEW row \in OrderRow
      PROVE  /\ WithoutCode(row, c) \in OrderRow
             /\ WithoutCode(row, c).promo = IF row.promo = c THEN NoPromo ELSE row.promo
  BY DEF WithoutCode, OrderRow, PromoCodeOpt
<1>5. orders' \in [OrderId -> OrderRow]
  BY <1>1, <1>4 DEF MarketSafe, Safe, TypeOK
<1>6. Safe'
  BY <1>3, <1>5, CodesWritten DEF MarketSafe, DeletePromoCode
<1>7. ASSUME NEW o \in OrderId PROVE PromoExists(orders[o].promo)'
  <2>1. orders[o] \in OrderRow /\ orders[o].promo \in PromoCodeOpt
    BY DEF MarketSafe, Safe, TypeOK, OrderRow
  <2>2. orders'[o].promo = IF orders[o].promo = c THEN NoPromo ELSE orders[o].promo
    BY <1>1, <1>4, <2>1
  <2>3. orders[o].promo # NoPromo => promos[orders[o].promo].exists
    BY DEF MarketSafe, NoDanglingCode, PromoExists
  <2>4. \A k \in Promo \ {c} : promos'[k] = promos[k]
    BY <1>1 DEF MarketSafe, Safe, TypeOK
  <2> QED
    BY <2>1, <2>2, <2>3, <2>4 DEF PromoExists, PromoCodeOpt
<1>8. desk' \in [Staff -> Desk] /\ later' \subseteq Product \cup Promo
  BY DEF MarketSafe, DeletePromoCode
<1> QED
  BY <1>6, <1>7, <1>8 DEF MarketSafe, NoDanglingCode

LEMMA GiveUpSafe ==
  ASSUME MarketSafe, NEW a \in Staff, GiveUp(a)
  PROVE  MarketSafe'
<1>1. desk' \in [Staff -> Desk]
  BY DEF MarketSafe, GiveUp, Leave, AtDesk, Desk
<1>2. Safe'
  BY DEF GiveUp, vars, MarketSafe, Safe, TypeOK, TransactionsDisjoint, StepsDefined
<1> QED
  BY <1>1, <1>2 DEF MarketSafe, GiveUp, vars, NoDanglingCode, PromoExists

-----------------------------------------------------------------------------
(* The orders service. *)

\* A COMMIT stores one order, whose code is there, and deletes no code.
LEMMA CommitKeepsCodes ==
  ASSUME Safe, NoDanglingCode, NEW o \in OrderId, NEW row, PromoExists(row.promo),
         row.promo \in PromoCodeOpt, orders' = [orders EXCEPT ![o] = row],
         \A c \in Promo : promos'[c].exists = promos[c].exists
  PROVE  NoDanglingCode'
<1>1. ASSUME NEW k \in OrderId PROVE PromoExists(orders[k].promo)'
  <2>1. orders[k].promo \in PromoCodeOpt /\ PromoExists(orders[k].promo)
    BY DEF Safe, TypeOK, OrderRow, NoDanglingCode
  <2>2. orders'[k] = IF k = o THEN row ELSE orders[k]
    BY DEF Safe, TypeOK
  <2> QED
    BY <2>1, <2>2 DEF PromoExists, PromoCodeOpt
<1> QED
  BY <1>1 DEF NoDanglingCode

LEMMA CommitDangling ==
  ASSUME Safe, NoDanglingCode, NEW s \in Session,
         CommitCreate(s) \/ CommitUpdate(s) \/ CommitCancel(s)
  PROVE  NoDanglingCode'
<1>1. /\ req[s].order \in OrderId /\ req[s].promo \in PromoCodeOpt
      /\ loc[s].existing \in OrderRow /\ loc[s].existing.promo \in PromoCodeOpt
  BY DEF Safe, TypeOK, Request, Local, OrderRow
<1>2. CASE CommitCreate(s)
  <2>1. CreatedRow(s).promo = req[s].promo
    BY DEF CreatedRow
  <2>2. \A c \in Promo : promos'[c].exists = promos[c].exists
    BY <1>1, <1>2 DEF CommitCreate, IncrementUses, PromoCodeOpt, Safe, TypeOK, PromoRow
  <2> QED
    BY <1>1, <1>2, <2>1, <2>2, CommitKeepsCodes DEF CommitCreate, CreateAccepted
<1>3. CASE CommitUpdate(s)
  <2>1. UpdatedRow(s).promo = loc[s].existing.promo
    BY <1>1 DEF UpdatedRow, OrderRow
  <2> QED
    BY <1>1, <1>3, <2>1, CommitKeepsCodes DEF CommitUpdate, UpdateAccepted
<1>4. CASE CommitCancel(s)
  <2> DEFINE existing == loc[s].existing
             row == [existing EXCEPT !.status = "CANCELED",
                                     !.items = orders[req[s].order].items]
  <2>1. row.promo = existing.promo
    BY <1>1 DEF OrderRow
  <2>2. \A c \in Promo : promos'[c].exists = promos[c].exists
    BY <1>1, <1>4 DEF CommitCancel, DecrementUses, PromoCodeOpt, Safe, TypeOK, PromoRow
  <2>3. PromoExists(existing.promo) /\ orders' = [orders EXCEPT ![req[s].order] = row]
    BY <1>4 DEF CommitCancel
  <2> HIDE DEF row
  <2> QED
    BY <1>1, <2>1, <2>2, <2>3, CommitKeepsCodes
<1> QED
  BY <1>2, <1>3, <1>4

LEMMA ServeDangling ==
  ASSUME Safe, NoDanglingCode, NEW s \in Session, Serve(s)
  PROVE  NoDanglingCode'
<1>1. CASE ~Commit(s)
  BY <1>1, OnlyCommitsWrite DEF tables, NoDanglingCode, PromoExists
<1>2. CASE Commit(s)
  BY <1>2, CommitDangling DEF Commit
<1> QED
  BY <1>1, <1>2

LEMMA MarketNextSafe == MarketSafe /\ [MarketNext]_marketVars => MarketSafe'
<1> SUFFICES ASSUME MarketSafe, [MarketNext]_marketVars PROVE MarketSafe'
  OBVIOUS
<1>1. CASE UNCHANGED marketVars
  <2>1. Safe'
    BY <1>1, NextSafe DEF marketVars, MarketSafe
  <2> QED
    BY <1>1, <2>1 DEF marketVars, vars, MarketSafe, NoDanglingCode, PromoExists
<1>2. ASSUME NEW s \in Session, Serve(s), UNCHANGED <<desk, later>>
      PROVE  MarketSafe'
  BY <1>2, NextSafe, ServeDangling DEF MarketSafe, Next
<1>3. CASE Tick /\ UNCHANGED <<desk, later>>
  BY <1>3, TickSafe DEF MarketSafe, Tick, tables, NoDanglingCode, PromoExists
<1>4. CASE MarketCrash
  <2>1. desk' \in [Staff -> Desk]
    BY <1>4 DEF MarketCrash, AtDesk, Desk
  <2> QED
    BY <1>4, <2>1, CrashSafe
       DEF MarketSafe, MarketCrash, Crash, tables, NoDanglingCode, PromoExists
<1>5. ASSUME NEW a \in Staff, StaffStep(a) PROVE MarketSafe'
  BY <1>5, ProductStaffSafe, PromoStaffSafe, DeletePromoSafe, GiveUpSafe DEF StaffStep
<1> QED
  BY <1>1, <1>2, <1>3, <1>4, <1>5 DEF MarketNext

LEMMA MarketAlwaysSafe == MarketSpec => []MarketSafe
BY InitMarketSafe, MarketNextSafe, PTL DEF MarketSpec

\* The staff's edits never make a table or a handler's locals leave their types.
THEOREM MarketTypeCorrect == MarketSpec => []MarketTypeOK
<1>1. MarketSafe => MarketTypeOK
  BY DEF MarketSafe, Safe, MarketTypeOK
<1> QED
  BY <1>1, MarketAlwaysSafe, PTL

\* A seller's write never touches a row an open transaction holds: what a handler
\* reserved stays covered by the stock until it commits.
THEOREM StaffRespectReservations == MarketSpec => []TransactionsDisjoint
<1>1. MarketSafe => TransactionsDisjoint
  BY DEF MarketSafe, Safe
<1> QED
  BY <1>1, MarketAlwaysSafe, PTL

\* However deletions of codes and the requests of their orders interleave, no
\* stored order refers to a deleted code.
THEOREM CodesAlwaysThere == MarketSpec => []NoDanglingCode
<1>1. MarketSafe => NoDanglingCode
  BY DEF MarketSafe
<1> QED
  BY <1>1, MarketAlwaysSafe, PTL
-----------------------------------------------------------------------------
(* The counters of the codes, while the staff edit, delete and insert codes. *)

\* A code still to be inserted is used by nobody and known to nobody.
LaterUnknown ==
  /\ \A c \in Promo \cap later : ~promos[c].exists
  /\ \A s \in Session :
       loc[s].existing.promo \in Promo => loc[s].existing.promo \notin later

MarketUses ==
  \A c \in Promo :
    promos[c].exists =>
      /\ promos[c].uses = Cardinality(CarriersIn(orders, c))
      /\ promos[c].uses <= promos[c].maxUses

MarketLedger ==
  /\ MarketSafe
  /\ Ledger
  /\ LaterUnknown
  /\ MarketUses

LEMMA InitMarketLedger ==
  ASSUME \A c \in Promo : InitialPromo[c].exists => InitialPromo[c].uses = 0
  PROVE  MarketInit => MarketLedger
<1> SUFFICES ASSUME MarketInit PROVE MarketLedger
  OBVIOUS
<1>1. LaterUnknown
  <2>1. \A s \in Session : loc[s].existing.promo = NoPromo
    BY DEF MarketInit, Init, NoLoc, NoRow
  <2>2. \A c \in Promo \cap later : ~promos[c].exists
    BY StaffAssumption DEF MarketInit, Init
  <2> QED
    BY <2>1, <2>2, SessionsAssumption DEF LaterUnknown
<1>2. MarketUses
  <2>1. \A c \in Promo : CarriersIn(orders, c) = {}
    BY DEF MarketInit, Init, CarriersIn, StandingIn, Stands, NoRow
  <2>2. \A c \in Promo : InitialPromo[c].maxUses \in Nat
    BY DataAssumption DEF PromoRow
  <2>3. \A c \in Promo : Cardinality(CarriersIn(orders, c)) = 0
    BY <2>1, FS_EmptySet
  <2>4. promos = InitialPromo
    BY DEF MarketInit, Init
  <2> QED
    BY <2>2, <2>3, <2>4 DEF MarketUses
<1> QED
  BY <1>1, <1>2, InitMarketSafe, InitLedger DEF MarketInit, MarketLedger

\* The staff's requests that touch no code.
LEMMA QuietStaffLedger ==
  ASSUME MarketLedger, MarketSafe', UNCHANGED <<promos, orders, pc, req, loc>>,
         later' \subseteq later
  PROVE  MarketLedger'
<1>1. Ledger'
  BY SameLedger DEF MarketLedger, MarketSafe
<1> QED
  BY <1>1 DEF MarketLedger, LaterUnknown, MarketUses

\* The staff's requests that insert or edit a code: the orders and the handlers
\* stay as they are, and no code that handlers know comes back.
LEMMA CodesLedger ==
  ASSUME MarketLedger, Safe', UNCHANGED <<orders, pc, req, loc>>,
         \A c \in Promo : promos'[c].exists => promos[c].exists \/ c \in later
  PROVE  Ledger'
<1>1. ASSUME NEW s \in Session PROVE Known(s)'
  <2>1. Known(s) /\ loc[s].existing.promo \in PromoCodeOpt
    BY DEF MarketLedger, Ledger, Safe, TypeOK, Local, OrderRow
  <2>2. ~PromoExists(loc[s].existing.promo) => ~PromoExists(loc[s].existing.promo)'
    BY <2>1 DEF MarketLedger, LaterUnknown, PromoExists, PromoCodeOpt
  <2> QED
    BY <2>1, <2>2 DEF Known, PlacesMatch, ChecksMatch, OrderKnown, RowKnown, Creating, Changing
<1>2. NewIdsDiffer' /\ IsFiniteSet(Standing)'
  BY DEF MarketLedger, Ledger, NewIdsDiffer, Creating, Standing
<1> QED
  BY <1>1, <1>2 DEF Ledger

LEMMA CreatePromoLedger ==
  ASSUME MarketLedger, MarketSafe', NEW a \in Staff, CreatePromoCode(a)
  PROVE  MarketLedger'
<1>1. PICK c \in Promo \cap later, row \in NewPromos :
        /\ PromoAccepted(row)
        /\ promos' = [promos EXCEPT ![c] = [row EXCEPT !.exists = TRUE, !.uses = 0]]
        /\ later' = later \ {c}
  BY DEF CreatePromoCode
<1>2. /\ promos'[c].uses = 0 /\ promos'[c].maxUses \in Nat
      /\ \A k \in Promo \ {c} : promos'[k] = promos[k]
  <2>1. row \in PromoData /\ promos \in [Promo -> PromoRow] /\ promos' \in [Promo -> PromoRow]
    BY StaffAssumption DEF MarketLedger, MarketSafe, Safe, TypeOK
  <2> QED
    BY <1>1, <2>1 DEF PromoData, PromoRow
<1>3. UNCHANGED <<orders, pc, req, loc>>
  BY DEF CreatePromoCode, OrdersUntouched
<1>4. Ledger'
  BY <1>1, <1>2, <1>3, CodesLedger DEF MarketSafe
<1>5. LaterUnknown'
  BY <1>1, <1>2, <1>3 DEF MarketLedger, LaterUnknown
<1>6. ASSUME NEW k \in Promo, promos'[k].exists
      PROVE  /\ promos'[k].uses = Cardinality(CarriersIn(orders', k))
             /\ promos'[k].uses <= promos'[k].maxUses
  <2>1. CASE k = c
    <3>1. \A o \in OrderId : orders[o].promo # c
      BY <1>1, SessionsAssumption
         DEF MarketLedger, LaterUnknown, MarketSafe, NoDanglingCode, PromoExists
    <3>2. CarriersIn(orders', c) = {}
      BY <1>3, <3>1 DEF CarriersIn, StandingIn
    <3> QED
      BY <1>2, <2>1, <3>2, FS_EmptySet
  <2>2. CASE k # c
    BY <1>2, <1>3, <1>6, <2>2 DEF MarketLedger, MarketUses
  <2> QED
    BY <2>1, <2>2
<1> QED
  BY <1>4, <1>5, <1>6 DEF MarketLedger, MarketUses

LEMMA UpdatePromoLedger ==
  ASSUME MarketLedger, MarketSafe', NEW a \in Staff, UpdatePromoCode(a)
  PROVE  MarketLedger'
<1> DEFINE c == desk[a].key
           row == EditedPromo(promos[c], desk[a].row)
<1>1. UNCHANGED <<orders, pc, req, loc, later>>
  BY DEF UpdatePromoCode, OrdersUntouched
<1>2. CASE ~promos[c].exists
  BY <1>1, <1>2, QuietStaffLedger DEF UpdatePromoCode
<1>3. CASE promos[c].exists
  <2>1. c \in Promo /\ promos[c] \in PromoRow /\ promos \in [Promo -> PromoRow]
    BY DEF MarketLedger, MarketSafe, Desk, UpdatePromoCode, Safe, TypeOK
  <2>2. PromoAccepted(row) /\ promos' = [promos EXCEPT ![c] = row]
    BY <1>3 DEF UpdatePromoCode
  <2>3. row.uses = promos[c].uses /\ row.exists = promos[c].exists
    BY <2>1 DEF EditedPromo, PromoRow
  <2>4. /\ promos'[c].uses = promos[c].uses /\ promos'[c].uses <= promos'[c].maxUses
        /\ promos'[c].exists = promos[c].exists
        /\ \A k \in Promo \ {c} : promos'[k] = promos[k]
    <3> HIDE DEF row
    <3> QED
      BY <2>1, <2>2, <2>3 DEF PromoAccepted
  <2> HIDE DEF c
  <2>5. Ledger'
    BY <1>1, <2>1, <2>4, CodesLedger DEF MarketSafe
  <2>6. LaterUnknown'
    BY <1>1, <2>1, <2>4 DEF MarketLedger, LaterUnknown
  <2>7. MarketUses'
    BY <1>1, <2>1, <2>4 DEF MarketLedger, MarketUses
  <2> QED
    BY <2>5, <2>6, <2>7 DEF MarketLedger
<1> QED
  BY <1>2, <1>3

LEMMA DeletePromoLedger ==
  ASSUME MarketLedger, MarketSafe', NEW a \in Staff, DeletePromoCode(a)
  PROVE  MarketLedger'
<1>1. PICK c \in Promo :
        /\ promos' = [promos EXCEPT ![c].exists = FALSE]
        /\ orders' = [o \in OrderId |-> WithoutCode(orders[o], c)]
  BY DEF DeletePromoCode
<1>2. UNCHANGED <<pc, req, loc, later>>
  BY DEF DeletePromoCode
<1>3. /\ ~promos'[c].exists
      /\ \A k \in Promo \ {c} : promos'[k] = promos[k]
  BY <1>1 DEF MarketLedger, Ledger, Safe, TypeOK, PromoRow
<1>4. ASSUME NEW o \in OrderId
      PROVE  /\ orders'[o].status = orders[o].status /\ orders'[o].user = orders[o].user
             /\ orders'[o].promo = IF orders[o].promo = c THEN NoPromo ELSE orders[o].promo
  <2>1. orders[o] \in OrderRow
    BY DEF MarketLedger, Ledger, Safe, TypeOK
  <2> QED
    BY <1>1, <2>1 DEF WithoutCode, OrderRow
<1>5. ASSUME NEW s \in Session PROVE Known(s)'
  <2>1. Known(s) /\ loc[s].existing.promo \in PromoCodeOpt /\ req[s].order \in OrderId
    BY DEF MarketLedger, Ledger, Safe, TypeOK, Local, OrderRow, Request
  <2>2. PlacesMatch(s)' /\ OrderKnown(s)'
    BY <1>2, <1>4, <2>1 DEF Known, PlacesMatch, ChecksMatch, OrderKnown, Creating, Changing
  <2>3. ~PromoExists(loc[s].existing.promo) => ~PromoExists(loc[s].existing.promo)'
    BY <1>2, <1>3, <2>1 DEF PromoExists, PromoCodeOpt
  <2>4. c # NoPromo /\ ~PromoExists(c)'
    BY <1>3, SessionsAssumption DEF PromoExists
  <2>5. RowKnown(s)'
    BY <1>2, <1>4, <2>1, <2>3, <2>4 DEF Known, RowKnown, Changing
  <2> QED
    BY <2>2, <2>5 DEF Known
<1>6. Ledger'
  <2>1. Standing' = Standing
    BY <1>4 DEF Standing
  <2>2. NewIdsDiffer'
    BY <1>2 DEF MarketLedger, Ledger, NewIdsDiffer, Creating
  <2>3. IsFiniteSet(Standing)'
    BY <2>1 DEF MarketLedger, Ledger
  <2> QED
    BY <1>5, <2>2, <2>3 DEF Ledger, MarketSafe
<1>7. LaterUnknown'
  BY <1>2, <1>3 DEF MarketLedger, LaterUnknown
<1>8. ASSUME NEW k \in Promo, promos'[k].exists
      PROVE  /\ promos'[k].uses = Cardinality(CarriersIn(orders', k))
             /\ promos'[k].uses <= promos'[k].maxUses
  <2>1. k # c /\ promos'[k] = promos[k]
    BY <1>3, <1>8
  <2>2. \A o \in OrderId : orders'[o].promo = k <=> orders[o].promo = k
    BY <1>4, <2>1, SessionsAssumption
  <2>3. CarriersIn(orders', k) = CarriersIn(orders, k)
    BY <1>4, <2>2 DEF CarriersIn, StandingIn, Stands
  <2> QED
    BY <1>8, <2>1, <2>3 DEF MarketLedger, MarketUses
<1> QED
  BY <1>6, <1>7, <1>8 DEF MarketLedger, MarketUses

LEMMA StaffLedger ==
  ASSUME MarketLedger, MarketSafe', NEW a \in Staff, StaffStep(a)
  PROVE  MarketLedger'
<1>1. CASE CreateProduct(a) \/ ReadProductRow(a) \/ UpdateProduct(a) \/ DeleteProduct(a)
             \/ ReadPromoRow(a) \/ GiveUp(a)
  BY <1>1, QuietStaffLedger
     DEF CreateProduct, ReadProductRow, UpdateProduct, DeleteProduct, ReadPromoRow, GiveUp,
         OrdersUntouched, vars
<1> QED
  BY <1>1, CreatePromoLedger, UpdatePromoLedger, DeletePromoLedger DEF StaffStep
\* The row a handler holds carries a stored code, or none.
LEMMA ServeExisting ==
  ASSUME MarketLedger, NEW t \in Session, Serve(t), NEW s \in Session,
         loc'[s].existing.promo \in Promo
  PROVE  loc'[s].existing.promo \notin later
<1>0. loc \in [Session -> Local] /\ loc[t] \in Local /\ req[t].order \in OrderId
  BY DEF MarketLedger, Ledger, Safe, TypeOK, Request
<1>1. loc[s].existing.promo \in Promo => loc[s].existing.promo \notin later
  BY DEF MarketLedger, LaterUnknown
<1>2. CASE s # t
  BY <1>1, <1>2, OthersFrame DEF MarketLedger, Ledger
<1>3. CASE s = t /\ (Refusal(t) \/ Commit(t))
  <2>1. Answer(t)
    BY <1>3, RefusalRefuses DEF Refuse, Commit, CommitCreate, CommitUpdate, CommitCancel
  <2>2. loc'[t].existing.promo = NoPromo
    BY <1>0, <2>1 DEF Answer, NoLoc, NoRow
  <2> QED
    BY <1>3, <2>2, SessionsAssumption
<1>4. CASE s = t /\ (Start(t) \/ CheckRateLimit(t) \/ GetActiveOrder(t) \/ Authorize(t))
  BY <1>1, <1>4 DEF Start, StartCreate, StartUpdate, StartCancel, CheckRateLimit, GetActiveOrder,
                    Authorize
<1>5. CASE s = t /\ LoadOrder(t)
  <2>1. loc'[t].existing = orders[req[t].order]
    BY <1>0, <1>5 DEF LoadOrder, Local
  <2>2. PromoExists(orders[req[t].order].promo)
    BY <1>0 DEF MarketLedger, MarketSafe, NoDanglingCode
  <2> QED
    BY <1>5, <2>1, <2>2, SessionsAssumption DEF PromoExists, MarketLedger, LaterUnknown
<1>6. CASE s = t /\ TxStep(t)
  BY <1>1, <1>6, TxStepEffect DEF MarketLedger, Ledger
<1> QED
  BY <1>2, <1>3, <1>4, <1>5, <1>6 DEF Serve, Advance, Refusal, Commit, TxStep

LEMMA CommitMarketUses ==
  ASSUME MarketLedger, Safe', NEW t \in Session, Commit(t), NEW c \in Promo, promos'[c].exists
  PROVE  /\ promos'[c].uses = Cardinality(CarriersIn(orders', c))
         /\ promos'[c].uses <= promos'[c].maxUses
<1> DEFINE n == Cardinality(CarriersIn(orders, c))
           gone == UseBy(orders[req[t].order], c)
           come == UseBy(CommittedRow(t), c)
<1>1. /\ Cardinality(CarriersIn(orders', c)) = n - gone + come
      /\ n \in Nat /\ n >= gone /\ gone \in {0, 1} /\ come \in {0, 1}
  BY CommitCarriers DEF MarketLedger
<1>2. promos[c].uses \in Nat /\ promos[c].maxUses \in Nat /\ promos'[c].uses \in Nat
  BY DEF MarketLedger, Ledger, Safe, TypeOK, PromoRow
<1>3. promos[c].exists => promos[c].uses = n /\ promos[c].uses <= promos[c].maxUses
  BY DEF MarketLedger, MarketUses
<1> HIDE DEF n, gone, come
<1>4. promos[c].exists => promos[c].uses >= gone
  BY <1>1, <1>3
<1>5. /\ promos'[c].uses = promos[c].uses - gone + come
      /\ promos'[c].exists = promos[c].exists /\ promos'[c].maxUses = promos[c].maxUses
      /\ promos'[c].uses <= promos[c].uses \/ promos'[c].uses <= promos[c].maxUses
  BY <1>4, CommitCodes DEF MarketLedger, gone, come
<1> QED
  BY <1>1, <1>2, <1>3, <1>5

LEMMA ServeMarketLedger ==
  ASSUME NoSharedChanges, MarketLedger, MarketSafe', NEW t \in Session, Serve(t), UNCHANGED later
  PROVE  MarketLedger'
<1>1. Ledger' /\ Safe' /\ Safe /\ Ledger
  BY ServeLedger DEF MarketLedger, MarketSafe, Ledger
<1>2. \A c \in Promo : promos'[c].exists => promos[c].exists
  <2>1. CASE Commit(t)
    <3>1. \A c \in Promo : PromoExists(c)' <=> PromoExists(c)
      BY <1>1, <2>1, CommitKeepsExistence DEF PromoCodeOpt
    <3> QED
      BY <3>1, SessionsAssumption DEF PromoExists
  <2>2. CASE ~Commit(t)
    BY <2>2, OnlyCommitsWrite DEF tables
  <2> QED
    BY <2>1, <2>2
<1>3. LaterUnknown'
  <2>1. \A c \in Promo \cap later' : ~promos'[c].exists
    BY <1>2 DEF MarketLedger, LaterUnknown
  <2>2. \A s \in Session :
          loc'[s].existing.promo \in Promo => loc'[s].existing.promo \notin later'
    BY ServeExisting
  <2> QED
    BY <2>1, <2>2 DEF LaterUnknown
<1>4. MarketUses'
  <2>1. CASE Commit(t)
    BY <1>1, <2>1, CommitMarketUses DEF MarketUses
  <2>2. CASE ~Commit(t)
    BY <2>2, OnlyCommitsWrite DEF tables, MarketLedger, MarketUses
  <2> QED
    BY <2>1, <2>2
<1> QED
  BY <1>1, <1>3, <1>4 DEF MarketLedger

LEMMA NextMarketLedger ==
  ASSUME NoSharedChanges
  PROVE  MarketLedger /\ [MarketNext]_marketVars => MarketLedger'
<1> SUFFICES ASSUME MarketLedger, [MarketNext]_marketVars PROVE MarketLedger'
  OBVIOUS
<1>1. MarketSafe'
  BY MarketNextSafe DEF MarketLedger
<1>2. CASE UNCHANGED marketVars
  BY <1>1, <1>2, QuietStaffLedger DEF marketVars, vars
<1>3. CASE Tick /\ UNCHANGED <<desk, later>>
  BY <1>1, <1>3, QuietStaffLedger DEF Tick, tables
<1>4. CASE MarketCrash
  <2>1. Ledger'
    BY <1>1, <1>4, CrashLedger DEF MarketLedger, MarketSafe, MarketCrash
  <2>2. UNCHANGED <<promos, orders, later>> /\ \A s \in Session : loc'[s].existing.promo = NoPromo
    BY <1>4 DEF MarketCrash, Crash, tables, NoLoc, NoRow
  <2>3. LaterUnknown' /\ MarketUses'
    BY <2>2, SessionsAssumption DEF MarketLedger, LaterUnknown, MarketUses
  <2> QED
    BY <1>1, <2>1, <2>3 DEF MarketLedger
<1>5. ASSUME NEW t \in Session, Serve(t), UNCHANGED <<desk, later>>
      PROVE  MarketLedger'
  BY <1>1, <1>5, ServeMarketLedger
<1>6. ASSUME NEW a \in Staff, StaffStep(a) PROVE MarketLedger'
  BY <1>1, <1>6, StaffLedger
<1> QED
  BY <1>2, <1>3, <1>4, <1>5, <1>6 DEF MarketNext

\* The counter of a code stays exact and within its limit while the staff lower
\* the limit, delete the code or insert one between the reads and the writes of
\* the orders that use it: the UPDATE of a code leaves current_uses alone, and a
\* deletion takes the code off the orders that carried it.
THEOREM CodesCounted ==
  ASSUME NoSharedChanges,
         \A c \in Promo : InitialPromo[c].exists => InitialPromo[c].uses = 0
  PROVE  MarketSpec => []CodeAccounting
<1>1. MarketInit => MarketLedger
  BY InitMarketLedger
<1>2. MarketLedger /\ [MarketNext]_marketVars => MarketLedger'
  BY NextMarketLedger
<1>3. MarketLedger => CodeAccounting
  <2>1. \A c : {o \in Standing : orders[o].promo = c} = CarriersIn(orders, c)
    BY HeldNow DEF CarriersIn
  <2> QED
    BY <2>1 DEF MarketLedger, MarketUses, CodeAccounting
<1> QED
  BY <1>1, <1>2, <1>3, PTL DEF MarketSpec

-----------------------------------------------------------------------------
(* The totals. *)

LEMMA StaffTotals ==
  ASSUME MarketSafe, Totals, Safe', NEW a \in Staff, StaffStep(a)
  PROVE  Totals'
<1>1. UNCHANGED <<pc, req, loc>>
  BY DEF StaffStep, CreateProduct, ReadProductRow, UpdateProduct, DeleteProduct, CreatePromoCode,
         ReadPromoRow, UpdatePromoCode, DeletePromoCode, GiveUp, OrdersUntouched, vars
<1>2. \A o \in OrderId :
        /\ orders'[o].status = orders[o].status /\ orders'[o].total = orders[o].total
        /\ orders'[o].discount = orders[o].discount /\ orders'[o].items = orders[o].items
  <2>1. CASE DeletePromoCode(a)
    <3>1. PICK c \in Promo : orders' = [o \in OrderId |-> WithoutCode(orders[o], c)]
      BY <2>1 DEF DeletePromoCode
    <3>2. \A o \in OrderId : orders[o] \in OrderRow
      BY DEF Totals, Safe, TypeOK
    <3> QED
      BY <3>1, <3>2 DEF WithoutCode, OrderRow
  <2>2. CASE ~DeletePromoCode(a)
    BY <2>2 DEF StaffStep, CreateProduct, ReadProductRow, UpdateProduct, DeleteProduct,
                CreatePromoCode, ReadPromoRow, UpdatePromoCode, GiveUp, OrdersUntouched, vars
  <2> QED
    BY <2>1, <2>2
<1>3. \A o \in OrderId : RowTotal(orders'[o])
  <2>1. \A o \in OrderId : RowTotal(orders[o])
    BY RowTotals DEF Totals
  <2> QED
    BY <1>2, <2>1 DEF RowTotal, Discounted, Stands
<1>4. LineTotals'
  BY <1>1 DEF Totals, LineTotals, LineTotal
<1> QED
  BY <1>1, <1>3, <1>4, RowTotals DEF Totals

LEMMA NextMarketTotals == MarketSafe /\ Totals /\ [MarketNext]_marketVars => Totals'
<1> SUFFICES ASSUME MarketSafe, Totals, [MarketNext]_marketVars PROVE Totals'
  OBVIOUS
<1>1. Safe'
  BY MarketNextSafe DEF MarketSafe
<1>2. CASE [Next]_vars
  BY <1>2, NextTotals
<1>3. ASSUME NEW a \in Staff, StaffStep(a) PROVE Totals'
  BY <1>1, <1>3, StaffTotals
<1> QED
  BY <1>2, <1>3 DEF MarketNext, MarketCrash, Next, marketVars

LEMMA MarketAlwaysTotals == MarketSpec => []Totals
<1>1. MarketInit => Totals
  BY InitTotals DEF MarketInit
<1> QED
  BY <1>1, NextMarketTotals, MarketAlwaysSafe, PTL DEF MarketSpec

\* What a customer is asked to pay is the cost of the order's lines less the
\* recorded discount, to the cent that rounding the two can add or lose, while
\* sellers change prices and administrators codes and no order is updated.
THEOREM MarketTotalsAddUp ==
  ASSUME "update" \notin Ops
  PROVE  MarketSpec => []TotalIsDiscounted
<1>1. Totals => TotalIsDiscounted
  BY DEF Totals
<1> QED
  BY <1>1, MarketAlwaysTotals, PTL

\* The stored amount of an order is that of its stored lines, also when updates
\* of it overlap with each other and with price changes of the seller.
THEOREM MarketAmountsMatchLines == MarketSpec => []TotalsFollowLines
<1>1. Totals => TotalsFollowLines
  BY DEF Totals
<1> QED
  BY <1>1, MarketAlwaysTotals, PTL
=============================================================================
