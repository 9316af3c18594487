---------------------------- MODULE Marketplace ----------------------------
(***************************************************************************)
(* The orders service together with the sellers and administrators who     *)
(* edit products and promo codes (internal/products, internal/promos).     *)
(*                                                                         *)
(* The staff's requests open no transaction.  An update reads the row,     *)
(* changes the fields the request names and writes every field back, so it *)
(* is two steps: desk[a] holds the row between them.  The other requests   *)
(* write once; what they read first (the seller of a product) never        *)
(* changes.  Requests of users without the right or the row are answered   *)
(* with an error and change nothing: they are left out.                    *)
(***************************************************************************)
EXTENDS Orders

CONSTANTS
  Staff,         \* connections of sellers and administrators
  Later,         \* the products and codes inserted while the system runs
  NewProducts,   \* bound: the rows a seller can insert
  NewPromos,     \* bound: the rows of codes the staff can insert
  ProductEdits,  \* bound: the fields an update of a product names, with values
  PromoEdits     \* the same of a code

\* What a request can hold, before the CHECKs.
ProductData == [stock : Int, status : ProductStatus, price : Int]
PromoData ==
  [ exists : BOOLEAN, active : BOOLEAN, uses : Nat, maxUses : Int, minAmount : Int,
    kind : DiscountType, value : Int, validFrom : Nat, validUntil : Nat ]

ASSUME StaffAssumption ==
  /\ Later \subseteq Product \cup Promo
  /\ \A p \in Product \cap Later : InitialProduct[p].status # "ACTIVE"
  /\ \A c \in Promo \cap Later : ~InitialPromo[c].exists
  /\ NewProducts \subseteq ProductData
  /\ NewPromos \subseteq PromoData
  /\ \A edit \in ProductEdits :
       /\ "stock" \in DOMAIN edit => edit["stock"] \in Int
       /\ "price" \in DOMAIN edit => edit["price"] \in Int
       /\ "status" \in DOMAIN edit => edit["status"] \in ProductStatus
  /\ \A edit \in PromoEdits :
       /\ DOMAIN edit \cap {"exists", "uses", "kind", "validFrom"} = {}
       /\ \A f \in DOMAIN edit \cap {"maxUses", "minAmount", "value"} : edit[f] \in Int
       /\ "active" \in DOMAIN edit => edit["active"] \in BOOLEAN
       /\ "validUntil" \in DOMAIN edit => edit["validUntil"] \in Nat

VARIABLES
  desk,   \* the update each of the staff is at: its row, read and edited
  later   \* the rows still to be inserted

marketVars == <<vars, desk, later>>

AtDesk == [step |-> "idle"]

MarketInit ==
  /\ Init
  /\ desk = [a \in Staff |-> AtDesk]
  /\ later = Later

Idle(a) == desk[a].step = "idle" /\ FreeConn

Leave(a) == desk' = [desk EXCEPT ![a] = AtDesk]

\* Nothing of the orders service changes but the two tables.
OrdersUntouched == UNCHANGED <<orders, operations, now, pc, req, loc, tx>>

\* The fields the request names are set, the others are as they were read.
Patched(row, edit) ==
  [f \in DOMAIN row |-> IF f \in DOMAIN edit THEN edit[f] ELSE row[f]]

-----------------------------------------------------------------------------
(* Products. *)

\* CHECK (price > 0) and CHECK (stock >= 0).
ProductAccepted(row) == row.price > 0 /\ row.stock >= 0

\* No transaction has the row of p locked (nor a row that is not there yet).
RowUnlocked(p) == \A s \in Session : p \notin tx[s].locks

CreateProduct(a) ==
  /\ Idle(a)
  /\ \E p \in Product \cap later, row \in NewProducts :
       /\ RowUnlocked(p)
       /\ ProductAccepted(row)
       /\ products' = [products EXCEPT ![p] = row]
       /\ later' = later \ {p}
  /\ OrdersUntouched /\ UNCHANGED <<promos, desk>>

ReadProductRow(a) ==
  /\ Idle(a)
  /\ \E p \in Product \ later, edit \in ProductEdits :
       desk' = [desk EXCEPT ![a] =
                  [step |-> "product", key |-> p, row |-> Patched(products[p], edit)]]
  /\ OrdersUntouched /\ UNCHANGED <<products, promos, later>>

\* UPDATE products SET stock = $5, ...: the values read, not what is stored now.
UpdateProduct(a) ==
  /\ desk[a].step = "product" /\ FreeConn
  /\ RowUnlocked(desk[a].key)
  /\ ProductAccepted(desk[a].row)
  /\ products' = [products EXCEPT ![desk[a].key] = desk[a].row]
  /\ Leave(a)
  /\ OrdersUntouched /\ UNCHANGED <<promos, later>>

\* A product is never deleted, it is archived.
DeleteProduct(a) ==
  /\ Idle(a)
  /\ \E p \in Product \ later :
       /\ RowUnlocked(p)
       /\ products' = [products EXCEPT ![p].status = "ARCHIVED"]
  /\ OrdersUntouched /\ UNCHANGED <<promos, desk, later>>

-----------------------------------------------------------------------------
(* Promo codes. *)

\* The CHECKs of promo_codes.
PromoAccepted(row) ==
  /\ row.value > 0 /\ row.minAmount >= 0 /\ row.maxUses > 0
  /\ row.uses <= row.maxUses
  /\ row.validFrom < row.validUntil

CreatePromoCode(a) ==
  /\ Idle(a)
  /\ \E c \in Promo \cap later, row \in NewPromos :
       /\ PromoAccepted(row)
       /\ promos' = [promos EXCEPT ![c] = [row EXCEPT !.exists = TRUE, !.uses = 0]]
       /\ later' = later \ {c}
  /\ OrdersUntouched /\ UNCHANGED <<products, desk>>

ReadPromoRow(a) ==
  /\ Idle(a)
  /\ \E c \in Promo, edit \in PromoEdits :
       /\ promos[c].exists
       /\ desk' = [desk EXCEPT ![a] =
                     [step |-> "promo", key |-> c, row |-> Patched(promos[c], edit)]]
  /\ OrdersUntouched /\ UNCHANGED <<products, promos, later>>

\* Mutant: current_uses is written back too.
EditedUses(stored, row) ==
  [stored EXCEPT !.value = row.value, !.minAmount = row.minAmount, !.maxUses = row.maxUses,
                 !.validUntil = row.validUntil, !.active = row.active, !.uses = row.uses]

\* The columns UPDATE promo_codes sets.
EditedPromo(stored, row) ==
  [stored EXCEPT !.value = row.value, !.minAmount = row.minAmount, !.maxUses = row.maxUses,
                 !.validUntil = row.validUntil, !.active = row.active]

\* No row with this id is not an error.
UpdatePromoCode(a) ==
  LET c   == desk[a].key
      row == EditedPromo(promos[c], desk[a].row)
  IN  /\ desk[a].step = "promo" /\ FreeConn
      /\ IF promos[c].exists
         THEN PromoAccepted(row) /\ promos' = [promos EXCEPT ![c] = row]
         ELSE UNCHANGED promos
      /\ Leave(a)
      /\ OrdersUntouched /\ UNCHANGED <<products, later>>

\* Mutant: no ON DELETE SET NULL.
KeepCode(row, c) == row

\* ON DELETE SET NULL on orders.promo_code_id.
WithoutCode(row, c) == IF row.promo = c THEN [row EXCEPT !.promo = NoPromo] ELSE row

DeletePromoCode(a) ==
  /\ Idle(a)
  /\ \E c \in Promo :
       /\ promos[c].exists
       /\ promos' = [promos EXCEPT ![c].exists = FALSE]
       /\ orders' = [o \in OrderId |-> WithoutCode(orders[o], c)]
  /\ UNCHANGED <<products, operations, now, pc, req, loc, tx, desk, later>>

-----------------------------------------------------------------------------
\* A statement fails or a CHECK refuses the row: the update is given up.
GiveUp(a) ==
  /\ desk[a].step # "idle" /\ FreeConn
  /\ Leave(a)
  /\ UNCHANGED <<vars, later>>

StaffStep(a) ==
  \/ CreateProduct(a) \/ ReadProductRow(a) \/ UpdateProduct(a) \/ DeleteProduct(a)
  \/ CreatePromoCode(a) \/ ReadPromoRow(a) \/ UpdatePromoCode(a) \/ DeletePromoCode(a)
  \/ GiveUp(a)

\* The process dies under the staff's requests too.
MarketCrash ==
  /\ Crash
  /\ desk' = [a \in Staff |-> AtDesk]
  /\ UNCHANGED later

MarketNext ==
  \/ ((\E s \in Session : Serve(s)) \/ Tick) /\ UNCHANGED <<desk, later>>
  \/ MarketCrash
  \/ \E a \in Staff : StaffStep(a)

MarketSpec == MarketInit /\ [][MarketNext]_marketVars

-----------------------------------------------------------------------------
(* Properties. *)

Desk ==
  [step : {"idle"}]
    \cup [step : {"product"}, key : Product, row : ProductData]
    \cup [step : {"promo"}, key : Promo, row : PromoData]

\* The staff's edits keep every table and every handler's locals typed: no stock,
\* price or counter gets below zero.
MarketTypeOK ==
  /\ TypeOK
  /\ desk \in [Staff -> Desk]
  /\ later \subseteq Product \cup Promo

\* The counter of a code is that of the standing orders carrying it, and within
\* its limit, while the staff edit, delete and insert codes between the reads
\* and the writes of the orders that use them.
CodeAccounting ==
  \A c \in Promo :
    promos[c].exists =>
      /\ promos[c].uses = Cardinality({o \in Standing : orders[o].promo = c})
      /\ promos[c].uses <= promos[c].maxUses

\* No order refers to a code that is gone, even if its handler read the code, or
\* the order that carried it, before the deletion.
NoDanglingCode == \A o \in OrderId : PromoExists(orders[o].promo)
=============================================================================
