------------------------------ MODULE OrderBook ------------------------------
(***************************************************************************)
(* What the orders service promises its clients, as if every request were  *)
(* served at one instant and alone: an order takes its quantities from the *)
(* stock and one use of its code, an update exchanges the quantities, a    *)
(* cancellation gives everything back, and a request that cannot be served *)
(* changes nothing.  There are no statements, locks, transactions or       *)
(* failures here.                                                          *)
(***************************************************************************)
EXTENDS Integers

CONSTANTS User, Product, OrderId, Promo, NoPromo,
  Demand,  \* the quantities per product a request can ask for: [Product -> Nat]
  Stock, Uses, MaxUses

VARIABLES stock, uses, book

bookVars == <<stock, uses, book>>

Absent == [life |-> "absent"]

Entry(u, c, d) == [life |-> "standing", user |-> u, promo |-> c, demand |-> d]

Start == stock = Stock /\ uses = Uses /\ book = [o \in OrderId |-> Absent]

InStock(level) == \A p \in Product : level[p] >= 0

\* A user's only standing order; its code, if any, has a use left.
Place(o, u, c, d) ==
  LET left == [p \in Product |-> stock[p] - d[p]]
  IN  /\ book[o].life = "absent"
      /\ \A oo \in OrderId : book[oo].life = "standing" => book[oo].user # u
      /\ InStock(left)
      /\ stock' = left
      /\ c # NoPromo => uses[c] < MaxUses[c]
      /\ uses' = [k \in Promo |-> uses[k] + (IF k = c THEN 1 ELSE 0)]
      /\ book' = [book EXCEPT ![o] = Entry(u, c, d)]

\* The order keeps its user and its code.
Amend(o, d) ==
  LET left == [p \in Product |-> stock[p] + book[o].demand[p] - d[p]]
  IN  /\ book[o].life = "standing"
      /\ InStock(left)
      /\ stock' = left
      /\ book' = [book EXCEPT ![o].demand = d]
      /\ UNCHANGED uses

Cancel(o) ==
  /\ book[o].life = "standing"
  /\ stock' = [p \in Product |-> stock[p] + book[o].demand[p]]
  /\ uses' = [k \in Promo |-> uses[k] - (IF k = book[o].promo THEN 1 ELSE 0)]
  /\ book' = [book EXCEPT ![o].life = "canceled"]

Standing == [life : {"standing"}, user : User, promo : Promo \cup {NoPromo}, demand : Demand]

Change(o, entry) ==
  \/ entry \in Standing /\ Place(o, entry.user, entry.promo, entry.demand)
  \/ entry \in Standing /\ Amend(o, entry.demand)
  \/ Cancel(o)

Step == \E o \in OrderId : Change(o, book'[o])

BookSpec == Start /\ [][Step]_bookVars
=============================================================================
