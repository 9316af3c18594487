--------------------------- MODULE MCMarketplace ---------------------------
(***************************************************************************)
(* Small instances of Marketplace for TLC.                                 *)
(***************************************************************************)
EXTENDS Marketplace, MCOrders

\* The product and the code are inserted while the system runs.
BoltLater == bolt :> [row(0, 0) EXCEPT !.status = "INACTIVE"]
HalfLater == half :> [promoRow(1, 10, 50) EXCEPT !.exists = FALSE]

BoltRow == {row(1, 12)}
HalfRow == {promoRow(2, 10, 50)}

NewPrice == {[price |-> 14]}

\* A limit that can be below the uses, and a code that is withdrawn.
LowerLimit == {[maxUses |-> 1]}

None == {}
=============================================================================
