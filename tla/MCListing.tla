----------------------------- MODULE MCListing -----------------------------
(***************************************************************************)
(* Small catalogs for TLC.                                                 *)
(***************************************************************************)
EXTENDS Listing, TLC

CONSTANTS bolt, nut, nail, screw, hook

at(instant) == [stage |-> "stored", created |-> instant, status |-> "ACTIVE"]
none == [stage |-> "absent", created |-> 0, status |-> "ACTIVE"]

\* bolt and nut are sample products of the second migration, which have one
\* created_at; hook can be inserted.
Catalog ==
  bolt :> at(0) @@ nut :> at(0) @@ nail :> at(1) @@ screw :> at(2) @@ hook :> none
=============================================================================
