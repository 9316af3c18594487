------------------------------ MODULE MCUsers ------------------------------
(***************************************************************************)
(* Small numbers of clients and addresses for TLC.                         *)
(***************************************************************************)
EXTENDS Users, TLC

CONSTANTS ann, bob, mail, spare

\* The sample user is one of the clients'.
SampleUser == {[id |-> 0, email |-> spare, password |-> ann, role |-> "SELLER"]}

\* Both clients register with one address.
OneAddress == {<<mail, "USER">>}
=============================================================================
