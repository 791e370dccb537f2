-------------------------- MODULE MC_CollectionFetch --------------------------
(***************************************************************************)
(* A small instance of CollectionFetch: two members on one slot and one    *)
(* request made elsewhere, on the default single permit.                   *)
(***************************************************************************)
EXTENDS CollectionFetch

MCOthers == {99}
=============================================================================
