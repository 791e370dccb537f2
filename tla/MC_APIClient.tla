---------------------------- MODULE MC_APIClient ----------------------------
(***************************************************************************)
(* A small instance of APIClient: two calls on the single permit that a    *)
(* client has by default, and two certificates, the pinned one and another. *)
(***************************************************************************)
EXTENDS APIClient
=============================================================================
