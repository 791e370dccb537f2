--------------------------- MODULE MC_Pagination ----------------------------
(***************************************************************************)
(* Collections of up to three pages whose next links may form a circle, on *)
(* services that answer any mixture of expanded and plain queries.         *)
(***************************************************************************)
EXTENDS Pagination
=============================================================================
