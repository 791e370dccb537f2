--------------------------- MODULE MC_ObjectsFetch ---------------------------
(***************************************************************************)
(* Small instances of ObjectsFetch, and of the pool in it: more members     *)
(* than slots of the limiter, every mixture of the kinds a run names, and a *)
(* context that may die at any point.                                       *)
(***************************************************************************)
EXTENDS ObjectsFetch
=============================================================================
