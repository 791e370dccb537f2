-------------------------- MODULE MC_EntityUpdate ---------------------------
(***************************************************************************)
(* A resource of a writable and a read-only field of two values each,      *)
(* written up to three times in all by the program and by others.          *)
(***************************************************************************)
EXTENDS EntityUpdate
=============================================================================
