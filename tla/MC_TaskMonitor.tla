-------------------------- MODULE MC_TaskMonitor ----------------------------
(***************************************************************************)
(* An operation of up to three polls, delays of up to two ticks and a      *)
(* default poll rate of two.                                               *)
(***************************************************************************)
EXTENDS TaskMonitor
=============================================================================
