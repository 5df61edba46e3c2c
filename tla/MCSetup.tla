------------------------------ MODULE MCSetup ------------------------------
(***************************************************************************)
(* Setup for TLC: two keys, and as many agents as a run names.             *)
(***************************************************************************)
EXTENDS Setup

CONSTANTS k1, k2, a1, a2, a3
=============================================================================
