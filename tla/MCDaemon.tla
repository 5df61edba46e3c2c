------------------------------ MODULE MCDaemon ------------------------------
(***************************************************************************)
(* Daemon for TLC: two repositories and a pinned directory.                *)
(***************************************************************************)
EXTENDS Daemon

CONSTANTS r1, r2, d
=============================================================================
