------------------------------- MODULE MCAgent -------------------------------
(***************************************************************************)
(* Agent for TLC: one repository.                                          *)
(***************************************************************************)
EXTENDS Agent, TLC

CONSTANTS r1, t1

MCName == r1 :> r1

\* The snapshots a tick can take, and the one blob that is none.
MCReadable ==
  [ id: 1 .. MaxSnaps, project: Names, hash: Trees, unchanged: BOOLEAN ]
MCEntry == MCReadable \cup { Unreadable }
=============================================================================
