----------------------------- MODULE MCDelivery -----------------------------
(***************************************************************************)
(* Instances of Delivery for TLC: two projects, two tree hashes.           *)
(***************************************************************************)
EXTENDS Delivery, TLC

CONSTANTS p1, p2, t1, t2

\* Each project reports a name of its own.
MCOwnName == (p1 :> p1) @@ (p2 :> p2)
MCOneName == p1 :> p1

\* The blobs the queue may hold.
MCEntry == Snapshot \cup { Unreadable }

MCSymmetry == Permutations({ t1, t2 }) \cup Permutations({ p1, p2 })
=============================================================================
