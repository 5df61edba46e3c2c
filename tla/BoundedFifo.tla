----------------------------- MODULE BoundedFifo -----------------------------
(***************************************************************************)
(* What internal/queue promises its caller: a first-in first-out buffer of *)
(* at most Capacity entries.  A Put that would overflow it pushes the      *)
(* oldest entry out, and a Drop retires entries from the old end only.     *)
(* The bbolt-backed SnapshotQueue is shown to implement this.              *)
(***************************************************************************)
EXTENDS Naturals, Sequences

CONSTANTS
  Entry,      \* what the buffer may hold
  Capacity    \* the most entries it keeps

VARIABLE q    \* the entries, oldest first

Init == q = << >>

Put(e) ==
  IF Len(q) < Capacity
  THEN q' = Append(q, e)
  ELSE q' = Append(Tail(q), e)

Drop(n) == q' = SubSeq(q, n + 1, Len(q))

Next ==
  \/ \E e \in Entry : Put(e)
  \/ \E n \in 1 .. Len(q) : Drop(n)

Spec == Init /\ [][Next]_q
=============================================================================
