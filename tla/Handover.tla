------------------------------ MODULE Handover ------------------------------
(***************************************************************************)
(* What the agent promises about the snapshots it takes, whatever goes     *)
(* wrong: each stays pending until it is delivered or knowingly given up.  *)
(* One that was given up may arrive all the same, from a request that      *)
(* outlived the agent's patience; none comes back to pending, and nothing  *)
(* is delivered that was never taken.                                      *)
(***************************************************************************)
CONSTANT Item

VARIABLES pending, delivered, writtenOff

hvars == << pending, delivered, writtenOff >>

Init == pending = {} /\ delivered = {} /\ writtenOff = {}

Take ==
  /\ \E s \in Item \ (pending \cup delivered \cup writtenOff) :
       pending' = pending \cup { s }
  /\ UNCHANGED << delivered, writtenOff >>

\* A request arrives, with whatever it carries.
Deliver ==
  \E S \in (SUBSET (pending \cup writtenOff)) \ { {} } :
    /\ delivered' = delivered \cup S
    /\ pending' = pending \ S
    /\ writtenOff' = writtenOff \ S

\* The cap, a failed write to the disk, or the death of the process.
WriteOff ==
  \E S \in (SUBSET pending) \ { {} } :
    /\ writtenOff' = writtenOff \cup S
    /\ pending' = pending \ S
    /\ UNCHANGED delivered

\* One that is pending no longer is.
Settle == (Deliver \/ WriteOff) /\ pending' # pending

Next == Take \/ Deliver \/ WriteOff

Safety == Init /\ [][Next]_hvars

Spec == Safety /\ WF_hvars(Settle)
=============================================================================
