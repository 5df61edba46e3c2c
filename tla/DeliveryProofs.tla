--------------------------- MODULE DeliveryProofs ---------------------------
(***************************************************************************)
(* Proofs that a tick loses nothing silently, keeps snapshots in the order *)
(* of their capture, implements the safety of Handover, takes no file list *)
(* from a marker, repeats nothing without an excuse and uses its queue as  *)
(* a bounded FIFO: for any projects, caps, bounds and faults.              *)
(***************************************************************************)
EXTENDS Delivery, SnapshotQueueProofs

-----------------------------------------------------------------------------
(* Sequences.                                                              *)

LEMMA EmptyLength ==
  ASSUME NEW S, NEW s \in Seq(S)
  PROVE  s = << >> <=> Len(s) = 0
OBVIOUS

\* What Append adds to the range of a sequence.
LEMMA AppendRange ==
  ASSUME NEW S, NEW s \in Seq(S), NEW e \in S
  PROVE  /\ Append(s, e) \in Seq(S) /\ Append(s, e) # << >>
         /\ Range(Append(s, e)) = Range(s) \cup { e }
<1>1. Append(s, e) \in Seq(S) /\ Len(Append(s, e)) = Len(s) + 1
  OBVIOUS
<1>2. Append(s, e)[Len(s) + 1] = e /\ \A i \in 1 .. Len(s) : Append(s, e)[i] = s[i]
  OBVIOUS
<1>3. DOMAIN s = 1 .. Len(s) /\ DOMAIN Append(s, e) = 1 .. Len(s) \cup { Len(s) + 1 }
  BY <1>1
<1>4. Range(Append(s, e)) = Range(s) \cup { e }
  BY <1>2, <1>3 DEF Range
<1> QED BY <1>1, <1>4

\* What Tail takes from it.
LEMMA TailRange ==
  ASSUME NEW S, NEW s \in Seq(S), s # << >>
  PROVE  /\ Head(s) \in S /\ Head(s) \in Range(s) /\ Tail(s) \in Seq(S)
         /\ Range(s) = Range(Tail(s)) \cup { Head(s) }
         /\ Len(s) = 1 <=> Tail(s) = << >>
<1>1. Head(s) = s[1] /\ Len(s) \in Nat \ { 0 } /\ DOMAIN s = 1 .. Len(s)
  OBVIOUS
<1>2. Tail(s) \in Seq(S) /\ Len(Tail(s)) = Len(s) - 1
  OBVIOUS
<1>3. \A i \in 1 .. Len(s) - 1 : Tail(s)[i] = s[i + 1]
  OBVIOUS
<1>4. DOMAIN Tail(s) = 1 .. Len(s) - 1
  BY <1>2
<1>5. Range(Tail(s)) \subseteq Range(s)
  BY <1>1, <1>3, <1>4 DEF Range
<1>6. ASSUME NEW i \in 1 .. Len(s), i # 1
      PROVE  s[i] \in Range(Tail(s))
  <2>1. i - 1 \in 1 .. Len(s) - 1 /\ (i - 1) + 1 = i
    BY <1>1, <1>6
  <2> QED BY <1>3, <1>4, <2>1 DEF Range
<1>7. Range(s) \subseteq Range(Tail(s)) \cup { Head(s) }
  BY <1>1, <1>6 DEF Range
<1>8. Head(s) \in S /\ Head(s) \in Range(s)
  BY <1>1 DEF Range
<1>9. Len(s) = 1 <=> Len(Tail(s)) = 0
  BY <1>1, <1>2
<1>10. Tail(s) = << >> <=> Len(Tail(s)) = 0
  BY <1>2, EmptyLength
<1> QED BY <1>2, <1>5, <1>7, <1>8, <1>9, <1>10

\* A sequence of snapshots ranges over snapshots.
LEMMA SeqRange ==
  ASSUME NEW S, NEW s \in Seq(S)
  PROVE  Range(s) \subseteq S /\ (s = << >> <=> Range(s) = {})
<1>1. DOMAIN s = 1 .. Len(s) /\ \A i \in 1 .. Len(s) : s[i] \in S
  OBVIOUS
<1>2. s = << >> <=> Len(s) = 0
  OBVIOUS
<1>3. Len(s) \in Nat /\ (Len(s) # 0 => 1 \in 1 .. Len(s))
  OBVIOUS
<1> QED BY <1>1, <1>2, <1>3 DEF Range

-----------------------------------------------------------------------------
(* The queue inside Delivery.                                              *)

\* What Drain returns is part of the queue: readable entries, at their keys,
\* and a number of them that Ack takes.
LEMMA Drained ==
  ASSUME QueueInv
  PROVE  /\ DOMAIN Drain(BatchLimit) \subseteq DOMAIN kv
         /\ \A k \in DOMAIN Drain(BatchLimit) :
              Drain(BatchLimit)[k] = kv[k] /\ kv[k] \in Snapshot
         /\ Range(Drain(BatchLimit)) \subseteq Queued \cap Snapshot
         /\ Cardinality(DOMAIN Drain(BatchLimit)) \in Nat
<1> DEFINE R == { k \in DOMAIN kv : kv[k] \in Snapshot }
           D == Oldest(R, BatchLimit)
<1>1. Drain(BatchLimit) = [ k \in D |-> kv[k] ]
  BY EntryAssumption DEF Drain, Keys, Restrict
<1>2. D \subseteq R
  BY DEF Oldest
<1>4. IsFiniteSet(DOMAIN kv) /\ DOMAIN kv \subseteq Int
  BY RunLength DEF Keys
<1>5. R \in SUBSET Int /\ IsFiniteSet(R)
  BY <1>4, FS_Subset
<1>6. BatchLimit \in Nat
  BY DeliveryAssumption
<1>7. Cardinality(D) \in Nat
  BY <1>5, <1>6, OldestAtMost
<1>8. \A k \in D : kv[k] \in Queued /\ kv[k] \in Snapshot
  BY <1>2, EntryAssumption DEF Queued, Range
<1>9. Range(Drain(BatchLimit)) \subseteq Queued \cap Snapshot
  BY <1>1, <1>8 DEF Range
<1> QED BY <1>1, <1>2, <1>7, <1>8, <1>9

\* An ack of what Drain returned takes from the queue nothing else that can be
\* read.
LEMMA Acked ==
  ASSUME QueueInv, Ack(Cardinality(DOMAIN Drain(BatchLimit)))
  PROVE  Queued \cap Snapshot \subseteq Queued' \cup Range(Drain(BatchLimit))
<1> DEFINE B == Drain(BatchLimit)
           n == Cardinality(DOMAIN B)
<1>1. kv' = [ k \in DOMAIN kv \ Oldest(DOMAIN kv, n) |-> kv[k] ]
  BY DEF Ack, Keys, Restrict
<1>3. BatchLimit \in Nat
  BY DeliveryAssumption
<1>4. \A k \in Oldest(DOMAIN kv, n) : kv[k] \in Snapshot => k \in DOMAIN B
  BY <1>3, AckedWereDrained, EntryAssumption DEF Keys
<1>5. ASSUME NEW k \in DOMAIN kv, kv[k] \in Snapshot
      PROVE  kv[k] \in Queued' \cup Range(B)
  <2>1. CASE k \in Oldest(DOMAIN kv, n)
    BY <1>4, <1>5, <2>1, Drained DEF Range
  <2>2. CASE k \notin Oldest(DOMAIN kv, n)
    <3>1. k \in DOMAIN kv' /\ kv'[k] = kv[k]
      BY <1>1, <2>2
    <3> QED BY <1>5, <3>1, EntryAssumption DEF Queued, Range
  <2> QED BY <2>1, <2>2
<1> QED BY <1>5 DEF Queued, Range

-----------------------------------------------------------------------------
(* The inductive invariant.                                                *)

\* What Drain returned stays what the queue holds until it is acked, and an
\* ack follows only what the collector has received.
BacklogHeld ==
  /\ pc \in { "send", "reply", "ack" } => backlog \in { Empty, Drain(BatchLimit) }
  /\ pc \in { "reply", "ack" } => Batch \subseteq received

DInv == TypeOK /\ QueueInv /\ BacklogHeld /\ NoSilentLoss

\* Steps that leave the queue file alone leave its invariant alone.
LEMMA FileUntouched ==
  ASSUME UNCHANGED qvars
  PROVE  /\ QueueInv => QueueInv'
         /\ QueueTypeOK => QueueTypeOK'
         /\ Queued' = Queued /\ Drain(BatchLimit)' = Drain(BatchLimit)
BY DEF QueueInv, Blobs, QueueTypeOK, Keys, qvars, Queued, Drain

\* The queue's invariant under every step.
LEMMA QueueInvStep ==
  ASSUME TypeOK, QueueInv, BacklogHeld, [Next]_vars
  PROVE  QueueInv'
<1>1. CASE PushNext
  <2>1. Head(fresh) \in Entry
    BY <1>1, TailRange, EntryAssumption DEF PushNext, TypeOK
  <2> QED BY <1>1, <2>1, PushPreserves DEF PushNext
<1>2. CASE AckBacklog
  <2>1. backlog = Drain(BatchLimit)
    BY <1>2 DEF AckBacklog, BacklogHeld, TypeOK, Empty
  <2>2. Cardinality(DOMAIN backlog) \in Nat
    BY <2>1, Drained
  <2> QED BY <1>2, <2>2, AckPreserves DEF AckBacklog
<1>3. CASE ~PushNext /\ ~AckBacklog
  <2>1. UNCHANGED qvars
    BY <1>3 DEF Next, Agent, Outcome, Capture, StartTick, CaptureNext, CaptureFails,
         DrainQueue, DrainFails, Assemble, Accept, Reject, Timeout, ArriveLate,
         ReplyOK, ReplyLost, PushFails, AckFails, Crash, Die, Restart, vars
  <2> QED BY <2>1, FileUntouched
<1> QED BY <1>1, <1>2, <1>3

\* What a capture adds to the round.
LEMMA Captured ==
  ASSUME TypeOK, NEW p \in Paths, NEW h \in Trees, CaptureNext(p, h)
  PROVE  /\ Report(p, h) \in Snapshot /\ Report(p, h).id = next
         /\ fresh' \in Seq(Snapshot)
         /\ Range(fresh') = Range(fresh) \cup { Report(p, h) }
<1>1. NameOf[p] \in Names /\ next \in 1 .. MaxSnaps
  <2>1. NameOf[p] \in Names
    BY DeliveryAssumption
  <2>2. next \in 1 .. MaxSnaps + 1 /\ next <= MaxSnaps
    BY DEF CaptureNext, TypeOK
  <2>3. MaxSnaps \in Nat
    BY DeliveryAssumption
  <2> QED BY <2>1, <2>2, <2>3
<1>2. Report(p, h) \in Snapshot /\ Report(p, h).id = next
  BY <1>1 DEF Report, Snapshot
<1> QED BY <1>2, AppendRange DEF CaptureNext, TypeOK

\* Type correctness, and what each program point implies.
LEMMA TypeStep ==
  ASSUME TypeOK, QueueInv, BacklogHeld, [Next]_vars
  PROVE  TypeOK'
<1>0. QueueTypeOK'
  <2>1. QueueInv'
    BY QueueInvStep
  <2> QED BY <2>1, QueueInvTypes, PTL
<1> USE <1>0, DeliveryAssumption
<1>1. CASE StartTick
  BY <1>1 DEF StartTick, Batch, TypeOK, network, history, memory
<1>2. ASSUME NEW p \in Paths, CaptureFails(p)
      PROVE  TypeOK'
  BY <1>2 DEF CaptureFails, Batch, TypeOK, network, history, memory
<1>3. CASE DrainQueue
  <2>1. Range(backlog') \subseteq Snapshot
    BY <1>3, Drained DEF DrainQueue
  <2>2. DOMAIN backlog' # {} => Range(backlog') # {}
    BY DEF Range
  <2>3. fresh' = fresh /\ (fresh # << >> => Range(fresh) # {})
    BY <1>3, SeqRange DEF DrainQueue, Assemble, TypeOK
  <2>4. pc' = "send" => DOMAIN backlog' # {} \/ fresh # << >>
    BY <1>3 DEF DrainQueue, Assemble
  <2>5. pc' = "send" => Batch' # {}
    BY <2>2, <2>3, <2>4 DEF Batch
  <2> QED BY <1>3, <2>1, <2>5 DEF DrainQueue, Assemble, TypeOK, network, history
<1>4. CASE DrainFails
  BY <1>4, SeqRange DEF DrainFails, Assemble, Batch, Empty, Range, TypeOK, network, history, memory
<1>5. CASE Accept
  BY <1>5, SeqRange DEF Accept, Record, Batch, TypeOK, network, history, memory
<1>6. CASE Reject
  BY <1>6 DEF Reject, GiveUp, Empty, Range, TypeOK, network, history, memory
<1>7. CASE Timeout
  BY <1>7, SeqRange DEF Timeout, GiveUp, Empty, Range, Batch, TypeOK, network, history, memory
<1>8. CASE ArriveLate
  BY <1>8 DEF ArriveLate, Record, Batch, TypeOK, network, history, memory
<1>9. CASE ReplyOK
  <2>1. fresh' \in Seq(Snapshot) /\ fresh' = << >>
    BY <1>9 DEF ReplyOK
  <2>2. pc' \in { "wait", "ack" } /\ (pc' = "ack" => DOMAIN backlog' # {})
    BY <1>9 DEF ReplyOK
  <2> QED BY <1>9, <2>1, <2>2 DEF ReplyOK, TypeOK, network, history
<1>10. CASE ReplyLost
  BY <1>10, SeqRange DEF ReplyLost, GiveUp, Empty, Range, Batch, TypeOK, network, history, memory
<1>11. CASE PushNext
  <2>1. fresh' \in Seq(Snapshot) /\ pc' \in { "wait", "push" }
        /\ (pc' = "wait" <=> fresh' = << >>)
    BY <1>11, TailRange DEF PushNext, Shift, TypeOK
  <2>2. Queued \subseteq Snapshot
    BY EntryAssumption DEF Queued, Range, TypeOK, QueueTypeOK, Keys
  <2> QED BY <1>11, <2>1, <2>2 DEF PushNext, Shift, TypeOK, network
<1>12. CASE PushFails
  BY <1>12, TailRange DEF PushFails, Shift, TypeOK, network, history, memory
<1>13. CASE AckBacklog
  BY <1>13 DEF AckBacklog, Empty, Range, TypeOK, network, history, memory
<1>14. CASE AckFails
  BY <1>14 DEF AckFails, Empty, Range, TypeOK, network, history, memory
<1>15. CASE Crash
  BY <1>15, SeqRange DEF Crash, Die, Batch, Empty, Range, TypeOK, network, history, memory
<1>16. CASE Restart
  BY <1>16 DEF Restart, Batch, TypeOK, network, history, memory
<1>17. ASSUME NEW p \in Paths, NEW h \in Trees, CaptureNext(p, h)
      PROVE  TypeOK'
  <2>1. fresh' \in Seq(Snapshot)
    BY <1>17, Captured
  <2>2. lastHash' \in [ Names -> Trees \cup { NoHash } ] /\ seen' \in [ Paths -> Trees \cup { NoHash } ]
    BY <1>17 DEF CaptureNext, TypeOK
  <2>3. next' \in 1 .. MaxSnaps + 1 /\ todo' \in SUBSET Paths
    BY <1>17 DEF CaptureNext, TypeOK
  <2> QED BY <1>17, <2>1, <2>2, <2>3 DEF CaptureNext, TypeOK, network
<1>18. CASE UNCHANGED vars
  BY <1>18 DEF vars, memory, network, history, TypeOK, Batch
<1> QED BY <1>1, <1>2, <1>3, <1>4, <1>5, <1>6, <1>7, <1>8, <1>9, <1>10, <1>11, <1>12, <1>13, <1>14, <1>15, <1>16, <1>17, <1>18 DEF Next, Agent, Outcome, Capture

\* The backlog in hand is the head of the queue until it is acked, and what is
\* acked has been received.
LEMMA BacklogStep ==
  ASSUME TypeOK, QueueInv, BacklogHeld, [Next]_vars
  PROVE  BacklogHeld'
<1>1. CASE DrainQueue
  BY <1>1, FileUntouched DEF DrainQueue, Assemble, BacklogHeld
<1>2. CASE DrainFails
  BY <1>2 DEF DrainFails, Assemble, BacklogHeld
<1>3. CASE Accept
  BY <1>3, FileUntouched DEF Accept, Record, BacklogHeld, Batch
<1>4. CASE ReplyOK
  <2>1. Range(fresh') = {}
    BY <1>4 DEF ReplyOK, Range
  <2> QED BY <1>4, <2>1, FileUntouched DEF ReplyOK, BacklogHeld, Batch, network
<1>5. CASE ArriveLate
  BY <1>5, FileUntouched DEF ArriveLate, Record, BacklogHeld, Batch, memory
<1>6. CASE UNCHANGED vars
  BY <1>6, FileUntouched DEF vars, memory, network, BacklogHeld, Batch
<1>7. CASE Reject \/ Timeout \/ ReplyLost
  BY <1>7 DEF Reject, Timeout, ReplyLost, GiveUp, BacklogHeld
<1>8. CASE PushNext \/ PushFails \/ AckBacklog \/ AckFails \/ Crash \/ Restart \/ StartTick
  BY <1>8 DEF PushNext, PushFails, Shift, AckBacklog, AckFails, Crash, Die, Restart,
       StartTick, BacklogHeld
<1>9. CASE Capture
  BY <1>9 DEF Capture, CaptureNext, CaptureFails, BacklogHeld
<1> QED BY <1>1, <1>2, <1>3, <1>4, <1>5, <1>6, <1>7, <1>8, <1>9 DEF Next, Agent, Outcome

\* Only snapshots are queued, apart from what does not decode.
LEMMA QueuedSnapshots == QueueTypeOK => Queued \subseteq Snapshot
BY EntryAssumption DEF Queued, Range, QueueTypeOK, Keys

\* A snapshot that is accounted for stays accounted for.
LEMMA AccountedStep ==
  ASSUME TypeOK, QueueInv, BacklogHeld, [Next]_vars
  PROVE  Accounted \subseteq Accounted'
<1>1. CASE Capture
  <2>1. ASSUME NEW p \in Paths, NEW h \in Trees, CaptureNext(p, h)
        PROVE  Accounted \subseteq Accounted'
    <3>1. Range(fresh) \subseteq Range(fresh')
      BY <2>1, Captured
    <3> QED BY <2>1, <3>1, FileUntouched DEF CaptureNext, Accounted, network
  <2>2. ASSUME NEW p \in Paths, CaptureFails(p)
        PROVE  Accounted \subseteq Accounted'
    BY <2>2, FileUntouched DEF CaptureFails, Accounted, network, history
  <2> QED BY <1>1, <2>1, <2>2 DEF Capture
<1>2. CASE StartTick \/ DrainQueue \/ DrainFails \/ Restart
  BY <1>2, FileUntouched DEF StartTick, DrainQueue, DrainFails, Assemble, Restart,
       Accounted, network, history
<1>3. CASE Accept \/ ArriveLate
  BY <1>3, FileUntouched DEF Accept, ArriveLate, Record, Accounted, memory
<1>4. CASE Reject \/ Timeout \/ ReplyLost
  BY <1>4, FileUntouched DEF Reject, Timeout, ReplyLost, GiveUp, Accounted, network, history
<1>5. CASE ReplyOK
  <2>1. Range(fresh) \subseteq received
    BY <1>5 DEF ReplyOK, BacklogHeld, Batch
  <2> QED BY <1>5, <2>1, FileUntouched DEF ReplyOK, Accounted, network, history
<1>6. CASE PushNext
  <2>1. Head(fresh) \in Snapshot /\ Range(fresh) = Range(fresh') \cup { Head(fresh) }
    BY <1>6, TailRange DEF PushNext, Shift, TypeOK
  <2>2. Head(fresh) \in Entry /\ Head(fresh) # Unreadable
    BY <2>1, EntryAssumption
  <2>3. seq + 1 \in DOMAIN kv' /\ kv'[seq + 1] = Head(fresh)
    BY <1>6, <2>2, PushLeaves DEF PushNext, Keys
  <2>4. Head(fresh) \in Queued'
    BY <2>2, <2>3 DEF Queued, Range
  <2>5. Queued \subseteq Queued' \cup evicted'
    BY <1>6 DEF PushNext, Queued
  <2> QED BY <1>6, <2>1, <2>4, <2>5 DEF PushNext, Accounted, network
<1>7. CASE PushFails
  <2>1. Range(fresh) = Range(fresh') \cup { Head(fresh) }
    BY <1>7, TailRange DEF PushFails, Shift, TypeOK
  <2> QED BY <1>7, <2>1, FileUntouched DEF PushFails, Accounted, network
<1>8. CASE AckBacklog
  <2>1. backlog = Drain(BatchLimit)
    BY <1>8 DEF AckBacklog, BacklogHeld, TypeOK, Empty
  <2>2. Range(backlog) \subseteq received
    BY <1>8 DEF AckBacklog, BacklogHeld, Batch
  <2>3. Queued \subseteq Queued' \cup received
    BY <1>8, <2>1, <2>2, Acked, QueuedSnapshots DEF AckBacklog, TypeOK
  <2> QED BY <1>8, <2>3 DEF AckBacklog, Accounted, network, history
<1>9. CASE AckFails
  BY <1>9, FileUntouched DEF AckFails, Accounted, network
<1>10. CASE Crash
  <2>1. Range(fresh) \subseteq received' \cup lost'
    BY <1>10 DEF Crash, Die
  <2> QED BY <1>10, <2>1, FileUntouched DEF Crash, Die, Accounted
<1>11. CASE UNCHANGED vars
  BY <1>11, FileUntouched DEF vars, memory, network, history, Accounted
<1> QED BY <1>1, <1>2, <1>3, <1>4, <1>5, <1>6, <1>7, <1>8, <1>9, <1>10, <1>11
     DEF Next, Agent, Outcome

\* Every id handed out belongs to a snapshot that is accounted for.
LEMMA LossStep ==
  ASSUME TypeOK, QueueInv, BacklogHeld, NoSilentLoss, [Next]_vars
  PROVE  NoSilentLoss'
<1>1. Accounted \subseteq Accounted'
  BY AccountedStep
<1>2. CASE next' = next
  BY <1>1, <1>2 DEF NoSilentLoss
<1>3. ASSUME NEW p \in Paths, NEW h \in Trees, CaptureNext(p, h)
      PROVE  NoSilentLoss'
  <2>1. Report(p, h).id = next
    BY <1>3, Captured
  <2>2. Report(p, h) \in Accounted'
    BY <1>3, Captured DEF Accounted
  <2>3. next \in Nat /\ next' = next + 1
    BY <1>3 DEF CaptureNext, TypeOK
  <2> QED BY <1>1, <2>1, <2>2, <2>3 DEF NoSilentLoss
<1>4. CASE ~(\E p \in Paths, h \in Trees : CaptureNext(p, h))
  <2>1. next' = next
    BY <1>4 DEF Next, Agent, Outcome, Capture, StartTick, CaptureFails,
         DrainQueue, DrainFails, Assemble, Accept, Reject, Timeout, ArriveLate,
         ReplyOK, ReplyLost, PushNext, PushFails, AckBacklog, AckFails, Crash, Die,
         Restart, vars
  <2> QED BY <1>2, <2>1
<1> QED BY <1>3, <1>4

LEMMA InitInv == Init => DInv
<1>1. SUFFICES ASSUME Init
               PROVE  DInv
  OBVIOUS
<1>2. seq = Leftover /\ Keys = 1 .. Leftover /\ Leftover \in Nat /\ Leftover <= MaxEntries
  BY <1>1, DeliveryAssumption, QueueAssumption DEF Init, Keys
<1>3. Blobs
  BY <1>1, <1>2, EntryAssumption DEF Init, Blobs, Keys
<1>4. QueueInv
  <2>1. 1 \in 1 .. seq + 1 /\ Keys = 1 .. seq /\ seq - 1 + 1 <= MaxEntries
    BY <1>2
  <2> QED BY <1>3, <2>1 DEF QueueInv
<1>5. fresh = << >> /\ fresh \in Seq(Snapshot) /\ Range(backlog) = {}
  BY <1>1 DEF Init, Empty, Range
<1>6. TypeOK
  BY <1>1, <1>4, <1>5, QueueInvTypes, DeliveryAssumption DEF Init, TypeOK
<1>7. BacklogHeld /\ NoSilentLoss
  BY <1>1 DEF Init, BacklogHeld, NoSilentLoss
<1> QED BY <1>4, <1>6, <1>7 DEF DInv

LEMMA Invariance == Spec => []DInv
<1>1. DInv /\ [Next]_vars => DInv'
  BY TypeStep, QueueInvStep, BacklogStep, LossStep DEF DInv
<1> QED BY <1>1, InitInv, PTL DEF Spec

\* Types, and what each program point of tick implies about its variables.
THEOREM TypeCorrect == Spec => []TypeOK
<1>1. DInv => TypeOK
  BY DEF DInv
<1> QED BY <1>1, Invariance, PTL

\* No captured snapshot disappears silently, whatever the caps, the failures,
\* the crashes and the unreadable entries in the queue.
THEOREM NothingLostSilently == Spec => []NoSilentLoss
<1>1. DInv => NoSilentLoss
  BY DEF DInv
<1> QED BY <1>1, Invariance, PTL

-----------------------------------------------------------------------------
(* Where snapshots come from.                                              *)

\* Each has the number of its capture, and only those taken are anywhere.
Numbered == \A s \in Accounted : s.id \in Nat /\ s.id < next

\* A request that outlived the agent's patience carries what is accounted for.
LateKnown == late \subseteq Accounted

HInv == DInv /\ Numbered /\ LateKnown /\ OldestFirst

\* What a request carries is queued, or of this round.
LEMMA BatchHeld ==
  ASSUME DInv, pc \in { "send", "reply", "ack" }
  PROVE  Batch \subseteq Queued \cup Range(fresh)
<1>1. Range(Empty) = {}
  BY DEF Empty, Range
<1> QED BY <1>1, Drained DEF DInv, BacklogHeld, Batch

\* A Push adds its snapshot to the queue, and nothing else.
LEMMA PushAdds ==
  ASSUME DInv, PushNext
  PROVE  /\ Head(fresh) \in Queued' /\ Queued' \subseteq Queued \cup { Head(fresh) }
         /\ Head(fresh) \in Range(fresh) /\ Head(fresh) \in Snapshot
         /\ Range(fresh) = Range(fresh') \cup { Head(fresh) }
         /\ evicted' = evicted \cup (Queued \ Queued')
<1>1. /\ Head(fresh) \in Snapshot /\ Head(fresh) \in Range(fresh)
      /\ Range(fresh) = Range(fresh') \cup { Head(fresh) }
  BY TailRange DEF PushNext, Shift, DInv, TypeOK
<1>2. Head(fresh) \in Entry /\ Head(fresh) # Unreadable
  BY <1>1, EntryAssumption
<1>3. /\ seq + 1 \in DOMAIN kv' /\ kv'[seq + 1] = Head(fresh)
      /\ DOMAIN kv' \subseteq DOMAIN kv \cup { seq + 1 }
      /\ \A k \in DOMAIN kv \cap DOMAIN kv' : kv'[k] = kv[k]
  BY <1>2, PushLeaves DEF PushNext, DInv, Keys
<1>4. Head(fresh) \in Queued'
  BY <1>2, <1>3 DEF Queued, Range
<1>5. Queued' \subseteq Queued \cup { Head(fresh) }
  BY <1>3 DEF Queued, Range
<1>6. evicted' = evicted \cup (Queued \ Queued')
  BY DEF PushNext, Queued
<1> QED BY <1>1, <1>4, <1>5, <1>6

\* An ack only takes from the queue, and nothing the collector does not have.
LEMMA AckTakes ==
  ASSUME DInv, AckBacklog
  PROVE  /\ Queued' \subseteq Queued /\ Queued \subseteq Queued' \cup received
         /\ DOMAIN kv' \subseteq DOMAIN kv /\ \A k \in DOMAIN kv' : kv'[k] = kv[k]
<1>1. /\ DOMAIN kv' \subseteq DOMAIN kv
      /\ \A k \in DOMAIN kv' : kv'[k] = kv[k]
  BY DEF AckBacklog, Ack, Restrict, Keys
<1>2. Queued' \subseteq Queued
  BY <1>1 DEF Queued, Range
<1>3. backlog = Drain(BatchLimit) /\ Range(backlog) \subseteq received
  BY DEF AckBacklog, DInv, BacklogHeld, TypeOK, Empty, Batch
<1>4. Queued \subseteq Queued' \cup received
  BY <1>3, Acked, QueuedSnapshots DEF AckBacklog, DInv, TypeOK
<1> QED BY <1>1, <1>2, <1>4

\* But for a capture, nothing comes to be accounted for that was not.
LEMMA NothingFromNowhere ==
  ASSUME DInv, LateKnown, [Next]_vars
  PROVE  \/ Accounted' \subseteq Accounted /\ next' = next
         \/ \E p \in Paths, h \in Trees :
              CaptureNext(p, h) /\ Accounted' \subseteq Accounted \cup { Report(p, h) }
<1> USE DEF DInv
<1>1. ASSUME NEW p \in Paths, NEW h \in Trees, CaptureNext(p, h)
      PROVE  Accounted' \subseteq Accounted \cup { Report(p, h) }
  BY <1>1, Captured, FileUntouched DEF CaptureNext, Accounted, network
<1>2. ASSUME NEW p \in Paths, CaptureFails(p)
      PROVE  Accounted' \subseteq Accounted /\ next' = next
  BY <1>2, FileUntouched DEF CaptureFails, Accounted, network, history
<1>3. CASE StartTick \/ DrainQueue \/ DrainFails \/ Restart
  BY <1>3, FileUntouched DEF StartTick, DrainQueue, DrainFails, Assemble, Restart,
       Accounted, network, history
<1>4. CASE Accept
  <2>1. Batch \subseteq Accounted
    BY <1>4, BatchHeld DEF Accept, Accounted
  <2> QED BY <1>4, <2>1, FileUntouched DEF Accept, Record, Accounted
<1>5. CASE ArriveLate
  BY <1>5, FileUntouched DEF ArriveLate, Record, Accounted, LateKnown, memory
<1>6. CASE Reject \/ Timeout \/ ReplyLost
  BY <1>6, FileUntouched DEF Reject, Timeout, ReplyLost, GiveUp, Accounted, network, history
<1>7. CASE ReplyOK
  <2>1. Range(fresh') = {}
    BY <1>7 DEF ReplyOK, Range
  <2> QED BY <1>7, <2>1, FileUntouched DEF ReplyOK, Accounted, network, history
<1>8. CASE PushNext
  BY <1>8, PushAdds DEF PushNext, Accounted, network
<1>9. CASE PushFails
  <2>1. Range(fresh) = Range(fresh') \cup { Head(fresh) }
    BY <1>9, TailRange DEF PushFails, Shift, TypeOK
  <2> QED BY <1>9, <2>1, FileUntouched DEF PushFails, Accounted, network
<1>10. CASE AckBacklog
  BY <1>10, AckTakes DEF AckBacklog, Accounted, network, history
<1>11. CASE AckFails
  BY <1>11, FileUntouched DEF AckFails, Accounted, network
<1>12. CASE Crash
  <2>1. Range(fresh') = {}
    BY <1>12 DEF Crash, Die, Range
  <2> QED BY <1>12, <2>1, FileUntouched DEF Crash, Die, Accounted
<1>13. CASE UNCHANGED vars
  BY <1>13, FileUntouched DEF vars, memory, network, history, Accounted
<1> QED BY <1>1, <1>2, <1>3, <1>4, <1>5, <1>6, <1>7, <1>8, <1>9, <1>10, <1>11, <1>12, <1>13
     DEF Next, Agent, Outcome, Capture

LEMMA NumberedStep ==
  ASSUME DInv, Numbered, LateKnown, [Next]_vars
  PROVE  Numbered'
<1>1. CASE Accounted' \subseteq Accounted /\ next' = next
  BY <1>1 DEF Numbered
<1>2. ASSUME NEW p \in Paths, NEW h \in Trees, CaptureNext(p, h),
             Accounted' \subseteq Accounted \cup { Report(p, h) }
      PROVE  Numbered'
  <2>1. Report(p, h).id = next
    BY <1>2, Captured DEF DInv
  <2>2. next \in Nat /\ next' = next + 1
    BY <1>2 DEF CaptureNext, DInv, TypeOK
  <2> QED BY <1>2, <2>1, <2>2 DEF Numbered
<1> QED BY <1>1, <1>2, NothingFromNowhere

LEMMA LateStep ==
  ASSUME DInv, LateKnown, [Next]_vars
  PROVE  LateKnown'
<1>1. Accounted \subseteq Accounted'
  BY AccountedStep DEF DInv
<1>2. CASE Timeout \/ Crash
  <2>1. pc = "send" => Batch \subseteq Accounted
    BY BatchHeld DEF Accounted
  <2>2. late' \subseteq Accounted
    BY <1>2, <2>1 DEF Timeout, Crash, Die, LateKnown
  <2> QED BY <1>1, <2>2 DEF LateKnown
<1>3. CASE ~Timeout /\ ~Crash
  <2>1. late' \subseteq late
    BY <1>3 DEF Next, Agent, Outcome, Capture, StartTick, CaptureNext, CaptureFails,
         DrainQueue, DrainFails, Assemble, Accept, Reject, ArriveLate, ReplyOK,
         ReplyLost, PushNext, PushFails, AckBacklog, AckFails, Restart, vars, network
  <2> QED BY <1>1, <2>1 DEF LateKnown
<1> QED BY <1>2, <1>3

-----------------------------------------------------------------------------
(* Order.                                                                  *)

QueueOrdered ==
  \A j, k \in DOMAIN kv :
    j < k /\ kv[j] # Unreadable /\ kv[k] # Unreadable => kv[j].id < kv[k].id
RoundLater == \A s \in Queued, t \in Range(fresh) : s.id < t.id
RoundOrdered == \A i, j \in 1 .. Len(fresh) : i < j => fresh[i].id < fresh[j].id

\* Nothing of this round is queued already, or twice in the round.
LEMMA Apart ==
  ASSUME HInv
  PROVE  /\ Queued \cap Range(fresh) = {}
         /\ fresh # << >> => Head(fresh) \notin Range(Tail(fresh))
<1>1. \A s \in Range(fresh) : s.id \in Nat
  BY DEF HInv, Numbered, Accounted
<1>2. Queued \cap Range(fresh) = {}
  BY <1>1 DEF HInv, OldestFirst
<1>3. ASSUME fresh # << >>, Head(fresh) \in Range(Tail(fresh))
      PROVE  FALSE
  <2>1. fresh \in Seq(Snapshot)
    BY DEF HInv, DInv, TypeOK
  <2>2. /\ Head(fresh) = fresh[1] /\ Len(fresh) \in Nat /\ Len(fresh) >= 1
        /\ DOMAIN Tail(fresh) = 1 .. Len(fresh) - 1
        /\ \A i \in 1 .. Len(fresh) - 1 : Tail(fresh)[i] = fresh[i + 1]
    BY <1>3, <2>1
  <2>3. PICK i \in 1 .. Len(fresh) - 1 : fresh[i + 1] = fresh[1]
    BY <1>3, <2>2 DEF Range
  <2>4. 1 \in 1 .. Len(fresh) /\ i + 1 \in 1 .. Len(fresh) /\ 1 < i + 1
    BY <2>2
  <2>5. fresh[1].id < fresh[i + 1].id
    BY <2>4 DEF HInv, OldestFirst
  <2>6. fresh[1].id \in Nat
    BY <1>1, <1>3, <2>1, <2>2, TailRange
  <2> QED BY <2>3, <2>5, <2>6
<1> QED BY <1>2, <1>3

\* What is left of a round is as ordered as it was.
LEMMA TailOrdered ==
  ASSUME HInv, pc = "push", Shift
  PROVE  /\ RoundOrdered'
         /\ \A t \in Range(fresh') : Head(fresh).id < t.id
<1>1. fresh \in Seq(Snapshot) /\ fresh # << >>
  BY DEF HInv, DInv, TypeOK
<1>2. /\ Head(fresh) = fresh[1] /\ Len(fresh) \in Nat /\ Len(fresh) >= 1
      /\ Len(fresh') = Len(fresh) - 1 /\ DOMAIN fresh' = 1 .. Len(fresh) - 1
      /\ \A i \in 1 .. Len(fresh) - 1 : fresh'[i] = fresh[i + 1]
  BY <1>1 DEF Shift
<1>3. \A i, j \in 1 .. Len(fresh) : i < j => fresh[i].id < fresh[j].id
  BY DEF HInv, OldestFirst
<1>4. ASSUME NEW i \in 1 .. Len(fresh'), NEW j \in 1 .. Len(fresh'), i < j
      PROVE  fresh'[i].id < fresh'[j].id
  <2>1. i + 1 \in 1 .. Len(fresh) /\ j + 1 \in 1 .. Len(fresh) /\ i + 1 < j + 1
    BY <1>2, <1>4
  <2> QED BY <1>2, <1>3, <1>4, <2>1
<1>5. ASSUME NEW i \in 1 .. Len(fresh')
      PROVE  Head(fresh).id < fresh'[i].id
  <2>1. 1 \in 1 .. Len(fresh) /\ i + 1 \in 1 .. Len(fresh) /\ 1 < i + 1
    BY <1>2, <1>5
  <2> QED BY <1>2, <1>3, <1>5, <2>1
<1> QED BY <1>2, <1>4, <1>5 DEF RoundOrdered, Range

LEMMA OrderStep ==
  ASSUME HInv, [Next]_vars
  PROVE  OldestFirst'
<1> USE DEF HInv
<1>0. OldestFirst <=> QueueOrdered /\ RoundLater /\ RoundOrdered
  BY DEF OldestFirst, QueueOrdered, RoundLater, RoundOrdered
<1>00. OldestFirst' <=> QueueOrdered' /\ RoundLater' /\ RoundOrdered'
  BY DEF OldestFirst, QueueOrdered, RoundLater, RoundOrdered
<1>1. ASSUME NEW p \in Paths, NEW h \in Trees, CaptureNext(p, h)
      PROVE  OldestFirst'
  <2>1. /\ Report(p, h).id = next /\ UNCHANGED qvars
        /\ Range(fresh') = Range(fresh) \cup { Report(p, h) }
    BY <1>1, Captured DEF CaptureNext, DInv
  <2>2. QueueOrdered' /\ Queued' = Queued
    BY <1>0, <2>1 DEF QueueOrdered, qvars, Queued
  <2>3. RoundLater'
    BY <1>0, <2>1, <2>2 DEF RoundLater, Numbered, Accounted
  <2>4. fresh \in Seq(Snapshot) /\ fresh' = Append(fresh, Report(p, h)) /\ Report(p, h) \in Snapshot
    BY <1>1, Captured DEF CaptureNext, DInv, TypeOK
  <2>5. /\ Len(fresh) \in Nat /\ Len(fresh') = Len(fresh) + 1
        /\ fresh'[Len(fresh) + 1] = Report(p, h)
        /\ \A i \in 1 .. Len(fresh) : fresh'[i] = fresh[i] /\ fresh[i] \in Range(fresh)
    BY <2>4 DEF Range
  <2>6. ASSUME NEW i \in 1 .. Len(fresh'), NEW j \in 1 .. Len(fresh'), i < j
        PROVE  fresh'[i].id < fresh'[j].id
    <3>1. i \in 1 .. Len(fresh)
      BY <2>5, <2>6
    <3>2. CASE j \in 1 .. Len(fresh)
      BY <1>0, <2>5, <2>6, <3>1, <3>2 DEF RoundOrdered
    <3>3. CASE j = Len(fresh) + 1
      <4>1. fresh[i].id < next
        BY <2>5, <3>1 DEF Numbered, Accounted
      <4> QED BY <2>1, <2>5, <3>1, <3>3, <4>1
    <3> QED BY <2>5, <3>2, <3>3
  <2>7. RoundOrdered'
    BY <2>6 DEF RoundOrdered
  <2> QED BY <1>00, <2>2, <2>3, <2>7
<1>2. CASE PushNext
  <2>1. Head(fresh) \in Entry /\ Head(fresh) \in Range(fresh) /\ Queued' \subseteq Queued \cup { Head(fresh) }
    BY <1>2, PushAdds, EntryAssumption
  <2>2. /\ DOMAIN kv \subseteq Int /\ DOMAIN kv' \subseteq DOMAIN kv \cup { seq + 1 }
        /\ seq + 1 \in DOMAIN kv' /\ kv'[seq + 1] = Head(fresh)
        /\ \A k \in DOMAIN kv : k <= seq
        /\ \A k \in DOMAIN kv \cap DOMAIN kv' : kv'[k] = kv[k]
    BY <1>2, <2>1, PushLeaves DEF PushNext, DInv, Keys
  <2>3. seq \in Nat
    BY DEF DInv, QueueInv, Blobs
  <2>4. ASSUME NEW j \in DOMAIN kv', NEW k \in DOMAIN kv', j < k,
               kv'[j] # Unreadable, kv'[k] # Unreadable
        PROVE  kv'[j].id < kv'[k].id
    <3>1. j \in DOMAIN kv /\ kv'[j] = kv[j]
      BY <2>2, <2>3, <2>4
    <3>2. CASE k \in DOMAIN kv
      BY <1>0, <2>2, <2>4, <3>1, <3>2 DEF QueueOrdered
    <3>3. CASE k = seq + 1
      <4>1. kv[j] \in Queued
        BY <2>4, <3>1 DEF Queued, Range
      <4>2. kv[j].id < Head(fresh).id
        BY <1>0, <2>1, <4>1 DEF RoundLater
      <4> QED BY <2>2, <3>1, <3>3, <4>2
    <3> QED BY <2>2, <3>2, <3>3
  <2>5. QueueOrdered'
    BY <2>4 DEF QueueOrdered
  <2>6. RoundOrdered' /\ \A t \in Range(fresh') : Head(fresh).id < t.id
    BY <1>2, TailOrdered DEF PushNext
  <2>7. Range(fresh') \subseteq Range(fresh)
    BY <1>2, PushAdds
  <2>8. RoundLater'
    BY <1>0, <2>1, <2>6, <2>7 DEF RoundLater
  <2> QED BY <1>00, <2>5, <2>6, <2>8
<1>3. CASE PushFails
  <2>1. UNCHANGED qvars /\ Queued' = Queued
    BY <1>3 DEF PushFails, qvars, Queued
  <2>2. Range(fresh') \subseteq Range(fresh)
    BY <1>3, TailRange DEF PushFails, Shift, DInv, TypeOK
  <2>3. RoundOrdered'
    BY <1>3, TailOrdered DEF PushFails
  <2>4. QueueOrdered' /\ RoundLater'
    BY <1>0, <2>1, <2>2 DEF QueueOrdered, RoundLater, qvars
  <2> QED BY <1>00, <2>3, <2>4
<1>4. CASE AckBacklog
  <2>1. fresh' = fresh
    BY <1>4 DEF AckBacklog
  <2>2. QueueOrdered' /\ RoundLater' /\ RoundOrdered'
    BY <1>0, <1>4, <2>1, AckTakes DEF QueueOrdered, RoundLater, RoundOrdered
  <2> QED BY <1>00, <2>2
<1>5. CASE ReplyOK \/ Crash
  <2>1. UNCHANGED qvars /\ Len(fresh') = 0 /\ Range(fresh') = {}
    BY <1>5 DEF ReplyOK, Crash, Die, Range
  <2>2. QueueOrdered' /\ RoundLater' /\ RoundOrdered'
    BY <1>0, <2>1 DEF QueueOrdered, RoundLater, RoundOrdered, qvars
  <2> QED BY <1>00, <2>2
<1>6. CASE UNCHANGED << qvars, fresh >>
  BY <1>6 DEF OldestFirst, Queued, qvars
<1>7. CASE ~Capture /\ ~PushNext /\ ~PushFails /\ ~AckBacklog /\ ~ReplyOK /\ ~Crash
  <2>1. UNCHANGED << qvars, fresh >>
    BY <1>7 DEF Next, Agent, Outcome, StartTick, DrainQueue, DrainFails, Assemble, Accept,
         Reject, Timeout, ArriveLate, ReplyLost, AckFails, Restart, vars, memory
  <2> QED BY <1>6, <2>1
<1>8. ASSUME NEW p \in Paths, CaptureFails(p)
      PROVE  OldestFirst'
  BY <1>6, <1>8 DEF CaptureFails
<1> QED BY <1>1, <1>2, <1>3, <1>4, <1>5, <1>7, <1>8 DEF Capture

-----------------------------------------------------------------------------
LEMMA InitHInv == Init => HInv
<1>1. SUFFICES ASSUME Init
               PROVE  HInv
  OBVIOUS
<1>2. DInv
  BY <1>1, InitInv
<1>3. Queued = {} /\ Range(fresh) = {} /\ Len(fresh) = 0
  BY <1>1 DEF Init, Queued, Range
<1>4. Accounted = {} /\ late = {}
  BY <1>1, <1>3 DEF Init, Accounted
<1>5. OldestFirst
  BY <1>1, <1>3 DEF Init, OldestFirst
<1> QED BY <1>2, <1>4, <1>5 DEF HInv, Numbered, LateKnown

LEMMA DInvStep == DInv /\ [Next]_vars => DInv'
BY TypeStep, QueueInvStep, BacklogStep, LossStep DEF DInv

LEMMA HInvariance == Spec => []HInv
<1>1. HInv /\ [Next]_vars => HInv'
  BY DInvStep, NumberedStep, LateStep, OrderStep DEF HInv
<1> QED BY <1>1, InitHInv, PTL DEF Spec

\* The queue, this round, and every request are in the order of capture,
\* whatever was queued again, sent in part, evicted or lost in between.
THEOREM CaptureOrder == Spec => []OldestFirst
<1>1. HInv => OldestFirst
  BY DEF HInv
<1> QED BY <1>1, HInvariance, PTL

\* The queue under tick, with its crashes and failures, keeps to its cap and
\* leaves no hole, and the acks tick makes are safe.
THEOREM QueueUnderTicks == Spec => [](Unbroken /\ Bounded /\ AckRetiresOnlyDrained)
<1>1. DInv => Unbroken /\ Bounded
  BY RunLength DEF DInv, QueueInv, Unbroken, Bounded
<1>2. DInv => AckRetiresOnlyDrained
  BY AckedWereDrained, QueueAssumption DEF DInv, AckRetiresOnlyDrained
<1> QED BY <1>1, <1>2, Invariance, PTL

-----------------------------------------------------------------------------
(* The hand-over.                                                          *)

InHand == (Queued \cup Range(fresh)) \ received
Gone == (evicted \cup unqueued \cup lost) \ received

\* The actions of Handover, with its variables as Delivery has them.
LEMMA TakeStep ==
  ASSUME HInv, NEW p \in Paths, NEW h \in Trees, CaptureNext(p, h)
  PROVE  Outcomes!Take
<1> DEFINE s == Report(p, h)
<1>1. s \in Snapshot /\ s.id = next /\ Range(fresh') = Range(fresh) \cup { s }
  BY Captured DEF HInv, DInv
<1>2. s \notin Accounted
  BY <1>1 DEF HInv, Numbered
<1>3. /\ Queued' = Queued /\ received' = received /\ evicted' = evicted
      /\ unqueued' = unqueued /\ lost' = lost
  BY DEF CaptureNext, network, Queued, qvars
<1>4. s \in Snapshot \ (InHand \cup received \cup Gone)
  BY <1>1, <1>2 DEF Accounted, InHand, Gone
<1>5. ((Queued' \cup Range(fresh')) \ received') = InHand \cup { s }
  BY <1>1, <1>2, <1>3 DEF Accounted, InHand
<1> QED BY <1>3, <1>4, <1>5 DEF Outcomes!Take, InHand, Gone

LEMMA DeliverStep ==
  ASSUME HInv, NEW B, B \subseteq Accounted, received' = received \cup B,
         UNCHANGED << kv, fresh, evicted, unqueued, lost >>
  PROVE  Outcomes!Deliver \/ UNCHANGED Outcomes!hvars
<1> DEFINE S == B \ received
<1>1. Queued' = Queued
  BY DEF Queued
<1>2. S \subseteq InHand \cup Gone
  BY DEF Accounted, InHand, Gone
<1>3. /\ received' = received \cup S
      /\ ((Queued' \cup Range(fresh')) \ received') = InHand \ S
      /\ ((evicted' \cup unqueued' \cup lost') \ received') = Gone \ S
  BY <1>1 DEF InHand, Gone
<1>4. CASE S = {}
  BY <1>3, <1>4 DEF Outcomes!hvars, InHand, Gone
<1>5. CASE S # {}
  <2>1. S \in (SUBSET (InHand \cup Gone)) \ { {} }
    BY <1>2, <1>5
  <2> QED BY <1>3, <2>1 DEF Outcomes!Deliver, InHand, Gone
<1> QED BY <1>4, <1>5

LEMMA WriteOffStep ==
  ASSUME NEW S, S \subseteq InHand,
         received' = received,
         ((Queued' \cup Range(fresh')) \ received') = InHand \ S,
         ((evicted' \cup unqueued' \cup lost') \ received') = Gone \cup S
  PROVE  Outcomes!WriteOff \/ UNCHANGED Outcomes!hvars
<1>1. CASE S = {}
  BY <1>1 DEF Outcomes!hvars, InHand, Gone
<1>2. CASE S # {}
  <2>1. S \in (SUBSET InHand) \ { {} }
    BY <1>2
  <2> QED BY <2>1 DEF Outcomes!WriteOff, InHand, Gone
<1> QED BY <1>1, <1>2

LEMMA HandoverStep ==
  ASSUME HInv, [Next]_vars
  PROVE  Outcomes!Next \/ UNCHANGED Outcomes!hvars
<1> USE DEF HInv, DInv
<1>1. ASSUME NEW p \in Paths, NEW h \in Trees, CaptureNext(p, h)
      PROVE  Outcomes!Next
  BY <1>1, TakeStep DEF Outcomes!Next
<1>2. CASE Accept
  <2>1. Batch \subseteq Accounted
    BY <1>2, BatchHeld DEF Accept, Accounted
  <2> QED BY <1>2, <2>1, DeliverStep DEF Accept, Record, qvars, Outcomes!Next
<1>3. CASE ArriveLate
  BY <1>3, DeliverStep DEF ArriveLate, Record, LateKnown, memory, qvars, Outcomes!Next
<1>4. CASE PushNext
  <2> DEFINE S == (Queued \ Queued') \ received
  <2>1. Queued \cap Range(fresh) = {}
    BY Apart
  <2>2. S \subseteq InHand
    BY DEF InHand
  <2>3. received' = received /\ unqueued' = unqueued /\ lost' = lost
    BY <1>4 DEF PushNext, network
  <2>4. ((Queued' \cup Range(fresh')) \ received') = InHand \ S
    BY <1>4, <2>1, <2>3, PushAdds DEF InHand
  <2>5. ((evicted' \cup unqueued' \cup lost') \ received') = Gone \cup S
    BY <1>4, <2>3, PushAdds DEF Gone
  <2> QED BY <2>2, <2>3, <2>4, <2>5, WriteOffStep DEF Outcomes!Next
<1>5. CASE PushFails
  <2> DEFINE S == { Head(fresh) } \ received
  <2>1. /\ fresh # << >> /\ fresh' = Tail(fresh) /\ Queued' = Queued /\ received' = received
        /\ evicted' = evicted /\ lost' = lost /\ unqueued' = unqueued \cup { Head(fresh) }
    BY <1>5 DEF PushFails, Shift, TypeOK, network, qvars, Queued
  <2>2. Range(fresh) = Range(fresh') \cup { Head(fresh) }
    BY <2>1, TailRange DEF TypeOK
  <2>3. Head(fresh) \notin Queued /\ Head(fresh) \notin Range(fresh')
    BY <2>1, <2>2, Apart
  <2>4. S \subseteq InHand /\ ((Queued' \cup Range(fresh')) \ received') = InHand \ S
    BY <2>1, <2>2, <2>3 DEF InHand
  <2>5. ((evicted' \cup unqueued' \cup lost') \ received') = Gone \cup S
    BY <2>1 DEF Gone
  <2> QED BY <2>1, <2>4, <2>5, WriteOffStep DEF Outcomes!Next
<1>6. CASE Crash
  <2> DEFINE S == Range(fresh) \ received
  <2>1. /\ Range(fresh') = {} /\ Queued' = Queued /\ received' = received
        /\ evicted' = evicted /\ unqueued' = unqueued /\ lost' = lost \cup S
    BY <1>6 DEF Crash, Die, Range, qvars, Queued
  <2>2. S \subseteq InHand /\ ((Queued' \cup Range(fresh')) \ received') = InHand \ S
    BY <2>1, Apart DEF InHand
  <2>3. ((evicted' \cup unqueued' \cup lost') \ received') = Gone \cup S
    BY <2>1 DEF Gone
  <2> QED BY <2>1, <2>2, <2>3, WriteOffStep DEF Outcomes!Next
<1>7. CASE ReplyOK
  <2>1. /\ Range(fresh') = {} /\ Queued' = Queued /\ received' = received
        /\ evicted' = evicted /\ unqueued' = unqueued /\ lost' = lost
    BY <1>7 DEF ReplyOK, Range, qvars, Queued, network, history
  <2>2. Range(fresh) \subseteq received
    BY <1>7 DEF ReplyOK, BacklogHeld, Batch
  <2> QED BY <2>1, <2>2 DEF Outcomes!hvars
<1>8. CASE AckBacklog
  <2>1. /\ fresh' = fresh /\ received' = received
        /\ evicted' = evicted /\ unqueued' = unqueued /\ lost' = lost
    BY <1>8 DEF AckBacklog, network, history
  <2> QED BY <1>8, <2>1, AckTakes DEF Outcomes!hvars
<1>9. CASE UNCHANGED << kv, fresh, received, evicted, unqueued, lost >>
  <2>1. Queued' = Queued
    BY <1>9 DEF Queued
  <2> QED BY <1>9, <2>1 DEF Outcomes!hvars
<1>10. ASSUME NEW p \in Paths, CaptureFails(p)
       PROVE  Outcomes!Next \/ UNCHANGED Outcomes!hvars
  BY <1>9, <1>10 DEF CaptureFails, qvars, network, history
<1>11. CASE StartTick \/ DrainQueue \/ DrainFails \/ Reject \/ Timeout \/ ReplyLost
            \/ AckFails \/ Restart \/ UNCHANGED vars
  BY <1>9, <1>11 DEF StartTick, DrainQueue, DrainFails, Assemble, Reject, Timeout, ReplyLost,
       GiveUp, AckFails, Restart, vars, memory, qvars, network, history
<1> QED BY <1>1, <1>2, <1>3, <1>4, <1>5, <1>6, <1>7, <1>8, <1>10, <1>11
     DEF Next, Agent, Outcome, Capture

\* Captures, rounds, retries and crashes implement the safety of the hand-over:
\* a snapshot leaves the agent's hands only by reaching the collector or by a
\* loss the code admits to, and never comes back into them.
THEOREM HandsOver == Spec => Outcomes!Safety
<1>1. Init => Outcomes!Init
  BY DEF Init, Outcomes!Init, Queued, Range
<1>2. HInv /\ [Next]_vars => [Outcomes!Next]_(Outcomes!hvars)
  BY HandoverStep
<1> QED BY <1>1, <1>2, HInvariance, PTL DEF Spec, Outcomes!Safety

-----------------------------------------------------------------------------
(* Markers.                                                                *)

\* What has not been lost in a crash.
Kept == received \cup Queued \cup Range(fresh) \cup evicted \cup unqueued

\* If m is a marker, the file list it omits is in S, and older.
Anchored(m, S) == m.unchanged => \E f \in S : Anchors(f, m.project, m.hash) /\ f.id < m.id

\* The same for a request under way, which brings its own file lists.
LateAnchored == \A m \in late : Anchored(m, Kept \cup late)

\* A snapshot of the round at hand that is older than one that was sent was
\* sent with it: a crash never takes the file list from a marker that is out.
SentTogether ==
  \A f \in Range(fresh) :
    /\ \A m \in received : f.id < m.id => f \in received
    /\ \A m \in late : f.id < m.id => f \in received \cup late

MInv == HInv /\ MarkersAnchored /\ LateAnchored /\ SentTogether

\* Only a crash takes anything from what is kept.
LEMMA KeptStep ==
  ASSUME HInv, [Next]_vars, ~Crash
  PROVE  Kept \subseteq Kept'
<1> USE DEF HInv, DInv
<1>1. ASSUME NEW p \in Paths, NEW h \in Trees, CaptureNext(p, h)
      PROVE  Kept \subseteq Kept'
  BY <1>1, Captured, FileUntouched DEF CaptureNext, Kept, network
<1>2. CASE ReplyOK
  <2>1. Range(fresh) \subseteq received
    BY <1>2 DEF ReplyOK, BacklogHeld, Batch
  <2> QED BY <1>2, <2>1, FileUntouched DEF ReplyOK, Kept, network, history
<1>3. CASE PushNext
  BY <1>3, PushAdds DEF PushNext, Kept, network
<1>4. CASE PushFails
  <2>1. Range(fresh) = Range(fresh') \cup { Head(fresh) }
    BY <1>4, TailRange DEF PushFails, Shift, TypeOK
  <2> QED BY <1>4, <2>1, FileUntouched DEF PushFails, Kept, network
<1>5. CASE AckBacklog
  BY <1>5, AckTakes DEF AckBacklog, Kept, network, history
<1>6. CASE Accept \/ ArriveLate
  BY <1>6, FileUntouched DEF Accept, ArriveLate, Record, Kept, memory
<1>7. CASE UNCHANGED << qvars, fresh, received, evicted, unqueued >>
  BY <1>7, FileUntouched DEF Kept
<1>8. ASSUME NEW p \in Paths, CaptureFails(p)
      PROVE  Kept \subseteq Kept'
  BY <1>7, <1>8 DEF CaptureFails, network, history
<1>9. CASE StartTick \/ DrainQueue \/ DrainFails \/ Reject \/ Timeout \/ ReplyLost
            \/ AckFails \/ Restart \/ UNCHANGED vars
  BY <1>7, <1>9 DEF StartTick, DrainQueue, DrainFails, Assemble, Reject, Timeout, ReplyLost,
       GiveUp, AckFails, Restart, vars, memory, qvars, network, history
<1> QED BY <1>1, <1>2, <1>3, <1>4, <1>5, <1>6, <1>8, <1>9 DEF Next, Agent, Outcome, Capture

\* But for a capture, no snapshot comes into the agent's hands, and none is out
\* that was not, save by a request: it takes what the agent has.
LEMMA HandsStep ==
  ASSUME HInv, [Next]_vars, ~\E p \in Paths, h \in Trees : CaptureNext(p, h)
  PROVE  /\ Queued' \cup Range(fresh') \subseteq Queued \cup Range(fresh)
         /\ Range(fresh') \subseteq Range(fresh)
         /\ ArriveLate \/ received' \subseteq received \cup Queued \cup Range(fresh)
         /\ Crash \/ UNCHANGED lastHash
<1> USE DEF HInv, DInv
<1>1. CASE PushNext
  BY <1>1, PushAdds DEF PushNext, network
<1>2. CASE PushFails
  <2>1. Range(fresh) = Range(fresh') \cup { Head(fresh) }
    BY <1>2, TailRange DEF PushFails, Shift, TypeOK
  <2> QED BY <1>2, <2>1, FileUntouched DEF PushFails, network
<1>3. CASE AckBacklog
  BY <1>3, AckTakes DEF AckBacklog, network
<1>4. CASE Accept
  BY <1>4, BatchHeld, FileUntouched DEF Accept, Record
<1>5. CASE ArriveLate
  BY <1>5, FileUntouched DEF ArriveLate, Record, memory
<1>6. CASE ReplyOK \/ Crash
  <2>1. Range(fresh') = {}
    BY <1>6 DEF ReplyOK, Crash, Die, Range
  <2> QED BY <1>6, <2>1, FileUntouched DEF ReplyOK, Crash, Die, network
<1>7. CASE UNCHANGED << qvars, fresh, received, lastHash >>
  BY <1>7, FileUntouched
<1>8. ASSUME NEW p \in Paths, CaptureFails(p)
      PROVE  UNCHANGED << qvars, fresh, received, lastHash >>
  BY <1>8 DEF CaptureFails, network
<1>9. CASE StartTick \/ DrainQueue \/ DrainFails \/ Reject \/ Timeout \/ ReplyLost
            \/ AckFails \/ Restart \/ UNCHANGED vars
  BY <1>7, <1>9 DEF StartTick, DrainQueue, DrainFails, Assemble, Reject, Timeout, ReplyLost,
       GiveUp, AckFails, Restart, vars, memory, network
<1> QED BY <1>1, <1>2, <1>3, <1>4, <1>5, <1>6, <1>7, <1>8, <1>9 DEF Next, Agent, Outcome, Capture

\* A request outlives the agent's patience only when the agent gave up on it.
LEMMA LateGrows ==
  ASSUME HInv, [Next]_vars
  PROVE  \/ late' \subseteq late
         \/ /\ late' = late \cup Batch
            /\ pc = "send" /\ (Timeout \/ Crash)
<1>1. CASE Timeout \/ Crash
  BY <1>1 DEF Timeout, Crash, Die
<1>2. CASE ~Timeout /\ ~Crash
  BY <1>2 DEF Next, Agent, Outcome, Capture, StartTick, CaptureNext, CaptureFails,
       DrainQueue, DrainFails, Assemble, Accept, Reject, ArriveLate, ReplyOK,
       ReplyLost, PushNext, PushFails, AckBacklog, AckFails, Restart, vars, network
<1> QED BY <1>1, <1>2

LEMMA TogetherStep ==
  ASSUME HInv, SentTogether, [Next]_vars
  PROVE  SentTogether'
<1>1. ASSUME NEW p \in Paths, NEW h \in Trees, CaptureNext(p, h)
      PROVE  SentTogether'
  <2>1. /\ Report(p, h).id = next /\ received' = received /\ late' = late
        /\ Range(fresh') = Range(fresh) \cup { Report(p, h) }
    BY <1>1, Captured DEF CaptureNext, HInv, DInv, network
  <2>2. next \in Nat /\ \A m \in received \cup late : m.id \in Nat /\ m.id < next
    BY DEF HInv, DInv, TypeOK, Numbered, LateKnown, Accounted
  <2>3. \A m \in received \cup late : ~(next < m.id)
    BY <2>2
  <2> QED BY <2>1, <2>3 DEF SentTogether
<1>2. CASE Accept
  <2>1. /\ received' = received \cup Batch /\ Range(fresh) \subseteq Batch
        /\ late' = late /\ fresh' = fresh
    BY <1>2 DEF Accept, Record, Batch
  <2> QED BY <2>1 DEF SentTogether
<1>3. CASE ArriveLate
  BY <1>3 DEF ArriveLate, Record, memory, SentTogether
<1>4. CASE Crash
  <2>1. Range(fresh') = {}
    BY <1>4 DEF Crash, Die, Range
  <2> QED BY <2>1 DEF SentTogether
<1>5. CASE Timeout
  <2>1. fresh' = fresh /\ received' = received /\ Range(fresh) \subseteq Batch
        /\ (late' = late \/ late' = late \cup Batch)
    BY <1>5 DEF Timeout, Batch
  <2> QED BY <2>1 DEF SentTogether
<1>6. CASE ~Accept /\ ~ArriveLate /\ ~Crash /\ ~Timeout
           /\ ~\E p \in Paths, h \in Trees : CaptureNext(p, h)
  <2>1. Range(fresh') \subseteq Range(fresh)
    BY <1>6, HandsStep
  <2>2. received' = received /\ late' = late
    BY <1>6 DEF Next, Agent, Outcome, Capture, StartTick, CaptureFails, DrainQueue, DrainFails,
         Assemble, Reject, ReplyOK, ReplyLost, PushNext, PushFails, AckBacklog, AckFails,
         Restart, vars, network
  <2> QED BY <2>1, <2>2 DEF SentTogether
<1> QED BY <1>1, <1>2, <1>3, <1>4, <1>5, <1>6

\* What a crash takes from what is kept is of the round at hand, and newer than
\* every marker that outlives it.
LEMMA CrashTakes ==
  ASSUME HInv, SentTogether, Crash, NEW f \in Kept, f \notin Kept'
  PROVE  /\ f \in Range(fresh) /\ f \notin received
         /\ \A m \in received \cup Queued : ~(f.id < m.id)
         /\ \A m \in late : f.id < m.id => f \in late
         /\ received' = received /\ Queued' = Queued /\ Range(fresh') = {}
<1>1. /\ received' = received /\ evicted' = evicted /\ unqueued' = unqueued /\ UNCHANGED qvars
      /\ Range(fresh') = {}
  BY DEF Crash, Die, Range
<1>2. Queued' = Queued
  BY <1>1 DEF Queued, qvars
<1>3. f \in Range(fresh) /\ f \notin received
  BY <1>1, <1>2 DEF Kept
<1>4. \A m \in Queued : m.id < f.id /\ m.id \in Nat /\ f.id \in Nat
  BY <1>3 DEF HInv, OldestFirst, Numbered, Accounted
<1>5. \A m \in Queued : ~(f.id < m.id)
  BY <1>4
<1> QED BY <1>1, <1>2, <1>3, <1>5 DEF SentTogether

LEMMA LateAnchoredStep ==
  ASSUME MInv, [Next]_vars
  PROVE  LateAnchored'
<1> USE DEF MInv
<1>1. CASE ArriveLate
  BY <1>1 DEF ArriveLate, LateAnchored
<1>2. CASE ~ArriveLate
  <2>1. late \subseteq late'
    BY <1>2 DEF Next, Agent, Outcome, Capture, StartTick, CaptureNext, CaptureFails,
         DrainQueue, DrainFails, Assemble, Accept, Reject, Timeout, ReplyOK, ReplyLost,
         PushNext, PushFails, AckBacklog, AckFails, Crash, Die, Restart, vars, network
  <2>2. \A m \in late' : m \in late \/ (m \in Queued \cup Range(fresh) /\ Batch \subseteq late')
    BY LateGrows, BatchHeld DEF HInv
  <2>3. \A m \in late' : Anchored(m, Kept \cup late)
    BY <2>2 DEF LateAnchored, MarkersAnchored, Anchored, Kept
  <2>4. CASE ~Crash
    <3>1. Kept \cup late \subseteq Kept' \cup late'
      BY <2>1, <2>4, KeptStep
    <3> QED BY <2>3, <3>1 DEF LateAnchored, Anchored
  <2>5. CASE Crash
    <3> SUFFICES ASSUME NEW m \in late', m.unchanged
                 PROVE  \E f \in Kept' \cup late' : Anchors(f, m.project, m.hash) /\ f.id < m.id
      BY DEF LateAnchored, Anchored
    <3>1. PICK f \in Kept \cup late : Anchors(f, m.project, m.hash) /\ f.id < m.id
      BY <2>3 DEF Anchored
    <3>2. f \in Kept' \cup late'
      <4> SUFFICES ASSUME f \notin Kept', f \notin late'
                   PROVE  FALSE
        OBVIOUS
      <4>1. f \in Kept /\ f \notin late
        BY <2>1, <3>1
      <4>2. f \in Range(fresh) /\ \A g \in late : f.id < g.id => f \in late
        BY <2>5, <4>1, CrashTakes
      <4>3. m \notin late
        BY <3>1, <4>1, <4>2
      <4>4. f \in late'
        BY <2>2, <4>2, <4>3 DEF Batch
      <4> QED BY <4>4
    <3> QED BY <3>1, <3>2
  <2> QED BY <2>4, <2>5
<1> QED BY <1>1, <1>2

LEMMA AnchorStep ==
  ASSUME MInv, [Next]_vars
  PROVE  MarkersAnchored'
<1> USE DEF MInv
<1> DEFINE Out == received \cup Queued \cup Range(fresh)
           Remembered(S) == \A n \in Names :
             lastHash[n] # NoHash => \E f \in S : Anchors(f, n, lastHash[n])
<1>0. /\ MarkersAnchored <=> (\A m \in Out : Anchored(m, Kept)) /\ Remembered(Kept)
      /\ MarkersAnchored' <=> (\A m \in Out' : Anchored(m, Kept')) /\ Remembered(Kept)'
  BY DEF MarkersAnchored, Kept, Anchored
<1>1. ASSUME NEW p \in Paths, NEW h \in Trees, CaptureNext(p, h)
      PROVE  MarkersAnchored'
  <2> DEFINE r == Report(p, h)
  <2>1. /\ r.id = next /\ Range(fresh') = Range(fresh) \cup { r }
        /\ received' = received /\ UNCHANGED qvars
        /\ lastHash' = [ lastHash EXCEPT ![NameOf[p]] = h ]
        /\ r.project = NameOf[p] /\ r.hash = h /\ r.unchanged = (lastHash[NameOf[p]] = h)
    BY <1>1, Captured DEF CaptureNext, HInv, DInv, network, Report
  <2>2. Queued' = Queued
    BY <2>1, FileUntouched
  <2>3. Kept \subseteq Kept' /\ r \in Kept'
    <3>1. ~Crash
      BY <1>1 DEF CaptureNext, Crash, Die
    <3> QED BY <2>1, <3>1, KeptStep DEF Kept
  <2>4. \A f \in Kept : f.id < next
    BY DEF HInv, Numbered, Kept, Accounted
  <2>5. h # NoHash /\ NameOf[p] \in Names /\ DOMAIN lastHash = Names
    BY DeliveryAssumption DEF HInv, DInv, TypeOK
  <2>6. Anchored(r, Kept')
    <3> SUFFICES ASSUME lastHash[NameOf[p]] = h
                 PROVE  \E f \in Kept' : Anchors(f, NameOf[p], h) /\ f.id < next
      BY <2>1 DEF Anchored
    <3>1. PICK f \in Kept : Anchors(f, NameOf[p], h)
      BY <1>0, <2>5
    <3> QED BY <2>3, <2>4, <3>1
  <2>7. \A m \in Out' : Anchored(m, Kept')
    <3>1. Out' = Out \cup { r }
      BY <2>1, <2>2
    <3>2. \A m \in Out : Anchored(m, Kept')
      BY <1>0, <2>3 DEF Anchored
    <3> QED BY <2>6, <3>1, <3>2
  <2>8. Remembered(Kept)'
    <3> SUFFICES ASSUME NEW n \in Names, lastHash'[n] # NoHash
                 PROVE  \E f \in Kept' : Anchors(f, n, lastHash'[n])
      OBVIOUS
    <3>1. CASE n = NameOf[p]
      <4>1. lastHash'[n] = h
        BY <2>1, <2>5, <3>1
      <4>2. CASE lastHash[n] = h
        <5>1. PICK f \in Kept : Anchors(f, n, h)
          BY <1>0, <2>5, <3>1, <4>2
        <5> QED BY <2>3, <4>1, <5>1
      <4>3. CASE lastHash[n] # h
        <5>1. Anchors(r, n, h)
          BY <2>1, <3>1, <4>3 DEF Anchors
        <5> QED BY <2>3, <4>1, <5>1
      <4> QED BY <4>2, <4>3
    <3>2. CASE n # NameOf[p]
      <4>1. lastHash'[n] = lastHash[n]
        BY <2>1, <2>5, <3>2
      <4> QED BY <1>0, <2>3, <4>1
    <3> QED BY <3>1, <3>2
  <2> QED BY <1>0, <2>7, <2>8
<1>2. CASE Crash
  <2>1. received' \cup Queued' \cup Range(fresh') = received \cup Queued
    BY <1>2, FileUntouched DEF Crash, Die, Range
  <2>2. ASSUME NEW m \in Out'
        PROVE  Anchored(m, Kept')
    <3> SUFFICES ASSUME m.unchanged
                 PROVE  \E f \in Kept' : Anchors(f, m.project, m.hash) /\ f.id < m.id
      BY DEF Anchored
    <3>1. m \in received \cup Queued
      BY <2>1
    <3>2. PICK f \in Kept : Anchors(f, m.project, m.hash) /\ f.id < m.id
      BY <1>0, <3>1 DEF Anchored
    <3>3. f \in Kept'
      BY <1>2, <3>1, <3>2, CrashTakes
    <3> QED BY <3>2, <3>3
  <2>3. Remembered(Kept)'
    BY <1>2 DEF Crash
  <2> QED BY <1>0, <2>2, <2>3
<1>3. CASE ~Crash /\ ~\E p \in Paths, h \in Trees : CaptureNext(p, h)
  <2>1. Kept \subseteq Kept' /\ lastHash' = lastHash
    BY <1>3, KeptStep, HandsStep
  <2>2. Remembered(Kept)'
    BY <1>0, <2>1
  <2>3. Queued' \cup Range(fresh') \subseteq Queued \cup Range(fresh)
    BY <1>3, HandsStep
  <2>4. CASE ArriveLate
    <3>1. received' = received \cup late
      BY <2>4 DEF ArriveLate, Record
    <3>2. Kept \cup late \subseteq Kept'
      BY <2>1, <3>1 DEF Kept
    <3>3. \A m \in Out \cup late : Anchored(m, Kept')
      BY <1>0, <3>2 DEF LateAnchored, Anchored
    <3> QED BY <1>0, <2>2, <2>3, <3>1, <3>3
  <2>5. CASE ~ArriveLate
    <3>1. Out' \subseteq Out
      BY <1>3, <2>3, <2>5, HandsStep
    <3>2. \A m \in Out : Anchored(m, Kept')
      BY <1>0, <2>1 DEF Anchored
    <3> QED BY <1>0, <2>2, <3>1, <3>2
  <2> QED BY <2>4, <2>5
<1> QED BY <1>1, <1>2, <1>3

LEMMA MInvariance == Spec => []MInv
<1>1. Init => MInv
  <2> SUFFICES ASSUME Init PROVE MInv
    OBVIOUS
  <2>1. Queued = {} /\ Range(fresh) = {} /\ received = {} /\ late = {}
        /\ \A n \in Names : lastHash[n] = NoHash
    BY DEF Init, Queued, Range
  <2> QED BY <2>1, InitHInv DEF MInv, MarkersAnchored, LateAnchored, SentTogether
<1>2. MInv /\ [Next]_vars => MInv'
  <2>1. HInv /\ [Next]_vars => HInv'
    BY DInvStep, NumberedStep, LateStep, OrderStep DEF HInv
  <2> QED BY <2>1, TogetherStep, LateAnchoredStep, AnchorStep DEF MInv
<1> QED BY <1>1, <1>2, PTL DEF Spec

\* A marker never stands without the file list it omits, for any projects that
\* share names or not, whatever is lost, late, evicted or refused: a crash takes
\* file lists, but only those no marker refers to that outlives it.
THEOREM MarkersStand == Spec => []MarkersAnchored
<1>1. MInv => MarkersAnchored
  BY DEF MInv
<1> QED BY <1>1, MInvariance, PTL

\* The hash remembered for a name is that of the directory's last capture, as
\* long as no two directories report one name.
InStep == \A p \in Paths : lastHash[NameOf[p]] = seen[p]

LEMMA SeenStep ==
  ASSUME \A p, q \in Paths : NameOf[p] = NameOf[q] => p = q, TypeOK, InStep, [Next]_vars
  PROVE  /\ InStep'
         /\ next' > next => LET s == fresh'[Len(fresh')]
                            IN  \A p \in todo \ todo' : s.unchanged <=> s.hash = seen[p]
<1>1. ASSUME NEW p \in Paths, NEW h \in Trees, CaptureNext(p, h)
      PROVE  /\ InStep'
             /\ LET s == fresh'[Len(fresh')]
                IN  \A q \in todo \ todo' : s.unchanged <=> s.hash = seen[q]
  <2>1. /\ lastHash' = [ lastHash EXCEPT ![NameOf[p]] = h ] /\ seen' = [ seen EXCEPT ![p] = h ]
        /\ fresh' = Append(fresh, Report(p, h)) /\ todo' = todo \ { p }
    BY <1>1 DEF CaptureNext
  <2>2. /\ \A q \in Paths : NameOf[q] \in Names
        /\ DOMAIN lastHash = Names /\ DOMAIN seen = Paths
    BY DeliveryAssumption DEF TypeOK
  <2>3. ASSUME NEW q \in Paths
        PROVE  lastHash'[NameOf[q]] = seen'[q]
    <3>1. CASE q = p BY <2>1, <2>2, <3>1
    <3>2. CASE q # p
      <4>1. NameOf[q] # NameOf[p]
        BY <3>2
      <4> QED BY <2>1, <2>2, <3>2, <4>1 DEF InStep
    <3> QED BY <3>1, <3>2
  <2>4. fresh'[Len(fresh')] = Report(p, h)
    <3>1. fresh \in Seq(Snapshot) /\ Report(p, h) \in Snapshot
      BY <1>1, Captured DEF TypeOK
    <3>2. Len(fresh') = Len(fresh) + 1 /\ fresh'[Len(fresh) + 1] = Report(p, h)
      BY <2>1, <3>1
    <3> QED BY <3>2
  <2>5. /\ Report(p, h).unchanged = (lastHash[NameOf[p]] = h) /\ Report(p, h).hash = h
        /\ lastHash[NameOf[p]] = seen[p]
    BY DEF Report, InStep
  <2>6. \A q \in todo \ todo' : q = p
    BY <2>1
  <2> QED BY <2>3, <2>4, <2>5, <2>6 DEF InStep
<1>2. CASE Crash
  <2>1. \A p \in Paths : NameOf[p] \in Names
    BY DeliveryAssumption
  <2>2. next' = next /\ next \in Int
    BY <1>2 DEF Crash, Die, TypeOK
  <2>3. InStep'
    BY <1>2, <2>1 DEF Crash, InStep
  <2> QED BY <2>2, <2>3
<1>3. CASE ~Crash /\ ~\E p \in Paths, h \in Trees : CaptureNext(p, h)
  <2>1. UNCHANGED << next, lastHash, seen >>
    BY <1>3 DEF Next, Agent, Outcome, Capture, StartTick, CaptureFails, DrainQueue, DrainFails,
         Assemble, Accept, Reject, Timeout, ArriveLate, ReplyOK, ReplyLost, PushNext, PushFails,
         AckBacklog, AckFails, Restart, vars, memory, history
  <2>2. next \in Int
    BY DEF TypeOK
  <2> QED BY <2>1, <2>2 DEF InStep
<1> QED BY <1>1, <1>2, <1>3

\* A capture leaves the file list out exactly when that directory's tree is the
\* one this process captured there before: for any projects with names of their
\* own.  (Where two share a name it does not: see README.md.)
THEOREM MarkersAreExact ==
  ASSUME \A p, q \in Paths : NameOf[p] = NameOf[q] => p = q
  PROVE  Spec => MarkerIffUnchanged
<1>1. Init => InStep
  BY DeliveryAssumption DEF Init, InStep
<1>2. DInv /\ InStep /\ [Next]_vars => InStep'
  BY SeenStep DEF DInv
<1>3. DInv /\ InStep /\ [Next]_vars =>
        [ next' > next => LET s == fresh'[Len(fresh')]
                          IN  \A p \in todo \ todo' : s.unchanged <=> s.hash = seen[p] ]_vars
  BY SeenStep DEF DInv
<1> QED BY <1>1, <1>2, <1>3, Invariance, PTL DEF Spec, MarkerIffUnchanged

-----------------------------------------------------------------------------
(* Repeats, of a queue without unreadable entries.                         *)

\* What the collector has and the agent still holds is known to be in doubt, or
\* is what the request just answered carried.
HeldTwice ==
  /\ received \cap (Queued \cup Range(fresh))
       \subseteq doubtful \cup (IF pc \in { "reply", "ack" } THEN Batch ELSE {})
  /\ late \subseteq doubtful

\* Every blob in the file decodes.
Decodes == \A k \in Keys : kv[k] # Unreadable

RInv == HInv /\ Decodes /\ HeldTwice /\ RedeliveryExcused

LEMMA DecodesStep ==
  ASSUME HInv, Decodes, [Next]_vars
  PROVE  Decodes'
<1>1. CASE PushNext
  <2>1. Head(fresh) \in Entry /\ Head(fresh) # Unreadable
    BY <1>1, PushAdds, EntryAssumption DEF HInv
  <2>2. /\ DOMAIN kv' \subseteq DOMAIN kv \cup { seq + 1 } /\ kv'[seq + 1] = Head(fresh)
        /\ \A k \in DOMAIN kv \cap DOMAIN kv' : kv'[k] = kv[k]
    BY <1>1, <2>1, PushLeaves DEF PushNext, HInv, DInv, Keys
  <2> QED BY <2>1, <2>2 DEF Decodes, Keys
<1>2. CASE AckBacklog
  BY <1>2, AckTakes DEF HInv, Decodes, Keys
<1>3. CASE ~PushNext /\ ~AckBacklog
  <2>1. UNCHANGED qvars
    BY <1>3 DEF Next, Agent, Outcome, Capture, StartTick, CaptureNext, CaptureFails, DrainQueue,
         DrainFails, Assemble, Accept, Reject, Timeout, ArriveLate, ReplyOK, ReplyLost, PushFails,
         AckFails, Crash, Die, Restart, vars
  <2> QED BY <2>1 DEF Decodes, Keys, qvars
<1> QED BY <1>1, <1>2, <1>3

\* Without unreadable entries an ack retires all of the batch it acknowledges.
LEMMA AckedAreGone ==
  ASSUME HInv, Decodes, AckBacklog
  PROVE  Queued' \cap Range(backlog) = {}
<1> USE DeliveryAssumption
<1>1. PICK lo \in 1 .. seq + 1 : Keys = lo .. seq
  BY DEF HInv, DInv, QueueInv
<1>2. seq \in Nat /\ \A k \in Keys : kv[k] \in Readable
  BY <1>1, EntryAssumption DEF HInv, DInv, QueueInv, Blobs, Decodes
<1>3. backlog = Drain(BatchLimit)
  BY DEF AckBacklog, HInv, DInv, BacklogHeld, TypeOK, Empty
<1>4. DOMAIN backlog = { k \in lo .. seq : k < lo + BatchLimit }
      /\ \A k \in DOMAIN backlog : backlog[k] = kv[k]
  <2>1. { k \in Keys : kv[k] \in Readable } = lo .. seq
    BY <1>1, <1>2
  <2>2. Oldest(lo .. seq, BatchLimit) = { k \in lo .. seq : k < lo + BatchLimit }
    BY <1>1, <1>2, OldestOfRun
  <2>3. backlog = [ k \in { j \in lo .. seq : j < lo + BatchLimit } |-> kv[k] ]
    BY <1>3, <2>1, <2>2 DEF Drain, Restrict
  <2> QED BY <2>3
<1> DEFINE len == seq - lo + 1
           n == IF BatchLimit < len THEN BatchLimit ELSE len
<1>5. n \in Nat /\ len \in Nat /\ lo \in Int /\ DOMAIN backlog = lo .. lo + n - 1
  BY <1>1, <1>2, <1>4
<1>6. Cardinality(DOMAIN backlog) = n
  <2> HIDE DEF n
  <2>1. lo + n - 1 \in Int /\ (lo > lo + n - 1 <=> n = 0) /\ (lo + n - 1) - lo + 1 = n
    BY <1>5
  <2> QED BY <1>5, <2>1, FS_Interval
<1>7. Oldest(Keys, n) = DOMAIN backlog
  <2>1. Oldest(lo .. seq, n) = { k \in lo .. seq : k < lo + n }
    BY <1>2, <1>5, OldestOfRun
  <2> QED BY <1>1, <1>2, <1>4, <1>5, <2>1
<1>8. kv' = [ k \in Keys \ DOMAIN backlog |-> kv[k] ]
  BY <1>6, <1>7 DEF AckBacklog, Ack, Restrict
<1>9. \A j, k \in Keys : j # k => kv[j] # kv[k]
  <2> SUFFICES ASSUME NEW j \in Keys, NEW k \in Keys, j < k
               PROVE  kv[j] # kv[k]
    BY <1>1, <1>2
  <2>1. kv[j].id < kv[k].id
    BY DEF HInv, OldestFirst, Decodes, Keys
  <2>2. kv[j].id \in Nat
    BY DEF HInv, Numbered, Accounted, Queued, Range, Decodes, Keys
  <2> QED BY <2>1, <2>2
<1>10. DOMAIN backlog \subseteq Keys /\ DOMAIN kv' = Keys \ DOMAIN backlog
       /\ \A k \in DOMAIN kv' : kv'[k] = kv[k]
  BY <1>1, <1>4, <1>8
<1>11. ASSUME NEW x, x \in Queued', x \in Range(backlog)
       PROVE  FALSE
  <2>1. PICK k \in DOMAIN kv' : x = kv'[k]
    BY <1>11, Zenon DEF Queued, Range
  <2>2. PICK j \in DOMAIN backlog : x = backlog[j]
    BY <1>11, Zenon DEF Range
  <2>3. k \in Keys /\ j \in Keys /\ j # k /\ kv[j] = kv[k]
    BY <1>4, <1>10, <2>1, <2>2
  <2> QED BY <1>9, <2>3, Zenon
<1> QED BY <1>11

LEMMA HeldTwiceStep ==
  ASSUME RInv, [Next]_vars
  PROVE  HeldTwice' /\ RedeliveryExcused'
<1> USE DEF RInv
<1> DEFINE InTransit == IF pc \in { "reply", "ack" } THEN Batch ELSE {}
           Held == Queued \cup Range(fresh)
<1>0. /\ HeldTwice <=> received \cap Held \subseteq doubtful \cup InTransit /\ late \subseteq doubtful
      /\ HeldTwice' <=> received' \cap Held' \subseteq doubtful' \cup InTransit' /\ late' \subseteq doubtful'
  BY DEF HeldTwice
<1>1. ASSUME NEW p \in Paths, NEW h \in Trees, CaptureNext(p, h)
      PROVE  HeldTwice' /\ RedeliveryExcused'
  <2>1. /\ Report(p, h).id = next /\ Range(fresh') = Range(fresh) \cup { Report(p, h) }
        /\ received' = received /\ late' = late /\ doubtful' = doubtful /\ repeated' = repeated
        /\ Queued' = Queued /\ pc = "capture"
    BY <1>1, Captured, FileUntouched DEF CaptureNext, HInv, DInv, network
  <2>2. \A m \in received : m.id < next /\ next \in Nat
    BY DEF HInv, DInv, TypeOK, Numbered, Accounted
  <2>3. Report(p, h) \notin received
    BY <2>1, <2>2
  <2> QED BY <1>0, <2>1, <2>3 DEF RedeliveryExcused
<1>2. CASE Accept
  <2>1. /\ received' = received \cup Batch /\ repeated' = repeated \cup (Batch \cap received)
        /\ Held' = Held /\ doubtful' = doubtful /\ late' = late /\ pc = "send" /\ pc' = "reply"
        /\ Batch' = Batch
    BY <1>2, FileUntouched DEF Accept, Record, Batch, HInv, DInv
  <2>2. Batch \subseteq Held
    BY <2>1, BatchHeld DEF HInv
  <2> QED BY <1>0, <2>1, <2>2 DEF RedeliveryExcused
<1>3. CASE ArriveLate
  <2>1. /\ received' = received \cup late /\ repeated' = repeated \cup (late \cap received)
        /\ Held' = Held /\ doubtful' = doubtful /\ late' = {} /\ InTransit' = InTransit
    BY <1>3, FileUntouched DEF ArriveLate, Record, memory, Batch, HInv, DInv
  <2> QED BY <1>0, <2>1 DEF RedeliveryExcused
<1>4. CASE Timeout \/ ReplyLost
  <2>1. /\ received' = received /\ repeated' = repeated /\ Held' = Held
        /\ doubtful' = doubtful \cup Batch /\ late' \subseteq late \cup Batch
    BY <1>4, FileUntouched DEF Timeout, ReplyLost, GiveUp, network, HInv, DInv
  <2> QED BY <1>0, <2>1 DEF RedeliveryExcused
<1>5. CASE ReplyOK
  <2>1. /\ received' = received /\ repeated' = repeated /\ doubtful' = doubtful /\ late' = late
        /\ Queued' = Queued /\ Range(fresh') = {} /\ backlog' = backlog /\ pc = "reply"
        /\ pc' = IF DOMAIN backlog = {} THEN "wait" ELSE "ack"
    BY <1>5, FileUntouched DEF ReplyOK, Range, HInv, DInv, network, history
  <2>2. received \cap Queued \subseteq doubtful \cup Range(backlog)
    BY <1>0, <2>1, Apart DEF Batch
  <2>3. DOMAIN backlog = {} => Range(backlog) = {}
    BY DEF Range
  <2>4. Range(backlog) \subseteq InTransit' \/ Range(backlog) = {}
    BY <2>1, <2>3 DEF Batch, Range
  <2> QED BY <1>0, <2>1, <2>2, <2>4 DEF RedeliveryExcused
<1>6. CASE PushNext \/ PushFails
  <2>1. /\ received' = received /\ repeated' = repeated /\ doubtful' = doubtful /\ late' = late
        /\ pc = "push"
    BY <1>6 DEF PushNext, PushFails, network
  <2>2. Held' \subseteq Held
    <3>1. ~\E p \in Paths, h \in Trees : CaptureNext(p, h)
      BY <2>1 DEF CaptureNext
    <3> QED BY <3>1, HandsStep
  <2> QED BY <1>0, <2>1, <2>2 DEF RedeliveryExcused
<1>7. CASE AckBacklog
  <2>1. /\ received' = received /\ repeated' = repeated /\ doubtful' = doubtful /\ late' = late
        /\ fresh' = fresh /\ Range(fresh) = {} /\ Batch = Range(backlog)
    BY <1>7 DEF AckBacklog, HInv, DInv, TypeOK, Batch, Range, network, history
  <2>2. Queued' \subseteq Queued /\ Queued' \cap Range(backlog) = {}
    BY <1>7, AckTakes, AckedAreGone DEF HInv
  <2> QED BY <1>0, <2>1, <2>2 DEF RedeliveryExcused
<1>8. CASE AckFails
  <2>1. /\ received' = received /\ repeated' = repeated /\ late' = late
        /\ doubtful' = doubtful \cup Range(backlog) /\ Range(fresh) = {} /\ Held' = Held
    BY <1>8, FileUntouched DEF AckFails, HInv, DInv, TypeOK, Range, network
  <2> QED BY <1>0, <2>1 DEF RedeliveryExcused, Batch
<1>9. CASE Crash
  <2>1. /\ received' = received /\ repeated' = repeated /\ Held' \subseteq Held
        /\ doubtful' = doubtful \cup (IF pc \in { "send", "reply", "ack" } THEN Batch ELSE {})
        /\ late' \subseteq late \cup (IF pc = "send" THEN Batch ELSE {})
    BY <1>9, FileUntouched DEF Crash, Die, Range, HInv, DInv
  <2> QED BY <1>0, <2>1 DEF RedeliveryExcused
<1>10. ASSUME UNCHANGED << received, repeated, doubtful, late, fresh, kv >>,
              InTransit \subseteq InTransit'
       PROVE  HeldTwice' /\ RedeliveryExcused'
  BY <1>0, <1>10 DEF RedeliveryExcused, Queued
<1>11. ASSUME NEW p \in Paths, CaptureFails(p)
       PROVE  HeldTwice' /\ RedeliveryExcused'
  BY <1>10, <1>11 DEF CaptureFails, network, history, qvars
<1>12. CASE StartTick \/ DrainQueue \/ DrainFails \/ Reject \/ Restart
  <2>1. InTransit = {}
    BY <1>12 DEF StartTick, DrainQueue, DrainFails, Reject, Restart
  <2> QED BY <1>10, <1>12, <2>1 DEF StartTick, DrainQueue, DrainFails, Assemble, Reject, GiveUp,
            Restart, network, history, qvars
<1>13. CASE UNCHANGED vars
  BY <1>10, <1>13 DEF vars, memory, network, history, qvars, Batch
<1> QED BY <1>1, <1>2, <1>3, <1>4, <1>5, <1>6, <1>7, <1>8, <1>9, <1>11, <1>12, <1>13
     DEF Next, Agent, Outcome, Capture

\* Where every queued blob decodes, the collector is given a snapshot twice only
\* when the agent could not know, or not record, that it had arrived.  (With an
\* unreadable entry in the queue it may be: the delivery_resend run.)
THEOREM RepeatsAreExcused ==
  ASSUME Leftover = 0
  PROVE  Spec => []RedeliveryExcused
<1>1. Init => RInv
  <2> SUFFICES ASSUME Init PROVE RInv
    OBVIOUS
  <2>1. Keys = {} /\ received = {} /\ late = {} /\ repeated = {}
    BY DEF Init, Keys
  <2> QED BY <2>1, InitHInv DEF RInv, Decodes, HeldTwice, RedeliveryExcused
<1>2. RInv /\ [Next]_vars => RInv'
  <2>1. HInv /\ [Next]_vars => HInv'
    BY DInvStep, NumberedStep, LateStep, OrderStep DEF HInv
  <2> QED BY <2>1, DecodesStep, HeldTwiceStep DEF RInv
<1>3. RInv => RedeliveryExcused
  BY DEF RInv
<1> QED BY <1>1, <1>2, <1>3, PTL DEF Spec

-----------------------------------------------------------------------------
(* The queue of a tick as a buffer.                                        *)

\* For the queue, tick is nothing but pushes and acks: with no entries left by
\* an earlier build it implements the bounded buffer, for every cap.
THEOREM TicksAreFifo ==
  ASSUME Leftover = 0
  PROVE  Spec => ImplementsFifo
<1>1. Init => Fifo!Init
  <2>1. Init => Keys = {}
    BY DEF Init, Keys
  <2> QED BY <2>1, EmptyListing DEF Fifo!Init
<1>2. DInv /\ [Next]_vars => [Fifo!Next]_Listing
  <2> SUFFICES ASSUME DInv, [Next]_vars PROVE [Fifo!Next]_Listing
    OBVIOUS
  <2>1. CASE PushNext
    <3>1. Head(fresh) \in Entry /\ Push(Head(fresh))
      BY <2>1, PushAdds, EntryAssumption DEF PushNext
    <3> QED BY <3>1, PushIsPut DEF Fifo!Next, DInv
  <2>2. CASE AckBacklog
    <3>1. Cardinality(DOMAIN backlog) \in Nat /\ Ack(Cardinality(DOMAIN backlog))
      <4>1. backlog = Drain(BatchLimit)
        BY <2>2 DEF AckBacklog, DInv, BacklogHeld, TypeOK, Empty
      <4> QED BY <2>2, <4>1, Drained DEF AckBacklog, DInv
    <3> QED BY <3>1, AckIsDrop DEF Fifo!Next, DInv
  <2>3. CASE ~PushNext /\ ~AckBacklog
    <3>1. UNCHANGED qvars
      BY <2>3 DEF Next, Agent, Outcome, Capture, StartTick, CaptureNext, CaptureFails, DrainQueue,
           DrainFails, Assemble, Accept, Reject, Timeout, ArriveLate, ReplyOK, ReplyLost,
           PushFails, AckFails, Crash, Die, Restart, vars
    <3> QED BY <3>1 DEF Listing, Keys, qvars
  <2> QED BY <2>1, <2>2, <2>3
<1> QED BY <1>1, <1>2, Invariance, PTL DEF Spec, ImplementsFifo, Fifo!Spec
=============================================================================
