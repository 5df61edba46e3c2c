------------------------------ MODULE Delivery ------------------------------
(***************************************************************************)
(* One round of the agent, tick in commands.go, from the capture of each   *)
(* project to the acknowledgement of the backlog, over the durable queue   *)
(* (SnapshotQueue) and the HTTP transport, with a process that may be      *)
(* killed between any two steps, queue transactions that may fail, and     *)
(* requests whose answer is late or lost.                                  *)
(*                                                                         *)
(* A snapshot is abstracted to what delivery depends on: its order of      *)
(* capture (id), the project name it reports, the hash of the tree, and    *)
(* whether the file list was dropped (unchanged).  Collectors dedupe, so   *)
(* what one has received is a set.                                         *)
(***************************************************************************)
EXTENDS SnapshotQueue, Sequences

CONSTANTS
  Paths, Names, NameOf,  \* project directories, and the name each reports
  Trees, NoHash,         \* tree hashes, and the "" of a name not in lastHash
  Unreadable,            \* a queued blob that no longer decodes
  Leftover,              \* how many of those an earlier build left behind
  BatchLimit,            \* queued snapshots per request (200)
  BodyLimit,             \* file lists that fit in the body a collector reads
  MaxSnaps, MaxCrashes,  \* bounds: captures and crashes in one behaviour
  Faults                 \* which local steps may fail, see FaultKinds

FaultKinds == { "capture", "drain", "push", "ack", "timeout" }

ASSUME DeliveryAssumption ==
  /\ NameOf \in [ Paths -> Names ]
  /\ NoHash \notin Trees
  /\ BatchLimit \in Nat \ {0} /\ BodyLimit \in Nat
  /\ Leftover \in 0 .. MaxEntries
  /\ MaxSnaps \in Nat /\ MaxCrashes \in Nat
  /\ Faults \subseteq FaultKinds

Snapshot ==
  [ id: 1 .. MaxSnaps, project: Names, hash: Trees, unchanged: BOOLEAN ]

\* The blobs of this queue are snapshots, or what does not decode into one.
ASSUME EntryAssumption ==
  /\ Unreadable \notin Snapshot
  /\ Readable = Snapshot
  /\ Entry = Snapshot \cup { Unreadable }

VARIABLES
  \* the agent's memory
  pc,        \* where the agent is in tick; "wait" between ticks
  todo,      \* projects of this round not captured yet
  lastHash,  \* tree hash last reported, by project name
  fresh,     \* this round's snapshots; while queueing, those still to push
  backlog,   \* what Drain returned, a function from queue keys
  \* the network and the collector
  late,      \* snapshots of requests the client gave up on, still under way
  received,  \* snapshots the collector answered 2xx for
  \* bookkeeping
  next,      \* id of the next snapshot
  crashes,
  \* history
  seen,      \* hash at the previous capture of a path by this process
  evicted,   \* dropped by the queue's cap
  unqueued,  \* Push failed: logged and dropped
  lost,      \* in memory when the process died
  doubtful,  \* sent, but the agent did not learn it, or failed to record it
  repeated   \* accepted by the collector more than once

memory == << pc, todo, lastHash, fresh, backlog >>
network == << late, received >>
history == << seen, evicted, unqueued, lost, doubtful, repeated >>
vars == << memory, qvars, network, next, crashes, history >>

Queued == Range(kv) \ { Unreadable }
Batch == Range(backlog) \cup Range(fresh)

Empty == [ k \in {} |-> Unreadable ]

-----------------------------------------------------------------------------
(* Capturing.                                                              *)

\* A capture of at least one project starts a tick; which ones are live is the
\* daemon's business.
StartTick ==
  /\ pc = "wait"
  /\ \E P \in (SUBSET Paths) \ { {} } : todo' = P
  /\ pc' = "capture"
  /\ UNCHANGED << lastHash, fresh, backlog, qvars, network, next, crashes, history >>

\* Mutant of Report: a name that has never reported counts as unchanged.
ReportUnanchored(p, t) ==
  [ id |-> next, project |-> NameOf[p], hash |-> t,
    unchanged |-> (lastHash[NameOf[p]] \in { t, NoHash }) ]

\* The snapshot of path p whose tree hashes to t: without its file list when t
\* is what this name reported last.
Report(p, t) ==
  [ id |-> next, project |-> NameOf[p], hash |-> t,
    unchanged |-> (lastHash[NameOf[p]] = t) ]

\* Mutant of CaptureNext: the hash is not remembered.
CaptureForgets(p, t) ==
  /\ pc = "capture" /\ p \in todo
  /\ next <= MaxSnaps
  /\ fresh' = Append(fresh, Report(p, t))
  /\ seen' = [ seen EXCEPT ![p] = t ]
  /\ todo' = todo \ { p }
  /\ next' = next + 1
  /\ UNCHANGED << pc, lastHash, backlog, qvars, network, crashes,
                  evicted, unqueued, lost, doubtful, repeated >>

\* The tree is what the walk finds: the user edits between any two captures.
CaptureNext(p, t) ==
  /\ pc = "capture" /\ p \in todo
  /\ next <= MaxSnaps
  /\ fresh' = Append(fresh, Report(p, t))
  /\ lastHash' = [ lastHash EXCEPT ![NameOf[p]] = t ]
  /\ seen' = [ seen EXCEPT ![p] = t ]
  /\ todo' = todo \ { p }
  /\ next' = next + 1
  /\ UNCHANGED << pc, backlog, qvars, network, crashes,
                  evicted, unqueued, lost, doubtful, repeated >>

\* A failed capture is logged and skipped.  Past the bound MaxSnaps it is the
\* only outcome left, so that ticks with nothing new go on flushing the queue.
CaptureFails(p) ==
  /\ pc = "capture" /\ p \in todo
  /\ "capture" \in Faults \/ next > MaxSnaps
  /\ todo' = todo \ { p }
  /\ UNCHANGED << pc, lastHash, fresh, backlog, qvars, network, next, crashes, history >>

\* Mutant of Assemble: with nothing new the tick is over.
AssembleFresh ==
  /\ pc' = IF fresh = << >> THEN "wait" ELSE "send"
  /\ UNCHANGED << todo, lastHash, fresh, qvars, network, next, crashes, history >>

\* The batch is the head of the queue, then this round; with nothing in it the
\* tick is over.
Assemble ==
  /\ pc' = IF DOMAIN backlog' = {} /\ fresh = << >> THEN "wait" ELSE "send"
  /\ UNCHANGED << todo, lastHash, fresh, qvars, network, next, crashes, history >>

DrainQueue ==
  /\ pc = "capture" /\ todo = {}
  /\ backlog' = Drain(BatchLimit)
  /\ Assemble

\* Failing to read the queue is logged; this round is sent by itself.
DrainFails ==
  /\ pc = "capture" /\ todo = {} /\ "drain" \in Faults
  /\ backlog' = Empty
  /\ Assemble

-----------------------------------------------------------------------------
(* Sending.                                                                *)

\* The collector reads a bounded body; file lists past the bound truncate it
\* and the rest is not JSON.
Fits == Cardinality({ s \in Batch : ~s.unchanged }) <= BodyLimit

Record(B) ==
  /\ received' = received \cup B
  /\ repeated' = repeated \cup (B \cap received)

\* The collector takes the batch; its answer is on the way.
Accept ==
  /\ pc = "send" /\ Fits
  /\ Record(Batch)
  /\ pc' = "reply"
  /\ UNCHANGED << todo, lastHash, fresh, backlog, qvars, late, next, crashes,
                  seen, evicted, unqueued, lost, doubtful >>

\* Mutant of GiveUp: goes on to queue a round that may be empty.
GiveUpAlways == pc' = "push" /\ backlog' = Empty

\* The agent turns to queueing this round, if there is any.
GiveUp == /\ pc' = IF fresh = << >> THEN "wait" ELSE "push"
          /\ backlog' = Empty

\* No connection, or an answer that is not 2xx.
Reject ==
  /\ pc = "send"
  /\ GiveUp
  /\ UNCHANGED << todo, lastHash, fresh, qvars, network, next, crashes, history >>

\* The client times out with the request still under way.
Timeout ==
  /\ pc = "send" /\ "timeout" \in Faults
  /\ GiveUp
  /\ late' = late \cup (IF Fits THEN Batch ELSE {})
  /\ doubtful' = doubtful \cup Batch
  /\ UNCHANGED << todo, lastHash, fresh, qvars, received, next, crashes,
                  seen, evicted, unqueued, lost, repeated >>

\* What the client gave up on reaches the collector after all.
ArriveLate ==
  /\ late # {}
  /\ Record(late)
  /\ late' = {}
  /\ UNCHANGED << memory, qvars, next, crashes, seen, evicted, unqueued, lost, doubtful >>

\* Only a 2xx the agent sees counts: then the round is delivered.
ReplyOK ==
  /\ pc = "reply"
  /\ fresh' = << >>
  /\ pc' = IF DOMAIN backlog = {} THEN "wait" ELSE "ack"
  /\ UNCHANGED << todo, lastHash, backlog, qvars, network, next, crashes, history >>

\* The connection breaks after the collector accepted.
ReplyLost ==
  /\ pc = "reply"
  /\ GiveUp
  /\ doubtful' = doubtful \cup Batch
  /\ UNCHANGED << todo, lastHash, fresh, qvars, network, next, crashes,
                  seen, evicted, unqueued, lost, repeated >>

-----------------------------------------------------------------------------
(* Queueing what did not leave, retiring what did.                         *)

\* Mutant of Shift: stops queueing after the first snapshot.
ShiftAll == fresh' = << >> /\ pc' = "wait"

\* Move on to the next snapshot to queue, or end the tick.
Shift ==
  /\ fresh' = Tail(fresh)
  /\ pc' = IF Len(fresh) = 1 THEN "wait" ELSE "push"

\* Mutant of PushNext: queues the round from its other end.
PushNewestFirst ==
  /\ pc = "push"
  /\ Push(fresh[Len(fresh)])
  /\ evicted' = evicted \cup (Queued \ Range(kv'))
  /\ fresh' = SubSeq(fresh, 1, Len(fresh) - 1)
  /\ pc' = IF Len(fresh) = 1 THEN "wait" ELSE "push"
  /\ UNCHANGED << todo, lastHash, backlog, network, next, crashes,
                  seen, unqueued, lost, doubtful, repeated >>

PushNext ==
  /\ pc = "push"
  /\ Push(Head(fresh))
  /\ evicted' = evicted \cup (Queued \ Range(kv'))
  /\ Shift
  /\ UNCHANGED << todo, lastHash, backlog, network, next, crashes,
                  seen, unqueued, lost, doubtful, repeated >>

\* A failed Push is logged, and the loop goes on.
PushFails ==
  /\ pc = "push" /\ "push" \in Faults
  /\ unqueued' = unqueued \cup { Head(fresh) }
  /\ Shift
  /\ UNCHANGED << todo, lastHash, backlog, qvars, network, next, crashes,
                  seen, evicted, lost, doubtful, repeated >>

\* Mutants of AckBacklog: one entry too many, one too few.
AckOneMore ==
  /\ pc = "ack"
  /\ Ack(Cardinality(DOMAIN backlog) + 1)
  /\ backlog' = Empty /\ pc' = "wait"
  /\ UNCHANGED << todo, lastHash, fresh, network, next, crashes, history >>
AckOneLess ==
  /\ pc = "ack"
  /\ Ack(Cardinality(DOMAIN backlog) - 1)
  /\ backlog' = Empty /\ pc' = "wait"
  /\ UNCHANGED << todo, lastHash, fresh, network, next, crashes, history >>

AckBacklog ==
  /\ pc = "ack"
  /\ Ack(Cardinality(DOMAIN backlog))
  /\ backlog' = Empty /\ pc' = "wait"
  /\ UNCHANGED << todo, lastHash, fresh, network, next, crashes, history >>

AckFails ==
  /\ pc = "ack" /\ "ack" \in Faults
  /\ doubtful' = doubtful \cup Range(backlog)
  /\ backlog' = Empty /\ pc' = "wait"
  /\ UNCHANGED << todo, lastHash, fresh, qvars, network, next, crashes,
                  seen, evicted, unqueued, lost, repeated >>

-----------------------------------------------------------------------------
(* The process dies anywhere; the queue file and a request survive it.     *)

\* What dying leaves behind.
Die ==
  /\ pc # "down" /\ crashes < MaxCrashes
  /\ crashes' = crashes + 1
  /\ lost' = lost \cup (Range(fresh) \ received)
  /\ doubtful' = doubtful \cup (IF pc \in { "send", "reply", "ack" } THEN Batch ELSE {})
  /\ late' = late \cup (IF pc = "send" /\ "timeout" \in Faults /\ Fits THEN Batch ELSE {})
  /\ pc' = "down" /\ todo' = {} /\ fresh' = << >> /\ backlog' = Empty
  /\ UNCHANGED << qvars, received, next, evicted, unqueued, repeated >>

\* Mutant of Crash: lastHash outlives the process.
CrashKeepsHashes == Die /\ UNCHANGED << lastHash, seen >>

Crash ==
  /\ Die
  /\ lastHash' = [ n \in Names |-> NoHash ]
  /\ seen' = [ p \in Paths |-> NoHash ]

Restart ==
  /\ pc = "down"
  /\ pc' = "wait"
  /\ UNCHANGED << todo, lastHash, fresh, backlog, qvars, network, next, crashes, history >>

-----------------------------------------------------------------------------
Init ==
  /\ pc = "wait" /\ todo = {} /\ fresh = << >> /\ backlog = Empty
  /\ lastHash = [ n \in Names |-> NoHash ] /\ seen = [ p \in Paths |-> NoHash ]
  /\ seq = Leftover /\ kv = [ k \in 1 .. Leftover |-> Unreadable ]
  /\ late = {} /\ received = {}
  /\ next = 1 /\ crashes = 0
  /\ evicted = {} /\ unqueued = {} /\ lost = {} /\ doubtful = {} /\ repeated = {}

Capture == \E p \in Paths : (\E t \in Trees : CaptureNext(p, t)) \/ CaptureFails(p)

\* The steps the agent takes by itself once a tick has begun.
Agent ==
  \/ Capture \/ DrainQueue \/ DrainFails
  \/ PushNext \/ PushFails \/ AckBacklog \/ AckFails
  \/ Restart

\* How a request ends, bounded by the client's 30 s timeout.
Outcome == Accept \/ Reject \/ Timeout \/ ReplyOK \/ ReplyLost

Next == StartTick \/ Agent \/ Outcome \/ ArriveLate \/ Crash

Spec == Init /\ [][Next]_vars

\* The agent runs and the user comes back to work; a collector that is asked
\* again and again answers at last, and local failures do not last for ever.
Fairness ==
  /\ WF_vars(StartTick) /\ WF_vars(Agent) /\ WF_vars(Outcome)
  /\ SF_vars(Accept) /\ SF_vars(ReplyOK)
  /\ SF_vars(DrainQueue) /\ SF_vars(AckBacklog)

FairSpec == Spec /\ Fairness

-----------------------------------------------------------------------------
(* Invariants.                                                             *)

\* Types, and what each program point implies about the others' state.
TypeOK ==
  /\ pc \in { "wait", "capture", "send", "reply", "push", "ack", "down" }
  /\ todo \in SUBSET Paths
  /\ lastHash \in [ Names -> Trees \cup { NoHash } ]
  /\ fresh \in Seq(Snapshot)
  /\ Range(backlog) \subseteq Snapshot
  /\ QueueTypeOK
  /\ next \in 1 .. MaxSnaps + 1 /\ crashes \in 0 .. MaxCrashes
  /\ late \subseteq Snapshot /\ received \subseteq Snapshot
  /\ seen \in [ Paths -> Trees \cup { NoHash } ]
  /\ evicted \cup unqueued \cup lost \cup doubtful \cup repeated \subseteq Snapshot
  /\ pc \in { "wait", "ack", "down" } => fresh = << >>
  /\ pc = "push" => fresh # << >>
  /\ pc \in { "send", "reply" } => Batch # {}
  /\ pc = "ack" => DOMAIN backlog # {}
  /\ pc # "capture" => todo = {}

\* Where a captured snapshot may be: with the collector, in the queue, in the
\* agent's hands, or written off by one of the losses the code admits to.
Accounted == received \cup Queued \cup Range(fresh) \cup evicted \cup unqueued \cup lost

\* No captured snapshot disappears by any other way, whatever fails, wherever
\* the process dies and whatever unreadable entries the queue holds: "Anything
\* that fails to leave the machine lands in the queue" and "a crash mid-send
\* replays rather than loses them".
NoSilentLoss == \A i \in 1 .. next - 1 : \E s \in Accounted : s.id = i

\* "Oldest first: the backlog leads, this tick follows": queue order is capture
\* order, this round comes after everything queued and is itself in order, so
\* each request is in capture order.
OldestFirst ==
  /\ \A j, k \in DOMAIN kv :
       j < k /\ kv[j] # Unreadable /\ kv[k] # Unreadable => kv[j].id < kv[k].id
  /\ \A s \in Queued, t \in Range(fresh) : s.id < t.id
  /\ \A i, j \in 1 .. Len(fresh) : i < j => fresh[i].id < fresh[j].id

\* f is the snapshot whose file list a marker of that project and hash omits.
Anchors(f, project, hash) == f.project = project /\ f.hash = hash /\ ~f.unchanged

\* A marker omits a file list that was captured before it and has not been lost
\* in a crash: it reached the collector, waits ahead of the marker, or was
\* given up by the cap or a failed Push.  The same for the file list the next
\* marker of each project would omit, though lastHash is set long before
\* anything is sent.
MarkersAnchored ==
  LET kept == received \cup Queued \cup Range(fresh) \cup evicted \cup unqueued
  IN  /\ \A m \in received \cup Queued \cup Range(fresh) :
           m.unchanged => \E f \in kept : Anchors(f, m.project, m.hash) /\ f.id < m.id
      /\ \A n \in Names :
           lastHash[n] # NoHash => \E f \in kept : Anchors(f, n, lastHash[n])

\* Delivery is at least once, and more than once only for a snapshot that was
\* sent without the agent learning, or managing to record, that it arrived.
RedeliveryExcused == repeated \subseteq doubtful

-----------------------------------------------------------------------------
(* What a step may not do.                                                 *)

\* A capture sends the file list exactly when that directory's tree differs
\* from what this process captured there before: "Change nothing and it sends
\* a 319-byte `unchanged` marker".
MarkerIffUnchanged ==
  [][ next' > next =>
        LET s == fresh'[Len(fresh')]
        IN  \A p \in todo \ todo' : s.unchanged <=> s.hash = seen[p] ]_vars

-----------------------------------------------------------------------------
(* Liveness.                                                               *)

Holds(S, i) == \E s \in S : s.id = i

\* Whatever is queued reaches the collector, or makes room at the cap.
Flushes ==
  \A i \in 1 .. MaxSnaps : Holds(Queued, i) ~> Holds(received \cup evicted, i)
-----------------------------------------------------------------------------
(* What the round trip amounts to.                                         *)

Outcomes ==
  INSTANCE Handover WITH
    Item <- Snapshot,
    pending <- (Queued \cup Range(fresh)) \ received,
    delivered <- received,
    writtenOff <- (evicted \cup unqueued \cup lost) \ received

\* Captures, rounds, retries and crashes implement a plain hand-over: a snapshot
\* leaves the agent's hands by reaching the collector or by a loss the code
\* admits to, once and for good, and as long as some are left one more does:
\* "Anything that fails to leave the machine lands in the queue".
ImplementsHandover == Outcomes!Spec
=============================================================================
