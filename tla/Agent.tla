-------------------------------- MODULE Agent --------------------------------
(***************************************************************************)
(* The whole of cmdRun: the loop of Daemon, in which a capture that finds  *)
(* something live is one tick of Delivery, run to its end by the same      *)
(* goroutine.  Which projects a tick captures, when a backlog gets another *)
(* chance, and how long a capture keeps the loop from its tickers, are     *)
(* each the business of both.  Of the faults of Delivery only those remain *)
(* that decide whether a round leaves at all: a request that is refused,   *)
(* and the end of the process.                                             *)
(***************************************************************************)
EXTENDS Integers, FiniteSets, Sequences

CONSTANTS
  Repos, Pinned, WakaTime, Interval, IdleMultiplier, PollSeconds, Second,
  MaxBusy,                                     \* the daemon's
  Entry, Readable, MaxEntries, Names, NameOf, Trees, NoHash, Unreadable,
  BatchLimit, MaxSnaps, MaxCrashes             \* a tick's

\* Those of Daemon, SnapshotQueue and Delivery.
ASSUME AgentAssumption ==
  /\ WakaTime \in BOOLEAN
  /\ Second \in Nat \ {0} /\ MaxBusy \in Nat
  /\ Interval \in Nat \ {0} /\ Interval % Second = 0
  /\ \A n \in PollSeconds : n \in Nat \ {0} /\ n % Second = 0
  /\ IdleMultiplier \in Nat \ {0}
  /\ WakaTime \/ Pinned # {}
  /\ MaxEntries \in Nat \ {0}
  /\ NameOf \in [ Repos \cup Pinned -> Names ]
  /\ NoHash \notin Trees
  /\ BatchLimit \in Nat \ {0} /\ MaxSnaps \in Nat /\ MaxCrashes \in Nat
  /\ Readable = [ id: 1 .. MaxSnaps, project: Names, hash: Trees, unchanged: BOOLEAN ]
  /\ Unreadable \notin Readable /\ Entry = Readable \cup { Unreadable }

VARIABLES
  pollSeconds, loop, active, lastProjects, pollIn, pollLate, capIn, capLate,
  phase, beatAge, logAge, busy, covered, dirty, sinceRound, unheeded,
  \* those of Daemon, above, and of Delivery
  seq, kv, pc, todo, lastHash, fresh, backlog, late, received,
  next, crashes, seen, evicted, unqueued, lost, doubtful, repeated,
  \* history
  stamped,   \* snapshots taken in the current second
  unsnapped  \* repositories edited, as the agent ran, since last snapshotted

D == INSTANCE Daemon WITH MayExit <- MaxCrashes > 0
T == INSTANCE Delivery WITH Paths <- Repos \cup Pinned, Leftover <- 0,
                            BodyLimit <- MaxSnaps, Faults <- {}

dvars == << pollSeconds, loop, active, lastProjects, pollIn, pollLate, capIn, capLate,
            phase, beatAge, logAge, busy, covered, dirty, sinceRound, unheeded >>
tvars == << seq, kv, pc, todo, lastHash, fresh, backlog, late, received,
            next, crashes, seen, evicted, unqueued, lost, doubtful, repeated >>
vars == << dvars, tvars, stamped, unsnapped >>

Idle == UNCHANGED << stamped, unsnapped >>

-----------------------------------------------------------------------------
(* The loop and the tick.                                                  *)

\* A capture with nothing to cover returns at once; the others are a tick over
\* what activeProjects, or the fallback, returned.
Tick ==
  IF covered' = {} THEN UNCHANGED tvars ELSE T!StartTick /\ todo' = covered'

Begin ==
  /\ pc = "wait"
  /\ D!Start \/ D!Wake \/ D!GoDormant \/ D!CaptureTick
  /\ IF loop' \in { "capture", "wake" } THEN Tick ELSE UNCHANGED tvars
  /\ Idle

KeepState == D!KeepState /\ UNCHANGED tvars /\ Idle

\* A capture lasts as long as its tick.
Finish == D!Finish /\ pc = "wait" /\ UNCHANGED tvars /\ Idle

Snapshot ==
  /\ \E p \in todo, t \in Trees :
       /\ T!CaptureNext(p, t)
       /\ stamped' = stamped \cup { fresh'[Len(fresh')] }
       /\ unsnapped' = unsnapped \ { p }
  /\ UNCHANGED dvars

\* Past the bound MaxSnaps a project is captured as before, and its snapshot is
\* not followed to the collector.
SnapshotUnfollowed ==
  /\ \E p \in todo : T!CaptureFails(p) /\ unsnapped' = unsnapped \ { p }
  /\ UNCHANGED << dvars, stamped >>

Work ==
  /\ T!DrainQueue \/ T!PushNext \/ T!AckBacklog
  /\ UNCHANGED dvars /\ Idle

Accept == T!Accept /\ UNCHANGED dvars /\ Idle
ReplyOK == T!ReplyOK /\ UNCHANGED dvars /\ Idle
Reject == T!Reject /\ UNCHANGED dvars /\ Idle

\* The process stops, wherever it is; a new one starts its tickers later, which
\* may be within the same second.
Exit == D!Exit /\ T!Crash /\ unsnapped' = {} /\ UNCHANGED stamped
Restart == T!Restart /\ UNCHANGED dvars /\ Idle

-----------------------------------------------------------------------------
(* The user and the clock.                                                 *)

Beat(r) ==
  /\ WakaTime /\ D!Beat(r)
  /\ unsnapped' = IF loop = "stopped" THEN unsnapped ELSE unsnapped \cup { r }
  /\ UNCHANGED << tvars, stamped >>

BeatElsewhere == WakaTime /\ D!BeatElsewhere /\ UNCHANGED tvars /\ Idle

Pass ==
  /\ D!Pass
  /\ stamped' = IF phase' = 0 THEN {} ELSE stamped
  /\ UNCHANGED << tvars, unsnapped >>

-----------------------------------------------------------------------------
Init == D!Init /\ T!Init /\ stamped = {} /\ unsnapped = {}

Goroutine ==
  Begin \/ KeepState \/ Finish \/ Snapshot \/ SnapshotUnfollowed \/ Work \/ Restart

Outcome == Accept \/ ReplyOK \/ Reject

Next == \/ Goroutine \/ Outcome \/ Exit \/ Pass
        \/ BeatElsewhere \/ \E r \in Repos : Beat(r)

Spec == Init /\ [][Next]_vars

\* The loop runs, time passes, requests end, and a collector that is asked
\* again and again answers at last.  Nobody makes the user come back.
FairSpec ==
  /\ Spec
  /\ WF_vars(Goroutine) /\ WF_vars(Outcome) /\ WF_vars(Pass)
  /\ SF_vars(Accept) /\ SF_vars(ReplyOK)

-----------------------------------------------------------------------------
\* "A last snapshot marks the end of the session, so the collector sees a close
\* rather than a silent gap": at rest, no repository has been edited since its
\* last snapshot, but for edits so recent that the next poll will see them.
SessionRecorded ==
  loop = "select" /\ ~active =>
    \A r \in unsnapped : logAge[r] <= D!Poll \/ logAge[r] <= MaxBusy

\* Collectors "dedupe on (project, captured_at, tree_hash)", and captured_at is
\* in whole seconds: a capture tick, a closing poll, a wake and a process started
\* anew may give one project several snapshots with one key, full lists and
\* markers in any order.  What a collector drops for one it has, or may yet get,
\* costs nothing: that one has the file list, or omits the list of a still earlier
\* snapshot that reached the collector or is on its way, or was given up at the
\* cap or by a failed Push.
Kept == received \cup T!Queued \cup T!Range(fresh) \cup evicted \cup unqueued
SameKey(m, s) == m.project = s.project /\ m.hash = s.hash
DuplicateCostsNothing ==
  [][ Snapshot =>
        LET s == fresh'[Len(fresh')]
        IN  \A m \in stamped \cap (received \cup T!Queued \cup T!Range(fresh)) :
              SameKey(m, s) =>
                \E f \in Kept : T!Anchors(f, s.project, s.hash) /\ f.id <= m.id ]_vars

\* Ticks alone flush the queue: a dormant agent has none, nor has one whose user
\* works outside every repository, for a capture with nothing to cover returns
\* before.  For a user who keeps coming back to a repository, "then flush
\* oldest-first when it comes back": what is queued is delivered, or makes room.
FlushesForUser ==
  []<>(\E r \in Repos : logAge[r] = 0) =>
    \A i \in 1 .. MaxSnaps :
      T!Holds(T!Queued, i) ~> T!Holds(received \cup evicted, i)
=============================================================================
