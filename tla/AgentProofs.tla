----------------------------- MODULE AgentProofs -----------------------------
(***************************************************************************)
(* Proofs about Agent: the composition runs Daemon and Delivery each by    *)
(* its own rules, so that what is proved of them holds of the whole, and   *)
(* what only the two together promise.                                     *)
(***************************************************************************)
EXTENDS Agent, TLAPS

DP == INSTANCE DaemonProofs WITH MayExit <- MaxCrashes > 0
TP == INSTANCE DeliveryProofs WITH Paths <- Repos \cup Pinned, Leftover <- 0,
                                   BodyLimit <- MaxSnaps, Faults <- {}

-----------------------------------------------------------------------------
(* The components' assumptions.                                            *)

LEMMA DaemonAssumes == DP!DaemonAssumption
BY AgentAssumption DEF DP!DaemonAssumption

LEMMA DeliveryAssumes == /\ TP!QueueAssumption /\ TP!DeliveryAssumption
                         /\ TP!EntryAssumption
BY AgentAssumption DEF TP!QueueAssumption, TP!DeliveryAssumption, TP!EntryAssumption,
   TP!Snapshot

-----------------------------------------------------------------------------
(* The composition runs each component by its own rules: every step of it  *)
(* is a step of Daemon or leaves its variables alone, and the same for     *)
(* Delivery.  DP!X and TP!X are D!X and T!X, definition by definition.     *)

LEMMA DaemonActions ==
  /\ D!Start => DP!Start
  /\ D!Wake => DP!Wake
  /\ D!GoDormant => DP!GoDormant
  /\ D!KeepState => DP!KeepState
  /\ D!CaptureTick => DP!CaptureTick
  /\ D!Finish => DP!Finish
  /\ D!Exit => DP!Exit
  /\ D!Pass => DP!Pass
  /\ D!BeatElsewhere => DP!BeatElsewhere
  /\ \A r \in Repos : D!Beat(r) => DP!Beat(r)
<1>1. D!Start => DP!Start
  BY DEF
    D!Start, DP!Start, D!Poll, DP!Poll, D!IsActive, DP!IsActive, D!BeginCapture,
    DP!BeginCapture, D!Projects, DP!Projects, D!Live, DP!Live, D!Recent, DP!Recent,
    D!Unix, DP!Unix, D!IdleAfter, DP!IdleAfter, D!Old, DP!Old, D!outside, DP!outside
<1>2. D!Wake => DP!Wake
  BY DEF
    D!Wake, DP!Wake, D!TakePoll, DP!TakePoll, D!Poll, DP!Poll, D!IsActive, DP!IsActive,
    D!BeginCapture, DP!BeginCapture, D!Projects, DP!Projects, D!Live, DP!Live,
    D!Recent, DP!Recent, D!Unix, DP!Unix, D!IdleAfter, DP!IdleAfter, D!Old, DP!Old,
    D!outside, DP!outside
<1>3. D!GoDormant => DP!GoDormant
  BY DEF
    D!GoDormant, DP!GoDormant, D!TakePoll, DP!TakePoll, D!Poll, DP!Poll, D!IsActive,
    DP!IsActive, D!BeginCapture, DP!BeginCapture, D!Projects, DP!Projects, D!Live,
    DP!Live, D!Recent, DP!Recent, D!Unix, DP!Unix, D!IdleAfter, DP!IdleAfter, D!Old,
    DP!Old, D!outside, DP!outside
<1>4. D!KeepState => DP!KeepState
  BY DEF
    D!KeepState, DP!KeepState, D!TakePoll, DP!TakePoll, D!Poll, DP!Poll, D!IsActive,
    DP!IsActive, D!IdleAfter, DP!IdleAfter, D!Old, DP!Old, D!outside, DP!outside,
    D!history, DP!history
<1>5. D!CaptureTick => DP!CaptureTick
  BY DEF
    D!CaptureTick, DP!CaptureTick, D!BeginCapture, DP!BeginCapture, D!Projects,
    DP!Projects, D!Live, DP!Live, D!Recent, DP!Recent, D!Unix, DP!Unix, D!IdleAfter,
    DP!IdleAfter, D!Old, DP!Old, D!outside, DP!outside
<1>6. D!Finish => DP!Finish
  BY DEF
    D!Finish, DP!Finish, D!outside, DP!outside, D!history, DP!history
<1>7. D!Exit => DP!Exit
  BY DEF
    D!Exit, DP!Exit, D!Old, DP!Old, D!IdleAfter, DP!IdleAfter, D!outside, DP!outside
<1>8. D!Pass => DP!Pass
  BY DEF
    D!Pass, DP!Pass, D!Older, DP!Older, D!Min2, DP!Min2, D!Old, DP!Old, D!IdleAfter,
    DP!IdleAfter, D!tickers, DP!tickers
<1>9. D!BeatElsewhere => DP!BeatElsewhere
  BY DEF
    D!BeatElsewhere, DP!BeatElsewhere, D!Notice, DP!Notice, D!Old, DP!Old, D!IdleAfter,
    DP!IdleAfter, D!tickers, DP!tickers
<1>10. \A r \in Repos : D!Beat(r) => DP!Beat(r)
  BY DEF
    D!Beat, DP!Beat, D!Notice, DP!Notice, D!Old, DP!Old, D!IdleAfter, DP!IdleAfter,
    D!tickers, DP!tickers
<1> QED BY <1>1, <1>2, <1>3, <1>4, <1>5, <1>6, <1>7, <1>8, <1>9, <1>10

\* Counting is the same on both sides.
LEMMA SameCount == \A S : T!Cardinality(S) = TP!Cardinality(S)
BY DEF T!Cardinality, TP!Cardinality

LEMMA SameQueue ==
  /\ \A K, n : T!Oldest(K, n) = TP!Oldest(K, n)
  /\ T!Drain(BatchLimit) = TP!Drain(BatchLimit)
  /\ T!Fits <=> TP!Fits
<1>1. \A K, n : T!Oldest(K, n) = TP!Oldest(K, n)
  BY SameCount DEF T!Oldest, TP!Oldest
<1>2. T!Drain(BatchLimit) = TP!Drain(BatchLimit)
  BY <1>1 DEF T!Drain, TP!Drain, T!Keys, TP!Keys, T!Restrict, TP!Restrict
<1>3. T!Batch = TP!Batch
  BY DEF T!Batch, TP!Batch, T!Range, TP!Range
<1>4. T!Fits <=> TP!Fits
  BY <1>3, SameCount DEF T!Fits, TP!Fits
<1> QED BY <1>1, <1>2, <1>4

LEMMA DeliveryActions ==
  /\ T!StartTick => TP!StartTick
  /\ T!DrainQueue => TP!DrainQueue
  /\ T!PushNext => TP!PushNext
  /\ T!AckBacklog => TP!AckBacklog
  /\ T!Accept => TP!Accept
  /\ T!Reject => TP!Reject
  /\ T!ReplyOK => TP!ReplyOK
  /\ T!Crash => TP!Crash
  /\ T!Restart => TP!Restart
  /\ \A p \in Repos \cup Pinned, t \in Trees : T!CaptureNext(p, t) => TP!CaptureNext(p, t)
  /\ \A p \in Repos \cup Pinned : T!CaptureFails(p) => TP!CaptureFails(p)
<1>1. T!StartTick => TP!StartTick
  BY SameCount, SameQueue DEF
    T!StartTick, TP!StartTick, T!memory, TP!memory, T!network, TP!network, T!history,
    TP!history, T!qvars, TP!qvars
<1>2. T!DrainQueue => TP!DrainQueue
  BY SameCount, SameQueue DEF
    T!DrainQueue, TP!DrainQueue, T!Assemble, TP!Assemble, T!memory, TP!memory,
    T!network, TP!network, T!history, TP!history, T!qvars, TP!qvars
<1>3. T!PushNext => TP!PushNext
  BY SameCount, SameQueue DEF
    T!PushNext, TP!PushNext, T!Push, TP!Push, T!Keys, TP!Keys, T!Queued, TP!Queued,
    T!Range, TP!Range, T!Shift, TP!Shift, T!memory, TP!memory, T!network, TP!network,
    T!history, TP!history, T!qvars, TP!qvars
<1>4. T!AckBacklog => TP!AckBacklog
  BY SameCount, SameQueue DEF
    T!AckBacklog, TP!AckBacklog, T!Ack, TP!Ack, T!Keys, TP!Keys, T!Restrict,
    TP!Restrict, T!Empty, TP!Empty, T!memory, TP!memory, T!network, TP!network,
    T!history, TP!history, T!qvars, TP!qvars
<1>5. T!Accept => TP!Accept
  BY SameCount, SameQueue DEF
    T!Accept, TP!Accept, T!Batch, TP!Batch, T!Record, TP!Record, T!Range, TP!Range,
    T!memory, TP!memory, T!network, TP!network, T!history, TP!history, T!qvars,
    TP!qvars
<1>6. T!Reject => TP!Reject
  BY SameCount, SameQueue DEF
    T!Reject, TP!Reject, T!GiveUp, TP!GiveUp, T!Empty, TP!Empty, T!memory, TP!memory,
    T!network, TP!network, T!history, TP!history, T!qvars, TP!qvars
<1>7. T!ReplyOK => TP!ReplyOK
  BY SameCount, SameQueue DEF
    T!ReplyOK, TP!ReplyOK, T!memory, TP!memory, T!network, TP!network, T!history,
    TP!history, T!qvars, TP!qvars
<1>8. T!Crash => TP!Crash
  BY SameCount, SameQueue DEF
    T!Crash, TP!Crash, T!Die, TP!Die, T!Range, TP!Range, T!Batch, TP!Batch, T!Empty,
    TP!Empty, T!memory, TP!memory, T!network, TP!network, T!history, TP!history,
    T!qvars, TP!qvars
<1>9. T!Restart => TP!Restart
  BY SameCount, SameQueue DEF
    T!Restart, TP!Restart, T!memory, TP!memory, T!network, TP!network, T!history,
    TP!history, T!qvars, TP!qvars
<1>10. \A p \in Repos \cup Pinned, t \in Trees : T!CaptureNext(p, t) => TP!CaptureNext(p, t)
  BY DEF
    T!CaptureNext, TP!CaptureNext, T!Report, TP!Report, T!memory, TP!memory, T!network,
    TP!network, T!history, TP!history, T!qvars, TP!qvars
<1>11. \A p \in Repos \cup Pinned : T!CaptureFails(p) => TP!CaptureFails(p)
  BY DEF
    T!CaptureFails, TP!CaptureFails, T!memory, TP!memory, T!network, TP!network,
    T!history, TP!history, T!qvars, TP!qvars
<1> QED BY <1>1, <1>2, <1>3, <1>4, <1>5, <1>6, <1>7, <1>8, <1>9, <1>10, <1>11

LEMMA Begins == Init => DP!Init /\ TP!Init
<1>1. Init => DP!Init
  BY DEF Init, D!Init, DP!Init, D!Old, DP!Old, D!IdleAfter, DP!IdleAfter
<1>2. Init => TP!Init
  BY DEF Init, T!Init, TP!Init, T!Empty, TP!Empty
<1> QED BY <1>1, <1>2

\* What a step is to each of the two.
DaemonPart ==
  \/ D!Start \/ D!Wake \/ D!GoDormant \/ D!KeepState \/ D!CaptureTick \/ D!Finish
  \/ D!Exit \/ D!Pass
  \/ WakaTime /\ (D!BeatElsewhere \/ \E r \in Repos : D!Beat(r))
  \/ UNCHANGED dvars

DeliveryPart ==
  \/ T!StartTick \/ T!DrainQueue \/ T!PushNext \/ T!AckBacklog \/ T!Restart
  \/ T!Accept \/ T!ReplyOK \/ T!Reject \/ T!Crash
  \/ \E p \in Repos \cup Pinned : T!CaptureFails(p) \/ \E t \in Trees : T!CaptureNext(p, t)
  \/ UNCHANGED tvars

LEMMA Parts ==
  ASSUME todo \subseteq Repos \cup Pinned, [Next]_vars
  PROVE  DaemonPart /\ DeliveryPart
<1> USE DEF DaemonPart, DeliveryPart
<1>1. CASE Begin
  BY <1>1 DEF Begin, Tick
<1>2. CASE KeepState \/ Finish
  BY <1>2 DEF KeepState, Finish
<1>3. CASE Snapshot \/ SnapshotUnfollowed
  BY <1>3 DEF Snapshot, SnapshotUnfollowed
<1>4. CASE Work
  BY <1>4 DEF Work
<1>5. CASE Accept \/ ReplyOK \/ Reject \/ Restart
  BY <1>5 DEF Accept, ReplyOK, Reject, Restart
<1>6. CASE Exit
  BY <1>6 DEF Exit
<1>7. CASE Pass
  BY <1>7 DEF Pass
<1>8. CASE BeatElsewhere \/ \E r \in Repos : Beat(r)
  BY <1>8 DEF BeatElsewhere, Beat
<1>9. CASE UNCHANGED vars
  BY <1>9 DEF vars
<1> QED
  BY <1>1, <1>2, <1>3, <1>4, <1>5, <1>6, <1>7, <1>8, <1>9 DEF Next, Goroutine, Outcome

LEMMA DaemonStep ==
  ASSUME DaemonPart
  PROVE  [D!Next]_(D!vars) /\ [DP!Next]_(DP!vars)
<1>1. UNCHANGED dvars => UNCHANGED D!vars /\ UNCHANGED DP!vars
  BY DEF dvars, D!vars, D!tickers, D!outside, D!history,
     DP!vars, DP!tickers, DP!outside, DP!history
<1>2. CASE UNCHANGED dvars
  BY <1>1, <1>2
<1>3. CASE ~UNCHANGED dvars
  <2>1. D!Next
    BY <1>3 DEF DaemonPart, D!Next, D!Loop, D!User
  <2>2. DP!Next
    BY <1>3, DaemonActions DEF DaemonPart, DP!Next, DP!Loop, DP!User
  <2> QED BY <2>1, <2>2
<1> QED BY <1>2, <1>3

LEMMA DeliveryStep ==
  ASSUME DeliveryPart
  PROVE  [T!Next]_(T!vars) /\ [TP!Next]_(TP!vars)
<1>1. UNCHANGED tvars => UNCHANGED T!vars /\ UNCHANGED TP!vars
  BY DEF tvars, T!vars, T!memory, T!qvars, T!network, T!history,
     TP!vars, TP!memory, TP!qvars, TP!network, TP!history
<1>2. CASE UNCHANGED tvars
  BY <1>1, <1>2
<1>3. CASE ~UNCHANGED tvars
  <2>1. T!Next
    BY <1>3 DEF DeliveryPart, T!Next, T!Agent, T!Capture, T!Outcome
  <2>2. TP!Next
    BY <1>3, DeliveryActions DEF DeliveryPart, TP!Next, TP!Agent, TP!Capture, TP!Outcome
  <2> QED BY <2>1, <2>2
<1> QED BY <1>2, <1>3

LEMMA DaemonInit == Init => D!Init /\ DP!Init
BY DEF Init, D!Init, DP!Init, D!Old, DP!Old, D!IdleAfter, DP!IdleAfter

LEMMA DeliveryInit == Init => T!Init /\ TP!Init
BY DEF Init, T!Init, TP!Init, T!Empty, TP!Empty

\* todo holds directories of the config and the log, whatever else.
TodoOK == todo \subseteq Repos \cup Pinned

LEMMA TodoHolds == Spec => []TodoOK
<1>1. Init => TodoOK
  BY DEF Init, T!Init, TodoOK
<1>2. TodoOK /\ [Next]_vars => TodoOK'
  <2> SUFFICES ASSUME TodoOK, [Next]_vars PROVE TodoOK'
    OBVIOUS
  <2>1. DeliveryPart
    BY Parts DEF TodoOK
  <2>2. CASE T!StartTick
    BY <2>2 DEF T!StartTick, TodoOK
  <2>3. CASE T!Crash
    BY <2>3 DEF T!Crash, T!Die, TodoOK
  <2>4. ASSUME NEW p \in Repos \cup Pinned, T!CaptureFails(p) \/ \E t \in Trees : T!CaptureNext(p, t)
        PROVE  TodoOK'
    BY <2>4 DEF T!CaptureFails, T!CaptureNext, TodoOK
  <2>5. CASE T!DrainQueue \/ T!PushNext \/ T!AckBacklog \/ T!Restart \/ T!Accept
             \/ T!ReplyOK \/ T!Reject \/ UNCHANGED tvars
    BY <2>5 DEF T!DrainQueue, T!Assemble, T!PushNext, T!AckBacklog, T!Restart, T!Accept,
       T!ReplyOK, T!Reject, tvars, TodoOK
  <2> QED BY <2>1, <2>2, <2>3, <2>4, <2>5 DEF DeliveryPart
<1> QED BY <1>1, <1>2, PTL DEF Spec

\* The loop of the composition is Daemon: what DaemonProofs proves holds of the
\* whole agent, ticks, queue, crashes and all.
THEOREM AgentIsDaemon == Spec => D!Spec
<1>1. TodoOK /\ [Next]_vars => [D!Next]_(D!vars)
  BY Parts, DaemonStep DEF TodoOK
<1> QED BY <1>1, DaemonInit, TodoHolds, PTL DEF Spec, D!Spec

\* Its ticks are Delivery, though the loop decides when each begins and what it
\* covers: what DeliveryProofs proves holds of the whole.
THEOREM AgentIsDelivery == Spec => T!Spec
<1>1. TodoOK /\ [Next]_vars => [T!Next]_(T!vars)
  BY Parts, DeliveryStep DEF TodoOK
<1> QED BY <1>1, DeliveryInit, TodoHolds, PTL DEF Spec, T!Spec

\* The same of the instances the proofs are about.
LEMMA Components == Spec => DP!Spec /\ TP!Spec
<1>1. TodoOK /\ [Next]_vars => [DP!Next]_(DP!vars) /\ [TP!Next]_(TP!vars)
  BY Parts, DaemonStep, DeliveryStep DEF TodoOK
<1> QED BY <1>1, DaemonInit, DeliveryInit, TodoHolds, PTL DEF Spec, DP!Spec, TP!Spec

-----------------------------------------------------------------------------
(* What has no snapshot yet.                                               *)

\* The tick runs while the loop waits for it, and at no other time.
Together == pc \notin { "wait", "down" } => loop \in { "capture", "wake" }

\* An edit without a snapshot is one the loop has not taken up, or one whose
\* project the tick still has to capture.
Pending == unsnapped \subseteq dirty \cup todo

LEMMA TogetherStep ==
  ASSUME Together, [Next]_vars
  PROVE  Together'
<1> USE DEF Together
<1>1. CASE Begin
  <2>1. CASE loop' \in { "capture", "wake" }
    BY <2>1
  <2>2. CASE loop' \notin { "capture", "wake" }
    BY <1>1, <2>2 DEF Begin, tvars
  <2> QED BY <2>1, <2>2
<1>2. CASE KeepState \/ Finish
  BY <1>2 DEF KeepState, D!KeepState, Finish, tvars
<1>3. CASE Snapshot \/ SnapshotUnfollowed \/ Work
  <2>1. UNCHANGED loop
    BY <1>3 DEF Snapshot, SnapshotUnfollowed, Work, dvars
  <2>2. pc \in { "capture", "push", "ack" }
    BY <1>3 DEF Snapshot, SnapshotUnfollowed, Work, T!CaptureNext, T!CaptureFails, T!DrainQueue, T!PushNext,
       T!AckBacklog
  <2> QED BY <2>1, <2>2
<1>4. CASE Accept \/ ReplyOK \/ Reject
  <2>1. UNCHANGED loop
    BY <1>4 DEF Accept, ReplyOK, Reject, dvars
  <2>2. pc \in { "send", "reply" }
    BY <1>4 DEF Accept, ReplyOK, Reject, T!Accept, T!ReplyOK, T!Reject
  <2> QED BY <2>1, <2>2
<1>5. CASE Restart \/ Exit
  BY <1>5 DEF Restart, Exit, T!Restart, T!Crash, T!Die
<1>6. CASE Pass
  BY <1>6 DEF Pass, D!Pass, tvars
<1>7. CASE BeatElsewhere
  BY <1>7 DEF BeatElsewhere, D!BeatElsewhere, tvars
<1>8. ASSUME NEW r \in Repos, Beat(r) PROVE Together'
  BY <1>8 DEF Beat, D!Beat, tvars
<1>9. CASE UNCHANGED vars
  BY <1>9 DEF vars, dvars, tvars
<1> QED
  BY <1>1, <1>2, <1>3, <1>4, <1>5, <1>6, <1>7, <1>8, <1>9 DEF Next, Goroutine, Outcome

LEMMA PendingStep ==
  ASSUME TP!TypeOK, Pending, [Next]_vars
  PROVE  Pending'
<1> USE DEF Pending
<1>1. CASE Begin
  <2>1. todo = {}
    BY <1>1 DEF Begin, TP!TypeOK
  <2>2. unsnapped' = unsnapped /\ next' = next
    BY <1>1 DEF Begin, Idle, Tick, tvars, T!StartTick
  <2>3. CASE loop' \in { "capture", "wake" }
    <3>1. dirty' = dirty \ covered'
      BY <1>1, <2>3 DEF Begin, D!Start, D!Wake, D!GoDormant, D!CaptureTick, D!BeginCapture,
         D!TakePoll
    <3>2. covered' = {} \/ todo' = covered'
      BY <1>1, <2>3 DEF Begin, Tick
    <3> QED BY <2>1, <2>2, <3>1, <3>2
  <2>4. CASE loop' \notin { "capture", "wake" }
    <3>1. dirty' = dirty
      BY <1>1, <2>4 DEF Begin, D!Start, D!Wake, D!GoDormant, D!CaptureTick, D!BeginCapture,
         D!TakePoll
    <3> QED BY <2>1, <2>2, <3>1
  <2> QED BY <2>3, <2>4
<1>2. CASE KeepState
  BY <1>2 DEF KeepState, D!KeepState, D!history, tvars, Idle
<1>3. CASE Finish
  BY <1>3 DEF Finish, D!Finish, D!history, tvars, Idle
<1>4. CASE Snapshot \/ SnapshotUnfollowed
  BY <1>4 DEF Snapshot, SnapshotUnfollowed, T!CaptureNext, T!CaptureFails, dvars
<1>5. CASE Work
  <2>1. UNCHANGED << todo, next >>
    BY <1>5 DEF Work, T!DrainQueue, T!Assemble, T!PushNext, T!AckBacklog
  <2> QED BY <1>5, <2>1 DEF Work, Idle, dvars
<1>6. CASE Accept \/ ReplyOK \/ Reject \/ Restart
  <2>1. UNCHANGED << todo, next >>
    BY <1>6 DEF Accept, ReplyOK, Reject, Restart, T!Accept, T!ReplyOK, T!Reject, T!Restart
  <2> QED BY <1>6, <2>1 DEF Accept, ReplyOK, Reject, Restart, Idle, dvars
<1>7. CASE Exit
  BY <1>7 DEF Exit
<1>8. CASE Pass
  BY <1>8 DEF Pass, D!Pass, tvars
<1>9. CASE BeatElsewhere
  BY <1>9 DEF BeatElsewhere, D!BeatElsewhere, tvars, Idle
<1>10. ASSUME NEW r \in Repos, Beat(r) PROVE Pending'
  BY <1>10 DEF Beat, D!Beat, tvars
<1>11. CASE UNCHANGED vars
  BY <1>11 DEF vars, dvars, tvars
<1> QED
  BY <1>1, <1>2, <1>3, <1>4, <1>5, <1>6, <1>7, <1>8, <1>9, <1>10, <1>11
  DEF Next, Goroutine, Outcome

\* "A last snapshot marks the end of the session": at rest and dormant, every
\* edit has had its snapshot, but those made within the last poll or during the
\* closing capture, which the next poll will see; when a capture is over before
\* the next is due and the log is searched two intervals back.
THEOREM SessionsAreRecorded ==
  ASSUME MaxBusy < Interval, IdleMultiplier >= 2
  PROVE  Spec => []SessionRecorded
<1>1. DP!Spec => []DP!NothingUnseen
  BY DP!NothingIsUnseen, DaemonAssumes
<1>2. TP!Spec => []TP!TypeOK
  BY TP!TypeCorrect, DeliveryAssumes
<1>3. Init => Together /\ Pending
  BY DEF Init, T!Init, Together, Pending
<1>4. TP!TypeOK /\ Together /\ Pending /\ [Next]_vars => Together' /\ Pending'
  BY TogetherStep, PendingStep
<1>5. ASSUME TP!TypeOK, Together, Pending, DP!NothingUnseen
      PROVE  SessionRecorded
  <2>1. ASSUME loop = "select", ~active, NEW r \in unsnapped
        PROVE  logAge[r] <= D!Poll \/ logAge[r] <= MaxBusy
    <3>1. todo = {}
      BY <1>5, <2>1 DEF Together, TP!TypeOK
    <3>2. r \in dirty
      BY <1>5, <2>1, <3>1 DEF Pending
    <3>3. D!Poll = DP!Poll
      BY DEF D!Poll, DP!Poll
    <3> QED BY <1>5, <2>1, <3>2, <3>3 DEF DP!NothingUnseen
  <2> QED BY <2>1 DEF SessionRecorded
<1> QED BY <1>1, <1>2, <1>3, <1>4, <1>5, Components, PTL DEF Spec

-----------------------------------------------------------------------------
(* Snapshots with one key.                                                 *)

LEMMA KeptAreSnapshots == TP!TypeOK => TP!Kept \subseteq TP!Snapshot /\ Kept = TP!Kept
<1> SUFFICES ASSUME TP!TypeOK PROVE TP!Kept \subseteq TP!Snapshot /\ Kept = TP!Kept
  OBVIOUS
<1>1. TP!Range(fresh) \subseteq TP!Snapshot
  BY DEF TP!TypeOK, TP!Range
<1>2. TP!Queued \subseteq TP!Snapshot
  BY DeliveryAssumes DEF TP!TypeOK, TP!QueueTypeOK, TP!Queued, TP!Range, TP!EntryAssumption
<1>3. Kept = TP!Kept
  BY DEF Kept, TP!Kept, T!Queued, TP!Queued, T!Range, TP!Range
<1> QED BY <1>1, <1>2, <1>3 DEF TP!Kept, TP!TypeOK

\* What has reached the collector or may yet has its file list, or marks an
\* earlier one that is kept.
LEMMA ArrivalsAnchored ==
  ASSUME TP!TypeOK, TP!MarkersAnchored,
         NEW m \in received \cup T!Queued \cup T!Range(fresh)
  PROVE  \E f \in Kept : T!Anchors(f, m.project, m.hash) /\ f.id <= m.id
<1>1. T!Queued = TP!Queued /\ T!Range(fresh) = TP!Range(fresh)
  BY DEF T!Queued, TP!Queued, T!Range, TP!Range
<1>2. CASE m.unchanged
  <2>1. PICK f \in Kept : TP!Anchors(f, m.project, m.hash) /\ f.id < m.id
    BY <1>1, <1>2 DEF TP!MarkersAnchored, Kept
  <2>2. f \in TP!Snapshot /\ m \in TP!Snapshot
    BY <1>1, KeptAreSnapshots DEF Kept
  <2>3. f.id \in Int /\ m.id \in Int
    BY <2>2, AgentAssumption DEF TP!Snapshot
  <2> QED BY <2>1, <2>3 DEF T!Anchors, TP!Anchors
<1>3. CASE ~m.unchanged
  <2>1. m \in TP!Snapshot
    BY <1>1, KeptAreSnapshots DEF Kept
  <2>2. m.id <= m.id
    BY <2>1, AgentAssumption DEF TP!Snapshot
  <2> QED BY <1>3, <2>2 DEF Kept, T!Anchors
<1> QED BY <1>2, <1>3

\* Collectors dedupe on project, second and tree hash.  Whatever they drop as a
\* duplicate, be it of a snapshot an earlier process took, they lose no file list
\* by it: the one they keep has it, or omits that of an earlier snapshot that has
\* reached them, is on its way, or was given up as the code says it may be.
THEOREM DuplicatesCostNothing == Spec => DuplicateCostsNothing
<1>1. TP!Spec => []TP!TypeOK
  BY TP!TypeCorrect, DeliveryAssumes
<1>2. TP!Spec => []TP!MarkersAnchored
  BY TP!MarkersStand, DeliveryAssumes
<1>3. ASSUME TP!TypeOK, TP!MarkersAnchored
      PROVE  LET s == fresh'[Len(fresh')]
             IN  \A m \in stamped \cap (received \cup T!Queued \cup T!Range(fresh)) :
                   SameKey(m, s) =>
                     \E f \in Kept : T!Anchors(f, s.project, s.hash) /\ f.id <= m.id
  BY <1>3, ArrivalsAnchored DEF SameKey
<1>4. TP!TypeOK /\ TP!MarkersAnchored =>
        [ Snapshot =>
            LET s == fresh'[Len(fresh')]
            IN  \A m \in stamped \cap (received \cup T!Queued \cup T!Range(fresh)) :
                  SameKey(m, s) =>
                    \E f \in Kept : T!Anchors(f, s.project, s.hash) /\ f.id <= m.id ]_vars
  BY <1>3
<1> QED BY <1>1, <1>2, <1>4, Components, PTL DEF DuplicateCostsNothing
=============================================================================
