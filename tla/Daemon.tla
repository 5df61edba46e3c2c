------------------------------- MODULE Daemon -------------------------------
(***************************************************************************)
(* The daemon's loop, cmdRun in commands.go: when it captures, and which   *)
(* projects.  Two tickers share one goroutine.  The poll ticker moves the  *)
(* agent between active and dormant by the age of WakaTime's heartbeat     *)
(* files; the capture ticker snapshots the projects WakaTime's log saw     *)
(* edits in lately, and the pinned ones.  What a capture does with them is *)
(* tick, module Delivery; here it only takes time.                         *)
(*                                                                         *)
(* Time is discrete and relative: every instant is kept as an age or as a  *)
(* distance, so that behaviours of any length have finitely many states.   *)
(* Second ticks make a second, for the code mixes instants with Unix       *)
(* seconds.                                                                *)
(***************************************************************************)
EXTENDS Integers, FiniteSets

CONSTANTS
  Repos,       \* repositories the user may edit in
  Pinned,      \* directories listed in the config
  WakaTime,    \* TRUE for activity source "wakatime", FALSE for "always"
  Interval,    \* between captures (interval_seconds)
  IdleMultiplier,
  PollSeconds, \* the polls a config may ask for; see Poll
  Second,      \* clock ticks to the second
  MaxBusy,     \* bound: how long one capture may take
  MayExit      \* whether the process may stop and be started again

ASSUME DaemonAssumption ==
  /\ WakaTime \in BOOLEAN /\ MayExit \in BOOLEAN
  /\ Second \in Nat \ {0} /\ MaxBusy \in Nat
  /\ Interval \in Nat \ {0} /\ Interval % Second = 0
  /\ \A n \in PollSeconds : n \in Nat \ {0} /\ n % Second = 0
  /\ IdleMultiplier \in Nat \ {0}
  /\ WakaTime \/ Pinned # {}

IdleAfter == IdleMultiplier * Interval

\* Ages are told apart up to this one, which stands for every larger one and
\* for a file or log line that is not there.
Old == IdleAfter + 2 * MaxBusy + Second + 1

VARIABLES
  pollSeconds, \* poll_seconds in the config
  loop,         \* "stopped", "select", or busy in a capture: "capture" or, when
              \* captureT.Reset follows, "wake"
  active,     \* the state machine's flag
  lastProjects, \* what the previous capture covered
  pollIn, pollLate,  \* until the poll tick is due; how long one has waited
  capIn, capLate,    \* the same for the capture ticker
  \* outside the agent
  phase,      \* the clock, within its second
  beatAge,    \* age of the newest heartbeat file
  logAge,     \* age of the latest log line of each repository
  busy,       \* how long the capture under way has taken
  \* history
  covered,    \* what the last capture covered, nothing included
  dirty,      \* repositories edited, as the agent ran, since last captured
  sinceRound, \* time since the last capture began
  unheeded    \* time since the heartbeat that found the agent dormant

tickers == << pollIn, pollLate, capIn, capLate >>
outside == << phase, beatAge, logAge >>
history == << covered, dirty, sinceRound, unheeded >>
vars == << pollSeconds, loop, active, lastProjects, tickers, outside, busy, history >>

\* "Polling slower than the capture interval would delay a wake past the first
\* snapshot it is meant to trigger."
PollUncapped == pollSeconds    \* mutant
Poll == IF pollSeconds > Interval THEN Interval ELSE pollSeconds

Min2(a, b) == IF a < b THEN a ELSE b
Older(age) == Min2(age + 1, Old)

-----------------------------------------------------------------------------
(* Who is live.                                                            *)

\* Whether the newest heartbeat file was recent enough at an instant that is
\* late ticks past; without any such file, it was not.
ActiveUnlessOld(late) == ~WakaTime \/ beatAge = Old \/ beatAge - late <= IdleAfter   \* mutant
IsActive(late) == ~WakaTime \/ (beatAge # Old /\ beatAge - late <= IdleAfter)

\* The Unix second, counted from the current one, of the instant age ago.
Unix(age) == (phase - age) \div Second

\* The log is cut off at the second idleAfter ago; other end: a mutant that cuts
\* off one poll ago.
RecentWithinPoll(r) == logAge[r] # Old /\ Unix(logAge[r]) >= Unix(Poll)
Recent(r) == logAge[r] # Old /\ Unix(logAge[r]) >= Unix(IdleAfter)

\* activeProjects: pinned, and those with recent log lines.
Live == Pinned \cup (IF WakaTime THEN { r \in Repos : Recent(r) } ELSE {})

\* A closing capture that finds nothing live goes by the previous capture.
Projects(closing) == IF closing /\ Live = {} THEN lastProjects ELSE Live

-----------------------------------------------------------------------------
(* The loop.                                                               *)

\* Set off a capture; then is where the loop is meanwhile.
BeginCapture(closing, then) ==
  LET P == Projects(closing)
  IN  /\ loop' = then /\ busy' = 0
      /\ lastProjects' = (IF P = {} THEN lastProjects ELSE P)
      /\ covered' = P /\ dirty' = dirty \ P
      /\ sinceRound' = 0

\* The tickers start, and a session already in progress is captured at once.
Start ==
  /\ loop = "stopped"
  /\ pollIn' = Poll /\ pollLate' = 0 /\ capIn' = Interval /\ capLate' = 0
  /\ active' = IsActive(0)
  /\ IF active'
     THEN BeginCapture(FALSE, "capture")
     ELSE /\ loop' = "select"
          /\ UNCHANGED << busy, lastProjects, covered, dirty, sinceRound >>
  /\ UNCHANGED << pollSeconds, outside, unheeded >>

\* A ticker holds one tick for a loop that is busy, stamped with the instant it
\* was due, and stays on its grid.
TakePoll == /\ loop = "select" /\ pollIn = 0
            /\ pollIn' = Poll - (pollLate % Poll) /\ pollLate' = 0

Wake ==
  /\ TakePoll
  /\ IsActive(pollLate) /\ ~active
  /\ active' = TRUE
  /\ BeginCapture(FALSE, "wake")
  /\ unheeded' = Old
  /\ UNCHANGED << pollSeconds, capIn, capLate, outside >>

\* The last snapshot that marks the end of a session.
GoDormant ==
  /\ TakePoll
  /\ ~IsActive(pollLate) /\ active
  /\ active' = FALSE
  /\ BeginCapture(TRUE, "capture")
  /\ UNCHANGED << pollSeconds, capIn, capLate, outside, unheeded >>

\* Mutant of KeepState: every poll starts the capture interval again.
KeepStateReset ==
  /\ TakePoll
  /\ IsActive(pollLate) = active
  /\ capIn' = Interval /\ capLate' = 0
  /\ UNCHANGED << pollSeconds, loop, active, lastProjects, outside, busy, history >>

KeepState ==
  /\ TakePoll
  /\ IsActive(pollLate) = active
  /\ UNCHANGED << pollSeconds, loop, active, lastProjects, capIn, capLate, outside,
                  busy, history >>

CaptureTick ==
  /\ loop = "select" /\ capIn = 0
  /\ capIn' = Interval - (capLate % Interval) /\ capLate' = 0
  /\ IF active
     THEN BeginCapture(FALSE, "capture")
     ELSE UNCHANGED << loop, busy, lastProjects, covered, dirty, sinceRound >>
  /\ UNCHANGED << pollSeconds, active, pollIn, pollLate, outside, unheeded >>

\* Mutant of Finish: the wake does not reset the capture ticker.
FinishNoReset ==
  /\ loop \in { "capture", "wake" }
  /\ loop' = "select" /\ busy' = 0
  /\ UNCHANGED << pollSeconds, active, lastProjects, tickers, outside, history >>

\* The capture is over; after a wake the interval starts anew, and a capture
\* tick that was waiting is discarded.
Finish ==
  /\ loop \in { "capture", "wake" }
  /\ loop' = "select" /\ busy' = 0
  /\ IF loop = "wake"
     THEN capIn' = Interval /\ capLate' = 0
     ELSE UNCHANGED << capIn, capLate >>
  /\ UNCHANGED << pollSeconds, active, lastProjects, pollIn, pollLate, outside, history >>

\* A signal, or a kill.  What was not captured is forgotten with the process.
Exit ==
  /\ MayExit /\ loop # "stopped"
  /\ loop' = "stopped" /\ busy' = 0 /\ active' = FALSE /\ lastProjects' = {}
  /\ pollIn' = 0 /\ pollLate' = 0 /\ capIn' = 0 /\ capLate' = 0
  /\ covered' = {} /\ dirty' = {} /\ unheeded' = Old
  /\ UNCHANGED << pollSeconds, outside, sinceRound >>

-----------------------------------------------------------------------------
(* The user and the clock.                                                 *)

Notice == unheeded' = IF loop # "stopped" /\ ~active /\ unheeded = Old THEN 0 ELSE unheeded

\* A heartbeat for a file of repository r: WakaTime logs it and rewrites its
\* own files.
Beat(r) ==
  /\ beatAge' = 0 /\ logAge' = [ logAge EXCEPT ![r] = 0 ]
  /\ dirty' = IF loop = "stopped" THEN dirty ELSE dirty \cup { r }
  /\ Notice
  /\ UNCHANGED << pollSeconds, loop, active, lastProjects, tickers, phase, busy,
                  covered, sinceRound >>

\* One for a file outside any repository.
BeatElsewhere ==
  /\ beatAge' = 0
  /\ Notice
  /\ UNCHANGED << pollSeconds, loop, active, lastProjects, tickers, phase, logAge, busy,
                  covered, dirty, sinceRound >>

\* One clock tick.  A loop that waits takes a tick that is due at once.
Pass ==
  /\ loop = "select" => pollIn > 0 /\ capIn > 0
  /\ loop \in { "capture", "wake" } => busy < MaxBusy
  /\ busy' = IF loop \in { "capture", "wake" } THEN busy + 1 ELSE 0
  /\ IF loop = "stopped"
     THEN UNCHANGED tickers
     ELSE /\ pollIn' = IF pollIn = 0 THEN 0 ELSE pollIn - 1
          /\ pollLate' = IF pollIn = 0 THEN pollLate + 1 ELSE 0
          /\ capIn' = IF capIn = 0 THEN 0 ELSE capIn - 1
          /\ capLate' = IF capIn = 0 THEN capLate + 1 ELSE 0
  /\ phase' = (phase + 1) % Second
  /\ beatAge' = Older(beatAge)
  /\ logAge' = [ r \in Repos |-> Older(logAge[r]) ]
  /\ sinceRound' = Older(sinceRound) /\ unheeded' = Older(unheeded)
  /\ UNCHANGED << pollSeconds, loop, active, lastProjects, covered, dirty >>

-----------------------------------------------------------------------------
Init ==
  /\ pollSeconds \in PollSeconds
  /\ loop = "stopped" /\ active = FALSE /\ lastProjects = {} /\ busy = 0
  /\ pollIn = 0 /\ pollLate = 0 /\ capIn = 0 /\ capLate = 0
  /\ phase \in 0 .. Second - 1
  /\ beatAge = Old /\ logAge = [ r \in Repos |-> Old ]
  /\ covered = {} /\ dirty = {} /\ sinceRound = Old /\ unheeded = Old

Loop == Start \/ Wake \/ GoDormant \/ KeepState \/ CaptureTick \/ Finish

User == WakaTime /\ ((\E r \in Repos : Beat(r)) \/ BeatElsewhere)

Next == Loop \/ User \/ Exit \/ Pass

Spec == Init /\ [][Next]_vars

\* Time passes and the loop runs.
FairSpec == Spec /\ WF_vars(Loop) /\ WF_vars(Pass)

-----------------------------------------------------------------------------
Dirs == Repos \cup Pinned

TypeOK ==
  /\ pollSeconds \in PollSeconds
  /\ loop \in { "stopped", "select", "capture", "wake" }
  /\ active \in BOOLEAN /\ lastProjects \subseteq Dirs
  /\ pollIn \in 0 .. Poll /\ capIn \in 0 .. Interval
  /\ pollLate \in 0 .. 2 * MaxBusy /\ capLate \in 0 .. 2 * MaxBusy
  /\ pollLate > 0 => pollIn = 0
  /\ capLate > 0 => capIn = 0
  /\ phase \in 0 .. Second - 1 /\ busy \in 0 .. MaxBusy
  /\ beatAge \in 0 .. Old /\ logAge \in [ Repos -> 0 .. Old ]
  /\ covered \subseteq Dirs /\ dirty \subseteq Repos
  /\ sinceRound \in 0 .. Old /\ unheeded \in 0 .. Old
  /\ loop = "wake" => active

\* "A returning user is picked up within poll rather than within interval", and
\* never later than the interval, however the poll is configured; a closing
\* capture still under way is the only thing that can hold it up.
WakePrompt ==
  unheeded # Old =>
    unheeded <= Min2(pollSeconds, Interval) \/ unheeded <= MaxBusy

\* The agent does not sit dormant on work it has not captured: what is still
\* uncaptured was edited within the last poll or the closing capture that held
\* the poll up, and the next poll will see it.
NothingUnseen ==
  loop = "select" /\ ~active =>
    \A r \in dirty : logAge[r] <= Poll \/ logAge[r] <= MaxBusy

\* While active, rounds are never further apart than the interval and the
\* capture between them.
Cadence == active => sinceRound <= Interval + MaxBusy

-----------------------------------------------------------------------------
\* Within a session a periodic capture follows the one before it, the wake's
\* included, by at least an interval.
Spaced ==
  [][ CaptureTick /\ active => sinceRound >= Min2(Interval, Old) ]_vars

Closing == active /\ ~active' /\ loop' = "capture"

\* "A fresh lookup at that instant finds nothing --- the closing snapshot has to
\* be taken against the projects the session was actually spent in": whenever a
\* session closes, all that the previous capture covered.  With a directory
\* pinned, or a log line that still counts as recent once truncated to its
\* second, the lookup does find something.
ClosingCoversLast == [][ Closing => lastProjects \subseteq covered' ]_vars

\* A user who stays away is noticed: the session ends.
SessionEnds == active /\ beatAge = Old ~> ~active \/ beatAge # Old
=============================================================================
