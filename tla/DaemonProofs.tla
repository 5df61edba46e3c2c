---------------------------- MODULE DaemonProofs ----------------------------
(***************************************************************************)
(* Proofs about Daemon, for any repositories, pins, intervals, polls and   *)
(* multiples.  What needs a capture to be over before the next is due says *)
(* so: MaxBusy < Interval.                                                 *)
(***************************************************************************)
EXTENDS Daemon, TLAPS

-----------------------------------------------------------------------------
(* Numbers.                                                                *)

LEMMA Bounds ==
  /\ Interval \in Nat \ { 0 } /\ MaxBusy \in Nat /\ Second \in Nat \ { 0 }
  /\ IdleAfter \in Nat /\ Interval <= IdleAfter
  /\ Old \in Nat /\ IdleAfter + 2 * MaxBusy + 2 <= Old
<1>1. IdleMultiplier \in Nat \ { 0 } /\ Interval \in Nat \ { 0 } /\ MaxBusy \in Nat
      /\ Second \in Nat \ { 0 }
  BY DaemonAssumption
<1>2. \A k, i \in Nat \ { 0 } : k * i \in Nat /\ i <= k * i
  OBVIOUS
<1>3. IdleAfter \in Nat /\ Interval <= IdleAfter
  BY <1>1, <1>2 DEF IdleAfter
<1> QED BY <1>1, <1>3 DEF Old

\* What is left of a period is at least one tick, and all of it when nothing
\* was late.
LEMMA NextDue ==
  ASSUME NEW period \in Nat \ { 0 }, NEW late \in Nat
  PROVE  /\ period - (late % period) \in 1 .. period
         /\ late = 0 => period - (late % period) = period
<1>1. late % period \in 0 .. period - 1
  OBVIOUS
<1>2. late = 0 => late % period = 0
  OBVIOUS
<1> QED BY <1>1, <1>2

\* Ages grow by one, up to Old.
LEMMA Ageing ==
  ASSUME NEW a \in 0 .. Old
  PROVE  /\ Older(a) \in 0 .. Old /\ Older(a) <= a + 1
         /\ Older(a) # Old => Older(a) = a + 1
         /\ \A b \in 0 .. Old : a <= b => Older(a) <= Older(b)
BY Bounds DEF Older, Min2

LEMMA PollBound ==
  ASSUME pollSeconds \in PollSeconds
  PROVE  Poll \in Nat \ { 0 } /\ Poll <= Interval
BY DaemonAssumption DEF Poll

\* The config, and so the poll, stays as it is.
LEMMA PollFixed ==
  ASSUME pollSeconds' = pollSeconds
  PROVE  Poll' = Poll
BY DEF Poll

-----------------------------------------------------------------------------
(* Types.                                                                  *)

\* TypeOK without a bound on how long a tick may wait, which is there only when
\* captures are shorter than the interval.
Types ==
  /\ pollSeconds \in PollSeconds
  /\ loop \in { "stopped", "select", "capture", "wake" }
  /\ active \in BOOLEAN
  /\ pollIn \in 0 .. Poll /\ capIn \in 0 .. Interval
  /\ pollLate \in Nat /\ capLate \in Nat
  /\ pollLate > 0 => pollIn = 0
  /\ capLate > 0 => capIn = 0
  /\ phase \in 0 .. Second - 1 /\ busy \in 0 .. MaxBusy
  /\ beatAge \in 0 .. Old /\ logAge \in [ Repos -> 0 .. Old ]
  /\ sinceRound \in 0 .. Old /\ unheeded \in 0 .. Old
  /\ loop = "wake" => active
  /\ loop = "stopped" => ~active

Scopes == /\ lastProjects \subseteq Dirs /\ covered \subseteq Dirs
          /\ dirty \subseteq Repos

LEMMA TypesInit == Init => Types
<1> SUFFICES ASSUME Init PROVE Types
  OBVIOUS
<1>1. Poll \in Nat \ { 0 } /\ Poll <= Interval
  BY PollBound DEF Init
<1>2. active \in BOOLEAN /\ ~active /\ loop = "stopped"
  BY DEF Init
<1>3. logAge \in [ Repos -> 0 .. Old ] /\ Old \in 0 .. Old
  BY Bounds DEF Init
<1> QED BY <1>1, <1>2, <1>3, Bounds DEF Init, Types

\* Setting off a capture, for the steps that do.
LEMMA BeginTypes ==
  ASSUME NEW c \in BOOLEAN, NEW then, BeginCapture(c, then)
  PROVE  loop' = then /\ busy' = 0 /\ sinceRound' = 0
BY DEF BeginCapture

LEMMA TypesNext ==
  ASSUME Types, [Next]_vars
  PROVE  Types'
<1>1. Poll \in Nat \ { 0 } /\ Poll <= Interval
  BY PollBound DEF Types
<1>2. pollSeconds' = pollSeconds
  BY DEF Next, Loop, User, Start, Wake, GoDormant, KeepState, CaptureTick, Finish, Exit,
         Beat, BeatElsewhere, Pass, vars
<1>3. Poll' = Poll
  BY <1>2, PollFixed
<1> USE Bounds, <1>1, <1>2, <1>3
<1>4. IsActive(0) \in BOOLEAN
  BY DEF IsActive
<1>5. Poll - (pollLate % Poll) \in 1 .. Poll /\ Interval - (capLate % Interval) \in 1 .. Interval
  BY NextDue DEF Types
<1>6. CASE Start
  <2>1. \/ loop' = "capture" /\ active' /\ busy' = 0 /\ sinceRound' = 0
        \/ loop' = "select" /\ ~active' /\ busy' = busy /\ sinceRound' = sinceRound
    BY <1>6, BeginTypes DEF Start
  <2> QED BY <1>4, <1>6, <2>1 DEF Start, Types, outside
<1>7. CASE Wake
  <2>1. loop' = "wake" /\ busy' = 0 /\ sinceRound' = 0
    BY <1>7, BeginTypes DEF Wake
  <2> QED BY <1>5, <1>7, <2>1 DEF Wake, TakePoll, Types, outside
<1>8. CASE GoDormant
  <2>1. loop' = "capture" /\ busy' = 0 /\ sinceRound' = 0
    BY <1>8, BeginTypes DEF GoDormant
  <2>2. active' \in BOOLEAN
    BY <1>8 DEF GoDormant
  <2> QED BY <1>5, <1>8, <2>1, <2>2 DEF GoDormant, TakePoll, Types, outside
<1>9. CASE KeepState
  BY <1>5, <1>9 DEF KeepState, TakePoll, Types, outside, history
<1>10. CASE CaptureTick
  <2>1. \/ loop' = "capture" /\ busy' = 0 /\ sinceRound' = 0
        \/ loop' = loop /\ busy' = busy /\ sinceRound' = sinceRound
    BY <1>10, BeginTypes DEF CaptureTick
  <2> QED BY <1>5, <1>10, <2>1 DEF CaptureTick, Types, outside
<1>11. CASE Finish
  BY <1>11 DEF Finish, Types, outside, history
<1>12. CASE Exit
  <2>1. active' \in BOOLEAN /\ ~active'
    BY <1>12, Zenon DEF Exit
  <2>2. loop' = "stopped" /\ unheeded' \in 0 .. Old
    BY <1>12 DEF Exit
  <2> QED BY <1>12, <2>1, <2>2 DEF Exit, Types, outside
<1>13. ASSUME NEW r \in Repos, Beat(r) PROVE Types'
  BY <1>13 DEF Beat, Notice, Types, tickers
<1>14. CASE BeatElsewhere
  BY <1>14 DEF BeatElsewhere, Notice, Types, tickers
<1>15. CASE Pass
  <2>1. (phase + 1) % Second \in 0 .. Second - 1
    BY DEF Types
  <2>2. beatAge' \in 0 .. Old /\ sinceRound' \in 0 .. Old /\ unheeded' \in 0 .. Old
    BY <1>15, Ageing DEF Pass, Types
  <2>3. logAge' \in [ Repos -> 0 .. Old ]
    BY <1>15, Ageing DEF Pass, Types
  <2>4. busy' \in 0 .. MaxBusy
    BY <1>15 DEF Pass, Types
  <2>5. /\ pollIn' \in 0 .. Poll /\ capIn' \in 0 .. Interval
        /\ pollLate' \in Nat /\ capLate' \in Nat
        /\ pollLate' > 0 => pollIn' = 0
        /\ capLate' > 0 => capIn' = 0
    BY <1>15 DEF Pass, Types, tickers
  <2> QED BY <1>15, <2>1, <2>2, <2>3, <2>4, <2>5 DEF Pass, Types
<1>16. CASE UNCHANGED vars
  BY <1>16 DEF vars, Types, tickers, outside, history
<1> QED
  BY <1>6, <1>7, <1>8, <1>9, <1>10, <1>11, <1>12, <1>13, <1>14, <1>15, <1>16
  DEF Next, Loop, User

-----------------------------------------------------------------------------
(* What a capture covers.                                                  *)

LEMMA ScopesNext ==
  ASSUME Scopes, [Next]_vars
  PROVE  Scopes'
<1>1. Live \subseteq Dirs
  BY DEF Live, Dirs
<1>2. \A c \in BOOLEAN : Projects(c) \subseteq Dirs
  BY <1>1 DEF Projects, Scopes
<1>3. ASSUME NEW c \in BOOLEAN, NEW then, BeginCapture(c, then) PROVE Scopes'
  BY <1>2, <1>3 DEF BeginCapture, Scopes
<1>4. CASE Start
  BY <1>3, <1>4 DEF Start, Scopes
<1>5. CASE Wake
  BY <1>3, <1>5 DEF Wake
<1>6. CASE GoDormant
  BY <1>3, <1>6 DEF GoDormant
<1>7. CASE KeepState
  BY <1>7 DEF KeepState, history, Scopes
<1>8. CASE CaptureTick
  BY <1>3, <1>8 DEF CaptureTick, Scopes
<1>9. CASE Finish
  BY <1>9 DEF Finish, history, Scopes
<1>10. CASE Exit
  BY <1>10 DEF Exit, Scopes
<1>11. ASSUME NEW r \in Repos, Beat(r) PROVE Scopes'
  BY <1>11 DEF Beat, Scopes
<1>12. CASE BeatElsewhere
  BY <1>12 DEF BeatElsewhere, Scopes
<1>13. CASE Pass
  BY <1>13 DEF Pass, Scopes
<1>14. CASE UNCHANGED vars
  BY <1>14 DEF vars, history, Scopes
<1> QED
  BY <1>4, <1>5, <1>6, <1>7, <1>8, <1>9, <1>10, <1>11, <1>12, <1>13, <1>14
  DEF Next, Loop, User

-----------------------------------------------------------------------------
(* Rounds while active.                                                    *)

\* Between captures the time since the last one and the time to the next add up
\* to no more than the interval and that capture's length.
InTime == active =>
  /\ loop = "select" => sinceRound + capIn <= Interval + MaxBusy
  /\ loop # "select" => sinceRound <= busy

LEMMA InTimeNext ==
  ASSUME Types, InTime, [Next]_vars
  PROVE  InTime'
<1> USE Bounds DEF Types, InTime
<1>1. CASE Start
  <2>1. \/ loop' = "capture" /\ busy' = 0 /\ sinceRound' = 0
        \/ ~active'
    BY <1>1, BeginTypes DEF Start
  <2> QED BY <2>1
<1>2. CASE Wake
  <2>1. loop' = "wake" /\ busy' = 0 /\ sinceRound' = 0
    BY <1>2, BeginTypes DEF Wake
  <2> QED BY <2>1
<1>3. CASE GoDormant
  BY <1>3 DEF GoDormant
<1>4. CASE KeepState
  BY <1>4 DEF KeepState, history
<1>5. CASE CaptureTick
  <2>1. CASE active
    <3>1. loop' = "capture" /\ busy' = 0 /\ sinceRound' = 0
      BY <1>5, <2>1, BeginTypes DEF CaptureTick
    <3> QED BY <3>1
  <2>2. CASE ~active
    BY <1>5, <2>2 DEF CaptureTick
  <2> QED BY <2>1, <2>2
<1>6. CASE Finish
  BY <1>6 DEF Finish, history
<1>7. CASE Exit
  BY <1>7 DEF Exit
<1>8. ASSUME NEW r \in Repos, Beat(r) PROVE InTime'
  BY <1>8 DEF Beat, tickers
<1>9. CASE BeatElsewhere
  BY <1>9 DEF BeatElsewhere, tickers
<1>10. CASE Pass
  <2>1. sinceRound' <= sinceRound + 1 /\ sinceRound' \in 0 .. Old
    BY <1>10, Ageing DEF Pass
  <2> QED BY <1>10, <2>1 DEF Pass
<1>11. CASE UNCHANGED vars
  BY <1>11 DEF vars, tickers, history
<1> QED
  BY <1>1, <1>2, <1>3, <1>4, <1>5, <1>6, <1>7, <1>8, <1>9, <1>10, <1>11
  DEF Next, Loop, User

-----------------------------------------------------------------------------
(* A heartbeat that finds the agent dormant.                               *)

\* It is heeded by a poll that is at most its period away, counted from the
\* instant the poll is due; only a closing capture makes the loop late.
Heeded ==
  /\ active \/ loop = "stopped" => unheeded = Old
  /\ unheeded # Old =>
       /\ WakaTime /\ beatAge <= unheeded
       /\ unheeded + pollIn <= Poll + pollLate
       /\ loop = "capture" => unheeded <= busy
       /\ loop = "select" => unheeded <= Poll \/ unheeded <= MaxBusy

\* A poll due no more than a period after the heartbeat sees it.
LEMMA PollSees ==
  ASSUME Types, Heeded, unheeded # Old
  PROVE  IsActive(pollLate)
<1>1. Poll \in Nat \ { 0 } /\ Poll <= Interval
  BY PollBound DEF Types
<1>2. beatAge # Old /\ beatAge - pollLate <= IdleAfter
  BY <1>1, Bounds DEF Types, Heeded
<1> QED BY <1>2 DEF IsActive

LEMMA HeededNext ==
  ASSUME Types, Heeded, [Next]_vars
  PROVE  Heeded'
<1>1. Poll \in Nat \ { 0 } /\ Poll <= Interval
  BY PollBound DEF Types
<1>2. pollSeconds' = pollSeconds
  BY DEF Next, Loop, User, Start, Wake, GoDormant, KeepState, CaptureTick, Finish, Exit,
         Beat, BeatElsewhere, Pass, vars
<1>3. Poll' = Poll
  BY <1>2, PollFixed
<1>4. Types'
  BY TypesNext
<1> USE Bounds, <1>1, <1>3 DEF Types, Heeded
<1>5. CASE Start
  BY <1>5 DEF Start
<1>6. CASE Wake
  BY <1>6, <1>4 DEF Wake
<1>7. CASE GoDormant
  BY <1>7, <1>4 DEF GoDormant
<1>8. CASE KeepState
  <2>1. unheeded = Old
    BY <1>8, PollSees DEF KeepState
  <2> QED BY <1>8, <2>1 DEF KeepState, history
<1>9. CASE CaptureTick
  <2>1. active => unheeded = Old
    OBVIOUS
  <2>2. ~active => loop' = loop
    BY <1>9 DEF CaptureTick
  <2> QED BY <1>9, <2>1, <2>2 DEF CaptureTick, outside
<1>10. CASE Finish
  BY <1>10 DEF Finish, history, outside
<1>11. CASE Exit
  BY <1>11 DEF Exit
<1>12. ASSUME WakaTime, NEW r \in Repos, Beat(r) PROVE Heeded'
  BY <1>12 DEF Beat, Notice, tickers
<1>13. ASSUME WakaTime, BeatElsewhere PROVE Heeded'
  BY <1>13 DEF BeatElsewhere, Notice, tickers
<1>14. CASE Pass
  <2>1. /\ unheeded' # Old => unheeded # Old /\ unheeded' = unheeded + 1
        /\ unheeded = Old => unheeded' = Old
    BY <1>14, Ageing DEF Pass, Older, Min2
  <2>2. unheeded # Old /\ unheeded' # Old => beatAge' <= unheeded'
    BY <1>14, Ageing DEF Pass
  <2> QED BY <1>14, <2>1, <2>2 DEF Pass, tickers
<1>15. CASE UNCHANGED vars
  BY <1>15 DEF vars, tickers, history, outside
<1> QED
  BY <1>5, <1>6, <1>7, <1>8, <1>9, <1>10, <1>11, <1>12, <1>13, <1>14, <1>15
  DEF Next, Loop, User

-----------------------------------------------------------------------------
(* Ticks that wait, when a capture is over before the next is due.         *)

\* No tick waits longer than one capture, but the capture tick that came during
\* a closing capture and waits on through a wake.  While active the capture tick
\* never waits at all.
Punctual ==
  /\ loop = "stopped" => pollLate = 0 /\ capLate = 0
  /\ loop = "select" => pollLate <= MaxBusy /\ capLate <= MaxBusy
  /\ loop = "select" /\ active => capLate = 0 /\ (pollLate > 0 => capIn > 0)
  /\ loop \in { "capture", "wake" } => pollLate <= busy
  /\ loop = "capture" /\ active => capLate = 0 /\ capIn + busy >= Interval
  /\ loop = "capture" /\ ~active => capLate <= busy
  /\ loop = "wake" => capLate <= MaxBusy + busy

LEMMA PunctualNext ==
  ASSUME MaxBusy < Interval, Types, Punctual, [Next]_vars
  PROVE  Punctual'
<1> USE Bounds DEF Types, Punctual
<1>1. CASE Start
  <2>1. \/ loop' = "capture" /\ active' /\ busy' = 0
        \/ loop' = "select" /\ ~active'
    BY <1>1, BeginTypes DEF Start
  <2>2. pollLate' = 0 /\ capLate' = 0 /\ capIn' = Interval
    BY <1>1 DEF Start
  <2> QED BY <2>1, <2>2
<1>2. CASE Wake
  <2>1. loop' = "wake" /\ busy' = 0 /\ active'
    BY <1>2, BeginTypes DEF Wake
  <2>2. pollLate' = 0 /\ capLate' = capLate
    BY <1>2 DEF Wake, TakePoll
  <2>3. capLate <= MaxBusy
    BY <1>2 DEF Wake, TakePoll
  <2> QED BY <2>1, <2>2, <2>3
<1>3. CASE GoDormant
  <2>1. loop' = "capture" /\ busy' = 0 /\ ~active'
    BY <1>3, BeginTypes DEF GoDormant
  <2>2. pollLate' = 0 /\ capLate' = capLate
    BY <1>3 DEF GoDormant, TakePoll
  <2>3. capLate = 0
    BY <1>3 DEF GoDormant, TakePoll
  <2> QED BY <2>1, <2>2, <2>3
<1>4. CASE KeepState
  BY <1>4 DEF KeepState, TakePoll
<1>5. CASE CaptureTick
  <2>1. capLate' = 0 /\ pollLate' = pollLate /\ active' = active /\ pollLate <= MaxBusy
    BY <1>5 DEF CaptureTick
  <2>2. CASE active
    <3>1. loop' = "capture" /\ busy' = 0
      BY <1>5, <2>2, BeginTypes DEF CaptureTick
    <3>2. capLate = 0 /\ pollLate = 0
      BY <1>5, <2>2 DEF CaptureTick
    <3>3. capIn' = Interval
      BY <1>5, <3>2, NextDue DEF CaptureTick
    <3> QED BY <2>1, <2>2, <3>1, <3>2, <3>3
  <2>3. CASE ~active
    BY <1>5, <2>1, <2>3 DEF CaptureTick
  <2> QED BY <2>2, <2>3
<1>6. CASE Finish
  BY <1>6 DEF Finish, history
<1>7. CASE Exit
  BY <1>7 DEF Exit
<1>8. ASSUME NEW r \in Repos, Beat(r) PROVE Punctual'
  BY <1>8 DEF Beat, tickers
<1>9. CASE BeatElsewhere
  BY <1>9 DEF BeatElsewhere, tickers
<1>10. CASE Pass
  BY <1>10 DEF Pass, tickers
<1>11. CASE UNCHANGED vars
  BY <1>11 DEF vars, tickers, history
<1> QED
  BY <1>1, <1>2, <1>3, <1>4, <1>5, <1>6, <1>7, <1>8, <1>9, <1>10, <1>11
  DEF Next, Loop, User

\* The time since the last capture and the time to the next add up to an
\* interval at least.
Apart == active /\ loop \in { "select", "capture" } => sinceRound + capIn >= Interval

LEMMA ApartNext ==
  ASSUME MaxBusy < Interval, Types, Punctual, Apart, [Next]_vars
  PROVE  Apart'
<1> USE Bounds DEF Types, Apart
<1>1. CASE Start
  <2>1. \/ sinceRound' = 0 /\ capIn' = Interval
        \/ ~active'
    BY <1>1, BeginTypes DEF Start
  <2> QED BY <2>1
<1>2. CASE Wake
  <2>1. loop' = "wake"
    BY <1>2, BeginTypes DEF Wake
  <2> QED BY <2>1
<1>3. CASE GoDormant
  BY <1>3 DEF GoDormant
<1>4. CASE KeepState
  BY <1>4 DEF KeepState, history
<1>5. CASE CaptureTick
  <2>1. CASE active
    <3>1. capLate = 0
      BY <1>5, <2>1 DEF CaptureTick, Punctual
    <3>2. capIn' = Interval
      BY <1>5, <3>1, NextDue DEF CaptureTick
    <3>3. sinceRound' = 0
      BY <1>5, <2>1, BeginTypes DEF CaptureTick
    <3> QED BY <3>2, <3>3
  <2>2. CASE ~active
    BY <1>5, <2>2 DEF CaptureTick
  <2> QED BY <2>1, <2>2
<1>6. CASE Finish
  BY <1>6 DEF Finish, history
<1>7. CASE Exit
  BY <1>7 DEF Exit
<1>8. ASSUME NEW r \in Repos, Beat(r) PROVE Apart'
  BY <1>8 DEF Beat, tickers
<1>9. CASE BeatElsewhere
  BY <1>9 DEF BeatElsewhere, tickers
<1>10. CASE Pass
  <2>1. sinceRound' >= sinceRound + 1 \/ sinceRound' >= Interval
    BY <1>10 DEF Pass, Older, Min2
  <2>2. active /\ loop \in { "select", "capture" } => capIn > 0
    BY <1>10 DEF Pass, Punctual
  <2>3. capIn > 0 /\ loop # "stopped" => capIn' = capIn - 1
    BY <1>10 DEF Pass
  <2>4. sinceRound' \in 0 .. Old
    BY <1>10, Ageing DEF Pass
  <2> QED BY <1>10, <2>1, <2>2, <2>3, <2>4 DEF Pass, tickers
<1>11. CASE UNCHANGED vars
  BY <1>11 DEF vars, tickers, history
<1> QED
  BY <1>1, <1>2, <1>3, <1>4, <1>5, <1>6, <1>7, <1>8, <1>9, <1>10, <1>11
  DEF Next, Loop, User

-----------------------------------------------------------------------------
(* Work that is not captured yet.                                          *)

\* Where it is found: while active it is younger than the next capture reaches
\* back, while dormant younger than the heartbeat that goes unheeded.
Tracked ==
  /\ WakaTime \/ dirty = {}
  /\ loop = "stopped" => dirty = {}
  /\ \A r \in dirty :
       /\ loop \in { "select", "capture" } /\ ~active => unheeded # Old /\ logAge[r] <= unheeded
       /\ loop = "wake" => logAge[r] <= busy
       /\ loop \in { "select", "capture" } /\ active => logAge[r] + capIn <= Interval + MaxBusy

\* Later instants are not in earlier seconds.
LEMMA RecentEnough ==
  ASSUME Types, NEW r \in Repos, logAge[r] <= IdleAfter
  PROVE  Recent(r)
<1>1. logAge[r] \in 0 .. Old /\ logAge[r] # Old /\ phase \in Int
  BY Bounds DEF Types
<1>2. phase - IdleAfter \in Int /\ phase - logAge[r] \in Int
      /\ phase - IdleAfter <= phase - logAge[r]
  BY <1>1, Bounds
<1>3. \A a, b \in Int : a <= b => a \div Second <= b \div Second
  BY Bounds
<1>4. (phase - IdleAfter) \div Second \in Int /\ (phase - logAge[r]) \div Second \in Int
  BY <1>2, Bounds
<1>5. Unix(logAge[r]) >= Unix(IdleAfter)
  BY <1>2, <1>3, <1>4 DEF Unix
<1> QED BY <1>1, <1>5 DEF Recent

\* A capture leaves nothing uncaptured that was edited within the idle time.
LEMMA CaptureCleans ==
  ASSUME Types, Scopes, WakaTime \/ dirty = {},
         \A r \in dirty : logAge[r] <= IdleAfter,
         NEW c \in BOOLEAN, NEW then, BeginCapture(c, then)
  PROVE  dirty' = {}
<1>1. \A r \in dirty : Recent(r)
  BY RecentEnough DEF Scopes
<1>2. dirty \subseteq Live
  BY <1>1 DEF Live, Scopes
<1>3. dirty \subseteq Projects(c)
  BY <1>2 DEF Projects
<1>4. dirty' = dirty \ Projects(c)
  BY DEF BeginCapture
<1> QED BY <1>3, <1>4

LEMMA TrackedNext ==
  ASSUME MaxBusy < Interval, IdleMultiplier >= 2,
         Types, Scopes, Heeded, Punctual, Tracked, [Next]_vars
  PROVE  Tracked'
<1>1. Interval + MaxBusy <= IdleAfter
  <2>1. IdleMultiplier \in Nat
    BY DaemonAssumption
  <2>2. \A k, i \in Nat : k >= 2 => i + i <= k * i
    OBVIOUS
  <2>3. Interval + Interval <= IdleAfter
    BY <2>1, <2>2, Bounds DEF IdleAfter
  <2> QED BY <2>3, Bounds
<1>2. Poll \in Nat \ { 0 } /\ Poll <= Interval
  BY PollBound DEF Types
<1>3. dirty \subseteq Repos /\ \A r \in Repos : logAge[r] \in 0 .. Old
  BY DEF Scopes, Types
\* What a capture can find uncaptured.
<1>4. ASSUME loop # "stopped", loop = "select", NEW r \in dirty
      PROVE  logAge[r] <= IdleAfter
  BY <1>1, <1>2, <1>3, <1>4, Bounds DEF Types, Heeded, Tracked
\* When a capture sets off, nothing is left, and the ages are as they were.
<1>5. ASSUME dirty' = {}, UNCHANGED << beatAge, logAge >> PROVE Tracked'
  BY <1>5 DEF Tracked
<1>6. ASSUME loop = "select", NEW c \in BOOLEAN, NEW then, BeginCapture(c, then)
      PROVE  dirty' = {}
  BY <1>4, <1>6, CaptureCleans DEF Tracked
<1>7. CASE Start
  <2>1. dirty = {} /\ dirty' = {}
    BY <1>7 DEF Start, BeginCapture, Tracked
  <2> QED BY <1>5, <1>7, <2>1 DEF Start, outside
<1>8. CASE Wake
  BY <1>5, <1>6, <1>8 DEF Wake, TakePoll, outside
<1>9. CASE GoDormant
  BY <1>5, <1>6, <1>9 DEF GoDormant, TakePoll, outside
<1>10. CASE KeepState
  BY <1>10 DEF KeepState, TakePoll, outside, history, Tracked
<1>11. CASE CaptureTick
  <2>1. CASE active
    BY <1>5, <1>6, <1>11, <2>1 DEF CaptureTick, outside
  <2>2. CASE ~active
    BY <1>11, <2>2 DEF CaptureTick, outside, Tracked
  <2> QED BY <2>1, <2>2
<1>12. CASE Finish
  <2>1. CASE loop = "capture"
    BY <1>12, <2>1 DEF Finish, outside, history, Tracked
  <2>2. CASE loop = "wake"
    <3>1. loop' = "select" /\ active' /\ capIn' = Interval /\ UNCHANGED << outside, history >>
      BY <1>12, <2>2 DEF Finish, Types
    <3>2. \A r \in dirty' : logAge'[r] + capIn' <= Interval + MaxBusy
      BY <1>3, <2>2, <3>1, Bounds DEF Tracked, Types, outside, history
    <3> QED BY <3>1, <3>2 DEF Tracked, outside, history
  <2> QED BY <1>12, <2>1, <2>2 DEF Finish
<1>13. CASE Exit
  BY <1>5, <1>13 DEF Exit, outside
<1>14. ASSUME NEW q \in Repos, WakaTime, Beat(q) PROVE Tracked'
  <2>1. /\ beatAge' = 0 /\ loop' = loop /\ active' = active /\ busy' = busy /\ capIn' = capIn
        /\ logAge' = [ logAge EXCEPT ![q] = 0 ]
        /\ unheeded' = unheeded \/ unheeded' = 0
        /\ dirty' = IF loop = "stopped" THEN dirty ELSE dirty \cup { q }
    BY <1>14 DEF Beat, Notice, tickers
  <2>2. \A r \in Repos : logAge'[r] = IF r = q THEN 0 ELSE logAge[r]
    BY <2>1 DEF Types
  <2>3. loop # "stopped" /\ ~active => unheeded' # Old /\ unheeded' >= 0 /\ (unheeded # Old => unheeded' = unheeded)
    BY <1>14, Bounds DEF Beat, Notice, Types
  <2>5. \A r \in dirty' : r = q \/ r \in dirty
    BY <2>1
  <2>6. ASSUME NEW r \in dirty'
        PROVE  /\ loop' \in { "select", "capture" } /\ ~active' => unheeded' # Old /\ logAge'[r] <= unheeded'
               /\ loop' = "wake" => logAge'[r] <= busy'
               /\ loop' \in { "select", "capture" } /\ active'
                    => logAge'[r] + capIn' <= Interval + MaxBusy
    <3>1. CASE r = q
      BY <2>1, <2>2, <2>3, <3>1, <1>14, Bounds DEF Types
    <3>2. CASE r # q
      <4>1. r \in dirty /\ logAge'[r] = logAge[r]
        BY <1>3, <2>2, <2>5, <3>2
      <4> QED BY <2>1, <2>3, <4>1 DEF Tracked
    <3> QED BY <3>1, <3>2
  <2>7. loop' = "stopped" => dirty' = {}
    BY <2>1 DEF Tracked
  <2> QED BY <1>14, <2>6, <2>7 DEF Tracked
<1>15. CASE BeatElsewhere
  <2>1. /\ beatAge' = 0 /\ loop' = loop /\ active' = active /\ busy' = busy /\ capIn' = capIn
        /\ logAge' = logAge /\ dirty' = dirty
        /\ unheeded # Old => unheeded' = unheeded
    BY <1>15 DEF BeatElsewhere, Notice, tickers
  <2> QED BY <2>1 DEF Tracked
<1>16. CASE Pass
  <2>1. UNCHANGED << loop, active, dirty >>
    BY <1>16 DEF Pass
  <2>2. \A r \in Repos : logAge'[r] <= logAge[r] + 1 /\ logAge'[r] \in 0 .. Old
    BY <1>3, <1>16, Ageing DEF Pass, Types, Tracked
  <2>3. ASSUME loop \in { "select", "capture" }, ~active, unheeded # Old
        PROVE  unheeded' # Old /\ unheeded' = unheeded + 1
    <3>1. unheeded + 1 < Old
      BY <1>2, <1>16, <2>3, Bounds DEF Pass, Types, Heeded
    <3> QED BY <1>16, <3>1, Bounds DEF Pass, Older, Min2, Types
  <2>4. ASSUME loop \in { "select", "capture" }, active
        PROVE  capIn' = capIn - 1
    BY <1>16, <2>4, Bounds DEF Pass, Punctual, Types
  <2>5. loop = "wake" => busy' = busy + 1
    BY <1>16 DEF Pass
  <2>6. ASSUME NEW r \in dirty
        PROVE  /\ loop \in { "select", "capture" } /\ ~active => unheeded' # Old /\ logAge'[r] <= unheeded'
               /\ loop = "wake" => logAge'[r] <= busy'
               /\ loop \in { "select", "capture" } /\ active
                    => logAge'[r] + capIn' <= Interval + MaxBusy
    <3>1. r \in Repos /\ logAge[r] \in 0 .. Old
      BY <1>3
    <3>2. CASE loop \in { "select", "capture" } /\ ~active
      BY <2>2, <2>3, <3>1, <3>2, Bounds DEF Tracked, Types
    <3>3. CASE loop = "wake"
      BY <2>2, <2>5, <3>1, <3>3, Bounds DEF Tracked, Types
    <3>4. CASE loop \in { "select", "capture" } /\ active
      BY <2>2, <2>4, <3>1, <3>4, Bounds DEF Tracked, Types
    <3> QED BY <3>2, <3>3, <3>4
  <2> QED BY <2>1, <2>2, <2>6 DEF Tracked
<1>17. CASE UNCHANGED vars
  BY <1>17 DEF vars, tickers, outside, history, Tracked
<1> QED
  BY <1>7, <1>8, <1>9, <1>10, <1>11, <1>12, <1>13, <1>14, <1>15, <1>16, <1>17
  DEF Next, Loop, User

-----------------------------------------------------------------------------
(* The theorems.                                                           *)

\* What holds for any interval, poll, multiple and length of a capture.
DInv == Types /\ Scopes /\ InTime /\ Heeded

LEMMA DInvHolds == Spec => []DInv
<1>1. Init => DInv
  <2> SUFFICES ASSUME Init PROVE DInv
    OBVIOUS
  <2>1. Types
    BY TypesInit
  <2>2. Scopes
    BY DEF Init, Scopes
  <2>3. ~active /\ unheeded = Old
    BY DEF Init
  <2>4. InTime /\ Heeded
    BY <2>3 DEF InTime, Heeded
  <2> QED BY <2>1, <2>2, <2>4 DEF DInv
<1>2. DInv /\ [Next]_vars => DInv'
  BY TypesNext, ScopesNext, InTimeNext, HeededNext DEF DInv
<1> QED BY <1>1, <1>2, PTL DEF Spec

\* While the agent is active, no more than the interval and one capture passes
\* between captures: cmdRun's wake, capture and closing cases, commands.go.
THEOREM CadenceHolds == Spec => []Cadence
<1>1. DInv => Cadence
  BY Bounds DEF DInv, Types, InTime, Cadence
<1> QED BY <1>1, DInvHolds, PTL

\* "A returning user is picked up within poll rather than within interval": the
\* poll, or the closing capture that is still under way, bounds how long a
\* heartbeat goes unheeded.
THEOREM WakesPromptly == Spec => []WakePrompt
<1>1. ASSUME DInv PROVE WakePrompt
  <2>1. Poll = Min2(pollSeconds, Interval)
    BY DaemonAssumption, <1>1 DEF Poll, Min2, DInv, Types
  <2>2. unheeded # Old => unheeded <= Poll \/ unheeded <= MaxBusy
    <3>1. unheeded # Old => loop \in { "select", "capture" }
      BY <1>1 DEF DInv, Types, Heeded
    <3> QED BY <1>1, <3>1, Bounds DEF DInv, Types, Heeded
  <2> QED BY <2>1, <2>2 DEF WakePrompt
<1> QED BY <1>1, DInvHolds, PTL

\* With captures shorter than the interval, no tick waits for long.
LEMMA PunctualHolds ==
  ASSUME MaxBusy < Interval
  PROVE  Spec => [](DInv /\ Punctual /\ Apart)
<1>1. Init => Punctual /\ Apart
  BY Bounds DEF Init, Punctual, Apart
<1>2. DInv /\ Punctual /\ Apart /\ [Next]_vars => Punctual' /\ Apart'
  BY PunctualNext, ApartNext DEF DInv
<1> QED BY <1>1, <1>2, DInvHolds, PTL DEF Spec

\* The variables of the loop stay in their ranges; a waiting tick is at most two
\* captures late.
THEOREM DaemonTypeCorrect ==
  ASSUME MaxBusy < Interval
  PROVE  Spec => []TypeOK
<1>1. ASSUME DInv, Punctual PROVE TypeOK
  <2>1. pollLate \in 0 .. 2 * MaxBusy /\ capLate \in 0 .. 2 * MaxBusy
    <3>1. loop \in { "stopped", "select", "capture", "wake" } /\ busy \in 0 .. MaxBusy
          /\ pollLate \in Nat /\ capLate \in Nat /\ active \in BOOLEAN
      BY <1>1 DEF DInv, Types
    <3>2. pollLate <= MaxBusy
      BY <1>1, <3>1, Bounds DEF Punctual
    <3>3. capLate <= MaxBusy + MaxBusy
      BY <1>1, <3>1, Bounds DEF Punctual
    <3> QED BY <3>1, <3>2, <3>3, Bounds
  <2> QED BY <1>1, <2>1 DEF DInv, Types, Scopes, TypeOK
<1> QED BY <1>1, PunctualHolds, PTL

\* Within a session a periodic capture comes an interval or more after the
\* capture before it: the wake's captureT.Reset, and the ticker's grid.
THEOREM CapturesAreSpaced ==
  ASSUME MaxBusy < Interval
  PROVE  Spec => Spaced
<1>1. ASSUME DInv, Apart, CaptureTick, active
      PROVE  sinceRound >= Min2(Interval, Old)
  BY <1>1, Bounds DEF DInv, Types, Apart, CaptureTick, Min2
<1>2. DInv /\ Apart => [CaptureTick /\ active => sinceRound >= Min2(Interval, Old)]_vars
  BY <1>1
<1> QED BY <1>2, PunctualHolds, PTL DEF Spec, Spaced

\* While dormant, nothing uncaptured is older than the poll or the closing
\* capture that holds the poll up, and the next poll sees it: activeProjects'
\* cut-off reaches back past every capture that could have missed an edit.
THEOREM NothingIsUnseen ==
  ASSUME MaxBusy < Interval, IdleMultiplier >= 2
  PROVE  Spec => []NothingUnseen
<1>1. Init => Tracked
  BY DEF Init, Tracked
<1>2. DInv /\ Punctual /\ Tracked /\ [Next]_vars => Tracked'
  BY TrackedNext DEF DInv
<1>3. ASSUME DInv, Tracked PROVE NothingUnseen
  <2>1. ASSUME loop = "select", ~active, NEW r \in dirty
        PROVE  logAge[r] <= Poll \/ logAge[r] <= MaxBusy
    <3>1. unheeded # Old /\ logAge[r] <= unheeded
      BY <1>3, <2>1 DEF Tracked
    <3>2. unheeded <= Poll \/ unheeded <= MaxBusy
      BY <1>3, <2>1, <3>1 DEF DInv, Heeded
    <3>3. logAge[r] \in Int /\ unheeded \in Int /\ Poll \in Int
      BY <1>3, <2>1, Bounds, PollBound DEF DInv, Types, Scopes
    <3> QED BY <3>1, <3>2, <3>3, Bounds
  <2> QED BY <2>1 DEF NothingUnseen
<1> QED BY <1>1, <1>2, <1>3, PunctualHolds, PTL DEF Spec
=============================================================================
