---------------------------- MODULE GitReadProofs ----------------------------
(***************************************************************************)
(* Proofs about reading a repository's state: for every timeout, whether   *)
(* or not git leaves processes behind, for every history of commits and    *)
(* every working tree.                                                     *)
(***************************************************************************)
EXTENDS GitRead, FiniteSetTheorems, TLAPS

-----------------------------------------------------------------------------
(* The inductive invariant.                                                *)

Counts == [ Dirty: BOOLEAN, Staged: Nat, Modified: Nat, Untracked: Nat, Conflicted: Nat,
            Insertions: Nat, Deletions: Nat, Ahead: Nat, Behind: Nat ]

Types ==
  /\ at \in 1 .. Done
  /\ caller \in { "select", "wait" } /\ worker \in { "starting", "reading", "done" }
  /\ git \in { "none", "running", "exited" } /\ outcome \in { "ok", "1", "other" }
  /\ held \in BOOLEAN /\ timer \in 0 .. Timeout /\ spent \in 0 .. Len(Calls) * Timeout + 1
  /\ head \in 0 .. MaxCommits /\ count \in 0 .. MaxCommits /\ last \in 0 .. MaxCommits
  /\ saw \in 0 .. MaxCommits /\ base \in 0 .. MaxCommits /\ repo \in 0 .. MaxCommits
  /\ filtered \in BOOLEAN
  /\ scopes \in ScopeSets /\ listed \in ScopeSets \cup { {} } /\ added \subseteq { "local" }
  /\ work \in WorkTrees /\ counts \in Counts

\* A call: between two Reads nothing runs, git runs or has run once Output
\* reads, and never past the timeout; the clock does not start before git does,
\* and before git has exited there is no outcome.
CallInv ==
  /\ at = Done => worker = "starting"
  /\ worker = "starting" => git = "none" /\ caller = "select" /\ timer = 0
  /\ worker = "reading" => git # "none"
  /\ caller = "wait" => git # "running"
  /\ git # "exited" => outcome = "other"

\* Each call before this one took at most its timeout, and this one its timer.
TimeInv == at # Done => spent <= (at - 1) * Timeout + timer

\* A call that has asked has seen every driver of the repository's own that was
\* not set up since, and so has one made on the strength of its answer; exit
\* status 1 is an answer of that call alone.
FilterInv ==
  /\ outcome = "1" => at = 3 /\ listed = {}
  /\ at = 3 /\ outcome # "other" => Own(scopes) \subseteq Own(listed) \cup added
  /\ at \in { 4, 5 } => Own(scopes) \subseteq added

\* What was gathered is ordered, none of it newer than the repository nor than
\* what the call under way saw; a call yet to return has left nothing.
OrderInv ==
  /\ { base, head, count, last, saw } \subseteq 0 .. repo
  /\ outcome = "ok" => { base, head, count, last } \subseteq 0 .. saw
  /\ at = 1 => head = 0
  /\ at \in 1 .. 7 => count = 0
  /\ at \in 1 .. 8 => last = 0
  /\ at \in { 5, 7, 8 } => head # 0
  /\ NothingStale

GInv == Types /\ CallInv /\ TimeInv /\ FilterInv /\ OrderInv /\ CountsTrue

-----------------------------------------------------------------------------
(* The table of calls, and which call follows which.                       *)

LEMMA CallNames ==
  /\ Done = 10 /\ Len(Calls) = 9
  /\ \A i \in 1 .. 9 :
       /\ Calls[i] = "head" <=> i = 1
       /\ Calls[i] = "filters" <=> i = 3
       /\ Calls[i] = "status" <=> i = 4
       /\ Calls[i] = "diff" <=> i = 5
       /\ Calls[i] = "upstream" <=> i = 6
       /\ Calls[i] = "count" <=> i = 7
       /\ Calls[i] = "log" <=> i = 8
BY DEF Done, Calls

\* What a returning call assigns, and where Read goes from it: no call before
\* the filter check is ever left out, and one that would run a filter, or has
\* no commit to count from, is.
LEMMA ReturnFacts ==
  ASSUME at \in 1 .. Done, Return
  PROVE  /\ at \in 1 .. 9 /\ at' \in at + 1 .. 10 /\ worker = "done"
         /\ at \in { 1, 2 } => at' = at + 1
         /\ head' = IF at = 1 THEN IF outcome = "ok" THEN saw ELSE 0 ELSE head
         /\ count' = IF at = 7 THEN IF outcome = "ok" THEN saw ELSE 0 ELSE count
         /\ last' = IF at = 8 THEN IF outcome = "ok" THEN saw ELSE 0 ELSE last
         /\ filtered' = IF at = 3 THEN Verdict ELSE filtered
         /\ at' \in { 4, 5 } => ~filtered'
         /\ at' \in { 5, 7, 8 } => head' # 0
<1>1. at \in 1 .. 9 /\ at' \in at + 1 .. 10 /\ worker = "done"
  BY CallNames DEF Return
<1>2. \A i \in 1 .. 9 : \A h, f :
        /\ i \in 1 .. 3 => Needed(i, h, f)
        /\ Needed(i, h, f) /\ i \in { 4, 5 } => ~f
        /\ Needed(i, h, f) /\ i \in { 5, 7, 8 } => h # 0
  <2> TAKE i \in 1 .. 9
  <2> TAKE h, f
  <2> QED BY CallNames DEF Needed
<1>3. at' # 10 => Needed(at', head', filtered')
  BY CallNames DEF Return
<1>4. \A i \in at + 1 .. at' - 1 : ~Needed(i, head', filtered')
  BY DEF Return
<1>5. at' \in { 4, 5 } => ~filtered'
  BY <1>1, <1>2, <1>3
<1>6. at' \in { 5, 7, 8 } => head' # 0
  BY <1>1, <1>2, <1>3
<1>7. at \in { 1, 2 } => at' = at + 1
  <2> SUFFICES ASSUME at \in { 1, 2 }, at' # at + 1
               PROVE  FALSE
    OBVIOUS
  <2>1. at \in Int /\ at' \in Int /\ at + 1 <= at'
    BY <1>1
  <2>2. at + 1 \in at + 1 .. at' - 1
    <3>1. ~(at + 1 >= at')
      BY <2>1
    <3>2. \A a, b \in Int : ~(a + 1 >= b) => a + 1 \in a + 1 .. b - 1
      OBVIOUS
    <3> QED BY <2>1, <3>1, <3>2, Zenon
  <2>3. at + 1 \in 1 .. 3 /\ at + 1 \in 1 .. 9
    OBVIOUS
  <2> QED BY <1>2, <1>4, <2>2, <2>3, Zenon
<1>8. /\ head' = IF at = 1 THEN IF outcome = "ok" THEN saw ELSE 0 ELSE head
      /\ count' = IF at = 7 THEN IF outcome = "ok" THEN saw ELSE 0 ELSE count
      /\ last' = IF at = 8 THEN IF outcome = "ok" THEN saw ELSE 0 ELSE last
  BY <1>1, CallNames DEF Return
<1>9. filtered' = IF at = 3 THEN Verdict ELSE filtered
  BY <1>1, CallNames DEF Return
<1> QED BY <1>1, <1>5, <1>6, <1>7, <1>8, <1>9

-----------------------------------------------------------------------------
(* Types and calls.                                                        *)

\* The steps that neither begin nor end a call, by what they leave alone.
Inside == Spawn \/ SpawnFails \/ GitExits \/ LeaveHelper \/ HelperEnds
            \/ OutputReturns \/ Expire \/ Commit \/ Configure \/ Tick

LEMMA NextSplits == Next <=> Inside \/ BeginRead \/ Return
BY Zenon DEF Next, Agent, Inside

LEMMA InsideFrame ==
  ASSUME Inside
  PROVE  UNCHANGED << at, gathered, work, base >>
<1>1. CASE Spawn BY <1>1 DEF Spawn
<1>2. CASE SpawnFails BY <1>2 DEF SpawnFails
<1>3. CASE GitExits BY <1>3 DEF GitExits
<1>4. CASE LeaveHelper BY <1>4 DEF LeaveHelper
<1>5. CASE HelperEnds BY <1>5 DEF HelperEnds
<1>6. CASE OutputReturns BY <1>6 DEF OutputReturns
<1>7. CASE Expire BY <1>7 DEF Expire
<1>8. CASE Commit BY <1>8 DEF Commit
<1>9. CASE Tick BY <1>9 DEF Tick
<1>10. CASE Configure BY <1>10 DEF Configure
<1> QED BY <1>1, <1>2, <1>3, <1>4, <1>5, <1>6, <1>7, <1>8, <1>9, <1>10 DEF Inside

\* The commit a call reports is one the repository has had.
LEMMA TypesStep ==
  ASSUME Types, CallInv, OrderInv, Next, counts' \in Counts
  PROVE  Types'
<1> USE GitAssumption
<1>1. Len(Calls) * Timeout + 1 = 9 * Timeout + 1 /\ Done = 10
  BY CallNames
<1>2. CASE Inside
  <2>1. /\ at' \in 1 .. Done /\ filtered' \in BOOLEAN
        /\ work' \in WorkTrees
        /\ head' \in 0 .. MaxCommits /\ count' \in 0 .. MaxCommits
        /\ last' \in 0 .. MaxCommits /\ base' \in 0 .. MaxCommits
    BY <1>2, InsideFrame DEF Types, gathered
  <2>2. /\ caller' \in { "select", "wait" } /\ worker' \in { "starting", "reading", "done" }
        /\ git' \in { "none", "running", "exited" } /\ outcome' \in { "ok", "1", "other" }
        /\ held' \in BOOLEAN /\ timer' \in 0 .. Timeout
        /\ spent' \in 0 .. Len(Calls) * Timeout + 1
        /\ saw' \in 0 .. MaxCommits /\ repo' \in 0 .. MaxCommits
        /\ scopes' \in ScopeSets /\ listed' \in ScopeSets \cup { {} }
        /\ added' \subseteq { "local" }
    <3>1. CASE Spawn BY <3>1 DEF Spawn, Types
    <3>2. CASE SpawnFails BY <3>2 DEF SpawnFails, Types
    <3>3. CASE GitExits
      <4>1. outcome' \in { "ok", "1", "other" }
        BY <3>3 DEF GitExits
      <4>2. listed' \in ScopeSets \cup { {} } /\ added' \subseteq { "local" }
        <5>1. CASE Calls[at] = "filters"
          <6>1. listed' = scopes /\ added' = {}
            BY <3>3, <5>1 DEF GitExits
          <6> QED BY <6>1 DEF Types
        <5>2. CASE Calls[at] # "filters"
          <6>1. UNCHANGED << listed, added >>
            BY <3>3, <5>2 DEF GitExits
          <6> QED BY <6>1 DEF Types
        <5> QED BY <5>1, <5>2
      <4> QED BY <3>3, <4>1, <4>2 DEF GitExits, Types
    <3>4. CASE LeaveHelper BY <3>4 DEF LeaveHelper, Types
    <3>5. CASE HelperEnds BY <3>5 DEF HelperEnds, Types
    <3>6. CASE OutputReturns BY <3>6 DEF OutputReturns, Types
    <3>7. CASE Expire BY <3>7 DEF Expire, Types
    <3>8. CASE Commit BY <3>8 DEF Commit, Types, call
    <3>9. CASE Tick
      <4>1. spent' \in 0 .. Len(Calls) * Timeout + 1
        BY <1>1, <3>9 DEF Tick, Types
      <4>2. timer' \in 0 .. Timeout
        BY <3>9 DEF Tick, Types
      <4> QED BY <3>9, <4>1, <4>2 DEF Tick, Types
    <3>10. CASE Configure
      <4>1. scopes' \in ScopeSets /\ Own(scopes') \subseteq { "local" }
        <5>1. scopes' \in ScopeSets
          BY <3>10 DEF Configure
        <5>2. scopes' \subseteq { "system", "global", "local" }
          BY <5>1
        <5> QED BY <5>1, <5>2 DEF Own
      <4>2. added' \subseteq { "local" }
        BY <3>10, <4>1 DEF Configure, Types, Own
      <4> QED BY <3>10, <4>1, <4>2 DEF Configure, Types, call
    <3> QED BY <1>2, <3>1, <3>2, <3>3, <3>4, <3>5, <3>6, <3>7, <3>8, <3>9, <3>10 DEF Inside
  <2> QED BY <2>1, <2>2 DEF Types
<1>3. CASE BeginRead
  <2>1. /\ at' = 1 /\ spent' = 0 /\ base' = repo /\ head' = 0 /\ count' = 0 /\ last' = 0
        /\ filtered' = FALSE /\ UNCHANGED << repo, scopes, added, work >>
        /\ UNCHANGED << caller, worker, git, outcome, held, timer, saw, listed >>
    BY <1>3 DEF BeginRead, call
  <2>2. 0 \in 0 .. MaxCommits /\ 0 \in 0 .. Len(Calls) * Timeout + 1 /\ 1 \in 1 .. Done
    BY <1>1
  <2> QED BY <2>1, <2>2 DEF Types
<1>4. CASE Return
  <2>1. /\ at' \in 1 .. Done
        /\ head' \in 0 .. MaxCommits /\ count' \in 0 .. MaxCommits /\ last' \in 0 .. MaxCommits
    <3>1. /\ at \in 1 .. Done /\ saw \in 0 .. MaxCommits /\ head \in 0 .. MaxCommits
          /\ count \in 0 .. MaxCommits /\ last \in 0 .. MaxCommits /\ 0 \in 0 .. MaxCommits
      BY DEF Types
    <3> QED BY <1>1, <1>4, <3>1, ReturnFacts
  <2>2. filtered' \in BOOLEAN
    <3>1. filtered' = Verdict \/ filtered' = filtered
      BY <1>4, ReturnFacts DEF Types
    <3>2. Verdict \in BOOLEAN
      BY DEF Verdict
    <3> QED BY <3>1, <3>2 DEF Types
  <2>3. /\ caller' = "select" /\ worker' = "starting" /\ git' = "none"
        /\ outcome' = "other" /\ held' = FALSE /\ timer' = 0 /\ saw' = 0
        /\ listed' = {} /\ UNCHANGED << repo, scopes, added, work, base, spent >>
    BY <1>4 DEF Return, Fresh
  <2>4. 0 \in 0 .. MaxCommits /\ 0 \in 0 .. Timeout
    OBVIOUS
  <2> QED BY <2>1, <2>2, <2>3, <2>4 DEF Types
<1> QED BY <1>2, <1>3, <1>4, NextSplits

LEMMA CallStep ==
  ASSUME Types, CallInv, Next
  PROVE  CallInv'
<1>1. CASE Inside
  <2>1. at' = at
    BY <1>1, InsideFrame
  <2>2. CASE Spawn BY <2>2 DEF Spawn, CallInv
  <2>3. CASE SpawnFails BY <2>3 DEF SpawnFails, CallInv
  <2>4. CASE GitExits BY <2>4 DEF GitExits, CallInv
  <2>5. CASE LeaveHelper BY <2>5 DEF LeaveHelper, CallInv
  <2>6. CASE HelperEnds BY <2>6 DEF HelperEnds, CallInv
  <2>7. CASE OutputReturns BY <2>7 DEF OutputReturns, CallInv
  <2>8. CASE Expire BY <2>8, GitAssumption DEF Expire, CallInv
  <2>9. CASE Commit BY <2>9 DEF Commit, CallInv, call
  <2>10. CASE Tick BY <2>10 DEF Tick, CallInv
  <2>11. CASE Configure BY <2>11 DEF Configure, CallInv, call
  <2> QED BY <1>1, <2>2, <2>3, <2>4, <2>5, <2>6, <2>7, <2>8, <2>9, <2>10, <2>11 DEF Inside
<1>2. CASE BeginRead
  <2>1. at' # Done /\ UNCHANGED << caller, worker, git, outcome, timer >>
    BY <1>2, CallNames DEF BeginRead, call
  <2> QED BY <2>1 DEF CallInv
<1>3. CASE Return BY <1>3 DEF Return, Fresh, CallInv
<1> QED BY <1>1, <1>2, <1>3, NextSplits

-----------------------------------------------------------------------------
(* Time.                                                                   *)

\* A later call may begin that much later.
LEMMA CallsTakeTheirTime ==
  ASSUME NEW i \in 1 .. 9, NEW j \in i + 1 .. 10
  PROVE  (i - 1) * Timeout + Timeout <= (j - 1) * Timeout
<1> USE GitAssumption
<1>1. PICK d \in Nat : j = i + 1 + d
  <2>1. j - (i + 1) \in Nat /\ j = i + 1 + (j - (i + 1))
    OBVIOUS
  <2> QED BY <2>1
<1>2. (j - 1) * Timeout = (i - 1) * Timeout + Timeout + d * Timeout
  BY <1>1
<1>3. d * Timeout \in Nat /\ (i - 1) * Timeout \in Int
  BY <1>1
<1> QED BY <1>2, <1>3

LEMMA TimeStep ==
  ASSUME Types, CallInv, TimeInv, Next
  PROVE  TimeInv'
<1> USE GitAssumption
<1>1. Done = 10 /\ at \in 1 .. 10 /\ timer \in 0 .. Timeout /\ spent \in Nat
  BY CallNames DEF Types
<1>2. CASE Tick
  <2>1. at' = at /\ at # Done
    BY <1>2 DEF Tick
  <2>2. CASE timer < Timeout
    <3>1. timer' = timer + 1 /\ spent' <= spent + 1 /\ spent' \in Nat
      BY <1>1, <1>2, <2>2 DEF Tick
    <3>2. spent <= (at - 1) * Timeout + timer
      BY <2>1 DEF TimeInv
    <3>3. (at - 1) * Timeout \in Int
      BY <1>1
    <3> DEFINE spentBefore == (at - 1) * Timeout
    <3> HIDE DEF spentBefore
    <3>4. spent' <= spentBefore + timer'
      BY <1>1, <3>1, <3>2, <3>3 DEF spentBefore
    <3> QED BY <2>1, <3>4 DEF TimeInv, spentBefore
  <2>3. CASE timer = Timeout
    <3>1. caller = "wait"
      BY <1>1, <1>2, <2>3 DEF Tick, Types
    <3>2. held /\ git = "exited"
      BY <1>2, <3>1 DEF Tick, CallInv, Types
    <3>3. UNCHANGED << spent, timer >>
      BY <1>1, <1>2, <2>3, <3>2 DEF Tick
    <3> QED BY <2>1, <3>3 DEF TimeInv
  <2> QED BY <1>1, <2>2, <2>3
<1>3. CASE Inside /\ ~Tick
  <2>1. UNCHANGED << at, timer, spent >>
    BY <1>3 DEF Inside, Spawn, SpawnFails, GitExits, LeaveHelper, HelperEnds,
                OutputReturns, Expire, Commit, Configure, call
  <2> QED BY <2>1 DEF TimeInv
<1>4. CASE BeginRead
  <2>1. at' = 1 /\ spent' = 0 /\ timer' = timer /\ at = Done
    BY <1>4 DEF BeginRead, call
  <2>2. (1 - 1) * Timeout = 0
    OBVIOUS
  <2> QED BY <1>1, <2>1, <2>2 DEF TimeInv
<1>5. CASE Return
  <2>1. at \in 1 .. 9 /\ at' \in at + 1 .. 10
    BY <1>1, <1>5, ReturnFacts
  <2>4. timer' = 0 /\ spent' = spent
    BY <1>5 DEF Return, Fresh
  <2>2. spent <= (at - 1) * Timeout + Timeout
    <3>1. (at - 1) * Timeout \in Int
      BY <1>1
    <3>2. spent <= (at - 1) * Timeout + timer
      BY <1>1, <2>1 DEF TimeInv
    <3> DEFINE spentBefore == (at - 1) * Timeout
    <3> HIDE DEF spentBefore
    <3>3. spentBefore + timer <= spentBefore + Timeout
      BY <1>1, <3>1 DEF spentBefore
    <3> QED BY <1>1, <3>1, <3>2, <3>3 DEF spentBefore
  <2>3. (at - 1) * Timeout + Timeout <= (at' - 1) * Timeout
    BY <2>1, CallsTakeTheirTime
  <2>5. spent' <= (at' - 1) * Timeout + timer'
    <3> DEFINE s1 == (at - 1) * Timeout
               s2 == (at' - 1) * Timeout
    <3>1. s1 \in Int /\ s2 \in Int
      BY <2>1
    <3>2. spent <= s1 + Timeout /\ s1 + Timeout <= s2
      BY <2>2, <2>3
    <3> HIDE DEF s1, s2
    <3>3. spent' <= s2 + timer'
      BY <1>1, <2>4, <3>1, <3>2
    <3> QED BY <3>3 DEF s2
  <2> QED BY <2>5 DEF TimeInv
<1> QED BY <1>2, <1>3, <1>4, <1>5, NextSplits

-----------------------------------------------------------------------------
(* The filter check.                                                       *)

LEMMA FilterStep ==
  ASSUME Types, CallInv, FilterInv, Next
  PROVE  FilterInv'
<1>1. Done = 10 /\ at \in 1 .. 10
  BY CallNames DEF Types
<1>2. CASE GitExits
  <2>1. at \in 1 .. 9 /\ at' = at /\ scopes' = scopes
    BY <1>1, <1>2 DEF GitExits, CallInv
  <2>2. CASE at = 3
    <3>1. Calls[at] = "filters"
      BY <2>2, CallNames
    <3>2. listed' = scopes /\ (outcome' = "1" => scopes = {})
      BY <1>2, <3>1 DEF GitExits
    <3> QED BY <2>1, <2>2, <3>2 DEF FilterInv
  <2>3. CASE at # 3
    <3>1. Calls[at] # "filters"
      BY <2>1, <2>3, CallNames
    <3>2. UNCHANGED << listed, added >> /\ outcome' # "1"
      BY <1>2, <3>1 DEF GitExits
    <3> QED BY <2>1, <2>3, <3>2 DEF FilterInv
  <2> QED BY <2>2, <2>3
<1>3. CASE Configure
  <2>1. UNCHANGED << at, outcome, listed >>
    BY <1>3 DEF Configure, call
  <2>2. Own(scopes') \subseteq (Own(scopes) \cap scopes') \cup Own(scopes' \ scopes)
    BY DEF Own
  <2>3. added' = (added \cap scopes') \cup Own(scopes' \ scopes)
    BY <1>3 DEF Configure
  <2>4. \A S : Own(scopes) \subseteq S \cup added => Own(scopes') \subseteq S \cup added'
    BY <2>2, <2>3
  <2>5. Own(scopes) \subseteq added => Own(scopes') \subseteq added'
    BY <2>2, <2>3
  <2> QED BY <2>1, <2>4, <2>5 DEF FilterInv
<1>4. CASE Inside /\ ~GitExits /\ ~Configure
  <2>1. UNCHANGED << at, outcome, scopes, listed, added >>
    BY <1>4 DEF Inside, Spawn, SpawnFails, LeaveHelper, HelperEnds,
                OutputReturns, Expire, Commit, Tick, call
  <2> QED BY <2>1 DEF FilterInv
<1>5. CASE BeginRead
  <2>1. at' = 1 /\ UNCHANGED << outcome, scopes, added >> /\ outcome # "1"
    BY <1>1, <1>5 DEF BeginRead, call, FilterInv
  <2> QED BY <2>1 DEF FilterInv
<1>6. CASE Return
  <2>1. outcome' = "other" /\ UNCHANGED << scopes, added >>
    BY <1>6 DEF Return, Fresh
  <2>2. /\ at \in 1 .. 9 /\ at' \in at + 1 .. 10
        /\ at \in { 1, 2 } => at' = at + 1
        /\ filtered' = IF at = 3 THEN Verdict ELSE filtered
        /\ at' \in { 4, 5 } => ~filtered'
    BY <1>1, <1>6, ReturnFacts
  <2>3. ASSUME at' \in { 4, 5 } PROVE Own(scopes) \subseteq added
    <3>1. at \in { 3, 4 }
      BY <2>2, <2>3
    <3>2. CASE at = 3
      <4>1. ~Verdict
        BY <2>2, <2>3, <3>2
      <4>2. Own(listed) = {} /\ outcome # "other"
        <5>1. CASE outcome = "ok" BY <4>1, <5>1 DEF Verdict
        <5>2. CASE outcome = "1" BY <5>2 DEF FilterInv, Own
        <5>3. CASE outcome = "other" BY <4>1, <5>3 DEF Verdict
        <5> QED BY <5>1, <5>2, <5>3 DEF Types
      <4> QED BY <3>2, <4>2 DEF FilterInv
    <3>3. CASE at = 4 BY <3>3 DEF FilterInv
    <3> QED BY <3>1, <3>2, <3>3
  <2> QED BY <2>1, <2>3 DEF FilterInv
<1> QED BY <1>2, <1>3, <1>4, <1>5, <1>6, NextSplits

-----------------------------------------------------------------------------
(* The order of what the calls saw.                                        *)

LEMMA OrderStep ==
  ASSUME Types, CallInv, OrderInv, Next
  PROVE  OrderInv'
<1>1. /\ Done = 10 /\ at \in 1 .. 10
      /\ head \in Nat /\ count \in Nat /\ last \in Nat /\ base \in Nat /\ saw \in Nat
      /\ repo \in Nat
  BY CallNames, GitAssumption DEF Types
<1>2. /\ base <= repo /\ head <= repo /\ count <= repo /\ last <= repo /\ saw <= repo
      /\ outcome = "ok" => base <= saw /\ head <= saw /\ count <= saw /\ last <= saw
  BY <1>1 DEF OrderInv
<1>3. CASE Inside
  <2>1. UNCHANGED << at, head, count, last, base >>
    BY <1>3, InsideFrame DEF gathered
  <2>2. /\ repo' \in Nat /\ saw' \in Nat /\ repo <= repo' /\ saw' <= repo'
        /\ outcome' = "ok" => base <= saw' /\ head <= saw' /\ count <= saw' /\ last <= saw'
    <3>1. CASE GitExits
      <4>1. repo' = repo /\ saw' = repo
        BY <3>1 DEF GitExits
      <4> QED BY <1>1, <1>2, <4>1
    <3>2. CASE Commit
      <4>1. repo' = repo + 1 /\ UNCHANGED << outcome, saw >>
        BY <3>2 DEF Commit, call
      <4> QED BY <1>1, <1>2, <4>1
    <3>3. CASE ~GitExits /\ ~Commit
      <4>1. UNCHANGED << repo, outcome, saw >>
        BY <1>3, <3>3 DEF Inside, Spawn, SpawnFails, LeaveHelper, HelperEnds,
                          OutputReturns, Expire, Configure, Tick, call
      <4> QED BY <1>1, <1>2, <4>1
    <3> QED BY <3>1, <3>2, <3>3
  <2>3. { base, head, count, last, saw' } \subseteq 0 .. repo'
    BY <1>1, <1>2, <2>2
  <2>4. outcome' = "ok" => { base, head, count, last } \subseteq 0 .. saw'
    BY <1>1, <2>2
  <2> QED BY <2>1, <2>3, <2>4 DEF OrderInv, NothingStale
<1>4. CASE BeginRead
  <2>1. /\ at' = 1 /\ base' = repo /\ head' = 0 /\ count' = 0 /\ last' = 0
        /\ UNCHANGED << repo, saw, outcome >> /\ outcome = "other"
    BY <1>4 DEF BeginRead, call, CallInv
  <2> QED BY <1>1, <1>2, <2>1 DEF OrderInv, NothingStale
<1>5. CASE Return
  <2>1. /\ at \in 1 .. 9 /\ at' \in at + 1 .. 10
        /\ head' = IF at = 1 THEN IF outcome = "ok" THEN saw ELSE 0 ELSE head
        /\ count' = IF at = 7 THEN IF outcome = "ok" THEN saw ELSE 0 ELSE count
        /\ last' = IF at = 8 THEN IF outcome = "ok" THEN saw ELSE 0 ELSE last
        /\ at' \in { 5, 7, 8 } => head' # 0
    BY <1>1, <1>5, ReturnFacts
  <2>2. outcome' = "other" /\ saw' = 0 /\ repo' = repo /\ base' = base
    BY <1>5 DEF Return, Fresh
  <2>3. { base, head', count', last', saw' } \subseteq 0 .. repo
    BY <1>1, <1>2, <2>1, <2>2
  <2>4. (at' = 1 => head' = 0) /\ (at' \in 1 .. 7 => count' = 0) /\ (at' \in 1 .. 8 => last' = 0)
    BY <2>1 DEF OrderInv
  <2>5. NothingStale'
    <3>1. CASE at = 1
      <4>1. count' = 0 /\ last' = 0 /\ (head' = 0 \/ (head' = saw /\ outcome = "ok"))
        BY <2>1, <3>1 DEF OrderInv
      <4> QED BY <1>1, <1>2, <2>2, <4>1 DEF NothingStale
    <3>2. CASE at = 7
      <4>1. /\ head' = head /\ last' = 0 /\ head # 0
            /\ count' = 0 \/ (count' = saw /\ outcome = "ok")
        BY <2>1, <3>2 DEF OrderInv
      <4> QED BY <1>1, <1>2, <2>2, <4>1 DEF NothingStale, OrderInv
    <3>3. CASE at = 8
      <4>1. /\ head' = head /\ count' = count /\ head # 0
            /\ last' = 0 \/ (last' = saw /\ outcome = "ok")
        BY <2>1, <3>3 DEF OrderInv
      <4> QED BY <1>1, <1>2, <2>2, <4>1 DEF NothingStale, OrderInv
    <3>4. CASE at \notin { 1, 7, 8 }
      <4>1. UNCHANGED << head, count, last, base >>
        BY <2>1, <2>2, <3>4
      <4> QED BY <4>1 DEF OrderInv, NothingStale
    <3> QED BY <3>1, <3>2, <3>3, <3>4
  <2> QED BY <2>1, <2>2, <2>3, <2>4, <2>5 DEF OrderInv
<1> QED BY <1>3, <1>4, <1>5, NextSplits

-----------------------------------------------------------------------------
(* The counts.                                                             *)

\* The three kinds of codes by their letters.
LEMMA CodeLetters ==
  /\ \A c \in Tracked : /\ c[1] \in { " ", "M", "T", "A", "D", "R", "C" }
                        /\ c[2] \in { " ", "M", "T", "D" }
                        /\ ~(c[1] = "D" /\ c[2] = "D")
  /\ \A c \in Unmerged : c[1] = "U" \/ c[2] = "U" \/ (c[1] = c[2] /\ c[1] \in { "A", "D" })
  /\ \A c \in Unmerged : c[1] # "?"
  /\ \A c \in Untracked : c[1] = "?" /\ c[2] = "?"
<1>1. ASSUME NEW c \in Tracked
      PROVE  /\ c[1] \in { " ", "M", "T", "A", "D", "R", "C" }
             /\ c[2] \in { " ", "M", "T", "D" }
             /\ ~(c[1] = "D" /\ c[2] = "D")
  <2>1. c \in { " ", "M", "T", "A", "D", "R", "C" } \X { " ", "M", "T", "D" }
        /\ c # << "D", "D" >>
    BY DEF Tracked
  <2>2. c = << c[1], c[2] >>
    <3>1. \A A, B : \A p \in A \X B : p = << p[1], p[2] >>
      OBVIOUS
    <3> QED BY <2>1, <3>1, Zenon
  <2>3. ~(c[1] = "D" /\ c[2] = "D")
    BY <2>1, <2>2, Zenon
  <2> QED BY <2>1, <2>3
<1>2. \A c \in Unmerged : c[1] = "U" \/ c[2] = "U" \/ (c[1] = c[2] /\ c[1] \in { "A", "D" })
  BY DEF Unmerged
<1>3. \A c \in Unmerged : c[1] # "?"
  BY DEF Unmerged
<1>4. \A c \in Untracked : c[1] = "?" /\ c[2] = "?"
  BY DEF Untracked
<1> QED BY <1>1, <1>2, <1>3, <1>4

\* The agent's reading of a status code is git's table of them.
LEMMA TalliedIsTable ==
  ASSUME NEW c \in Codes
  PROVE  /\ "Untracked" \in Tallied(c[1], c[2]) <=> c \in Untracked
         /\ "Conflicted" \in Tallied(c[1], c[2]) <=> c \in Unmerged
         /\ "Staged" \in Tallied(c[1], c[2]) <=> c \in { d \in Tracked : d[1] # " " }
         /\ "Modified" \in Tallied(c[1], c[2]) <=> c \in { d \in Tracked : d[2] # " " }
<1>1. CASE c \in Unmerged
  <2>1. c \notin Tracked /\ c \notin Untracked
    BY <1>1, CodeLetters
  <2>2. ~IsUntracked(c[1], c[2]) /\ IsConflict(c[1], c[2])
    BY <1>1, CodeLetters DEF IsUntracked, IsConflict
  <2> QED BY <1>1, <2>1, <2>2 DEF Tallied
<1>2. CASE c \in Untracked
  <2>1. c \notin Tracked /\ c \notin Unmerged
    BY <1>2, CodeLetters
  <2>2. IsUntracked(c[1], c[2])
    BY <1>2, CodeLetters DEF IsUntracked
  <2> QED BY <1>2, <2>1, <2>2 DEF Tallied
<1>3. CASE c \in Tracked
  <2>1. c \notin Unmerged /\ c \notin Untracked
    BY <1>3, CodeLetters
  <2>2. ~IsUntracked(c[1], c[2]) /\ ~IsConflict(c[1], c[2])
    BY <1>3, CodeLetters DEF IsUntracked, IsConflict
  <2> QED BY <1>3, <2>1, <2>2 DEF Tallied
<1> QED BY <1>1, <1>2, <1>3 DEF Codes

\* How many lines have a code in S.
Lines(S) == Cardinality({ i \in DOMAIN work.status : work.status[i] \in S })

LEMMA LinesOfStatus ==
  ASSUME work.status \in Seq(Codes), NEW s \in Counts
  PROVE  LET t == countStatus(s, work.status)
         IN  /\ t \in Counts
             /\ \A f \in { "Dirty", "Insertions", "Deletions", "Ahead", "Behind" } : t[f] = s[f]
             /\ t.Staged = Lines({ c \in Tracked : c[1] # " " })
             /\ t.Modified = Lines({ c \in Tracked : c[2] # " " })
             /\ t.Untracked = Lines(Untracked) /\ t.Conflicted = Lines(Unmerged)
<1> DEFINE out == work.status
           n(f) == Cardinality({ i \in DOMAIN out : f \in Tallied(out[i][1], out[i][2]) })
           t == countStatus(s, out)
<1>1. \A i \in DOMAIN out : out[i] \in Codes
  OBVIOUS
<1>2. /\ n("Untracked") = Lines(Untracked) /\ n("Conflicted") = Lines(Unmerged)
      /\ n("Staged") = Lines({ c \in Tracked : c[1] # " " })
      /\ n("Modified") = Lines({ c \in Tracked : c[2] # " " })
  BY <1>1, TalliedIsTable DEF Lines
<1>3. \A f : n(f) \in Nat
  <2>1. Len(out) \in Nat /\ DOMAIN out = 1 .. Len(out)
    OBVIOUS
  <2>2. IsFiniteSet(1 .. Len(out))
    BY <2>1, FS_Interval
  <2> QED BY <2>1, <2>2, FS_Subset, FS_CardinalityType
<1>4. t = [ s EXCEPT !.Untracked = n("Untracked"), !.Conflicted = n("Conflicted"),
                     !.Staged = n("Staged"), !.Modified = n("Modified") ]
  BY DEF countStatus
<1> HIDE DEF n, t
<1>5. /\ t.Untracked = n("Untracked") /\ t.Conflicted = n("Conflicted")
      /\ t.Staged = n("Staged") /\ t.Modified = n("Modified")
      /\ \A f \in { "Dirty", "Insertions", "Deletions", "Ahead", "Behind" } : t[f] = s[f]
  BY <1>4 DEF Counts
<1>6. t \in Counts
  BY <1>3, <1>4 DEF Counts
<1> QED BY <1>2, <1>5, <1>6 DEF t

\* A part that is left out counts zero.
LEMMA NumberOfShortstat ==
  ASSUME NEW files \in Nat, NEW ins \in Nat, NEW del \in Nat
  PROVE  /\ Number(Shortstat(files, ins, del), "insertion") = ins
         /\ Number(Shortstat(files, ins, del), "deletion") = del
<1> DEFINE out == Shortstat(files, ins, del)
           Optional(n, word) == IF n = 0 THEN {} ELSE { [ n |-> n, word |-> word ] }
<1>1. \A n, word :
        \/ CountOf(n, word) = << >> /\ Optional(n, word) = {}
        \/ /\ CountOf(n, word) = << [ n |-> n, word |-> word ] >>
           /\ Optional(n, word) = { [ n |-> n, word |-> word ] }
  BY Zenon DEF CountOf
<1>2. { out[i] : i \in DOMAIN out }
        = Optional(files, "file") \cup Optional(ins, "insertion") \cup Optional(del, "deletion")
  <2> DEFINE F == CountOf(files, "file")
             I == CountOf(ins, "insertion")
             D == CountOf(del, "deletion")
             Elements(s) == { s[i] : i \in DOMAIN s }
  <2>1. \A n, word : Elements(CountOf(n, word)) = Optional(n, word)
    BY <1>1
  <2>3. ASSUME NEW S, NEW s \in Seq(S), NEW t \in Seq(S)
        PROVE  Elements(s \o t) = Elements(s) \cup Elements(t)
    <3>1. \A x \in Elements(s) : x \in Elements(s \o t)
      OBVIOUS
    <3>2. ASSUME NEW j \in DOMAIN t
          PROVE  t[j] \in Elements(s \o t)
      <4>1. Len(s) + j \in DOMAIN (s \o t) /\ (s \o t)[Len(s) + j] = t[j]
        OBVIOUS
      <4> QED BY <4>1
    <3>3. ASSUME NEW i \in DOMAIN (s \o t)
          PROVE  (s \o t)[i] \in Elements(s) \cup Elements(t)
      <4>1. CASE i \in DOMAIN s BY <4>1
      <4>2. CASE i \notin DOMAIN s
        <5>1. i - Len(s) \in DOMAIN t /\ (s \o t)[i] = t[i - Len(s)]
          BY <4>2
        <5> QED BY <5>1
      <4> QED BY <4>1, <4>2
    <3> QED BY <3>1, <3>2, <3>3
  <2> DEFINE S == { [ n |-> files, word |-> "file" ], [ n |-> ins, word |-> "insertion" ],
                    [ n |-> del, word |-> "deletion" ] }
  <2>2. ASSUME NEW n, NEW word, NEW T, [ n |-> n, word |-> word ] \in T
        PROVE  CountOf(n, word) \in Seq(T)
    <3>1. CASE CountOf(n, word) = << >> BY <3>1
    <3>2. CASE CountOf(n, word) = << [ n |-> n, word |-> word ] >> BY <2>2, <3>2
    <3> QED BY <1>1, <3>1, <3>2
  <2>4. F \in Seq(S) /\ I \in Seq(S) /\ D \in Seq(S)
    <3>1. /\ [ n |-> files, word |-> "file" ] \in S /\ [ n |-> ins, word |-> "insertion" ] \in S
          /\ [ n |-> del, word |-> "deletion" ] \in S
      OBVIOUS
    <3> HIDE DEF S
    <3> QED BY <2>2, <3>1, Zenon
  <2> HIDE DEF Elements, Optional, F, I, D, S
  <2>5. F \o I \in Seq(S) /\ out = (F \o I) \o D
    BY <2>4 DEF Shortstat, F, I, D
  <2>6. Elements(F \o I) = Elements(F) \cup Elements(I)
    BY <2>3, <2>4, Zenon
  <2>7. Elements(out) = Elements(F \o I) \cup Elements(D)
    BY <2>3, <2>4, <2>5, Zenon
  <2> QED BY <2>1, <2>6, <2>7 DEF Elements, F, I, D
<1> HIDE DEF out
<1>3. ASSUME NEW i \in DOMAIN out
      PROVE  /\ out[i].word = "insertion" => ins # 0 /\ out[i].n = ins
             /\ out[i].word = "deletion" => del # 0 /\ out[i].n = del
  <2>1. \/ out[i] = [ n |-> files, word |-> "file" ]
        \/ out[i] = [ n |-> ins, word |-> "insertion" ] /\ ins # 0
        \/ out[i] = [ n |-> del, word |-> "deletion" ] /\ del # 0
    BY <1>2, Zenon
  <2> QED BY <2>1
<1>4. /\ ins # 0 => \E i \in DOMAIN out : out[i] = [ n |-> ins, word |-> "insertion" ]
      /\ del # 0 => \E i \in DOMAIN out : out[i] = [ n |-> del, word |-> "deletion" ]
  BY <1>2, Zenon
<1>5. Number(out, "insertion") = ins
  <2>1. CASE ins = 0 BY <1>3, <2>1 DEF Number, Part
  <2>2. CASE ins # 0
    <3>1. Part(out, "insertion") # {}
      BY <1>4, <2>2 DEF Part
    <3> QED BY <1>3, <3>1 DEF Number, Part
  <2> QED BY <2>1, <2>2
<1>6. Number(out, "deletion") = del
  <2>1. CASE del = 0 BY <1>3, <2>1 DEF Number, Part
  <2>2. CASE del # 0
    <3>1. Part(out, "deletion") # {}
      BY <1>4, <2>2 DEF Part
    <3> QED BY <1>3, <3>1 DEF Number, Part
  <2> QED BY <2>1, <2>2
<1> QED BY <1>5, <1>6 DEF out

\* A step leaves true counts, each of its own kind.
LEMMA CountsStep ==
  ASSUME Types, CountsTrue, Next
  PROVE  counts' \in Counts /\ CountsTrue'
<1>1. at \in 1 .. 10 /\ Done = 10
  BY CallNames DEF Types
<1>2. CASE Inside
  <2>1. counts' = counts /\ work' = work
    BY <1>2, InsideFrame DEF gathered
  <2> QED BY <2>1 DEF Types, CountsTrue
<1>3. CASE BeginRead
  <2>1. counts' = NoCounts
    BY <1>3 DEF BeginRead
  <2>2. NoCounts \in Counts
    BY DEF NoCounts, Counts
  <2>3. CountsTrue'
    <3>1. \A f \in { "Staged", "Modified", "Untracked", "Conflicted", "Insertions",
                    "Deletions", "Ahead", "Behind" } : counts'[f] = 0
      BY <2>1 DEF NoCounts
    <3>2. counts'.Dirty = FALSE
      BY <2>1 DEF NoCounts
    <3> QED BY <3>1, <3>2 DEF CountsTrue
  <2> QED BY <2>1, <2>2, <2>3
<1>4. CASE Return
  <2>1. /\ at \in 1 .. 9 /\ work' = work
        /\ counts' = IF outcome = "ok" THEN Counted ELSE counts
    BY <1>1, <1>4, ReturnFacts DEF Return
  <2>2. CASE counts' = counts
    BY <2>1, <2>2 DEF Types, CountsTrue
  <2>3. /\ work.status \in Seq(Codes) /\ work.ins \in Nat /\ work.del \in Nat
        /\ work.upstream[1] \in Nat /\ work.upstream[2] \in Nat /\ counts \in Counts
    BY GitAssumption DEF Types
  <2>4. CASE at = 4 /\ outcome = "ok"
    <3> DEFINE dirty == [ counts EXCEPT !.Dirty = work.status # << >> ]
    <3>1. counts' = countStatus(dirty, work.status)
      BY <2>1, <2>4, CallNames DEF Counted
    <3>2. dirty \in Counts
      BY <2>3 DEF Counts
    <3>3. /\ dirty.Dirty = (work.status # << >>)
          /\ \A f \in { "Insertions", "Deletions", "Ahead", "Behind" } : dirty[f] = counts[f]
      BY <2>3 DEF Counts
    <3> DEFINE t == countStatus(dirty, work.status)
    <3> HIDE DEF dirty
    <3>4. /\ t \in Counts
          /\ \A f \in { "Dirty", "Insertions", "Deletions", "Ahead", "Behind" } :
               t[f] = dirty[f]
          /\ t.Staged = Lines({ c \in Tracked : c[1] # " " })
          /\ t.Modified = Lines({ c \in Tracked : c[2] # " " })
          /\ t.Untracked = Lines(Untracked) /\ t.Conflicted = Lines(Unmerged)
      BY <2>3, <3>2, LinesOfStatus
    <3> HIDE DEF t
    <3>5. /\ counts' \in Counts
          /\ \A f \in { "Insertions", "Deletions", "Ahead", "Behind" } : counts'[f] = counts[f]
          /\ counts'.Dirty = (work.status # << >>)
          /\ counts'.Staged = Lines({ c \in Tracked : c[1] # " " })
          /\ counts'.Modified = Lines({ c \in Tracked : c[2] # " " })
          /\ counts'.Untracked = Lines(Untracked) /\ counts'.Conflicted = Lines(Unmerged)
      <4>1. counts' = t
        BY <3>1 DEF t
      <4> QED BY <3>3, <3>4, <4>1
    <3>6. work.status = << >> => \A S : Lines(S) = 0
      BY FS_EmptySet DEF Lines
    <3> QED BY <2>1, <3>5, <3>6 DEF CountsTrue, Lines
  <2>5. CASE at = 5 /\ outcome = "ok"
    <3>1. counts' = [ counts EXCEPT !.Insertions = work.ins, !.Deletions = work.del ]
      <4>1. counts' = parseShortstat(counts, Shortstat(Len(work.status), work.ins, work.del))
        BY <2>1, <2>5, CallNames DEF Counted
      <4>2. Len(work.status) \in Nat
        BY <2>3
      <4>3. /\ Number(Shortstat(Len(work.status), work.ins, work.del), "insertion") = work.ins
            /\ Number(Shortstat(Len(work.status), work.ins, work.del), "deletion") = work.del
        BY <2>3, <4>2, NumberOfShortstat
      <4> QED BY <4>1, <4>3, Zenon DEF parseShortstat
    <3>2. /\ counts' \in Counts
          /\ counts'.Insertions = work.ins /\ counts'.Deletions = work.del
          /\ \A f \in { "Dirty", "Staged", "Modified", "Untracked", "Conflicted",
                        "Ahead", "Behind" } : counts'[f] = counts[f]
      BY <2>3, <3>1 DEF Counts
    <3> QED BY <2>1, <3>2 DEF CountsTrue
  <2>6. CASE at = 6 /\ outcome = "ok"
    <3>1. counts' = [ counts EXCEPT !.Behind = work.upstream[1], !.Ahead = work.upstream[2] ]
      BY <2>1, <2>6, CallNames DEF Counted, countUpstream
    <3>2. /\ counts' \in Counts
          /\ counts'.Behind = work.upstream[1] /\ counts'.Ahead = work.upstream[2]
          /\ \A f \in { "Dirty", "Staged", "Modified", "Untracked", "Conflicted",
                        "Insertions", "Deletions" } : counts'[f] = counts[f]
      BY <2>3, <3>1 DEF Counts
    <3> QED BY <2>1, <3>2 DEF CountsTrue
  <2>7. CASE at \notin { 4, 5, 6 } /\ outcome = "ok"
    <3>1. counts' = counts
      BY <2>1, <2>7, CallNames DEF Counted
    <3> QED BY <2>2, <3>1
  <2> QED BY <2>1, <2>2, <2>4, <2>5, <2>6, <2>7
<1> QED BY <1>2, <1>3, <1>4, NextSplits

-----------------------------------------------------------------------------
(* The theorems.                                                           *)

LEMMA InitGInv == Init => GInv
<1> SUFFICES ASSUME Init PROVE GInv
  OBVIOUS
<1> USE GitAssumption
<1>1. Done = 10 /\ Len(Calls) * Timeout + 1 \in Nat
  BY CallNames
<1>2. counts \in Counts
  BY DEF Init, NoCounts, Counts
<1>3. Types
  <2>1. /\ at \in 1 .. Done
        /\ caller \in { "select", "wait" } /\ worker \in { "starting", "reading", "done" }
        /\ git \in { "none", "running", "exited" } /\ outcome \in { "ok", "1", "other" }
        /\ work \in WorkTrees
    BY <1>1 DEF Init
  <2>3. scopes \in ScopeSets /\ listed \in ScopeSets \cup { {} } /\ added \subseteq { "local" }
    BY DEF Init
  <2>4. held \in BOOLEAN /\ filtered \in BOOLEAN
    BY DEF Init
  <2>2. /\ timer \in 0 .. Timeout /\ spent \in 0 .. Len(Calls) * Timeout + 1
        /\ head \in 0 .. MaxCommits /\ count \in 0 .. MaxCommits /\ last \in 0 .. MaxCommits
        /\ saw \in 0 .. MaxCommits /\ base \in 0 .. MaxCommits /\ repo \in 0 .. MaxCommits
    BY <1>1 DEF Init
  <2> QED BY <1>2, <2>1, <2>2, <2>3, <2>4 DEF Types
<1>4. CallInv /\ TimeInv /\ FilterInv
  BY <1>1 DEF Init, CallInv, TimeInv, FilterInv
<1>5. OrderInv
  BY <1>1 DEF Init, OrderInv, NothingStale
<1>6. CountsTrue
  BY DEF Init, CountsTrue, NoCounts
<1> QED BY <1>3, <1>4, <1>5, <1>6 DEF GInv

LEMMA GInvariance == Spec => []GInv
<1>1. ASSUME GInv, Next
      PROVE  GInv'
  <2>1. counts' \in Counts /\ CountsTrue'
    BY <1>1, CountsStep DEF GInv
  <2> QED BY <1>1, <2>1, TypesStep, CallStep, TimeStep, FilterStep, OrderStep DEF GInv
<1>2. GInv /\ UNCHANGED vars => GInv'
  <2> SUFFICES ASSUME GInv, UNCHANGED vars PROVE GInv'
    OBVIOUS
  <2>1. /\ UNCHANGED << at, caller, worker, git, outcome, held, timer, saw, head, count, last >>
        /\ UNCHANGED << listed, added, filtered, counts, repo, scopes, work, base, spent >>
    BY DEF vars, call, gathered
  <2>2. Types'
    BY <2>1 DEF GInv, Types
  <2>3. CallInv' /\ TimeInv' /\ FilterInv'
    BY <2>1 DEF GInv, CallInv, TimeInv, FilterInv
  <2>4. OrderInv' /\ CountsTrue'
    BY <2>1 DEF GInv, OrderInv, NothingStale, CountsTrue
  <2> QED BY <2>2, <2>3, <2>4 DEF GInv
<1> QED BY <1>1, <1>2, InitGInv, PTL DEF Spec

\* Reading the git state never leaves its types.
THEOREM GitTypeCorrect == Spec => []TypeOK
<1>1. GInv => TypeOK
  <2> SUFFICES ASSUME GInv PROVE TypeOK
    OBVIOUS
  <2>1. counts.Dirty \in BOOLEAN /\ \A f \in DOMAIN counts \ { "Dirty" } : counts[f] \in Nat
    BY DEF GInv, Types, Counts
  <2> QED BY <2>1 DEF GInv, Types, CallInv, TypeOK
<1> QED BY <1>1, GInvariance, PTL

\* Every call is bounded by its timeout, whatever the timeout, so that Read is
\* through with the first i of them in i times that.
THEOREM CallsAreBounded == Spec => []ReadBounded
<1>1. GInv => ReadBounded
  <2> SUFFICES ASSUME Types, TimeInv, at # Done PROVE spent <= at * Timeout
    BY DEF GInv, ReadBounded
  <2>1. at \in 1 .. 9 /\ timer \in 0 .. Timeout /\ spent \in Nat
    BY GitAssumption, CallNames DEF Types
  <2>2. (at - 1) * Timeout + Timeout <= ((at + 1) - 1) * Timeout
    <3>1. at + 1 \in at + 1 .. 10
      BY <2>1
    <3> QED BY <2>1, <3>1, CallsTakeTheirTime
  <2>3. (at + 1) - 1 = at /\ (at - 1) * Timeout \in Int /\ at * Timeout \in Int
    BY <2>1, GitAssumption
  <2>4. spent <= (at - 1) * Timeout + timer
    BY DEF TimeInv
  <2> DEFINE before == (at - 1) * Timeout
             through == at * Timeout
  <2>5. before \in Int /\ through \in Int /\ before + Timeout <= through /\ spent <= before + timer
    BY <2>2, <2>3, <2>4
  <2> HIDE DEF before, through
  <2>6. spent <= through
    BY <2>1, <2>5, GitAssumption
  <2> QED BY <2>6 DEF through
<1> QED BY <1>1, GInvariance, PTL

\* status and diff run in no repository whose own filter driver was there when
\* the check looked: one that they meet was configured after that.
THEOREM FiltersStayOff == Spec => []FiltersNeverRun
<1>1. GInv => FiltersNeverRun
  BY CallNames DEF GInv, Types, FilterInv, FiltersNeverRun
<1> QED BY <1>1, GInvariance, PTL

\* What a Read reports is in the order in which it asked, and no older than it.
THEOREM ReadsAreOrdered == Spec => []NothingStale
<1>1. GInv => NothingStale
  BY DEF GInv, OrderInv
<1> QED BY <1>1, GInvariance, PTL

\* The counts agree with git's table of status codes, for every working tree.
THEOREM CountsAreTrue == Spec => []CountsTrue
<1>1. GInv => CountsTrue
  BY DEF GInv
<1> QED BY <1>1, GInvariance, PTL
=============================================================================
