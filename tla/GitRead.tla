------------------------------- MODULE GitRead -------------------------------
(***************************************************************************)
(* Reading a repository's state, internal/gitstate: Read runs git once per *)
(* fact, each through runRaw, which bounds the call.  A call involves the  *)
(* caller (the daemon's only goroutine), the goroutine inside cmd.Output,  *)
(* the git process, and whatever process git leaves behind with its        *)
(* standard output, while the user goes on committing and configuring.     *)
(*                                                                         *)
(* Of what git prints, here is the commit a call saw, for the filter check *)
(* the scopes of the keys, and what GitOutput parses.  Commits are         *)
(* numbered; 0 is a repository that has none.                              *)
(***************************************************************************)
EXTENDS GitOutput

CONSTANTS
  Timeout,     \* ticks one call may take (10 s)
  Helpers,     \* git may leave a process behind that holds its stdout
  MaxCommits,  \* bound: commits the user makes
  WorkTrees,   \* uncommitted work a repository may hold
  ScopeSets    \* where filter drivers may be configured

ASSUME GitAssumption ==
  /\ Timeout \in Nat \ {0} /\ MaxCommits \in Nat
  /\ Helpers \in BOOLEAN
  /\ ScopeSets \subseteq SUBSET { "system", "global", "local" }
  /\ WorkTrees \subseteq [ status: Seq(Codes), ins: Nat, del: Nat, upstream: Nat \X Nat ]

\* The calls of Read, in order.
Calls == << "head", "branch", "filters", "status", "diff",
            "upstream", "count", "log", "stash" >>
Done == Len(Calls) + 1

VARIABLES
  at,        \* index of the call Read is at; Done between two Reads
  caller,    \* "select", or past the timeout and waiting for done: "wait"
  worker,    \* cmd.Output's goroutine: "starting", "reading" or "done"
  git,       \* the child: "none", "running" or "exited"
  outcome,   \* how it ended: "ok", exit status "1", or "other", a kill included
  held,      \* another process holds the pipe's write end
  timer,     \* time since the call began, up to Timeout
  \* what Read has gathered
  head, count, last,  \* the commit each of those calls saw, 0 when it failed
  filtered,           \* hasRepoFilters
  counts,             \* the fields that count something
  \* outside
  repo,      \* the repository's newest commit
  scopes,    \* the scopes at which filter drivers are configured
  work,      \* the uncommitted work, and the distance to the upstream
  \* history
  saw,       \* the commit the call under way saw
  listed,    \* the scopes that call listed, if it is the filter check
  added,     \* of the repository's own drivers, those set up since a check looked
  base,      \* the newest commit when Read began
  spent      \* time since then, less what went into waiting for held pipes

call == << caller, worker, git, outcome, held, timer, saw, listed >>
gathered == << head, count, last, filtered, counts >>
vars == << at, call, gathered, repo, scopes, added, work, base, spent >>

\* The drivers of the user and of the machine are fine; a repository's own are
\* local, or the worktree's, whatever file they are included from.
Own(S) == S \ { "global", "system" }

-----------------------------------------------------------------------------
(* One call, runRaw.                                                       *)

Fresh ==
  /\ caller' = "select" /\ worker' = "starting" /\ git' = "none"
  /\ outcome' = "other" /\ held' = FALSE /\ timer' = 0 /\ saw' = 0 /\ listed' = {}

\* cmd.Start returns, in less than a tick, and cmd.Process is set.
Spawn ==
  /\ at # Done /\ worker = "starting"
  /\ worker' = "reading" /\ git' = "running"
  /\ UNCHANGED << at, caller, outcome, held, timer, saw, listed, gathered, repo, scopes, added, work, base, spent >>

\* There is no git to start.
SpawnFails ==
  /\ at # Done /\ worker = "starting"
  /\ worker' = "done"
  /\ UNCHANGED << at, caller, git, outcome, held, timer, saw, listed, gathered, repo, scopes, added, work, base, spent >>

\* git exits by itself, having looked at the repository as it is now.  Asked
\* for matching keys, it exits with status 1 when there are none; a repository
\* with no commit has no HEAD to report on.
GitExits ==
  /\ git = "running"
  /\ git' = "exited" /\ saw' = repo
  /\ outcome' \in { "ok", "other" } \cup (IF Calls[at] = "filters" THEN { "1" } ELSE {})
  /\ Calls[at] = "filters" /\ scopes # {} => outcome' # "1"
  /\ Calls[at] = "filters" /\ scopes = {} => outcome' # "ok"
  /\ Calls[at] = "head" /\ repo = 0 => outcome' # "ok"
  /\ IF Calls[at] = "filters" THEN listed' = scopes /\ added' = {}
     ELSE UNCHANGED << listed, added >>
  /\ UNCHANGED << at, caller, worker, held, timer, gathered, repo, scopes, work, base, spent >>

\* A credential helper, a background maintenance run: git's own children
\* inherit its stdout, and may outlive it.
LeaveHelper ==
  /\ Helpers /\ git = "running"
  /\ held' = TRUE
  /\ UNCHANGED << at, caller, worker, git, outcome, timer, saw, listed, gathered, repo, scopes, added, work, base, spent >>

HelperEnds ==
  /\ held
  /\ held' = FALSE
  /\ UNCHANGED << at, caller, worker, git, outcome, timer, saw, listed, gathered, repo, scopes, added, work, base, spent >>

\* Output returns at the end of the pipe: git has exited, and nobody holds it.
OutputReturns ==
  /\ worker = "reading" /\ git = "exited" /\ ~held
  /\ worker' = "done"
  /\ UNCHANGED << at, caller, git, outcome, held, timer, saw, listed, gathered, repo, scopes, added, work, base, spent >>

\* Mutant of Expire: stops waiting for the timer without killing git.
ExpireNoKill ==
  /\ at # Done /\ caller = "select" /\ timer = Timeout
  /\ caller' = "wait"
  /\ UNCHANGED << at, worker, git, outcome, held, timer, saw, listed, gathered, repo, scopes, added, work, base, spent >>

\* The timeout kills git if it still runs, and waits for Output in any case.
Expire ==
  /\ at # Done /\ caller = "select" /\ timer = Timeout
  /\ caller' = "wait"
  /\ git' = IF git = "running" THEN "exited" ELSE git
  /\ UNCHANGED << at, worker, outcome, held, timer, saw, listed, gathered, repo, scopes, added, work, base, spent >>

-----------------------------------------------------------------------------
(* The sequence of calls, Read.                                            *)

\* Which calls Read makes, by what the earlier ones told it.
Needed(i, h, f) ==
  /\ Calls[i] \in { "status", "diff" } => ~f
  /\ Calls[i] \in { "diff", "count", "log" } => h # 0

\* Mutant of Verdict: any failure means that no key matched.
VerdictAnyFailure == outcome = "ok" /\ Own(listed) # {}
\* hasRepoFilters, from the call that lists the filter keys and their scope:
\* exit status 1 means none, any other failure "when unsure, skip".
Verdict == IF outcome = "ok" THEN Own(listed) # {} ELSE outcome # "1"

\* The counts after the call that just ended well.
Counted ==
  CASE Calls[at] = "status" ->
         countStatus([ counts EXCEPT !.Dirty = work.status # << >> ], work.status)
    [] Calls[at] = "diff" ->
         parseShortstat(counts, Shortstat(Len(work.status), work.ins, work.del))
    [] Calls[at] = "upstream" -> countUpstream(counts, work.upstream)
    [] OTHER -> counts

\* runRaw returns, Read takes the result and goes on to the next call.
Return ==
  /\ at # Done /\ worker = "done"
  /\ LET result == IF outcome = "ok" THEN saw ELSE 0
         Gather(name, old) == IF Calls[at] = name THEN result ELSE old
     IN  /\ head' = Gather("head", head)
         /\ count' = Gather("count", count)
         /\ last' = Gather("log", last)
  /\ filtered' = IF Calls[at] = "filters" THEN Verdict ELSE filtered
  /\ counts' = IF outcome = "ok" THEN Counted ELSE counts
  /\ at' \in at + 1 .. Done
  /\ at' # Done => Needed(at', head', filtered')
  /\ \A i \in at + 1 .. at' - 1 : ~Needed(i, head', filtered')
  /\ Fresh
  /\ UNCHANGED << repo, scopes, added, work, base, spent >>

\* Mutant of BeginRead: the State of the Read before is used again.
BeginReadReused ==
  /\ at = Done
  /\ at' = 1 /\ spent' = 0 /\ base' = repo
  /\ UNCHANGED << call, gathered, repo, scopes, added, work >>

BeginRead ==
  /\ at = Done
  /\ at' = 1 /\ spent' = 0 /\ base' = repo
  /\ head' = 0 /\ count' = 0 /\ last' = 0 /\ filtered' = FALSE
  /\ counts' = NoCounts
  /\ UNCHANGED << call, repo, scopes, added, work >>

-----------------------------------------------------------------------------
(* The user and the clock.                                                 *)

Commit ==
  /\ repo < MaxCommits
  /\ repo' = repo + 1
  /\ UNCHANGED << at, call, gathered, scopes, added, work, base, spent >>

\* The user sets drivers up or takes them away, here or in an included file.
\* (Outside these calls nothing looks at them: it is as if just before.)
Configure ==
  /\ at # Done /\ Calls[at] \in { "filters", "status", "diff" }
  /\ scopes' \in ScopeSets \ { scopes }
  /\ added' = (added \cap scopes') \cup Own(scopes' \ scopes)
  /\ UNCHANGED << at, call, gathered, repo, work, base, spent >>

\* One tick of a call, while none of its goroutines can move.
Tick ==
  /\ at # Done
  /\ worker = "reading"
  /\ git = "running" \/ held
  /\ caller = "select" => timer < Timeout
  /\ timer' = IF timer < Timeout THEN timer + 1 ELSE timer
  /\ spent' = IF spent > Len(Calls) * Timeout \/ (held /\ git = "exited")
              THEN spent ELSE spent + 1
  /\ UNCHANGED << at, caller, worker, git, outcome, held, saw, listed, gathered, repo, scopes, added, work, base >>

-----------------------------------------------------------------------------
Init ==
  /\ at = Done
  /\ caller = "select" /\ worker = "starting" /\ git = "none"
  /\ outcome = "other" /\ held = FALSE /\ timer = 0 /\ saw = 0 /\ listed = {}
  /\ head = 0 /\ count = 0 /\ last = 0 /\ filtered = FALSE /\ counts = NoCounts
  /\ repo \in 0 .. MaxCommits /\ base = 0 /\ spent = 0
  /\ scopes \in ScopeSets /\ added = {}
  /\ work \in WorkTrees

\* What the agent's goroutines do when they can.
Agent == Spawn \/ OutputReturns \/ Expire \/ Return

Next == \/ BeginRead \/ Agent \/ SpawnFails \/ GitExits
        \/ LeaveHelper \/ HelperEnds \/ Commit \/ Configure \/ Tick

Spec == Init /\ [][Next]_vars

\* The goroutines are scheduled and time passes; git owes nobody an exit.
FairSpec == Spec /\ WF_vars(Agent) /\ WF_vars(Tick)

\* What git leaves behind comes to an end by itself.
PatientSpec == FairSpec /\ WF_vars(HelperEnds)

-----------------------------------------------------------------------------
TypeOK ==
  /\ at \in 1 .. Done
  /\ caller \in { "select", "wait" } /\ worker \in { "starting", "reading", "done" }
  /\ git \in { "none", "running", "exited" } /\ outcome \in { "ok", "1", "other" }
  /\ held \in BOOLEAN /\ timer \in 0 .. Timeout /\ spent \in 0 .. Len(Calls) * Timeout + 1
  /\ { head, count, last, saw, base } \subseteq 0 .. MaxCommits
  /\ filtered \in BOOLEAN /\ repo \in 0 .. MaxCommits
  /\ scopes \in ScopeSets /\ listed \in ScopeSets \cup { {} } /\ added \subseteq { "local" }
  /\ work \in WorkTrees
  /\ counts.Dirty \in BOOLEAN /\ \A f \in DOMAIN counts \ { "Dirty" } : counts[f] \in Nat
  /\ worker = "starting" => git = "none"
  /\ caller = "wait" => git # "running"

\* "Every call is bounded": but for pipes that others hold, Read is through with
\* a call within its ten seconds, and with all of them in nine times that.
ReadBounded == at # Done => spent <= at * Timeout

\* status and diff may run the filter drivers a repository configures.  They are
\* run where it configures none, and never where that could not be found out:
\* what they meet of its own was configured after the check had looked.
FiltersNeverRun ==
  at # Done /\ Calls[at] \in { "status", "diff" } => Own(scopes) \subseteq added

\* What a Read reports is the repository during that Read: each call that
\* succeeded saw a commit no older than the start, nor than the calls before it
\* saw, however the user's commits and the calls interleave.  (They need not
\* have seen the same one.)
NothingStale ==
  LET InOrder(a, b) == a # 0 /\ b # 0 => a <= b
  IN  /\ \A c \in { head, count, last } : InOrder(base, c)
      /\ InOrder(head, count) /\ InOrder(head, last) /\ InOrder(count, last)
      /\ head = 0 => count = 0 /\ last = 0

\* The counts are those of the working tree, by git's own table of status codes,
\* or left at zero by a call that was skipped or failed: "a file both staged and
\* changed again counts in Staged and Modified", an unmerged one in neither.
CountsTrue ==
  LET Lines(S) == Cardinality({ i \in DOMAIN work.status : work.status[i] \in S })
      Is(f, n) == counts[f] = n
  IN  /\ \/ ~counts.Dirty
            /\ \A f \in { "Staged", "Modified", "Untracked", "Conflicted" } : Is(f, 0)
         \/ /\ counts.Dirty
            /\ Is("Staged", Lines({ c \in Tracked : c[1] # " " }))
            /\ Is("Modified", Lines({ c \in Tracked : c[2] # " " }))
            /\ Is("Untracked", Lines(Untracked)) /\ Is("Conflicted", Lines(Unmerged))
      /\ \/ Is("Insertions", 0) /\ Is("Deletions", 0)
         \/ Is("Insertions", work.ins) /\ Is("Deletions", work.del)
      /\ \/ Is("Behind", 0) /\ Is("Ahead", 0)
         \/ Is("Behind", work.upstream[1]) /\ Is("Ahead", work.upstream[2])

\* "so a hung git (a credential prompt, a stale lock) cannot stall the daemon":
\* every Read ends.
ReadEnds == at # Done ~> at = Done
=============================================================================
