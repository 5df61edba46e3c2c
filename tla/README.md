# A verification project for snapshot-agent

`snapshot-agent` (flockatime) is a background agent in Go. While its user codes,
it captures the repositories WakaTime sees edits in (hashes and counts, never
contents), posts the snapshots to a collector, and keeps those that could not
leave in a queue on disk. This directory holds TLA+ models of its control, TLC
runs that check them on small instances, and proofs, checked by TLAPS, of some
of their properties for every value of the constants. Paths are relative to
`src/`.

## Inventory

| Component | Source | State it keeps | Operations | Talks to |
|---|---|---|---|---|
| durable queue | `internal/queue/queue.go` | one bbolt bucket: sequence numbers to JSON blobs, and a sequence counter | `Open`, `Push`, `Drain`, `Ack`, `Len` | called by `tick`, by `doctor`; a file lock against other processes |
| tick | `commands.go` 210-263, `internal/snapshot/snapshot.go` | `lastHash` by project name; within a tick `fresh`, `backlog` | capture each project, drain, send, then push or ack | queue, transport, git state, tree walk |
| transport | `internal/transport/client.go` | none; 30 s timeout | `Send`, `Verify`, `Reachable` | the collector, over HTTP |
| development collector | `devserver.go` | none | accept or refuse a batch | transport |
| daemon loop | `commands.go` 75-208 | `active`, `lastProjects`, two tickers | wake, go dormant, periodic capture, stop | activity, tick |
| activity detection | `internal/activity` | none; reads WakaTime's files | `Active`, `RecentProjects`, `repoRoot`, `projectName` | WakaTime's log and heartbeat files |
| configuration | `internal/config/config.go` | the config file | `Load`, `Validate`, `IdleAfter` | every command |
| git state | `internal/gitstate/gitstate.go` | none | `Read`: up to nine git calls, each bounded by `runRaw` | git processes |
| setup, install, uninstall | `setup.go`, `install.go` | config file, its `.bak`, the login item | verify key, write config, write login item, start or stop the agent | config, wakacfg, launchd, systemd or wscript, the queue's lock |
| WakaTime config editor | `internal/wakacfg/wakacfg.go` | `~/.wakatime.cfg` | `EnableDebug` | called by setup |
| tree walk and hashing | `internal/snapshot/walk.go`, `hash.go` | none | walk with pruning, line count, sorted hash | called by `Capture` |
| command line | `main.go`, `commands.go` | none | dispatch, `once`, `doctor` | everything |

How they interact. `cmdRun` is one goroutine: a `select` over a poll ticker, a
capture ticker and a signal. A capture runs to its end in that goroutine: it
resolves the live projects (activity), walks and hashes each and reads its git
state (snapshot, gitstate), drains the head of the queue, sends one batch
(transport) and then pushes or acks (queue). `setup` and `uninstall` are other
processes, which meet the agent at the config file, at the login item and at the
lock on the queue file. WakaTime's files are written by wakatime-cli at any
moment.

What is hard here:

- *Delivery.* Capture, send, push and ack are separate steps of a process that
  may die between any two; the answer to a request may be lost, or the request
  may arrive after the client gave up on it. Correct means: nothing vanishes
  but by a loss the code admits to, nothing is sent twice without a cause, order
  is kept, and an `unchanged` marker never stands for a file list that nobody
  has.
- *The queue.* `Push` derives its depth from the distance between its end keys,
  `Drain` skips what it cannot decode, `Ack` counts it: three operations that
  agree only under an invariant none of them checks.
- *The daemon.* Two tickers, a blocking capture between them, ages compared at
  instants that are already past, and an instant truncated to seconds.
- *The composition.* When the queue gets another chance depends on the daemon's
  state; how long the daemon is deaf to its tickers depends on the tick.
- *The walk.* A directory is listed, its entries looked at, then read: three
  moments between which the user writes, while rules of nested `.gitignore` files
  pile up that govern different parts of the tree.
- *Following WakaTime.* A config another program owns is edited without a lock;
  a log it appends to at any moment is read from somewhere in its middle.
- *git.* A timeout that kills one process and waits for a pipe others may hold.
- *Installation.* Commands interrupted half way, on a config file of any origin,
  with an agent of an earlier installation that still runs.

## Modules

| Module | Models | Shape |
|---|---|---|
| `SnapshotQueue` | the bbolt bucket | `kv`, a function from keys to blobs, and the counter `seq`; `Push`, `Drain`, `Ack` |
| `BoundedFifo` | what the queue promises: a sequence, `Put`, `Drop` | abstract specification, implemented by `SnapshotQueue` under the mapping `Listing` |
| `Delivery` | `tick`, the transport, the collector, crashes | extends `SnapshotQueue` |
| `Handover` | what a tick promises: taken, then delivered or written off, once and for good | abstract specification, implemented by `Delivery` under the mapping `Outcomes` |
| `Daemon` | `cmdRun`'s loop, activity ages, discrete time | a capture only takes time here |
| `Agent` | `cmdRun` with its ticks | composes `Daemon` and `Delivery` |
| `Walk` | `walk`, `.gitignore` scoping, `TreeHash`, the unchanged marker, a user who edits | on its own |
| `WakaCfg` | `WithDebug`, and what a config means to WakaTime | functions on files |
| `Projects` | the log's tail, `repoRoot`, `RecentProjects` | functions of a log and a moment |
| `Follow` | `EnableDebug`, wakatime-cli's log, the agent's lookup, the user | extends `WakaCfg` and `Projects` |
| `GitOutput` | what git prints, `countStatus`, `parseShortstat` | functions |
| `GitRead` | `gitstate.Read` and `runRaw`: caller, worker goroutine, git, what git leaves behind | extends `GitOutput` |
| `Setup` | setup, install, uninstall, service managers, agents starting | on its own |
| `MC...` | instances for TLC | model values, definitions for constants, symmetry |
| `SnapshotQueueProofs`, `DaemonProofs`, `GitReadProofs`, `SetupProofs`, `WalkProofs`, `FollowProofs` | theorems | each extends its component and TLAPS |
| `DeliveryProofs` | theorems | extends `Delivery` and `SnapshotQueueProofs` |
| `AgentProofs` | theorems | extends `Agent`; instances of `DaemonProofs` and `DeliveryProofs` |

### SnapshotQueue

A bbolt transaction is atomic and the file survives a crash, so each operation
is one action. A blob is an `Entry`; those that `json.Unmarshal` accepts are
`Readable`. `Drain(n)` is the sub-function of `kv` it returns: keeping the keys
lets properties speak of which entries were drained, and the code's slice is its
range in key order. `Oldest(K, n)` is what `n` turns of a cursor reach.

### Delivery

`pc` is where `tick` is:

```
wait --StartTick--> capture --(one step per project)--> capture
capture --DrainQueue/DrainFails--> send (or wait, with nothing to send)
send --Accept--> reply --ReplyOK--> ack --> wait
send --Reject/Timeout--> push --(one step per snapshot)--> wait
reply --ReplyLost--> push
any --Crash--> down --Restart--> wait
```

`Accept` and `ReplyOK` are two steps because the collector and the agent learn of
success at different times; `late` holds the requests that outlive the client's
patience or the process itself. A snapshot is reduced to its order of capture,
the name it reports, its tree's hash and whether the file list was dropped. What
a walk finds is free: the user edits between any two captures. The variables
`evicted`, `unqueued`, `lost`, `doubtful`, `repeated` and `seen` are history:
nothing reads them but properties.

### Daemon

Instants are kept as ages and distances, so time needs no bound. `Second` clock
ticks make a second, because the code compares instants in one place and Unix
seconds in another. A ticker holds one tick, stamped with the instant it was due
(`pollLate`, `capLate`), and drops the rest, as Go's do; `Reset` discards a stored
tick, as it does since Go 1.23 (`go.mod` asks for 1.26). `activity.Active` is
called with the tick's own time and fresh file ages, and so is `IsActive(late)`.
Heartbeats may come at any moment, also during a capture. `loop` is where
`cmdRun` is; `covered`, `dirty`, `sinceRound` and `unheeded` are history.

### Agent

Instances of `Daemon` and `Delivery` share one goroutine: when the loop begins a
capture that covers something, `tick` starts with exactly those projects
(`Tick`), and `Finish`, which returns to the `select`, waits for it to end. Time
passes during a tick, up to `MaxBusy`, so a capture's length is its own business
and both tickers go on. `Exit` ends both at once. Of `Delivery`'s faults a
refused request and the end of the process remain: the others decide what becomes
of a round, not whether there is one, and `Delivery`'s own runs have them. That a
project is captured past the bound `MaxSnaps` is a step too (`SnapshotUnfollowed`):
the edits it covers count as snapshotted, and what becomes of the snapshot is not
followed. `stamped`, the snapshots of the current second, whichever process took
them, and `unsnapped` are history.

### Walk

`pending` is what `filepath.WalkDir` has listed and not visited, of which it takes
the first in the order of names (`At`, `Before`); a visit is `VisitDir`,
`PassOver`, `LeaveOut` or `Stat`, and `ListDir` and `HashFile` are steps of their
own, because the user's `Write` and `Delete` may fall between. An entry keeps the
kind it had when listed, as a `DirEntry` does; `Info` and `Open` look at the tree
as it is then. A record has the size and the time `Stat` saw beside the contents
`HashFile` read, and only the latter are hashed. `matchers` grows as in the code, which never
takes a matcher out. A rule of a `.gitignore` is a name, anchored or not, for
directories only or not: the parts of the library's semantics that interact with
how `ignored` cuts a path and asks twice about a directory. A hash is the set of
lines it is taken over. `Settled`, `Eligible` and `Excluded` say what a walk
should find without walking: they are the reference definition of the properties.

### WakaCfg, Projects and Follow

A config is a sequence of lines, of which the kind and the line end matter:
header of `[settings]`, other header, debug key on or off, blank, text. The last
line, after which there is no `\n`, never ends in `\r\n`.
`WithDebug` is the code's function; `DebugOn` is what the file then means to the
program that reads it, for which sections of one name are one and the last key
counts. `recentHeartbeats` works on a log of lines, each with its place in the file
and a size, of which the last may be half written; `repoRoot` works on paths as
sequences of names; `RecentProjects` is the code's loop from the last heartbeat to
the first, a recursive function over the log. `Follow`
puts them in time: `EnableRead` and `EnableWrite` are two steps with the user's
`EditCfg` in between, WakaTime appends to the log as the config tells it, and at
every moment the agent may look (`Looked`). `promised` and `owed` are history: the
edits the agent must find since `EnableDebug` returned.

### GitRead

One `runRaw` call is the caller in its `select`, the goroutine in `cmd.Output`,
the git process and possibly another process that inherited git's standard
output. git may exit at any time, with success or failure, or never, and the
user may commit at any time. The user may also set up filter drivers or take them
away (`Configure`) during the three calls that look at them; between those
nothing does, so a change made there is as good as one at the next of them. `spent` is the time a `Read` has taken, less what
it waited for pipes that others held. `Return` moves `Read` to the next call its
conditions ask for. Of a call's output the commit it saw is kept, the scopes of
filter keys (`listed`), and for `status`, `diff` and the upstream count the codes and
numbers `GitOutput` parses; `added`, the drivers set up since the check looked, is
history. What git prints for a working tree is taken from its
manual (`Codes`, `Shortstat`), and only the agent's side is the code's.

### Setup

One command at a time, and any number of agents up to `Slots`, each of which
loads the config, waits for the queue's lock and runs. A config file is whether
it decodes, its key, whether only its owner can read it, its activity source and
its pinned projects, whose directories come and go. Setup decodes it
(`ReadConfig`), moves one that does not decode aside (`MoveAside`), over the backup
there may be (`bak`), writes it (`WriteConfig`, with the pins it `carried` over)
and makes it private (`Chmod`), for `WriteFile` leaves the mode of a file that was
there. The user may save the file between these steps up to the write; the later
ones do not look at it. A write that fails leaves an empty file or any part of the
new one that the order of its sections allows. On
`linux` and `darwin` the slot `Service` belongs to the service manager, which
restarts it, and the user may start others from a terminal (`RunByHand`); on
`windows` every start is one more process. When `uninstall` asks the manager to
disable the service and stop it, neither may happen, or only the first. `owed` and
`unstopped` are history. `platform` is a
variable fixed by `Init`, so that one run covers all three. The collector's check
of the key is the guard under which `BeginSetup` exists: a refused key changes
nothing. WakaTime's directory may be missing at first, which keeps an agent that
follows it from starting.

## Runs

Eight runs are expected to pass. Together they take every action of every module.

| Run | Instance | Asks |
|---|---|---|
| `delivery_loss` | one project, a cap of 2, every local fault, late requests, one crash | redelivery; refinement of `Handover` and of `BoundedFifo`; liveness: the queue drains |
| `delivery_rounds` | two projects, an unreadable entry at the head, a failing `Push` or `Ack`, bodies that may be too large, one crash | losses, order, what markers rely on, the queue's keys and cap |
| `daemon_sessions` | two repositories and a pinned directory, two clock ticks to a second, captures of up to three, restarts, an interval of 4 with a poll of 2 and of 6 | waking, cadence, spacing, what is covered at the end of a session; liveness: a session ends |
| `agent_sessions` | one repository, three snapshots, a user who comes and goes, a collector that may refuse, one crash and restart, perhaps within the second | that a session's edits are recorded, that what collectors drop as a duplicate costs no file list; liveness: flushing for a user who returns |
| `walk_edits` | ten paths, every mix of four `.gitignore` files at the top and one below, entries too big, locked or linked, one change at any moment, a mere touch among them | what a walk records and leaves out, and when a marker replaces the list |
| `follow_edits` | every config of up to four lines, and logs of three lines that outgrow the tail | that `EnableDebug` changes one key, that recent edits are found and nothing else |
| `git_calls` | any git, helpers that end, two commits, filter drivers of every scope set up and taken away, trees with every status code | the time bound, the filter verdict, what a `Read` reports and counts; liveness: it ends |
| `setup_sessions` | three platforms, two agents, started by setup, by the manager or by hand, a key given to setup and another the user may write, edits between its steps, writes, renames and managers that fail | uninstalling, pins, the key in use, one agent runs |

What each property says stands above it in its module. The ones that carry most:

- `NoSilentLoss`: every captured snapshot is with the collector, queued, in hand,
  or in one of the three losses the code admits to (cap, failed `Push`, killed
  with it in memory).
- `RedeliveryExcused`: only a snapshot whose arrival the agent could not learn or
  record is delivered twice.
- `MarkersAnchored`: `lastHash` is set at capture, long before the file list it
  stands for has gone anywhere; yet a marker's file list was captured before it,
  precedes it in the queue, and is not lost in a crash, because `lastHash` is
  forgotten with it. The exceptions are a list given up by the cap or by a failed
  `Push`: nothing resets `lastHash` then, and the collector is left with markers
  it cannot resolve.
- `AckRetiresOnlyDrained`: though `Drain` and `Ack` count differently, the ack
  that follows a drain retires no readable entry that was not drained.
- `NothingUnseen`, `WakePrompt`: what the two tickers owe
  the user at the edges of a session.
- `ImplementsHandover`: whatever fails, a snapshot leaves the agent's hands once
  and for good, and as long as some are left one more does.
- `SessionRecorded`, `FlushesForUser`: at rest no edit is without a snapshot but
  those the next poll will see; and a backlog leaves for a user who keeps coming
  back *to a repository*. The condition is the code's: a dormant agent does not
  tick (`commands.go:168`), nor does one whose user is active outside every
  repository (`commands.go:135`): the backlog of either stays, and no property
  claims otherwise.
- `DuplicateCostsNothing`: a collector that drops a snapshot because it has, or is
  about to get, one of the same project, second and tree, a marker perhaps, has
  its file list from that one or from an earlier one.
- `MarkerIsTrue`: where a marker is sent, the list sent last still says which files
  there are and what they contain. It says nothing of sizes and times: they are
  sent and not hashed (`walk.go:89-95`), so a file that is only touched, or is
  replaced between `Info` and the read, leaves the collector with older ones.
- `UntouchedExact`, `ExcludedStaysOut`: whatever changes during a walk, a file for
  which nothing changed is recorded exactly if it should be, as it is, and the
  rest is counted or passed over for its own reasons.
- `EditsFollowed`: from the moment `EnableDebug` returned every recent edit has its
  repository looked up, unless more than the tail was logged since.
- `LookupTrue`: nothing else is looked up, but for an edit too old by less than a
  second (the cut-off is taken in whole seconds), and the newest comes first. Newest
  is by place in the log: heartbeats may be logged out of the order of their times,
  and then the order of the list is not that of the times (see below).
- `CountsTrue`: the code's three tests on two letters agree with git's table.
- `FiltersNeverRun`: `status` and `diff` never meet a filter driver of the
  repository's own that was configured when the check before them looked,
  whichever way the check fails. One that is set up after the check does run: the
  code asks once per `Read`.
- `PinsKept`: the pins the user saved last are in the config or in its backup, at
  any moment and after any interruption, but for four ways to lose them (below).

Four are expected to be violated, each by a statement of a comment or a document
that the code does not meet; the counterexample is the run's output:

| Run | Statement | What the code does |
|---|---|---|
| `delivery_resend` | `queue.go:102` "removes the n oldest snapshots after a successful send" | an unreadable entry uses up one of the n; the last snapshot sent stays and is sent again |
| `daemon_closing` | `commands.go:123` "the closing snapshot has to be taken against the projects the session was actually spent in" | with a pinned directory the lookup at the close finds that one, and `lastProjects` is not used |
| `git_helper` | `gitstate.go:186` "a hung git ... cannot stall the daemon" | the pipe is held by another process, for as long as it lives |
| `setup_rekey` | `setup.go:28` "that is how an upgrade or a new key is applied" | on Windows the old agent keeps the lock, and its key |

### Where else the code and its comments part

Seen while modelling. Those marked with a change of constants can be reproduced
by making it in the configuration named.

- `info.md:130` "Change nothing and it sends a 319-byte `unchanged` marker": two
  directories found by WakaTime may report one name (`config.go:117` refuses that
  among pinned ones only), and then overwrite each other's hash: an unchanged tree
  is sent whole, and one that has become what the other directory was captured
  with goes as a marker (`delivery_rounds` with both paths mapped to one name and
  without symmetry: `MarkerIffUnchanged` fails).
- `commands.go:133`: when every lookup of a session found nothing, its closing
  capture goes by the projects of the session before.
- `queue.go:93` "unreadable entry; Ack will retire it": `tick` acks only a backlog
  that is not empty, so a queue of unreadable entries alone is left as it is.
- `info.md:131` "then flush oldest-first when it comes back": a batch whose body
  is past 64 MiB is truncated, refused, and tried again unchanged
  (`delivery_loss`, `BodyLimit = 0`: `Flushes` fails).
- `commands.go:122` "a fresh lookup at that instant finds nothing": the log is cut
  off at whole seconds, so it may find one repository of two and leave the other
  out, with nothing pinned (`daemon_closing`, `Repos = {r1, r2}`, `Pinned = {}`,
  `Interval = 4`, `PollSeconds = {2}`, `Second = 2`: `ClosingCoversLast` fails).
  Neither costs an edit its snapshot when an interval is longer than a capture
  (`NothingUnseen`, checked with both): what is missing is the close.
- `info.md:195` "dedupe on `(project, captured_at, tree_hash)`": two captures of a
  project in one second may have one key. The later one need not be a marker: a tree
  that changes and changes back within a second is captured in full three times
  when a poll, a capture and a wake fall into it, and the third has the key of the
  first (`agent_sessions` with `Trees = {t1, t2}`, `Second = 2`, `Interval = 4`,
  `MaxBusy = 3`, `MaxSnaps = 4`). No file list is lost (`DuplicateCostsNothing`),
  but a collector that drops the third takes the second for the latest state.
- `gitstate.go:186`: `cmd.Process` is still nil when the timer fires before
  `cmd.Start` is through; nothing is killed.
- `gitstate.go:156` and `gitstate.go:65`: a filter driver set up between the check
  and `status` or `diff` is run by them. And `gitstate.go:40` "committer time
  of HEAD": HEAD may move between the calls of one `Read`.
- `commands.go:216`: `walk` never returns an error, for its callback returns none
  but `SkipDir`: a capture does not fail, and a project whose directory is gone,
  or whose pinned path is a link, is reported as an empty tree.
- `snapshot.go:66` "TreeHash": sizes, line counts and times of files are outside the
  hash, so that the list a marker stands for may have other times than the files
  now have, and other sizes where a file changed between `Info` and the read.
- `walk.go:119` "how git scopes a nested .gitignore": a nested `!name` cannot take
  back what an outer file ignores. `MatchesPath` is asked file by file.
- `wakacfg.go:3` "byte for byte alone": a file of mixed line ends comes out with
  one kind; in one with two `[settings]` sections, or two debug keys in one, the
  effective value may stay off; and what another program wrote between the read
  and the write is gone, as is the file's text when the write fails
  (`EnableFails`). `EditsFollowed` and `OthersKept` name these conditions.
- `projects.go:80` "the partial line": when the tail begins at the start of a line,
  that line is discarded whole. `EditsFollowed` asks for less than the tail.
- `projects.go:35` "newest first": heartbeats are gone through from the end of the
  log and not sorted. Should one be logged after another that is later, the list is
  in the order of the log; `LookupTrue` says so.
- `config.go:209`: the product of multiplier and interval is a 64-bit integer of
  nanoseconds; nothing bounds either factor.
- With `idle_multiplier = 1`, which `config.go` accepts, an edit made while a
  capture runs may age past the limit before the next one: `SessionRecorded` and
  `NothingUnseen` fail (`IdleMultiplier = 1` in their runs). The theorems about
  them ask for two.
- `commands.go:155`: when captures take as long as the interval, the capture
  ticker always has a tick waiting, ever later than it was due; `Spaced` and the
  bound on `pollLate` in `TypeOK` then fail (`daemon_sessions` with
  `MaxBusy = Interval`), while `Cadence` and `WakePrompt` hold all the same.
- `setup.go:84` "done": setup does not look whether the pinned directories are
  there, without which `Load` refuses the config (`config.go:128`), and an agent
  without WakaTime's directory exits (`activity.go:73`); `Undisturbed` asks for
  both.
- `setup.go:95` "keeps its hand-pinned projects" and `setup.go:100` "kept alongside
  for reference": pins are lost when the rename fails, which is ignored, and the
  file is written over; when the write fails, for the file is truncated in place;
  when a second config that does not decode is moved over the backup that holds
  them; and when the user saves them after setup has read the file. `PinsKept`
  leaves out these four.
- `setup.go:27` "that is how an upgrade or a new key is applied": on `linux` and
  `darwin` setup restarts the service's agent and no other. One started from a
  terminal keeps the lock and its key, and the manager starts the service's again
  and again, for ever (`setup_rekey` with `Platforms = ByHand = {"linux"}`:
  `NewKeyRuns` fails). `ManagedKeyRuns` has the exception `LockTaken`.
- `setup.go:118` "0600": a file that was there has its old mode until `Chmod`,
  with the new key in it.
- `install.go:121` "the agent is stopped": the manager's failure is ignored. A
  service that was disabled and not stopped runs on, and is restarted, until the
  next logout; `RemovedIsStopped` has the exception `~unstopped`.

### Bounds

- *Delivery.* `MaxSnaps` 3 or 4 captures against a cap of 2 or 3, `BatchLimit` 1 or
  2 (200 in the code): a queue that fills, overflows, drains in several batches
  and is acked in part. After `MaxSnaps` captures ticks go on with captures that
  fail, so that flushing is not cut short. One crash (`MaxCrashes`) at any point;
  a second adds nothing the first leaves behind that is not queued, late or
  forgotten. `Faults` names the local steps that may fail in a run; a collector
  that refuses and an answer that is lost are always possible. `BodyLimit` counts
  file lists instead of bytes.
- *Daemon.* `Interval` 4, two seconds of two clock ticks, so that log times are cut
  off inside a second and heartbeat ages are not; `IdleMultiplier` 2, `MaxBusy` 3: a
  capture may outlast a poll, and the poll a config asks for may be shorter or
  longer than the interval. One directory is pinned and always live; `daemon_closing`
  has a coarser clock, which its trace does not need. Ages saturate at `Old`, past
  every threshold, so behaviours are unbounded.
- *Agent.* One repository, `MaxSnaps` 3 against a batch of one and a cap of two: a
  session's first and last snapshot and one more, from the session, from the next
  or from a new process; a backlog that takes two ticks and may overflow. Past the
  last snapshot sessions go on, captures cover what they covered and ticks flush.
  Ages saturate as in `Daemon`.
- *Walk.* `MaxEdits` 1 over thirty trees, with walk after walk; two times, and
  contents of equal and of different size. Two edits were checked over two trees,
  before sizes and times were modelled, with the same result. The ten paths have a `.gitignore` beside, above and next to the
  directory it must not govern, a name that is a skipped directory in one place
  and a file in another, and each kind of entry.
- *Follow.* A log of three lines and a tail of five units, where a heartbeat is two:
  the tail begins at a line and inside one, and two whole heartbeats are in it, so
  that there is an order to get wrong. A tail of six, which holds all three, was
  checked too, with the same result. `MaxTime` 4 with seconds of two units and
  `IdleAfter` 2: edits age past the cut-off, and are cut off inside a second. One
  of the four files is further below its repository than `MaxWalkUp`. A config of
  four lines holds two sections, a key in each and one between.
- *GitRead.* A call's timeout is one tick, `MaxCommits` 2; git starts within a
  tick. `ScopeSets`: none, only those of user and machine, one of the repository's
  own beside them. Any number of `Read`s follow one another.
- *Setup.* Two agents: one that runs and one that waits for it. A third adds one
  more that waits. The user may write either of two keys; setup is given one of
  them (`NewKeys`) in `setup_sessions` and both in `setup_rekey`. Behaviours are
  unbounded.

`delivery_rounds` uses symmetry over trees and over paths; it checks no liveness.

### Deadlock

Deadlock is checked in every run.

### Fairness

- `Delivery`: weak fairness of ticks (the user comes back), of the agent's own
  steps (one goroutine, scheduled) and of a request's outcome (bounded by the
  30 s timeout); strong fairness of `Accept` and `ReplyOK` (a collector that is
  asked again and again answers at last, the "when it comes back" of the
  documentation) and of `DrainQueue` and `AckBacklog` (local failures do not last
  for ever). None of `Crash`.
- `Daemon`: weak fairness of the loop and of time.
- `GitRead`: weak fairness of the agent's goroutines and of time (`FairSpec`);
  none of git's exit: that git may hang is the point. `PatientSpec` adds that a
  process git leaves behind ends by itself; with it every `Read` ends, and
  `git_helper` shows that without it one may not.
- `Agent`: weak fairness of the goroutine, of a request's outcome and of time,
  strong fairness of `Accept` and `ReplyOK` as above; none of the user, whose
  coming back is a premise of `FlushesForUser`.
- `Handover`: weak fairness of `Settle`; `Delivery` implements it under its own.
- `Setup`: weak fairness of starting agents, of the manager's restarts
  (`KeepAlive`, `Restart=always`) and of a login after a logout; none of the user.

## Proofs

Checked by TLAPS (SMT, Zenon, LS4) for every value of the constants that meets
the named assumptions: `QueueAssumption`, `DeliveryAssumption`, `EntryAssumption`,
`DaemonAssumption`, `AgentAssumption`, `GitAssumption`, `SetupAssumption`,
`WalkAssumption`, `ProjectsAssumption`, `FollowAssumption`. They say of what kind the constants are, and what `config.go`
enforces; TLC evaluates each in a run. A theorem that needs more says so in its
ASSUME, and the reason is given here.

`SnapshotQueueProofs`:

- `KeysUnbroken` and `CapRespected` rest on `QueueInv`: there are `lo` and `seq`
  with `Keys = lo .. seq`, of which there are at most `MaxEntries`, and every key
  holds an entry. `CapRespected` alone is not inductive: `Push` trims by distance,
  which bounds the number of keys only when they have no hole, and that they have
  none depends on `Ack` removing from the front only. `OldestOfRun` is the lemma
  that makes `Ack` an interval operation: the n oldest of a run are its first n.
- `QueueTypeCorrect` follows from the same invariant.
- `AckIsSafe`: the drained keys are, among the readable ones, the first; of the
  `m` oldest keys each readable one is among the first `m` readable ones. It needs
  the finiteness of the run and no other property of the queue's history.
- `QueueIsFifo`: `SnapshotQueue` implements `BoundedFifo` under `Listing`, the blobs
  in the order of their keys. `ListingIsRun` computes the listing of an unbroken run
  (`QueueInv` again: with holes a `Push` at the cap would drop less than one);
  `PushIsPut` and `AckIsDrop` are the two steps.

`DeliveryProofs`:

- `TypeCorrect` and `NothingLostSilently` rest on `DInv`, the conjunction of
  `TypeOK`, `QueueInv`, `BacklogHeld` and `NoSilentLoss`. `NoSilentLoss` needs
  `BacklogHeld`, which says that what `Drain` returned is still in the queue, or
  already with the collector once a 2xx was seen, until `Ack`: without it the step
  `AckBacklog` could retire what nobody holds. `QueuedSnapshots` and
  `AccountedStep` are the frame: every action moves snapshots between the sets of
  `Accounted` and drops none.
- `CaptureOrder` and `HandsOver` rest on `HInv`, which adds to `DInv` that every
  snapshot anywhere has a number below `next` (`Numbered`), that a request which
  outlived the agent's patience carries nothing else (`LateKnown`), and
  `OldestFirst`. Order needs `Numbered`: a new snapshot comes after all others only
  because none has a number that is still to be given. The hand-over needs order:
  a failed `Push` or a crash writes a snapshot off for good only if it is not in
  the queue as well (`Apart`), and that this round is newer than everything queued
  is what says so.
- `HandsOver` is the safety of the refinement, `Outcomes!Safety`: initial states
  are initial states, and every step is `Take`, `Deliver`, `WriteOff` or none
  (`HandoverStep`, one case per action). `ImplementsHandover`, which TLC checks,
  adds the fairness.
- `QueueUnderTicks`: what `SnapshotQueueProofs` shows of a queue whose caller may
  do anything holds of the queue in `Delivery`, crashes and failures included.
- `MarkersStand` rests on `MInv`, which adds to `HInv` and `MarkersAnchored` that a
  marker in a request under way has its file list kept or in the same request
  (`LateAnchored`), and that a snapshot of this round older than one already sent
  was sent with it (`SentTogether`). The hard step is the crash, which takes the
  round from memory: `SentTogether` says that no marker which outlives it, not even
  one in a late request, has its list among what is lost.
- `MarkersAreExact` asks that no two paths share a name. Without that it is false
  (see above).
- `RepeatsAreExcused` and `TicksAreFifo` ask for `Leftover = 0`: that no earlier
  build left entries this one cannot decode. The first is false otherwise
  (`delivery_resend`); the second maps an initial state to the empty buffer. The
  inductive invariant of the first, `RInv`, says that what the agent still holds and
  the collector has is in doubt, or in the batch being answered (`HeldTwice`), and
  that all blobs decode (`Decodes`), so that `Ack` counts what `Drain` returned.

`DaemonProofs`:

- `CadenceHolds` and `WakesPromptly` hold for all constants and rest on `DInv`,
  the conjunction of `Types`, `Scopes`, `InTime` and `Heeded`.
  `InTime` relates the ticker to history: between captures the time since the last
  and the time to the next are together at most the interval and one capture.
  `Heeded` does the same for polls and heartbeats: one that goes unheeded will be
  seen by a poll that is at most its period away, counted from the instant it is
  due, and only a closing capture makes the loop late for it.
- `DaemonTypeCorrect` and `CapturesAreSpaced` ask for `MaxBusy < Interval`: a
  capture is over before the next is due. Without it a tick waits ever longer
  (see above), and a periodic capture follows a late one by less. `Punctual` bounds
  how late each ticker is where in the loop: while active the capture tick never
  waits. `Apart` is the lower bound to `InTime`'s upper one.
- `NothingIsUnseen` asks for `IdleMultiplier >= 2` as well, and is false for one.
  `Tracked` is its invariant: what is dirty while active is younger than the next
  capture reaches back, and while dormant than the heartbeat that goes unheeded.

`GitReadProofs`: `GInv` has a conjunct per concern: `CallInv` (how caller, worker,
process and pipe of one call may stand to each other), `TimeInv` (the time spent
is at most that of the calls so far and of the timer), `FilterInv` (what was
concluded from the filter check, how far the calls may get on it, and that what
has been set up since is all they may meet), `OrderInv`
(`NothingStale` with what the call under way has seen), `CountsTrue`.

- `CallsAreBounded`, for every `Timeout`. `ReadBounded` alone is not inductive: a
  call may only take its timeout if those before took no more, and `caller = "wait"`
  must mean that git is gone (`CallInv`).
- `FiltersStayOff`, `ReadsAreOrdered`, `GitTypeCorrect` follow from `GInv`.
- `CountsAreTrue`: the code's three tests agree with git's table for every
  working tree, by cases on the pair of letters; the sum over a tree is the same
  set comprehension on both sides.

`SetupProofs`, for any keys, any number of agents, any set of platforms and faults:

- All three theorems rest on `SInv`. `RemovedIsStopped` speaks of a login item that is
  gone; inductive is `Tended`: what the manager runs or starts has its file, or is
  about to lose it after a stop that worked, or escaped one that did not.
- `PinsSurvive`: `PinsKept` needs `CarriedOver`: a setup that is about to write no
  pins, where some are owed, has them in the backup. The user's saves between
  setup's steps are what `owed` has to be told of.

`WalkProofs`, for any paths, names, `.gitignore` rules and trees, and any number of
changes at any moment:

- Everything rests on `WalkIsRight`, the invariant `WInv`. Its parts say of each
  thing the walk has concluded that it is right but for what has changed since the
  walk began: of the rules loaded (`Sound`), what is listed (`Listed`), the
  directory it enters (`Entered`), the file it opens (`Examined`), the records
  (`Recorded`) and the files left out (`Omitted`). `Seen` says that nothing is
  missed: what should be found is still to come, recorded, left out or no regular
  file. `skipped` is a mere count; that it counts the right files is an
  existential, a set of as many files with these properties (`LeftOut`).
- `Apart` makes the count exact: what is listed has not been visited, so a file
  that is recorded or left out is neither already. `Steady` and `SteadyFacts` are
  the frame: no edit goes unnoticed by `touched`, so what was concluded of the rest
  stands.
- The two sides of `UntouchedExact` read a `.gitignore` differently: the walk cuts
  each path at the file's directory and asks twice about a directory, the reference
  definition looks for a rule that matches the path or a directory on the way.
  `RulesFound` and `RulesExclude` go from one to the other; that all rules that
  govern a path are loaded when it is reached is in `Listed` and `Entered`.
- `UntouchedAreExact` and `ExcludedStayOut` follow. `MarkersAreTrue` adds `Hashes`:
  the hash last reported is that of the list last sent, and of the tree as it is if
  nothing changed since the walk behind it began. `TreeHashTells` is where the
  hash is taken to be as good as the set of its lines, of paths and contents: two
  lists with one hash may differ in sizes and times. That the list sent last agrees
  with the tree takes `Recorded` and `Seen` of the walk that is over, and
  `TreeHashTells` to get from its list to the one sent.

`AgentProofs`:

- `AgentIsDaemon` and `AgentIsDelivery`: the composition is a `Daemon` and a
  `Delivery`, under its own assumption alone. Each action of `Agent` is one of each
  component or leaves its variables as they were; that the projects of a round are
  repositories or pins (`TodoOK`) is the only invariant that takes. So every theorem
  above holds of the whole agent, with `Leftover = 0`.
- `SessionsAreRecorded` joins both halves: `NothingUnseen`, transferred from
  `Daemon`, speaks of what a capture covered; that whatever is covered and not
  snapshotted is still to be done in the tick under way (`Pending`) makes it speak
  of snapshots. Its hypotheses are those of `NothingIsUnseen`.
- `DuplicatesCostNothing`: what a collector has, or may get, has its file list or,
  by `MarkersStand`, transferred from `Delivery`, marks an earlier one that is kept.
  That asks nothing of the second the two were taken in, nor of the process, so
  the theorem holds of a restart within the second.

`FollowProofs`, for any repositories, files, configs and log, and any tail:

- `RecentIsNewest`, of the lookup alone: for every log, a repository is in the list
  exactly if a recent heartbeat in the tail was in it, once, and before another
  exactly if its last such heartbeat is further down the log. `RecentProjects` goes
  through the log from its end, so the proof is an induction over the log:
  `Unrolled` shows that there is a function that satisfies the recursive equation
  (`Iteration` builds it step by step), `NewestStep` is one turn of the loop, and
  `Backwards` is the induction. The inductions are by the least element of a set
  (`Least`, from the library's `WFMin`).
- `WithDebugTurnsOn` and `WithDebugSettles`, of the editor alone: of every file with
  one `[settings]` section and one debug key at most the result has debug logging
  on; and of every file, ordinary or not, a second run of `setup` changes nothing
  more. `wakacfg_test.go:81` tests the latter on one file. `WithDebugIs` puts what
  comes out into three shapes: a key rewritten, a line under the header, a section
  at the end.
- `FollowTypeCorrect` and `EditsAreFollowed` rest on `FInv`. `EditsFollowed` is not
  inductive: that an edit is still found is a statement about the log's end, so
  `PromiseKept` says instead that each edit owed is a line of the log, at its place,
  and `LogInOrder` that places grow, so that a line less than the tail from the end
  is in the tail. `PromiseKept` takes `WithDebugTurnsOn`: were logging off under the
  promise, an edit would be owed that was never logged.
- `LookupIsTrue` follows from `RecentIsNewest` and `LogInOrder`; `UnixApart` is where
  the second comes from. An attempt at it showed that an earlier form of `LookupTrue`,
  with the order of times, was false, and that it has to say how far up the walk goes;
  the bounds of `follow_edits` were too small to tell.
- `OthersAreKept` is an action property: what `EnableDebug` writes, if nobody wrote in
  between, differs from what it read in one key of `[settings]` (`ChangesOneKey`), and keeps the line
  ends of a file that has one kind (`EndsKept`).

Only model-checked: all liveness, that of `Setup` (`ManagedKeyRuns`, `OneRuns`,
`NewKeyRuns`) included, and the fairness in `ImplementsHandover`. Liveness under
fairness and `ENABLED` are out of this prover's reach, as are the library's
induction theorems that take an operator, and `RECURSIVE` operators, of which there
are none here. Every safety property of a run that passes is stated by a theorem.

## Plan

Done: every component but the command line, as listed above, and the proofs of what
can be proved of them.

Not modelled, and why: `once` and `doctor` print and keep no state (`doctor` takes
the queue's lock for a moment, less than an agent waits for it); the defaults of
single config fields, the syntax of endpoints and paths, and `projectName`, whose
results reach the models as given (a usable config, a name per directory); the
collector beyond what `devserver.go` and the protocol's description ask of it;
HTTP redirects; line counts of files; clock steps backwards.
