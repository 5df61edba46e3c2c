------------------------------- MODULE Follow -------------------------------
(***************************************************************************)
(* How the agent follows the user: setup turns on WakaTime's debug log     *)
(* (EnableDebug), WakaTime logs the heartbeats of the editor as long as    *)
(* its config says so, and the agent looks up in the log which             *)
(* repositories they were in.  The config is the user's, who may write it  *)
(* between EnableDebug's reading it and its writing it.                    *)
(***************************************************************************)
EXTENDS WakaCfg, Projects

CONSTANTS
  Beginnings,  \* configs to begin with, and how many lines may be logged then
  Edited,      \* what the user may make of the config
  IdleAfter,   \* how far back the agent looks
  MaxTime      \* bound: how long a behaviour lasts

ASSUME FollowAssumption ==
  /\ \A b \in Beginnings : IsFile(b.cfg) /\ b.lines \in Nat
  /\ \A f \in Edited : IsFile(f)
  /\ IdleAfter \in Nat /\ MaxTime \in Nat

VARIABLES
  cfg,       \* ~/.wakatime.cfg
  log,       \* wakatime.log
  now,
  setup,     \* EnableDebug: "idle", or about to "write"
  read,      \* the config as it read it
  lines,     \* log lines left to this behaviour
  \* history
  promised,  \* EnableDebug has returned, and nobody else wrote since
  owed       \* edits made since, with how long the log was before them

setupVars == << setup, read >>
vars == << cfg, log, now, setupVars, lines, promised, owed >>

Since == now - IdleAfter
Looked == RecentProjects(log, Since)

-----------------------------------------------------------------------------
(* EnableDebug.                                                            *)

\* With no config WakaTime is not installed; with debug on nothing is changed.
EnableRead ==
  /\ setup = "idle" /\ cfg # Absent
  /\ IF WithDebug(cfg) = cfg
     THEN promised' = Ordinary(cfg) /\ UNCHANGED setupVars
     ELSE setup' = "write" /\ read' = cfg /\ UNCHANGED promised
  /\ UNCHANGED << cfg, log, now, lines, owed >>

EnableWrite ==
  /\ setup = "write"
  /\ cfg' = WithDebug(read) /\ promised' = Ordinary(read)
  /\ setup' = "idle" /\ read' = Absent
  /\ UNCHANGED << log, now, lines, owed >>

\* The config went away meanwhile, and Stat fails; or WriteFile empties it and
\* fails.
EnableFails ==
  /\ setup = "write"
  /\ cfg' = IF cfg = Absent THEN Absent ELSE << Line("blank") >>
  /\ setup' = "idle" /\ read' = Absent /\ promised' = FALSE
  /\ UNCHANGED << log, now, lines, owed >>

-----------------------------------------------------------------------------
(* The user, the editor and wakatime-cli.                                  *)

EditCfg ==
  /\ cfg' \in Edited \ { cfg }
  /\ promised' = FALSE
  /\ UNCHANGED << log, now, setupVars, lines, owed >>

Due(file, time, at) ==
  IF promised THEN { [ file |-> file, time |-> time, at |-> at ] } ELSE {}

LastWhole == log # << >> => Last(log).whole

\* wakatime-cli has a heartbeat, of this moment or the one before.
Beat(file, time) ==
  /\ lines > 0 /\ LastWhole
  /\ lines' = lines - 1
  /\ IF DebugOn(cfg)
     THEN /\ log' = Append(log, [ at |-> End(log), beat |-> TRUE, file |-> file,
                                  time |-> time, whole |-> FALSE ])
          /\ UNCHANGED owed
     ELSE owed' = owed \cup Due(file, time, End(log)) /\ UNCHANGED log
  /\ UNCHANGED << cfg, now, setupVars, promised >>

\* Its line in the log is complete.
Logged ==
  /\ ~LastWhole
  /\ log' = ReplaceAt(log, Len(log), [ Last(log) EXCEPT !.whole = TRUE ])
  /\ owed' = owed \cup Due(Last(log).file, Last(log).time, Last(log).at)
  /\ UNCHANGED << cfg, now, setupVars, lines, promised >>

\* Anything else it logs.
Noise ==
  /\ lines > 0 /\ LastWhole
  /\ lines' = lines - 1
  /\ log' = Append(log, [ at |-> End(log), beat |-> FALSE, file |-> CHOOSE f \in Files : TRUE,
                          time |-> 0, whole |-> TRUE ])
  /\ UNCHANGED << cfg, now, setupVars, promised, owed >>

Pass ==
  /\ now < MaxTime
  /\ now' = now + 1
  /\ UNCHANGED << cfg, log, setupVars, lines, promised, owed >>

-----------------------------------------------------------------------------
Init ==
  /\ \E b \in Beginnings : cfg = b.cfg /\ lines = b.lines
  /\ log = << >> /\ now = 1
  /\ setup = "idle" /\ read = Absent /\ promised = FALSE /\ owed = {}

Next ==
  \/ EnableRead \/ EnableWrite \/ EnableFails \/ EditCfg
  \/ \E file \in Files, time \in { now - 1, now } : Beat(file, time)
  \/ Logged \/ Noise \/ Pass

Spec == Init /\ [][Next]_vars

-----------------------------------------------------------------------------
\* The directories with a .git around a file, and the repository it is in.
Around(file) == { d \in GitDirs : IsStrictPrefix(d, file) }
InRepo(file, d) == d \in Around(file) /\ \A e \in Around(file) : Len(e) <= Len(d)

\* "It edits one key and leaves every other line --- api_key, api_url, comments
\* --- byte for byte alone": if nobody wrote in between, and the file has one
\* kind of line end, which then is that of all its lines.
OthersKept ==
  [][ EnableWrite /\ cfg = read =>
        /\ OneKey(cfg, cfg')
        /\ Uniform(cfg) /\ Len(cfg) > 1 =>
             \A i \in 1 .. Len(cfg') - 1 : cfg'[i].cr = cfg[1].cr ]_vars

\* "the recent entries at the end must still be found": once EnableDebug has
\* returned, on a config with one [settings] section and one debug key at most,
\* debug logging is on, and every edit from then on, as long as it is recent and
\* less than the tail has been logged since, has its repository looked up; but
\* not home, nor one that is too far up.
EditsFollowed ==
  promised =>
    /\ DebugOn(cfg)
    /\ \A e \in owed : \A d \in Around(e.file) :
         /\ InRepo(e.file, d) /\ d # Home /\ Len(e.file) - Len(d) <= MaxWalkUp
         /\ e.time >= Since /\ End(log) - e.at < TailUnits
         => d \in ToSet(Looked)

\* "the repositories WakaTime recorded edits in since the given moment, newest
\* first, one entry per repository": each is the one an edited file is in, no
\* further up than the walk goes and never home, and the edit is too old by less
\* than a second at most; and it comes before another for an edit logged after all
\* those in the other since then.
LookupTrue ==
  LET edits(d, slack) == { i \in DOMAIN log :
                             /\ log[i].beat /\ log[i].whole /\ InRepo(log[i].file, d)
                             /\ Len(log[i].file) - Len(d) <= MaxWalkUp
                             /\ log[i].time > Since - slack }
  IN  /\ \A i \in DOMAIN Looked : Looked[i] # Home /\ edits(Looked[i], Second) # {}
      /\ \A i, j \in DOMAIN Looked :
           i < j => \E m \in edits(Looked[i], Second) : \A n \in edits(Looked[j], 1) : m > n
=============================================================================
