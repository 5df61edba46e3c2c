------------------------------ MODULE Projects ------------------------------
(***************************************************************************)
(* From WakaTime's log to the repositories the user works in: the lookup   *)
(* of internal/activity/projects.go, as functions of the log and of the    *)
(* moment.  A path is the sequence of its names from the volume's root.    *)
(***************************************************************************)
EXTENDS Integers, FiniteSets, SequencesExt

CONSTANTS
  Files,      \* the files the user edits
  GitDirs,    \* the directories that hold a .git
  Home,       \* the user's home directory
  MaxWalkUp,  \* directories tried for one file (40)
  TailUnits,  \* how much of the log is read (256 KB); a heartbeat is two
  Second      \* units of time in a second

ASSUME ProjectsAssumption ==
  /\ Files # {} /\ \A p \in Files \cup GitDirs : p \in Seq(Range(p))
  /\ MaxWalkUp \in Nat /\ TailUnits \in Nat /\ Second \in Nat \ {0}

\* A line of the log, which begins at a place in it: a heartbeat, or anything
\* else, which is half as long.  One that is still being written is not whole.
LogLine == [ at: Nat, beat: BOOLEAN, file: Files, time: Int, whole: BOOLEAN ]

Size(l) == IF l.beat /\ l.whole THEN 2 ELSE 1

\* How long the log is.
End(log) == IF log = << >> THEN 0 ELSE Last(log).at + Size(Last(log))

-----------------------------------------------------------------------------
\* Mutant of LinesRead: the first line is discarded of a short log as well.
LinesButFirst(log) ==
  { i \in DOMAIN log : i > 1 /\ log[i].at > End(log) - TailUnits }

\* The lines read: all of a short log; of a long one, those that begin after the
\* place the seek goes to, for the line that place is in is discarded.
LinesRead(log) ==
  { i \in DOMAIN log : End(log) > TailUnits => log[i].at > End(log) - TailUnits }

Unix(t) == t \div Second

\* The heartbeats since then in the tail, by their place in the log.
recentHeartbeats(log, since) ==
  { i \in LinesRead(log) : /\ log[i].beat /\ log[i].whole
                           /\ Unix(log[i].time) >= Unix(since) }

\* Mutant of repoRoot: home is a repository like another.
RootEvenHome(file) ==
  LET hits == { d \in GitDirs : /\ IsStrictPrefix(d, file)
                                /\ Len(file) - Len(d) <= MaxWalkUp }
  IN  { d \in hits : \A e \in hits : Len(e) <= Len(d) }

\* The nearest of the first MaxWalkUp directories around the file that holds a
\* .git, if there is one and it is not home; as a set.
repoRoot(file) ==
  LET hits == { d \in GitDirs : /\ IsStrictPrefix(d, file)
                                /\ Len(file) - Len(d) <= MaxWalkUp }
  IN  { d \in hits \ { Home } : \A e \in hits : Len(e) <= Len(d) }

\* A repository at the end of those found, unless it is there or there is none.
Found(out, root) ==
  IF root \subseteq ToSet(out) THEN out ELSE Append(out, CHOOSE d \in root : TRUE)

\* The repositories, each once: those of the lines from i on, the last one first.
RecentProjects(log, since) ==
  LET out[i \in 1 .. Len(log) + 1] ==
        IF i \in recentHeartbeats(log, since)
        THEN Found(out[i + 1], repoRoot(log[i].file))
        ELSE IF i <= Len(log) THEN out[i + 1] ELSE << >>
  IN  out[1]
=============================================================================
