----------------------------- MODULE GitOutput -----------------------------
(***************************************************************************)
(* What git prints about a working tree, and what gitstate.go makes of it. *)
(* A line of status is its two-letter code, for nothing else is read; the  *)
(* summary of diff is the parts between its commas, each a number and a    *)
(* word in the singular.                                                   *)
(***************************************************************************)
EXTENDS Integers, FiniteSets, SequencesExt

\* The State fields that count something in the working tree or the history.
NoCounts ==
  [ Dirty |-> FALSE, Staged |-> 0, Modified |-> 0, Untracked |-> 0, Conflicted |-> 0,
    Insertions |-> 0, Deletions |-> 0, Ahead |-> 0, Behind |-> 0 ]

-----------------------------------------------------------------------------
(* git's side: its manual's table of codes, its --shortstat.               *)

Unmerged == { << "D", "D" >>, << "A", "U" >>, << "U", "D" >>, << "U", "A" >>,
              << "D", "U" >>, << "A", "A" >>, << "U", "U" >> }
Untracked == { << "?", "?" >> }
Tracked == ({ " ", "M", "T", "A", "D", "R", "C" } \X { " ", "M", "T", "D" })
             \ { << " ", " " >>, << "D", "D" >> }

Codes == Unmerged \cup Untracked \cup Tracked

\* A count of zero is left out, and so is the whole when there is no change.
CountOf(n, word) == IF n = 0 THEN << >> ELSE << [ n |-> n, word |-> word ] >>
Shortstat(files, ins, del) ==
  CountOf(files, "file") \o CountOf(ins, "insertion") \o CountOf(del, "deletion")

-----------------------------------------------------------------------------
(* The agent's side.                                                       *)

\* Mutant of IsConflict: only the pairs of equal letters.
IsConflictBoth(x, y) == (x = "U" /\ y = "U") \/ (x = y /\ x \in { "A", "D" })

IsUntracked(x, y) == x = "?" /\ y = "?"
IsConflict(x, y) == x = "U" \/ y = "U" \/ (x = "A" /\ y = "A") \/ (x = "D" /\ y = "D")

\* The fields a line with code << x, y >> adds one to.
Tallied(x, y) ==
  IF IsUntracked(x, y) THEN { "Untracked" }
  ELSE IF IsConflict(x, y) THEN { "Conflicted" }
  ELSE { f \in { "Staged", "Modified" } : IF f = "Staged" THEN x # " " ELSE y # " " }

countStatus(s, out) ==
  LET n(f) == Cardinality({ i \in DOMAIN out : f \in Tallied(out[i][1], out[i][2]) })
  IN  [ s EXCEPT !.Untracked = n("Untracked"), !.Conflicted = n("Conflicted"),
                 !.Staged = n("Staged"), !.Modified = n("Modified") ]

Part(out, word) == { i \in DOMAIN out : out[i].word = word }
Number(out, word) ==
  IF Part(out, word) = {} THEN 0 ELSE out[CHOOSE i \in Part(out, word) : TRUE].n

\* Mutant of parseShortstat: goes by position.
ByPosition(s, out) ==
  [ s EXCEPT !.Insertions = IF Len(out) > 1 THEN out[2].n ELSE 0,
             !.Deletions = IF Len(out) > 2 THEN out[3].n ELSE 0 ]
parseShortstat(s, out) ==
  [ s EXCEPT !.Insertions = Number(out, "insertion"),
             !.Deletions = Number(out, "deletion") ]

\* Behind, a tab, ahead.
countUpstream(s, out) == [ s EXCEPT !.Behind = out[1], !.Ahead = out[2] ]
=============================================================================
