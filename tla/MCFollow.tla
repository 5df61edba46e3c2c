------------------------------ MODULE MCFollow ------------------------------
(***************************************************************************)
(* Follow for TLC: every config of up to four parts, with nothing logged,  *)
(* and a few with a log.  The home directory is a repository, and so is    *)
(* one in it, with another one inside.  The last file is further below its *)
(* repository than the walk goes up.                                       *)
(***************************************************************************)
EXTENDS Follow

MCHome == << "home" >>
MCGitDirs == { MCHome, << "home", "a" >>, << "home", "a", "b" >> }
MCFiles == { << "home", "note" >>, << "home", "a", "main" >>,
             << "home", "a", "b", "main" >>, << "home", "a", "c", "d", "main" >> }

\* Files with these texts: the last part never has a "\r".
MCParts(n) ==
  { f \in [ 1 .. n -> Part ] : ~f[n].cr }

MCFile(texts) == [ i \in DOMAIN texts |-> [ text |-> texts[i], cr |-> FALSE ] ]
MCOff == MCFile(<< "settings", "text", "off", "blank" >>)
MCBare == MCFile(<< "settings", "text", "blank" >>)

MCEdited == { MCBare, Absent }

MCBeginnings ==
  { [ cfg |-> f, lines |-> 0 ] : f \in UNION { MCParts(n) : n \in 1 .. 4 } }
    \cup { [ cfg |-> f, lines |-> 3 ] : f \in { MCOff, MCBare } }
=============================================================================
