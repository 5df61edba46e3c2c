------------------------------ MODULE WakaCfg ------------------------------
(***************************************************************************)
(* Turning on WakaTime's debug log, WithDebug in internal/wakacfg, as a    *)
(* function on files, next to what a file means to WakaTime.               *)
(*                                                                         *)
(* A file is the sequence of parts that splitting it at "\n" gives, so     *)
(* never empty; << >> stands for no file.  Of the text of a part what      *)
(* matters is its kind, and whether its end was "\r\n", which that of the  *)
(* last part cannot be.                                                    *)
(***************************************************************************)
EXTENDS Integers, FiniteSets, SequencesExt

\* "settings" is the header [settings], "section" any other; "on" and "off" are
\* debug keys with the value true, or another; "text" is any other line.
Texts == { "blank", "settings", "section", "on", "off", "text" }
Part == [ text: Texts, cr: BOOLEAN ]
Absent == << >>
IsFile(f) == f \in Seq(Part) /\ (f # Absent => ~Last(f).cr)

Header(p) == p.text \in { "settings", "section" }
DebugKey(p) == p.text \in { "on", "off" }

-----------------------------------------------------------------------------
(* WakaTime's side: sections of one name are one, the last key counts.     *)

DebugKeys(f) ==
  { i \in DOMAIN f :
      /\ DebugKey(f[i])
      /\ \E h \in 1 .. i : /\ f[h].text = "settings"
                           /\ \A j \in h + 1 .. i : ~Header(f[j]) }

DebugOn(f) ==
  \E i \in DebugKeys(f) : f[i].text = "on" /\ \A j \in DebugKeys(f) : j <= i

\* One [settings] section at most, with at most one debug key.
Ordinary(f) ==
  /\ Cardinality({ i \in DOMAIN f : f[i].text = "settings" }) <= 1
  /\ Cardinality(DebugKeys(f)) <= 1

-----------------------------------------------------------------------------
(* WithDebug.                                                              *)

Crlf(f) == \E i \in DOMAIN f : f[i].cr

\* All the lines joined with one ending.
Join(f, crlf) == [ i \in DOMAIN f |-> [ text |-> f[i].text, cr |-> crlf /\ i < Len(f) ] ]

Line(text) == [ text |-> text, cr |-> FALSE ]

\* The index of the first [settings] header, or 0.
Settings(f) == SelectInSeq(f, LAMBDA p : p.text = "settings")

\* Mutant of OwnKeys: sections have no end.
OwnKeysPastEnd(f) ==
  { i \in DOMAIN f : DebugKey(f[i]) /\ 0 < Settings(f) /\ Settings(f) < i }

\* The debug keys in that section, before the next header.
OwnKeys(f) ==
  { i \in DOMAIN f :
      /\ DebugKey(f[i]) /\ 0 < Settings(f) /\ Settings(f) < i
      /\ \A j \in Settings(f) + 1 .. i : ~Header(f[j]) }

First(S) == CHOOSE i \in S : \A j \in S : i <= j

\* TrimRight of line ends.
Trimmed(f) == SubSeq(f, 1, SelectLastInSeq(f, LAMBDA p : p.text # "blank"))

Appended(f) ==
  Trimmed(f) \o (IF Trimmed(f) = << >> THEN << >> ELSE << Line("blank") >>)
             \o << Line("settings"), Line("on"), Line("blank") >>

\* Mutant of Inserted: takes the place of the line under the header.
InsertedOver(f) == ReplaceAt(f, Settings(f) + 1, Line("on"))
Inserted(f) == InsertAt(f, Settings(f) + 1, Line("on"))

\* The file, with debug = true: as it is, with the key rewritten in place, or
\* added under the header, or in a section at the end.
WithDebug(f) ==
  IF OwnKeys(f) # {}
  THEN IF f[First(OwnKeys(f))].text = "on" THEN f
       ELSE Join(ReplaceAt(f, First(OwnKeys(f)), Line("on")), Crlf(f))
  ELSE Join(IF Settings(f) # 0 THEN Inserted(f) ELSE Appended(f), Crlf(f))

-----------------------------------------------------------------------------
Text(f) == [ i \in DOMAIN f |-> f[i].text ]

\* new is old with one debug key of [settings] rewritten, one added there, or,
\* where there was no such section, with [settings] after its last line.
OneKey(old, new) ==
  \/ \E i \in DOMAIN new :
       /\ new[i].text = "on"
       /\ \/ i \in DebugKeys(old) /\ Text(new) = ReplaceAt(Text(old), i, "on")
          \/ i \in DebugKeys(new) /\ RemoveAt(Text(new), i) = Text(old)
  \/ /\ Settings(old) = 0
     /\ LET n == Len(Trimmed(old))
        IN  /\ Text(SubSeq(new, 1, n)) = Text(Trimmed(old))
            /\ ToSet(Text(SubSeq(new, n + 1, Len(new)))) = { "blank", "settings", "on" }

\* One kind of line end.
Uniform(f) == \A i, j \in 1 .. Len(f) - 1 : f[i].cr = f[j].cr
=============================================================================
