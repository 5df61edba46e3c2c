-------------------------------- MODULE Walk --------------------------------
(***************************************************************************)
(* Capturing a tree: walk in internal/snapshot/walk.go, hashFile, TreeHash *)
(* and the unchanged marker, while the user goes on creating, writing and  *)
(* removing files.  The walk lists a directory, then looks at each entry   *)
(* of the listing, then reads it: three moments between which the tree may *)
(* change.                                                                 *)
(*                                                                         *)
(* A path is the sequence of its names below the root, which is << >>.     *)
(* A file has a content, on which its size depends and its count of lines, *)
(* and a time; the content of a file named IgnoreName is also a set of     *)
(* rules.  The lines are counted in what is hashed, and left out; the size *)
(* and the time come from the look before, and are not hashed.             *)
(***************************************************************************)
EXTENDS Integers, FiniteSets, SequencesExt

CONSTANTS
  Dirs, Files,   \* the paths at which there may be a directory, or a file
  NameOrder,     \* the names, in lexical order
  AlwaysSkip,    \* names of directories that are never entered
  IgnoreName,    \* ".gitignore"
  Contents,      \* what a file may contain
  SizeIn,        \* the size of each
  Times,         \* the times at which files may have been modified
  RulesIn,       \* the rules each content makes, read as a .gitignore
  Trees,         \* the trees a behaviour may begin with
  MaxEdits       \* bound: changes the user makes in one behaviour

\* What there is at a path.  A big file is over the cap on its size; a locked
\* one cannot be opened, or if a directory listed; a link, device or socket is
\* not regular.
Kinds == { "dir", "lockedDir", "file", "big", "locked", "link" }
Node == [ kind: Kinds, content: Contents, time: Times ]

\* A rule of a .gitignore: a name, whether only one right beside the .gitignore
\* counts ("/x"), and whether only a directory does ("x/").
Rule == [ name: Range(NameOrder), anchored: BOOLEAN, dirOnly: BOOLEAN ]

\* The directories a path is in, the root first.
Around(p) == { SubSeq(p, 1, i) : i \in 0 .. Len(p) - 1 }

\* Whatever is there is in a directory, and of a kind that goes with its path.
IsTree(t) ==
  /\ DOMAIN t \subseteq Dirs \cup Files
  /\ \A p \in DOMAIN t : /\ t[p] \in Node /\ Around(p) \subseteq DOMAIN t
                         /\ p \in Dirs <=> t[p].kind \in { "dir", "lockedDir" }

ASSUME WalkAssumption ==
  /\ NameOrder \in Seq(Range(NameOrder))
  /\ Dirs \cup Files \subseteq Seq(Range(NameOrder))
  /\ << >> \in Dirs /\ Dirs \cap Files = {} /\ IsFiniteSet(Files)
  /\ \A p \in Dirs \cup Files : Around(p) \subseteq Dirs
  /\ RulesIn \in [ Contents -> SUBSET Rule ]
  /\ SizeIn \in [ Contents -> Nat ] /\ Times \subseteq Nat
  /\ \A t \in Trees : IsTree(t)
  /\ MaxEdits \in Nat

VARIABLES
  fs,        \* the tree, a function from the paths in use to nodes
  \* the walk
  step,      \* "idle", at an entry: "visit", then "list" it or "hash" it
  pending,   \* entries listed and not done with, with the kind they had then
  info,      \* what d.Info said of the file about to be read
  matchers,  \* the .gitignore files loaded, with the directory of each
  files,     \* the records made so far
  skipped,   \* how many files were left out for their size or an error
  \* between walks
  lastHash,  \* the hash last reported, as a set: empty before the first
  \* history
  sent,      \* the file list of the last snapshot that had one
  marker,    \* the last snapshot went without
  touched,   \* paths changed since the walk began
  still,     \* how many walks, up to two, have begun since the last change
  edits

walkVars == << step, pending, info, matchers, files, skipped >>
reportVars == << lastHash, sent, marker >>
vars == << fs, walkVars, reportVars, touched, still, edits >>

\* What is at p at this moment.
Now(p) == IF p \in DOMAIN fs THEN fs[p].kind ELSE "gone"

\* What Info says of the file at p now, and what is recorded of a file.
Info(p) == [ size |-> SizeIn[fs[p].content], time |-> fs[p].time ]
Record(p) == [ path |-> p, content |-> fs[p].content, info |-> Info(p) ]
NoInfo == [ size |-> 0, time |-> 0 ]
Infos == [ size: { 0 } \cup Range(SizeIn), time: { 0 } \cup Times ]

-----------------------------------------------------------------------------
(* .gitignore.                                                             *)

\* GitIgnore.MatchesPath: whether a rule matches sub, or a directory on the way
\* to it; slash says that sub ends in a separator.
MatchesPath(rules, sub, slash) ==
  \E r \in rules, i \in 1 .. Len(sub) :
    /\ sub[i] = r.name
    /\ r.anchored => i = 1
    /\ r.dirOnly => i < Len(sub) \/ slash

\* Mutant of Governs: every .gitignore counts everywhere.
GovernsAll(base, rel) == Len(base) < Len(rel)
\* rel is below base.
Governs(base, rel) == IsStrictPrefix(base, rel)

\* rel against every .gitignore that governs it, relative to its directory.
ignored(ms, rel, isDir) ==
  \E m \in ms :
    /\ Governs(m.base, rel)
    /\ LET sub == SubSeq(rel, Len(m.base) + 1, Len(rel))
       IN  MatchesPath(m.rules, sub, FALSE) \/ (isDir /\ MatchesPath(m.rules, sub, TRUE))

\* The .gitignore in dir, if there is one and it can be read.
loadIgnore(dir) ==
  LET p == Append(dir, IgnoreName)
  IN  IF Now(p) \in { "file", "big", "link" }
      THEN matchers \cup { [ base |-> dir, rules |-> RulesIn[fs[p].content] ] }
      ELSE matchers

-----------------------------------------------------------------------------
(* The walk, filepath.WalkDir and its callback.                            *)

Rank(n) == CHOOSE i \in DOMAIN NameOrder : NameOrder[i] = n

\* WalkDir takes p first: its name is, where the two part.
Before(p, q) ==
  \E i \in DOMAIN p \cap DOMAIN q :
    SubSeq(p, 1, i - 1) = SubSeq(q, 1, i - 1) /\ Rank(p[i]) < Rank(q[i])

Entry(p) == [ path |-> p, kind |-> fs[p].kind ]

Isdir(e) == e.kind \in { "dir", "lockedDir" }

\* Mutant of Begin: the records of the walk before stay.
BeginKeeps ==
  /\ step = "idle"
  /\ step' = "visit"
  /\ pending' = IF << >> \in DOMAIN fs THEN { Entry(<< >>) } ELSE {}
  /\ touched' = {} /\ still' = IF still = 0 THEN 1 ELSE 2
  /\ UNCHANGED << fs, info, matchers, files, skipped, reportVars, edits >>

\* WalkDir looks at the root; one that is gone ends the walk with no error.
Begin ==
  /\ step = "idle"
  /\ step' = "visit"
  /\ pending' = IF << >> \in DOMAIN fs THEN { Entry(<< >>) } ELSE {}
  /\ matchers' = {} /\ files' = {} /\ skipped' = 0
  /\ touched' = {} /\ still' = IF still = 0 THEN 1 ELSE 2
  /\ UNCHANGED << fs, info, reportVars, edits >>

\* The walk is at e: nothing else that was listed comes before it.
At(e) == e \in pending /\ \A f \in pending \ { e } : Before(e.path, f.path)

\* Done with it.
Leave(e) == step' = "visit" /\ pending' = pending \ { e }

\* Mutant of Pruned: no list of directories to skip.
PrunedByRules(e) == e.path # << >> /\ ignored(matchers, e.path, TRUE)
Pruned(e) ==
  /\ e.path # << >>
  /\ Last(e.path) \in AlwaysSkip \/ ignored(matchers, e.path, TRUE)

\* A directory is skipped, or its .gitignore loaded.
VisitDir(e) ==
  /\ step = "visit" /\ At(e) /\ Isdir(e)
  /\ IF Pruned(e)
     THEN Leave(e) /\ UNCHANGED matchers
     ELSE /\ matchers' = loadIgnore(e.path)
          /\ step' = "list" /\ UNCHANGED pending
  /\ UNCHANGED << fs, info, files, skipped, reportVars, touched, still, edits >>

\* ReadDir; a directory it fails on is skipped.
ListDir(e) ==
  /\ step = "list" /\ At(e)
  /\ LET inside == { p \in DOMAIN fs : p # << >> /\ Front(p) = e.path }
     IN  pending' = (pending \ { e })
                      \cup { Entry(p) : p \in IF Now(e.path) = "dir" THEN inside ELSE {} }
  /\ step' = "visit"
  /\ UNCHANGED << fs, info, matchers, files, skipped, reportVars, touched, still, edits >>

\* Not regular, or ignored: recorded by neither hash nor count.
PassOver(e) ==
  /\ step = "visit" /\ At(e) /\ ~Isdir(e)
  /\ e.kind = "link" \/ ignored(matchers, e.path, FALSE)
  /\ Leave(e)
  /\ UNCHANGED << fs, info, matchers, files, skipped, reportVars, touched, still, edits >>

Regular(e) == ~Isdir(e) /\ e.kind # "link" /\ ~ignored(matchers, e.path, FALSE)

\* The file is gone by now, or over the cap.
LeaveOut(e) ==
  /\ step = "visit" /\ At(e) /\ Regular(e)
  /\ Now(e.path) \in { "gone", "big" }
  /\ skipped' = skipped + 1
  /\ Leave(e)
  /\ UNCHANGED << fs, info, matchers, files, reportVars, touched, still, edits >>

Stat(e) ==
  /\ step = "visit" /\ At(e) /\ Regular(e)
  /\ Now(e.path) \notin { "gone", "big" }
  /\ step' = "hash" /\ info' = Info(e.path)
  /\ UNCHANGED << fs, pending, matchers, files, skipped, reportVars, touched, still, edits >>

\* Open and read the file as it is now, whatever its size has become; the size
\* and the time recorded with what it contains are those Info said.
HashFile(e) ==
  /\ step = "hash" /\ At(e)
  /\ IF Now(e.path) \notin { "gone", "locked" }
     THEN /\ files' = files \cup { [ Record(e.path) EXCEPT !.info = info ] }
          /\ UNCHANGED skipped
     ELSE skipped' = skipped + 1 /\ UNCHANGED files
  /\ Leave(e) /\ info' = NoInfo
  /\ UNCHANGED << fs, matchers, reportVars, touched, still, edits >>

-----------------------------------------------------------------------------
(* Reporting.                                                              *)

\* Mutant of TreeHash: over the contents alone.
TreeHashOfContents(F) == { f.content : f \in F }
\* SHA-256 over the sorted lines "path:content", as good as the set of lines;
\* that of no files is a hash like any other.
TreeHash(F) == { << f.path, f.content >> : f \in F }

\* The walk is over: tick sends the file list if the hash has moved.
Finish ==
  /\ step = "visit" /\ pending = {}
  /\ step' = "idle"
  /\ lastHash' = { TreeHash(files) }
  /\ marker' = (lastHash' = lastHash)
  /\ sent' = IF marker' THEN sent ELSE files
  /\ UNCHANGED << fs, pending, info, matchers, files, skipped, touched, still, edits >>

-----------------------------------------------------------------------------
(* The user.                                                               *)

Edit(S) ==
  /\ edits < MaxEdits /\ edits' = edits + 1
  /\ touched' = IF step = "idle" THEN {} ELSE touched \cup S
  /\ still' = 0
  /\ UNCHANGED << walkVars, reportVars >>

\* A file is written, whole, and may grow past the cap, or only touched.
Write(p, n) ==
  /\ Front(p) \in DOMAIN fs
  /\ p \in DOMAIN fs => fs[p].kind \in { "file", "big" } /\ fs[p] # n
  /\ fs' = [ q \in DOMAIN fs \cup { p } |-> IF q = p THEN n ELSE fs[q] ]
  /\ Edit({ p })

\* A file, or a directory and what is in it; the project itself included.
Delete(p) ==
  /\ p \in DOMAIN fs
  /\ LET gone == { q \in DOMAIN fs : IsPrefix(p, q) }
     IN  fs' = [ q \in DOMAIN fs \ gone |-> fs[q] ] /\ Edit(gone)

-----------------------------------------------------------------------------
Init ==
  /\ fs \in Trees
  /\ step = "idle" /\ pending = {} /\ info = NoInfo
  /\ matchers = {} /\ files = {} /\ skipped = 0
  /\ lastHash = {} /\ sent = {} /\ marker = FALSE
  /\ touched = {} /\ still = 0 /\ edits = 0

Visit(e) ==
  VisitDir(e) \/ ListDir(e) \/ PassOver(e) \/ LeaveOut(e) \/ Stat(e) \/ HashFile(e)

User ==
  \/ \E p \in Files, n \in Node : n.kind \in { "file", "big" } /\ Write(p, n)
  \/ \E p \in Dirs \cup Files : Delete(p)

Next ==
  \/ Begin \/ Finish
  \/ \E e \in pending : Visit(e)
  \/ User

Spec == Init /\ [][Next]_vars

-----------------------------------------------------------------------------
(* What the walk should find, said without walking.                        *)

IgnoreFiles(p) == { Append(d, IgnoreName) : d \in Around(p) }

\* A .gitignore above p, in the set G, has a rule for p or for a directory
\* between the two.
Excluded(p, G) ==
  \E g \in G :
    /\ Now(g) \in { "file", "big", "link" }
    /\ \E r \in RulesIn[fs[g].content], q \in Around(p) \cup { p } :
         /\ IsStrictPrefix(Front(g), q) /\ Last(q) = r.name
         /\ r.anchored => Front(q) = Front(g)
         /\ r.dirOnly => q # p

\* Every directory on the way to p is there, can be listed and is not one of
\* those never entered.
Reached(p) ==
  /\ p \in DOMAIN fs
  /\ \A q \in Around(p) : Now(q) = "dir"
  /\ \A q \in Around(p) \ { << >> } : Last(q) \notin AlwaysSkip

Eligible(p) == Reached(p) /\ ~Excluded(p, IgnoreFiles(p))

\* Neither p nor what decides about it has changed since the walk began.
Settled(p) == touched \cap ({ p } \cup Around(p) \cup IgnoreFiles(p)) = {}

-----------------------------------------------------------------------------
TypeOK ==
  /\ IsTree(fs)
  /\ step \in { "idle", "visit", "list", "hash" }
  /\ \A e \in pending :
       e.path \in Dirs \cup Files /\ e.kind \in Kinds /\ (e.path \in Dirs <=> Isdir(e))
  /\ \A m \in matchers : m.base \in Dirs /\ m.rules \subseteq Rule
  /\ info \in Infos
  /\ \A f \in files \cup sent : f \in [ path: Files, content: Contents, info: Infos ]
  /\ skipped \in 0 .. Cardinality(Files)
  /\ \A h \in lastHash : h \subseteq Files \X Contents
  /\ marker \in BOOLEAN /\ touched \subseteq Dirs \cup Files
  /\ still \in 0 .. 2 /\ edits \in 0 .. MaxEdits
  /\ step = "list" => \E e \in pending : At(e) /\ Isdir(e)
  /\ step = "hash" => \E e \in pending : At(e) /\ Regular(e)
  /\ step = "idle" => pending = {}
  \* what is listed has not been visited, nor is it below what is listed as well
  /\ \A e \in pending :
       /\ \A f \in files : ~IsPrefix(e.path, f.path)
       /\ \A g \in pending \ { e } : ~IsPrefix(e.path, g.path)
  /\ \A f, g \in files : f.path = g.path => f = g

Walked == step = "visit" /\ pending = {}

\* "Walk returns a record for every file under root that survives .gitignore,
\* the alwaysSkip list, and the size cap", and "an unreadable file should not
\* cost us the whole snapshot": whatever the user changes meanwhile, a file for
\* which nothing changed is recorded as it is exactly if it should be, and the
\* files left out are those too big or unreadable, and no others but some that
\* changed.
UntouchedExact ==
  Walked =>
    LET settled == { p \in Files : Settled(p) /\ Eligible(p) }
        out == { p \in settled : fs[p].kind \in { "big", "locked" } }
    IN  /\ { f \in files : Settled(f.path) } =
              { Record(p) : p \in { q \in settled : fs[q].kind = "file" } }
        /\ skipped >= Cardinality(out)
        /\ skipped <= Cardinality(out \cup { p \in Files : ~Settled(p) })

\* Nothing below a directory that is never entered is recorded, nor what a
\* .gitignore excludes that has not changed, however the file itself, or the
\* directories around it, come and go during the walk.
ExcludedStaysOut ==
  \A f \in files :
    /\ Range(Front(f.path)) \cap AlwaysSkip = {}
    /\ step # "idle" => ~Excluded(f.path, IgnoreFiles(f.path) \ touched)

\* "it is stable across runs and changes on any single-character edit": a tree
\* that has not changed since the walk before began is reported by a marker, and
\* the list a marker stands for, of whatever snapshot sent one last, has exactly
\* the files that the tree has now, with what they now contain, but for those
\* that change during the walk.  (Their sizes and times are those of that list.)
MarkerIsTrue ==
  [][ Finish =>
        /\ still = 2 => marker'
        /\ marker' =>
             { << f.path, f.content >> : f \in { g \in sent : Settled(g.path) } } =
             { << p, fs[p].content >> :
                 p \in { q \in Files : Settled(q) /\ Eligible(q) /\ fs[q].kind = "file" } }
    ]_vars
=============================================================================
