----------------------------- MODULE WalkProofs -----------------------------
(***************************************************************************)
(* Proofs about Walk: for every tree, every mix of .gitignore files and    *)
(* every change the user makes at any moment, what a walk records is what  *)
(* a look at the tree says it should.                                      *)
(***************************************************************************)
EXTENDS Walk, FiniteSetTheorems, TLAPS

Names == Range(NameOrder)
-----------------------------------------------------------------------------
(* The inductive invariant.                                                *)

Paths == Dirs \cup Files
Records == [ path: Files, content: Contents, info: Infos ]

Types ==
  /\ IsTree(fs)
  /\ step \in { "idle", "visit", "list", "hash" }
  /\ \A e \in pending :
       e.path \in Paths /\ e.kind \in Kinds /\ (e.path \in Dirs <=> Isdir(e))
  /\ \A m \in matchers : m.base \in Dirs /\ m.rules \subseteq Rule
  /\ info \in Infos
  /\ \A f \in files \cup sent : f \in Records
  /\ skipped \in Nat
  /\ \A h \in lastHash : h \subseteq Files \X Contents
  /\ marker \in BOOLEAN /\ touched \subseteq Paths
  /\ still \in 0 .. 2 /\ edits \in 0 .. MaxEdits
  /\ step = "idle" => pending = {}

\* What is listed has not been visited, nor is it below what is listed as well.
Apart ==
  /\ \A e \in pending :
       /\ \A f \in files : ~IsPrefix(e.path, f.path)
       /\ \A g \in pending \ { e } : ~IsPrefix(e.path, g.path)
  /\ \A f, g \in files : f.path = g.path => f = g

\* A .gitignore that has not changed, and can be read, and its rules.
Stands(g) == g \notin touched /\ Now(g) \in { "file", "big", "link" }
RulesOf(g) == RulesIn[fs[g].content]

\* A rule that has not changed since the walk began matches q itself.
Matched(q, isDir) ==
  \E d \in Around(q) :
    /\ Stands(Append(d, IgnoreName))
    /\ \E r \in RulesOf(Append(d, IgnoreName)) :
         /\ Last(q) = r.name
         /\ r.anchored => Front(q) = d
         /\ r.dirOnly => isDir

\* The .gitignore of d is loaded, as it is, unless it has changed.
LoadedFrom(d) ==
  Stands(Append(d, IgnoreName)) =>
    [ base |-> d, rules |-> RulesOf(Append(d, IgnoreName)) ] \in matchers

\* No other rules are.
Sound ==
  \A m \in matchers :
    Append(m.base, IgnoreName) \notin touched =>
      Stands(Append(m.base, IgnoreName)) /\ m.rules = RulesOf(Append(m.base, IgnoreName))

\* Nothing on the way to p keeps the walk from it, but what has changed.
Admitted(p) ==
  /\ Range(Front(p)) \cap AlwaysSkip = {}
  /\ \A q \in Around(p) \ { << >> } : ~Matched(q, TRUE)
  /\ \A q \in Around(p) \ touched : Now(q) = "dir"

\* What is listed may be, with what governs it, and is what it was.
Listed(e) ==
  /\ Admitted(e.path) /\ \A d \in Around(e.path) : LoadedFrom(d)
  /\ e.path \notin touched => Now(e.path) = e.kind

\* The directory about to be read is not one to be left out.
Entered(e) ==
  /\ At(e) /\ Isdir(e) /\ LoadedFrom(e.path)
  /\ e.path # << >> => Last(e.path) \notin AlwaysSkip /\ ~Matched(e.path, TRUE)

\* Nor is the file about to be read.
Examined(e) ==
  /\ At(e) /\ Regular(e)
  /\ e.path \notin touched => Now(e.path) \notin { "gone", "big" } /\ info = Info(e.path)

\* A record is right, but for what has changed.
Recorded(f) ==
  /\ Admitted(f.path) /\ ~Matched(f.path, FALSE)
  /\ f.path \notin touched => Now(f.path) = "file" /\ f = Record(f.path)

\* So was it to leave p out.
Omitted(p) ==
  /\ Admitted(p) /\ ~Matched(p, FALSE)
  /\ p \notin touched => Now(p) \in { "big", "locked" }

\* Nothing that is the same and should be seen is missed: it is still to come,
\* or recorded, or among those left out, or not regular.
Seen(K) ==
  \A p \in Files : Settled(p) /\ Eligible(p) =>
    \/ \E e \in pending : IsPrefix(e.path, p)
    \/ Now(p) = "file" /\ Record(p) \in files
    \/ Now(p) \in { "big", "locked" } /\ p \in K
    \/ Now(p) = "link"

\* K are the paths left out so far.
LeftOut(K) ==
  /\ K \subseteq Files /\ Cardinality(K) = skipped
  /\ \A e \in pending, p \in K : ~IsPrefix(e.path, p)
  /\ step # "idle" => Seen(K) /\ \A p \in K : Omitted(p)

Walking ==
  /\ \A e \in pending : Listed(e)
  /\ \A f \in files : Recorded(f)
  /\ step = "list" => \E e \in pending : Entered(e)
  /\ step = "hash" => \E e \in pending : Examined(e)

\* What a walk over the tree as it is would record.
Exact ==
  { Record(p) : p \in { q \in Files : Eligible(q) /\ fs[q].kind = "file" } }

\* The hash last reported is that of the list last sent, and if nothing changed
\* since the walk it came from began, that of the tree as it is.
Hashes ==
  /\ lastHash = {} \/ lastHash = { TreeHash(sent) }
  /\ step # "idle" /\ still > 0 => touched = {}
  /\ still = 2 \/ (step = "idle" /\ still = 1) => lastHash = { TreeHash(Exact) }

WInv ==
  /\ Types /\ Apart /\ Hashes
  /\ step # "idle" => Sound /\ Walking
  /\ \A f \in files : Range(Front(f.path)) \cap AlwaysSkip = {}
  /\ \E K \in SUBSET Files : LeftOut(K)


-----------------------------------------------------------------------------
(* Paths.                                                                  *)

LEMMA PathsAreSequences ==
  /\ Paths \subseteq Seq(Names) /\ Dirs \cap Files = {} /\ << >> \in Dirs
  /\ \A p \in Paths : Around(p) \subseteq Dirs
BY WalkAssumption DEF Paths, Names

\* A prefix, name by name.
LEMMA PrefixPoints ==
  ASSUME NEW S, NEW p \in Seq(S), NEW q \in Seq(S)
  PROVE  IsPrefix(q, p) <=> Len(q) <= Len(p) /\ \A i \in 1 .. Len(q) : q[i] = p[i]
<1>1. ASSUME Len(q) <= Len(p)
      PROVE  /\ SubSeq(q, 1, Len(q)) = q
             /\ SubSeq(p, 1, Len(q)) \in Seq(S) /\ Len(SubSeq(p, 1, Len(q))) = Len(q)
             /\ \A i \in 1 .. Len(q) : SubSeq(p, 1, Len(q))[i] = p[i]
  BY <1>1
<1>2. ASSUME Len(q) <= Len(p), \A i \in 1 .. Len(q) : q[i] = p[i]
      PROVE  SubSeq(p, 1, Len(q)) = q
  BY <1>1, <1>2
<1> QED BY <1>1, <1>2 DEF IsPrefix

\* The directories around a path are its prefixes, but for itself.
LEMMA AroundIsPrefix ==
  ASSUME NEW S, NEW p \in Seq(S), NEW q \in Seq(S)
  PROVE  /\ q \in Around(p) <=> IsPrefix(q, p) /\ Len(q) < Len(p)
         /\ q \in Around(p) <=> IsPrefix(q, p) /\ q # p
<1>1. ASSUME NEW i \in 0 .. Len(p) - 1
      PROVE  /\ SubSeq(p, 1, i) \in Seq(S) /\ Len(SubSeq(p, 1, i)) = i
             /\ \A j \in 1 .. i : SubSeq(p, 1, i)[j] = p[j]
  OBVIOUS
<1>2. q \in Around(p) => IsPrefix(q, p) /\ Len(q) < Len(p)
  BY <1>1, PrefixPoints DEF Around
<1>3. ASSUME IsPrefix(q, p), q # p
      PROVE  Len(q) < Len(p)
  BY <1>3, PrefixPoints
<1>4. ASSUME IsPrefix(q, p), Len(q) < Len(p)
      PROVE  q \in Around(p)
  <2>1. Len(q) \in 0 .. Len(p) - 1 /\ q = SubSeq(p, 1, Len(q))
    BY <1>1, <1>4, PrefixPoints
  <2> QED BY <2>1 DEF Around
<1> QED BY <1>2, <1>3, <1>4

\* What is around a path is a sequence too.
LEMMA AroundType ==
  ASSUME NEW S, NEW p \in Seq(S)
  PROVE  Around(p) \subseteq Seq(S)
BY DEF Around

LEMMA AroundTransitive ==
  ASSUME NEW S, NEW p \in Seq(S), NEW q \in Seq(S), q \in Around(p)
  PROVE  Around(q) \subseteq Around(p)
<1>1. IsPrefix(q, p) /\ Len(q) < Len(p)
  BY AroundIsPrefix
<1>2. ASSUME NEW x \in Around(q)
      PROVE  x \in Around(p)
  <2>1. x \in Seq(S)
    BY <1>2, AroundType
  <2>2. IsPrefix(x, q) /\ Len(x) < Len(q)
    BY <1>2, <2>1, AroundIsPrefix
  <2>3. IsPrefix(x, p) /\ Len(x) < Len(p)
    BY <1>1, <2>1, <2>2, PrefixPoints
  <2> QED BY <2>1, <2>3, AroundIsPrefix
<1> QED BY <1>2

\* Of a path in a directory.
LEMMA FrontFacts ==
  ASSUME NEW S, NEW c \in Seq(S), c # << >>
  PROVE  /\ Front(c) \in Seq(S) /\ Len(Front(c)) = Len(c) - 1 /\ Front(c) \in Around(c)
         /\ \A i \in 1 .. Len(c) - 1 : Front(c)[i] = c[i]
         /\ Around(c) = Around(Front(c)) \cup { Front(c) }
<1>1. /\ Front(c) \in Seq(S) /\ Len(Front(c)) = Len(c) - 1 /\ Len(c) \in Nat \ { 0 }
      /\ \A i \in 1 .. Len(c) - 1 : Front(c)[i] = c[i]
  <2>1. Len(c) \in Nat \ { 0 }
    OBVIOUS
  <2>2. ASSUME NEW i \in 0 .. Len(c) - 1
        PROVE  /\ SubSeq(c, 1, i) \in Seq(S) /\ Len(SubSeq(c, 1, i)) = i
               /\ \A j \in 1 .. i : SubSeq(c, 1, i)[j] = c[j]
    OBVIOUS
  <2>3. Len(c) - 1 \in 0 .. Len(c) - 1
    BY <2>1
  <2> QED BY <2>1, <2>2, <2>3 DEF Front
<1>2. IsPrefix(Front(c), c)
  BY <1>1, PrefixPoints
<1>3. Front(c) \in Around(c)
  BY <1>1, <1>2, AroundIsPrefix
<1>4. ASSUME NEW x \in Around(c), x # Front(c)
      PROVE  x \in Around(Front(c))
  <2>1. x \in Seq(S)
    BY AroundType
  <2>2. IsPrefix(x, c) /\ Len(x) < Len(c)
    BY <2>1, AroundIsPrefix
  <2>3. IsPrefix(x, Front(c))
    BY <1>1, <2>1, <2>2, PrefixPoints
  <2> QED BY <1>1, <1>4, <2>1, <2>3, AroundIsPrefix
<1> QED BY <1>1, <1>3, <1>4, AroundTransitive

LEMMA FrontOfAppend ==
  ASSUME NEW S, NEW d \in Seq(S), NEW x
  PROVE  Front(Append(d, x)) = d
<1>1. d \in Seq(S \cup { x })
  OBVIOUS
<1>2. Append(d, x) \in Seq(S \cup { x }) /\ Len(Append(d, x)) = Len(d) + 1
  BY <1>1
<1>3. /\ Front(Append(d, x)) \in Seq(S \cup { x }) /\ Len(Front(Append(d, x))) = Len(d)
      /\ \A i \in 1 .. Len(d) : Front(Append(d, x))[i] = d[i]
  BY <1>1, <1>2 DEF Front
<1> QED BY <1>1, <1>3

\* On the way to p, the entry of a directory d around it.
LEMMA EntryTowards ==
  ASSUME NEW S, NEW p \in Seq(S), NEW d \in Around(p)
  PROVE  \E c \in Seq(S) : /\ c # << >> /\ Front(c) = d /\ IsPrefix(c, p)
                           /\ c = p \/ c \in Around(p)
<1> DEFINE c == SubSeq(p, 1, Len(d) + 1)
<1>1. d \in Seq(S) /\ IsPrefix(d, p) /\ Len(d) < Len(p)
  BY AroundType, AroundIsPrefix
<1>2. /\ c \in Seq(S) /\ Len(c) = Len(d) + 1
      /\ \A i \in 1 .. Len(d) + 1 : c[i] = p[i]
  BY <1>1
<1> HIDE DEF c
<1>3. IsPrefix(c, p) /\ c # << >>
  BY <1>1, <1>2, PrefixPoints
<1>4. Front(c) = d
  <2>1. /\ Front(c) \in Seq(S) /\ Len(Front(c)) = Len(d)
        /\ \A i \in 1 .. Len(d) : Front(c)[i] = p[i]
    BY <1>1, <1>2, <1>3, FrontFacts
  <2> QED BY <1>1, <2>1, PrefixPoints
<1> QED BY <1>2, <1>3, <1>4, AroundIsPrefix

\* Prefixes, up and down by one name.
LEMMA PrefixSteps ==
  ASSUME NEW S, NEW c \in Seq(S), c # << >>, NEW p \in Seq(S)
  PROVE  /\ IsPrefix(c, p) => IsPrefix(Front(c), p)
         /\ IsPrefix(p, c) => p = c \/ IsPrefix(p, Front(c))
         /\ IsPrefix(p, p)
         /\ IsPrefix(c, p) /\ p # << >> /\ Front(p) = Front(c) => p = c
<1>1. /\ Front(c) \in Seq(S) /\ Len(Front(c)) = Len(c) - 1
      /\ \A i \in 1 .. Len(c) - 1 : Front(c)[i] = c[i]
  BY FrontFacts
<1>2. IsPrefix(c, p) => IsPrefix(Front(c), p)
  BY <1>1, PrefixPoints
<1>3. IsPrefix(p, c) => p = c \/ IsPrefix(p, Front(c))
  <2>1. SUFFICES ASSUME IsPrefix(p, c), p # c PROVE IsPrefix(p, Front(c))
    OBVIOUS
  <2>2. p \in Around(c)
    BY <2>1, AroundIsPrefix
  <2>3. p = Front(c) \/ p \in Around(Front(c))
    BY <2>2, FrontFacts
  <2>4. IsPrefix(Front(c), Front(c))
    BY <1>1, PrefixPoints
  <2> QED BY <1>1, <2>3, <2>4, AroundIsPrefix
<1>4. IsPrefix(p, p)
  BY PrefixPoints
<1>5. ASSUME IsPrefix(c, p), p # << >>, Front(p) = Front(c)
      PROVE  p = c
  <2>1. Len(p) = Len(c)
    BY <1>1, <1>5, FrontFacts
  <2> QED BY <1>5, <2>1, AroundIsPrefix
<1> QED BY <1>2, <1>3, <1>4, <1>5

LEMMA PrefixTransitive ==
  ASSUME NEW S, NEW p \in Seq(S), NEW q \in Seq(S), NEW r \in Seq(S),
         IsPrefix(p, q), IsPrefix(q, r)
  PROVE  IsPrefix(p, r)
BY PrefixPoints

\* What is on the way to an entry of d is on the way to d, or d.
LEMMA NamesOnTheWay ==
  ASSUME NEW S, NEW d \in Seq(S), d # << >>
  PROVE  Range(d) = Range(Front(d)) \cup { Last(d) }
<1>1. /\ Front(d) \in Seq(S) /\ Len(Front(d)) = Len(d) - 1 /\ Len(d) \in Nat \ { 0 }
      /\ \A i \in 1 .. Len(d) - 1 : Front(d)[i] = d[i]
  BY FrontFacts
<1>2. DOMAIN d = 1 .. Len(d) /\ DOMAIN Front(d) = 1 .. Len(d) - 1
  BY <1>1
<1> QED BY <1>1, <1>2 DEF Range, Last

-----------------------------------------------------------------------------
(* Rules.                                                                  *)

\* A path relative to a directory around it.
LEMMA RelativePath ==
  ASSUME NEW S, NEW q \in Seq(S), NEW d \in Around(q)
  PROVE  LET sub == SubSeq(q, Len(d) + 1, Len(q))
         IN  /\ Len(d) \in Nat /\ Len(q) \in Nat /\ Len(d) < Len(q)
             /\ Len(sub) = Len(q) - Len(d)
             /\ \A i \in 1 .. Len(q) - Len(d) : sub[i] = q[Len(d) + i]
<1>1. d \in Seq(S) /\ Len(d) < Len(q)
  BY AroundType, AroundIsPrefix
<1> QED BY <1>1

\* A rule of a .gitignore that is loaded and matches a path has it ignored.
LEMMA RulesFound ==
  ASSUME NEW q \in Paths, NEW isDir \in BOOLEAN,
         \A d \in Around(q) : LoadedFrom(d), Matched(q, isDir)
  PROVE  ignored(matchers, q, isDir)
<1>1. q \in Seq(Names)
  BY PathsAreSequences
<1>10. PICK d \in Around(q) :
        /\ Stands(Append(d, IgnoreName))
        /\ \E r \in RulesOf(Append(d, IgnoreName)) :
             Last(q) = r.name /\ (r.anchored => Front(q) = d) /\ (r.dirOnly => isDir)
  BY DEF Matched
<1>2. PICK r \in RulesOf(Append(d, IgnoreName)) :
        Last(q) = r.name /\ (r.anchored => Front(q) = d) /\ (r.dirOnly => isDir)
  BY <1>10
<1> DEFINE rules == RulesOf(Append(d, IgnoreName))
           m == [ base |-> d, rules |-> rules ]
           sub == SubSeq(q, Len(d) + 1, Len(q))
           n == Len(q) - Len(d)
<1>3. m \in matchers
  BY <1>10 DEF LoadedFrom
<1>4. /\ Len(d) \in Nat /\ Len(q) \in Nat /\ Len(d) < Len(q)
      /\ Len(sub) = n /\ \A i \in 1 .. n : sub[i] = q[Len(d) + i]
  BY <1>1, RelativePath
<1>5. n \in 1 .. Len(sub) /\ sub[n] = r.name
  <2>1. n \in 1 .. n /\ Len(d) + n = Len(q)
    BY <1>4
  <2> QED BY <1>2, <1>4, <2>1 DEF Last
<1>6. r.anchored => n = 1
  <2>1. Len(Front(q)) = Len(q) - 1
    BY <1>1, <1>4, FrontFacts
  <2> QED BY <1>2, <1>4, <2>1
<1>7. Governs(d, q)
  BY <1>1, AroundIsPrefix, AroundType DEF Governs, IsStrictPrefix
<1> HIDE DEF sub, n
<1>8. MatchesPath(rules, sub, FALSE) \/ (isDir /\ MatchesPath(rules, sub, TRUE))
  BY <1>2, <1>5, <1>6 DEF MatchesPath
<1>9. m.base = d /\ m.rules = rules
  OBVIOUS
<1> QED BY <1>3, <1>7, <1>8, <1>9 DEF ignored, sub

\* What is ignored is excluded, and what is below it, as long as none of the
\* rules has changed.
LEMMA RulesExclude ==
  ASSUME Types, Sound, NEW p \in Paths, Settled(p),
         NEW rel \in Paths, IsPrefix(rel, p),
         NEW isDir \in BOOLEAN, isDir => rel # p,
         ignored(matchers, rel, isDir)
  PROVE  Excluded(p, IgnoreFiles(p))
<1>1. p \in Seq(Names) /\ rel \in Seq(Names)
  BY PathsAreSequences
<1>2. PICK m \in matchers :
        /\ Governs(m.base, rel)
        /\ LET sub == SubSeq(rel, Len(m.base) + 1, Len(rel))
           IN  MatchesPath(m.rules, sub, FALSE) \/ (isDir /\ MatchesPath(m.rules, sub, TRUE))
  BY DEF ignored
<1> DEFINE d == m.base
           g == Append(d, IgnoreName)
           sub == SubSeq(rel, Len(d) + 1, Len(rel))
<1>3. PICK r \in m.rules, i \in 1 .. Len(sub) :
        /\ sub[i] = r.name
        /\ r.anchored => i = 1
        /\ r.dirOnly => i < Len(sub) \/ isDir
  BY <1>2 DEF MatchesPath
<1>4. d \in Seq(Names)
  BY PathsAreSequences DEF Types, Paths
<1>5. d \in Around(rel)
  BY <1>1, <1>2, <1>4, AroundIsPrefix DEF Governs, IsStrictPrefix
<1>6. d \in Around(p)
  <2>1. rel = p \/ rel \in Around(p)
    BY <1>1, AroundIsPrefix
  <2> QED BY <1>1, <1>5, <2>1, AroundTransitive
<1>7. /\ Len(d) \in Nat /\ Len(rel) \in Nat /\ Len(d) < Len(rel)
      /\ Len(sub) = Len(rel) - Len(d)
      /\ \A j \in 1 .. Len(rel) - Len(d) : sub[j] = rel[Len(d) + j]
  BY <1>1, <1>5, RelativePath
<1>8. g \in IgnoreFiles(p) /\ Front(g) = d
  BY <1>4, <1>6, FrontOfAppend DEF IgnoreFiles
<1>9. Now(g) \in { "file", "big", "link" } /\ r \in RulesIn[fs[g].content]
  BY <1>3, <1>8 DEF Sound, Settled, Stands, RulesOf
<1> HIDE DEF d, g, sub
<1> DEFINE k == Len(d) + i
           q == SubSeq(rel, 1, k)
<1>10. k \in 1 .. Len(rel) /\ i \in 1 .. Len(rel) - Len(d)
  BY <1>7
<1>11. q \in Seq(Names) /\ Len(q) = k /\ \A j \in 1 .. k : q[j] = rel[j]
  BY <1>1, <1>10
<1> HIDE DEF k, q
<1>12. Last(q) = r.name
  <2>1. sub[i] = rel[k] /\ k \in 1 .. k
    BY <1>7, <1>10 DEF k
  <2> QED BY <1>3, <1>11, <2>1 DEF Last
<1>13. IsPrefix(q, rel) /\ IsPrefix(q, p)
  <2>1. IsPrefix(q, rel)
    BY <1>1, <1>10, <1>11, PrefixPoints
  <2> QED BY <1>1, <1>11, <2>1, PrefixTransitive
<1>14. q \in Around(p) \cup { p }
  BY <1>1, <1>11, <1>13, AroundIsPrefix
<1>15. IsStrictPrefix(d, q)
  <2>1. IsPrefix(d, rel)
    BY <1>1, <1>4, <1>5, AroundIsPrefix
  <2>2. Len(d) < Len(q)
    BY <1>7, <1>10, <1>11 DEF k
  <2>3. \A j \in 1 .. Len(d) : d[j] = q[j]
    BY <1>1, <1>4, <1>7, <1>11, <2>1, <2>2, PrefixPoints
  <2>4. IsPrefix(d, q)
    BY <1>4, <1>7, <1>11, <2>2, <2>3, PrefixPoints
  <2> QED BY <2>2, <2>4 DEF IsStrictPrefix
<1>16. r.anchored => Front(q) = d
  <2>1. SUFFICES ASSUME r.anchored PROVE Front(q) = d
    OBVIOUS
  <2>2. Len(q) = Len(d) + 1
    BY <1>3, <1>11, <2>1 DEF k
  <2>3. q # << >>
    BY <1>7, <2>2
  <2>4. d \in Around(q)
    BY <1>4, <1>11, <1>15, AroundIsPrefix DEF IsStrictPrefix
  <2>5. d = Front(q) \/ d \in Around(Front(q))
    BY <1>11, <2>3, <2>4, FrontFacts
  <2>6. Len(Front(q)) = Len(d) /\ Front(q) \in Seq(Names)
    BY <1>7, <1>11, <2>2, <2>3, FrontFacts
  <2> QED BY <1>4, <2>5, <2>6, AroundIsPrefix
<1>17. r.dirOnly => q # p
  <2>1. CASE isDir
    <3>1. Len(rel) < Len(p)
      BY <1>1, <2>1, AroundIsPrefix
    <3> QED BY <1>1, <1>10, <1>11, <3>1
  <2>2. CASE ~isDir /\ r.dirOnly
    <3>1. k < Len(rel)
      BY <1>3, <1>7, <1>10, <2>2 DEF k
    <3>2. Len(rel) <= Len(p)
      BY <1>1, PrefixPoints
    <3> QED BY <1>1, <1>10, <1>11, <3>1, <3>2
  <2> QED BY <2>1, <2>2
<1> QED BY <1>8, <1>9, <1>12, <1>14, <1>15, <1>16, <1>17 DEF Excluded

\* What excludes a path matches it, or a directory on the way.
LEMMA ExclusionMatches ==
  ASSUME NEW p \in Paths, Excluded(p, IgnoreFiles(p) \ touched)
  PROVE  Matched(p, FALSE) \/ \E q \in Around(p) \ { << >> } : Matched(q, TRUE)
<1>1. p \in Seq(Names)
  BY PathsAreSequences
<1>2. PICK g \in IgnoreFiles(p) \ touched :
        /\ Now(g) \in { "file", "big", "link" }
        /\ \E r \in RulesIn[fs[g].content], q \in Around(p) \cup { p } :
             /\ IsStrictPrefix(Front(g), q) /\ Last(q) = r.name
             /\ r.anchored => Front(q) = Front(g)
             /\ r.dirOnly => q # p
  BY DEF Excluded
<1>3. PICK r \in RulesIn[fs[g].content], q \in Around(p) \cup { p } :
        /\ IsStrictPrefix(Front(g), q) /\ Last(q) = r.name
        /\ r.anchored => Front(q) = Front(g)
        /\ r.dirOnly => q # p
  BY <1>2
<1>4. PICK d \in Around(p) : g = Append(d, IgnoreName)
  BY <1>2 DEF IgnoreFiles
<1>5. d \in Seq(Names) /\ q \in Seq(Names) /\ Front(g) = d
  BY <1>1, <1>4, AroundType, FrontOfAppend
<1>6. d \in Around(q) /\ q # << >>
  <2>1. d \in Around(q)
    BY <1>3, <1>5, AroundIsPrefix DEF IsStrictPrefix
  <2>2. Len(d) < Len(q)
    BY <1>5, <2>1, AroundIsPrefix
  <2> QED BY <1>5, <2>1, <2>2
<1>7. Stands(g) /\ r \in RulesOf(g)
  BY <1>2, <1>3 DEF Stands, RulesOf
<1>8. Matched(q, TRUE) /\ (q = p => Matched(q, FALSE))
  BY <1>3, <1>4, <1>5, <1>6, <1>7 DEF Matched
<1> QED BY <1>3, <1>6, <1>8

\* The record of the file about to be read.
Found(e) == [ Record(e.path) EXCEPT !.info = info ]

LEMMA FoundIs == \A e : Found(e) = [ path |-> e.path, content |-> fs[e.path].content, info |-> info ]
BY DEF Found, Record

-----------------------------------------------------------------------------
(* The order of the walk.                                                  *)

LEMMA RankIsNumber ==
  ASSUME NEW n \in Names
  PROVE  Rank(n) \in Nat
<1>1. \E i \in DOMAIN NameOrder : NameOrder[i] = n
  BY DEF Names, Range
<1>2. Rank(n) \in DOMAIN NameOrder
  BY <1>1 DEF Rank
<1>3. DOMAIN NameOrder \subseteq Nat
  BY WalkAssumption
<1> QED BY <1>2, <1>3

\* Of two paths at most one comes first.
LEMMA BeforeIsOrder ==
  ASSUME NEW p \in Seq(Names), NEW q \in Seq(Names), Before(p, q)
  PROVE  ~Before(q, p)
<1>1. SUFFICES ASSUME Before(q, p) PROVE FALSE
  OBVIOUS
<1>2. PICK i \in DOMAIN p \cap DOMAIN q :
        SubSeq(p, 1, i - 1) = SubSeq(q, 1, i - 1) /\ Rank(p[i]) < Rank(q[i])
  BY DEF Before
<1>3. PICK j \in DOMAIN p \cap DOMAIN q :
        SubSeq(q, 1, j - 1) = SubSeq(p, 1, j - 1) /\ Rank(q[j]) < Rank(p[j])
  BY <1>1 DEF Before
<1>4. /\ i \in 1 .. Len(p) /\ i \in 1 .. Len(q) /\ j \in 1 .. Len(p) /\ j \in 1 .. Len(q)
      /\ Rank(p[i]) \in Nat /\ Rank(q[i]) \in Nat /\ Rank(p[j]) \in Nat /\ Rank(q[j]) \in Nat
  BY RankIsNumber
<1>5. \A s \in Seq(Names) : \A m \in 1 .. Len(s) : \A k \in 1 .. m - 1 :
        SubSeq(s, 1, m - 1)[k] = s[k]
  OBVIOUS
<1>6. CASE i < j
  <2>1. i \in 1 .. j - 1
    BY <1>4, <1>6
  <2>2. p[i] = q[i]
    BY <1>3, <1>4, <1>5, <2>1
  <2> QED BY <1>2, <1>4, <2>2
<1>7. CASE j < i
  <2>1. j \in 1 .. i - 1
    BY <1>4, <1>7
  <2>2. p[j] = q[j]
    BY <1>2, <1>4, <1>5, <2>1
  <2> QED BY <1>3, <1>4, <2>2
<1>8. CASE i = j
  BY <1>2, <1>3, <1>4, <1>8
<1> QED BY <1>4, <1>6, <1>7, <1>8

\* The walk is at one entry.
LEMMA OneAt ==
  ASSUME Types, NEW e, NEW g, At(e), At(g)
  PROVE  e = g
<1>1. e \in pending /\ g \in pending
  BY DEF At
<1>2. e.path \in Seq(Names) /\ g.path \in Seq(Names)
  BY <1>1, PathsAreSequences DEF Types
<1>3. e # g => Before(e.path, g.path) /\ Before(g.path, e.path)
  BY <1>1 DEF At
<1> QED BY <1>2, <1>3, BeforeIsOrder

-----------------------------------------------------------------------------
(* What the user cannot change unnoticed.                                  *)

\* What is not among the paths touched is as it was.
Steady ==
  /\ touched \subseteq touched'
  /\ \A q : q \notin touched' => /\ q \in DOMAIN fs <=> q \in DOMAIN fs'
                                 /\ q \in DOMAIN fs => fs'[q] = fs[q]

LEMMA SteadyWhenSame ==
  ASSUME UNCHANGED << fs, touched >>
  PROVE  Steady
BY DEF Steady

LEMMA WalkIsSteady ==
  ASSUME Next, step # "idle"
  PROVE  Steady
<1>1. CASE User
  <2>1. ASSUME NEW p \in Files, NEW n, Write(p, n)
        PROVE  Steady
    BY <2>1 DEF Write, Edit, Steady
  <2>2. ASSUME NEW p \in Dirs \cup Files, Delete(p)
        PROVE  Steady
    BY <2>2 DEF Delete, Edit, Steady
  <2> QED BY <1>1, <2>1, <2>2 DEF User
<1>2. CASE Finish
  BY <1>2, SteadyWhenSame DEF Finish
<1>3. ASSUME NEW e \in pending, Visit(e)
      PROVE  Steady
  BY <1>3, SteadyWhenSame
     DEF Visit, VisitDir, ListDir, PassOver, LeaveOut, Stat, HashFile
<1>4. CASE Begin
  BY <1>4 DEF Begin
<1> QED BY <1>1, <1>2, <1>3, <1>4 DEF Next

\* So what was concluded from it stands.
LEMMA SteadyFacts ==
  ASSUME Steady, matchers \subseteq matchers'
  PROVE  /\ \A q : q \notin touched' => Now(q)' = Now(q)
         /\ \A g : Stands(g)' => Stands(g) /\ RulesOf(g)' = RulesOf(g)
         /\ \A q, isDir : Matched(q, isDir)' => Matched(q, isDir)
         /\ \A d : LoadedFrom(d) => LoadedFrom(d)'
         /\ \A p : Admitted(p) => Admitted(p)'
         /\ \A e : Listed(e) => Listed(e)'
         /\ \A f : Recorded(f) => Recorded(f)'
         /\ \A p : Omitted(p) => Omitted(p)'
<1>1. \A q : q \notin touched' => Now(q)' = Now(q)
  BY DEF Steady, Now
<1>2. \A g : Stands(g)' => Stands(g) /\ RulesOf(g)' = RulesOf(g)
  <2> SUFFICES ASSUME NEW g, Stands(g)' PROVE Stands(g) /\ RulesOf(g)' = RulesOf(g)
    OBVIOUS
  <2>1. g \notin touched' /\ g \notin touched /\ Now(g)' = Now(g)
    BY <1>1 DEF Stands, Steady
  <2>2. Stands(g)
    BY <2>1 DEF Stands
  <2>3. g \in DOMAIN fs
    BY <2>2 DEF Stands, Now
  <2>4. fs'[g] = fs[g]
    BY <2>1, <2>3 DEF Steady
  <2> QED BY <2>2, <2>4 DEF RulesOf
<1>3. \A q, isDir : Matched(q, isDir)' => Matched(q, isDir)
  <2> SUFFICES ASSUME NEW q, NEW isDir, Matched(q, isDir)' PROVE Matched(q, isDir)
    OBVIOUS
  <2>1. PICK d \in Around(q) :
          /\ Stands(Append(d, IgnoreName))'
          /\ \E r \in RulesOf(Append(d, IgnoreName))' :
               Last(q) = r.name /\ (r.anchored => Front(q) = d) /\ (r.dirOnly => isDir)
    BY DEF Matched
  <2>2. /\ Stands(Append(d, IgnoreName))
        /\ RulesOf(Append(d, IgnoreName))' = RulesOf(Append(d, IgnoreName))
    BY <1>2, <2>1
  <2> QED BY <2>1, <2>2 DEF Matched
<1>4. \A d : LoadedFrom(d) => LoadedFrom(d)'
  BY <1>2 DEF LoadedFrom
<1>5. \A p : Admitted(p) => Admitted(p)'
  BY <1>1, <1>3 DEF Admitted, Steady
<1>6. \A e : Listed(e) => Listed(e)'
  BY <1>1, <1>4, <1>5 DEF Listed, Steady
<1>7. \A f : Recorded(f) => Recorded(f)'
  <2> SUFFICES ASSUME NEW f, Recorded(f), f.path \notin touched'
               PROVE  Now(f.path)' = "file" /\ f = Record(f.path)'
    BY <1>3, <1>5 DEF Recorded
  <2>1. f.path \notin touched /\ Now(f.path) = "file" /\ f = Record(f.path)
    BY DEF Recorded, Steady
  <2>2. f.path \in DOMAIN fs
    BY <2>1 DEF Now
  <2>3. fs'[f.path] = fs[f.path]
    BY <2>2 DEF Steady
  <2> QED BY <1>1, <2>1, <2>3 DEF Record, Info
<1>8. \A p : Omitted(p) => Omitted(p)'
  BY <1>1, <1>3, <1>5 DEF Omitted, Steady
<1> QED BY <1>1, <1>2, <1>3, <1>4, <1>5, <1>6, <1>7, <1>8

\* What nothing has changed for was so before, and is judged as before.
LEMMA SettledFacts ==
  ASSUME Steady, NEW p \in Paths, Settled(p)'
  PROVE  /\ Settled(p) /\ Eligible(p)' => Eligible(p)
         /\ Settled(p) /\ Now(p)' = Now(p) /\ (p \in DOMAIN fs => fs'[p] = fs[p])
<1>1. \A q \in { p } \cup Around(p) \cup IgnoreFiles(p) :
        /\ q \notin touched' /\ q \notin touched
        /\ q \in DOMAIN fs <=> q \in DOMAIN fs'
        /\ q \in DOMAIN fs => fs'[q] = fs[q]
  BY DEF Settled, Steady, IgnoreFiles
<1>2. \A q \in { p } \cup Around(p) \cup IgnoreFiles(p) : Now(q)' = Now(q)
  BY <1>1 DEF Now
<1>3. Settled(p)
  BY <1>1 DEF Settled
<1>4. Reached(p)' => Reached(p)
  BY <1>1, <1>2 DEF Reached
<1>5. Excluded(p, IgnoreFiles(p)) => Excluded(p, IgnoreFiles(p))'
  <2> SUFFICES ASSUME Excluded(p, IgnoreFiles(p)) PROVE Excluded(p, IgnoreFiles(p))'
    OBVIOUS
  <2>1. PICK g \in IgnoreFiles(p) :
          /\ Now(g) \in { "file", "big", "link" }
          /\ \E r \in RulesIn[fs[g].content], q \in Around(p) \cup { p } :
               /\ IsStrictPrefix(Front(g), q) /\ Last(q) = r.name
               /\ r.anchored => Front(q) = Front(g)
               /\ r.dirOnly => q # p
    BY DEF Excluded
  <2>2. g \in DOMAIN fs
    BY <2>1 DEF Now
  <2>3. Now(g)' = Now(g) /\ fs'[g] = fs[g]
    BY <1>1, <1>2, <2>1, <2>2
  <2> QED BY <2>1, <2>3 DEF Excluded, IgnoreFiles
<1> QED BY <1>1, <1>2, <1>3, <1>4, <1>5 DEF Eligible

-----------------------------------------------------------------------------
(* The invariant, one conjunct at a time.                                  *)

\* What there is at a path, is in directories and of a kind that goes with it.
LEMMA TreeFacts ==
  ASSUME Types, NEW p \in DOMAIN fs
  PROVE  /\ p \in Paths /\ Around(p) \subseteq DOMAIN fs
         /\ fs[p] \in Node /\ fs[p].kind \in Kinds /\ fs[p].content \in Contents
         /\ Info(p) \in Infos
         /\ p \in Dirs <=> fs[p].kind \in { "dir", "lockedDir" }
         /\ Now(p) = fs[p].kind
<1>1. IsTree(fs)
  BY DEF Types
<1>2. /\ p \in Paths /\ fs[p] \in Node /\ Around(p) \subseteq DOMAIN fs
      /\ p \in Dirs <=> fs[p].kind \in { "dir", "lockedDir" }
  BY <1>1 DEF IsTree, Paths
<1>3. fs[p].kind \in Kinds /\ fs[p].content \in Contents /\ fs[p].time \in Times
  BY <1>2 DEF Node
<1>4. SizeIn[fs[p].content] \in Range(SizeIn)
  BY <1>3, WalkAssumption DEF Range
<1> QED BY <1>2, <1>3, <1>4 DEF Now, Info, Infos

\* The entry the walk is at, between its steps.
LEMMA AtDirectory ==
  ASSUME Types, Walking, step = "list", NEW e, At(e)
  PROVE  Entered(e) /\ e \in pending /\ e.path \in Dirs
<1>1. PICK g \in pending : Entered(g)
  BY DEF Walking
<1>2. g = e
  BY <1>1, OneAt DEF Entered
<1> QED BY <1>1, <1>2 DEF Entered, Types

LEMMA AtFile ==
  ASSUME Types, Walking, step = "hash", NEW e, At(e)
  PROVE  Examined(e) /\ e \in pending /\ e.path \in Files
<1>1. PICK g \in pending : Examined(g)
  BY DEF Walking
<1>2. g = e
  BY <1>1, OneAt DEF Examined
<1> QED BY <1>1, <1>2 DEF Examined, Regular, Types, Paths

\* A directory's .gitignore, and its rules.
LEMMA LoadIgnoreFacts ==
  ASSUME Types, NEW d \in Dirs, NEW m \in loadIgnore(d)
  PROVE  \/ m \in matchers
         \/ LET g == Append(d, IgnoreName)
            IN  /\ m = [ base |-> d, rules |-> RulesOf(g) ] /\ RulesOf(g) \subseteq Rule
                /\ Now(g) \in { "file", "big", "link" }
<1> DEFINE g == Append(d, IgnoreName)
<1>1. SUFFICES ASSUME m \notin matchers
               PROVE  /\ m = [ base |-> d, rules |-> RulesOf(g) ] /\ RulesOf(g) \subseteq Rule
                      /\ Now(g) \in { "file", "big", "link" }
  OBVIOUS
<1>2. m = [ base |-> d, rules |-> RulesOf(g) ] /\ Now(g) \in { "file", "big", "link" }
  BY <1>1 DEF loadIgnore, RulesOf
<1>3. g \in DOMAIN fs
  BY <1>2 DEF Now
<1>4. fs[g].content \in Contents
  BY <1>3, TreeFacts
<1> QED BY <1>2, <1>4, WalkAssumption DEF RulesOf

LEMMA TreeStep ==
  ASSUME Types, Next
  PROVE  IsTree(fs)' /\ (touched \subseteq Paths)'
<1>1. ASSUME NEW p \in Files, NEW n \in Node, n.kind \in { "file", "big" },
             Write(p, n)
      PROVE  IsTree(fs)' /\ (touched \subseteq Paths)'
  <2>1. DOMAIN fs' = DOMAIN fs \cup { p } /\ Front(p) \in DOMAIN fs
        /\ \A q \in DOMAIN fs' : fs'[q] = IF q = p THEN n ELSE fs[q]
    BY <1>1 DEF Write
  <2>2. p \in Seq(Names) /\ p # << >> /\ p \notin Dirs
    BY PathsAreSequences DEF Paths
  <2>3. Around(p) \subseteq DOMAIN fs
    BY <2>1, <2>2, FrontFacts, TreeFacts
  <2>4. n.kind \notin { "dir", "lockedDir" }
    BY <1>1
  <2>5. ASSUME NEW q \in DOMAIN fs'
        PROVE  /\ fs'[q] \in Node /\ Around(q) \subseteq DOMAIN fs'
               /\ q \in Dirs <=> fs'[q].kind \in { "dir", "lockedDir" }
    <3>1. CASE q = p
      BY <2>1, <2>2, <2>3, <2>4, <3>1
    <3>2. CASE q # p
      <4>1. q \in DOMAIN fs /\ fs'[q] = fs[q]
        BY <2>1, <2>5, <3>2
      <4> QED BY <2>1, <4>1, TreeFacts
    <3> QED BY <3>1, <3>2
  <2>6. DOMAIN fs' \subseteq Dirs \cup Files
    BY <2>1 DEF Types, IsTree
  <2>7. (touched \subseteq Paths)'
    BY <1>1 DEF Write, Edit, Types, Paths
  <2> QED BY <2>5, <2>6, <2>7 DEF IsTree
<1>2. ASSUME NEW p \in Dirs \cup Files, Delete(p)
      PROVE  IsTree(fs)' /\ (touched \subseteq Paths)'
  <2> DEFINE gone == { q \in DOMAIN fs : IsPrefix(p, q) }
  <2>1. DOMAIN fs' = DOMAIN fs \ gone /\ \A q \in DOMAIN fs' : fs'[q] = fs[q]
    BY <1>2 DEF Delete
  <2>2. ASSUME NEW q \in DOMAIN fs', NEW x \in Around(q)
        PROVE  x \in DOMAIN fs'
    <3>1. q \in DOMAIN fs /\ x \in DOMAIN fs
      BY <2>1, <2>2, TreeFacts
    <3>2. q \in Seq(Names) /\ x \in Seq(Names) /\ p \in Seq(Names)
      BY <3>1, PathsAreSequences DEF Types, IsTree, Paths
    <3>3. IsPrefix(x, q) /\ ~IsPrefix(p, q)
      BY <2>1, <2>2, <3>1, <3>2, AroundIsPrefix
    <3>4. ~IsPrefix(p, x)
      BY <3>2, <3>3, PrefixTransitive
    <3> QED BY <2>1, <3>1, <3>4
  <2>3. IsTree(fs)'
    BY <2>1, <2>2, TreeFacts DEF IsTree, Paths
  <2>4. gone \subseteq Paths
    BY DEF Types, IsTree, Paths
  <2>5. (touched \subseteq Paths)'
    BY <1>2, <2>4 DEF Delete, Edit, Types
  <2> QED BY <2>3, <2>5
<1>3. ASSUME NEW e \in pending, Visit(e)
      PROVE  UNCHANGED << fs, touched >>
  BY <1>3 DEF Visit, VisitDir, ListDir, PassOver, LeaveOut, Stat, HashFile
<1>4. CASE Begin \/ Finish
  BY <1>4 DEF Begin, Finish, Types
<1> QED BY <1>1, <1>2, <1>3, <1>4 DEF Next, User, Types

LEMMA TypesStep ==
  ASSUME Types, step # "idle" => Walking, Next
  PROVE  Types'
<1>0. IsTree(fs)' /\ (touched \subseteq Paths)'
  BY TreeStep
<1>1. CASE User
  <2>1. ASSUME NEW S, Edit(S)
        PROVE  UNCHANGED << walkVars, reportVars >> /\ still' = 0 /\ edits' \in 0 .. MaxEdits
    BY <2>1, WalkAssumption DEF Edit, Types
  <2>2. \E S : Edit(S)
    BY <1>1 DEF User, Write, Delete
  <2>3. UNCHANGED << walkVars, reportVars >> /\ still' = 0 /\ edits' \in 0 .. MaxEdits
    BY <2>1, <2>2
  <2> QED BY <1>0, <2>3 DEF Types, walkVars, reportVars, Isdir
<1>2. CASE Begin
  <2>1. pending' = IF << >> \in DOMAIN fs THEN { Entry(<< >>) } ELSE {}
    BY <1>2 DEF Begin
  <2>2. << >> \in DOMAIN fs =>
          /\ fs[<< >>].kind \in Kinds /\ Entry(<< >>).path = << >> /\ << >> \in Dirs
          /\ Entry(<< >>).kind = fs[<< >>].kind /\ Isdir(Entry(<< >>))
    BY PathsAreSequences, TreeFacts DEF Entry, Isdir
  <2>3. \A e \in pending' :
          e.path \in Paths /\ e.kind \in Kinds /\ (e.path \in Dirs <=> Isdir(e))
    BY <2>1, <2>2 DEF Paths
  <2> QED BY <1>0, <1>2, <2>3 DEF Types, Begin, reportVars
<1>3. CASE Finish
  <2>1. files \subseteq Records
    BY DEF Types
  <2>2. TreeHash(files) \subseteq Files \X Contents
    BY <2>1 DEF TreeHash, Records
  <2>3. /\ lastHash' = { TreeHash(files) } /\ sent' \in { sent, files } /\ marker' \in BOOLEAN
        /\ step' = "idle" /\ pending = {}
        /\ UNCHANGED << fs, pending, info, matchers, files, skipped, touched, still, edits >>
    BY <1>3 DEF Finish
  <2> QED BY <1>0, <2>1, <2>2, <2>3 DEF Types
<1>4. ASSUME NEW e \in pending, Visit(e)
      PROVE  Types'
  <2>1. step # "idle" /\ UNCHANGED << fs, reportVars, touched, still, edits >>
    BY <1>4 DEF Visit, VisitDir, ListDir, PassOver, LeaveOut, Stat, HashFile
  <2>2. CASE VisitDir(e)
    <3>1. e.path \in Dirs
      BY <2>2 DEF VisitDir, Types
    <3>2. \A m \in matchers' : m.base \in Dirs /\ m.rules \subseteq Rule
      BY <2>2, <3>1, LoadIgnoreFacts DEF VisitDir, Types
    <3>3. step' \in { "visit", "list" } /\ pending' \subseteq pending /\ UNCHANGED << info, files, skipped >>
      BY <2>2 DEF VisitDir, Leave
    <3> QED BY <1>0, <2>1, <3>2, <3>3 DEF Types, reportVars, Isdir
  <2>3. CASE ListDir(e)
    <3>1. \A g \in pending' : g \in pending \/ \E p \in DOMAIN fs : g = Entry(p)
      BY <2>3 DEF ListDir
    <3>2. \A p \in DOMAIN fs : /\ p \in Paths /\ Entry(p).kind \in Kinds /\ Entry(p).path = p
                               /\ p \in Dirs <=> Isdir(Entry(p))
      BY TreeFacts DEF Entry, Isdir
    <3>3. \A g \in pending' :
            g.path \in Paths /\ g.kind \in Kinds /\ (g.path \in Dirs <=> Isdir(g))
      BY <3>1, <3>2 DEF Types
    <3>4. step' = "visit" /\ UNCHANGED << info, matchers, files, skipped >>
      BY <2>3 DEF ListDir
    <3> QED BY <1>0, <2>1, <3>3, <3>4 DEF Types, reportVars
  <2>4. CASE PassOver(e) \/ LeaveOut(e) \/ Stat(e)
    <3>0. skipped \in Nat
      BY DEF Types
    <3>1. /\ step' \in { "visit", "hash" } /\ pending' \subseteq pending
          /\ skipped' \in Nat /\ info' \in Infos /\ UNCHANGED << matchers, files >>
      <4>0. info \in Infos
        BY DEF Types
      <4>1. CASE PassOver(e)
        BY <3>0, <4>0, <4>1 DEF PassOver, Leave
      <4>2. CASE LeaveOut(e)
        BY <3>0, <4>0, <4>2 DEF LeaveOut, Leave
      <4>3. CASE Stat(e)
        <5>1. e.path \in DOMAIN fs
          BY <4>3 DEF Stat, Now
        <5> QED BY <3>0, <4>3, <5>1, TreeFacts DEF Stat
      <4> QED BY <2>4, <4>1, <4>2, <4>3
    <3> QED BY <1>0, <2>1, <3>1 DEF Types, reportVars, Isdir
  <2>5. CASE HashFile(e)
    <3>1. e.path \in Files
      BY <2>1, <2>5, AtFile DEF HashFile
    <3>2. /\ step' = "visit" /\ pending' \subseteq pending /\ UNCHANGED matchers
          /\ skipped' \in Nat
          /\ \/ files' = files
             \/ /\ files' = files \cup { Found(e) }
                /\ Now(e.path) # "gone"
      BY <2>5 DEF HashFile, Found, Leave, Types
    <3>3. Now(e.path) # "gone" => fs[e.path].content \in Contents
      BY TreeFacts DEF Now
    <3>4. files' \subseteq Records
      BY <3>1, <3>2, <3>3, FoundIs DEF Types, Records
    <3>5. info' \in Infos
      BY <2>5 DEF HashFile, NoInfo, Infos
    <3> QED BY <1>0, <2>1, <3>2, <3>4, <3>5 DEF Types, reportVars, Isdir
  <2> QED BY <1>4, <2>2, <2>3, <2>4, <2>5 DEF Visit
<1> QED BY <1>1, <1>2, <1>3, <1>4 DEF Next

\* Every step of the walk but those that list a directory or read a file only
\* leaves an entry, or nothing.
LEMMA QuietStep ==
  ASSUME NEW e \in pending,
         VisitDir(e) \/ PassOver(e) \/ LeaveOut(e) \/ Stat(e)
  PROVE  pending' \subseteq pending /\ files' = files
<1>1. CASE VisitDir(e)
  BY <1>1 DEF VisitDir, Leave
<1>2. CASE PassOver(e)
  BY <1>2 DEF PassOver, Leave
<1>3. CASE LeaveOut(e)
  BY <1>3 DEF LeaveOut, Leave
<1>4. CASE Stat(e)
  BY <1>4 DEF Stat
<1> QED BY <1>1, <1>2, <1>3, <1>4

\* The listing of a directory keeps clear of everything else.
LEMMA ListingApart ==
  ASSUME Types, Apart, NEW e \in pending, ListDir(e)
  PROVE  Apart'
<1> DEFINE inside == { p \in DOMAIN fs : p # << >> /\ Front(p) = e.path }
<1>1. /\ files' = files
      /\ \A g \in pending' : g \in pending \ { e } \/ \E c \in inside : g = Entry(c)
  BY DEF ListDir
<1>2. /\ \A c \in inside : c \in Seq(Names) /\ c # << >> /\ Front(c) = e.path
                           /\ Entry(c).path = c
      /\ \A g \in pending : g.path \in Seq(Names)
      /\ \A f \in files : f.path \in Seq(Names)
  BY PathsAreSequences DEF Types, Records, IsTree, Paths, Entry
<1>3. ASSUME NEW c \in inside, NEW f \in files
      PROVE  ~IsPrefix(c, f.path)
  BY <1>2, PrefixSteps DEF Apart
<1>4. ASSUME NEW c \in inside, NEW g \in pending \ { e }
      PROVE  ~IsPrefix(c, g.path) /\ ~IsPrefix(g.path, c)
  <2>1. ~IsPrefix(e.path, g.path) /\ ~IsPrefix(g.path, e.path)
    BY DEF Apart
  <2>2. ~IsPrefix(c, g.path)
    BY <1>2, <2>1, PrefixSteps
  <2>3. IsPrefix(g.path, c) => g.path = c
    BY <1>2, <2>1, PrefixSteps
  <2>4. IsPrefix(c, c)
    BY <1>2, PrefixSteps
  <2> QED BY <2>2, <2>3, <2>4
<1>5. ASSUME NEW c \in inside, NEW b \in inside, IsPrefix(c, b)
      PROVE  b = c
  BY <1>2, <1>5, PrefixSteps
<1> HIDE DEF inside
<1>6. ASSUME NEW g \in pending', NEW f \in files'
      PROVE  ~IsPrefix(g.path, f.path)
  <2>1. CASE g \in pending \ { e }
    BY <1>1, <1>6, <2>1 DEF Apart
  <2>2. CASE \E c \in inside : g = Entry(c)
    BY <1>1, <1>2, <1>3, <1>6, <2>2
  <2> QED BY <1>1, <2>1, <2>2
<1>7. ASSUME NEW g \in pending', NEW h \in pending' \ { g }
      PROVE  ~IsPrefix(g.path, h.path)
  <2>1. CASE g \in pending \ { e } /\ h \in pending \ { e }
    BY <1>7, <2>1 DEF Apart
  <2>2. CASE g \in pending \ { e } /\ \E c \in inside : h = Entry(c)
    BY <1>2, <1>4, <2>2
  <2>3. CASE h \in pending \ { e } /\ \E c \in inside : g = Entry(c)
    BY <1>2, <1>4, <2>3
  <2>4. CASE (\E c \in inside : g = Entry(c)) /\ (\E c \in inside : h = Entry(c))
    BY <1>2, <1>5, <1>7, <2>4
  <2> QED BY <1>1, <1>7, <2>1, <2>2, <2>3, <2>4
<1> QED BY <1>1, <1>6, <1>7 DEF Apart

LEMMA ApartStep ==
  ASSUME Types, Apart, step # "idle" => Walking, Next
  PROVE  Apart'
<1>1. CASE User
  <2>1. UNCHANGED << pending, files >>
    BY <1>1 DEF User, Write, Delete, Edit, walkVars
  <2> QED BY <2>1 DEF Apart
<1>2. CASE Begin
  <2>1. files' = {} /\ \A e, g \in pending' : e = g
    BY <1>2 DEF Begin
  <2> QED BY <2>1 DEF Apart
<1>3. CASE Finish
  BY <1>3 DEF Finish, Apart
<1>4. ASSUME NEW e \in pending, Visit(e)
      PROVE  Apart'
  <2>1. CASE VisitDir(e) \/ PassOver(e) \/ LeaveOut(e) \/ Stat(e)
    BY <2>1, QuietStep DEF Apart
  <2>2. CASE ListDir(e)
    BY <2>2, ListingApart
  <2>3. CASE HashFile(e)
    <3>1. e.path \in Seq(Names) /\ IsPrefix(e.path, e.path)
      BY PathsAreSequences, PrefixSteps, PrefixPoints DEF Types
    <3>2. /\ pending' = pending \ { e }
          /\ \/ files' = files
             \/ files' = files \cup { Found(e) }
      BY <2>3 DEF HashFile, Found, Leave
    <3>3. \A f \in files' : f \in files \/ f = Found(e)
      BY <3>2
    <3>4. \A f \in files' : f \in files \/ f.path = e.path
      BY <3>3, FoundIs
    <3>5. \A g \in pending', f \in files' : ~IsPrefix(g.path, f.path)
      BY <3>2, <3>4 DEF Apart
    <3>6. \A f, g \in files' : f.path = g.path => f = g
      BY <3>1, <3>3, <3>4 DEF Apart
    <3> QED BY <3>2, <3>5, <3>6 DEF Apart
  <2> QED BY <1>4, <2>1, <2>2, <2>3 DEF Visit
<1> QED BY <1>1, <1>2, <1>3, <1>4 DEF Next

\* What has not changed stands as it did.
LEMMA StandsStill ==
  ASSUME Steady, NEW g, g \notin touched', Stands(g)
  PROVE  Stands(g)' /\ RulesOf(g)' = RulesOf(g)
<1>1. g \in DOMAIN fs
  BY DEF Stands, Now
<1>2. fs'[g] = fs[g] /\ g \in DOMAIN fs'
  BY <1>1 DEF Steady
<1> QED BY <1>1, <1>2 DEF Stands, Now, RulesOf

LEMMA SoundStep ==
  ASSUME Types, step # "idle" => Sound /\ Walking, Next, step' # "idle"
  PROVE  Sound'
<1>1. CASE Begin
  BY <1>1 DEF Begin, Sound
<1>2. CASE Finish
  BY <1>2 DEF Finish
<1>3. ASSUME step # "idle", UNCHANGED matchers
      PROVE  Sound'
  <2>1. Steady
    BY <1>3, WalkIsSteady
  <2>2. SUFFICES ASSUME NEW m \in matchers, Append(m.base, IgnoreName) \notin touched'
                 PROVE  /\ Stands(Append(m.base, IgnoreName))'
                        /\ m.rules = RulesOf(Append(m.base, IgnoreName))'
    BY <1>3 DEF Sound
  <2>3. Append(m.base, IgnoreName) \notin touched
    BY <2>1, <2>2 DEF Steady
  <2> QED BY <1>3, <2>1, <2>2, <2>3, StandsStill DEF Sound
<1>4. CASE User
  <2>1. UNCHANGED << step, matchers >>
    BY <1>4 DEF User, Write, Delete, Edit, walkVars
  <2> QED BY <1>3, <2>1
<1>5. ASSUME NEW e \in pending, VisitDir(e)
      PROVE  Sound'
  <2>1. e.path \in Dirs
    BY <1>5 DEF VisitDir, Types
  <2>2. UNCHANGED << fs, touched >> /\ (matchers' = matchers \/ matchers' = loadIgnore(e.path))
    BY <1>5 DEF VisitDir
  <2>3. step # "idle"
    BY <1>5 DEF VisitDir
  <2>4. CASE matchers' = matchers
    BY <1>3, <2>3, <2>4
  <2>5. CASE matchers' = loadIgnore(e.path)
    <3> SUFFICES ASSUME NEW m \in matchers', Append(m.base, IgnoreName) \notin touched
                 PROVE  /\ Stands(Append(m.base, IgnoreName))
                        /\ m.rules = RulesOf(Append(m.base, IgnoreName))
      BY <2>2 DEF Sound, Stands, RulesOf, Now
    <3>1. CASE m \in matchers
      BY <2>3, <3>1 DEF Sound
    <3>2. CASE LET g == Append(e.path, IgnoreName)
               IN  /\ m = [ base |-> e.path, rules |-> RulesOf(g) ]
                   /\ Now(g) \in { "file", "big", "link" }
      BY <3>2 DEF Stands
    <3> QED BY <2>1, <2>5, <3>1, <3>2, LoadIgnoreFacts
  <2> QED BY <2>2, <2>4, <2>5
<1>6. ASSUME NEW e \in pending, ~VisitDir(e), Visit(e)
      PROVE  Sound'
  <2>1. step # "idle" /\ UNCHANGED matchers
    BY <1>6 DEF Visit, ListDir, PassOver, LeaveOut, Stat, HashFile
  <2> QED BY <1>3, <2>1
<1> QED BY <1>1, <1>2, <1>4, <1>5, <1>6 DEF Next

\* The entry the walk is at, a directory it enters.
LEMMA EnteringStep ==
  ASSUME Types, Sound, Walking, NEW e \in pending, VisitDir(e), ~Pruned(e)
  PROVE  Entered(e)'
<1>1. /\ At(e) /\ Isdir(e) /\ matchers' = loadIgnore(e.path) /\ UNCHANGED << fs, touched, pending >>
  BY DEF VisitDir
<1>2. At(e)' /\ Isdir(e)'
  BY <1>1 DEF At, Isdir
<1>3. LoadedFrom(e.path)'
  <2> DEFINE g == Append(e.path, IgnoreName)
  <2>1. SUFFICES ASSUME Stands(g)
                 PROVE  [ base |-> e.path, rules |-> RulesOf(g) ] \in matchers'
    BY <1>1 DEF LoadedFrom, Stands, RulesOf, Now
  <2>2. Now(g) \in { "file", "big", "link" }
    BY <2>1 DEF Stands
  <2> QED BY <1>1, <2>2 DEF loadIgnore, RulesOf
<1>4. ASSUME e.path # << >>
      PROVE  Last(e.path) \notin AlwaysSkip /\ ~Matched(e.path, TRUE)'
  <2>1. Last(e.path) \notin AlwaysSkip /\ ~ignored(matchers, e.path, TRUE)
    BY <1>4 DEF Pruned
  <2>2. e.path \in Paths /\ \A d \in Around(e.path) : LoadedFrom(d)
    BY DEF Types, Walking, Listed
  <2>3. ~Matched(e.path, TRUE)
    BY <2>1, <2>2, RulesFound
  <2> QED BY <1>1, <2>1, <2>3 DEF Matched, Stands, RulesOf, Now
<1> QED BY <1>2, <1>3, <1>4 DEF Entered

\* The entries of a directory that is read.
LEMMA ListingStep ==
  ASSUME Types, Walking, NEW e, Entered(e), e \in pending, Now(e.path) = "dir",
         NEW c \in DOMAIN fs, c # << >>, Front(c) = e.path
  PROVE  Listed(Entry(c))
<1>1. c \in Seq(Names) /\ e.path \in Seq(Names) /\ Listed(e)
  BY PathsAreSequences DEF Types, IsTree, Paths, Walking
<1>2. Entry(c).path = c /\ Entry(c).kind = Now(c)
  BY DEF Entry, Now
<1>3. Around(c) = Around(e.path) \cup { e.path }
  BY <1>1, FrontFacts
<1>4. Admitted(e.path) /\ \A d \in Around(e.path) : LoadedFrom(d)
  BY <1>1 DEF Listed
<1>5. Range(e.path) \cap AlwaysSkip = {}
  <2>1. CASE e.path = << >>
    BY <2>1 DEF Range
  <2>2. CASE e.path # << >>
    BY <1>1, <1>4, <2>2, NamesOnTheWay DEF Admitted, Entered
  <2> QED BY <2>1, <2>2
<1>6. \A q \in Around(c) \ { << >> } : ~Matched(q, TRUE)
  BY <1>3, <1>4 DEF Admitted, Entered
<1>7. \A q \in Around(c) \ touched : Now(q) = "dir"
  BY <1>3, <1>4 DEF Admitted
<1>8. \A d \in Around(c) : LoadedFrom(d)
  BY <1>3, <1>4 DEF Entered
<1>9. Admitted(c)
  BY <1>5, <1>6, <1>7 DEF Admitted
<1> QED BY <1>2, <1>8, <1>9 DEF Listed

\* The record of a file that is read.
LEMMA RecordingStep ==
  ASSUME Types, Walking, NEW e, Examined(e), e \in pending
  PROVE  /\ Admitted(e.path) /\ ~Matched(e.path, FALSE) /\ e.path \in Files
         /\ e.path \notin touched => /\ Now(e.path) \in { "file", "locked" }
                                     /\ Found(e) = Record(e.path)
<1>1. e.path \in Paths /\ Listed(e) /\ e.kind \in Kinds /\ e.path \in Files
  BY DEF Types, Walking, Paths, Examined, Regular
<1>2. ~Matched(e.path, FALSE)
  BY <1>1, RulesFound DEF Listed, Examined, Regular
<1>3. ASSUME e.path \notin touched
      PROVE  Now(e.path) \in { "file", "locked" } /\ Found(e) = Record(e.path)
  <2>1. /\ Now(e.path) = e.kind /\ Now(e.path) \notin { "gone", "big" }
        /\ info = Info(e.path)
    BY <1>1, <1>3 DEF Listed, Examined
  <2>3. Found(e) = Record(e.path)
    BY <2>1, FoundIs DEF Record
  <2>2. e.kind \in Kinds \ { "dir", "lockedDir", "link" }
    BY <1>1 DEF Examined, Regular, Isdir
  <2> QED BY <2>1, <2>2, <2>3 DEF Kinds
<1> QED BY <1>1, <1>2, <1>3 DEF Listed

\* And of one that is left out.
LEMMA LeavingStep ==
  ASSUME Types, Walking, NEW e \in pending, Regular(e)
  PROVE  /\ Admitted(e.path) /\ ~Matched(e.path, FALSE) /\ e.path \in Files
         /\ e.path \notin touched => Now(e.path) \in { "file", "big", "locked" }
<1>1. e.path \in Paths /\ Listed(e) /\ e.kind \in Kinds /\ e.path \in Files
  BY DEF Types, Walking, Paths, Regular
<1>2. ~Matched(e.path, FALSE)
  BY <1>1, RulesFound DEF Listed, Regular
<1>3. e.kind \in Kinds \ { "dir", "lockedDir", "link" }
  BY <1>1 DEF Regular, Isdir
<1> QED BY <1>1, <1>2, <1>3 DEF Listed, Kinds

LEMMA WalkingStep ==
  ASSUME Types, step # "idle" => Sound /\ Walking, Next, step' # "idle"
  PROVE  Walking'
<1>1. CASE Begin
  <2>1. /\ step' = "visit" /\ files' = {}
        /\ \A e \in pending' : << >> \in DOMAIN fs /\ e = Entry(<< >>)
        /\ UNCHANGED fs
    BY <1>1 DEF Begin
  <2>2. << >> \in Seq(Names) /\ Around(<< >>) = {} /\ Range(Front(<< >>)) = {}
    BY DEF Around, Range, Front
  <2>3. << >> \in DOMAIN fs =>
          Entry(<< >>).path = << >> /\ Entry(<< >>).kind = Now(<< >>)'
    BY <2>1 DEF Entry, Now
  <2>4. Admitted(<< >>)'
    BY <2>2 DEF Admitted
  <2>5. \A e \in pending' : Listed(e)'
    BY <2>1, <2>2, <2>3, <2>4 DEF Listed
  <2> QED BY <2>1, <2>5 DEF Walking
<1>2. CASE Finish
  BY <1>2 DEF Finish
<1>3. CASE User
  <2>1. UNCHANGED << step, pending, info, matchers, files >>
    BY <1>3 DEF User, Write, Delete, Edit, walkVars
  <2>2. Steady /\ Walking
    BY <2>1, WalkIsSteady
  <2>3. \A e : At(e) => At(e)'
    BY <2>1 DEF At
  <2>4. /\ \A e \in pending' : Listed(e)'
        /\ \A f \in files' : Recorded(f)'
    BY <2>1, <2>2, SteadyFacts DEF Walking
  <2>5. \A e : Entered(e) => Entered(e)'
    BY <2>1, <2>2, <2>3, SteadyFacts DEF Entered
  <2>6. \A e : Examined(e) => Examined(e)'
    <3> SUFFICES ASSUME NEW e, Examined(e) PROVE Examined(e)'
      OBVIOUS
    <3>1. At(e)' /\ Regular(e)'
      BY <2>1, <2>3 DEF Examined, Regular
    <3>2. e.path \notin touched' => Now(e.path)' = Now(e.path) /\ e.path \notin touched
      BY <2>1, <2>2, SteadyFacts DEF Steady
    <3>3. ASSUME e.path \notin touched'
          PROVE  info' = Info(e.path)'
      <4>1. Now(e.path) # "gone" /\ info = Info(e.path)
        BY <3>2, <3>3 DEF Examined
      <4>2. fs'[e.path] = fs[e.path]
        BY <2>2, <3>3, <4>1 DEF Steady, Now
      <4> QED BY <2>1, <4>1, <4>2 DEF Info
    <3> QED BY <3>1, <3>2, <3>3 DEF Examined
  <2>7. step' = "list" => \E e \in pending' : Entered(e)'
    BY <2>1, <2>2, <2>5 DEF Walking
  <2>8. step' = "hash" => \E e \in pending' : Examined(e)'
    BY <2>1, <2>2, <2>6 DEF Walking
  <2> QED BY <2>4, <2>7, <2>8 DEF Walking
<1>4. ASSUME NEW e \in pending, Visit(e)
      PROVE  Walking'
  <2>1. step # "idle" /\ UNCHANGED << fs, touched >> /\ Walking /\ Sound
    BY <1>4 DEF Visit, VisitDir, ListDir, PassOver, LeaveOut, Stat, HashFile
  <2>2. Steady
    BY <2>1, SteadyWhenSame
  <2>3. matchers \subseteq matchers'
    BY <1>4 DEF Visit, VisitDir, ListDir, PassOver, LeaveOut, Stat, HashFile, loadIgnore
  <2>4. /\ \A g \in pending : Listed(g)'
        /\ \A f \in files : Recorded(f)'
    BY <2>1, <2>2, <2>3, SteadyFacts DEF Walking
  <2>5. CASE VisitDir(e)
    <3>1. pending' \subseteq pending /\ files' = files
      BY <2>5, QuietStep
    <3>2. step' = "visit" \/ (step' = "list" /\ ~Pruned(e) /\ pending' = pending)
      BY <2>5 DEF VisitDir, Leave
    <3>3. CASE step' = "visit"
      BY <2>4, <3>1, <3>3 DEF Walking
    <3>4. CASE step' = "list" /\ ~Pruned(e) /\ pending' = pending
      BY <2>1, <2>4, <2>5, <3>1, <3>4, EnteringStep DEF Walking
    <3> QED BY <3>2, <3>3, <3>4
  <2>6. CASE ListDir(e)
    <3>1. Entered(e) /\ step' = "visit" /\ files' = files /\ matchers' = matchers
      BY <2>1, <2>6, AtDirectory DEF ListDir
    <3>2. \A g \in pending' :
            \/ g \in pending
            \/ Now(e.path) = "dir" /\ \E c \in DOMAIN fs : c # << >> /\ Front(c) = e.path /\ g = Entry(c)
      BY <2>6 DEF ListDir
    <3>3. \A g \in pending' : g \in pending \/ Listed(g)
      BY <2>1, <3>1, <3>2, ListingStep
    <3>4. \A g \in pending' : Listed(g)'
      BY <2>2, <2>3, <2>4, <3>3, SteadyFacts
    <3> QED BY <2>4, <3>1, <3>4 DEF Walking
  <2>7. CASE PassOver(e) \/ LeaveOut(e)
    <3>1. pending' \subseteq pending /\ files' = files
      BY <2>7, QuietStep
    <3>2. step' = "visit"
      BY <2>7 DEF PassOver, LeaveOut, Leave
    <3> QED BY <2>4, <3>1, <3>2 DEF Walking
  <2>8. CASE Stat(e)
    <3>1. /\ step' = "hash" /\ UNCHANGED << pending, files, matchers >>
          /\ info' = Info(e.path)
      BY <2>8 DEF Stat
    <3>2. At(e) /\ Regular(e) /\ Now(e.path) \notin { "gone", "big" }
      BY <2>8 DEF Stat
    <3>3. Examined(e)'
      BY <2>1, <3>1, <3>2 DEF Examined, At, Regular, Now, Info
    <3> QED BY <2>4, <3>1, <3>3 DEF Walking
  <2>9. CASE HashFile(e)
    <3>1. Examined(e)
      BY <2>1, <2>9, AtFile DEF HashFile
    <3>2. /\ step' = "visit" /\ pending' \subseteq pending
          /\ \/ files' = files
             \/ /\ files' = files \cup { Found(e) }
                /\ Now(e.path) \notin { "gone", "locked" }
      BY <2>9 DEF HashFile, Found, Leave
    <3>3. Now(e.path) \notin { "gone", "locked" } => Recorded(Found(e))
      <4>1. Found(e).path = e.path
        BY FoundIs
      <4> QED BY <2>1, <3>1, <4>1, RecordingStep DEF Recorded
    <3>4. \A f \in files' : Recorded(f)'
      BY <2>1, <2>2, <2>3, <2>4, <3>2, <3>3, SteadyFacts
    <3> QED BY <2>4, <3>2, <3>4 DEF Walking
  <2> QED BY <1>4, <2>5, <2>6, <2>7, <2>8, <2>9 DEF Visit
<1> QED BY <1>1, <1>2, <1>3, <1>4 DEF Next

\* A file that should be seen and is at or below e: so are the directories on
\* the way to it.
LEMMA OnTheWay ==
  ASSUME Types, NEW p \in Files, Eligible(p), NEW e \in pending, IsPrefix(e.path, p)
  PROVE  /\ p \in Seq(Names) /\ e.path \in Seq(Names) /\ p \in DOMAIN fs
         /\ Isdir(e) => e.path \in Around(p) /\ Now(e.path) = "dir"
         /\ ~Isdir(e) => e.path = p
<1>1. p \in Paths /\ p \notin Dirs /\ p \in Seq(Names) /\ Around(p) \subseteq Dirs
  BY PathsAreSequences DEF Paths
<1>2. e.path \in Seq(Names) /\ (e.path \in Dirs <=> Isdir(e))
  BY PathsAreSequences DEF Types
<1>3. e.path = p \/ e.path \in Around(p)
  BY <1>1, <1>2, AroundIsPrefix
<1> QED BY <1>1, <1>2, <1>3 DEF Eligible, Reached

\* What was seen still is, when nothing is taken from the listing.
LEMMA SeenStays ==
  ASSUME Steady, Types, NEW K, Seen(K), pending \subseteq pending', files \subseteq files'
  PROVE  Seen(K)'
<1> SUFFICES ASSUME NEW p \in Files, Settled(p)', Eligible(p)'
             PROVE  \/ \E e \in pending' : IsPrefix(e.path, p)
                    \/ Now(p)' = "file" /\ Record(p)' \in files'
                    \/ Now(p)' \in { "big", "locked" } /\ p \in K
                    \/ Now(p)' = "link"
  BY DEF Seen
<1>1. Settled(p) /\ Eligible(p) /\ Now(p)' = Now(p) /\ (p \in DOMAIN fs => fs'[p] = fs[p])
  BY SettledFacts DEF Paths
<1>2. Record(p)' = Record(p)
  BY <1>1 DEF Eligible, Reached, Record, Info
<1> QED BY <1>1, <1>2 DEF Seen

\* When an entry is, everything it stood for has been seen.
LEMMA SeenWithout ==
  ASSUME UNCHANGED << fs, touched >>, NEW e \in pending, pending \ { e } \subseteq pending',
         files \subseteq files', NEW K, Seen(K), NEW L, K \subseteq L,
         \A p \in Files : Settled(p) /\ Eligible(p) /\ IsPrefix(e.path, p) =>
           \/ \E g \in pending' : IsPrefix(g.path, p)
           \/ Now(p) = "file" /\ Record(p) \in files'
           \/ Now(p) \in { "big", "locked" } /\ p \in L
           \/ Now(p) = "link"
  PROVE  Seen(L)'
<1> SUFFICES ASSUME NEW p \in Files, Settled(p), Eligible(p)
             PROVE  \/ \E g \in pending' : IsPrefix(g.path, p)
                    \/ Now(p) = "file" /\ Record(p) \in files'
                    \/ Now(p) \in { "big", "locked" } /\ p \in L
                    \/ Now(p) = "link"
  BY DEF Seen, Settled, Eligible, Reached, Excluded, Now, Record, Info
<1> QED BY DEF Seen

\* A directory or a file is passed by for what excludes it.
LEMMA PassedBy ==
  ASSUME Types, Sound, Walking, NEW e \in pending,
         NEW p \in Files, Settled(p), Eligible(p), IsPrefix(e.path, p)
  PROVE  /\ ~(Isdir(e) /\ Pruned(e))
         /\ ~Isdir(e) => ~ignored(matchers, e.path, FALSE) /\ Now(p) = e.kind
<1>1. /\ p \in Seq(Names) /\ e.path \in Seq(Names) /\ p \in DOMAIN fs
      /\ Isdir(e) => e.path \in Around(p) /\ Now(e.path) = "dir"
      /\ ~Isdir(e) => e.path = p
  BY OnTheWay
<1>2. p \in Paths /\ e.path \in Paths
  BY DEF Paths, Types
<1>3. ~Excluded(p, IgnoreFiles(p)) /\ \A q \in Around(p) \ { << >> } : Last(q) \notin AlwaysSkip
  BY DEF Eligible, Reached
<1>4. ASSUME Isdir(e), Pruned(e)
      PROVE  FALSE
  <2>1. e.path # << >> /\ e.path \in Around(p)
    BY <1>1, <1>4 DEF Pruned
  <2>2. ignored(matchers, e.path, TRUE)
    BY <1>3, <1>4, <2>1 DEF Pruned
  <2>3. e.path # p
    BY <1>1, <2>1, AroundIsPrefix
  <2> QED BY <1>2, <1>3, <2>2, <2>3, RulesExclude
<1>5. ASSUME ~Isdir(e)
      PROVE  ~ignored(matchers, e.path, FALSE) /\ Now(p) = e.kind
  <2>1. ~ignored(matchers, e.path, FALSE)
    BY <1>2, <1>3, RulesExclude
  <2>2. p \notin touched
    BY DEF Settled
  <2> QED BY <1>1, <1>5, <2>1, <2>2 DEF Walking, Listed
<1> QED BY <1>4, <1>5

\* One more file is left out.
LEMMA OneMoreOut ==
  ASSUME Types, Apart, NEW e \in pending, e.path \in Files,
         NEW K \in SUBSET Files, Cardinality(K) = skipped,
         \A g \in pending, p \in K : ~IsPrefix(g.path, p)
  PROVE  /\ K \cup { e.path } \in SUBSET Files
         /\ Cardinality(K \cup { e.path }) = skipped + 1
         /\ \A g \in pending \ { e }, p \in K \cup { e.path } : ~IsPrefix(g.path, p)
<1>1. e.path \in Seq(Names) /\ IsPrefix(e.path, e.path)
  BY PathsAreSequences, PrefixPoints DEF Paths
<1>2. e.path \notin K
  BY <1>1
<1>3. IsFiniteSet(K)
  BY WalkAssumption, FS_Subset
<1>4. Cardinality(K \cup { e.path }) = skipped + 1
  BY <1>2, <1>3, FS_AddElement
<1> QED BY <1>4 DEF Apart

\* Whatever the step, the files left out are some set, right but for what has
\* changed, and nothing that should be seen is missed.
LEMMA LeftOutStep ==
  ASSUME Types, Apart, step # "idle" => Sound /\ Walking,
         NEW K \in SUBSET Files, LeftOut(K), Next
  PROVE  \E L \in SUBSET Files : LeftOut(L)'
<1>1. CASE Begin
  <2>1. /\ skipped' = 0 /\ files' = {} /\ UNCHANGED fs
        /\ pending' = IF << >> \in DOMAIN fs THEN { Entry(<< >>) } ELSE {}
    BY <1>1 DEF Begin
  <2>2. Cardinality({}) = 0
    BY FS_EmptySet
  <2>3. ASSUME NEW p \in Files, Eligible(p)'
        PROVE  \E e \in pending' : IsPrefix(e.path, p)
    <3>1. p \in DOMAIN fs /\ p \in Paths /\ p \notin Dirs /\ p \in Seq(Names)
      BY <2>1, <2>3, PathsAreSequences DEF Eligible, Reached, Paths
    <3>2. << >> \in Seq(Names) /\ IsPrefix(<< >>, p) /\ << >> # p
      <4>1. << >> \in Seq(Names) /\ Len(<< >>) = 0
        OBVIOUS
      <4>2. IsPrefix(<< >>, p)
        <5>1. Len(<< >>) <= Len(p) /\ \A i \in 1 .. Len(<< >>) : << >>[i] = p[i]
          BY <3>1, <4>1
        <5> QED BY <3>1, <4>1, <5>1, PrefixPoints
      <4> QED BY <3>1, <4>1, <4>2, PathsAreSequences
    <3>3. << >> \in DOMAIN fs
      BY <3>1, <3>2, AroundIsPrefix, TreeFacts
    <3>4. Entry(<< >>) \in pending' /\ Entry(<< >>).path = << >>
      BY <2>1, <3>3 DEF Entry
    <3> QED BY <3>2, <3>4
  <2>4. LeftOut({})'
    BY <2>1, <2>2, <2>3 DEF LeftOut, Seen
  <2> QED BY <2>4
<1>2. CASE Finish
  <2>1. step' = "idle" /\ UNCHANGED << pending, skipped >>
    BY <1>2 DEF Finish
  <2> QED BY <2>1 DEF LeftOut
<1>3. CASE User
  <2>1. UNCHANGED << step, pending, files, matchers, skipped >>
    BY <1>3 DEF User, Write, Delete, Edit, walkVars
  <2>2. step # "idle" => Steady
    BY WalkIsSteady
  <2>3. step # "idle" => Seen(K)' /\ \A p \in K : Omitted(p)'
    BY <2>1, <2>2, SeenStays, SteadyFacts DEF LeftOut
  <2>4. LeftOut(K)'
    BY <2>1, <2>3 DEF LeftOut
  <2> QED BY <2>4
<1>4. ASSUME NEW e \in pending, Visit(e)
      PROVE  \E L \in SUBSET Files : LeftOut(L)'
  <2>1. step # "idle" /\ UNCHANGED << fs, touched >> /\ Walking /\ Sound
    BY <1>4 DEF Visit, VisitDir, ListDir, PassOver, LeaveOut, Stat, HashFile
  <2>2. Steady
    BY <2>1, SteadyWhenSame
  <2>3. matchers \subseteq matchers'
    BY <1>4 DEF Visit, VisitDir, ListDir, PassOver, LeaveOut, Stat, HashFile, loadIgnore
  <2>4. /\ Cardinality(K) = skipped /\ \A g \in pending, p \in K : ~IsPrefix(g.path, p)
        /\ Seen(K) /\ \A p \in K : Omitted(p) /\ Omitted(p)'
    BY <2>1, <2>2, <2>3, SteadyFacts DEF LeftOut
  <2>5. ASSUME pending' = pending, files' = files, skipped' = skipped
        PROVE  LeftOut(K)'
    BY <2>2, <2>4, <2>5, SeenStays DEF LeftOut
  <2>6. CASE VisitDir(e)
    <3>1. files' = files /\ skipped' = skipped
      BY <2>6 DEF VisitDir
    <3>2. pending' = pending \/ (Isdir(e) /\ Pruned(e) /\ pending' = pending \ { e })
      BY <2>6 DEF VisitDir, Leave
    <3>3. CASE pending' = pending
      BY <2>5, <3>1, <3>3
    <3>4. CASE Isdir(e) /\ Pruned(e) /\ pending' = pending \ { e }
      <4>1. \A p \in Files : ~(Settled(p) /\ Eligible(p) /\ IsPrefix(e.path, p))
        BY <2>1, <3>4, PassedBy
      <4>2. Seen(K)'
        BY <2>1, <2>4, <3>1, <3>4, <4>1, SeenWithout
      <4> QED BY <2>4, <3>1, <3>4, <4>2 DEF LeftOut
    <3> QED BY <3>2, <3>3, <3>4
  <2>7. CASE ListDir(e)
    <3> DEFINE inside == { c \in DOMAIN fs : c # << >> /\ Front(c) = e.path }
    <3>1. Entered(e) /\ files' = files /\ skipped' = skipped
      BY <2>1, <2>7, AtDirectory DEF ListDir
    <3>2. /\ pending \ { e } \subseteq pending'
          /\ \A g \in pending' : g \in pending \/ \E c \in inside : g = Entry(c)
          /\ Now(e.path) = "dir" => \A c \in inside : Entry(c) \in pending'
      BY <2>7 DEF ListDir
    <3>3. ASSUME NEW p \in Files, Eligible(p), IsPrefix(e.path, p)
          PROVE  \E g \in pending' : IsPrefix(g.path, p)
      <4>1. /\ p \in Seq(Names) /\ p \in DOMAIN fs
            /\ e.path \in Around(p) /\ Now(e.path) = "dir"
        BY <3>1, <3>3, OnTheWay DEF Entered
      <4>2. PICK c \in Seq(Names) : /\ c # << >> /\ Front(c) = e.path /\ IsPrefix(c, p)
                                    /\ c = p \/ c \in Around(p)
        BY <4>1, EntryTowards
      <4>3. c \in inside
        BY <4>1, <4>2, TreeFacts
      <4>4. Entry(c) \in pending' /\ Entry(c).path = c
        BY <3>2, <4>1, <4>3 DEF Entry
      <4> QED BY <4>2, <4>4
    <3>4. Seen(K)'
      BY <2>1, <2>4, <3>1, <3>2, <3>3, SeenWithout
    <3>5. ASSUME NEW g \in pending', NEW p \in K
          PROVE  ~IsPrefix(g.path, p)
      <4>1. CASE g \in pending
        BY <2>4, <4>1
      <4>2. ASSUME NEW c \in inside, g = Entry(c)
            PROVE  ~IsPrefix(g.path, p)
        <5>1. c \in Seq(Names) /\ p \in Seq(Names) /\ g.path = c
          BY <4>2, PathsAreSequences DEF Types, IsTree, Paths, Entry
        <5>2. ~IsPrefix(e.path, p)
          BY <2>4
        <5> QED BY <5>1, <5>2, PrefixSteps
      <4> QED BY <3>2, <4>1, <4>2
    <3> QED BY <2>4, <3>1, <3>4, <3>5 DEF LeftOut
  <2>8. CASE PassOver(e)
    <3>1. pending' = pending \ { e } /\ files' = files /\ skipped' = skipped
      BY <2>8 DEF PassOver, Leave
    <3>2. ~Isdir(e) /\ (e.kind = "link" \/ ignored(matchers, e.path, FALSE))
      BY <2>8 DEF PassOver
    <3>3. \A p \in Files :
            Settled(p) /\ Eligible(p) /\ IsPrefix(e.path, p) => Now(p) = "link"
      BY <2>1, <3>2, PassedBy
    <3>4. Seen(K)'
      BY <2>1, <2>4, <3>1, <3>3, SeenWithout
    <3> QED BY <2>4, <3>1, <3>4 DEF LeftOut
  <2>9. CASE Stat(e)
    BY <2>5, <2>9 DEF Stat
  <2>10. ASSUME pending' = pending \ { e }, files' = files, skipped' = skipped + 1,
                Regular(e), Omitted(e.path), Now(e.path) \in { "gone", "big", "locked" }
         PROVE  LeftOut(K \cup { e.path })' /\ K \cup { e.path } \in SUBSET Files
    <3>1. /\ e.path \in Files /\ ~Isdir(e)
      BY <2>1, <2>10, LeavingStep DEF Regular
    <3>2. /\ K \cup { e.path } \in SUBSET Files
          /\ Cardinality(K \cup { e.path }) = skipped + 1
          /\ \A g \in pending \ { e }, p \in K \cup { e.path } : ~IsPrefix(g.path, p)
      BY <2>4, <3>1, OneMoreOut
    <3>3. ASSUME NEW p \in Files, Eligible(p), IsPrefix(e.path, p)
          PROVE  Now(p) \in { "big", "locked" } /\ p \in K \cup { e.path }
      <4>1. p = e.path /\ p \in DOMAIN fs
        BY <3>1, <3>3, OnTheWay
      <4>2. Now(p) # "gone"
        BY <4>1, TreeFacts DEF Kinds
      <4> QED BY <2>10, <4>1, <4>2
    <3>4. Seen(K \cup { e.path })'
      BY <2>1, <2>4, <2>10, <3>3, SeenWithout
    <3>5. Omitted(e.path)'
      BY <2>2, <2>3, <2>10, SteadyFacts
    <3> QED BY <2>4, <2>10, <3>2, <3>4, <3>5 DEF LeftOut
  <2>11. CASE LeaveOut(e)
    <3>1. /\ pending' = pending \ { e } /\ files' = files /\ skipped' = skipped + 1
          /\ Regular(e) /\ Now(e.path) \in { "gone", "big" }
      BY <2>11 DEF LeaveOut, Leave
    <3>2. Omitted(e.path)
      BY <2>1, <3>1, LeavingStep DEF Omitted
    <3> QED BY <2>10, <3>1, <3>2
  <2>12. CASE HashFile(e)
    <3>1. Examined(e) /\ pending' = pending \ { e }
      BY <2>1, <2>12, AtFile DEF HashFile, Leave
    <3>2. /\ Admitted(e.path) /\ ~Matched(e.path, FALSE) /\ e.path \in Files
          /\ e.path \notin touched => /\ Now(e.path) \in { "file", "locked" }
                                      /\ Found(e) = Record(e.path)
      BY <2>1, <3>1, RecordingStep
    <3>3. CASE Now(e.path) \notin { "gone", "locked" }
      <4>1. /\ files' = files \cup { Found(e) }
            /\ skipped' = skipped
        BY <2>12, <3>3 DEF HashFile, Found
      <4>2. ASSUME NEW p \in Files, Settled(p), Eligible(p), IsPrefix(e.path, p)
            PROVE  Now(p) = "file" /\ Record(p) \in files'
        <5>1. p = e.path
          BY <3>1, <4>2, OnTheWay DEF Examined, Regular
        <5>2. p \notin touched
          BY <4>2 DEF Settled
        <5> QED BY <3>2, <3>3, <4>1, <5>1, <5>2
      <4>3. Seen(K)'
        BY <2>1, <2>4, <3>1, <4>1, <4>2, SeenWithout
      <4> QED BY <2>4, <3>1, <4>1, <4>3 DEF LeftOut
    <3>4. CASE Now(e.path) \in { "gone", "locked" }
      <4>1. files' = files /\ skipped' = skipped + 1
        BY <2>12, <3>4 DEF HashFile
      <4>2. Omitted(e.path)
        BY <3>2, <3>4 DEF Omitted
      <4> QED BY <2>10, <3>1, <3>4, <4>1, <4>2 DEF Examined
    <3> QED BY <3>3, <3>4
  <2> QED BY <1>4, <2>6, <2>7, <2>8, <2>9, <2>11, <2>12, <2>5 DEF Visit
<1> QED BY <1>1, <1>2, <1>3, <1>4 DEF Next

-----------------------------------------------------------------------------
(* What the walk found, when it is over.                                   *)

\* A file that nothing keeps the walk from, and that has not changed, is one
\* that should be seen.
LEMMA AdmittedIsEligible ==
  ASSUME Types, NEW p \in Files, Settled(p), p \in DOMAIN fs,
         Admitted(p), ~Matched(p, FALSE)
  PROVE  Eligible(p)
<1>1. p \in Paths /\ p \in Seq(Names) /\ p # << >>
  BY PathsAreSequences DEF Paths
<1>2. IgnoreFiles(p) \ touched = IgnoreFiles(p)
  BY DEF Settled
<1>3. ~Excluded(p, IgnoreFiles(p))
  BY <1>1, <1>2, ExclusionMatches DEF Admitted
<1>4. \A q \in Around(p) : Now(q) = "dir"
  BY DEF Admitted, Settled
<1>5. ASSUME NEW q \in Around(p), q # << >>
      PROVE  Last(q) \notin AlwaysSkip
  <2>1. q \in Seq(Names) /\ IsPrefix(q, p) /\ Len(q) < Len(p)
    BY <1>1, AroundType, AroundIsPrefix
  <2>2. Len(q) \in 1 .. Len(q) /\ Len(q) \in 1 .. Len(p) - 1
    BY <1>1, <1>5, <2>1
  <2>3. Last(q) = p[Len(q)]
    BY <1>1, <2>1, <2>2, PrefixPoints DEF Last
  <2>4. DOMAIN Front(p) = 1 .. Len(p) - 1 /\ Front(p)[Len(q)] = p[Len(q)]
    BY <1>1, <2>2, FrontFacts
  <2>5. Last(q) \in Range(Front(p))
    BY <2>2, <2>3, <2>4 DEF Range
  <2> QED BY <2>5 DEF Admitted
<1> QED BY <1>3, <1>4, <1>5 DEF Eligible, Reached

LEMMA WalkedIsExact ==
  ASSUME WInv
  PROVE  UntouchedExact
<1> SUFFICES ASSUME Walked PROVE UntouchedExact
  BY DEF UntouchedExact
<1> DEFINE settled == { p \in Files : Settled(p) /\ Eligible(p) }
           out == { p \in settled : fs[p].kind \in { "big", "locked" } }
           found == { Record(p) : p \in { q \in settled : fs[q].kind = "file" } }
<1>1. Types /\ Walking /\ pending = {} /\ step # "idle"
  BY DEF WInv, Walked
<1>2. PICK K \in SUBSET Files : LeftOut(K)
  BY DEF WInv
<1>3. ASSUME NEW p \in settled
      PROVE  /\ p \in DOMAIN fs /\ Now(p) = fs[p].kind
             /\ Now(p) = "file" => Record(p) \in files
             /\ Now(p) \in { "big", "locked" } => p \in K
  <2>1. p \in DOMAIN fs /\ Now(p) = fs[p].kind
    BY DEF Eligible, Reached, Now
  <2> QED BY <1>1, <1>2, <2>1 DEF LeftOut, Seen
<1>4. ASSUME NEW f \in files, Settled(f.path)
      PROVE  f \in found
  <2>1. Recorded(f) /\ f.path \in Files /\ f.path \notin touched
    BY <1>1, <1>4 DEF Types, Records, Walking, Settled
  <2>2. Now(f.path) = "file" /\ f = Record(f.path)
    BY <2>1 DEF Recorded
  <2>3. f.path \in DOMAIN fs /\ fs[f.path].kind = "file"
    BY <2>2 DEF Now
  <2>4. Eligible(f.path)
    BY <1>1, <1>4, <2>1, <2>3, AdmittedIsEligible DEF Recorded
  <2>6. f.path \in { q \in settled : fs[q].kind = "file" }
    BY <1>4, <2>1, <2>3, <2>4
  <2> QED BY <2>2, <2>6
<1>5. ASSUME NEW f \in found
      PROVE  f \in files /\ Settled(f.path)
  BY <1>3 DEF Record
<1>6. out \subseteq K
  BY <1>3
<1>7. ASSUME NEW p \in K, Settled(p)
      PROVE  p \in out
  <2>1. Omitted(p) /\ p \notin touched
    BY <1>1, <1>2, <1>7 DEF LeftOut, Settled
  <2>2. Now(p) \in { "big", "locked" }
    BY <2>1 DEF Omitted
  <2>3. p \in DOMAIN fs /\ fs[p].kind \in { "big", "locked" }
    BY <2>2 DEF Now
  <2>4. Eligible(p)
    BY <1>1, <1>7, <2>1, <2>3, AdmittedIsEligible DEF Omitted
  <2> QED BY <1>7, <2>3, <2>4
<1>8. K \subseteq out \cup { p \in Files : ~Settled(p) }
  BY <1>7
<1>9. IsFiniteSet(K) /\ IsFiniteSet(out \cup { p \in Files : ~Settled(p) })
  BY WalkAssumption, FS_Subset
<1>10. /\ skipped >= Cardinality(out)
       /\ skipped <= Cardinality(out \cup { p \in Files : ~Settled(p) })
  <2>1. Cardinality(K) = skipped
    BY <1>2 DEF LeftOut
  <2>2. Cardinality(out) <= Cardinality(K) /\ Cardinality(out) \in Nat
    BY <1>6, <1>9, FS_Subset, FS_CardinalityType
  <2>3. Cardinality(K) <= Cardinality(out \cup { p \in Files : ~Settled(p) })
    BY <1>8, <1>9, FS_Subset
  <2> HIDE DEF out
  <2>4. Cardinality(K) \in Nat /\ Cardinality(out \cup { p \in Files : ~Settled(p) }) \in Nat
    BY <1>9, FS_CardinalityType
  <2> QED BY <2>1, <2>2, <2>3, <2>4
<1>11. { f \in files : Settled(f.path) } = found
  BY <1>4, <1>5
<1> QED BY <1>10, <1>11 DEF UntouchedExact

\* When nothing has changed since the walk began, it is the whole list.
LEMMA WalkedWhole ==
  ASSUME WInv, Finish, still > 0
  PROVE  files = Exact
<1>1. step = "visit" /\ pending = {} /\ touched = {}
  BY DEF Finish, WInv, Hashes
<1>2. \A p : Settled(p)
  BY <1>1 DEF Settled
<1>3. UntouchedExact /\ Walked
  BY <1>1, WalkedIsExact DEF Walked
<1>4. { f \in files : Settled(f.path) } =
        { Record(p) :
            p \in { q \in { p \in Files : Settled(p) /\ Eligible(p) } : fs[q].kind = "file" } }
  BY <1>3 DEF UntouchedExact
<1>5. { f \in files : Settled(f.path) } = files
  BY <1>2
<1>6. { q \in { p \in Files : Settled(p) /\ Eligible(p) } : fs[q].kind = "file" }
        = { q \in Files : Eligible(q) /\ fs[q].kind = "file" }
  BY <1>2
<1> QED BY <1>4, <1>5, <1>6 DEF Exact

\* What the hash of a list tells of it, without the sizes and the times: the
\* files whose paths are in any set, and what they contain.
LEMMA TreeHashTells ==
  ASSUME NEW F, NEW G, TreeHash(F) = TreeHash(G), NEW P
  PROVE  { << f.path, f.content >> : f \in { g \in F : g.path \in P } } =
         { << f.path, f.content >> : f \in { g \in G : g.path \in P } }
<1>1. \A S : { << f.path, f.content >> : f \in { g \in S : g.path \in P } } =
              { h \in TreeHash(S) : h[1] \in P }
  <2> SUFFICES ASSUME NEW S
               PROVE  { << f.path, f.content >> : f \in { g \in S : g.path \in P } } =
                      { h \in TreeHash(S) : h[1] \in P }
    OBVIOUS
  <2>1. \A f : << f.path, f.content >>[1] = f.path
    OBVIOUS
  <2> QED BY <2>1 DEF TreeHash
<1> QED BY <1>1

LEMMA HashesStep ==
  ASSUME WInv, Next
  PROVE  Hashes'
<1>0. Types /\ Hashes
  BY DEF WInv
<1>1. CASE User
  <2>1. still' = 0 /\ UNCHANGED << lastHash, sent >>
    BY <1>1 DEF User, Write, Delete, Edit, reportVars
  <2> QED BY <1>0, <2>1 DEF Hashes
<1>2. CASE Begin
  <2>1. /\ step = "idle" /\ step' = "visit" /\ touched' = {} /\ UNCHANGED << fs, lastHash, sent >>
        /\ still' = IF still = 0 THEN 1 ELSE 2
    BY <1>2 DEF Begin, reportVars
  <2>2. Exact' = Exact
    BY <2>1 DEF Exact, Record, Info, Eligible, Reached, Excluded, Now
  <2>3. still \in 0 .. 2
    BY <1>0 DEF Types
  <2> QED BY <1>0, <2>1, <2>2, <2>3 DEF Hashes
<1>3. CASE Finish
  <2>1. /\ step' = "idle" /\ lastHash' = { TreeHash(files) } /\ marker' = (lastHash' = lastHash)
        /\ sent' = (IF marker' THEN sent ELSE files) /\ UNCHANGED << fs, still >>
    BY <1>3 DEF Finish
  <2>2. lastHash' = { TreeHash(sent') }
    BY <1>0, <2>1 DEF Hashes
  <2>3. still \in 0 .. 2
    BY <1>0 DEF Types
  <2>4. still > 0 => files = Exact
    BY <1>3, WalkedWhole
  <2>5. Exact' = Exact
    BY <2>1 DEF Exact, Record, Info, Eligible, Reached, Excluded, Now
  <2> QED BY <2>1, <2>2, <2>3, <2>4, <2>5 DEF Hashes
<1>4. ASSUME NEW e \in pending, Visit(e)
      PROVE  Hashes'
  <2>1. step # "idle" /\ step' # "idle" /\ UNCHANGED << fs, touched, still, lastHash, sent >>
    BY <1>4 DEF Visit, VisitDir, ListDir, PassOver, LeaveOut, Stat, HashFile, Leave, reportVars
  <2>2. Exact' = Exact
    BY <2>1 DEF Exact, Record, Info, Eligible, Reached, Excluded, Now
  <2> QED BY <1>0, <2>1, <2>2 DEF Hashes
<1> QED BY <1>1, <1>2, <1>3, <1>4 DEF Next

-----------------------------------------------------------------------------
(* The theorems.                                                           *)

LEMMA InitWInv ==
  ASSUME Init
  PROVE  WInv
<1>1. IsTree(fs)
  BY WalkAssumption DEF Init
<1>2. Types
  <2>1. /\ step = "idle" /\ pending = {} /\ matchers = {} /\ files \cup sent = {} /\ skipped = 0
        /\ lastHash = {} /\ touched = {} /\ still = 0 /\ edits = 0 /\ MaxEdits \in Nat
    BY WalkAssumption DEF Init
  <2>2. marker \in BOOLEAN /\ info \in Infos
    BY DEF Init, NoInfo, Infos
  <2> QED BY <1>1, <2>1, <2>2 DEF Types
<1>3. Cardinality({}) = 0
  BY FS_EmptySet
<1>4. LeftOut({})
  BY <1>3 DEF Init, LeftOut
<1>5. Hashes
  BY DEF Init, Hashes
<1>6. Apart
  BY DEF Init, Apart
<1> QED BY <1>2, <1>4, <1>5, <1>6 DEF Init, WInv

\* No record is of a file in a directory that is never entered.
LEMMA NeverEntered ==
  ASSUME WInv, Next
  PROVE  \A f \in files' : Range(Front(f.path)) \cap AlwaysSkip = {}
<1>0. Types /\ \A f \in files : Range(Front(f.path)) \cap AlwaysSkip = {}
  BY DEF WInv
<1>1. CASE User
  BY <1>0, <1>1 DEF User, Write, Delete, Edit, walkVars
<1>2. CASE Begin \/ Finish
  BY <1>0, <1>2 DEF Begin, Finish
<1>3. ASSUME NEW e \in pending, Visit(e)
      PROVE  \A f \in files' : Range(Front(f.path)) \cap AlwaysSkip = {}
  <2>1. CASE VisitDir(e) \/ PassOver(e) \/ LeaveOut(e) \/ Stat(e)
    BY <1>0, <2>1, QuietStep
  <2>2. CASE ListDir(e)
    BY <1>0, <2>2 DEF ListDir
  <2>3. CASE HashFile(e)
    <3>1. Listed(e)
      BY <2>3 DEF HashFile, WInv, Walking
    <3>2. Range(Front(e.path)) \cap AlwaysSkip = {}
      BY <3>1 DEF Listed, Admitted
    <3>3. \A f \in files' : f \in files \/ f = Found(e)
      BY <2>3 DEF HashFile, Found
    <3> QED BY <1>0, <3>2, <3>3, FoundIs
  <2> QED BY <1>3, <2>1, <2>2, <2>3 DEF Visit
<1> QED BY <1>1, <1>2, <1>3 DEF Next

LEMMA WInvStep ==
  ASSUME WInv, [Next]_vars
  PROVE  WInv'
<1>1. CASE Next
  <2>1. Types /\ Apart /\ (step # "idle" => Sound /\ Walking)
    BY DEF WInv
  <2>2. PICK K \in SUBSET Files : LeftOut(K)
    BY DEF WInv
  <2>3. Types' /\ Apart' /\ Hashes'
    BY <1>1, <2>1, TypesStep, ApartStep, HashesStep
  <2>4. step' # "idle" => Sound' /\ Walking'
    BY <1>1, <2>1, SoundStep, WalkingStep
  <2>5. \E L \in SUBSET Files : LeftOut(L)'
    BY <1>1, <2>1, <2>2, LeftOutStep
  <2>6. \A f \in files' : Range(Front(f.path)) \cap AlwaysSkip = {}
    BY <1>1, NeverEntered
  <2> QED BY <2>3, <2>4, <2>5, <2>6 DEF WInv
<1>2. CASE UNCHANGED vars
  <2>1. UNCHANGED << fs, walkVars, lastHash, sent, marker, touched, still, edits >>
    BY <1>2 DEF vars, reportVars
  <2>2. \A p : Now(p)' = Now(p)
    BY <2>1 DEF Now
  <2>3. Steady /\ matchers \subseteq matchers'
    BY <2>1, SteadyWhenSame DEF walkVars
  <2>4. Types' /\ Apart' /\ step' = step
    BY <2>1 DEF WInv, Types, Apart, walkVars, Isdir
  <2>5. Exact' = Exact
    BY <2>1 DEF Exact, Record, Info, Eligible, Reached, Excluded, Now
  <2>6. Hashes'
    BY <2>1, <2>5 DEF WInv, Hashes, walkVars
  <2>7. step # "idle" => Sound'
    BY <2>1 DEF WInv, Sound, Stands, RulesOf, Now, walkVars
  <2>8. UNCHANGED << pending, files, skipped, matchers >>
    BY <2>1 DEF walkVars
  <2>9. \A e : /\ Entered(e) => Entered(e)'
               /\ Examined(e) => Examined(e)'
    BY <2>1, <2>2, <2>3, <2>8, SteadyFacts
       DEF Entered, Examined, At, Regular, Info, walkVars
  <2>10. step # "idle" => Walking'
    <3> SUFFICES ASSUME step # "idle" PROVE Walking'
      OBVIOUS
    <3>1. Walking
      BY DEF WInv
    <3>2. (\A e \in pending' : Listed(e)') /\ (\A f \in files' : Recorded(f)')
      BY <2>3, <2>8, <3>1, SteadyFacts DEF Walking
    <3>3. step' = "list" => \E e \in pending' : Entered(e)'
      BY <2>4, <2>8, <2>9, <3>1 DEF Walking
    <3>4. step' = "hash" => \E e \in pending' : Examined(e)'
      BY <2>4, <2>8, <2>9, <3>1 DEF Walking
    <3> QED BY <3>2, <3>3, <3>4 DEF Walking
  <2>11. \A f \in files' : Range(Front(f.path)) \cap AlwaysSkip = {}
    BY <2>8 DEF WInv
  <2>12. PICK K \in SUBSET Files : LeftOut(K)
    BY DEF WInv
  <2>13. LeftOut(K)'
    BY <2>3, <2>4, <2>8, <2>12, SeenStays, SteadyFacts DEF WInv, LeftOut
  <2> QED BY <2>4, <2>6, <2>7, <2>10, <2>11, <2>12, <2>13 DEF WInv
<1> QED BY <1>1, <1>2

\* The state behind every theorem: what the walk has found so far is right, but
\* for what has changed since it began.
THEOREM WalkIsRight == Spec => []WInv
<1>1. Init => WInv
  BY InitWInv
<1>2. WInv /\ [Next]_vars => WInv'
  BY WInvStep
<1> QED BY <1>1, <1>2, PTL DEF Spec

\* Each variable keeps to its values, what is listed has not been visited, and
\* no more files are left out than there are.
THEOREM WalkTypeCorrect == Spec => []TypeOK
<1>1. ASSUME WInv
      PROVE  TypeOK
  <2>1. Types /\ Apart
    BY <1>1 DEF WInv
  <2>2. PICK K \in SUBSET Files : LeftOut(K)
    BY <1>1 DEF WInv
  <2>3. IsFiniteSet(K) /\ Cardinality(K) <= Cardinality(Files) /\ Cardinality(K) = skipped
    BY <2>2, WalkAssumption, FS_Subset DEF LeftOut
  <2>4. skipped \in 0 .. Cardinality(Files)
    <3>1. Cardinality(Files) \in Nat
      BY WalkAssumption, FS_CardinalityType
    <3> QED BY <2>1, <2>3, <3>1 DEF Types
  <2>5. step = "list" => \E e \in pending : At(e) /\ Isdir(e)
    BY <1>1 DEF WInv, Walking, Entered
  <2>6. step = "hash" => \E e \in pending : At(e) /\ Regular(e)
    BY <1>1 DEF WInv, Walking, Examined
  <2> QED BY <2>1, <2>4, <2>5, <2>6 DEF TypeOK, Types, Records, Apart, Paths
<1> QED BY <1>1, WalkIsRight, PTL

\* "Walk returns a record for every file under root that survives .gitignore,
\* the alwaysSkip list, and the size cap", whatever changes meanwhile elsewhere.
THEOREM UntouchedAreExact == Spec => []UntouchedExact
<1>1. WInv => UntouchedExact
  BY WalkedIsExact
<1> QED BY <1>1, WalkIsRight, PTL

\* What is never entered, or excluded, is not recorded.
THEOREM ExcludedStayOut == Spec => []ExcludedStaysOut
<1>1. ASSUME WInv
      PROVE  ExcludedStaysOut
  <2> SUFFICES ASSUME NEW f \in files
               PROVE  /\ Range(Front(f.path)) \cap AlwaysSkip = {}
                      /\ step # "idle" => ~Excluded(f.path, IgnoreFiles(f.path) \ touched)
    BY DEF ExcludedStaysOut
  <2>1. Range(Front(f.path)) \cap AlwaysSkip = {} /\ f.path \in Paths
    BY <1>1 DEF WInv, Types, Records, Paths
  <2>2. ASSUME step # "idle"
        PROVE  ~Excluded(f.path, IgnoreFiles(f.path) \ touched)
    <3>1. Recorded(f)
      BY <1>1, <2>2 DEF WInv, Walking
    <3> QED BY <2>1, <3>1, ExclusionMatches DEF Recorded, Admitted
  <2> QED BY <2>1, <2>2
<1> QED BY <1>1, WalkIsRight, PTL

\* The unchanged marker: a tree that has not changed since the walk before began
\* gets one, and the list it stands for has the files there are now, with what
\* they contain, but for those that changed during the walk.
THEOREM MarkersAreTrue == Spec => MarkerIsTrue
<1> DEFINE now == { << p, fs[p].content >> :
                      p \in { q \in Files : Settled(q) /\ Eligible(q) /\ fs[q].kind = "file" } }
           listed == { << f.path, f.content >> : f \in { g \in sent : Settled(g.path) } }
<1>1. ASSUME WInv, Finish
      PROVE  (still = 2 => marker') /\ (marker' => listed = now)
  <2>1. /\ lastHash' = { TreeHash(files) } /\ marker' = (lastHash' = lastHash)
        /\ step = "visit" /\ pending = {}
    BY <1>1 DEF Finish
  <2>2. /\ lastHash = {} \/ lastHash = { TreeHash(sent) }
        /\ still = 2 => lastHash = { TreeHash(Exact) }
    BY <1>1 DEF WInv, Hashes
  <2>3. still = 2 => files = Exact
    BY <1>1, WalkedWhole
  <2>4. ASSUME marker'
        PROVE  listed = now
    <3> DEFINE P == { p \in Files : Settled(p) }
               settled == { q \in { p \in Files : Settled(p) /\ Eligible(p) } : fs[q].kind = "file" }
    <3>1. TreeHash(files) = TreeHash(sent)
      BY <2>1, <2>2, <2>4
    <3>2. { f \in files : Settled(f.path) } = { Record(p) : p \in settled }
      BY <1>1, <2>1, WalkedIsExact DEF UntouchedExact, Walked
    <3>3. \A f \in files \cup sent : f.path \in Files
      BY <1>1 DEF WInv, Types, Records
    <3>4. listed = { << f.path, f.content >> : f \in { g \in sent : g.path \in P } }
      BY <3>3
    <3>5. listed = { << f.path, f.content >> : f \in { g \in files : g.path \in P } }
      BY <3>1, <3>4, TreeHashTells
    <3>6. { g \in files : g.path \in P } = { Record(p) : p \in settled }
      BY <3>2, <3>3
    <3>7. \A p : Record(p).path = p /\ Record(p).content = fs[p].content
      BY DEF Record
    <3>8. { << f.path, f.content >> : f \in { Record(p) : p \in settled } } =
          { << p, fs[p].content >> : p \in settled }
      BY <3>7
    <3>9. settled = { q \in Files : Settled(q) /\ Eligible(q) /\ fs[q].kind = "file" }
      OBVIOUS
    <3> QED BY <3>5, <3>6, <3>8, <3>9
  <2> QED BY <2>1, <2>2, <2>3, <2>4
<1>2. WInv /\ [Next]_vars => [ Finish => /\ still = 2 => marker'
                                         /\ marker' => listed = now ]_vars
  BY <1>1
<1> QED BY <1>2, WalkIsRight, PTL DEF Spec, MarkerIsTrue
=============================================================================
