---------------------------- MODULE FollowProofs ----------------------------
(***************************************************************************)
(* Proofs about the lookup in WakaTime's log, about WithDebug, and about   *)
(* Follow: for any repositories and files, any log, any config and any     *)
(* bounds.                                                                 *)
(***************************************************************************)
EXTENDS Follow, SequenceTheorems, FiniteSetTheorems, TLAPS

-----------------------------------------------------------------------------
(* Induction: a set of numbers has a least one, and a greatest.            *)

LEMMA Least ==
  ASSUME NEW T \in SUBSET Nat, T # {}
  PROVE  \E m \in T : \A k \in T : m <= k
<1> DEFINE R == OpToRel(<, Nat)
<1>1. R = { ss \in Nat \X Nat : ss[1] < ss[2] }
  BY DEF OpToRel
<1>2. IsWellFoundedOn(R, Nat)
  BY NatLessThanWellFounded
<1>3. \A j, k \in Nat : j < k => << j, k >> \in R
  BY <1>1
<1> HIDE DEF R
<1>4. PICK m \in T : \A k \in T : ~(<< k, m >> \in R)
  BY <1>2, WFMin
<1>5. \A k \in T : ~(k < m)
  BY <1>3, <1>4
<1> QED BY <1>5

LEMMA Greatest ==
  ASSUME NEW N \in Nat, NEW T \in SUBSET (1 .. N), T # {}
  PROVE  \E m \in T : \A k \in T : k <= m
<1> DEFINE U == { u \in 0 .. N : N - u \in T }
<1>1. \A k \in T : N - k \in U
  OBVIOUS
<1>2. U \in SUBSET Nat
  OBVIOUS
<1> HIDE DEF U
<1>3. PICK u \in U : \A v \in U : u <= v
  BY <1>1, <1>2, Least
<1>4. u \in 0 .. N /\ N - u \in T
  BY DEF U
<1> QED BY <1>1, <1>3, <1>4

\* A function from 0 .. N can be defined step by step.
Iterates(g, N, base, h) ==
  g[0] = base /\ \A n \in 1 .. N : g[n] = h[<< n, g[n - 1] >>]

LEMMA Iteration ==
  ASSUME NEW N \in Nat, NEW S, NEW base \in S, NEW h \in [ (1 .. N) \X S -> S ]
  PROVE  \E g \in [ 0 .. N -> S ] : Iterates(g, N, base, h)
<1> USE DEF Iterates
<1> DEFINE Good(n) == \E g \in [ 0 .. N -> S ] : Iterates(g, n, base, h)
           Bad == { n \in 0 .. N : ~Good(n) }
<1>1. Good(0)
  <2>1. /\ [ k \in 0 .. N |-> base ] \in [ 0 .. N -> S ]
        /\ Iterates([ k \in 0 .. N |-> base ], 0, base, h)
    OBVIOUS
  <2> QED BY <2>1
<1>2. ASSUME NEW n \in 1 .. N, Good(n - 1) PROVE Good(n)
  <2>1. PICK g \in [ 0 .. N -> S ] : Iterates(g, n - 1, base, h)
    BY <1>2
  <2> DEFINE g2 == [ g EXCEPT ![n] = h[<< n, g[n - 1] >>] ]
  <2>2. g2 \in [ 0 .. N -> S ]
    <3>1. n - 1 \in 0 .. N
      OBVIOUS
    <3>2. << n, g[n - 1] >> \in (1 .. N) \X S
      BY <3>1
    <3> QED BY <3>2
  <2>3. g2[0] = base
    BY <2>1
  <2>4. ASSUME NEW k \in 1 .. n PROVE g2[k] = h[<< k, g2[k - 1] >>]
    <3>1. k - 1 \in 0 .. N /\ k - 1 # n /\ g2[k - 1] = g[k - 1]
      OBVIOUS
    <3>2. CASE k = n
      <4>1. g2[n] = h[<< n, g[n - 1] >>]
        OBVIOUS
      <4> QED BY <4>1, <3>1, <3>2
    <3>3. CASE k # n
      <4>1. k \in 1 .. n - 1 /\ g2[k] = g[k]
        BY <3>3
      <4>2. g[k] = h[<< k, g[k - 1] >>]
        BY <4>1, <2>1
      <4> QED BY <4>1, <4>2, <3>1
    <3> QED BY <3>2, <3>3
  <2> QED BY <2>2, <2>3, <2>4
<1> HIDE DEF Good
<1>3. ASSUME Bad # {} PROVE FALSE
  <2> HIDE DEF Bad
  <2>1. Bad \in SUBSET Nat
    BY DEF Bad
  <2>2. PICK n \in Bad : \A k \in Bad : n <= k
    BY <1>3, <2>1, Least
  <2>3. n \in 0 .. N /\ ~Good(n)
    BY DEF Bad
  <2>4. n # 0 /\ n - 1 \in 0 .. N
    BY <2>3, <1>1
  <2>5. n - 1 \notin Bad
    <3>1. ~(n <= n - 1)
      BY <2>3
    <3> QED BY <2>2, <3>1
  <2>6. Good(n - 1)
    BY <2>4, <2>5 DEF Bad
  <2> QED BY <1>2, <2>3, <2>4, <2>6
<1>4. Good(N)
  BY <1>3
<1> QED BY <1>4 DEF Good

LEMMA TimesGrows ==
  ASSUME NEW a \in Int, NEW b \in Int, NEW c \in Nat, a <= b
  PROVE  c * a <= c * b
<1>1. b - a \in Nat /\ b = a + (b - a)
  OBVIOUS
<1>2. c * (b - a) \in Nat
  BY <1>1
<1>3. c * (b - a) = c * b - c * a
  OBVIOUS
<1> QED BY <1>2, <1>3

LEMMA SecondNat == Second \in Nat /\ Second > 0
BY ProjectsAssumption

LEMMA Division ==
  ASSUME NEW t \in Int
  PROVE  /\ Unix(t) \in Int
         /\ Second * Unix(t) <= t /\ t < Second * Unix(t) + Second
BY ProjectsAssumption DEF Unix

LEMMA UnixGrows ==
  ASSUME NEW t \in Int, NEW u \in Int, t >= u
  PROVE  Unix(t) >= Unix(u)
<1>1. SUFFICES ASSUME Unix(t) + 1 <= Unix(u) PROVE FALSE
  BY Division
<1>2. Second * (Unix(t) + 1) <= Second * Unix(u)
  <2>1. Unix(t) + 1 \in Int /\ Unix(u) \in Int /\ Second \in Nat
    BY Division, SecondNat
  <2> QED BY <1>1, <2>1, TimesGrows
<1>3. Second * (Unix(t) + 1) = Second * Unix(t) + Second
  BY Division, SecondNat
<1> QED BY <1>2, <1>3, Division, SecondNat

LEMMA UnixApart ==
  ASSUME NEW t \in Int, NEW u \in Int, Unix(t) >= Unix(u)
  PROVE  t > u - Second
<1>1. Unix(t) \in Int /\ Unix(u) \in Int /\ Second \in Nat
  BY Division, SecondNat
<1>2. Second * Unix(u) <= Second * Unix(t)
  BY <1>1, TimesGrows
<1>3. Second * Unix(u) \in Int /\ Second * Unix(t) \in Int
  BY <1>1
<1>4. Second * Unix(t) <= t /\ u < Second * Unix(u) + Second
  BY Division
<1> QED BY <1>1, <1>2, <1>3, <1>4

-----------------------------------------------------------------------------
(* The lookup, for any log and moment.                                     *)

LEMMA PathSeq == \A p \in Files \cup GitDirs : p \in Seq(Range(p)) /\ Len(p) \in Nat
BY ProjectsAssumption, LenProperties

\* The repository of a file is the nearest around it, unless that is home or
\* too far up.
LEMMA RootOf ==
  ASSUME NEW f \in Files, NEW d
  PROVE  d \in repoRoot(f) <=> InRepo(f, d) /\ d # Home /\ Len(f) - Len(d) <= MaxWalkUp
<1>1. Len(f) \in Nat /\ MaxWalkUp \in Nat /\ \A e \in GitDirs : Len(e) \in Nat
  BY PathSeq, ProjectsAssumption
<1> QED BY <1>1 DEF repoRoot, InRepo, Around

LEMMA RootIsOne ==
  ASSUME NEW f \in Files, NEW d \in repoRoot(f), NEW e \in repoRoot(f)
  PROVE  d = e /\ d \in GitDirs
<1>1. d \in GitDirs /\ e \in GitDirs /\ IsPrefix(d, f) /\ IsPrefix(e, f)
  BY DEF repoRoot, IsStrictPrefix
<1>2. Len(d) = Len(e)
  BY <1>1, PathSeq DEF repoRoot
<1>3. SubSeq(d, 1, Len(d)) = SubSeq(e, 1, Len(e))
  BY <1>1, <1>2 DEF IsPrefix
<1>4. SubSeq(d, 1, Len(d)) = d /\ SubSeq(e, 1, Len(e)) = e
  <2>1. d \in Seq(Range(d)) /\ e \in Seq(Range(e))
    BY <1>1, PathSeq
  <2> QED BY <2>1, SubSeqFull
<1> QED BY <1>1, <1>3, <1>4

LEMMA FoundAdds ==
  ASSUME NEW s \in Seq(GitDirs), NEW f \in Files
  PROVE  /\ Found(s, repoRoot(f)) \in Seq(GitDirs)
         /\ \/ repoRoot(f) \subseteq ToSet(s) /\ Found(s, repoRoot(f)) = s
            \/ \E d \in repoRoot(f) : d \notin ToSet(s) /\ Found(s, repoRoot(f)) = Append(s, d)
<1>1. CASE repoRoot(f) \subseteq ToSet(s)
  BY <1>1 DEF Found
<1>2. CASE ~(repoRoot(f) \subseteq ToSet(s))
  <2>1. PICK d \in repoRoot(f) : d \notin ToSet(s)
    BY <1>2
  <2>2. (CHOOSE x \in repoRoot(f) : TRUE) = d
    BY <2>1, RootIsOne
  <2>3. Found(s, repoRoot(f)) = Append(s, d)
    BY <1>2, <2>2 DEF Found
  <2>4. d \in GitDirs
    BY RootIsOne
  <2> QED BY <2>1, <2>3, <2>4, AppendProperties
<1> QED BY <1>1, <1>2

\* What holds at the end, and before each place after which it holds, holds at
\* every place.
LEMMA Backwards ==
  ASSUME NEW N \in Nat, NEW T \in SUBSET (1 .. N + 1), N + 1 \in T,
         \A i \in 1 .. N : i + 1 \in T => i \in T
  PROVE  T = 1 .. N + 1
<1> DEFINE B == (1 .. N + 1) \ T
<1>1. SUFFICES ASSUME B # {} PROVE FALSE
  OBVIOUS
<1>2. B \in SUBSET (1 .. N + 1) /\ N + 1 \in Nat
  OBVIOUS
<1> HIDE DEF B
<1>3. PICK b \in B : \A k \in B : k <= b
  <2>1. \A M \in Nat : B \in SUBSET (1 .. M) => \E m \in B : \A k \in B : k <= m
    BY <1>1, Greatest
  <2> QED BY <1>2, <2>1
<1>4. b \in 1 .. N + 1 /\ b \notin T
  BY DEF B
<1>5. b \in 1 .. N /\ b + 1 \notin T
  BY <1>4
<1>6. b + 1 \in B
  BY <1>5 DEF B
<1> QED BY <1>3, <1>4, <1>6

\* RecentProjects runs through the log from its end.
LEMMA Unrolled ==
  ASSUME NEW l \in Seq(LogLine), NEW s \in Int
  PROVE  \E o \in [ 1 .. Len(l) + 1 -> Seq(GitDirs) ] :
           /\ RecentProjects(l, s) = o[1] /\ o[Len(l) + 1] = << >>
           /\ \A i \in 1 .. Len(l) :
                o[i] = IF i \in recentHeartbeats(l, s)
                       THEN Found(o[i + 1], repoRoot(l[i].file)) ELSE o[i + 1]
<1> DEFINE N == Len(l)
           H == recentHeartbeats(l, s)
           Before(i, x) == IF i \in H THEN Found(x, repoRoot(l[i].file)) ELSE x
           Is(o) == o = [ i \in 1 .. N + 1 |->
                            IF i \in H THEN Found(o[i + 1], repoRoot(l[i].file))
                            ELSE IF i <= N THEN o[i + 1] ELSE << >> ]
<1>1. N \in Nat /\ H \subseteq 1 .. N /\ \A i \in 1 .. N : l[i].file \in Files
  <2>1. N \in Nat /\ DOMAIN l = 1 .. N /\ \A i \in 1 .. N : l[i] \in LogLine
    BY LenProperties, ElementOfSeq
  <2> QED BY <2>1 DEF recentHeartbeats, LinesRead, LogLine
<1>2. RecentProjects(l, s) = (CHOOSE o : Is(o))[1]
  BY DEF RecentProjects
<1>3. \A i \in 1 .. N, x \in Seq(GitDirs) : Before(i, x) \in Seq(GitDirs)
  BY <1>1, FoundAdds
<1>4. \E o : Is(o)
  <2> DEFINE h == [ p \in (1 .. N) \X Seq(GitDirs) |-> Before(N + 1 - p[1], p[2]) ]
  <2>1. h \in [ (1 .. N) \X Seq(GitDirs) -> Seq(GitDirs) ]
    BY <1>1, <1>3
  <2>2. << >> \in Seq(GitDirs)
    OBVIOUS
  <2>3. \A n \in 1 .. N, x \in Seq(GitDirs) : h[<< n, x >>] = Before(N + 1 - n, x)
    OBVIOUS
  <2> HIDE DEF h
  <2>4. PICK g \in [ 0 .. N -> Seq(GitDirs) ] :
          g[0] = << >> /\ \A n \in 1 .. N : g[n] = h[<< n, g[n - 1] >>]
    <3> HIDE DEF N
    <3>1. \E g \in [ 0 .. N -> Seq(GitDirs) ] : Iterates(g, N, << >>, h)
      BY <1>1, <2>1, <2>2, Iteration
    <3> QED BY <3>1 DEF Iterates
  <2> DEFINE o == [ i \in 1 .. N + 1 |-> g[N + 1 - i] ]
  <2>5. ASSUME NEW i \in 1 .. N PROVE o[i] = Before(i, o[i + 1])
    <3>1. N + 1 - i \in 1 .. N /\ N + 1 - (N + 1 - i) = i
      BY <1>1
    <3>2. o[i] = g[N + 1 - i] /\ o[i + 1] = g[N + 1 - i - 1]
      BY <1>1
    <3>3. g[N + 1 - i - 1] \in Seq(GitDirs)
      BY <3>1, <1>1
    <3> HIDE DEF Before
    <3>4. g[N + 1 - i] = h[<< N + 1 - i, g[N + 1 - i - 1] >>]
      BY <2>4, <3>1
    <3>5. h[<< N + 1 - i, g[N + 1 - i - 1] >>] = Before(N + 1 - (N + 1 - i), g[N + 1 - i - 1])
      BY <2>3, <3>1, <3>3
    <3> QED BY <3>1, <3>2, <3>4, <3>5
  <2>6. o[N + 1] = << >> /\ N + 1 \notin H
    BY <1>1, <2>4
  <2>7. Is(o)
    <3>1. ASSUME NEW i \in 1 .. N + 1
          PROVE  o[i] = IF i \in H THEN Found(o[i + 1], repoRoot(l[i].file))
                        ELSE IF i <= N THEN o[i + 1] ELSE << >>
      <4>1. CASE i = N + 1
        BY <4>1, <2>6, <1>1
      <4>2. CASE i # N + 1
        <5>1. i \in 1 .. N /\ i <= N
          BY <4>2, <1>1
        <5>2. o[i] = IF i \in H THEN Found(o[i + 1], repoRoot(l[i].file)) ELSE o[i + 1]
          BY <5>1, <2>5
        <5> HIDE DEF o
        <5> QED BY <5>1, <5>2
      <4> QED BY <4>1, <4>2
    <3>2. o = [ i \in 1 .. N + 1 |-> o[i] ]
      OBVIOUS
    <3> HIDE DEF o
    <3> QED BY <3>1, <3>2
  <2> QED BY <2>7
<1> DEFINE out == CHOOSE o : Is(o)
<1>5. Is(out)
  BY <1>4
<1>6. DOMAIN out = 1 .. N + 1 /\ out[N + 1] = << >>
      /\ \A i \in 1 .. N : out[i] = Before(i, out[i + 1])
  <2> HIDE DEF out
  <2>1. \A i \in 1 .. N + 1 : out[i] = IF i \in H THEN Found(out[i + 1], repoRoot(l[i].file))
                                       ELSE IF i <= N THEN out[i + 1] ELSE << >>
    BY <1>5
  <2>2. DOMAIN out = 1 .. N + 1
    BY <1>5
  <2>3. N + 1 \in 1 .. N + 1 /\ N + 1 \notin H /\ ~(N + 1 <= N)
    BY <1>1
  <2>4. \A i \in 1 .. N : i \in 1 .. N + 1 /\ i <= N
    BY <1>1
  <2> QED BY <2>1, <2>2, <2>3, <2>4
<1> HIDE DEF out
<1> DEFINE T == { i \in 1 .. N + 1 : out[i] \in Seq(GitDirs) }
<1>7. T = 1 .. N + 1
  <2>1. N + 1 \in T
    <3>1. << >> \in Seq(GitDirs) /\ N + 1 \in 1 .. N + 1
      BY <1>1
    <3> QED BY <3>1, <1>6
  <2>2. ASSUME NEW i \in 1 .. N, i + 1 \in T PROVE i \in T
    <3>1. i \in 1 .. N + 1 /\ out[i + 1] \in Seq(GitDirs)
      BY <1>1, <2>2
    <3> HIDE DEF Before
    <3>2. out[i] = Before(i, out[i + 1]) /\ Before(i, out[i + 1]) \in Seq(GitDirs)
      BY <1>3, <1>6, <3>1
    <3> QED BY <3>1, <3>2
  <2>3. T \in SUBSET (1 .. N + 1)
    OBVIOUS
  <2> HIDE DEF T
  <2> QED BY <1>1, <2>1, <2>2, <2>3, Backwards
<1>8. out = [ i \in 1 .. N + 1 |-> out[i] ]
  BY <1>5, <1>6
<1>9. out \in [ 1 .. N + 1 -> Seq(GitDirs) ]
  BY <1>7, <1>8
<1> QED BY <1>2, <1>6, <1>9 DEF out

\* The heartbeats from the place i on that are read and whose repository is d.
Kept(l, s, i, d) ==
  { m \in recentHeartbeats(l, s) : m >= i /\ d \in repoRoot(l[m].file) }

\* out is the repositories of those heartbeats, each before those whose last
\* heartbeat is earlier.
Newest(l, s, i, out) ==
  /\ \A d : d \in ToSet(out) <=> Kept(l, s, i, d) # {}
  /\ \A a, b \in DOMAIN out :
       a < b => \E m \in Kept(l, s, i, out[a]) : \A n \in Kept(l, s, i, out[b]) : m > n

\* The repository of one more heartbeat is added at the end.
LEMMA NewestStep ==
  ASSUME NEW l \in Seq(LogLine), NEW s \in Int, NEW i \in 1 .. Len(l),
         NEW old \in Seq(GitDirs), Newest(l, s, i + 1, old)
  PROVE  Newest(l, s, i, IF i \in recentHeartbeats(l, s)
                         THEN Found(old, repoRoot(l[i].file)) ELSE old)
<1> DEFINE H == recentHeartbeats(l, s)
           K(j, d) == Kept(l, s, j, d)
<1>1. Len(l) \in Nat /\ H \subseteq 1 .. Len(l) /\ l[i].file \in Files
  <2>1. Len(l) \in Nat /\ DOMAIN l = 1 .. Len(l) /\ l[i] \in LogLine
    BY LenProperties, ElementOfSeq
  <2> QED BY <2>1 DEF recentHeartbeats, LinesRead, LogLine
<1>2. ASSUME NEW d PROVE K(i, d) = IF i \in H /\ d \in repoRoot(l[i].file)
                                   THEN K(i + 1, d) \cup { i } ELSE K(i + 1, d)
  BY <1>1 DEF Kept
<1>3. \A d : \A m \in K(i + 1, d) : m \in Int /\ m > i
  BY <1>1 DEF Kept
<1>4. /\ \A d : d \in ToSet(old) <=> K(i + 1, d) # {}
      /\ \A a, b \in DOMAIN old :
           a < b => \E m \in K(i + 1, old[a]) : \A n \in K(i + 1, old[b]) : m > n
  BY DEF Newest
<1> HIDE DEF K
<1>5. ASSUME \A d : i \in H /\ d \in repoRoot(l[i].file) => d \in ToSet(old)
      PROVE  Newest(l, s, i, old)
  <2>1. ASSUME NEW d PROVE d \in ToSet(old) <=> K(i, d) # {}
    BY <1>2, <1>4, <1>5
  <2>2. ASSUME NEW a \in DOMAIN old, NEW b \in DOMAIN old, a < b
        PROVE  \E m \in K(i, old[a]) : \A n \in K(i, old[b]) : m > n
    <3>1. PICK m \in K(i + 1, old[a]) : \A n \in K(i + 1, old[b]) : m > n
      BY <1>4, <2>2
    <3>2. m \in K(i, old[a]) /\ m > i
      BY <1>2, <1>3
    <3>3. \A n \in K(i, old[b]) : n \in K(i + 1, old[b]) \/ n = i
      BY <1>2
    <3> QED BY <3>1, <3>2, <3>3
  <2> QED BY <2>1, <2>2 DEF Newest, K
<1>6. ASSUME i \in H, NEW d \in repoRoot(l[i].file), d \notin ToSet(old)
      PROVE  Newest(l, s, i, Append(old, d))
  <2> DEFINE new == Append(old, d)
  <2>1. d \in GitDirs /\ \A e : e \in repoRoot(l[i].file) <=> e = d
    BY <1>1, RootIsOne
  <2>2. /\ Len(old) \in Nat /\ DOMAIN old = 1 .. Len(old)
        /\ DOMAIN new = 1 .. Len(old) + 1 /\ new[Len(old) + 1] = d
        /\ \A a \in DOMAIN old : new[a] = old[a]
    BY <2>1, LenProperties, AppendProperties
  <2> HIDE DEF new
  <2>3. \A e : e \in ToSet(new) <=> e \in ToSet(old) \/ e = d
    BY <2>2 DEF ToSet
  <2>4. K(i + 1, d) = {} /\ K(i, d) = { i } /\ \A e : e # d => K(i, e) = K(i + 1, e)
    BY <1>2, <1>4, <1>6, <2>1
  <2>5. ASSUME NEW e PROVE e \in ToSet(new) <=> K(i, e) # {}
    BY <1>4, <2>3, <2>4
  <2>6. ASSUME NEW a \in DOMAIN new, NEW b \in DOMAIN new, a < b
        PROVE  \E m \in K(i, new[a]) : \A n \in K(i, new[b]) : m > n
    <3>1. a \in DOMAIN old /\ old[a] \in ToSet(old) /\ new[a] = old[a]
      BY <2>2, <2>6 DEF ToSet
    <3>2. K(i, new[a]) = K(i + 1, old[a]) /\ K(i + 1, old[a]) # {}
      BY <1>4, <1>6, <2>4, <3>1
    <3>3. CASE b = Len(old) + 1
      BY <1>3, <2>2, <2>4, <3>2, <3>3
    <3>4. CASE b # Len(old) + 1
      <4>1. b \in DOMAIN old /\ old[b] \in ToSet(old) /\ new[b] = old[b]
        BY <2>2, <3>4 DEF ToSet
      <4>2. K(i, new[b]) = K(i + 1, old[b])
        BY <1>6, <2>4, <4>1
      <4> QED BY <1>4, <2>6, <3>1, <3>2, <4>1, <4>2
    <3> QED BY <3>3, <3>4
  <2> QED BY <2>5, <2>6 DEF Newest, K, new
<1>7. CASE i \notin H
  BY <1>5, <1>7
<1>8. CASE i \in H
  <2>1. CASE repoRoot(l[i].file) \subseteq ToSet(old) /\ Found(old, repoRoot(l[i].file)) = old
    BY <1>5, <1>8, <2>1
  <2>2. CASE \E d \in repoRoot(l[i].file) :
               d \notin ToSet(old) /\ Found(old, repoRoot(l[i].file)) = Append(old, d)
    BY <1>6, <1>8, <2>2
  <2> QED BY <1>1, <2>1, <2>2, FoundAdds
<1> QED BY <1>7, <1>8

\* RecentProjects returns, for any log and moment, the repositories of the
\* heartbeats it reads, each once and that of the last heartbeat first.
THEOREM RecentIsNewest ==
  ASSUME NEW l \in Seq(LogLine), NEW s \in Int
  PROVE  LET out == RecentProjects(l, s)
         IN  /\ out \in Seq(GitDirs) /\ Newest(l, s, 1, out)
             /\ \A a, b \in DOMAIN out : out[a] = out[b] => a = b
<1> DEFINE N == Len(l)
<1>1. PICK o \in [ 1 .. N + 1 -> Seq(GitDirs) ] :
        /\ RecentProjects(l, s) = o[1] /\ o[N + 1] = << >>
        /\ \A i \in 1 .. N :
             o[i] = IF i \in recentHeartbeats(l, s)
                    THEN Found(o[i + 1], repoRoot(l[i].file)) ELSE o[i + 1]
  BY Unrolled
<1>2. N \in Nat /\ DOMAIN l = 1 .. N
  BY LenProperties
<1> DEFINE T == { i \in 1 .. N + 1 : Newest(l, s, i, o[i]) }
<1>3. N + 1 \in T
  <2>1. \A d : Kept(l, s, N + 1, d) = {}
    BY <1>2 DEF Kept, recentHeartbeats, LinesRead
  <2>2. ToSet(o[N + 1]) = {} /\ DOMAIN o[N + 1] = {}
    BY <1>1 DEF ToSet
  <2>3. Newest(l, s, N + 1, o[N + 1])
    BY <2>1, <2>2 DEF Newest
  <2> QED BY <1>2, <2>3
<1>4. ASSUME NEW i \in 1 .. N, i + 1 \in T PROVE i \in T
  <2>1. o[i + 1] \in Seq(GitDirs) /\ Newest(l, s, i + 1, o[i + 1])
    BY <1>2, <1>4
  <2>2. Newest(l, s, i, o[i])
    BY <1>1, <2>1, NewestStep
  <2> QED BY <1>2, <2>2
<1>5. T \in SUBSET (1 .. N + 1)
  OBVIOUS
<1>6. T = 1 .. N + 1
  <2> HIDE DEF T, N
  <2> QED BY <1>2, <1>3, <1>4, <1>5, Backwards
<1>7. 1 \in 1 .. N + 1
  BY <1>2
<1> DEFINE out == RecentProjects(l, s)
<1>8. out \in Seq(GitDirs) /\ Newest(l, s, 1, out)
  BY <1>1, <1>6, <1>7
<1> HIDE DEF out
<1>9. ASSUME NEW a \in DOMAIN out, NEW b \in DOMAIN out, a < b PROVE out[a] # out[b]
  <2>1. PICK m \in Kept(l, s, 1, out[a]) : \A n \in Kept(l, s, 1, out[b]) : m > n
    BY <1>8, <1>9 DEF Newest
  <2>2. m \in Int
    BY <1>2 DEF Kept, recentHeartbeats, LinesRead
  <2> QED BY <2>1, <2>2
<1>10. \A a, b \in DOMAIN out : a < b \/ b < a \/ a = b
  BY <1>8, LenProperties
<1> QED BY <1>8, <1>9, <1>10 DEF out

-----------------------------------------------------------------------------
(* WithDebug, for any file.                                                *)

LEMMA FileIs ==
  ASSUME NEW f, IsFile(f)
  PROVE  /\ Len(f) \in Nat /\ DOMAIN f = 1 .. Len(f) /\ f \in Seq(Part)
         /\ \A i \in 1 .. Len(f) : f[i] \in Part
         /\ f # Absent => Len(f) > 0 /\ ~f[Len(f)].cr
BY LenProperties, ElementOfSeq, EmptySeq DEF IsFile, Last, Absent

LEMMA SettingsIs ==
  ASSUME NEW f, IsFile(f)
  PROVE  /\ Settings(f) \in 0 .. Len(f)
         /\ Settings(f) # 0 => f[Settings(f)].text = "settings"
         /\ \A i \in 1 .. Len(f) : f[i].text = "settings" => Settings(f) # 0 /\ Settings(f) <= i
<1> DEFINE I == { i \in 1 .. Len(f) : f[i].text = "settings" }
<1>1. Settings(f) = IF I # {} THEN Min(I) ELSE 0
  BY DEF Settings, SelectInSeq
<1>2. Len(f) \in Nat /\ I \in SUBSET Nat
  BY FileIs
<1>3. CASE I = {}
  BY <1>1, <1>2, <1>3
<1>4. CASE I # {}
  <2>1. \E m \in I : \A k \in I : m <= k
    BY <1>2, <1>4, Least
  <2>2. Min(I) \in I /\ \A k \in I : Min(I) <= k
    BY <2>1 DEF Min
  <2>3. Settings(f) = Min(I)
    BY <1>1, <1>4
  <2> HIDE DEF I
  <2>4. Settings(f) \in I /\ \A k \in I : Settings(f) <= k
    BY <2>2, <2>3
  <2> QED BY <1>2, <2>4 DEF I
<1> QED BY <1>3, <1>4


LEMMA TrimmedIs ==
  ASSUME NEW f, IsFile(f)
  PROVE  /\ Trimmed(f) \in Seq(Part) /\ Len(Trimmed(f)) \in 0 .. Len(f)
         /\ \A i \in 1 .. Len(Trimmed(f)) : Trimmed(f)[i] = f[i]
         /\ \A i \in Len(Trimmed(f)) + 1 .. Len(f) : f[i].text = "blank"
<1> DEFINE I == { i \in 1 .. Len(f) : f[i].text # "blank" }
           n == SelectLastInSeq(f, LAMBDA p : p.text # "blank")
<1>1. n = IF I # {} THEN Max(I) ELSE 0
  BY DEF SelectLastInSeq
<1>2. Len(f) \in Nat /\ I \in SUBSET (1 .. Len(f)) /\ \A i \in 1 .. Len(f) : f[i] \in Part
  BY FileIs
<1>3. n \in 0 .. Len(f) /\ \A i \in n + 1 .. Len(f) : i \notin I
  <2>1. CASE I = {}
    <3>1. n = 0
      BY <1>1, <2>1
    <3> HIDE DEF n
    <3> QED BY <1>2, <2>1, <3>1
  <2>2. CASE I # {}
    <3>1. \E m \in I : \A k \in I : k <= m
      BY <1>2, <2>2, Greatest
    <3>2. Max(I) \in I /\ \A k \in I : k <= Max(I)
      BY <3>1 DEF Max
    <3>3. n = Max(I)
      BY <1>1, <2>2
    <3> HIDE DEF n
    <3>4. n \in I /\ \A k \in I : k <= n
      BY <3>2, <3>3
    <3> HIDE DEF I
    <3>5. n \in 1 .. Len(f)
      BY <1>2, <3>4
    <3>6. \A i \in n + 1 .. Len(f) : ~(i <= n)
      BY <1>2, <3>5
    <3> QED BY <3>4, <3>5, <3>6
  <2> QED BY <2>1, <2>2
<1>4. Trimmed(f) = SubSeq(f, 1, n)
  BY DEF Trimmed
<1> HIDE DEF n
<1>5. \A i \in 1 .. n : f[i] \in Part
  BY <1>2, <1>3
<1>6. /\ Trimmed(f) \in Seq(Part) /\ Len(Trimmed(f)) = n
      /\ \A i \in 1 .. n : Trimmed(f)[i] = f[i]
  <2>1. 1 \in Int /\ n \in Int
    BY <1>3
  <2>2. /\ SubSeq(f, 1, n) \in Seq(Part)
        /\ Len(SubSeq(f, 1, n)) = IF 1 <= n THEN n - 1 + 1 ELSE 0
        /\ \A i \in 1 .. n - 1 + 1 : SubSeq(f, 1, n)[i] = f[1 + i - 1]
    BY <1>5, <2>1, SubSeqProperties
  <2> QED BY <1>3, <1>4, <2>2
<1> QED BY <1>3, <1>6 DEF I

\* The lines of a section at the end of a file.
Section == << Line("settings"), Line("on"), Line("blank") >>

LEMMA AppendedIs ==
  ASSUME NEW f, IsFile(f)
  PROVE  \E m \in { 0, Len(Trimmed(f)) + 1 } :
           /\ m = 0 <=> Trimmed(f) = << >>
           /\ Appended(f) \in Seq(Part) /\ Len(Appended(f)) = m + 3
           /\ \A i \in 1 .. m :
                IF i < m THEN Appended(f)[i] = f[i] ELSE Appended(f)[i] = Line("blank")
           /\ Appended(f)[m + 1] = Line("settings")
           /\ Appended(f)[m + 2] = Line("on")
           /\ Appended(f)[m + 3] = Line("blank")
<1> DEFINE t == Trimmed(f)
           n == Len(t)
<1>1. t \in Seq(Part) /\ n \in Nat /\ \A i \in 1 .. n : t[i] = f[i]
  BY TrimmedIs, FileIs
<1>2. Line("settings") \in Part /\ Line("on") \in Part /\ Line("blank") \in Part
  BY DEF Line, Part, Texts
<1>3. /\ Section \in Seq(Part) /\ Len(Section) = 3
      /\ Section[1] = Line("settings") /\ Section[2] = Line("on") /\ Section[3] = Line("blank")
  BY <1>2 DEF Section
<1>4. CASE t = << >>
  <2>1. Appended(f) = (<< >> \o << >>) \o Section
    BY <1>4 DEF Appended, Section
  <2>2. << >> \o << >> = << >> /\ << >> \o Section = Section
    BY <1>3, ConcatEmptySeq
  <2>3. Appended(f) = Section
    BY <2>1, <2>2
  <2> QED BY <1>3, <1>4, <2>3
<1>5. CASE t # << >>
  <2> DEFINE u == t \o << Line("blank") >>
  <2>1. /\ << Line("blank") >> \in Seq(Part) /\ Len(<< Line("blank") >>) = 1
        /\ << Line("blank") >>[1] = Line("blank")
    BY <1>2
  <2>2. /\ u \in Seq(Part) /\ Len(u) = n + 1
        /\ \A i \in 1 .. n + 1 : u[i] = IF i <= n THEN t[i] ELSE << Line("blank") >>[i - n]
    BY <1>1, <2>1, ConcatProperties
  <2>3. Appended(f) = u \o Section
    BY <1>5 DEF Appended, Section
  <2> HIDE DEF u
  <2>4. /\ Appended(f) \in Seq(Part) /\ Len(Appended(f)) = n + 1 + 3
        /\ \A i \in 1 .. n + 1 + 3 :
             Appended(f)[i] = IF i <= n + 1 THEN u[i] ELSE Section[i - (n + 1)]
    <3>1. u \in Seq(Part) /\ Section \in Seq(Part)
      BY <1>3, <2>2
    <3>2. /\ u \o Section \in Seq(Part) /\ Len(u \o Section) = Len(u) + Len(Section)
          /\ \A i \in 1 .. Len(u) + Len(Section) :
               (u \o Section)[i] = IF i <= Len(u) THEN u[i] ELSE Section[i - Len(u)]
      BY <3>1, ConcatProperties
    <3> QED BY <1>3, <2>2, <2>3, <3>2
  <2>5. ASSUME NEW i \in 1 .. n + 1
        PROVE  IF i < n + 1 THEN Appended(f)[i] = f[i] ELSE Appended(f)[i] = Line("blank")
    <3> HIDE DEF n
    <3>1. i \in 1 .. n + 1 + 3 /\ i <= n + 1
      BY <1>1
    <3>2. Appended(f)[i] = u[i]
      BY <2>4, <3>1
    <3>3. CASE i <= n
      BY <1>1, <2>2, <3>2, <3>3
    <3>4. CASE i = n + 1
      BY <1>1, <2>1, <2>2, <3>2, <3>4
    <3> QED BY <1>1, <3>3, <3>4
  <2>6. /\ Appended(f)[n + 1 + 1] = Section[1] /\ Appended(f)[n + 1 + 2] = Section[2]
        /\ Appended(f)[n + 1 + 3] = Section[3]
    BY <1>1, <2>4
  <2>7. n + 1 \in { 0, Len(Trimmed(f)) + 1 } /\ n + 1 # 0
    BY <1>1
  <2> QED BY <1>3, <1>5, <2>3, <2>4, <2>5, <2>6, <2>7
<1> QED BY <1>4, <1>5

\* How new comes from f: the first key, at k, is turned on; or one is added under the
\* header; or a section at the end.
Rewritten(f, new, k) ==
  /\ k \in OwnKeys(f) /\ (\A j \in OwnKeys(f) : k <= j) /\ Len(new) = Len(f)
  /\ \A i \in 1 .. Len(new) : new[i].text = IF i = k THEN "on" ELSE f[i].text

Under(f, new) ==
  /\ OwnKeys(f) = {} /\ Settings(f) # 0 /\ Len(new) = Len(f) + 1
  /\ \A i \in 1 .. Len(new) :
       new[i].text = IF i <= Settings(f) THEN f[i].text
                     ELSE IF i = Settings(f) + 1 THEN "on" ELSE f[i - 1].text

AtEnd(f, new, m) ==
  /\ Settings(f) = 0 /\ m \in { 0, Len(Trimmed(f)) + 1 } /\ Len(new) = m + 3
  /\ m = 0 <=> Trimmed(f) = << >>
  /\ \A i \in 1 .. m : new[i].text = IF i < m THEN f[i].text ELSE "blank"
  /\ new[m + 1].text = "settings" /\ new[m + 2].text = "on" /\ new[m + 3].text = "blank"

Changed(f, new) ==
  \/ \E k \in OwnKeys(f) : Rewritten(f, new, k)
  \/ Under(f, new)
  \/ \E m \in Nat : AtEnd(f, new, m)

LEMMA JoinIs ==
  ASSUME NEW g \in Seq(Part), NEW c \in BOOLEAN
  PROVE  /\ Join(g, c) \in Seq(Part) /\ Len(Join(g, c)) = Len(g)
         /\ \A i \in 1 .. Len(g) : /\ Join(g, c)[i].text = g[i].text
                                   /\ Join(g, c)[i].cr = (c /\ i < Len(g))
<1>1. Len(g) \in Nat /\ DOMAIN g = 1 .. Len(g) /\ \A i \in 1 .. Len(g) : g[i] \in Part
  BY LenProperties, ElementOfSeq
<1>2. \A i \in 1 .. Len(g) : [ text |-> g[i].text, cr |-> c /\ i < Len(g) ] \in Part
  BY <1>1 DEF Part
<1>3. Join(g, c) \in [ 1 .. Len(g) -> Part ]
  BY <1>1, <1>2 DEF Join
<1>4. Join(g, c) \in Seq(Part)
  BY <1>1, <1>3, SeqDef
<1>5. Len(Join(g, c)) = Len(g)
  BY <1>1, <1>3, <1>4, LenProperties
<1> QED BY <1>1, <1>4, <1>5 DEF Join

LEMMA FirstIs ==
  ASSUME NEW f, IsFile(f), OwnKeys(f) # {}
  PROVE  First(OwnKeys(f)) \in OwnKeys(f) /\ \A j \in OwnKeys(f) : First(OwnKeys(f)) <= j
<1>1. OwnKeys(f) \in SUBSET Nat
  BY FileIs DEF OwnKeys
<1>2. \E m \in OwnKeys(f) : \A k \in OwnKeys(f) : m <= k
  BY <1>1, Least
<1> QED BY <1>2 DEF First

LEMMA InsertedIs ==
  ASSUME NEW f, IsFile(f), Settings(f) # 0
  PROVE  /\ Inserted(f) \in Seq(Part) /\ Len(Inserted(f)) = Len(f) + 1
         /\ \A i \in 1 .. Len(f) + 1 :
              Inserted(f)[i] = IF i <= Settings(f) THEN f[i]
                               ELSE IF i = Settings(f) + 1 THEN Line("on") ELSE f[i - 1]
<1> DEFINE h == Settings(f)
           n == Len(f)
           u == SubSeq(f, 1, h)
           w == SubSeq(f, h + 1, n)
           v == u \o << Line("on") >>
<1>1. n \in Nat /\ h \in 1 .. n /\ \A i \in 1 .. n : f[i] \in Part
  BY FileIs, SettingsIs
<1>2. << Line("on") >> \in Seq(Part) /\ Len(<< Line("on") >>) = 1
      /\ << Line("on") >>[1] = Line("on")
  BY DEF Line, Part, Texts
<1>3. Inserted(f) = v \o w
  <2>1. Settings(f) \in Nat
    BY <1>1
  <2>2. ASSUME NEW j, NEW e PROVE InsertAt(f, j, e) = SubSeq(f, 1, j - 1) \o << e >> \o SubSeq(f, j, Len(f))
    BY DEF InsertAt
  <2>3. Inserted(f) = InsertAt(f, Settings(f) + 1, Line("on"))
    BY DEF Inserted
  <2> DEFINE x == Settings(f) + 1
             e == Line("on")
  <2> HIDE DEF x, e
  <2>4. InsertAt(f, x, e) = SubSeq(f, 1, x - 1) \o << e >> \o SubSeq(f, x, Len(f))
    BY <2>2
  <2>5. x - 1 = Settings(f)
    BY <2>1 DEF x
  <2> QED BY <2>3, <2>4, <2>5 DEF x, e
<1> HIDE DEF h, n
<1>4. u \in Seq(Part) /\ Len(u) = h /\ \A i \in 1 .. h : u[i] = f[i]
  <2>1. 1 \in Int /\ h \in Int /\ \A i \in 1 .. h : f[i] \in Part
    BY <1>1
  <2>2. /\ u \in Seq(Part) /\ Len(u) = IF 1 <= h THEN h - 1 + 1 ELSE 0
        /\ \A i \in 1 .. h - 1 + 1 : u[i] = f[1 + i - 1]
    BY <2>1, SubSeqProperties
  <2> HIDE DEF u
  <2> QED BY <1>1, <2>2
<1>5. w \in Seq(Part) /\ Len(w) = n - h /\ \A i \in 1 .. n - h : w[i] = f[h + i]
  <2>1. h + 1 \in Int /\ n \in Int /\ \A i \in h + 1 .. n : f[i] \in Part
    BY <1>1
  <2>2. /\ w \in Seq(Part) /\ Len(w) = IF h + 1 <= n THEN n - (h + 1) + 1 ELSE 0
        /\ \A i \in 1 .. n - (h + 1) + 1 : w[i] = f[h + 1 + i - 1]
    BY <2>1, SubSeqProperties
  <2> HIDE DEF w
  <2> QED BY <1>1, <2>2
<1> HIDE DEF u, w
<1>6. /\ v \in Seq(Part) /\ Len(v) = h + 1
      /\ \A i \in 1 .. h + 1 : v[i] = IF i <= h THEN f[i] ELSE Line("on")
  <2>1. /\ v \in Seq(Part) /\ Len(v) = Len(u) + 1
        /\ \A i \in 1 .. Len(u) + 1 :
             v[i] = IF i <= Len(u) THEN u[i] ELSE << Line("on") >>[i - Len(u)]
    BY <1>2, <1>4, ConcatProperties
  <2> HIDE DEF v
  <2> QED BY <1>1, <1>2, <1>4, <2>1
<1> HIDE DEF v
<1>7. /\ v \o w \in Seq(Part) /\ Len(v \o w) = Len(v) + Len(w)
      /\ \A i \in 1 .. Len(v) + Len(w) :
           (v \o w)[i] = IF i <= Len(v) THEN v[i] ELSE w[i - Len(v)]
  BY <1>5, <1>6, ConcatProperties
<1>8. Inserted(f) \in Seq(Part) /\ Len(Inserted(f)) = n + 1
  BY <1>1, <1>3, <1>5, <1>6, <1>7
<1>9. ASSUME NEW i \in 1 .. n + 1
      PROVE  Inserted(f)[i] = IF i <= h THEN f[i] ELSE IF i = h + 1 THEN Line("on") ELSE f[i - 1]
  <2>1. CASE i <= h + 1
    BY <1>1, <1>3, <1>5, <1>6, <1>7, <2>1
  <2>2. CASE i > h + 1
    <3>1. i - (h + 1) \in 1 .. n - h /\ h + (i - (h + 1)) = i - 1
      BY <1>1, <2>2
    <3> QED BY <1>1, <1>3, <1>5, <1>6, <1>7, <2>2, <3>1
  <2> QED BY <1>1, <2>1, <2>2
<1> QED BY <1>8, <1>9 DEF h, n

LEMMA WithDebugIs ==
  ASSUME NEW f, IsFile(f), f # Absent
  PROVE  /\ WithDebug(f) \in Seq(Part) /\ Changed(f, WithDebug(f))
         /\ \/ WithDebug(f) = f
            \/ \A i \in 1 .. Len(WithDebug(f)) :
                 WithDebug(f)[i].cr = (Crlf(f) /\ i < Len(WithDebug(f)))
<1> DEFINE k == First(OwnKeys(f))
<1>1. f \in Seq(Part) /\ Len(f) \in Nat /\ Crlf(f) \in BOOLEAN
  BY FileIs DEF Crlf
<1>2. CASE OwnKeys(f) # {} /\ f[k].text = "on"
  <2>1. WithDebug(f) = f
    BY <1>2 DEF WithDebug
  <2>2. k \in OwnKeys(f) /\ Rewritten(f, f, k)
    BY <1>2, FirstIs DEF Rewritten
  <2> QED BY <1>1, <2>1, <2>2 DEF Changed
<1>3. CASE OwnKeys(f) # {} /\ f[k].text # "on"
  <2> DEFINE g == ReplaceAt(f, k, Line("on"))
  <2>1. WithDebug(f) = Join(g, Crlf(f))
    BY <1>3 DEF WithDebug
  <2>2. k \in OwnKeys(f) /\ (\A j \in OwnKeys(f) : k <= j) /\ k \in 1 .. Len(f)
    BY <1>3, FirstIs, FileIs DEF OwnKeys
  <2>3. Line("on") \in Part
    BY DEF Line, Part, Texts
  <2> HIDE DEF k
  <2>4. /\ g \in Seq(Part) /\ Len(g) = Len(f)
        /\ \A i \in 1 .. Len(f) : g[i] = IF i = k THEN Line("on") ELSE f[i]
    BY <1>1, <2>2, <2>3, ExceptSeq DEF ReplaceAt
  <2> HIDE DEF g
  <2>5. Rewritten(f, Join(g, Crlf(f)), k)
    BY <1>1, <2>2, <2>4, JoinIs DEF Rewritten, Line
  <2>6. Changed(f, Join(g, Crlf(f)))
    BY <2>2, <2>5 DEF Changed
  <2> QED BY <1>1, <2>1, <2>4, <2>6, JoinIs
<1>4. CASE OwnKeys(f) = {} /\ Settings(f) # 0
  <2>1. WithDebug(f) = Join(Inserted(f), Crlf(f))
    BY <1>4 DEF WithDebug
  <2>2. Under(f, Join(Inserted(f), Crlf(f)))
    BY <1>1, <1>4, InsertedIs, JoinIs DEF Under, Line
  <2>3. Inserted(f) \in Seq(Part)
    BY <1>4, InsertedIs
  <2> QED BY <1>1, <2>1, <2>2, <2>3, JoinIs DEF Changed
<1>5. CASE OwnKeys(f) = {} /\ Settings(f) = 0
  <2>1. WithDebug(f) = Join(Appended(f), Crlf(f))
    BY <1>5 DEF WithDebug
  <2>2. PICK m \in { 0, Len(Trimmed(f)) + 1 } :
          /\ m = 0 <=> Trimmed(f) = << >>
          /\ Appended(f) \in Seq(Part) /\ Len(Appended(f)) = m + 3
          /\ \A i \in 1 .. m :
               IF i < m THEN Appended(f)[i] = f[i] ELSE Appended(f)[i] = Line("blank")
          /\ Appended(f)[m + 1] = Line("settings")
          /\ Appended(f)[m + 2] = Line("on")
          /\ Appended(f)[m + 3] = Line("blank")
    BY AppendedIs
  <2>3. m \in Nat /\ m + 1 \in 1 .. m + 3 /\ m + 2 \in 1 .. m + 3 /\ m + 3 \in 1 .. m + 3
        /\ \A i \in 1 .. m : i \in 1 .. m + 3
    BY TrimmedIs, FileIs
  <2> DEFINE g == Join(Appended(f), Crlf(f))
  <2>4. g \in Seq(Part) /\ Len(g) = m + 3
        /\ \A i \in 1 .. m + 3 : g[i].text = Appended(f)[i].text
    <3>1. /\ g \in Seq(Part) /\ Len(g) = Len(Appended(f))
          /\ \A i \in 1 .. Len(Appended(f)) : g[i].text = Appended(f)[i].text
      BY <1>1, <2>2, JoinIs
    <3> QED BY <2>2, <3>1
  <2>5. AtEnd(f, g, m)
    <3> HIDE DEF g
    <3>1. \A i \in 1 .. m : g[i].text = IF i < m THEN f[i].text ELSE "blank"
      BY <2>2, <2>3, <2>4 DEF Line
    <3>2. g[m + 1].text = "settings" /\ g[m + 2].text = "on" /\ g[m + 3].text = "blank"
      BY <2>2, <2>3, <2>4 DEF Line
    <3> QED BY <1>5, <2>2, <2>4, <3>1, <3>2 DEF AtEnd
  <2>6. \A i \in 1 .. Len(g) : g[i].cr = (Crlf(f) /\ i < Len(g))
    BY <1>1, <2>2, JoinIs
  <2> QED BY <2>1, <2>3, <2>4, <2>5, <2>6 DEF Changed
<1> QED BY <1>2, <1>3, <1>4, <1>5

LEMMA AtMostOne ==
  ASSUME NEW N \in Nat, NEW S \in SUBSET (1 .. N), Cardinality(S) <= 1,
         NEW a \in S, NEW b \in S
  PROVE  a = b
<1> SUFFICES ASSUME a # b PROVE FALSE
  OBVIOUS
<1>1. IsFiniteSet(S) /\ Cardinality(S) \in Nat
  <2>1. IsFiniteSet(1 .. N)
    BY FS_Interval
  <2> QED BY <2>1, FS_Subset, FS_CardinalityType
<1>2. IsFiniteSet({ a }) /\ Cardinality({ a }) = 1
  BY FS_Singleton
<1>3. Cardinality({ a } \cup { b }) = 2
  BY <1>2, FS_AddElement
<1>4. Cardinality({ a } \cup { b }) <= Cardinality(S)
  <2>1. { a } \cup { b } \in SUBSET S
    OBVIOUS
  <2> QED BY <1>1, <2>1, FS_Subset
<1> QED BY <1>1, <1>3, <1>4

LEMMA OrdinaryIs ==
  ASSUME NEW f, IsFile(f), Ordinary(f)
  PROVE  /\ \A i, j \in DOMAIN f : f[i].text = "settings" /\ f[j].text = "settings" => i = j
         /\ \A i, j \in DebugKeys(f) : i = j
<1>1. Len(f) \in Nat /\ DOMAIN f = 1 .. Len(f)
  BY FileIs
<1> DEFINE S == { i \in DOMAIN f : f[i].text = "settings" }
<1>2. S \in SUBSET (1 .. Len(f)) /\ Cardinality(S) <= 1
  BY <1>1 DEF Ordinary
<1>3. DebugKeys(f) \in SUBSET (1 .. Len(f)) /\ Cardinality(DebugKeys(f)) <= 1
  BY <1>1 DEF Ordinary, DebugKeys
<1>4. \A i, j \in S : i = j
  <2> HIDE DEF S
  <2> QED BY <1>1, <1>2, AtMostOne
<1>5. \A i, j \in DebugKeys(f) : i = j
  BY <1>1, <1>3, AtMostOne
<1> QED BY <1>4, <1>5

\* A debug key of the first [settings] section counts.
LEMMA OwnAreDebugKeys ==
  ASSUME NEW f, IsFile(f)
  PROVE  OwnKeys(f) \subseteq DebugKeys(f)
<1>1. Len(f) \in Nat /\ DOMAIN f = 1 .. Len(f)
  BY FileIs
<1>2. Settings(f) \in 0 .. Len(f) /\ (Settings(f) # 0 => f[Settings(f)].text = "settings")
  BY SettingsIs
<1> QED BY <1>1, <1>2 DEF OwnKeys, DebugKeys

\* On a file with one [settings] section and one debug key at most, each of the
\* three changes leaves debug on.
LEMMA TurnsOn ==
  ASSUME NEW f, IsFile(f), f # Absent, Ordinary(f),
         NEW new \in Seq(Part), Changed(f, new)
  PROVE  DebugOn(new)
<1>1. /\ Len(f) \in Nat /\ DOMAIN f = 1 .. Len(f)
      /\ Len(new) \in Nat /\ DOMAIN new = 1 .. Len(new)
  BY FileIs, LenProperties
<1>2. /\ Settings(f) \in 0 .. Len(f)
      /\ Settings(f) # 0 => f[Settings(f)].text = "settings"
      /\ \A i \in 1 .. Len(f) : f[i].text = "settings" => Settings(f) = i
  BY <1>1, SettingsIs, OrdinaryIs
<1>3. ASSUME NEW k \in OwnKeys(f), Rewritten(f, new, k)
      PROVE  DebugOn(new)
  <2>1. DOMAIN new = DOMAIN f /\ k \in DOMAIN f /\ DebugKey(f[k]) /\ ~Header(f[k])
    BY <1>1, <1>3 DEF Rewritten, OwnKeys, DebugKey, Header
  <2>2. \A i \in DOMAIN f : new[i].text = IF i = k THEN "on" ELSE f[i].text
    BY <1>1, <1>3, <2>1 DEF Rewritten
  <2>3. /\ \A i \in DOMAIN f : Header(new[i]) <=> Header(f[i])
        /\ \A i \in DOMAIN f : DebugKey(new[i]) <=> DebugKey(f[i])
        /\ \A i \in DOMAIN f : new[i].text = "settings" <=> f[i].text = "settings"
    BY <2>1, <2>2 DEF Header, DebugKey
  <2>4. DebugKeys(new) = DebugKeys(f)
    <3>1. ASSUME NEW i \in DOMAIN f PROVE i \in DebugKeys(new) <=> i \in DebugKeys(f)
      <4>1. \A h \in 1 .. i : h \in DOMAIN f /\ \A j \in h + 1 .. i : j \in DOMAIN f
        BY <1>1
      <4> QED BY <2>1, <2>3, <4>1 DEF DebugKeys
    <3> QED BY <2>1, <3>1 DEF DebugKeys
  <2>5. k \in DebugKeys(f) /\ \A j \in DebugKeys(f) : j = k
    BY OwnAreDebugKeys, OrdinaryIs
  <2>6. new[k].text = "on" /\ k <= k
    BY <1>1, <2>1, <2>2
  <2> QED BY <2>4, <2>5, <2>6 DEF DebugOn
<1>4. CASE Under(f, new)
  <2> DEFINE s == Settings(f)
  <2>1. s \in 1 .. Len(f) /\ f[s].text = "settings" /\ Len(new) = Len(f) + 1
    BY <1>1, <1>2, <1>4 DEF Under
  <2>2. \A i \in 1 .. Len(f) + 1 :
          new[i].text = IF i <= s THEN f[i].text ELSE IF i = s + 1 THEN "on" ELSE f[i - 1].text
    BY <1>4, <2>1 DEF Under
  <2>3. \A i \in 1 .. Len(f) : f[i].text = "settings" => i = s
    BY <1>2
  <2>4. OwnKeys(f) = {}
    BY <1>4 DEF Under
  <2> HIDE DEF s
  <2>5. \A i \in 1 .. Len(f) + 1 : new[i].text = "settings" => i = s
    <3> SUFFICES ASSUME NEW i \in 1 .. Len(f) + 1, new[i].text = "settings" PROVE i = s
      OBVIOUS
    <3>1. CASE i <= s
      BY <1>1, <2>1, <2>2, <2>3, <3>1
    <3>2. CASE i > s + 1
      <4>1. i - 1 \in 1 .. Len(f) /\ new[i].text = f[i - 1].text
        BY <1>1, <2>1, <2>2, <3>2
      <4> QED BY <2>1, <2>3, <3>2, <4>1
    <3>3. CASE i = s + 1
      <4>1. ~(i <= s)
        BY <1>1, <2>1, <3>3
      <4>2. new[i].text = "on"
        BY <2>2, <3>3, <4>1
      <4> QED BY <4>2
    <3> QED BY <2>1, <3>1, <3>2, <3>3
  <2>6. s + 1 \in DebugKeys(new) /\ new[s + 1].text = "on"
    <3>1. s \in 1 .. s + 1 /\ s + 1 \in 1 .. Len(f) + 1 /\ s \in 1 .. Len(f) + 1
      BY <1>1, <2>1
    <3>2. new[s].text = "settings" /\ new[s + 1].text = "on"
      BY <2>1, <2>2, <3>1
    <3>3. \A j \in s + 1 .. s + 1 : ~Header(new[j])
      BY <2>1, <3>2 DEF Header
    <3> QED BY <1>1, <2>1, <3>1, <3>2, <3>3 DEF DebugKeys, DebugKey
  <2>7. ASSUME NEW i \in DebugKeys(new) PROVE i <= s + 1
    <3>1. SUFFICES ASSUME i > s + 1 PROVE FALSE
      BY <1>1, <2>1 DEF DebugKeys
    <3>2. PICK h \in 1 .. i : new[h].text = "settings" /\ \A j \in h + 1 .. i : ~Header(new[j])
      BY DEF DebugKeys
    <3>3. i \in 1 .. Len(f) + 1 /\ DebugKey(new[i])
      BY <1>1, <2>1 DEF DebugKeys
    <3>4. h = s
      BY <1>1, <2>5, <3>2, <3>3
    <3>5. i - 1 \in DOMAIN f /\ DebugKey(f[i - 1]) /\ s < i - 1
      BY <1>1, <2>1, <2>2, <3>1, <3>3 DEF DebugKey
    <3>6. ASSUME NEW j \in s + 1 .. i - 1 PROVE ~Header(f[j])
      <4>1. j + 1 \in s + 1 .. i /\ j + 1 \in 1 .. Len(f) + 1 /\ j + 1 > s + 1 /\ j + 1 - 1 = j
        BY <1>1, <2>1, <3>3
      <4>2. new[j + 1].text = f[j].text
        BY <2>1, <2>2, <4>1
      <4>3. ~Header(new[j + 1])
        BY <3>2, <3>4, <4>1
      <4> QED BY <4>2, <4>3 DEF Header
    <3>7. i - 1 \in OwnKeys(f)
      BY <2>1, <3>5, <3>6 DEF OwnKeys, s
    <3> QED BY <2>4, <3>7
  <2> QED BY <2>6, <2>7 DEF DebugOn
<1>5. ASSUME NEW m \in Nat, AtEnd(f, new, m)
      PROVE  DebugOn(new)
  <2>1. Len(new) = m + 3 /\ \A i \in 1 .. Len(f) : f[i].text # "settings"
    BY <1>1, <1>2, <1>5 DEF AtEnd
  <2>2. m <= Len(f) + 1
    BY <1>1, <1>5, TrimmedIs DEF AtEnd
  <2>3. /\ new[m + 1].text = "settings" /\ new[m + 2].text = "on" /\ new[m + 3].text = "blank"
        /\ \A i \in 1 .. m : new[i].text = IF i < m THEN f[i].text ELSE "blank"
    BY <1>5 DEF AtEnd
  <2>4. \A i \in 1 .. m : new[i].text # "settings"
    BY <1>1, <2>1, <2>2, <2>3
  <2>5. m + 2 \in DebugKeys(new)
    <3>1. \A j \in m + 1 + 1 .. m + 2 : j = m + 2
      OBVIOUS
    <3>2. m + 1 \in 1 .. m + 2 /\ m + 2 \in DOMAIN new
      BY <1>1, <2>1
    <3>3. \A j \in m + 1 + 1 .. m + 2 : ~Header(new[j])
      BY <2>3, <3>1 DEF Header
    <3>4. DebugKey(new[m + 2])
      BY <2>3 DEF DebugKey
    <3> QED BY <2>3, <3>2, <3>3, <3>4 DEF DebugKeys
  <2>6. ASSUME NEW i \in DebugKeys(new) PROVE i <= m + 2
    <3>1. i \in 1 .. m + 3 /\ DebugKey(new[i])
      BY <1>1, <2>1 DEF DebugKeys
    <3>2. i # m + 3
      BY <2>3, <3>1 DEF DebugKey
    <3> QED BY <3>1, <3>2
  <2> QED BY <2>3, <2>5, <2>6 DEF DebugOn
<1> QED BY <1>3, <1>4, <1>5 DEF Changed

LEMMA TextIs ==
  ASSUME NEW f \in Seq(Part)
  PROVE  /\ Text(f) \in Seq(Texts) /\ Len(Text(f)) = Len(f)
         /\ \A i \in 1 .. Len(f) : Text(f)[i] = f[i].text
<1>1. Len(f) \in Nat /\ DOMAIN f = 1 .. Len(f) /\ \A i \in 1 .. Len(f) : f[i].text \in Texts
  <2>1. \A i \in 1 .. Len(f) : f[i] \in Part
    BY ElementOfSeq
  <2> QED BY <2>1, LenProperties DEF Part
<1>2. Text(f) \in [ 1 .. Len(f) -> Texts ]
  BY <1>1 DEF Text
<1>3. Text(f) \in Seq(Texts)
  BY <1>1, <1>2, SeqDef
<1>4. Len(Text(f)) = Len(f)
  BY <1>1, <1>2, <1>3, LenProperties
<1> QED BY <1>1, <1>3, <1>4 DEF Text

LEMMA SubSeqIs ==
  ASSUME NEW S, NEW t \in Seq(S), NEW a \in 1 .. Len(t) + 1, NEW b \in a - 1 .. Len(t)
  PROVE  /\ SubSeq(t, a, b) \in Seq(S) /\ Len(SubSeq(t, a, b)) = b - a + 1
         /\ \A i \in 1 .. b - a + 1 : SubSeq(t, a, b)[i] = t[a + i - 1]
<1>1. Len(t) \in Nat /\ \A i \in 1 .. Len(t) : t[i] \in S
  BY LenProperties, ElementOfSeq
<1>2. a \in Int /\ b \in Int /\ \A i \in a .. b : t[i] \in S
  BY <1>1
<1>3. /\ SubSeq(t, a, b) \in Seq(S)
      /\ Len(SubSeq(t, a, b)) = IF a <= b THEN b - a + 1 ELSE 0
      /\ \A i \in 1 .. b - a + 1 : SubSeq(t, a, b)[i] = t[a + i - 1]
  BY <1>2, SubSeqProperties
<1>4. a <= b \/ b - a + 1 = 0
  BY <1>1, <1>2
<1> QED BY <1>3, <1>4

LEMMA RemoveAtIs ==
  ASSUME NEW S, NEW t \in Seq(S), NEW k \in 1 .. Len(t)
  PROVE  /\ RemoveAt(t, k) \in Seq(S) /\ Len(RemoveAt(t, k)) = Len(t) - 1
         /\ \A i \in 1 .. Len(t) - 1 : RemoveAt(t, k)[i] = IF i < k THEN t[i] ELSE t[i + 1]
<1> DEFINE n == Len(t)
           u == SubSeq(t, 1, k - 1)
           w == SubSeq(t, k + 1, n)
<1>1. n \in Nat /\ k \in 1 .. n
  BY LenProperties
<1>2. u \in Seq(S) /\ Len(u) = k - 1 /\ \A i \in 1 .. k - 1 : u[i] = t[i]
  <2>1. 1 \in 1 .. n + 1 /\ k - 1 \in 1 - 1 .. n
    BY <1>1
  <2>2. /\ u \in Seq(S) /\ Len(u) = k - 1 - 1 + 1
        /\ \A i \in 1 .. k - 1 - 1 + 1 : u[i] = t[1 + i - 1]
    BY <2>1, SubSeqIs
  <2> HIDE DEF u
  <2> QED BY <1>1, <2>2
<1>3. w \in Seq(S) /\ Len(w) = n - k /\ \A i \in 1 .. n - k : w[i] = t[k + i]
  <2>1. k + 1 \in 1 .. n + 1 /\ n \in k + 1 - 1 .. n
    BY <1>1
  <2>2. /\ w \in Seq(S) /\ Len(w) = n - (k + 1) + 1
        /\ \A i \in 1 .. n - (k + 1) + 1 : w[i] = t[k + 1 + i - 1]
    BY <2>1, SubSeqIs
  <2> HIDE DEF w
  <2> QED BY <1>1, <2>2
<1>4. RemoveAt(t, k) = u \o w
  BY DEF RemoveAt
<1> HIDE DEF u, w
<1>5. /\ u \o w \in Seq(S) /\ Len(u \o w) = Len(u) + Len(w)
      /\ \A i \in 1 .. Len(u) + Len(w) :
           (u \o w)[i] = IF i <= Len(u) THEN u[i] ELSE w[i - Len(u)]
  BY <1>2, <1>3, ConcatProperties
<1>6. ASSUME NEW i \in 1 .. n - 1
      PROVE  RemoveAt(t, k)[i] = IF i < k THEN t[i] ELSE t[i + 1]
  <2>1. CASE i < k
    BY <1>1, <1>2, <1>3, <1>4, <1>5, <2>1
  <2>2. CASE i >= k
    <3>1. i - (k - 1) \in 1 .. n - k /\ k + (i - (k - 1)) = i + 1
      BY <1>1, <2>2
    <3> QED BY <1>1, <1>2, <1>3, <1>4, <1>5, <2>2, <3>1
  <2> QED BY <1>1, <2>1, <2>2
<1> QED BY <1>1, <1>2, <1>3, <1>4, <1>5, <1>6

\* Each of the three changes is to one key.
LEMMA ChangesOneKey ==
  ASSUME NEW f, IsFile(f), f # Absent, NEW new \in Seq(Part), Changed(f, new)
  PROVE  OneKey(f, new)
<1>1. /\ Len(f) \in Nat /\ DOMAIN f = 1 .. Len(f) /\ f \in Seq(Part)
      /\ Len(new) \in Nat /\ DOMAIN new = 1 .. Len(new)
  BY FileIs, LenProperties
<1>2. /\ Text(f) \in Seq(Texts) /\ Len(Text(f)) = Len(f)
      /\ \A i \in 1 .. Len(f) : Text(f)[i] = f[i].text
      /\ Text(new) \in Seq(Texts) /\ Len(Text(new)) = Len(new)
      /\ \A i \in 1 .. Len(new) : Text(new)[i] = new[i].text
  BY <1>1, TextIs
<1>3. ASSUME NEW k \in OwnKeys(f), Rewritten(f, new, k)
      PROVE  OneKey(f, new)
  <2>1. k \in DebugKeys(f) /\ k \in 1 .. Len(f) /\ Len(new) = Len(f)
    BY <1>1, <1>3, OwnAreDebugKeys DEF OwnKeys, Rewritten
  <2>2. new[k].text = "on"
    BY <1>3, <2>1 DEF Rewritten
  <2>3. Text(new) = ReplaceAt(Text(f), k, "on")
    <3>1. "on" \in Texts
      BY DEF Texts
    <3>2. /\ ReplaceAt(Text(f), k, "on") \in Seq(Texts)
          /\ Len(ReplaceAt(Text(f), k, "on")) = Len(f)
          /\ \A i \in 1 .. Len(f) :
               ReplaceAt(Text(f), k, "on")[i] = IF i = k THEN "on" ELSE Text(f)[i]
      BY <1>2, <2>1, <3>1, ExceptSeq DEF ReplaceAt
    <3>3. \A i \in 1 .. Len(new) : Text(new)[i] = ReplaceAt(Text(f), k, "on")[i]
      BY <1>2, <1>3, <2>1, <3>2 DEF Rewritten
    <3> QED BY <1>2, <2>1, <3>2, <3>3, SeqEqual
  <2> QED BY <1>1, <2>1, <2>2, <2>3 DEF OneKey
<1>4. CASE Under(f, new)
  <2> DEFINE k == Settings(f) + 1
  <2>1. Settings(f) \in 1 .. Len(f) /\ Len(new) = Len(f) + 1
    BY <1>1, <1>4, SettingsIs DEF Under
  <2>2. k \in 1 .. Len(new) /\ new[k].text = "on"
    BY <1>1, <1>4, <2>1 DEF Under
  <2>3. RemoveAt(Text(new), k) = Text(f)
    <3> DEFINE r == RemoveAt(Text(new), k)
    <3>1. /\ r \in Seq(Texts) /\ Len(r) = Len(f)
          /\ \A i \in 1 .. Len(f) : r[i] = IF i < k THEN Text(new)[i] ELSE Text(new)[i + 1]
      <4>1. k \in 1 .. Len(Text(new))
        BY <1>2, <2>2
      <4> HIDE DEF k
      <4>2. /\ r \in Seq(Texts) /\ Len(r) = Len(Text(new)) - 1
            /\ \A i \in 1 .. Len(Text(new)) - 1 :
                 r[i] = IF i < k THEN Text(new)[i] ELSE Text(new)[i + 1]
        BY <1>2, <4>1, RemoveAtIs
      <4>3. Len(Text(new)) - 1 = Len(f)
        BY <1>1, <1>2, <2>1
      <4> QED BY <4>2, <4>3
    <3> HIDE DEF r
    <3>2. ASSUME NEW i \in 1 .. Len(f) PROVE r[i] = Text(f)[i]
      <4>1. i \in 1 .. Len(new) /\ i + 1 \in 1 .. Len(new) /\ i + 1 - 1 = i
        BY <1>1, <2>1
      <4>2. CASE i < k
        <5>1. i <= Settings(f) /\ new[i].text = f[i].text
          BY <1>4, <2>1, <4>1, <4>2 DEF Under
        <5> QED BY <1>2, <3>1, <4>1, <4>2, <5>1
      <4>3. CASE i >= k
        <5>1. ~(i + 1 <= Settings(f)) /\ i + 1 # Settings(f) + 1
          BY <2>1, <4>3
        <5>2. new[i + 1].text = f[i].text
          BY <1>4, <4>1, <5>1 DEF Under
        <5>3. ~(i < k)
          BY <2>1, <4>3
        <5> QED BY <1>2, <3>1, <4>1, <5>2, <5>3
      <4> QED BY <2>1, <4>2, <4>3
    <3>3. r = Text(f)
      BY <1>2, <3>1, <3>2, SeqEqual
    <3> QED BY <3>3 DEF r
  <2>4. k \in DebugKeys(new)
    <3>1. f[Settings(f)].text = "settings"
      BY <2>1, SettingsIs
    <3>2. new[Settings(f)].text = "settings"
      BY <1>1, <1>4, <2>1, <3>1 DEF Under
    <3>3. Settings(f) \in 1 .. k /\ \A j \in Settings(f) + 1 .. k : j = k
      BY <1>1, <2>1
    <3> QED BY <1>1, <2>2, <3>2, <3>3 DEF DebugKeys, DebugKey, Header
  <2> QED BY <1>1, <2>2, <2>3, <2>4 DEF OneKey
<1>5. ASSUME NEW m \in Nat, AtEnd(f, new, m)
      PROVE  OneKey(f, new)
  <2> DEFINE t == Trimmed(f)
             n == Len(t)
             a == SubSeq(new, 1, n)
             b == SubSeq(new, n + 1, Len(new))
  <2>1. /\ t \in Seq(Part) /\ n \in Nat /\ \A i \in 1 .. n : t[i] = f[i]
    BY <1>1, TrimmedIs
  <2>2. (m = 0 /\ n = 0) \/ m = n + 1
    BY <1>5, <2>1, EmptySeq DEF AtEnd
  <2>3. /\ Len(new) = m + 3
        /\ \A i \in 1 .. m : new[i].text = IF i < m THEN f[i].text ELSE "blank"
        /\ new[m + 1].text = "settings" /\ new[m + 2].text = "on" /\ new[m + 3].text = "blank"
    BY <1>5 DEF AtEnd
  <2> HIDE DEF t, n
  <2>4. a \in Seq(Part) /\ Len(a) = n /\ \A i \in 1 .. n : a[i] = new[i]
    <3>1. 1 \in 1 .. Len(new) + 1 /\ n \in 1 - 1 .. Len(new)
      BY <1>1, <2>1, <2>2, <2>3
    <3>2. /\ a \in Seq(Part) /\ Len(a) = n - 1 + 1
          /\ \A i \in 1 .. n - 1 + 1 : a[i] = new[1 + i - 1]
      BY <3>1, SubSeqIs
    <3> HIDE DEF a
    <3> QED BY <2>1, <3>2
  <2>5. /\ b \in Seq(Part) /\ Len(b) = m + 3 - n
        /\ \A i \in 1 .. m + 3 - n : b[i] = new[n + i]
    <3>1. n + 1 \in 1 .. Len(new) + 1 /\ Len(new) \in n + 1 - 1 .. Len(new)
      BY <1>1, <2>1, <2>2, <2>3
    <3>2. /\ b \in Seq(Part) /\ Len(b) = Len(new) - (n + 1) + 1
          /\ \A i \in 1 .. Len(new) - (n + 1) + 1 : b[i] = new[n + 1 + i - 1]
      BY <3>1, SubSeqIs
    <3> HIDE DEF b
    <3> QED BY <2>1, <2>3, <3>2
  <2> HIDE DEF a, b
  <2>6. Text(a) = Text(t)
    <3>1. /\ Text(t) \in Seq(Texts) /\ Len(Text(t)) = n
          /\ \A i \in 1 .. n : Text(t)[i] = t[i].text
      BY <2>1, TextIs DEF n
    <3>2. /\ Text(a) \in Seq(Texts) /\ Len(Text(a)) = n
          /\ \A i \in 1 .. n : Text(a)[i] = a[i].text
      BY <2>4, TextIs
    <3>3. \A i \in 1 .. n : Text(a)[i] = Text(t)[i]
      <4> SUFFICES ASSUME NEW i \in 1 .. n PROVE Text(a)[i] = Text(t)[i]
        OBVIOUS
      <4>1. i \in 1 .. m /\ i < m
        BY <2>1, <2>2
      <4>2. new[i].text = f[i].text
        BY <2>3, <4>1
      <4> QED BY <2>1, <2>4, <3>1, <3>2, <4>2
    <3> QED BY <3>1, <3>2, <3>3, SeqEqual
  <2>7. ToSet(Text(b)) = { "blank", "settings", "on" }
    <3>1. /\ Text(b) \in Seq(Texts) /\ Len(Text(b)) = m + 3 - n
          /\ \A i \in 1 .. m + 3 - n : Text(b)[i] = b[i].text
      BY <2>5, TextIs
    <3>2. DOMAIN Text(b) = 1 .. m + 3 - n
      BY <3>1, LenProperties
    <3>3. \A i \in 1 .. m + 3 - n : Text(b)[i] = new[n + i].text
      BY <2>5, <3>1
    <3>4. CASE m = 0 /\ n = 0
      <4>1. DOMAIN Text(b) = { 1, 2, 3 }
        BY <3>2, <3>4
      <4>2. Text(b)[1] = "settings" /\ Text(b)[2] = "on" /\ Text(b)[3] = "blank"
        BY <2>3, <3>3, <3>4
      <4> QED BY <4>1, <4>2 DEF ToSet
    <3>5. CASE m = n + 1
      <4>1. DOMAIN Text(b) = { 1, 2, 3, 4 }
        BY <2>1, <3>2, <3>5
      <4>2. 1 \in 1 .. m + 3 - n /\ 2 \in 1 .. m + 3 - n /\ 3 \in 1 .. m + 3 - n
            /\ 4 \in 1 .. m + 3 - n
        BY <2>1, <3>5
      <4>3. new[n + 1].text = "blank"
        BY <2>1, <2>3, <3>5
      <4>4. n + 2 = m + 1 /\ n + 3 = m + 2 /\ n + 4 = m + 3
        BY <2>1, <3>5
      <4>5. /\ Text(b)[1] = "blank" /\ Text(b)[2] = "settings"
            /\ Text(b)[3] = "on" /\ Text(b)[4] = "blank"
        BY <2>3, <3>3, <4>2, <4>3, <4>4
      <4> QED BY <4>1, <4>5 DEF ToSet
    <3> QED BY <2>2, <3>4, <3>5
  <2>8. Settings(f) = 0
    BY <1>5 DEF AtEnd
  <2> QED BY <2>6, <2>7, <2>8 DEF OneKey, a, b, n, t
<1> QED BY <1>3, <1>4, <1>5 DEF Changed

\* Where the lines of a file end alike, so do those of the changed one.
LEMMA EndsKept ==
  ASSUME NEW f, IsFile(f), f # Absent, Uniform(f), Len(f) > 1,
         NEW i \in 1 .. Len(WithDebug(f)) - 1
  PROVE  WithDebug(f)[i].cr = f[1].cr
<1>1. /\ Len(f) \in Nat /\ DOMAIN f = 1 .. Len(f) /\ ~f[Len(f)].cr
      /\ \A j \in 1 .. Len(f) : f[j].cr \in BOOLEAN
  BY FileIs DEF Part
<1>2. \A j \in 1 .. Len(f) - 1 : f[j].cr = f[1].cr
  BY <1>1 DEF Uniform
<1>3. CASE WithDebug(f) = f
  BY <1>2, <1>3
<1>4. CASE \A j \in 1 .. Len(WithDebug(f)) :
             WithDebug(f)[j].cr = (Crlf(f) /\ j < Len(WithDebug(f)))
  <2>1. Len(WithDebug(f)) \in Nat
    BY WithDebugIs, LenProperties
  <2>2. i \in 1 .. Len(WithDebug(f)) /\ i < Len(WithDebug(f))
    BY <2>1
  <2>3. Crlf(f) <=> f[1].cr
    <3>1. ASSUME NEW j \in DOMAIN f, f[j].cr PROVE f[1].cr
      <4>1. j \in 1 .. Len(f) - 1
        BY <1>1, <3>1
      <4> QED BY <1>2, <3>1, <4>1
    <3>2. 1 \in DOMAIN f
      BY <1>1
    <3> QED BY <3>1, <3>2 DEF Crlf
  <2>4. Crlf(f) \in BOOLEAN /\ f[1].cr \in BOOLEAN
    BY <1>1 DEF Crlf
  <2> QED BY <1>4, <2>2, <2>3, <2>4
<1> QED BY <1>3, <1>4, WithDebugIs

LEMMA SettingsAt ==
  ASSUME NEW f, IsFile(f), NEW s \in 1 .. Len(f), f[s].text = "settings",
         \A i \in 1 .. Len(f) : i < s => f[i].text # "settings"
  PROVE  Settings(f) = s
<1>1. Len(f) \in Nat
  BY FileIs
<1>2. /\ Settings(f) \in 1 .. Len(f) /\ Settings(f) <= s
      /\ f[Settings(f)].text = "settings"
  BY <1>1, SettingsIs
<1> QED BY <1>1, <1>2

\* A file whose first debug key in [settings] is on is left as it is.
LEMMA LeftAlone ==
  ASSUME NEW f, IsFile(f), NEW k \in OwnKeys(f), f[k].text = "on",
         \A j \in OwnKeys(f) : k <= j
  PROVE  WithDebug(f) = f
<1>1. First(OwnKeys(f)) \in OwnKeys(f) /\ First(OwnKeys(f)) <= k
  BY FirstIs
<1>2. OwnKeys(f) \in SUBSET Nat
  BY FileIs DEF OwnKeys
<1>3. First(OwnKeys(f)) = k
  <2> DEFINE x == First(OwnKeys(f))
  <2>1. x \in Nat /\ k \in Nat /\ x <= k /\ k <= x
    BY <1>1, <1>2
  <2> HIDE DEF x
  <2>2. x = k
    BY <2>1
  <2> QED BY <2>2 DEF x
<1> QED BY <1>1, <1>3 DEF WithDebug

LEMMA Settled ==
  ASSUME NEW f, IsFile(f), NEW new, IsFile(new), Changed(f, new)
  PROVE  WithDebug(new) = new
<1>1. /\ Len(f) \in Nat /\ DOMAIN f = 1 .. Len(f)
      /\ Len(new) \in Nat /\ DOMAIN new = 1 .. Len(new)
  BY FileIs
<1>2. /\ Settings(f) \in 0 .. Len(f)
      /\ Settings(f) # 0 => f[Settings(f)].text = "settings"
      /\ \A i \in 1 .. Len(f) : f[i].text = "settings" => Settings(f) # 0 /\ Settings(f) <= i
  BY SettingsIs
<1>3. ASSUME NEW k \in OwnKeys(f), Rewritten(f, new, k)
      PROVE  WithDebug(new) = new
  <2>1. /\ k \in DOMAIN f /\ DebugKey(f[k]) /\ 0 < Settings(f) /\ Settings(f) < k
        /\ Len(new) = Len(f)
    BY <1>3 DEF OwnKeys, Rewritten
  <2>2. \A i \in DOMAIN f : new[i].text = IF i = k THEN "on" ELSE f[i].text
    BY <1>1, <1>3, <2>1 DEF Rewritten
  <2>3. /\ \A i \in DOMAIN f : Header(new[i]) <=> Header(f[i])
        /\ \A i \in DOMAIN f : DebugKey(new[i]) <=> DebugKey(f[i])
        /\ \A i \in DOMAIN f : new[i].text = "settings" <=> f[i].text = "settings"
    BY <2>1, <2>2 DEF Header, DebugKey
  <2>4. Settings(new) = Settings(f)
    <3>1. /\ Settings(f) \in 1 .. Len(new) /\ Settings(f) \in DOMAIN f
          /\ f[Settings(f)].text = "settings"
      BY <1>1, <1>2, <2>1
    <3>2. new[Settings(f)].text = "settings"
      BY <2>3, <3>1
    <3>3. ASSUME NEW i \in 1 .. Len(new), i < Settings(f) PROVE new[i].text # "settings"
      BY <1>1, <1>2, <2>1, <2>3, <3>3
    <3> QED BY <3>1, <3>2, <3>3, SettingsAt
  <2>5. OwnKeys(new) = OwnKeys(f)
    <3>1. ASSUME NEW i \in DOMAIN f PROVE i \in OwnKeys(new) <=> i \in OwnKeys(f)
      <4>1. \A j \in Settings(f) + 1 .. i : j \in DOMAIN f
        BY <1>1, <1>2
      <4> QED BY <1>1, <2>1, <2>3, <2>4, <4>1 DEF OwnKeys
    <3> QED BY <1>1, <2>1, <3>1 DEF OwnKeys
  <2>6. new[k].text = "on" /\ \A j \in OwnKeys(new) : k <= j
    BY <1>3, <2>1, <2>2, <2>5 DEF Rewritten
  <2> QED BY <2>5, <2>6, LeftAlone
<1>4. ASSUME NEW s \in 1 .. Len(new) - 1, new[s].text = "settings", new[s + 1].text = "on",
             \A i \in 1 .. Len(new) : i < s => new[i].text # "settings"
      PROVE  WithDebug(new) = new
  <2>1. s \in 1 .. Len(new) /\ s + 1 \in DOMAIN new
    BY <1>1
  <2>2. Settings(new) = s
    BY <1>4, <2>1, SettingsAt
  <2>3. s + 1 \in OwnKeys(new)
    <3>1. \A j \in s + 1 .. s + 1 : ~Header(new[j])
      BY <1>4 DEF Header
    <3> QED BY <1>4, <2>1, <2>2, <3>1 DEF OwnKeys, DebugKey
  <2>4. \A j \in OwnKeys(new) : s + 1 <= j
    BY <1>1, <2>2 DEF OwnKeys
  <2> QED BY <1>4, <2>3, <2>4, LeftAlone
<1>5. CASE Under(f, new)
  <2>1. Settings(f) \in 1 .. Len(f) /\ f[Settings(f)].text = "settings" /\ Len(new) = Len(f) + 1
    BY <1>1, <1>2, <1>5 DEF Under
  <2>2. \A i \in 1 .. Len(f) + 1 :
          new[i].text = IF i <= Settings(f) THEN f[i].text
                        ELSE IF i = Settings(f) + 1 THEN "on" ELSE f[i - 1].text
    BY <1>5, <2>1 DEF Under
  <2>3. Settings(f) \in 1 .. Len(new) - 1
    BY <1>1, <2>1
  <2>4. new[Settings(f)].text = "settings" /\ new[Settings(f) + 1].text = "on"
    BY <1>1, <2>1, <2>2
  <2>5. \A i \in 1 .. Len(new) : i < Settings(f) => new[i].text # "settings"
    BY <1>1, <1>2, <2>1, <2>2
  <2> QED BY <1>4, <2>3, <2>4, <2>5
<1>6. ASSUME NEW m \in Nat, AtEnd(f, new, m)
      PROVE  WithDebug(new) = new
  <2>1. Len(new) = m + 3 /\ \A i \in 1 .. Len(f) : f[i].text # "settings"
    BY <1>1, <1>2, <1>6 DEF AtEnd
  <2>2. m <= Len(f) + 1
    BY <1>1, <1>6, TrimmedIs DEF AtEnd
  <2>3. /\ new[m + 1].text = "settings" /\ new[m + 1 + 1].text = "on"
        /\ \A i \in 1 .. m : new[i].text = IF i < m THEN f[i].text ELSE "blank"
    BY <1>6 DEF AtEnd
  <2>4. \A i \in 1 .. Len(new) : i < m + 1 => new[i].text # "settings"
    BY <1>1, <2>1, <2>2, <2>3
  <2>5. m + 1 \in 1 .. Len(new) - 1
    BY <2>1
  <2> QED BY <1>4, <2>3, <2>4, <2>5
<1> QED BY <1>3, <1>5, <1>6 DEF Changed

-----------------------------------------------------------------------------
(* What WithDebug is for.                                                  *)

LEMMA WithDebugFile ==
  ASSUME NEW f, IsFile(f), f # Absent
  PROVE  IsFile(WithDebug(f))
<1> DEFINE new == WithDebug(f)
<1>1. new \in Seq(Part)
  BY WithDebugIs
<1>2. ASSUME new # Absent PROVE ~Last(new).cr
  <2>1. Len(new) \in Nat /\ Len(new) > 0
    BY <1>1, <1>2, EmptySeq DEF Absent
  <2>2. CASE new = f
    BY <2>2, FileIs DEF Last
  <2>3. CASE new # f
    <3>1. new[Len(new)].cr = (Crlf(f) /\ Len(new) < Len(new))
      BY <2>1, <2>3, WithDebugIs
    <3> HIDE DEF new
    <3>2. ~(Len(new) < Len(new))
      BY <2>1
    <3>3. ~new[Len(new)].cr
      BY <3>1, <3>2
    <3> QED BY <3>3 DEF Last
  <2> QED BY <2>2, <2>3
<1> QED BY <1>1, <1>2 DEF IsFile

\* WithDebug turns debug logging on in every config that has one [settings]
\* section and one debug key at most, as WakaTime reads it.
THEOREM WithDebugTurnsOn ==
  ASSUME NEW f, IsFile(f), f # Absent, Ordinary(f)
  PROVE  DebugOn(WithDebug(f))
BY WithDebugIs, TurnsOn

\* WithDebug finds nothing to change in what it wrote, whatever the config: a
\* second setup leaves it alone.
THEOREM WithDebugSettles ==
  ASSUME NEW f, IsFile(f), f # Absent
  PROVE  WithDebug(WithDebug(f)) = WithDebug(f)
BY WithDebugIs, WithDebugFile, Settled

-----------------------------------------------------------------------------
(* The invariant.                                                          *)

Edit == [ file: Files, time: Int, at: Nat ]

TypeOK ==
  /\ IsFile(cfg) /\ IsFile(read)
  /\ log \in Seq(LogLine) /\ now \in Int /\ lines \in Nat
  /\ setup \in { "idle", "write" } /\ promised \in BOOLEAN
  /\ owed \subseteq Edit

\* EnableDebug writes what it made of a config.
ReadThere == setup = "write" => read # Absent

\* Each line of the log begins after those before it; only a heartbeat is ever
\* in the course of being written.
LogInOrder ==
  /\ \A i, j \in DOMAIN log : i < j => log[i].at < log[j].at
  /\ \A i \in DOMAIN log : ~log[i].whole => log[i].beat

\* What has been promised is so, and each edit made under the promise is logged.
PromiseKept ==
  /\ promised => DebugOn(cfg)
  /\ \A e \in owed : \E i \in DOMAIN log :
       /\ log[i].beat /\ log[i].whole
       /\ log[i].file = e.file /\ log[i].time = e.time /\ log[i].at = e.at

FInv == TypeOK /\ ReadThere /\ LogInOrder /\ PromiseKept

LEMMA FInvInit == Init => FInv
<1> SUFFICES ASSUME Init PROVE FInv
  OBVIOUS
<1>1. IsFile(Absent)
  BY EmptySeq DEF IsFile, Absent
<1>2. IsFile(cfg) /\ lines \in Nat
  BY FollowAssumption DEF Init
<1>3. log \in Seq(LogLine) /\ DOMAIN log = {}
  BY DEF Init
<1>4. TypeOK
  <2>1. IsFile(read) /\ now \in Int /\ setup \in { "idle", "write" }
    BY <1>1 DEF Init
  <2>2. promised \in BOOLEAN /\ owed \subseteq Edit
    BY DEF Init
  <2> QED BY <1>2, <1>3, <2>1, <2>2 DEF TypeOK
<1>5. ReadThere /\ LogInOrder /\ PromiseKept
  BY <1>3 DEF Init, ReadThere, LogInOrder, PromiseKept
<1> QED BY <1>4, <1>5 DEF FInv

\* A line at the end of the log, which begins where the log ends.
LEMMA LineAdded ==
  ASSUME TypeOK, LogInOrder, NEW l \in LogLine, l.at = End(log), ~l.whole => l.beat
  PROVE  LET new == Append(log, l)
         IN  /\ new \in Seq(LogLine) /\ DOMAIN new = 1 .. Len(log) + 1
             /\ \A i \in DOMAIN log : i \in DOMAIN new /\ new[i] = log[i]
             /\ \A i, j \in DOMAIN new : i < j => new[i].at < new[j].at
             /\ \A i \in DOMAIN new : ~new[i].whole => new[i].beat
<1> DEFINE new == Append(log, l)
           n == Len(log)
<1>1. n \in Nat /\ DOMAIN log = 1 .. n /\ \A i \in 1 .. n : log[i] \in LogLine
  BY LenProperties, ElementOfSeq DEF TypeOK
<1>2. /\ new \in Seq(LogLine) /\ DOMAIN new = 1 .. n + 1
      /\ new[n + 1] = l /\ \A i \in 1 .. n : new[i] = log[i]
  BY AppendProperties, LenProperties DEF TypeOK
<1>3. \A i \in 1 .. n : log[i].at < l.at
  <2> SUFFICES ASSUME NEW i \in 1 .. n PROVE log[i].at < l.at
    OBVIOUS
  <2>1. n \in 1 .. n /\ log # << >>
    BY <1>1
  <2>2. l.at = log[n].at + Size(log[n]) /\ Size(log[n]) >= 1
    BY <2>1 DEF End, Last, Size
  <2>3. log[i].at \in Nat /\ log[n].at \in Nat /\ Size(log[n]) \in Nat
    BY <1>1, <2>1 DEF LogLine, Size
  <2>4. i = n \/ log[i].at < log[n].at
    <3>1. i \in DOMAIN log /\ n \in DOMAIN log /\ n \in Nat
      BY <1>1, <2>1
    <3> HIDE DEF n
    <3>2. i = n \/ i < n
      BY <3>1
    <3> QED BY <3>1, <3>2 DEF LogInOrder
  <2> QED BY <2>2, <2>3, <2>4
<1> HIDE DEF new
<1>4. ASSUME NEW i \in DOMAIN new, NEW j \in DOMAIN new, i < j
      PROVE  new[i].at < new[j].at
  <2>1. i \in 1 .. n
    BY <1>1, <1>2, <1>4
  <2>2. CASE j = n + 1
    BY <1>2, <1>3, <2>1, <2>2
  <2>3. CASE j # n + 1
    <3>1. j \in 1 .. n
      BY <1>1, <1>2, <2>3
    <3> QED BY <1>1, <1>2, <1>4, <2>1, <3>1 DEF LogInOrder
  <2> QED BY <2>2, <2>3
<1>5. ASSUME NEW i \in DOMAIN new, ~new[i].whole PROVE new[i].beat
  <2>1. CASE i = n + 1
    BY <1>2, <1>5, <2>1
  <2>2. CASE i # n + 1
    <3>1. i \in 1 .. n
      BY <1>1, <1>2, <2>2
    <3> QED BY <1>1, <1>2, <1>5, <3>1 DEF LogInOrder
  <2> QED BY <2>1, <2>2
<1>6. \A i \in DOMAIN log : i \in DOMAIN new /\ new[i] = log[i]
  BY <1>1, <1>2
<1> QED BY <1>2, <1>4, <1>5, <1>6 DEF new

LEMMA EndNat ==
  ASSUME TypeOK
  PROVE  End(log) \in Nat
<1>1. CASE log = << >>
  BY <1>1 DEF End
<1>2. CASE log # << >>
  <2>1. log[Len(log)] \in LogLine
    BY <1>2, EmptySeq, LenProperties, ElementOfSeq DEF TypeOK
  <2> QED BY <1>2, <2>1 DEF End, Last, Size, LogLine
<1> QED BY <1>1, <1>2

LEMMA BeatStep ==
  ASSUME FInv, NEW file \in Files, NEW time \in { now - 1, now }, Beat(file, time)
  PROVE  FInv'
<1> USE DEF FInv
<1>1. time \in Int
  BY DEF TypeOK
<1>2. /\ UNCHANGED << cfg, now, setupVars, promised >> /\ lines' = lines - 1 /\ lines' \in Nat
  BY DEF Beat, TypeOK
<1>3. CASE DebugOn(cfg)
  <2> DEFINE l == [ at |-> End(log), beat |-> TRUE, file |-> file,
                    time |-> time, whole |-> FALSE ]
  <2>1. log' = Append(log, l) /\ owed' = owed
    BY <1>3 DEF Beat
  <2>2. l \in LogLine /\ l.at = End(log) /\ l.beat
    BY <1>1, EndNat DEF LogLine
  <2> HIDE DEF l
  <2>3. /\ log' \in Seq(LogLine)
        /\ \A i \in DOMAIN log : i \in DOMAIN log' /\ log'[i] = log[i]
        /\ \A i, j \in DOMAIN log' : i < j => log'[i].at < log'[j].at
        /\ \A i \in DOMAIN log' : ~log'[i].whole => log'[i].beat
    BY <2>1, <2>2, LineAdded
  <2>4. TypeOK' /\ ReadThere' /\ LogInOrder'
    BY <1>2, <2>1, <2>3 DEF TypeOK, ReadThere, LogInOrder, setupVars
  <2>5. PromiseKept'
    BY <1>2, <2>1, <2>3 DEF PromiseKept
  <2> QED BY <2>4, <2>5
<1>4. CASE ~DebugOn(cfg)
  <2>1. owed' = owed /\ log' = log
    BY <1>4 DEF Beat, Due, PromiseKept
  <2> QED BY <1>2, <2>1 DEF TypeOK, ReadThere, LogInOrder, PromiseKept, setupVars
<1> QED BY <1>3, <1>4

LEMMA LoggedStep ==
  ASSUME FInv, Logged
  PROVE  FInv'
<1> USE DEF FInv
<1> DEFINE n == Len(log)
           l == [ log[n] EXCEPT !.whole = TRUE ]
<1>1. log # << >> /\ ~log[n].whole /\ log' = [ log EXCEPT ![n] = l ]
  BY DEF Logged, LastWhole, Last, ReplaceAt
<1>2. /\ n \in Nat /\ n \in 1 .. n /\ DOMAIN log = 1 .. n
      /\ \A i \in 1 .. n : log[i] \in LogLine
  BY <1>1, EmptySeq, LenProperties, ElementOfSeq DEF TypeOK
<1>3. log[n].beat
  BY <1>1, <1>2 DEF LogInOrder
<1>4. /\ l \in LogLine /\ l.whole /\ l.beat /\ l.at = log[n].at
      /\ l.file = log[n].file /\ l.time = log[n].time
  BY <1>2, <1>3 DEF LogLine
<1>5. owed' = owed \cup Due(l.file, l.time, l.at)
  BY <1>4 DEF Logged, Last
<1>6. UNCHANGED << cfg, now, setupVars, lines, promised >>
  BY DEF Logged
<1> HIDE DEF l
<1>7. /\ log' \in Seq(LogLine) /\ DOMAIN log' = 1 .. n
      /\ \A i \in 1 .. n : log'[i] = IF i = n THEN l ELSE log[i]
  BY <1>1, <1>2, <1>4, ExceptSeq, LenProperties DEF TypeOK
<1> HIDE DEF n
<1>8. TypeOK'
  <2>1. l.file \in Files /\ l.time \in Int /\ l.at \in Nat
    BY <1>4 DEF LogLine
  <2>2. Due(l.file, l.time, l.at) \subseteq Edit
    BY <2>1 DEF Due, Edit
  <2> QED BY <1>5, <1>6, <1>7, <2>2 DEF TypeOK, setupVars
<1>9. ReadThere'
  BY <1>6 DEF ReadThere, setupVars
<1>10. LogInOrder'
  <2>1. \A i \in 1 .. n : log'[i].at = log[i].at
    BY <1>4, <1>7
  <2>2. \A i \in 1 .. n : ~log'[i].whole => log'[i].beat
    BY <1>2, <1>4, <1>7 DEF LogInOrder
  <2> QED BY <1>2, <1>7, <2>1, <2>2 DEF LogInOrder
<1>11. PromiseKept'
  <2>1. ASSUME NEW e \in owed'
        PROVE  \E i \in DOMAIN log' :
                 /\ log'[i].beat /\ log'[i].whole
                 /\ log'[i].file = e.file /\ log'[i].time = e.time /\ log'[i].at = e.at
    <3>1. CASE e \in owed
      <4>1. PICK i \in 1 .. n :
              /\ log[i].beat /\ log[i].whole
              /\ log[i].file = e.file /\ log[i].time = e.time /\ log[i].at = e.at
        BY <1>2, <3>1 DEF PromiseKept
      <4>2. i # n
        BY <1>1, <4>1 DEF n
      <4> QED BY <1>7, <4>1, <4>2
    <3>2. CASE e \in Due(l.file, l.time, l.at)
      <4>1. e.file = l.file /\ e.time = l.time /\ e.at = l.at
        BY <3>2 DEF Due
      <4> QED BY <1>2, <1>4, <1>7, <4>1
    <3> QED BY <1>5, <3>1, <3>2
  <2>2. promised' => DebugOn(cfg')
    BY <1>6 DEF PromiseKept
  <2> QED BY <2>1, <2>2 DEF PromiseKept
<1> QED BY <1>8, <1>9, <1>10, <1>11

LEMMA NoiseStep ==
  ASSUME FInv, Noise
  PROVE  FInv'
<1> USE DEF FInv
<1> DEFINE l == [ at |-> End(log), beat |-> FALSE, file |-> CHOOSE f \in Files : TRUE,
                  time |-> 0, whole |-> TRUE ]
<1>1. /\ log' = Append(log, l) /\ lines' = lines - 1 /\ lines' \in Nat
      /\ UNCHANGED << cfg, now, setupVars, promised, owed >>
  BY DEF Noise, TypeOK
<1>2. l \in LogLine /\ l.at = End(log) /\ l.whole
  <2>1. (CHOOSE f \in Files : TRUE) \in Files
    BY ProjectsAssumption
  <2> QED BY <2>1, EndNat DEF LogLine
<1> HIDE DEF l
<1>3. /\ log' \in Seq(LogLine)
      /\ \A i \in DOMAIN log : i \in DOMAIN log' /\ log'[i] = log[i]
      /\ \A i, j \in DOMAIN log' : i < j => log'[i].at < log'[j].at
      /\ \A i \in DOMAIN log' : ~log'[i].whole => log'[i].beat
  BY <1>1, <1>2, LineAdded
<1>4. TypeOK' /\ ReadThere' /\ LogInOrder'
  BY <1>1, <1>3 DEF TypeOK, ReadThere, LogInOrder, setupVars
<1>5. PromiseKept'
  BY <1>1, <1>3 DEF PromiseKept
<1> QED BY <1>4, <1>5

LEMMA FInvStep ==
  ASSUME FInv, [Next]_vars
  PROVE  FInv'
<1> USE DEF FInv
<1>1. CASE EnableRead
  <2>1. IsFile(cfg) /\ cfg # Absent
    BY <1>1 DEF EnableRead, TypeOK
  <2>2. CASE WithDebug(cfg) = cfg
    <3>1. promised' = Ordinary(cfg) /\ (promised' => DebugOn(cfg))
      BY <1>1, <2>1, <2>2, WithDebugTurnsOn DEF EnableRead
    <3> QED BY <1>1, <2>2, <3>1 DEF EnableRead, TypeOK, ReadThere, LogInOrder, PromiseKept,
              setupVars, Ordinary
  <2>3. CASE WithDebug(cfg) # cfg
    BY <1>1, <2>1, <2>3 DEF EnableRead, TypeOK, ReadThere, LogInOrder, PromiseKept
  <2> QED BY <2>2, <2>3
<1>2. CASE EnableWrite
  <2>1. IsFile(read) /\ read # Absent
    BY <1>2 DEF EnableWrite, TypeOK, ReadThere
  <2>2. IsFile(cfg') /\ (promised' => DebugOn(cfg'))
    BY <1>2, <2>1, WithDebugFile, WithDebugTurnsOn DEF EnableWrite
  <2>3. IsFile(Absent)
    BY EmptySeq DEF IsFile, Absent
  <2> QED BY <1>2, <2>2, <2>3 DEF EnableWrite, TypeOK, ReadThere, LogInOrder, PromiseKept,
            Ordinary
<1>3. CASE EnableFails
  <2>1. IsFile(Absent) /\ IsFile(<< Line("blank") >>)
    BY EmptySeq DEF IsFile, Absent, Line, Part, Texts, Last
  <2> QED BY <1>3, <2>1 DEF EnableFails, TypeOK, ReadThere, LogInOrder, PromiseKept
<1>4. CASE EditCfg
  <2>1. IsFile(cfg')
    BY <1>4, FollowAssumption DEF EditCfg
  <2> QED BY <1>4, <2>1 DEF EditCfg, TypeOK, ReadThere, LogInOrder, PromiseKept, setupVars
<1>5. ASSUME NEW file \in Files, NEW time \in { now - 1, now }, Beat(file, time)
      PROVE  FInv'
  BY <1>5, BeatStep
<1>6. CASE Logged
  BY <1>6, LoggedStep
<1>7. CASE Noise
  BY <1>7, NoiseStep
<1>8. CASE Pass
  BY <1>8 DEF Pass, TypeOK, ReadThere, LogInOrder, PromiseKept, setupVars
<1>9. CASE UNCHANGED vars
  BY <1>9 DEF vars, TypeOK, ReadThere, LogInOrder, PromiseKept, setupVars
<1> QED BY <1>1, <1>2, <1>3, <1>4, <1>5, <1>6, <1>7, <1>8, <1>9 DEF Next

\* Types: every config in play is a file, every line of the log a line, and
\* what is owed are edits.
THEOREM FollowTypeCorrect == Spec => []TypeOK
<1>1. FInv => TypeOK
  BY DEF FInv
<1> QED BY <1>1, FInvInit, FInvStep, PTL DEF Spec

-----------------------------------------------------------------------------
(* The properties.                                                         *)

\* Once EnableDebug has returned, debug logging is on until somebody else writes
\* the config, and the lookup finds the repository of every recent edit since
\* that is in the tail, however long the log and whatever else is in it.
THEOREM EditsAreFollowed == Spec => []EditsFollowed
<1>1. ASSUME FInv PROVE EditsFollowed
  <2> USE <1>1 DEF FInv
  <2> DEFINE kept == recentHeartbeats(log, Since)
  <2>1. Since \in Int /\ log \in Seq(LogLine)
    BY FollowAssumption DEF Since, TypeOK
  <2>2. ASSUME NEW e \in owed, NEW d \in Around(e.file), InRepo(e.file, d), d # Home,
               Len(e.file) - Len(d) <= MaxWalkUp, e.time >= Since, End(log) - e.at < TailUnits
        PROVE  d \in ToSet(Looked)
    <3>1. PICK i \in DOMAIN log :
            /\ log[i].beat /\ log[i].whole
            /\ log[i].file = e.file /\ log[i].time = e.time /\ log[i].at = e.at
      BY DEF PromiseKept
    <3>2. e.file \in Files /\ e.time \in Int /\ e.at \in Nat
      BY DEF TypeOK, Edit
    <3>3. Unix(e.time) >= Unix(Since)
      BY <2>1, <2>2, <3>2, UnixGrows
    <3>4. i \in LinesRead(log)
      BY <2>2, <3>1, <3>2, EndNat, ProjectsAssumption DEF LinesRead
    <3>5. i \in kept
      BY <3>1, <3>3, <3>4 DEF recentHeartbeats
    <3>6. d \in repoRoot(log[i].file)
      BY <2>2, <3>1, <3>2, RootOf
    <3>7. 1 <= i
      BY <2>1, LenProperties
    <3>8. Kept(log, Since, 1, d) # {}
      BY <3>5, <3>6, <3>7 DEF Kept
    <3> QED BY <2>1, <3>8, RecentIsNewest DEF Newest, Looked
  <2>3. promised => DebugOn(cfg)
    BY DEF PromiseKept
  <2> QED BY <2>2, <2>3 DEF EditsFollowed
<1> QED BY <1>1, FInvInit, FInvStep, PTL DEF Spec

\* What the lookup returns at any moment is where heartbeats in the log say an
\* edit was, since then or less than a second before, and the newest first.
THEOREM LookupIsTrue == Spec => []LookupTrue
<1>1. ASSUME FInv PROVE LookupTrue
  <2> USE <1>1 DEF FInv
  <2> DEFINE edits(d, slack) ==
        { i \in DOMAIN log : /\ log[i].beat /\ log[i].whole /\ InRepo(log[i].file, d)
                             /\ Len(log[i].file) - Len(d) <= MaxWalkUp
                             /\ log[i].time > Since - slack }
             K(d) == Kept(log, Since, 1, d)
  <2>1. /\ Since \in Int /\ log \in Seq(LogLine) /\ Len(log) \in Nat
        /\ DOMAIN log = 1 .. Len(log) /\ \A i \in DOMAIN log : log[i] \in LogLine
    BY FollowAssumption, LenProperties, ElementOfSeq DEF Since, TypeOK
  <2>2. /\ \A d : d \in ToSet(Looked) <=> K(d) # {}
        /\ \A a, b \in DOMAIN Looked :
             a < b => \E m \in K(Looked[a]) : \A n \in K(Looked[b]) : m > n
    BY <2>1, RecentIsNewest DEF Newest, Looked
  <2>3. ASSUME NEW d, NEW m \in K(d)
        PROVE  m \in edits(d, Second) /\ d # Home /\ m \in LinesRead(log)
    <3>1. /\ m \in DOMAIN log /\ m \in LinesRead(log) /\ d \in repoRoot(log[m].file)
          /\ log[m].beat /\ log[m].whole /\ Unix(log[m].time) >= Unix(Since)
      BY DEF Kept, recentHeartbeats, LinesRead
    <3>2. log[m].file \in Files /\ log[m].time \in Int
      BY <2>1, <3>1 DEF LogLine
    <3>3. InRepo(log[m].file, d) /\ d # Home /\ Len(log[m].file) - Len(d) <= MaxWalkUp
      BY <3>1, <3>2, RootOf
    <3>4. log[m].time > Since - Second
      BY <2>1, <3>1, <3>2, UnixApart
    <3> QED BY <3>1, <3>3, <3>4
  <2>4. ASSUME NEW d, d # Home, NEW n \in edits(d, 1), n \in LinesRead(log)
        PROVE  n \in K(d)
    <3>1. n \in DOMAIN log /\ log[n].file \in Files /\ log[n].time \in Int /\ n >= 1
      BY <2>1 DEF LogLine
    <3>2. log[n].time >= Since
      BY <2>1, <3>1
    <3>3. Unix(log[n].time) >= Unix(Since)
      BY <2>1, <3>1, <3>2, UnixGrows
    <3>4. d \in repoRoot(log[n].file)
      BY <2>4, <3>1, RootOf
    <3> QED BY <2>4, <3>1, <3>3, <3>4 DEF Kept, recentHeartbeats
  <2>5. ASSUME NEW m \in LinesRead(log), NEW n \in DOMAIN log, n \notin LinesRead(log)
        PROVE  m > n
    <3>1. /\ m \in DOMAIN log /\ log[m].at \in Nat /\ log[n].at \in Nat
          /\ End(log) \in Nat /\ TailUnits \in Nat
      BY <2>1, EndNat, ProjectsAssumption DEF LinesRead, LogLine
    <3>2. log[n].at <= End(log) - TailUnits /\ log[m].at > End(log) - TailUnits
      BY <2>5, <3>1 DEF LinesRead
    <3>3. log[n].at < log[m].at
      BY <3>1, <3>2
    <3>4. ~(m < n) /\ m # n
      BY <3>1, <3>3 DEF LogInOrder
    <3> QED BY <2>1, <3>1, <3>4
  <2> HIDE DEF edits, K
  <2>6. ASSUME NEW i \in DOMAIN Looked
        PROVE  Looked[i] # Home /\ edits(Looked[i], Second) # {}
    <3>1. K(Looked[i]) # {}
      BY <2>2 DEF ToSet
    <3> QED BY <2>3, <3>1
  <2>7. ASSUME NEW i \in DOMAIN Looked, NEW j \in DOMAIN Looked, i < j
        PROVE  \E m \in edits(Looked[i], Second) : \A n \in edits(Looked[j], 1) : m > n
    <3>1. PICK m \in K(Looked[i]) : \A n \in K(Looked[j]) : m > n
      BY <2>2, <2>7
    <3>2. m \in edits(Looked[i], Second) /\ m \in LinesRead(log)
      BY <2>3
    <3>3. ASSUME NEW n \in edits(Looked[j], 1) PROVE m > n
      <4>1. n \in DOMAIN log
        BY DEF edits
      <4>2. CASE n \in LinesRead(log)
        BY <2>4, <2>6, <3>1, <4>2
      <4>3. CASE n \notin LinesRead(log)
        BY <2>5, <3>2, <4>1, <4>3
      <4> QED BY <4>2, <4>3
    <3> QED BY <3>2, <3>3
  <2> QED BY <2>6, <2>7 DEF LookupTrue, edits
<1> QED BY <1>1, FInvInit, FInvStep, PTL DEF Spec

\* EnableDebug changes one key of the config it finds and nothing else, but for
\* the line ends of a file that has both kinds, if nobody writes in between.
THEOREM OthersAreKept == Spec => OthersKept
<1> DEFINE Only == EnableWrite /\ cfg = read =>
             /\ OneKey(cfg, cfg')
             /\ Uniform(cfg) /\ Len(cfg) > 1 =>
                  \A i \in 1 .. Len(cfg') - 1 : cfg'[i].cr = cfg[1].cr
<1>1. ASSUME FInv PROVE Only
  <2> SUFFICES ASSUME EnableWrite, cfg = read
               PROVE  /\ OneKey(cfg, cfg')
                      /\ Uniform(cfg) /\ Len(cfg) > 1 =>
                           \A i \in 1 .. Len(cfg') - 1 : cfg'[i].cr = cfg[1].cr
    OBVIOUS
  <2>1. IsFile(cfg) /\ cfg # Absent /\ cfg' = WithDebug(cfg)
    BY <1>1 DEF EnableWrite, FInv, TypeOK, ReadThere
  <2>2. WithDebug(cfg) \in Seq(Part) /\ Changed(cfg, WithDebug(cfg))
    BY <2>1, WithDebugIs
  <2>3. OneKey(cfg, WithDebug(cfg))
    BY <2>1, <2>2, ChangesOneKey
  <2> QED BY <2>1, <2>3, EndsKept
<1> QED BY <1>1, FInvInit, FInvStep, PTL DEF Spec, OthersKept

=============================================================================
