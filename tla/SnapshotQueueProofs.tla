------------------------- MODULE SnapshotQueueProofs -------------------------
(***************************************************************************)
(* Proofs about the durable queue, for every cap and every set of blobs.   *)
(***************************************************************************)
EXTENDS SnapshotQueue, SequenceTheorems, FiniteSetTheorems, TLAPS

-----------------------------------------------------------------------------
(* Facts about Oldest.                                                     *)

\* In an unbroken run of keys, a key's rank is its distance from the first.
LEMMA RankInRun ==
  ASSUME NEW lo \in Int, NEW hi \in Int, NEW k \in lo .. hi
  PROVE  Cardinality({ j \in lo .. hi : j < k }) = k - lo
<1>1. { j \in lo .. hi : j < k } = lo .. k - 1
  OBVIOUS
<1>2. Cardinality(lo .. k - 1) = k - lo
  <2>1. k - 1 \in Int /\ lo - 1 <= k - 1 /\ (k - 1) - lo + 1 = k - lo
    OBVIOUS
  <2>2. CASE lo > k - 1
    <3>1. k = lo
      BY <2>1, <2>2
    <3> QED BY <2>1, <2>2, <3>1, FS_Interval
  <2>3. CASE lo <= k - 1
    BY <2>1, <2>3, FS_Interval
  <2> QED BY <2>1, <2>2, <2>3
<1> QED BY <1>1, <1>2

\* So the n oldest keys of a run are its first n members.
LEMMA OldestOfRun ==
  ASSUME NEW lo \in Int, NEW hi \in Int, NEW n \in Nat
  PROVE  Oldest(lo .. hi, n) = { k \in lo .. hi : k < lo + n }
<1>1. \A k \in lo .. hi : Cardinality({ j \in lo .. hi : j < k }) = k - lo
  BY RankInRun
<1>2. \A k \in lo .. hi : k - lo < n <=> k < lo + n
  OBVIOUS
<1> QED BY <1>1, <1>2, Zenon DEF Oldest

\* Oldest never selects more than n members of a finite set of keys: ranks are
\* distinct, and those selected lie in 0 .. n - 1.
LEMMA OldestAtMost ==
  ASSUME NEW K \in SUBSET Int, IsFiniteSet(K), NEW n \in Nat
  PROVE  /\ IsFiniteSet(Oldest(K, n))
         /\ Cardinality(Oldest(K, n)) \in 0 .. n
<1> DEFINE Below(k) == { j \in K : j < k }
           Old == Oldest(K, n)
           rank == [ k \in Old |-> Cardinality(Below(k)) ]
<1>1. \A k \in K : IsFiniteSet(Below(k)) /\ Cardinality(Below(k)) \in Nat
  BY FS_Subset, FS_CardinalityType
<1>2. Old \subseteq K
  BY DEF Oldest
<1>3. ASSUME NEW a \in K, NEW b \in K, a < b
      PROVE  Cardinality(Below(a)) < Cardinality(Below(b))
  <2>1. Below(a) \cup { a } \subseteq Below(b) /\ a \notin Below(a)
    <3>1. a \in Int /\ b \in Int /\ \A j \in K : j \in Int
      OBVIOUS
    <3>2. \A j \in K : j < a => j < b
      BY <1>3, <3>1
    <3>3. ~(a < a)
      BY <3>1
    <3> QED BY <1>3, <3>2, <3>3, Zenon
  <2>2. Cardinality(Below(a) \cup { a }) = Cardinality(Below(a)) + 1
    BY <1>1, <2>1, FS_AddElement
  <2>3. Cardinality(Below(a) \cup { a }) <= Cardinality(Below(b))
    BY <1>1, <2>1, FS_Subset
  <2> QED BY <1>1, <2>2, <2>3
<1>4. rank \in [ Old -> 0 .. n - 1 ]
  <2>1. ASSUME NEW k \in Old
        PROVE  Cardinality(Below(k)) \in 0 .. n - 1
    <3>1. k \in K /\ Cardinality(Below(k)) < n
      BY DEF Oldest
    <3>2. Cardinality(Below(k)) \in Nat
      BY <1>1, <3>1
    <3> QED BY <3>1, <3>2
  <2> QED BY <2>1
<1>5. rank \in Injection(Old, 0 .. n - 1)
  <2>1. ASSUME NEW a \in Old, NEW b \in Old, rank[a] = rank[b]
        PROVE  a = b
    <3>1. a \in Int /\ b \in Int
      BY <1>2
    <3>2. Cardinality(Below(a)) = Cardinality(Below(b))
      BY <2>1
    <3>3. a \in K /\ b \in K /\ Cardinality(Below(a)) \in Nat
      BY <1>1, <1>2
    <3>4. ~(a < b)
      BY <1>3, <3>2, <3>3
    <3>5. ~(b < a)
      BY <1>3, <3>2, <3>3
    <3> QED BY <3>1, <3>4, <3>5
  <2> QED BY <1>4, <2>1, Zenon DEF Injection, IsInjective
<1>6. IsFiniteSet(0 .. n - 1) /\ Cardinality(0 .. n - 1) = n
  BY FS_Interval
<1>7. IsFiniteSet(Old) /\ Cardinality(Old) <= n
  BY <1>5, <1>6, FS_Injection
<1> QED BY <1>7, FS_CardinalityType

-----------------------------------------------------------------------------
Blobs == seq \in Nat /\ kv \in [ Keys -> Entry ]

\* The inductive invariant: the keys are an unbroken run that ends at the
\* counter, and no longer than the cap.
QueueInv ==
  /\ Blobs
  /\ \E lo \in 1 .. seq + 1 : Keys = lo .. seq /\ seq - lo + 1 <= MaxEntries

LEMMA QueueInvTypes == QueueInv => QueueTypeOK
BY DEF QueueInv, QueueTypeOK, Blobs

LEMMA PushPreserves ==
  ASSUME QueueInv, NEW e \in Entry, Push(e)
  PROVE  QueueInv'
<1> USE QueueAssumption DEF Blobs, Keys
<1>1. PICK lo \in 1 .. seq + 1 : Keys = lo .. seq /\ seq - lo + 1 <= MaxEntries
  BY DEF QueueInv
<1>2. seq \in Nat /\ seq' = seq + 1
  BY DEF QueueInv, Push
<1> DEFINE Kept == { j \in Keys \cup { seq + 1 } : (seq + 1) - j + 1 <= MaxEntries }
<1>3. kv' = [ k \in Kept |-> IF k = seq + 1 THEN e ELSE kv[k] ]
  BY DEF Push
<1>4. Keys' = Kept
  BY <1>3
<1>5. Blobs'
  <2>1. ASSUME NEW k \in Kept
        PROVE  (IF k = seq + 1 THEN e ELSE kv[k]) \in Entry
    BY DEF QueueInv
  <2> QED BY <1>2, <1>3, <2>1
<1>6. CASE seq - lo + 1 < MaxEntries
  <2>1. Kept = lo .. seq + 1
    BY <1>1, <1>2, <1>6
  <2>2. lo \in 1 .. seq' + 1 /\ seq' - lo + 1 <= MaxEntries
    BY <1>2, <1>6
  <2>3. Keys' = lo .. seq'
    BY <1>2, <1>4, <2>1
  <2> QED BY <1>5, <2>2, <2>3 DEF QueueInv
<1>7. CASE seq - lo + 1 = MaxEntries
  <2>1. Kept = lo + 1 .. seq + 1
    BY <1>1, <1>2, <1>7
  <2>2. lo + 1 \in 1 .. seq' + 1 /\ seq' - (lo + 1) + 1 <= MaxEntries
    BY <1>2, <1>7
  <2>3. Keys' = lo + 1 .. seq'
    BY <1>2, <1>4, <2>1
  <2> QED BY <1>5, <2>2, <2>3 DEF QueueInv
<1> QED BY <1>1, <1>2, <1>6, <1>7

LEMMA AckPreserves ==
  ASSUME QueueInv, NEW n \in Nat, Ack(n)
  PROVE  QueueInv'
<1> USE QueueAssumption DEF Blobs, Keys
<1>1. PICK lo \in 1 .. seq + 1 : Keys = lo .. seq /\ seq - lo + 1 <= MaxEntries
  BY DEF QueueInv
<1>2. seq \in Nat /\ seq' = seq
  BY DEF QueueInv, Ack
<1> DEFINE Kept == Keys \ Oldest(Keys, n)
<1>3. kv' = [ k \in Kept |-> kv[k] ]
  BY DEF Ack, Restrict
<1>4. Keys' = Kept
  BY <1>3
<1>5. Kept = { k \in lo .. seq : lo + n <= k }
  BY <1>1, <1>2, OldestOfRun
<1>6. Blobs'
  BY <1>2, <1>3, <1>4 DEF QueueInv
<1>7. CASE lo + n <= seq + 1
  <2>1. Kept = lo + n .. seq
    BY <1>1, <1>2, <1>5, <1>7
  <2>2. lo + n \in 1 .. seq' + 1 /\ seq' - (lo + n) + 1 <= MaxEntries
    BY <1>1, <1>2, <1>7
  <2>3. Keys' = lo + n .. seq'
    BY <1>2, <1>4, <2>1
  <2> QED BY <1>6, <2>2, <2>3 DEF QueueInv
<1>8. CASE lo + n > seq + 1
  <2>1. Keys' = seq' + 1 .. seq'
    BY <1>1, <1>2, <1>4, <1>5, <1>8
  <2>2. seq' + 1 \in 1 .. seq' + 1 /\ seq' - (seq' + 1) + 1 <= MaxEntries
    BY <1>2
  <2> QED BY <1>6, <2>1, <2>2 DEF QueueInv
<1> QED BY <1>2, <1>7, <1>8
-----------------------------------------------------------------------------
\* Every state of the queue satisfies the inductive invariant.
LEMMA QueueInvariance == QueueSpec => []QueueInv
<1>1. QueueInit => QueueInv
  <2>1. SUFFICES ASSUME QueueInit
                 PROVE  QueueInv
    OBVIOUS
  <2>2. Keys = 1 .. 0 /\ seq = 0
    BY <2>1 DEF QueueInit, Keys
  <2>3. kv \in [ Keys -> Entry ]
    BY <2>1, <2>2 DEF QueueInit, Keys
  <2>4. 1 \in 1 .. seq + 1 /\ Keys = 1 .. seq /\ seq - 1 + 1 <= MaxEntries
    BY <2>2, QueueAssumption
  <2> QED BY <2>2, <2>3, <2>4 DEF QueueInv, Blobs
<1>2. QueueInv /\ [QueueNext]_qvars => QueueInv'
  <2>1. SUFFICES ASSUME QueueInv, [QueueNext]_qvars
                 PROVE  QueueInv'
    OBVIOUS
  <2>2. ASSUME NEW e \in Entry, Push(e)
        PROVE  QueueInv'
    BY <2>1, <2>2, PushPreserves
  <2>3. ASSUME NEW n \in 0 .. MaxEntries + 1, Ack(n)
        PROVE  QueueInv'
    BY <2>1, <2>3, AckPreserves
  <2>4. CASE UNCHANGED qvars
    BY <2>1, <2>4 DEF QueueInv, Blobs, Keys, qvars
  <2> QED BY <2>1, <2>2, <2>3, <2>4 DEF QueueNext
<1> QED BY <1>1, <1>2, PTL DEF QueueSpec

\* Type correctness of the bucket.
THEOREM QueueTypeCorrect == QueueSpec => []QueueTypeOK
<1>1. QueueInv => QueueTypeOK
  BY QueueInvTypes
<1> QED BY <1>1, QueueInvariance, PTL

\* The comment in Push holds: the keys in use are one unbroken run.
THEOREM KeysUnbroken == QueueSpec => []Unbroken
<1>1. QueueInv => Unbroken
  BY DEF QueueInv, Unbroken
<1> QED BY <1>1, QueueInvariance, PTL

\* A non-empty run is as long as the distance between its ends says; this and
\* the cap on that distance bound the number of entries.
LEMMA RunLength ==
  ASSUME QueueInv
  PROVE  IsFiniteSet(Keys) /\ Keys \subseteq Int /\ Cardinality(Keys) <= MaxEntries
<1>1. PICK lo \in 1 .. seq + 1 : Keys = lo .. seq /\ seq - lo + 1 <= MaxEntries
  BY DEF QueueInv
<1>2. seq \in Int /\ lo \in Int /\ MaxEntries \in Nat
  BY QueueAssumption DEF QueueInv, Blobs
<1>3. Cardinality(Keys) = IF lo > seq THEN 0 ELSE seq - lo + 1
  BY <1>1, <1>2, FS_Interval
<1>4. IsFiniteSet(Keys)
  BY <1>1, <1>2, FS_Interval
<1>5. Cardinality(Keys) <= MaxEntries
  BY <1>1, <1>2, <1>3
<1> QED BY <1>1, <1>4, <1>5

\* The cap holds, though Push enforces it on the distance between keys.
THEOREM CapRespected == QueueSpec => []Bounded
<1>1. QueueInv => Bounded
  BY RunLength DEF Bounded
<1> QED BY <1>1, QueueInvariance, PTL

\* Acking as many entries as Drain returned retires no readable entry that
\* Drain did not return, wherever unreadable ones are mixed in: a readable key
\* outside the batch has at least n readable keys below it, so its rank among
\* all keys is no smaller than the batch.
LEMMA AckedWereDrained ==
  ASSUME QueueInv, NEW n \in Nat,
         NEW k \in Oldest(Keys, Cardinality(DOMAIN Drain(n))), kv[k] \in Readable
  PROVE  k \in DOMAIN Drain(n)
<1> DEFINE R == { j \in Keys : kv[j] \in Readable }
           D == Oldest(R, n)
           Lower == { j \in Keys : j < k }
           LowerR == { j \in R : j < k }
<1>1. SUFFICES ASSUME k \notin DOMAIN Drain(n)
               PROVE  FALSE
  OBVIOUS
<1>2. DOMAIN Drain(n) = D
  BY DEF Drain, Restrict
<1>3. IsFiniteSet(Keys) /\ Keys \subseteq Int
  BY RunLength
<1>4. R \in SUBSET Int /\ IsFiniteSet(R)
  BY <1>3, FS_Subset
<1>5. Cardinality(D) \in 0 .. n
  BY <1>4, OldestAtMost
<1>6. k \in R /\ Cardinality(Lower) < Cardinality(D)
  BY <1>2 DEF Oldest
<1>7. ~(Cardinality(LowerR) < n)
  BY <1>1, <1>2, <1>6 DEF Oldest
<1>8. IsFiniteSet(Lower) /\ Lower \subseteq Keys /\ LowerR \subseteq Lower
  BY <1>3, FS_Subset
<1>9. Cardinality(LowerR) <= Cardinality(Lower)
  BY <1>8, FS_Subset
<1>10. Cardinality(LowerR) \in Nat /\ Cardinality(Lower) \in Nat
  BY <1>8, FS_Subset, FS_CardinalityType
<1> QED BY <1>5, <1>6, <1>7, <1>9, <1>10

\* So in every state an ack is safe.
THEOREM AckIsSafe == QueueSpec => []AckRetiresOnlyDrained
<1>1. QueueInv => AckRetiresOnlyDrained
  BY AckedWereDrained, QueueAssumption DEF AckRetiresOnlyDrained
<1> QED BY <1>1, QueueInvariance, PTL

-----------------------------------------------------------------------------
\* What a Push leaves in the queue: everything within the cap of the new key,
\* which is the largest; and it deletes only from a queue that stays full.
LEMMA PushLeaves ==
  ASSUME QueueInv, NEW e \in Entry, Push(e)
  PROVE  /\ Keys \subseteq Int /\ Keys' \subseteq Keys \cup { seq + 1 }
         /\ seq + 1 \in Keys' /\ kv'[seq + 1] = e
         /\ \A k \in Keys : k <= seq
         /\ \A k \in Keys \cap Keys' : kv'[k] = kv[k]
         /\ \A j \in Keys \ Keys', k \in Keys' : j < k
         /\ Keys \ Keys' # {} => Cardinality(Keys') = MaxEntries
<1> USE QueueAssumption DEF Blobs, Keys
<1>1. PICK lo \in 1 .. seq + 1 : Keys = lo .. seq /\ seq - lo + 1 <= MaxEntries
  BY DEF QueueInv
<1>2. seq \in Nat /\ seq' = seq + 1
  BY DEF QueueInv, Push
<1> DEFINE Kept == { j \in Keys \cup { seq + 1 } : (seq + 1) - j + 1 <= MaxEntries }
<1>3. kv' = [ k \in Kept |-> IF k = seq + 1 THEN e ELSE kv[k] ]
  BY DEF Push
<1>4. Keys' = Kept
  BY <1>3
<1>5. Keys \subseteq Int /\ \A k \in Keys : k <= seq
  BY <1>1, <1>2
<1>6. Kept \subseteq Keys \cup { seq + 1 } /\ seq + 1 \in Kept
  BY <1>2
<1>7. \A k \in Keys \cap Kept : kv'[k] = kv[k]
  BY <1>2, <1>3, <1>5
<1>8. \A j \in Keys \ Kept, k \in Kept : j < k
  BY <1>2, <1>5
<1>9. ASSUME NEW j \in Keys \ Kept
      PROVE  Cardinality(Kept) = MaxEntries
  <2>1. j = lo /\ (seq + 1) - lo + 1 = MaxEntries + 1
    <3>1. j \in Keys /\ j # seq + 1 /\ ~((seq + 1) - j + 1 <= MaxEntries)
      BY <1>5, <1>9, <1>2
    <3>2. j \in Int /\ lo \in Int /\ lo <= j /\ j <= seq /\ MaxEntries \in Int
      BY <1>1, <1>2, <3>1
    <3> QED BY <1>1, <1>2, <3>1, <3>2
  <2>2. Kept = lo + 1 .. seq + 1
    BY <1>1, <1>2, <2>1
  <2>3. lo + 1 \in Int /\ seq + 1 \in Int /\ lo + 1 <= seq + 1
    BY <1>2, <2>1
  <2>4. Cardinality(lo + 1 .. seq + 1) = (seq + 1) - (lo + 1) + 1
    BY <2>3, FS_Interval
  <2>5. (seq + 1) - (lo + 1) + 1 = MaxEntries
    BY <1>2, <2>1
  <2> QED BY <2>2, <2>4, <2>5, Zenon
<1>10. kv'[seq + 1] = e
  BY <1>3, <1>6
<1> QED BY <1>4, <1>5, <1>6, <1>7, <1>8, <1>9, <1>10

-----------------------------------------------------------------------------
(* The bucket as a bounded buffer.                                         *)

\* The values of f on a run of keys, in order.
Run(f, lo, hi) == [ i \in 1 .. hi - lo + 1 |-> f[lo + i - 1] ]

\* The listing of a run of keys goes through it from its first key.
LEMMA ListingOfRun ==
  ASSUME NEW lo \in Int, NEW hi \in Int, lo <= hi + 1, NEW f, DOMAIN f = lo .. hi
  PROVE  [ i \in 1 .. Cardinality(DOMAIN f) |->
             f[CHOOSE k \in DOMAIN f : Cardinality({ j \in DOMAIN f : j < k }) = i - 1] ]
         = Run(f, lo, hi)
<1> DEFINE nth(i) == CHOOSE k \in lo .. hi : Cardinality({ j \in lo .. hi : j < k }) = i - 1
<1>1. Cardinality(lo .. hi) = hi - lo + 1
  BY FS_Interval
<1>2. ASSUME NEW i \in 1 .. hi - lo + 1
      PROVE  nth(i) = lo + i - 1
  <2>1. \A k \in lo .. hi : Cardinality({ j \in lo .. hi : j < k }) = k - lo
    BY RankInRun
  <2>2. lo + i - 1 \in lo .. hi /\ (lo + i - 1) - lo = i - 1
    OBVIOUS
  <2>3. Cardinality({ j \in lo .. hi : j < lo + i - 1 }) = i - 1
    BY <2>1, <2>2
  <2>4. nth(i) \in lo .. hi /\ Cardinality({ j \in lo .. hi : j < nth(i) }) = i - 1
    BY <2>2, <2>3
  <2>5. nth(i) - lo = i - 1
    BY <2>1, <2>4
  <2> HIDE DEF nth
  <2> QED BY <2>4, <2>5
<1>3. [ i \in 1 .. hi - lo + 1 |-> f[nth(i)] ] = [ i \in 1 .. hi - lo + 1 |-> f[lo + i - 1] ]
  <2> HIDE DEF nth
  <2> QED BY <1>2
<1> QED BY <1>1, <1>3, Zenon DEF Run

LEMMA RunIsSeq ==
  ASSUME NEW lo \in Int, NEW hi \in Int, lo <= hi + 1, NEW f,
         \A k \in lo .. hi : f[k] \in Entry
  PROVE  /\ Run(f, lo, hi) \in Seq(Entry)
         /\ Len(Run(f, lo, hi)) = hi - lo + 1
         /\ \A i \in 1 .. hi - lo + 1 : Run(f, lo, hi)[i] = f[lo + i - 1]
<1> DEFINE n == hi - lo + 1
<1>1. n \in Nat
  OBVIOUS
<1>2. \A i \in 1 .. n : f[lo + i - 1] \in Entry
  <2> TAKE i \in 1 .. n
  <2>1. lo + i - 1 \in lo .. hi
    OBVIOUS
  <2> QED BY <2>1
<1>3. Run(f, lo, hi) \in [ 1 .. n -> Entry ]
  BY <1>2 DEF Run
<1> QED BY <1>1, <1>3 DEF Run

\* Two runs read off the same values are the same sequence.
LEMMA RunShift ==
  ASSUME NEW lo \in Int, NEW hi \in Int, NEW f,
         NEW lo2 \in Int, NEW hi2 \in Int, NEW g,
         hi - lo = hi2 - lo2, \A i \in 1 .. hi - lo + 1 : f[lo + i - 1] = g[lo2 + i - 1]
  PROVE  Run(f, lo, hi) = Run(g, lo2, hi2)
<1>1. hi - lo + 1 = hi2 - lo2 + 1
  OBVIOUS
<1> QED BY <1>1, Zenon DEF Run

\* A run one key longer is the shorter one with its last value appended.
LEMMA RunAppend ==
  ASSUME NEW lo \in Int, NEW hi \in Int, lo <= hi + 1, NEW f,
         \A k \in lo .. hi + 1 : f[k] \in Entry
  PROVE  Run(f, lo, hi + 1) = Append(Run(f, lo, hi), f[hi + 1])
<1> DEFINE r == Run(f, lo, hi)
           s == Run(f, lo, hi + 1)
           n == hi - lo + 1
<1>1. r \in Seq(Entry) /\ Len(r) = n /\ \A i \in 1 .. n : r[i] = f[lo + i - 1]
  BY RunIsSeq
<1>2. s \in Seq(Entry) /\ Len(s) = n + 1 /\ \A i \in 1 .. n + 1 : s[i] = f[lo + i - 1]
  <2>1. hi + 1 \in Int /\ lo <= (hi + 1) + 1 /\ (hi + 1) - lo + 1 = n + 1
    OBVIOUS
  <2> HIDE DEF s
  <2>2. /\ s \in Seq(Entry)
        /\ Len(s) = (hi + 1) - lo + 1
        /\ \A i \in 1 .. (hi + 1) - lo + 1 : s[i] = f[lo + i - 1]
    BY <2>1, RunIsSeq DEF s
  <2> QED BY <2>1, <2>2
<1>3. n \in Nat /\ lo + (n + 1) - 1 = hi + 1 /\ n + 1 \in 1 .. n + 1
  OBVIOUS
<1>4. f[hi + 1] \in Entry
  OBVIOUS
<1>5. s[n + 1] = f[hi + 1]
  <2> HIDE DEF s, n, r
  <2> QED BY <1>2, <1>3
<1>6. \A i \in 1 .. n : s[i] = r[i]
  <2> HIDE DEF s, n, r
  <2> QED BY <1>1, <1>2, <1>3
<1> HIDE DEF r, s, n
<1>7. Append(r, f[hi + 1]) \in Seq(Entry) /\ Len(Append(r, f[hi + 1])) = n + 1
  BY <1>1, <1>3, <1>4
<1>8. \A i \in 1 .. n + 1 : s[i] = Append(r, f[hi + 1])[i]
  BY <1>1, <1>3, <1>4, <1>5, <1>6
<1>9. s = Append(r, f[hi + 1])
  BY <1>2, <1>7, <1>8, SeqEqual
<1> QED BY <1>9 DEF r, s

\* Leaving out the first m values of a run leaves the run that starts m keys later.
LEMMA RunSuffix ==
  ASSUME NEW lo \in Int, NEW hi \in Int, lo <= hi + 1, NEW f,
         \A k \in lo .. hi : f[k] \in Entry, NEW m \in 0 .. hi - lo + 1
  PROVE  SubSeq(Run(f, lo, hi), m + 1, hi - lo + 1) = Run(f, lo + m, hi)
<1> DEFINE r == Run(f, lo, hi)
           n == hi - lo + 1
<1>1. r \in Seq(Entry) /\ Len(r) = n /\ \A i \in 1 .. n : r[i] = f[lo + i - 1]
  BY RunIsSeq
<1>2. n \in Nat /\ m \in Nat /\ m <= n /\ hi - (lo + m) + 1 = n - m
      /\ \A i \in 1 .. n - m : m + i \in 1 .. n /\ lo + (m + i) - 1 = (lo + m) + i - 1
  OBVIOUS
<1>3. \A i \in 1 .. n - m : r[m + i] = f[(lo + m) + i - 1]
  <2> HIDE DEF r, n
  <2> QED BY <1>1, <1>2
<1>4. SubSeq(r, m + 1, n) = [ i \in 1 .. n - m |-> r[m + i] ]
  <2> HIDE DEF r, n
  <2>1. SubSeq(r, m + 1, n) = [ i \in 1 .. (1 + n) - (m + 1) |-> r[i + (m + 1) - 1] ]
    BY <1>1, <1>2
  <2>2. (1 + n) - (m + 1) = n - m /\ \A i \in 1 .. n - m : i + (m + 1) - 1 = m + i
    BY <1>2
  <2> QED BY <2>1, <2>2
<1>5. Run(f, lo + m, hi) = [ i \in 1 .. n - m |-> f[(lo + m) + i - 1] ]
  BY <1>2, Zenon DEF Run
<1> HIDE DEF r, n
<1>6. [ i \in 1 .. n - m |-> r[m + i] ] = [ i \in 1 .. n - m |-> f[(lo + m) + i - 1] ]
  BY <1>3
<1> QED BY <1>4, <1>5, <1>6 DEF r, n

\* An unbroken bucket lists as its run.
LEMMA ListingIsRun ==
  ASSUME NEW lo \in Int, NEW hi \in Int, lo <= hi + 1, Keys = lo .. hi
  PROVE  Listing = Run(kv, lo, hi)
BY ListingOfRun, Zenon DEF Listing, Keys

\* An appended entry goes to the end of the buffer, the first one makes room.
LEMMA PushIsPut ==
  ASSUME QueueInv, NEW e \in Entry, Push(e)
  PROVE  Fifo!Put(e)
<1> USE QueueAssumption
<1>1. PICK lo \in 1 .. seq + 1 : Keys = lo .. seq /\ seq - lo + 1 <= MaxEntries
  BY DEF QueueInv
<1>2. seq \in Nat /\ \A k \in lo .. seq : kv[k] \in Entry
  BY <1>1 DEF QueueInv, Blobs
<1> DEFINE Kept == { j \in Keys \cup { seq + 1 } : (seq + 1) - j + 1 <= MaxEntries }
<1>3. kv' = [ k \in Kept |-> IF k = seq + 1 THEN e ELSE kv[k] ]
  BY DEF Push
<1>4. Listing = Run(kv, lo, seq) /\ Len(Listing) = seq - lo + 1
  BY <1>1, <1>2, ListingIsRun, RunIsSeq
<1>5. \A first \in lo .. lo + 1 :
        (Kept = first .. seq + 1) =>
          /\ \A k \in first .. seq : kv'[k] = kv[k]
          /\ kv'[seq + 1] = e
          /\ Listing' = Append(Run(kv', first, seq), e)
  <2> SUFFICES ASSUME NEW first \in lo .. lo + 1, Kept = first .. seq + 1
               PROVE  /\ \A k \in first .. seq : kv'[k] = kv[k]
                      /\ kv'[seq + 1] = e
                      /\ Listing' = Append(Run(kv', first, seq), e)
    BY Zenon
  <2>1. first \in Int /\ seq + 1 \in Int /\ first <= seq + 1 /\ first <= (seq + 1) + 1
    <3>1. lo <= seq + 1 /\ first \in Int /\ seq + 1 \in Int
      BY <1>1, <1>2
    <3>2. seq + 1 \in Kept
      BY <1>2
    <3> HIDE DEF Kept
    <3> QED BY <3>1, <3>2
  <2>2. (\A k \in first .. seq : kv'[k] = kv[k]) /\ kv'[seq + 1] = e
    <3> HIDE DEF Kept
    <3> QED BY <1>2, <1>3, <2>1
  <2>3. Keys' = first .. seq + 1
    <3> HIDE DEF Kept
    <3> QED BY <1>3 DEF Keys
  <2>4. \A k \in first .. seq + 1 : kv'[k] \in Entry
    BY <1>2, <2>1, <2>2
  <2>5. Listing' = Run(kv', first, seq + 1)
    <3> HIDE DEF Kept
    <3> QED BY <2>1, <2>3, ListingOfRun, Zenon DEF Listing, Keys
  <2>6. Run(kv', first, seq + 1) = Append(Run(kv', first, seq), kv'[seq + 1])
    <3> HIDE DEF Kept
    <3> QED BY <1>2, <2>1, <2>4, RunAppend
  <2> QED BY <2>2, <2>5, <2>6
<1>6. CASE seq - lo + 1 < MaxEntries
  <2>1. Kept = lo .. seq + 1
    BY <1>1, <1>2, <1>6
  <2> HIDE DEF Kept
  <2>2. lo \in lo .. lo + 1 /\ lo \in Int
    BY <1>1
  <2>3. /\ \A k \in lo .. seq : kv'[k] = kv[k]
        /\ Listing' = Append(Run(kv', lo, seq), e)
    BY <1>5, <2>1, <2>2
  <2>4. Run(kv', lo, seq) = Run(kv, lo, seq)
    <3>1. \A i \in 1 .. seq - lo + 1 : kv'[lo + i - 1] = kv[lo + i - 1]
      BY <1>2, <2>2, <2>3
    <3> QED BY <3>1, Zenon DEF Run
  <2> QED BY <1>4, <1>6, <2>3, <2>4 DEF Fifo!Put
<1>7. CASE seq - lo + 1 = MaxEntries
  <2>1. Kept = lo + 1 .. seq + 1
    BY <1>1, <1>2, <1>7
  <2> HIDE DEF Kept
  <2>2. lo + 1 \in lo .. lo + 1 /\ lo \in Int /\ lo + 1 \in Int /\ lo <= seq
    BY <1>1, <1>2, <1>7
  <2>3. /\ \A k \in lo + 1 .. seq : kv'[k] = kv[k]
        /\ Listing' = Append(Run(kv', lo + 1, seq), e)
    BY <1>5, <2>1, <2>2
  <2>4. Run(kv', lo + 1, seq) = Run(kv, lo + 1, seq)
    <3>1. \A i \in 1 .. seq - (lo + 1) + 1 : kv'[lo + 1 + i - 1] = kv[lo + 1 + i - 1]
      BY <1>2, <2>2, <2>3
    <3> QED BY <3>1, Zenon DEF Run
  <2>5. Tail(Listing) = Run(kv, lo + 1, seq)
    <3>1. SubSeq(Run(kv, lo, seq), 1 + 1, seq - lo + 1) = Run(kv, lo + 1, seq)
      <4>1. 1 \in 0 .. seq - lo + 1 /\ lo <= seq + 1 /\ seq \in Int
        BY <1>2, <2>2
      <4> QED BY <1>2, <2>2, <4>1, RunSuffix, Zenon
    <3>2. Tail(Listing) = SubSeq(Listing, 1 + 1, Len(Listing))
      <4>1. Listing \in Seq(Entry)
        BY <1>1, <1>2, <1>4, RunIsSeq
      <4> QED BY <1>2, <1>4, <2>2, <4>1
    <3> QED BY <1>4, <3>1, <3>2, Zenon
  <2> QED BY <1>4, <1>7, <2>3, <2>4, <2>5 DEF Fifo!Put
<1> QED BY <1>1, <1>2, <1>6, <1>7

\* An ack drops from the old end, as much as there is.
LEMMA AckIsDrop ==
  ASSUME QueueInv, NEW n \in Nat, Ack(n)
  PROVE  \/ \E m \in 1 .. Len(Listing) : Fifo!Drop(m)
         \/ Listing' = Listing
<1>1. PICK lo \in 1 .. seq + 1 : Keys = lo .. seq
  BY DEF QueueInv
<1>2. seq \in Nat /\ \A k \in lo .. seq : kv[k] \in Entry
  BY <1>1 DEF QueueInv, Blobs
<1>3. Listing = Run(kv, lo, seq) /\ Len(Listing) = seq - lo + 1
  BY <1>1, <1>2, ListingIsRun, RunIsSeq
<1> DEFINE len == seq - lo + 1
           m == IF n < len THEN n ELSE len
           Kept == Keys \ Oldest(Keys, n)
<1>4. len \in Nat /\ m \in 0 .. len /\ lo + m \in Int /\ lo + m <= seq + 1
  BY <1>1, <1>2
<1>5. Kept = lo + m .. seq
  <2>1. Kept = { k \in lo .. seq : lo + n <= k }
    <3>1. Oldest(lo .. seq, n) = { k \in lo .. seq : k < lo + n }
      BY <1>1, <1>2, OldestOfRun
    <3> QED BY <1>1, <1>2, <3>1
  <2> QED BY <1>1, <1>2, <2>1
<1>6. kv' = [ k \in lo + m .. seq |-> kv[k] ]
  <2>1. kv' = [ k \in Kept |-> kv[k] ]
    BY DEF Ack, Restrict
  <2> HIDE DEF Kept, m
  <2> QED BY <1>5, <2>1
<1> HIDE DEF m, Kept
<1>7. Listing' = Run(kv, lo + m, seq)
  <2>1. Listing' = Run(kv', lo + m, seq)
    <3>1. DOMAIN kv' = lo + m .. seq /\ seq \in Int
      BY <1>2, <1>6
    <3> QED BY <1>4, <3>1, ListingOfRun, Zenon DEF Listing, Keys
  <2>2. \A i \in 1 .. seq - (lo + m) + 1 : kv'[lo + m + i - 1] = kv[lo + m + i - 1]
    BY <1>2, <1>4, <1>6
  <2>3. Run(kv', lo + m, seq) = Run(kv, lo + m, seq)
    BY <2>2, Zenon DEF Run
  <2> QED BY <2>1, <2>3
<1>8. Listing' = SubSeq(Listing, m + 1, Len(Listing))
  <2>1. SubSeq(Run(kv, lo, seq), m + 1, len) = Run(kv, lo + m, seq)
    <3>1. lo \in Int /\ seq \in Int /\ lo <= seq + 1
      BY <1>1, <1>2
    <3> QED BY <1>2, <1>4, <3>1, RunSuffix, Zenon
  <2> QED BY <1>3, <1>7, <2>1
<1>9. CASE m = 0
  <2>1. lo + m = lo
    BY <1>1, <1>9
  <2> QED BY <1>3, <1>7, <2>1
<1>10. CASE m # 0
  <2>1. m \in 1 .. Len(Listing)
    BY <1>3, <1>4, <1>10
  <2> QED BY <1>8, <2>1 DEF Fifo!Drop
<1> QED BY <1>9, <1>10

\* A bucket without keys lists as the empty buffer.
LEMMA EmptyListing == Keys = {} => Listing = << >>
BY FS_EmptySet DEF Listing

\* The bucket implements the bounded buffer, for every cap: initial states are
\* initial states, a Push is a Put, and an Ack a Drop or no step.
THEOREM QueueIsFifo == QueueSpec => ImplementsFifo
<1>1. QueueInit => Fifo!Init
  BY EmptyListing DEF QueueInit, Keys, Fifo!Init
<1>2. QueueInv /\ [QueueNext]_qvars => [Fifo!Next]_Listing
  <2>1. ASSUME QueueInv, NEW e \in Entry, Push(e)
        PROVE  Fifo!Next
    BY <2>1, PushIsPut DEF Fifo!Next
  <2>2. ASSUME QueueInv, NEW n \in 0 .. MaxEntries + 1, Ack(n)
        PROVE  [Fifo!Next]_Listing
    BY <2>2, AckIsDrop DEF Fifo!Next
  <2>3. CASE UNCHANGED qvars
    BY <2>3 DEF qvars, Listing, Keys
  <2> QED BY <2>1, <2>2, <2>3 DEF QueueNext
<1> QED BY <1>1, <1>2, QueueInvariance, PTL DEF QueueSpec, ImplementsFifo, Fifo!Spec
=============================================================================
