---------------------------- MODULE SnapshotQueue ----------------------------
(***************************************************************************)
(* The durable queue of undelivered snapshots, internal/queue/queue.go.    *)
(*                                                                         *)
(* The queue is one bbolt bucket: a map from sequence numbers to JSON      *)
(* blobs, and the bucket's own sequence counter.  Keys are big-endian, so  *)
(* the cursor walks them in numeric order.  Each operation is one bbolt    *)
(* transaction and so one atomic step; the file survives a crash.          *)
(*                                                                         *)
(* A blob is an Entry.  Those json.Unmarshal can decode are Readable; the  *)
(* others were written by a build with a different snapshot type.          *)
(***************************************************************************)
EXTENDS Integers, FiniteSets, Functions

CONSTANTS
  Entry,       \* the blobs a key may hold
  Readable,    \* the blobs that decode into a snapshot
  MaxEntries   \* the cap on the backlog (5000 in the code)

ASSUME QueueAssumption ==
  /\ Readable \subseteq Entry
  /\ MaxEntries \in Nat \ {0}

VARIABLES
  seq,   \* the bucket's sequence counter: the last key handed out
  kv     \* the bucket's contents, a function from the keys in use

qvars == << seq, kv >>

Keys == DOMAIN kv

\* The n smallest members of K, all of K when it has fewer: what n turns of a
\* cursor's First, or of its Next, reach.
OldestPlusOne(K, n) == { k \in K : Cardinality({ j \in K : j < k }) <= n }   \* mutant
Oldest(K, n) == { k \in K : Cardinality({ j \in K : j < k }) < n }

-----------------------------------------------------------------------------
(* The operations.                                                         *)

\* Mutants of Push: the cap compared without the "+ 1"; a key taken from the number
\* of entries instead of NextSequence.
PushOverCap(e) ==
  /\ seq' = seq + 1
  /\ kv' = [ k \in { j \in Keys \cup { seq + 1 } : seq + 1 - j <= MaxEntries }
               |-> IF k = seq + 1 THEN e ELSE kv[k] ]
PushKeyFromDepth(e) ==
  LET next == Cardinality(Keys) + 1
  IN  /\ seq' = next
      /\ kv' = [ k \in { j \in Keys \cup { next } : next - j + 1 <= MaxEntries }
                   |-> IF k = next THEN e ELSE kv[k] ]

\* Push appends e under the next sequence number and, in the same
\* transaction, deletes from the front while the distance between the new key
\* and the first one exceeds the cap.
Push(e) ==
  /\ seq' = seq + 1
  /\ kv' = [ k \in { j \in Keys \cup { seq + 1 } : (seq + 1) - j + 1 <= MaxEntries }
               |-> IF k = seq + 1 THEN e ELSE kv[k] ]

\* Drain returns the n oldest entries that decode, without removing any.  The
\* result keeps its keys: in key order it is the slice the code returns.
Drain(n) == Restrict(kv, Oldest({ k \in Keys : kv[k] \in Readable }, n))

\* Mutant of Ack: removes from the wrong end.
AckNewest(n) ==
  /\ kv' = Restrict(kv, Oldest(Keys, Cardinality(Keys) - n))
  /\ UNCHANGED seq

\* Ack removes the n oldest keys, readable or not; n = 0 changes nothing.
Ack(n) ==
  /\ kv' = Restrict(kv, Keys \ Oldest(Keys, n))
  /\ UNCHANGED seq

-----------------------------------------------------------------------------
QueueInit ==
  /\ seq = 0
  /\ kv = [ k \in {} |-> 0 ]

QueueNext ==
  \/ \E e \in Entry : Push(e)
  \/ \E n \in 0 .. MaxEntries + 1 : Ack(n)

QueueSpec == QueueInit /\ [][QueueNext]_qvars

-----------------------------------------------------------------------------
QueueTypeOK ==
  /\ seq \in Nat
  /\ Keys \subseteq 1 .. seq
  /\ kv \in [ Keys -> Entry ]

\* "Keys are one unbroken run of sequence numbers": the comment in Push from
\* which it derives the depth of the queue as the distance between its ends.
\* The run ends at the bucket's counter.
Unbroken == \E lo \in 1 .. seq + 1 : Keys = lo .. seq

\* The backlog never exceeds the cap, which Push enforces through the
\* distance between keys and never by counting entries.
Bounded == Cardinality(Keys) <= MaxEntries

\* The caller acks as many entries as Drain gave it, though Drain skips the
\* unreadable ones and Ack does not ("unreadable entry; Ack will retire it").
\* Whatever is mixed into the queue, that ack never retires a readable entry
\* the drained batch did not contain.
AckRetiresOnlyDrained ==
  \A n \in 0 .. MaxEntries + 1 :
    LET batch == Drain(n)
    IN  \A k \in Oldest(Keys, Cardinality(DOMAIN batch)) :
          kv[k] \in Readable => k \in DOMAIN batch

-----------------------------------------------------------------------------
\* The entries in key order.
Listing ==
  [ i \in 1 .. Cardinality(Keys) |->
      kv[CHOOSE k \in Keys : Cardinality({ j \in Keys : j < k }) = i - 1] ]

Fifo == INSTANCE BoundedFifo WITH q <- Listing, Capacity <- MaxEntries

\* The bucket implements the bounded buffer: every Push is a Put, every Ack a
\* Drop of at most as many entries as there are, or no step at all.
ImplementsFifo == Fifo!Spec
=============================================================================
