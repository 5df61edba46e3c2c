\* Every local failure, a late request, a crash, and a queue of two.
SPECIFICATION FairSpec
CONSTANTS
  p1 = p1
  p2 = p2
  t1 = t1
  t2 = t2
  Paths = {p1}
  Names = {p1}
  NameOf <- MCOneName
  Trees = {t1}
  NoHash = NoHash
  Unreadable = Unreadable
  Entry <- MCEntry
  Readable <- Snapshot
  Leftover = 0
  MaxEntries = 2
  BatchLimit = 1
  BodyLimit = 2
  MaxSnaps = 3
  MaxCrashes = 1
  Faults = {"capture", "drain", "push", "ack", "timeout"}
INVARIANTS
  TypeOK
  RedeliveryExcused
PROPERTIES
  Flushes
  ImplementsHandover
  ImplementsFifo
