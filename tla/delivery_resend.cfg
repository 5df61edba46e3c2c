\* One unreadable entry, and an answer for every request.
SPECIFICATION Spec
CONSTANTS
  p1 = p1
  p2 = p2
  t1 = t1
  t2 = t2
  Paths = {p1}
  Names = {p1}
  NameOf <- MCOneName
  Trees = {t1, t2}
  NoHash = NoHash
  Unreadable = Unreadable
  Entry <- MCEntry
  Readable <- Snapshot
  Leftover = 1
  MaxEntries = 3
  BatchLimit = 2
  BodyLimit = 4
  MaxSnaps = 3
  MaxCrashes = 0
  Faults = {}
INVARIANT
  RedeliveryExcused
