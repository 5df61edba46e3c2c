\* Rounds of two projects, an unreadable entry, a failing Push or Ack, a crash.
SPECIFICATION Spec
CONSTANTS
  p1 = p1
  p2 = p2
  t1 = t1
  t2 = t2
  Paths = {p1, p2}
  Names = {p1, p2}
  NameOf <- MCOwnName
  Trees = {t1, t2}
  NoHash = NoHash
  Unreadable = Unreadable
  Entry <- MCEntry
  Readable <- Snapshot
  Leftover = 1
  MaxEntries = 3
  BatchLimit = 2
  BodyLimit = 3
  MaxSnaps = 4
  MaxCrashes = 1
  Faults = {"push", "ack"}
SYMMETRY MCSymmetry
INVARIANTS
  NoSilentLoss
  OldestFirst
  MarkersAnchored
  Unbroken
  Bounded
  AckRetiresOnlyDrained
PROPERTY
  MarkerIffUnchanged
