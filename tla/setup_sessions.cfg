\* Every platform, steps that fail, and agents started by hand.
SPECIFICATION FairSpec
CONSTANTS
  k1 = k1
  k2 = k2
  a1 = a1
  a2 = a2
  a3 = a3
  Platforms = {"windows", "linux", "darwin"}
  Keys = {k1, k2}
  NewKeys = {k1}
  NoKey = NoKey
  Slots = {a1, a2}
  Service = a1
  ByHand = {"windows", "linux", "darwin"}
  Faults = {"write", "rename", "manager"}
INVARIANTS
  TypeOK
  RemovedIsStopped
  PinsKept
PROPERTIES
  ManagedKeyRuns
  OneRuns
