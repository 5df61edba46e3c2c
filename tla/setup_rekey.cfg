\* A second setup, with another key, on Windows.
SPECIFICATION FairSpec
CONSTANTS
  k1 = k1
  k2 = k2
  a1 = a1
  a2 = a2
  a3 = a3
  Platforms = {"windows"}
  Keys = {k1, k2}
  NewKeys = {k1, k2}
  NoKey = NoKey
  Slots = {a1, a2}
  Service = a1
  ByHand = {}
  Faults = {}
PROPERTY
  NewKeyRuns
