\* One repository, sessions and outages, a process that may be killed once.
SPECIFICATION FairSpec
CONSTANTS
  r1 = r1
  t1 = t1
  Repos = {r1}
  Pinned = {}
  WakaTime = TRUE
  Interval = 2
  IdleMultiplier = 2
  PollSeconds = {1}
  Second = 1
  MaxBusy = 1
  Names = {r1}
  NameOf <- MCName
  Trees = {t1}
  NoHash = NoHash
  Unreadable = Unreadable
  Entry <- MCEntry
  Readable <- MCReadable
  MaxEntries = 2
  BatchLimit = 1
  MaxSnaps = 3
  MaxCrashes = 1
INVARIANT
  SessionRecorded
PROPERTIES
  DuplicateCostsNothing
  FlushesForUser
