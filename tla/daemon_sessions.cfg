\* Two repositories and a pinned directory, a clock finer than the second, a poll
\* that divides the interval and one that exceeds it.
SPECIFICATION FairSpec
CONSTANTS
  r1 = r1
  r2 = r2
  d = d
  Repos = {r1, r2}
  Pinned = {d}
  WakaTime = TRUE
  Interval = 4
  IdleMultiplier = 2
  PollSeconds = {2, 6}
  Second = 2
  MaxBusy = 3
  MayExit = TRUE
INVARIANTS
  TypeOK
  WakePrompt
  NothingUnseen
  Cadence
PROPERTIES
  Spaced
  SessionEnds
