\* One repository beside a pinned directory: the close never falls back.
SPECIFICATION Spec
CONSTANTS
  r1 = r1
  r2 = r2
  d = d
  Repos = {r1}
  Pinned = {d}
  WakaTime = TRUE
  Interval = 2
  IdleMultiplier = 2
  PollSeconds = {1}
  Second = 1
  MaxBusy = 1
  MayExit = FALSE
PROPERTY
  ClosingCoversLast
