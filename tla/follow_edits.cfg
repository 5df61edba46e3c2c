\* Every small WakaTime config, and a log that outgrows its tail.
SPECIFICATION Spec
CONSTANTS
  Files <- MCFiles
  GitDirs <- MCGitDirs
  Home <- MCHome
  MaxWalkUp = 2
  TailUnits = 5
  Second = 2
  Beginnings <- MCBeginnings
  Edited <- MCEdited
  IdleAfter = 2
  MaxTime = 4
INVARIANTS
  EditsFollowed
  LookupTrue
PROPERTY
  OthersKept
