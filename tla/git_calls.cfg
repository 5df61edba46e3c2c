\* Any git, one that hangs or leaves processes behind for a while included.
SPECIFICATION PatientSpec
CONSTANTS
  Timeout = 1
  Helpers = TRUE
  MaxCommits = 2
  WorkTrees <- MCWorkTrees
  ScopeSets <- MCScopes
INVARIANTS
  TypeOK
  ReadBounded
  FiltersNeverRun
  NothingStale
  CountsTrue
PROPERTY
  ReadEnds
