\* A process that git leaves behind keeps its standard output.
SPECIFICATION FairSpec
CONSTANTS
  Timeout = 2
  Helpers = TRUE
  MaxCommits = 0
  WorkTrees <- MCOneTree
  ScopeSets <- MCNoScopes
PROPERTY
  ReadEnds
