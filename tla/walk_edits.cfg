\* A tree of ten paths, any mix of .gitignore files, and changes at any moment.
SPECIFICATION Spec
CONSTANTS
  plain = plain
  anyMain = anyMain
  topMain = topMain
  dirApp = dirApp
  Contents = {plain, anyMain, topMain, dirApp}
  NameOrder <- MCOrder
  Dirs <- MCDirs
  Files <- MCFiles
  AlwaysSkip = {"dist"}
  IgnoreName = ".gitignore"
  RulesIn <- MCRulesIn
  SizeIn <- MCSizeIn
  Times = {1, 2}
  Trees <- MCTrees
  MaxEdits = 1
INVARIANTS
  TypeOK
  UntouchedExact
  ExcludedStaysOut
PROPERTY
  MarkerIsTrue
