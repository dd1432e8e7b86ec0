SPECIFICATION Spec
CONSTANTS
  Dirs <- MCDirs
  Files <- MCFiles
  LinkTo <- MCLinkTo
  Nets = {"nm"}
  Guesses = {"dist"}
  Cases <- NamedCases
INVARIANTS
  NamedAsReached
