SPECIFICATION Spec
CONSTANTS
  Dirs <- MCDirs
  Files <- MCFiles
  LinkTo <- MCLinkTo
  Nets = {"nm"}
  Guesses = {"dist"}
  Cases <- MCCases
INVARIANTS
  TakenAsReplayed
  StackIsChain
  ShadowWarned
  OncePerFile
PROPERTIES
  AdviceWorks
