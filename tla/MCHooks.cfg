SPECIFICATION Spec
CONSTANTS
  main = main
  topic = topic
  origin = origin
  None = None
  Unknown = Unknown
  Branches <- Branches2
  Start = main
  Remotes <- Remotes1
  Written <- Written3
  MaxWeight = 3
INVARIANT CommitsClean
INVARIANT MessagesScanned
INVARIANT AuthorsChecked
INVARIANT NeverSilent
