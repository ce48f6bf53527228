\* A compose stack in every state it can be found in and a list of two
\* containers, one command that fails and one thing others do, at any point.
SPECIFICATION MCSpec
CONSTANTS
  stack = stack  list = list
  home = home  old = old
  a1 = a1  a2 = a2  a3 = a3  b = b  look = look  l1 = l1  l2 = l2
  f = f  over = over  other = other
  r1 = r1  r2 = r2
  None = None
  Configs = {stack, list}
  Containers = {a1, a2, a3, b, look, l1, l2}
  Origins = {home, old}
  Files = {f, over, other}
  Repos = {r1, r2}
  ModeOf <- MCModeOf
  Own <- MCOwn
  Like <- MCLike
  Named <- MCNamed
  OriginOf <- MCOriginOf
  FilesOf <- MCFilesOf
  RepoOf <- MCRepoOf
  MaxFaults = 1
  MaxMeddles = 1
INVARIANTS
  TypeOK
  SuccessIsCopied
PROPERTIES
  BackUpOrReported
  CopiedCold
  StoppedStaysStopped
  OrphanLeftAlone
  RunEnds
CHECK_DEADLOCK FALSE
