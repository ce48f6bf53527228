\* Every part by itself: what interacts is inside one part.
SPECIFICATION Spec
CONSTANTS
  HookFiles = {m1, m2, m3}
  Order <- MCOrder
  Conts = {"a1", "a2", "b1"}
  ProjectOf <- MCProjectOf
  MaxCrashes = 2
  MaxRemakes = 1
  Nodes = {"a", "a/b", "c"}
  Above <- MCAbove
  MaxDeploys = 2
  MaxVolumes = 2
  MaxSwaps = 1
  OtherKeys <- MCOther
  Vars <- MCVars
  Typed <- MCTyped
  Replies <- MCReplies
  Edits <- MCEdits
  MaxEdits = 1
  MaxCreates = 2
  Roots <- MCRoots
  Shells <- MCShells
  EnvsLists <- MCEnvs
  MaxReads = 1
  Ids = {"OLD", "MY", "PEER"}
  MyId = "MY"
  FolderIds = {"docs"}
  Files <- MCFiles
  HostDirs <- MCHostDirs
  MaxGui = 1
  MaxHooks = 2
  MailDomains = {"a", "b", "c"}
  Primary = "a"
  Extras = {"b"}
  MaxMail = 2
  Mails = {"m1", "m2", "m3"}
  MatchedBy <- MCMatchedBy
  MaxSieve = 3
  MaxCfTime = 6
  MaxCfRuns = 3
  MaxRows = 3
  MaxUpgrades = 2
  Repos = {"r1", "r2"}
  MaxOdRuns = 3
  MaxLocal = 1
  Runs = {"u1", "u2", "i1"}
  Installs = {"i1"}
  Broken = {2}
  MaxRelease = 2
INVARIANTS
  PartsTypeOK
  ResultsTellLoops
PROPERTIES
  DeployLeavesNothing
  FoldersInRightHands
  ServerEnvSound
  HooksKeepPromise
  ServicesAsConfigured
  DataKept
\* Every part comes to an end: its runs are bounded.
CHECK_DEADLOCK FALSE
