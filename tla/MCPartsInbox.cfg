\* The header of apply-sieve-filters, checked: it stops where it does not hold.
SPECIFICATION Spec
CONSTANTS
  HookFiles = {m1, m2, m3}
  Order <- MCOrder
  Conts = {"a1", "a2", "b1"}
  ProjectOf <- MCProjectOf
  MaxCrashes = 0
  MaxRemakes = 1
  Nodes = {"a", "a/b", "c"}
  Above <- MCAbove
  MaxDeploys = 0
  MaxVolumes = 0
  MaxSwaps = 0
  OtherKeys <- MCOther
  Vars <- MCVars
  Typed <- MCTyped
  Replies <- MCReplies
  Edits <- MCEdits
  MaxEdits = 1
  MaxCreates = 0
  Roots <- MCRoots
  Shells <- MCShells
  EnvsLists <- MCEnvs
  MaxReads = 1
  Ids = {"OLD", "MY", "PEER"}
  MyId = "MY"
  FolderIds = {"docs"}
  Files <- MCFiles
  HostDirs <- MCHostDirs
  MaxGui = 1
  MaxHooks = 0
  MailDomains = {"a", "b", "c"}
  Primary = "a"
  Extras = {"b"}
  MaxMail = 0
  Mails = {"m1", "m2", "m3"}
  MatchedBy <- MCMatchedBy
  MaxSieve = 3
  MaxCfTime = 7
  MaxCfRuns = 0
  MaxRows = 3
  MaxUpgrades = 2
  Repos = {"r1", "r2"}
  MaxOdRuns = 0
  MaxLocal = 1
  Runs = {"u1", "u2", "i1"}
  Installs = {"i1"}
  Broken = {2}
  MaxRelease = 2
PROPERTY
  MovesFromInbox
CHECK_DEADLOCK FALSE
