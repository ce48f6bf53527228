\* Two stacks, one of them under an alias that somebody also uses by hand:
\* every order of requests, deploy steps, edits and faults.
SPECIFICATION FairSpec
CONSTANTS
  a = a  b = b  alias = alias  ca = ca
  eaAlias = eaAlias  eb = eb  ehand = ehand
  v1 = v1  v2 = v2
  None = None
  Entries = {eaAlias, eb, ehand}
  StackNames = {a, b}
  Projects = {a, b, alias}
  ConfigFiles = {ca}
  Versions = {v1, v2}
  First = v1
  NameOf <- MCNameOf
  ProjectOf <- MCProjectOf
  Containers = {a, b}
  ContainerOf <- MCContainerOf
  Watch <- MCWatch
  HookWrites <- MCHookWrites
  Listable = {eaAlias, eb}
  MaxEdits = 2
  MaxFaults = 1
INVARIANTS
  TypeOK
  SyncedBeforeUp
  AllUpBeforeAfterHooks
PROPERTIES
  ListedNeverCleaned
  SingleStaysInItsStack
  NoConfigDeletesNothing
  SuccessConverges
  FreshStaysFresh
  DeployEnds
