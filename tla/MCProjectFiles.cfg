\* A catalog with a chain of requirements, a ring and a stack that is refused,
\* a stack of the project's own and one it has in place of the catalog's: every
\* sequence of adds and removes, each of which may die at any step.
SPECIFICATION Spec
CONSTANTS
  mirror = mirror  git = git  proxy = proxy  one = one  other = other
  own = own  bad = bad
  kGit = kGit  kTag = kTag  kServer = kServer
  kShared = kShared  kOwn = kOwn
  None = None
  Stacks = {git, proxy, one, other, own, bad}
  Catalog = {git, proxy, one, other, bad}
  Local = {own, git}
  Reserved = {bad}
  Requires <- MCRequires
  Keys = {kGit, kTag, kServer, kShared, kOwn}
  CatalogMeta <- MCCatalogMeta
  OwnMeta <- MCOwnMeta
  ServerKeys = {kServer}
  MaxBlanks = 1
INVARIANTS
  TypeOK
  ListedHaveValues
  RequirementsListed
  NoEndlessChain
  EncryptedOrTold
