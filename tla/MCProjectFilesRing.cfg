\* A stack that requires two others, one of which requires the other as well:
\* no ring anywhere.
SPECIFICATION Spec
CONSTANTS
  mirror = mirror  git = git  proxy = proxy  one = one  other = other
  own = own  bad = bad
  kGit = kGit  kTag = kTag  kServer = kServer  kShared = kShared  kOwn = kOwn
  None = None
  Stacks = {mirror, git, proxy}
  Catalog = {mirror, git, proxy}
  Local = {}
  Reserved = {}
  Requires <- MCRequires
  Keys = {kGit, kTag, kServer}
  CatalogMeta <- MCCatalogMeta
  OwnMeta <- MCOwnMeta
  ServerKeys = {kServer}
  MaxBlanks = 1
INVARIANTS
  CycleIsCycle
