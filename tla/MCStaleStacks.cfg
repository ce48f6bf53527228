\* Every server two unlisted stacks can leave behind, with one command that
\* fails and one change by somebody else at any point of the script.
SPECIFICATION MCSpec
CONSTANTS
  listed = listed  old = old  gone = gone  bad = bad
  alias = alias  pOld = pOld  mal = mal
  cOld = cOld  cPlanted = cPlanted  cPartial = cPartial  cGone = cGone
  cOdd = cOdd  cListed = cListed
  None = None  Elsewhere = Elsewhere
  Names = {listed, old, gone, bad}
  Unsafe = {bad}
  Active = {listed}
  Projects = {listed, alias, pOld, mal}
  Malformed = {mal}
  Aliases = {alias}
  Containers = {cOld, cPlanted, cPartial, cGone, cOdd, cListed}
  DirOf <- MCDirOf
  ProjOf <- MCProjOf
  Whole = {cOld, cPlanted, cGone, cOdd, cListed}
  MaxFaults = 1
  MaxMeddles = 1
INVARIANTS
  TypeOK
  NothingLeftUnsaid
PROPERTIES
  ProtectedStay
  NoFolderFromUnderAContainer
  OncePerStack
  ScriptEnds
CHECK_DEADLOCK FALSE
