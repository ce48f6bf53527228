\* No step fails: a watched file that reaches the server with another
\* stack's deploy is not noticed by the next deploy of its own stack.
SPECIFICATION Spec
CONSTANTS
  a = a  b = b  alias = alias  ca = ca
  eaAlias = eaAlias  eb = eb  ehand = ehand
  v1 = v1  v2 = v2
  None = None
  Entries = {eaAlias, eb, ehand}
  StackNames = {a, b}
  Projects = {a, b, alias}
  ConfigFiles = {ca}
  Versions = {v1, v2}
  First = v1
  NameOf <- MCNameOf
  ProjectOf <- MCProjectOf
  Containers = {a, b}
  ContainerOf <- MCContainerOf
  Watch <- MCWatch
  HookWrites <- NoHookWrites
  Listable = {eaAlias, eb}
  MaxEdits = 2
  MaxFaults = 0
PROPERTIES
  WatchedFilesLoaded
