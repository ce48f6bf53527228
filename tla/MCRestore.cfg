\* Two restores, one after the other, of a service with two folders: three
\* things that fail, crashes among them, and containers that somebody else
\* starts, at any point.
SPECIFICATION Spec
CONSTANTS
  data = data  db = db
  Folders = {data, db}
  None = None
  MaxRuns = 2
  MaxFaults = 3
  MaxMeddles = 1
SYMMETRY AnyFolder
INVARIANTS
  TypeOK
  AllOrAsItWas
PROPERTIES
  NothingLost
  SwappedCold
  EndsAsReported
