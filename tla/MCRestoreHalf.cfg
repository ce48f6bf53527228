\* One restore of two folders: a rename fails, and the rename back of the
\* other folder fails too.
SPECIFICATION Spec
CONSTANTS
  data = data  db = db
  Folders = {data, db}
  None = None
  MaxRuns = 1
  MaxFaults = 2
  MaxMeddles = 0
PROPERTIES
  NeverOnHalf
