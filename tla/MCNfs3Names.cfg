SPECIFICATION Spec
CONSTANTS
  t1 = t1
  t2 = t2
  t3 = t3
  root = root
  da = da
  db = db
  dc = dc
  dd = dd
  de = de
  f1 = f1
  f2 = f2
  f3 = f3
  x = x
  y = y
  z = z
  None = None
  Dot = Dot
  Slashed = Slashed
  Root = root
  Thread = {t1, t2, t3}
  Name = {x, y, z}
  Directory <- MCDirectory
  File <- MCFile
  Entries <- MCEntries
  Attributes <- MCAttributes
  Calls <- MCCalls
  MaxCalls = 3
SYMMETRY Symmetry
CHECK_DEADLOCK FALSE
INVARIANTS
  TypeOK
  
  OutcomeTold
  
