SPECIFICATION Spec
CONSTANTS
  Thread = {t1, t2}
  None = None
  Calls <- SomeCalls
  MaxSize = 2
  MaxTime = 3
SYMMETRY Symmetry
INVARIANTS TypeOK NoTornRead WriteWccOwn AttrsCurrent
