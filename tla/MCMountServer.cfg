SPECIFICATION Spec
CONSTANTS
  Path <- MCPath
  Location <- MCLocation
  Canonical <- MCCanonical
  File = {f1, f2}
  NoPath <- MCNoPath
  NoFile = NoFile
  Client = {c1}
  Query <- MCQuery
  MaxId = 2
  Content <- MCContent
  Char <- MCChar
  t1 = t1
  t2 = t2
  Thread = {t1, t2}
  None = None
SYMMETRY Threads
INVARIANTS TypeOK QuietAnswers
PROPERTIES ImplementsCache
