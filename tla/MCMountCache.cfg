SPECIFICATION Spec
CONSTANTS
  p1 = p1
  p1x = p1x
  p2 = p2
  Client = {c1}
  Query = {q1, q2}
  Path <- SpelledPaths
  Location = {p1, p2}
  Canonical <- SpelledCanonical
  File = {f1, f2}
  NoPath = NoPath
  NoFile = NoFile
  MaxId = 3
INVARIANTS TypeOK ClientsAgree LookupsLead IdsSpent SaveCoherent OneEntryPerLocation
PROPERTIES RestoreFaithful AnswersStable ImplementsTable
