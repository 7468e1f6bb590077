SPECIFICATION Spec
CONSTANTS
  Path <- MCPath
  Location <- MCLocation
  Canonical <- MCCanonical
  File <- MCFile
  NoPath <- MCNoPath
  NoFile = NoFile
  Content <- MCContent
  Extra <- MCExtra
  Query <- MCQuery
  Char <- MCChar
  MaxSource = 2
  MaxEntries = 3
CONSTRAINT OwnPlaces
INVARIANTS TypeOK LookupLongest
PROPERTIES SourcesApart
