SPECIFICATION Spec
CONSTANTS
  c1 = c1
  c2 = c2
  c3 = c3
  h1 = h1
  h2 = h2
  Invalid = Invalid
  None = None
  Other = Other
  Host = {h1, h2}
  Conn = {c1, c2, c3}
  HostOf <- MCHostOf
  Handle = {1, 2, 3, 4}
CHECK_DEADLOCK FALSE
INVARIANTS
  TypeOK
  AnswerToCaller
  NoSocketLost
PROPERTY
  StopsEnd
