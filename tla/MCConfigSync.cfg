SPECIFICATION SyncSpec
CONSTANTS
  old = old
  new = new
  empty = empty
  Unread = Unread
  Text = {old, new, empty}
  MaxEdits = 4
CHECK_DEADLOCK FALSE
INVARIANTS
  SyncTypeOK
  UpToDate
PROPERTY
  Converges
