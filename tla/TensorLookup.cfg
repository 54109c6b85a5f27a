SPECIFICATION LookupSpec
CONSTANTS
  Inventories <- MCInventories
  Required <- SmallNames
  Rankings = {FALSE, TRUE}
  DraftHead = 7
  DraftTokenIds = 8
INVARIANTS
  TableTypeOK
  LookupCorrect
CHECK_DEADLOCK FALSE
