SPECIFICATION LookupSpec
CONSTANTS
  Inventories <- RealInventories
  Required = {1, 500, 851, 868}
  Rankings = {TRUE}
  DraftHead <- RealDraftHead
  DraftTokenIds <- RealDraftTokenIds
INVARIANT
  RankedHeadBound
CHECK_DEADLOCK FALSE
