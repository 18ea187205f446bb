SPECIFICATION FairSpec
CONSTANTS
  Names = {a}
  Clients = {c1, c2}
  Capacity = 2
  MaxVersion = 3
  MaxDrops = 1
INVARIANTS NoSendOnClosed SubscribersFollow WatchLosesNoFlag
PROPERTIES StoreMovesForward StoreCatchesUp
CHECK_DEADLOCK FALSE
