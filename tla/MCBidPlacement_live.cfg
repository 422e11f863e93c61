\* Fair goroutines, every call answered, three bidders, two of them at a time at
\* the lock of one lot, sections that may stall past the TTL.
CONSTANTS
  Chats = {ann, bob, cyn}
  Lots = {lot}
  StartPrice = 1
  BidStep = 2
  Amounts = {3, 4, 5}
  MaxInt = 99
  MaxBids = 2
  Stalls = TRUE
  Faults = FALSE
  NoChat = NoChat
SPECIFICATION FairSpec
INVARIANTS NoLockLeak
PROPERTIES BusyMeansContended ContestHasWinner EveryBidInserted NoForeignRelease
