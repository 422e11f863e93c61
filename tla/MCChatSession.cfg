\* One chat that knows two auctions with two lots each, every way to choose a
\* lot, to bid on it and to leave it, and two changes of what the hub shows.
CONSTANTS
  Chats = {c1}
  Auctions = {a1, a2}
  Lots = {1, 2}
  Kinds = {"lot", "sum", "quick", "back", "/start"}
  Inbox = 1
  Outbox = 1
  EnvBot = TRUE
  MaxUpdates = 3
  MaxBots = 1
  MaxShows = 2
  NoAuction = NoAuction
SPECIFICATION Spec
SYMMETRY Alike
CHECK_DEADLOCK FALSE
INVARIANTS SessionTypeOK BidOnChosenLot
