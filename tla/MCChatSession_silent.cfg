\* One chat and a reconnection: the channel the chat was made with.
CONSTANTS
  Chats = {c1}
  Auctions = {a1}
  Lots = {1}
  Kinds = {"/start"}
  Inbox = 1
  Outbox = 1
  EnvBot = FALSE
  MaxUpdates = 2
  MaxBots = 2
  MaxShows = 0
  NoAuction = NoAuction
SPECIFICATION FairSpec
CHECK_DEADLOCK FALSE
PROPERTIES ChatHeard
