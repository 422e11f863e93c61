\* One chat, one lot, one update in the chat's channel and one message in a
\* bot's: every channel fills up.  The user and the admin may stop.
CONSTANTS
  Chats = {c1}
  Auctions = {a1}
  Lots = {1}
  Kinds = {"contact", "lot", "quick"}
  Inbox = 1
  Outbox = 1
  EnvBot = FALSE
  MaxUpdates = 3
  MaxBots = 2
  MaxShows = 1
  NoAuction = NoAuction
SPECIFICATION FairSpec
CHECK_DEADLOCK FALSE
PROPERTIES AdminNeverWaits EveryUpdateTaken ImplementsConversation
