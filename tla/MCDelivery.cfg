\* Two connections, one chat, refusals by Telegram, everything scheduled fairly.
CONSTANTS
  Chats = {ann}
  Workers = {w1, w2}
  Capacity = 1
  Attempts = 2
  Faults = TRUE
  MaxTexts = 2
  MaxBots = 2
SPECIFICATION FairSpec
INVARIANTS DeliveryTypeOK EachTextOnce EntryHasTimer
CHECK_DEADLOCK FALSE
PROPERTIES EveryTextSettles CancelledBotEnds ImplementsOutbox
