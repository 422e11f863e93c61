\* One request behind the middleware of the admin server.
CONSTANTS
  Publishers = {p1}
  Streams = {s1}
  Wrapped = TRUE
  Buffer = 1
  MaxEvents = 1
SPECIFICATION FairSpec
CHECK_DEADLOCK FALSE
PROPERTIES StreamOpens
