\* Two publishers and two requests whose writer can flush, with channels that
\* fill up.  The clients may never ask and the publishers stop.
CONSTANTS
  Publishers = {p1, p2}
  Streams = {s1, s2}
  Wrapped = FALSE
  Buffer = 1
  MaxEvents = 2
SPECIFICATION FairSpec
CHECK_DEADLOCK FALSE
INVARIANTS FeedTypeOK
PROPERTIES PublishEnds ImplementsBroadcast
