------------------------------ MODULE EventFeed ------------------------------
(***************************************************************************)
(* The hub of server-sent events: the callers that publish, each holding   *)
(* the hub's mutex for reading while it offers its event to every channel, *)
(* and the requests for /admin/events, each with a channel of its own that *)
(* it adds and closes under the mutex.                                     *)
(*                                                                         *)
(* The mutex lets readers share and a writer wait for them.  Go's also     *)
(* keeps new readers back while a writer waits: it has fewer behaviours    *)
(* than this one.                                                          *)
(***************************************************************************)
EXTENDS Integers, Sequences, FiniteSets

CONSTANTS Publishers,  \* goroutines that place bids, sell lots, start and end auctions
          Streams,     \* requests for /admin/events
          Wrapped,     \* does PrometheusMiddleware wrap the response writer?
          Buffer,      \* capacity of a channel (32)
          MaxEvents    \* bound: events of each publisher

ASSUME FeedAssumption ==
  /\ Wrapped \in BOOLEAN
  /\ Buffer \in Nat \ {0}
  /\ MaxEvents \in Nat

VARIABLES todo,     \* the channels a publisher has yet to offer its event to
          reading,  \* the publishers that hold the mutex for reading
          count,    \* events of each publisher so far
          at,       \* where each request's ServeHTTP is
          gone,     \* the requests whose client has gone: r.Context() is done
          subs,     \* SSEHub.subs
          ch,       \* what is in each channel
          sent,     \* what each request has written to its client
          crashed,  \* has a publisher sent on a closed channel?
          owed,     \* history: the events published while a request was in subs
          dropped   \* history: the events that found a request's channel full

publisher == <<todo, reading, count>>
request == <<at, gone>>
vars == <<publisher, request, subs, ch, sent, crashed, owed, dropped>>

Event == [by : Publishers, n : 1 .. MaxEvents]
Current(p) == [by |-> p, n |-> count[p]]           \* the event p is publishing
RangeOf(s) == {s[i] : i \in DOMAIN s}

Init ==
  /\ todo = [p \in Publishers |-> {}]
  /\ reading = {}
  /\ count = [p \in Publishers |-> 0]
  /\ at = [s \in Streams |-> "none"]
  /\ gone = {}
  /\ subs = {}
  /\ ch = [s \in Streams |-> <<>>]
  /\ sent = [s \in Streams |-> <<>>]
  /\ crashed = FALSE
  /\ owed = [s \in Streams |-> {}]
  /\ dropped = [s \in Streams |-> {}]

-----------------------------------------------------------------------------
(***************************************************************************)
(* Publish.                                                                *)
(***************************************************************************)
RLock(p) ==
  /\ p \notin reading
  /\ count[p] < MaxEvents                          \* bound
  /\ count' = [count EXCEPT ![p] = @ + 1]
  /\ reading' = reading \union {p}
  /\ todo' = [todo EXCEPT ![p] = subs]
  /\ owed' = [s \in Streams |-> IF s \in subs THEN owed[s] \union {Current(p)'} ELSE owed[s]]
  /\ UNCHANGED <<request, subs, ch, sent, crashed, dropped>>

\* Faulty variant: the send waits for room in the channel.
OfferWaiting(p, s) ==
  /\ s \in todo[p]
  /\ Len(ch[s]) < Buffer
  /\ ch' = [ch EXCEPT ![s] = Append(@, Current(p))]
  /\ todo' = [todo EXCEPT ![p] = @ \ {s}]
  /\ UNCHANGED <<reading, count, request, subs, sent, crashed, owed, dropped>>

\* The loop over the map comes to a channel, in any order: a send on a closed
\* channel panics, an event that finds its channel full is dropped.
Offer(p, s) ==
  /\ s \in todo[p]
  /\ todo' = [todo EXCEPT ![p] = @ \ {s}]
  /\ \/ /\ s \in subs /\ Len(ch[s]) < Buffer
        /\ ch' = [ch EXCEPT ![s] = Append(@, Current(p))]
        /\ UNCHANGED <<crashed, dropped>>
     \/ /\ s \in subs /\ Len(ch[s]) = Buffer
        /\ dropped' = [dropped EXCEPT ![s] = @ \union {Current(p)}]
        /\ UNCHANGED <<ch, crashed>>
     \/ /\ s \notin subs
        /\ crashed' = TRUE
        /\ UNCHANGED <<ch, dropped>>
  /\ UNCHANGED <<reading, count, request, subs, sent, owed>>

RUnlock(p) ==
  /\ p \in reading
  /\ todo[p] = {}
  /\ reading' = reading \ {p}
  /\ UNCHANGED <<todo, count, request, subs, ch, sent, crashed, owed, dropped>>

-----------------------------------------------------------------------------
(***************************************************************************)
(* ServeHTTP.                                                              *)
(***************************************************************************)
\* statusRecorder embeds the ResponseWriter and has no Flush of its own.
IsFlusher == ~Wrapped

\* Without a Flusher the answer is a 500, which EventSource takes as final.
Request(s) ==
  /\ at[s] = "none"
  /\ at' = [at EXCEPT ![s] = IF IsFlusher THEN "subscribing" ELSE "refused"]
  /\ UNCHANGED <<publisher, gone, subs, ch, sent, crashed, owed, dropped>>

Subscribe(s) ==
  /\ at[s] = "subscribing"
  /\ reading = {}
  /\ at' = [at EXCEPT ![s] = "streaming"]
  /\ subs' = subs \union {s}
  /\ UNCHANGED <<publisher, gone, ch, sent, crashed, owed, dropped>>

\* The loop writes an event and flushes it.
Write(s) ==
  /\ at[s] = "streaming"
  /\ ch[s] # <<>>
  /\ sent' = [sent EXCEPT ![s] = Append(@, Head(ch[s]))]
  /\ ch' = [ch EXCEPT ![s] = Tail(@)]
  /\ UNCHANGED <<publisher, request, subs, crashed, owed, dropped>>

\* The client closes the page or loses the connection, at any time.
Go(s) ==
  /\ at[s] # "none"
  /\ s \notin gone
  /\ gone' = gone \union {s}
  /\ UNCHANGED <<publisher, at, subs, ch, sent, crashed, owed, dropped>>

Leave(s) ==
  /\ at[s] = "streaming"
  /\ s \in gone
  /\ at' = [at EXCEPT ![s] = "leaving"]
  /\ UNCHANGED <<publisher, gone, subs, ch, sent, crashed, owed, dropped>>

\* Faulty variant: the channel is closed without the mutex.
UnsubscribeUnlocked(s) ==
  /\ at[s] = "leaving"
  /\ at' = [at EXCEPT ![s] = "ended"]
  /\ subs' = subs \ {s}
  /\ UNCHANGED <<publisher, gone, ch, sent, crashed, owed, dropped>>

\* Faulty variant: the closed channel stays in the map.
UnsubscribeKept(s) ==
  /\ at[s] = "leaving"
  /\ reading = {}
  /\ at' = [at EXCEPT ![s] = "ended"]
  /\ UNCHANGED <<publisher, gone, subs, ch, sent, crashed, owed, dropped>>

\* The deferred unsubscribe closes the channel: nobody reads what it holds.
Unsubscribe(s) ==
  /\ at[s] = "leaving"
  /\ reading = {}
  /\ at' = [at EXCEPT ![s] = "ended"]
  /\ subs' = subs \ {s}
  /\ UNCHANGED <<publisher, gone, ch, sent, crashed, owed, dropped>>

Next ==
  \/ \E p \in Publishers : \/ RLock(p)
                           \/ \E s \in Streams : Offer(p, s)
                           \/ RUnlock(p)
  \/ \E s \in Streams : \/ Request(s)
                        \/ Subscribe(s)
                        \/ Write(s)
                        \/ Go(s)
                        \/ Leave(s)
                        \/ Unsubscribe(s)

Spec == Init /\ [][Next]_vars

\* The runtime runs whoever can go on, and a select whose context is done
\* takes that case sooner or later.  A client that stays may stop reading,
\* which holds its request's write up: Write is not fair.
FairSpec ==
  /\ Spec
  /\ \A p \in Publishers : /\ WF_vars(\E s \in Streams : Offer(p, s))
                           /\ WF_vars(RUnlock(p))
  /\ \A s \in Streams : /\ WF_vars(Subscribe(s))
                        /\ WF_vars(Leave(s))
                        /\ WF_vars(Unsubscribe(s))

-----------------------------------------------------------------------------
FeedTypeOK ==
  /\ todo \in [Publishers -> SUBSET Streams]
  /\ reading \subseteq Publishers
  /\ count \in [Publishers -> 0 .. MaxEvents]
  /\ at \in [Streams -> {"none", "refused", "subscribing", "streaming", "leaving", "ended"}]
  /\ gone \subseteq Streams
  /\ subs = {s \in Streams : at[s] \in {"streaming", "leaving"}}
  /\ ch \in [Streams -> Seq(Event)]
  /\ sent \in [Streams -> Seq(Event)]
  /\ \A s \in Streams : Len(ch[s]) <= Buffer
  /\ crashed \in BOOLEAN
  /\ owed \in [Streams -> SUBSET Event]
  /\ dropped \in [Streams -> SUBSET Event]

\* A request that ends while events are published brings no publisher down:
\* outside a request nothing recovers the panic of a send on a closed channel.
NeverCrashes == ~crashed

\* Each subscriber gets, has waiting, or is about to be offered every event
\* published while it is in the hub, but for those that found its own channel
\* full: a subscriber that does not read costs the others nothing, and nobody
\* gets an event that is not from the time it subscribed.
OnlyOwnLosses ==
  \A s \in subs :
    owed[s] = RangeOf(sent[s]) \union RangeOf(ch[s]) \union dropped[s]
                \union {Current(p) : p \in {q \in reading : s \in todo[q]}}

\* No subscriber gets an event twice, nor two events of one publisher in the
\* wrong order, however the publishers' loops over the channels cross.
FeedInOrder ==
  \A s \in Streams : LET got == sent[s] \o ch[s] IN
    \A i, j \in DOMAIN got : i < j /\ got[i].by = got[j].by => got[i].n < got[j].n

\* The handler's writes and the channels are the feed of Broadcast: for each
\* subscriber the lock, the loops and the channels make one event after the
\* other reach it or overflow, as if all were offered to everybody at once.
Feed == INSTANCE Broadcast WITH
  due <- [s \in Streams |-> {Current(p) : p \in {q \in reading : s \in todo[q]}}],
  feed <- [s \in Streams |-> sent[s] \o ch[s]],
  read <- [s \in Streams |-> Len(sent[s])]

ImplementsBroadcast == Feed!Spec

\* Whoever publishes goes on, though no client of the feed reads.
PublishEnds == \A p \in Publishers : p \in reading ~> p \notin reading

\* "live bid feed via SSE": a page that asks for events becomes a subscriber,
\* unless it is closed first.
StreamOpens == \A s \in Streams : at[s] # "none" ~> (s \in subs \/ s \in gone)
=============================================================================
