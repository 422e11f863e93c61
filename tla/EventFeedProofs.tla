--------------------------- MODULE EventFeedProofs ---------------------------
(***************************************************************************)
(* Proofs about EventFeed, for any number of publishers, requests and      *)
(* events, any capacity of the channels, and a wrapped or a bare response  *)
(* writer.                                                                 *)
(***************************************************************************)
EXTENDS EventFeed, SequenceTheorems, TLAPS

-----------------------------------------------------------------------------
(***************************************************************************)
(* Sequences of events.                                                    *)
(***************************************************************************)
LEMMA TailOfEvents ==
  ASSUME NEW q \in Seq(Event), q # <<>>
  PROVE  /\ Head(q) \in Event
         /\ Tail(q) \in Seq(Event)
         /\ Len(Tail(q)) = Len(q) - 1
         /\ RangeOf(q) = {Head(q)} \union RangeOf(Tail(q))
<1>1. /\ Head(q) \in Event
      /\ Tail(q) \in Seq(Event)
      /\ Len(Tail(q)) = Len(q) - 1
      /\ \A i \in DOMAIN Tail(q) : i + 1 \in DOMAIN q /\ Tail(q)[i] = q[i + 1]
      /\ \A i \in DOMAIN q : i = 1 \/ i - 1 \in DOMAIN Tail(q)
      /\ 1 \in DOMAIN q /\ Head(q) = q[1]
      /\ DOMAIN q \subseteq Int
  OBVIOUS
<1>2. \A i \in DOMAIN q : q[i] = Head(q) \/ \E j \in DOMAIN Tail(q) : Tail(q)[j] = q[i]
  <2> TAKE i \in DOMAIN q
  <2>1. CASE i = 1
    BY <2>1, <1>1
  <2>2. CASE i # 1
    <3>1. i - 1 \in DOMAIN Tail(q) /\ i - 1 + 1 = i
      BY <2>2, <1>1
    <3> QED  BY <3>1, <1>1
  <2> QED  BY <2>1, <2>2
<1> QED  BY <1>1, <1>2 DEF RangeOf

LEMMA AppendedEvent ==
  ASSUME NEW q \in Seq(Event), NEW e \in Event
  PROVE  /\ Append(q, e) \in Seq(Event)
         /\ Len(Append(q, e)) = Len(q) + 1
         /\ RangeOf(Append(q, e)) = RangeOf(q) \union {e}
<1> DEFINE t == Append(q, e)
<1>1. /\ t \in Seq(Event)
      /\ Len(t) = Len(q) + 1
      /\ \A i \in DOMAIN q : i \in DOMAIN t /\ t[i] = q[i]
      /\ \A i \in DOMAIN t : i \in DOMAIN q \/ i = Len(q) + 1
      /\ Len(q) + 1 \in DOMAIN t /\ t[Len(q) + 1] = e
  OBVIOUS
<1> QED  BY <1>1 DEF RangeOf

-----------------------------------------------------------------------------
(***************************************************************************)
(* The inductive invariant: a publisher has something to offer only while  *)
(* it holds the mutex, and only to channels that are in the hub; a request *)
(* that is not in the hub, or not yet, is owed nothing it has not got.     *)
(***************************************************************************)
Guarded == \A p \in Publishers : /\ todo[p] \subseteq subs
                                 /\ todo[p] # {} => p \in reading
                                 /\ p \in reading => count[p] >= 1

Early == \A s \in Streams : at[s] \in {"none", "refused", "subscribing"} =>
           ch[s] = <<>> /\ sent[s] = <<>> /\ owed[s] = {} /\ dropped[s] = {}

FeedInv == FeedTypeOK /\ NeverCrashes /\ Guarded /\ Early /\ OnlyOwnLosses

LEMMA CurrentType ==
  ASSUME FeedTypeOK, Guarded, NEW p \in Publishers, p \in reading
  PROVE  Current(p) \in Event
  BY FeedAssumption DEF FeedTypeOK, Guarded, Current, Event

\* The events on their way to a subscriber.
Coming(s) == {Current(p) : p \in {q \in reading : s \in todo[q]}}

LEMMA InitFeed == Init => FeedInv
<1> SUFFICES ASSUME Init PROVE FeedInv
  OBVIOUS
<1>1. <<>> \in Seq(Event) /\ Len(<<>>) = 0
  OBVIOUS
<1>2. FeedTypeOK
  <2>1. crashed \in BOOLEAN
    BY DEF Init
  <2>2. /\ todo \in [Publishers -> SUBSET Streams] /\ reading \subseteq Publishers
        /\ at \in [Streams -> {"none"}] /\ gone \subseteq Streams
        /\ subs = {s \in Streams : at[s] \in {"streaming", "leaving"}}
    BY DEF Init
  <2>3. count \in [Publishers -> 0 .. MaxEvents]
    BY FeedAssumption DEF Init
  <2>4. /\ ch \in [Streams -> Seq(Event)] /\ sent \in [Streams -> Seq(Event)]
        /\ \A s \in Streams : Len(ch[s]) <= Buffer
    BY <1>1, FeedAssumption DEF Init
  <2>5. owed \in [Streams -> SUBSET Event] /\ dropped \in [Streams -> SUBSET Event]
    BY DEF Init
  <2> QED  BY <2>1, <2>2, <2>3, <2>4, <2>5 DEF FeedTypeOK
<1>3. NeverCrashes
  BY DEF Init, NeverCrashes
<1>4. Guarded
  BY DEF Init, Guarded
<1>5. Early
  BY DEF Init, Early
<1>6. OnlyOwnLosses
  BY DEF Init, OnlyOwnLosses
<1> QED  BY <1>2, <1>3, <1>4, <1>5, <1>6 DEF FeedInv

-----------------------------------------------------------------------------
(***************************************************************************)
(* A publisher's steps.                                                    *)
(***************************************************************************)
LEMMA RLockKeeps ==
  ASSUME FeedInv, NEW p \in Publishers, RLock(p)
  PROVE  FeedInv'
<1> DEFINE e == Current(p)'
<1> USE FeedAssumption
<1>1. /\ FeedTypeOK /\ NeverCrashes /\ Guarded /\ Early /\ OnlyOwnLosses
      /\ todo[p] = {} /\ p \notin reading
  BY DEF FeedInv, Guarded, FeedTypeOK, RLock
<1>2. /\ count' = [count EXCEPT ![p] = @ + 1]
      /\ reading' = reading \union {p}
      /\ todo' = [todo EXCEPT ![p] = subs]
      /\ at' = at /\ gone' = gone /\ subs' = subs /\ ch' = ch /\ sent' = sent
      /\ crashed' = crashed /\ dropped' = dropped
      /\ owed' = [s \in Streams |-> IF s \in subs THEN owed[s] \union {e} ELSE owed[s]]
      /\ count[p] < MaxEvents
  BY DEF RLock, request
<1>3. /\ count[p] + 1 \in 1 .. MaxEvents
      /\ e = [by |-> p, n |-> count[p] + 1]
      /\ e \in Event
  BY <1>1, <1>2 DEF FeedTypeOK, Current, Event
<1>4. FeedTypeOK'
  <2>1. owed' \in [Streams -> SUBSET Event]
    BY <1>1, <1>2, <1>3 DEF FeedTypeOK
  <2>2. count' \in [Publishers -> 0 .. MaxEvents] /\ todo' \in [Publishers -> SUBSET Streams]
    BY <1>1, <1>2, <1>3 DEF FeedTypeOK
  <2> HIDE DEF e
  <2> QED  BY <1>1, <1>2, <2>1, <2>2 DEF FeedTypeOK
<1>5. NeverCrashes'
  BY <1>1, <1>2, Zenon DEF NeverCrashes
<1>6. Guarded'
  BY <1>1, <1>2 DEF Guarded, FeedTypeOK
<1>7. Early'
  BY <1>1, <1>2 DEF Early, FeedTypeOK
<1>8. OnlyOwnLosses'
  <2> SUFFICES ASSUME NEW s \in subs
               PROVE  owed'[s] = RangeOf(sent[s]) \union RangeOf(ch[s]) \union dropped[s] \union Coming(s)'
    BY <1>2 DEF OnlyOwnLosses, Coming
  <2>1. s \in Streams
    BY <1>1 DEF FeedTypeOK
  <2>2. \A q \in reading : q # p /\ Current(q)' = Current(q) /\ todo'[q] = todo[q]
    BY <1>1, <1>2 DEF FeedTypeOK, Current
  <2>3. todo'[p] = subs
    BY <1>1, <1>2 DEF FeedTypeOK
  <2>4. Coming(s)' = Coming(s) \union {e}
    BY <1>2, <2>2, <2>3 DEF Coming
  <2>5. owed'[s] = owed[s] \union {e}
    BY <1>2, <2>1
  <2>6. owed[s] = RangeOf(sent[s]) \union RangeOf(ch[s]) \union dropped[s] \union Coming(s)
    BY <1>1 DEF OnlyOwnLosses, Coming
  <2> HIDE DEF e
  <2> QED  BY <2>4, <2>5, <2>6
<1> QED  BY <1>4, <1>5, <1>6, <1>7, <1>8 DEF FeedInv

LEMMA OfferKeeps ==
  ASSUME FeedInv, NEW p \in Publishers, NEW s \in Streams, Offer(p, s)
  PROVE  FeedInv'
<1> DEFINE e == Current(p)
<1> USE FeedAssumption
<1>1. /\ FeedTypeOK /\ NeverCrashes /\ Guarded /\ Early /\ OnlyOwnLosses
      /\ s \in todo[p] /\ s \in subs /\ p \in reading
  BY DEF FeedInv, Guarded, FeedTypeOK, Offer
<1>2. /\ todo' = [todo EXCEPT ![p] = @ \ {s}]
      /\ reading' = reading /\ count' = count /\ at' = at /\ gone' = gone /\ subs' = subs
      /\ sent' = sent /\ owed' = owed /\ crashed' = crashed
      /\ \/ Len(ch[s]) < Buffer /\ ch' = [ch EXCEPT ![s] = Append(@, e)] /\ dropped' = dropped
         \/ dropped' = [dropped EXCEPT ![s] = @ \union {e}] /\ ch' = ch
  BY <1>1, Zenon DEF Offer, request
<1>3. e \in Event
  BY <1>1, CurrentType
<1>4. at[s] \in {"streaming", "leaving"}
  BY <1>1 DEF FeedTypeOK
<1>5. todo' \in [Publishers -> SUBSET Streams]
  BY <1>1, <1>2 DEF FeedTypeOK
<1>6. NeverCrashes'
  BY <1>1, <1>2, Zenon DEF NeverCrashes
<1>7. Guarded'
  BY <1>1, <1>2 DEF Guarded, FeedTypeOK
<1>8. \A t \in Streams \ {s} : Coming(t)' = Coming(t)
  <2> TAKE t \in Streams \ {s}
  <2>1. \A q \in reading : Current(q)' = Current(q) /\ (t \in todo'[q] <=> t \in todo[q])
    BY <1>1, <1>2 DEF FeedTypeOK, Current
  <2> QED  BY <1>2, <2>1 DEF Coming
<1>9. Coming(s) = Coming(s)' \union {e}
  <2>1. \A q \in reading : Current(q)' = Current(q) /\ (s \in todo'[q] <=> q # p /\ s \in todo[q])
    BY <1>1, <1>2 DEF FeedTypeOK, Current
  <2> QED  BY <1>1, <1>2, <2>1 DEF Coming
<1>10. \A t \in subs : t \in Streams /\ owed[t] = RangeOf(sent[t]) \union RangeOf(ch[t]) \union dropped[t] \union Coming(t)
  BY <1>1 DEF OnlyOwnLosses, Coming, FeedTypeOK
<1> HIDE DEF e
<1>11. CASE Len(ch[s]) < Buffer /\ ch' = [ch EXCEPT ![s] = Append(@, e)] /\ dropped' = dropped
  <2>1. /\ Append(ch[s], e) \in Seq(Event)
        /\ Len(Append(ch[s], e)) = Len(ch[s]) + 1
        /\ RangeOf(Append(ch[s], e)) = RangeOf(ch[s]) \union {e}
        /\ ch[s] \in Seq(Event) /\ Len(ch[s]) \in Nat
    <3>1. ch[s] \in Seq(Event)
      BY <1>1 DEF FeedTypeOK
    <3> QED  BY <1>3, <3>1, AppendedEvent
  <2>2. ch'[s] = Append(ch[s], e) /\ \A t \in Streams \ {s} : ch'[t] = ch[t]
    BY <1>1, <1>11 DEF FeedTypeOK
  <2>3. ch' \in [Streams -> Seq(Event)]
    BY <1>1, <1>11, <2>1 DEF FeedTypeOK
  <2>4. \A t \in Streams : Len(ch'[t]) <= Buffer
    BY <1>1, <1>11, <2>1, <2>2 DEF FeedTypeOK
  <2>5. FeedTypeOK'
    BY <1>1, <1>2, <1>5, <1>11, <2>3, <2>4 DEF FeedTypeOK
  <2>6. Early'
    BY <1>1, <1>2, <1>4, <1>11, <2>2 DEF Early
  <2>7. OnlyOwnLosses'
    <3> SUFFICES ASSUME NEW t \in subs
                 PROVE  owed[t] = RangeOf(sent[t]) \union RangeOf(ch'[t]) \union dropped[t] \union Coming(t)'
      BY <1>2, <1>11 DEF OnlyOwnLosses, Coming
    <3>1. CASE t = s
      BY <3>1, <1>9, <1>10, <2>1, <2>2
    <3>2. CASE t # s
      BY <3>2, <1>8, <1>10, <2>2
    <3> QED  BY <3>1, <3>2
  <2> QED  BY <1>6, <1>7, <2>5, <2>6, <2>7 DEF FeedInv
<1>12. CASE dropped' = [dropped EXCEPT ![s] = @ \union {e}] /\ ch' = ch
  <2>2. dropped'[s] = dropped[s] \union {e} /\ \A t \in Streams \ {s} : dropped'[t] = dropped[t]
    BY <1>1, <1>12 DEF FeedTypeOK
  <2>3. dropped' \in [Streams -> SUBSET Event]
    BY <1>1, <1>3, <1>12 DEF FeedTypeOK
  <2>5. FeedTypeOK'
    BY <1>1, <1>2, <1>5, <1>12, <2>3 DEF FeedTypeOK
  <2>6. Early'
    BY <1>1, <1>2, <1>4, <1>12, <2>2 DEF Early
  <2>7. OnlyOwnLosses'
    <3> SUFFICES ASSUME NEW t \in subs
                 PROVE  owed[t] = RangeOf(sent[t]) \union RangeOf(ch[t]) \union dropped'[t] \union Coming(t)'
      BY <1>2, <1>12 DEF OnlyOwnLosses, Coming
    <3>1. CASE t = s
      BY <3>1, <1>9, <1>10, <2>2
    <3>2. CASE t # s
      BY <3>2, <1>8, <1>10, <2>2
    <3> QED  BY <3>1, <3>2
  <2> QED  BY <1>6, <1>7, <2>5, <2>6, <2>7 DEF FeedInv
<1> QED  BY <1>2, <1>11, <1>12

LEMMA RUnlockKeeps ==
  ASSUME FeedInv, NEW p \in Publishers, RUnlock(p)
  PROVE  FeedInv'
<1>1. /\ FeedTypeOK /\ NeverCrashes /\ Guarded /\ Early /\ OnlyOwnLosses
      /\ todo[p] = {}
  BY DEF FeedInv, RUnlock
<1>2. /\ reading' = reading \ {p}
      /\ todo' = todo /\ count' = count /\ at' = at /\ gone' = gone /\ subs' = subs /\ ch' = ch
      /\ sent' = sent /\ crashed' = crashed /\ owed' = owed /\ dropped' = dropped
  BY DEF RUnlock, request
<1>3. FeedTypeOK'
  BY <1>1, <1>2 DEF FeedTypeOK
<1>4. NeverCrashes'
  BY <1>1, <1>2, Zenon DEF NeverCrashes
<1>5. Guarded' /\ Early'
  BY <1>1, <1>2 DEF Guarded, Early
<1>6. \A s \in Streams : Coming(s)' = Coming(s)
  <2>1. \A q \in Publishers : Current(q)' = Current(q)
    BY <1>2 DEF Current
  <2> QED  BY <1>1, <1>2, <2>1 DEF Coming, FeedTypeOK
<1>7. OnlyOwnLosses'
  BY <1>1, <1>2, <1>6 DEF OnlyOwnLosses, Coming, FeedTypeOK
<1> QED  BY <1>3, <1>4, <1>5, <1>7 DEF FeedInv

-----------------------------------------------------------------------------
(***************************************************************************)
(* A request's steps.  Whatever changes subs holds the mutex alone: nobody *)
(* has anything left to offer.                                             *)
(***************************************************************************)
LEMMA AloneMeansNothingComing ==
  ASSUME FeedInv, reading = {}
  PROVE  (\A p \in Publishers : todo[p] = {}) /\ (\A s \in Streams : Coming(s) = {})
<1>1. \A p \in Publishers : todo[p] = {}
  BY DEF FeedInv, Guarded
<1>2. \A s \in Streams : Coming(s) = {}
  BY DEF Coming
<1> QED  BY <1>1, <1>2

\* A step that changes neither what is published nor what a subscriber has.
LEMMA QuietKeeps ==
  ASSUME FeedInv, UNCHANGED <<publisher, ch, sent, crashed, owed, dropped>>,
         FeedTypeOK', Early',
         \A p \in Publishers : todo[p] \subseteq subs',
         \A s \in subs' \ subs : owed[s] = {} /\ dropped[s] = {} /\ ch[s] = <<>> /\ sent[s] = <<>>
                                   /\ Coming(s) = {}
  PROVE  FeedInv'
<1>1. /\ FeedTypeOK /\ NeverCrashes /\ Guarded /\ OnlyOwnLosses
      /\ todo' = todo /\ reading' = reading /\ count' = count /\ ch' = ch /\ sent' = sent
      /\ crashed' = crashed /\ owed' = owed /\ dropped' = dropped
  BY DEF FeedInv, publisher
<1>2. NeverCrashes'
  <2>1. crashed' = crashed /\ ~crashed
    BY Zenon DEF FeedInv, NeverCrashes
  <2> QED  BY <2>1 DEF NeverCrashes
<1>3. Guarded'
  BY <1>1 DEF Guarded
<1>4. OnlyOwnLosses'
  <2> SUFFICES ASSUME NEW s \in subs'
               PROVE  owed[s] = RangeOf(sent[s]) \union RangeOf(ch[s]) \union dropped[s] \union Coming(s)
    BY <1>1 DEF OnlyOwnLosses, Coming, Current
  <2>1. CASE s \in subs
    BY <2>1, <1>1 DEF OnlyOwnLosses, Coming
  <2>2. CASE s \notin subs
    <3>1. RangeOf(<<>>) = {}
      BY DEF RangeOf
    <3> QED  BY <2>2, <3>1
  <2> QED  BY <2>1, <2>2
<1> QED  BY <1>2, <1>3, <1>4 DEF FeedInv

LEMMA RequestKeeps ==
  ASSUME FeedInv, NEW s \in Streams, Request(s)
  PROVE  FeedInv'
<1>1. /\ FeedTypeOK /\ Guarded /\ Early /\ at[s] = "none"
      /\ at' = [at EXCEPT ![s] = IF IsFlusher THEN "subscribing" ELSE "refused"]
      /\ UNCHANGED <<publisher, ch, sent, crashed, owed, dropped>>
      /\ gone' = gone /\ subs' = subs
  BY DEF FeedInv, Request
<1>2. /\ at'[s] \in {"refused", "subscribing"}
      /\ \A t \in Streams \ {s} : at'[t] = at[t]
      /\ DOMAIN at' = Streams /\ at' = [t \in Streams |-> at'[t]]
  BY <1>1 DEF FeedTypeOK
<1>3. FeedTypeOK'
  BY <1>1, <1>2 DEF FeedTypeOK, publisher
<1>4. Early'
  BY <1>1, <1>2 DEF Early
<1> QED  BY <1>1, <1>3, <1>4, QuietKeeps DEF Guarded

LEMMA SubscribeKeeps ==
  ASSUME FeedInv, NEW s \in Streams, Subscribe(s)
  PROVE  FeedInv'
<1>1. /\ FeedTypeOK /\ Guarded /\ Early /\ at[s] = "subscribing" /\ reading = {}
      /\ at' = [at EXCEPT ![s] = "streaming"]
      /\ UNCHANGED <<publisher, ch, sent, crashed, owed, dropped>>
      /\ gone' = gone /\ subs' = subs \union {s}
  BY DEF FeedInv, Subscribe
<1>2. /\ at'[s] = "streaming"
      /\ \A t \in Streams \ {s} : at'[t] = at[t]
      /\ DOMAIN at' = Streams /\ at' = [t \in Streams |-> at'[t]]
  BY <1>1 DEF FeedTypeOK
<1>3. FeedTypeOK'
  BY <1>1, <1>2 DEF FeedTypeOK, publisher
<1>4. Early'
  BY <1>1, <1>2 DEF Early
<1>5. owed[s] = {} /\ dropped[s] = {} /\ ch[s] = <<>> /\ sent[s] = <<>>
  BY <1>1 DEF Early
<1>6. Coming(s) = {}
  BY <1>1, AloneMeansNothingComing
<1> QED  BY <1>1, <1>3, <1>4, <1>5, <1>6, QuietKeeps DEF Guarded

LEMMA WriteKeeps ==
  ASSUME FeedInv, NEW s \in Streams, Write(s)
  PROVE  FeedInv'
<1> DEFINE e == Head(ch[s])
<1>1. /\ FeedTypeOK /\ NeverCrashes /\ Guarded /\ Early /\ OnlyOwnLosses
      /\ at[s] = "streaming" /\ ch[s] # <<>>
  BY DEF FeedInv, Write
<1>2. /\ sent' = [sent EXCEPT ![s] = Append(@, e)]
      /\ ch' = [ch EXCEPT ![s] = Tail(@)]
      /\ todo' = todo /\ reading' = reading /\ count' = count /\ at' = at /\ gone' = gone
      /\ subs' = subs /\ crashed' = crashed /\ owed' = owed /\ dropped' = dropped
  BY DEF Write, publisher, request
<1>3. ch[s] \in Seq(Event) /\ sent[s] \in Seq(Event) /\ Len(ch[s]) \in Nat
  BY <1>1 DEF FeedTypeOK
<1>4. /\ e \in Event /\ Tail(ch[s]) \in Seq(Event)
      /\ Len(Tail(ch[s])) = Len(ch[s]) - 1
      /\ RangeOf(ch[s]) = {e} \union RangeOf(Tail(ch[s]))
  BY <1>1, <1>3, TailOfEvents
<1>5. /\ Append(sent[s], e) \in Seq(Event)
      /\ RangeOf(Append(sent[s], e)) = RangeOf(sent[s]) \union {e}
  BY <1>3, <1>4, AppendedEvent
<1> HIDE DEF e
<1>6. /\ ch'[s] = Tail(ch[s]) /\ sent'[s] = Append(sent[s], e)
      /\ \A t \in Streams \ {s} : ch'[t] = ch[t] /\ sent'[t] = sent[t]
  BY <1>1, <1>2 DEF FeedTypeOK
<1>7. FeedTypeOK'
  <2>1. ch' \in [Streams -> Seq(Event)]
    BY <1>1, <1>2, <1>4 DEF FeedTypeOK
  <2>2. sent' \in [Streams -> Seq(Event)]
    BY <1>1, <1>2, <1>5 DEF FeedTypeOK
  <2>3. \A t \in Streams : Len(ch'[t]) <= Buffer
    <3>1. Len(ch'[s]) <= Buffer
      <4>1. Len(ch[s]) <= Buffer
        BY <1>1 DEF FeedTypeOK
      <4> QED  BY <4>1, <1>3, <1>4, <1>6, FeedAssumption
    <3>2. \A t \in Streams \ {s} : Len(ch'[t]) <= Buffer
      BY <1>1, <1>6 DEF FeedTypeOK
    <3> QED  BY <3>1, <3>2
  <2> QED  BY <1>1, <1>2, <2>1, <2>2, <2>3 DEF FeedTypeOK
<1>8. NeverCrashes'
  BY <1>1, <1>2, Zenon DEF NeverCrashes
<1>9. Guarded' /\ Early'
  <2>1. Guarded'
    BY <1>1, <1>2 DEF Guarded
  <2>2. Early'
    BY <1>1, <1>2, <1>6 DEF Early
  <2> QED  BY <2>1, <2>2
<1>10. OnlyOwnLosses'
  <2> SUFFICES ASSUME NEW t \in subs
               PROVE  owed[t] = RangeOf(sent'[t]) \union RangeOf(ch'[t]) \union dropped[t] \union Coming(t)
    BY <1>2 DEF OnlyOwnLosses, Coming, Current
  <2>1. /\ t \in Streams
        /\ owed[t] = RangeOf(sent[t]) \union RangeOf(ch[t]) \union dropped[t] \union Coming(t)
    BY <1>1 DEF OnlyOwnLosses, Coming, FeedTypeOK
  <2>2. CASE t = s
    BY <2>1, <2>2, <1>4, <1>5, <1>6
  <2>3. CASE t # s
    BY <2>1, <2>3, <1>6
  <2> QED  BY <2>2, <2>3
<1> QED  BY <1>7, <1>8, <1>9, <1>10 DEF FeedInv

LEMMA GoKeeps ==
  ASSUME FeedInv, NEW s \in Streams, Go(s)
  PROVE  FeedInv'
<1>1. /\ FeedTypeOK /\ Guarded /\ Early
      /\ UNCHANGED <<publisher, ch, sent, crashed, owed, dropped>>
      /\ gone' = gone \union {s} /\ at' = at /\ subs' = subs
  BY DEF FeedInv, Go
<1>2. FeedTypeOK' /\ Early'
  BY <1>1 DEF FeedTypeOK, Early, publisher
<1> QED  BY <1>1, <1>2, QuietKeeps DEF Guarded

LEMMA LeaveKeeps ==
  ASSUME FeedInv, NEW s \in Streams, Leave(s)
  PROVE  FeedInv'
<1>1. /\ FeedTypeOK /\ Guarded /\ Early /\ at[s] = "streaming"
      /\ at' = [at EXCEPT ![s] = "leaving"]
      /\ UNCHANGED <<publisher, ch, sent, crashed, owed, dropped>>
      /\ gone' = gone /\ subs' = subs
  BY DEF FeedInv, Leave
<1>2. /\ at'[s] = "leaving"
      /\ \A t \in Streams \ {s} : at'[t] = at[t]
      /\ DOMAIN at' = Streams /\ at' = [t \in Streams |-> at'[t]]
  BY <1>1 DEF FeedTypeOK
<1>3. FeedTypeOK'
  BY <1>1, <1>2 DEF FeedTypeOK, publisher
<1>4. Early'
  BY <1>1, <1>2 DEF Early
<1> QED  BY <1>1, <1>3, <1>4, QuietKeeps DEF Guarded

LEMMA UnsubscribeKeeps ==
  ASSUME FeedInv, NEW s \in Streams, Unsubscribe(s)
  PROVE  FeedInv'
<1>1. /\ FeedTypeOK /\ Guarded /\ Early /\ at[s] = "leaving" /\ reading = {}
      /\ at' = [at EXCEPT ![s] = "ended"]
      /\ UNCHANGED <<publisher, ch, sent, crashed, owed, dropped>>
      /\ gone' = gone /\ subs' = subs \ {s}
  BY DEF FeedInv, Unsubscribe
<1>2. /\ at'[s] = "ended"
      /\ \A t \in Streams \ {s} : at'[t] = at[t]
      /\ DOMAIN at' = Streams /\ at' = [t \in Streams |-> at'[t]]
  BY <1>1 DEF FeedTypeOK
<1>3. FeedTypeOK'
  BY <1>1, <1>2 DEF FeedTypeOK, publisher
<1>4. Early'
  BY <1>1, <1>2 DEF Early
<1>5. \A p \in Publishers : todo[p] \subseteq subs'
  BY <1>1, AloneMeansNothingComing
<1> QED  BY <1>1, <1>3, <1>4, <1>5, QuietKeeps

-----------------------------------------------------------------------------
LEMMA FeedStep == FeedInv /\ [Next]_vars => FeedInv'
<1> SUFFICES ASSUME FeedInv, [Next]_vars PROVE FeedInv'
  OBVIOUS
<1>1. CASE UNCHANGED vars
  BY <1>1 DEF vars, publisher, request, FeedInv, FeedTypeOK, NeverCrashes, Guarded, Early,
              OnlyOwnLosses, Current
<1>2. ASSUME NEW p \in Publishers, RLock(p) PROVE FeedInv'
  BY <1>2, RLockKeeps
<1>3. ASSUME NEW p \in Publishers, NEW s \in Streams, Offer(p, s) PROVE FeedInv'
  BY <1>3, OfferKeeps
<1>4. ASSUME NEW p \in Publishers, RUnlock(p) PROVE FeedInv'
  BY <1>4, RUnlockKeeps
<1>5. ASSUME NEW s \in Streams, Request(s) PROVE FeedInv'
  BY <1>5, RequestKeeps
<1>6. ASSUME NEW s \in Streams, Subscribe(s) PROVE FeedInv'
  BY <1>6, SubscribeKeeps
<1>7. ASSUME NEW s \in Streams, Write(s) PROVE FeedInv'
  BY <1>7, WriteKeeps
<1>8. ASSUME NEW s \in Streams, Go(s) PROVE FeedInv'
  BY <1>8, GoKeeps
<1>9. ASSUME NEW s \in Streams, Leave(s) PROVE FeedInv'
  BY <1>9, LeaveKeeps
<1>10. ASSUME NEW s \in Streams, Unsubscribe(s) PROVE FeedInv'
  BY <1>10, UnsubscribeKeeps
<1> QED  BY <1>1, <1>2, <1>3, <1>4, <1>5, <1>6, <1>7, <1>8, <1>9, <1>10 DEF Next

LEMMA FeedInvariant == Spec => []FeedInv
  BY InitFeed, FeedStep, PTL DEF Spec

\* The state of the hub of events is well typed, its map holds the channels
\* that are open and no other, and no channel exceeds its capacity.
THEOREM FeedTypeCorrect == Spec => []FeedTypeOK
<1>1. FeedInv => FeedTypeOK
  BY DEF FeedInv
<1> QED  BY <1>1, FeedInvariant, PTL

\* No publisher sends on a closed channel, however requests come and go.
THEOREM NoCrash == Spec => []NeverCrashes
<1>1. FeedInv => NeverCrashes
  BY DEF FeedInv
<1> QED  BY <1>1, FeedInvariant, PTL

\* Each subscriber misses only the events that found its own channel full.
THEOREM LossesAreOwn == Spec => []OnlyOwnLosses
<1>1. FeedInv => OnlyOwnLosses
  BY DEF FeedInv
<1> QED  BY <1>1, FeedInvariant, PTL

-----------------------------------------------------------------------------
(***************************************************************************)
(* The refinement of Broadcast.                                            *)
(***************************************************************************)
LEMMA AppendedToFeed ==
  ASSUME NEW w \in Seq(Event), NEW q \in Seq(Event), NEW e \in Event
  PROVE  /\ w \o Append(q, e) = Append(w \o q, e)
         /\ Len(w \o q) - Len(w) = Len(q)
<1>1. <<e>> \in Seq(Event) /\ w \o q \in Seq(Event)
  BY ConcatProperties
<1>2. w \o (q \o <<e>>) = (w \o q) \o <<e>>
  BY <1>1, ConcatAssociative
<1>3. Append(q, e) = q \o <<e>> /\ Append(w \o q, e) = (w \o q) \o <<e>>
  BY <1>1, AppendIsConcat
<1>4. Len(w \o q) = Len(w) + Len(q) /\ Len(w) \in Nat /\ Len(q) \in Nat
  BY ConcatProperties, LenProperties
<1> QED  BY <1>2, <1>3, <1>4

\* What a handler writes stays where it is in the feed.
LEMMA WrittenFromFeed ==
  ASSUME NEW w \in Seq(Event), NEW q \in Seq(Event), q # <<>>
  PROVE  /\ Append(w, Head(q)) \o Tail(q) = w \o q
         /\ Len(Append(w, Head(q))) = Len(w) + 1
         /\ Len(w) < Len(w \o q)
<1>1. Head(q) \in Event /\ Tail(q) \in Seq(Event) /\ Len(Tail(q)) = Len(q) - 1
  BY HeadTailProperties
<1>2. <<Head(q)>> \in Seq(Event) /\ Append(w, Head(q)) = w \o <<Head(q)>>
  BY <1>1, AppendIsConcat
<1>3. (w \o <<Head(q)>>) \o Tail(q) = w \o (<<Head(q)>> \o Tail(q))
  BY <1>1, <1>2, ConcatAssociative
<1>4. <<Head(q)>> \o Tail(q) = q
  BY <1>1
<1>5. Len(Append(w, Head(q))) = Len(w) + 1
  BY <1>1, AppendProperties
<1>6. Len(w \o q) = Len(w) + Len(q) /\ Len(w) \in Nat /\ Len(q) \in Nat /\ Len(q) # 0
  BY ConcatProperties, LenProperties, EmptySeq
<1> QED  BY <1>2, <1>3, <1>4, <1>5, <1>6

Due == [s \in Streams |-> Coming(s)]
Got == [s \in Streams |-> sent[s] \o ch[s]]
Written == [s \in Streams |-> Len(sent[s])]

LEMMA FeedIs ==
  /\ Due = [s \in Streams |-> {Current(p) : p \in {q \in reading : s \in todo[q]}}]
  /\ Got = [s \in Streams |-> sent[s] \o ch[s]]
  /\ Written = [s \in Streams |-> Len(sent[s])]
  BY DEF Due, Got, Written, Coming

LEMMA RLockPublishes ==
  ASSUME FeedInv, NEW p \in Publishers, RLock(p)
  PROVE  Feed!Publish(p)
<1>1. /\ p \notin reading /\ count[p] < MaxEvents /\ count' = [count EXCEPT ![p] = @ + 1]
      /\ reading' = reading \union {p} /\ todo' = [todo EXCEPT ![p] = subs]
      /\ UNCHANGED <<subs, sent, ch>>
  BY DEF RLock
<1>2. todo \in [Publishers -> SUBSET Streams] /\ reading \subseteq Publishers
      /\ count \in [Publishers -> 0 .. MaxEvents]
  BY DEF FeedInv, FeedTypeOK
<1>3. \A s \in Streams : \A e \in Coming(s) : e.by # p
  BY <1>1 DEF Coming, Current
<1>4. \A q \in reading : Current(q)' = Current(q) /\ todo'[q] = todo[q]
  BY <1>1, <1>2 DEF Current
<1>5. Current(p)' = [by |-> p, n |-> count'[p]] /\ todo'[p] = subs
  BY <1>1, <1>2 DEF Current
<1>6. \A s \in Streams :
        Coming(s)' = IF s \in subs THEN Coming(s) \union {[by |-> p, n |-> count'[p]]}
                                   ELSE Coming(s)
  <2> TAKE s \in Streams
  <2>1. {q \in reading' : s \in todo'[q]}
          = {q \in reading : s \in todo[q]} \union (IF s \in subs THEN {p} ELSE {})
    BY <1>1, <1>4, <1>5
  <2> QED  BY <2>1, <1>4, <1>5 DEF Coming
<1> QED  BY <1>1, <1>3, <1>6, FeedIs DEF Feed!Publish, Due, Got, Written, Coming

\* An offer takes the event off the way to that subscriber and to no other.
LEMMA OfferSettles ==
  ASSUME FeedInv, NEW p \in Publishers, NEW s \in Streams, Offer(p, s)
  PROVE  /\ Current(p) \in Event
         /\ s \in subs
         /\ Current(p) \in Due[s]
         /\ Due' = [Due EXCEPT ![s] = @ \ {Current(p)}]
<1>1. /\ s \in todo[p] /\ todo' = [todo EXCEPT ![p] = @ \ {s}]
      /\ UNCHANGED <<reading, count>>
  BY DEF Offer
<1>2. todo \in [Publishers -> SUBSET Streams] /\ reading \subseteq Publishers
  BY DEF FeedInv, FeedTypeOK
<1>3. p \in reading /\ s \in subs
  BY <1>1 DEF FeedInv, Guarded
<1>4. Current(p) \in Event
  BY <1>3, CurrentType DEF FeedInv
<1>5. \A q, r \in reading : Current(q) = Current(r) => q = r
  BY DEF Current
<1>6. \A q \in reading : Current(q)' = Current(q)
  BY <1>1 DEF Current
<1>7. \A t \in Streams : Coming(t)' = IF t = s THEN Coming(t) \ {Current(p)} ELSE Coming(t)
  <2> TAKE t \in Streams
  <2>1. {q \in reading' : t \in todo'[q]}
          = {q \in reading : t \in todo[q]} \ (IF t = s THEN {p} ELSE {})
    BY <1>1, <1>2, <1>3
  <2> QED  BY <2>1, <1>3, <1>5, <1>6 DEF Coming
<1> QED  BY <1>1, <1>3, <1>4, <1>7 DEF Due, Coming

LEMMA OfferIsGetOrLose ==
  ASSUME FeedInv, NEW p \in Publishers, NEW s \in Streams, Offer(p, s),
         NEW e, e = Current(p)
  PROVE  Feed!Get(s, e) \/ Feed!Lose(s, e)
<1>1. e \in Event /\ s \in subs /\ e \in Due[s] /\ Due' = [Due EXCEPT ![s] = @ \ {e}]
  BY OfferSettles
<1>2. sent[s] \in Seq(Event) /\ ch[s] \in Seq(Event) /\ ch \in [Streams -> Seq(Event)]
  BY DEF FeedInv, FeedTypeOK
<1>3. UNCHANGED <<count, subs, sent>> /\ Written' = Written
  BY DEF Offer, Written
<1>4. Feed!Settle(s, e)
  BY <1>1, <1>3, FeedIs DEF Feed!Settle, Due, Coming, Written
<1>5. Got[s] = sent[s] \o ch[s] /\ Len(Got[s]) - Written[s] = Len(ch[s])
  BY <1>1, <1>2, AppendedToFeed DEF Got, Written
<1>6. CASE Len(ch[s]) < Buffer /\ ch' = [ch EXCEPT ![s] = Append(@, e)]
  <2>1. sent[s] \o Append(ch[s], e) = Append(sent[s] \o ch[s], e)
    BY <1>1, <1>2, AppendedToFeed
  <2>2. Got' = [Got EXCEPT ![s] = Append(@, e)]
    BY <1>2, <1>3, <1>6, <2>1 DEF Got
  <2> QED  BY <1>4, <1>5, <1>6, <2>2 DEF Feed!Get, Got, Written
<1>7. CASE Len(ch[s]) = Buffer /\ UNCHANGED ch
  BY <1>3, <1>4, <1>5, <1>7 DEF Feed!Lose, Got, Written
<1> QED  BY <1>1, <1>6, <1>7 DEF Offer

LEMMA WriteReads ==
  ASSUME FeedInv, NEW s \in Streams, Write(s)
  PROVE  Feed!Read(s)
<1>1. /\ ch[s] # <<>> /\ sent' = [sent EXCEPT ![s] = Append(@, Head(ch[s]))]
      /\ ch' = [ch EXCEPT ![s] = Tail(@)]
      /\ UNCHANGED <<count, subs, todo, reading>>
  BY DEF Write, publisher
<1>2. /\ sent \in [Streams -> Seq(Event)] /\ ch \in [Streams -> Seq(Event)]
      /\ sent[s] \in Seq(Event) /\ ch[s] \in Seq(Event)
  BY DEF FeedInv, FeedTypeOK
<1>3. /\ Append(sent[s], Head(ch[s])) \o Tail(ch[s]) = sent[s] \o ch[s]
      /\ Len(Append(sent[s], Head(ch[s]))) = Len(sent[s]) + 1
      /\ Len(sent[s]) < Len(sent[s] \o ch[s])
  BY <1>1, <1>2, WrittenFromFeed
<1>4. Got' = Got /\ Written' = [Written EXCEPT ![s] = @ + 1] /\ Written[s] < Len(Got[s])
  BY <1>1, <1>2, <1>3 DEF Got, Written
<1>5. Due' = Due
  BY <1>1 DEF Due, Coming, Current
<1> QED  BY <1>1, <1>4, <1>5 DEF Feed!Read, Got, Written, Due, Coming

LEMMA SubscribeJoins ==
  ASSUME FeedInv, NEW s \in Streams, Subscribe(s)
  PROVE  Feed!Join(s)
<1>1. at[s] = "subscribing" /\ subs' = subs \union {s}
      /\ UNCHANGED <<count, todo, reading, sent, ch>>
  BY DEF Subscribe, publisher
<1>2. s \notin subs /\ sent[s] = <<>> /\ ch[s] = <<>>
  BY <1>1 DEF FeedInv, FeedTypeOK, Early
<1>3. Got[s] = <<>>
  BY <1>2 DEF Got
<1> QED  BY <1>1, <1>2, <1>3 DEF Feed!Join, Got, Current

\* A request that ends holds the mutex, so nothing is on its way to anybody.
LEMMA UnsubscribeLeaves ==
  ASSUME FeedInv, NEW s \in Streams, Unsubscribe(s)
  PROVE  Feed!Leave(s)
<1>1. at[s] = "leaving" /\ reading = {} /\ subs' = subs \ {s}
      /\ UNCHANGED <<count, todo, reading, sent, ch>>
  BY DEF Unsubscribe, publisher
<1>2. s \in subs
  BY <1>1 DEF FeedInv, FeedTypeOK
<1>3. Due[s] = {}
  BY <1>1 DEF Due, Coming
<1> QED  BY <1>1, <1>2, <1>3 DEF Feed!Leave, Due, Coming, Current

\* Every step of the hub of events is one of the broadcast, or none.
LEMMA FeedStepImplements == FeedInv /\ [Next]_vars => [Feed!Next]_(Feed!vars)
<1> SUFFICES ASSUME FeedInv, [Next]_vars PROVE Feed!Next \/ UNCHANGED Feed!vars
  OBVIOUS
<1>1. ASSUME UNCHANGED <<todo, reading, count, subs, ch, sent>>
      PROVE  UNCHANGED Feed!vars
  BY <1>1 DEF Feed!vars, Current
<1>2. ASSUME NEW p \in Publishers, RLock(p) PROVE Feed!Next
  BY <1>2, RLockPublishes DEF Feed!Next
<1>3. ASSUME NEW p \in Publishers, NEW s \in Streams, Offer(p, s) PROVE Feed!Next
  <2>1. PICK e : e = Current(p)
    OBVIOUS
  <2>2. e \in Feed!Event
    BY <1>3, <2>1, OfferSettles DEF Feed!Event, Event
  <2>3. Feed!Get(s, e) \/ Feed!Lose(s, e)
    BY <1>3, <2>1, OfferIsGetOrLose
  <2> QED  BY <2>2, <2>3 DEF Feed!Next
<1>4. ASSUME NEW p \in Publishers, RUnlock(p) PROVE UNCHANGED Feed!vars
  <2>1. p \in reading /\ todo[p] = {} /\ reading' = reading \ {p}
        /\ UNCHANGED <<todo, count, subs, ch, sent>>
    BY <1>4 DEF RUnlock
  <2>2. \A s \in Streams : {q \in reading' : s \in todo'[q]} = {q \in reading : s \in todo[q]}
    BY <2>1
  <2> QED  BY <2>1, <2>2 DEF Feed!vars, Current
<1>5. ASSUME NEW s \in Streams, Request(s) \/ Go(s) \/ Leave(s)
      PROVE  UNCHANGED Feed!vars
  BY <1>1, <1>5 DEF Request, Go, Leave, publisher
<1>6. ASSUME NEW s \in Streams, Subscribe(s) PROVE Feed!Next
  BY <1>6, SubscribeJoins DEF Feed!Next
<1>7. ASSUME NEW s \in Streams, Write(s) PROVE Feed!Next
  BY <1>7, WriteReads DEF Feed!Next
<1>8. ASSUME NEW s \in Streams, Unsubscribe(s) PROVE Feed!Next
  BY <1>8, UnsubscribeLeaves DEF Feed!Next
<1>9. CASE UNCHANGED vars
  BY <1>1, <1>9 DEF vars, publisher
<1> QED  BY <1>2, <1>3, <1>4, <1>5, <1>6, <1>7, <1>8, <1>9 DEF Next

\* The hub of events, with its mutex, its loops over the channels and its
\* handlers, is the broadcast: no subscriber is passed over, offered an event
\* twice or made to lose one by what another does, and none leaves halfway.
THEOREM FeedImplements == Spec => ImplementsBroadcast
<1>1. Init => Feed!Init
  <2> SUFFICES ASSUME Init PROVE Feed!Init
    OBVIOUS
  <2>1. Got = [s \in Streams |-> <<>>] /\ Written = [s \in Streams |-> 0]
    BY DEF Init, Got, Written
  <2>2. Due = [s \in Streams |-> {}]
    BY DEF Init, Due, Coming
  <2> QED  BY <2>1, <2>2 DEF Init, Feed!Init, Got, Written, Due, Coming
<1> QED  BY <1>1, FeedInvariant, FeedStepImplements, PTL
         DEF Spec, ImplementsBroadcast, Feed!Spec

-----------------------------------------------------------------------------
(***************************************************************************)
(* The order of what a subscriber gets.  An event on its way is the last   *)
(* of its publisher, and newer than what the subscriber has of it.         *)
(***************************************************************************)
Sorted(q) == \A i, j \in DOMAIN q : i < j /\ q[i].by = q[j].by => q[i].n < q[j].n

FeedOrder ==
  \A s \in Streams :
    /\ Sorted(Got[s])
    /\ \A i \in DOMAIN Got[s] : Got[s][i].n <= count[Got[s][i].by]
    /\ \A e \in Due[s] :
         /\ e.n = count[e.by]
         /\ \A i \in DOMAIN Got[s] : Got[s][i].by = e.by => Got[s][i].n < e.n

LEMMA GotType ==
  ASSUME FeedTypeOK, NEW s \in Streams
  PROVE  /\ Got[s] \in Seq(Event)
         /\ \A i \in DOMAIN Got[s] : /\ Got[s][i] \in Event
                                     /\ Got[s][i].by \in Publishers
                                     /\ Got[s][i].n \in Int
<1>1. Got[s] \in Seq(Event)
  BY ConcatProperties DEF FeedTypeOK, Got
<1>2. \A i \in DOMAIN Got[s] : Got[s][i] \in Event
  BY <1>1, ElementOfSeq
<1> QED  BY <1>1, <1>2 DEF Event

\* A newer event at the end keeps a feed sorted.
LEMMA SortedAppend ==
  ASSUME NEW q \in Seq(Event), NEW e \in Event, Sorted(q),
         \A i \in DOMAIN q : q[i].by = e.by => q[i].n < e.n
  PROVE  /\ Sorted(Append(q, e))
         /\ \A i \in DOMAIN Append(q, e) : \/ i \in DOMAIN q /\ Append(q, e)[i] = q[i]
                                           \/ Append(q, e)[i] = e
<1> DEFINE t == Append(q, e)
<1>1. /\ \A i \in DOMAIN q : t[i] = q[i]
      /\ \A i \in DOMAIN t : i \in DOMAIN q \/ i = Len(q) + 1
      /\ \A i \in DOMAIN q : i < Len(q) + 1 /\ i \in Int
      /\ t[Len(q) + 1] = e /\ Len(q) \in Nat
  OBVIOUS
<1>2. ASSUME NEW i \in DOMAIN t, NEW j \in DOMAIN t, i < j, t[i].by = t[j].by
      PROVE  t[i].n < t[j].n
  <2>1. i \in DOMAIN q
    BY <1>1, <1>2
  <2>2. CASE j \in DOMAIN q
    BY <1>1, <1>2, <2>1, <2>2 DEF Sorted
  <2>3. CASE j = Len(q) + 1
    BY <1>1, <1>2, <2>1, <2>3
  <2> QED  BY <1>1, <2>2, <2>3
<1> QED  BY <1>1, <1>2 DEF Sorted

LEMMA PublishOrdered ==
  ASSUME FeedInv, FeedOrder, NEW p \in Publishers, RLock(p)
  PROVE  FeedOrder'
<1>1. /\ \A s \in Streams : \A e \in Due[s] : e.by # p
      /\ count' = [count EXCEPT ![p] = @ + 1]
      /\ Due' = [s \in Streams |->
                   IF s \in subs THEN Due[s] \union {[by |-> p, n |-> count'[p]]} ELSE Due[s]]
      /\ Got' = Got
  BY RLockPublishes DEF Feed!Publish, Due, Got, Coming
<1>2. /\ count \in [Publishers -> 0 .. MaxEvents]
      /\ \A q \in Publishers : count[q] \in Int /\ count'[q] >= count[q] /\ count'[q] \in Int
      /\ count'[p] = count[p] + 1
      /\ \A q \in Publishers : q # p => count'[q] = count[q]
  BY <1>1, FeedAssumption DEF FeedInv, FeedTypeOK
<1>3. ASSUME NEW s \in Streams, NEW i \in DOMAIN Got[s]
      PROVE  Got[s][i].n <= count'[Got[s][i].by]
  <2>1. Got[s][i].by \in Publishers /\ Got[s][i].n \in Int
    BY GotType DEF FeedInv
  <2>2. Got[s][i].n <= count[Got[s][i].by]
    BY DEF FeedOrder
  <2> QED  BY <2>1, <2>2, <1>2
<1>4. ASSUME NEW s \in Streams, NEW e \in Due[s]
      PROVE  e.n = count'[e.by]
  <2>1. PICK q \in reading : e = Current(q)
    BY DEF Due, Coming
  <2>2. e.by \in Publishers /\ e.by # p /\ e.n = count[e.by]
    BY <1>1, <2>1 DEF Current, FeedInv, FeedTypeOK
  <2> QED  BY <2>2, <1>2
<1>5. ASSUME NEW s \in Streams, NEW e \in Due'[s], e \notin Due[s]
      PROVE  /\ e.n = count'[e.by]
             /\ \A i \in DOMAIN Got[s] : Got[s][i].by = e.by => Got[s][i].n < e.n
  <2>1. e = [by |-> p, n |-> count'[p]]
    BY <1>1, <1>5
  <2>2. \A i \in DOMAIN Got[s] :
          Got[s][i].n \in Int /\ Got[s][i].n <= count[Got[s][i].by]
    BY GotType DEF FeedInv, FeedOrder
  <2> QED  BY <2>1, <2>2, <1>2
<1> QED  BY <1>1, <1>3, <1>4, <1>5 DEF FeedOrder

LEMMA OfferOrdered ==
  ASSUME FeedInv, FeedOrder, NEW p \in Publishers, NEW s \in Streams, Offer(p, s)
  PROVE  FeedOrder'
<1>1. PICK e : e = Current(p)
  OBVIOUS
<1>2. e \in Event /\ e \in Due[s] /\ Due' = [Due EXCEPT ![s] = @ \ {e}] /\ UNCHANGED count
  BY <1>1, OfferSettles DEF Offer
<1>3. Got' = Got \/ Got' = [Got EXCEPT ![s] = Append(@, e)]
  BY <1>1, OfferIsGetOrLose DEF Feed!Get, Feed!Lose, Got
<1>4. \A t \in Streams : Due'[t] = IF t = s THEN Due[t] \ {e} ELSE Due[t]
  BY <1>2 DEF Due
<1>5. \A t \in Streams : t # s => Got'[t] = Got[t]
  BY <1>3 DEF Got
<1>6. CASE Got' = Got
  BY <1>2, <1>4, <1>6 DEF FeedOrder
<1>7. CASE Got'[s] = Append(Got[s], e)
  <2>1. Got[s] \in Seq(Event)
    BY GotType DEF FeedInv
  <2>2. /\ Sorted(Got'[s])
        /\ \A i \in DOMAIN Got'[s] : \/ i \in DOMAIN Got[s] /\ Got'[s][i] = Got[s][i]
                                     \/ Got'[s][i] = e
    BY <1>2, <1>7, <2>1, SortedAppend DEF FeedOrder
  <2>3. \A f \in Due[s] : f # e => f.by # e.by
    BY <1>1 DEF Due, Coming, Current
  <2>4. e.n = count[e.by] /\ e.n \in Int
    BY <1>2 DEF FeedOrder, Event
  <2>5. \A i \in DOMAIN Got'[s] : Got'[s][i].n <= count[Got'[s][i].by]
    BY <2>2, <2>4 DEF FeedOrder
  <2>6. \A f \in Due'[s] : /\ f.n = count[f.by]
                           /\ \A i \in DOMAIN Got'[s] : Got'[s][i].by = f.by => Got'[s][i].n < f.n
    BY <1>4, <2>2, <2>3 DEF FeedOrder
  <2> QED  BY <1>2, <1>4, <1>5, <2>2, <2>5, <2>6 DEF FeedOrder
<1> QED  BY <1>3, <1>6, <1>7 DEF Got

LEMMA OrderStep == FeedInv /\ FeedOrder /\ [Next]_vars => FeedOrder'
<1> SUFFICES ASSUME FeedInv, FeedOrder, [Next]_vars PROVE FeedOrder'
  OBVIOUS
<1>1. ASSUME UNCHANGED count, Got' = Got, Due' = Due PROVE FeedOrder'
  BY <1>1 DEF FeedOrder
<1>2. ASSUME UNCHANGED <<todo, reading, count, ch, sent>> PROVE FeedOrder'
  BY <1>1, <1>2 DEF Due, Got, Coming, Current
<1>3. ASSUME NEW s \in Streams, Request(s) \/ Go(s) \/ Leave(s) \/ Subscribe(s) \/ Unsubscribe(s)
      PROVE  FeedOrder'
  BY <1>2, <1>3 DEF Request, Go, Leave, Subscribe, Unsubscribe, publisher
<1>4. ASSUME NEW s \in Streams, Write(s) PROVE FeedOrder'
  BY <1>1, <1>4, WriteReads DEF Feed!Read, Due, Got, Coming
<1>5. ASSUME NEW p \in Publishers, RUnlock(p) PROVE FeedOrder'
  <2>1. p \in reading /\ todo[p] = {} /\ reading' = reading \ {p}
        /\ UNCHANGED <<todo, count, ch, sent>>
    BY <1>5 DEF RUnlock
  <2>2. \A s \in Streams : {q \in reading' : s \in todo'[q]} = {q \in reading : s \in todo[q]}
    BY <2>1
  <2> QED  BY <1>1, <2>1, <2>2 DEF Due, Got, Coming, Current
<1>6. CASE UNCHANGED vars
  BY <1>2, <1>6 DEF vars, publisher
<1> QED  BY <1>3, <1>4, <1>5, <1>6, PublishOrdered, OfferOrdered DEF Next

\* No subscriber gets an event twice, nor two events of one publisher in the
\* wrong order, however many publishers go round the channels at once.
THEOREM FeedOrdered == Spec => []FeedInOrder
<1>1. Init => FeedOrder
  <2> SUFFICES ASSUME Init PROVE FeedOrder
    OBVIOUS
  <2>1. \A s \in Streams : Got[s] = <<>> /\ Due[s] = {}
    BY DEF Init, Got, Due, Coming
  <2> QED  BY <2>1 DEF FeedOrder, Sorted
<1>2. FeedOrder => FeedInOrder
  BY DEF FeedOrder, FeedInOrder, Sorted, Got
<1> QED  BY <1>1, <1>2, FeedInvariant, OrderStep, PTL DEF Spec
=============================================================================
