------------------------------ MODULE Broadcast ------------------------------
(***************************************************************************)
(* What the feed of events promises, with no mutex, no channel and no      *)
(* handler: an event is due at once to everybody who is in, each of them   *)
(* gets it once or, with as many unread as the feed keeps, loses it alone, *)
(* and nobody leaves while an event is on its way.  EventFeed is shown to  *)
(* implement it.                                                           *)
(***************************************************************************)
EXTENDS Naturals, Sequences

CONSTANTS Publishers, Streams, Buffer, MaxEvents

VARIABLES count,  \* events of each publisher so far
          subs,   \* who is in
          due,    \* per subscriber: the events on their way to it
          feed,   \* per subscriber: the events it got, in that order
          read    \* how many of them its client has read

vars == <<count, subs, due, feed, read>>

Event == [by : Publishers, n : 1 .. MaxEvents]

Init == /\ count = [p \in Publishers |-> 0]
        /\ subs = {}
        /\ due = [s \in Streams |-> {}]
        /\ feed = [s \in Streams |-> <<>>]
        /\ read = [s \in Streams |-> 0]

\* A publisher has one event on its way at a time.
Publish(p) ==
  /\ count[p] < MaxEvents
  /\ \A s \in Streams : \A e \in due[s] : e.by # p
  /\ count' = [count EXCEPT ![p] = @ + 1]
  /\ due' = [s \in Streams |-> IF s \in subs THEN due[s] \union {[by |-> p, n |-> count'[p]]}
                                             ELSE due[s]]
  /\ UNCHANGED <<subs, feed, read>>

Settle(s, e) == /\ s \in subs
                /\ e \in due[s]
                /\ due' = [due EXCEPT ![s] = @ \ {e}]
                /\ UNCHANGED <<count, subs, read>>

Get(s, e) == /\ Settle(s, e)
             /\ Len(feed[s]) - read[s] < Buffer
             /\ feed' = [feed EXCEPT ![s] = Append(@, e)]

Lose(s, e) == /\ Settle(s, e)
              /\ Len(feed[s]) - read[s] = Buffer
              /\ UNCHANGED feed

Read(s) == /\ read[s] < Len(feed[s])
           /\ read' = [read EXCEPT ![s] = @ + 1]
           /\ UNCHANGED <<count, subs, due, feed>>

Join(s) == /\ s \notin subs
           /\ feed[s] = <<>>
           /\ subs' = subs \union {s}
           /\ UNCHANGED <<count, due, feed, read>>

Leave(s) == /\ s \in subs
            /\ due[s] = {}
            /\ subs' = subs \ {s}
            /\ UNCHANGED <<count, due, feed, read>>

Next == \/ \E p \in Publishers : Publish(p)
        \/ \E s \in Streams : \/ Join(s) \/ Leave(s) \/ Read(s)
                              \/ \E e \in Event : Get(s, e) \/ Lose(s, e)

Spec == Init /\ [][Next]_vars
=============================================================================
