------------------------------- MODULE Outbox -------------------------------
(***************************************************************************)
(* What the way to Telegram promises of a text, with no timer, no queue    *)
(* and no worker: an accepted text waits until it ends, once, in one of    *)
(* four ways.  Only a notice gives way to another notice, to the same chat *)
(* through the same bot and itself still waiting, and only a cancelled bot *)
(* loses a text.  Nothing is promised of the order.  Delivery is shown to  *)
(* implement it.                                                           *)
(***************************************************************************)
EXTENDS Naturals, Sequences

CONSTANTS Chats, Bots, NoBot, TextIds

VARIABLES texts, cancelled, sent, logged, replaced, lost

vars == <<texts, cancelled, sent, logged, replaced, lost>>

Waiting(n) ==
  n \in DOMAIN texts /\ sent[n] = 0 /\ n \notin logged \union replaced \union lost

Init == /\ texts = <<>>
        /\ cancelled = {}
        /\ sent = [n \in TextIds |-> 0]
        /\ logged = {}
        /\ replaced = {}
        /\ lost = {}

\* A full queue turns the text away with a log line.
Accept(c, b) ==
  /\ texts' = Append(texts, [chat |-> c, bot |-> b])
  /\ logged' \in {logged, logged \union {Len(texts')}}
  /\ UNCHANGED <<cancelled, sent, replaced, lost>>

Got(n) == [sent EXCEPT ![n] = @ + 1]

Deliver(n) == /\ Waiting(n)
              /\ sent' = Got(n)
              /\ UNCHANGED <<texts, cancelled, logged, replaced, lost>>

\* The text may have arrived all the same.
GiveUp(n) == /\ Waiting(n)
             /\ logged' = logged \union {n}
             /\ sent' \in {sent, Got(n)}
             /\ UNCHANGED <<texts, cancelled, replaced, lost>>

GiveWay(n, m) == /\ n # m /\ Waiting(n) /\ Waiting(m)
                 /\ texts[n] = texts[m] /\ texts[n].bot # NoBot
                 /\ replaced' = replaced \union {n}
                 /\ UNCHANGED <<texts, cancelled, sent, logged, lost>>

Lose(n) == /\ Waiting(n)
           /\ texts[n].bot \in cancelled
           /\ lost' = lost \union {n}
           /\ UNCHANGED <<texts, cancelled, sent, logged, replaced>>

Cancel(b) == /\ cancelled' = cancelled \union {b}
             /\ UNCHANGED <<texts, sent, logged, replaced, lost>>

Next == \/ \E c \in Chats, b \in Bots \union {NoBot} : Accept(c, b)
        \/ \E n \in TextIds : \/ Deliver(n) \/ GiveUp(n) \/ Lose(n)
                              \/ \E m \in TextIds : GiveWay(n, m)
        \/ \E b \in Bots : Cancel(b)

Spec == Init /\ [][Next]_vars
=============================================================================
