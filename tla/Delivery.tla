------------------------------ MODULE Delivery ------------------------------
(***************************************************************************)
(* The way of a text to Telegram: the notices of the bid service through   *)
(* the de-duplicator and its timers, the admin's messages and the hub's    *)
(* broadcasts straight into a send queue, the queue's workers with their   *)
(* retries, and the manager that replaces the bot and all of these while   *)
(* the senders still hold the old ones.                                    *)
(*                                                                         *)
(* Every connection makes a new bot with its own queue and de-duplicator;  *)
(* a bot is the number of its connection.  A text is its number in texts.  *)
(***************************************************************************)
EXTENDS Integers, Sequences, FiniteSets

CONSTANTS Chats,    \* the chats texts are sent to
          Workers,  \* the workers of one queue (three in the program)
          Capacity, \* of a queue, and of hub.Out (1000 and 1024)
          Attempts, \* how often a rate-limited text is tried (4)
          Faults,   \* may Telegram refuse a text?
          MaxTexts, \* bound: texts
          MaxBots   \* bound: connections

ASSUME DeliveryAssumption ==
  /\ Capacity \in Nat \ {0}
  /\ Attempts \in Nat \ {0}
  /\ Faults \in BOOLEAN
  /\ MaxTexts \in Nat
  /\ MaxBots \in Nat \ {0}

VARIABLES bot,       \* Manager.bot
          manager,   \* where the holder of Manager.mu is in Connect
          cancelled, \* the bots whose context is cancelled
          loop,      \* per bot: how far its Start is
          wired,     \* the bots the bid service, the client service and the hub send through
          texts,     \* every text accepted: its chat and the bot it goes through
          spawned,   \* the go notifier.Send(...) that have not run
          pending,   \* DedupNotifier.pending per bot: the entry of a chat and its text
          armed,     \* the entries whose timer runs
          callbacks, \* per entry: timer callbacks waiting for DedupNotifier.mu
          taken,     \* texts a callback took out of pending and has not handed on
          channel,   \* Queue.ch per bot; hub.Out is that of NoBot
          worker,    \* per bot and worker: the text it holds
          sent,      \* how often Telegram got a text
          logged,    \* texts given up with a log line
          replaced,  \* texts overwritten in pending by a later one
          lost       \* texts given up without a word

managing == <<bot, manager, cancelled, loop, wired>>
dedup == <<spawned, pending, armed, callbacks, taken>>
sending == <<channel, worker, sent, logged, lost>>
vars == <<managing, texts, dedup, replaced, sending>>

NoBot == 0          \* a nil *Bot, Notifier or Broadcaster
Bots == 1 .. MaxBots
AnyBot == {NoBot} \union Bots
TextIds == 1 .. MaxTexts
NoEntry == [entry |-> 0, text |-> 0]
Off == [state |-> "off", text |-> 0, attempt |-> 0]
Waiting == [state |-> "idle", text |-> 0, attempt |-> 0]

\* Without a token in the environment no bot is there; with one it is
\* connected, and the hub sends through it, before anything else starts.
Init ==
  /\ bot \in {NoBot, 1}
  /\ manager = "free"
  /\ cancelled = {}
  /\ loop = [b \in Bots |-> IF b = bot THEN "launched" ELSE "none"]
  /\ wired = [bids |-> bot, clients |-> bot, hub |-> bot]
  /\ texts = <<>>
  /\ spawned = {}
  /\ pending = [b \in Bots |-> [c \in Chats |-> NoEntry]]
  /\ armed = {}
  /\ callbacks = [n \in TextIds |-> 0]
  /\ taken = {}
  /\ channel = [b \in AnyBot |-> <<>>]
  /\ worker = [b \in Bots |-> [w \in Workers |-> Off]]
  /\ sent = [n \in TextIds |-> 0]
  /\ logged = {}
  /\ replaced = {}
  /\ lost = {}

-----------------------------------------------------------------------------
(***************************************************************************)
(* The manager.  Connect and Disconnect hold its mutex throughout; the     *)
(* senders do not ask for it.                                              *)
(***************************************************************************)
Unmade == {b \in Bots : loop[b] = "none"}
KeepTexts == UNCHANGED <<texts, dedup, replaced, sending>>

\* Connect up to the call that asks Telegram who the new bot is.
Connect ==
  /\ manager = "free"
  /\ Unmade # {}            \* bound
  /\ cancelled' = IF bot = NoBot THEN cancelled ELSE cancelled \union {bot}
  /\ bot' = NoBot
  /\ manager' = "dialing"
  /\ UNCHANGED <<loop, wired>>
  /\ KeepTexts

ConnectFails ==
  /\ manager = "dialing"
  /\ manager' = "free"
  /\ UNCHANGED <<bot, cancelled, loop, wired>>
  /\ KeepTexts

\* A new bot, and the bid service's notifier wrapped around its queue.
Link ==
  /\ manager = "dialing"
  /\ \E b \in Unmade :
       /\ \A other \in Unmade : b <= other
       /\ bot' = b
       /\ loop' = [loop EXCEPT ![b] = "made"]
       /\ wired' = [wired EXCEPT !.bids = b]
  /\ manager' = "linking"
  /\ UNCHANGED cancelled
  /\ KeepTexts

Launch ==
  /\ manager = "linking"
  /\ wired' = [wired EXCEPT !.clients = bot]
  /\ loop' = [loop EXCEPT ![bot] = "launched"]
  /\ manager' = "free"
  /\ UNCHANGED <<bot, cancelled>>
  /\ KeepTexts

Disconnect ==
  /\ manager = "free"
  /\ bot # NoBot
  /\ cancelled' = cancelled \union {bot}
  /\ bot' = NoBot
  /\ UNCHANGED <<manager, loop, wired>>
  /\ KeepTexts

\* The goroutine of Start: the queue's workers, then the loop.
Begin(b) ==
  /\ loop[b] = "launched"
  /\ loop' = [loop EXCEPT ![b] = "running"]
  /\ worker' = [worker EXCEPT ![b] = [w \in Workers |-> Waiting]]
  /\ UNCHANGED <<bot, manager, cancelled, wired, texts, dedup, replaced,
                 channel, sent, logged, lost>>

LoopStops(b) ==
  /\ loop[b] = "running"
  /\ b \in cancelled
  /\ loop' = [loop EXCEPT ![b] = "stopped"]
  /\ UNCHANGED <<bot, manager, cancelled, wired>>
  /\ KeepTexts

-----------------------------------------------------------------------------
(***************************************************************************)
(* The senders.                                                            *)
(***************************************************************************)
NewText(c, b) ==
  /\ Len(texts) < MaxTexts  \* bound
  /\ texts' = Append(texts, [chat |-> c, bot |-> b])

\* Faulty variant: as if the channel had no capacity.
PutUnbounded(b, n) ==
  /\ channel' = [channel EXCEPT ![b] = Append(@, n)]
  /\ UNCHANGED logged

\* select { case ch <- m: default: log }
Put(b, n) ==
  \/ /\ Len(channel[b]) < Capacity
     /\ channel' = [channel EXCEPT ![b] = Append(@, n)]
     /\ UNCHANGED logged
  \/ /\ Len(channel[b]) = Capacity
     /\ logged' = logged \union {n}
     /\ UNCHANGED channel

\* PlaceBid's outbid notice or SellLot's congratulation: the notifier is
\* read now, its Send runs when the goroutine does.
Notify(c) ==
  /\ wired.bids # NoBot
  /\ NewText(c, wired.bids)
  /\ spawned' = spawned \union {Len(texts')}
  /\ UNCHANGED <<managing, pending, armed, callbacks, taken, replaced, sending>>

\* The admin writes to a client.
SendMessage(c) ==
  /\ wired.clients # NoBot
  /\ NewText(c, wired.clients)
  /\ Put(wired.clients, Len(texts'))
  /\ UNCHANGED <<managing, dedup, replaced, worker, sent, lost>>

\* One client's turn in a broadcast; without a broadcaster, hub.Out.
SendToAll(c) ==
  /\ NewText(c, wired.hub)
  /\ Put(wired.hub, Len(texts'))
  /\ UNCHANGED <<managing, dedup, replaced, worker, sent, lost>>

-----------------------------------------------------------------------------
(***************************************************************************)
(* The de-duplicator.  An entry is named by the text that opened it, which *)
(* also says whose it is and of which bot's de-duplicator.                 *)
(***************************************************************************)
Entry(n) == pending[texts[n].bot][texts[n].chat]
SetEntry(n, e) ==
  pending' = [pending EXCEPT ![texts[n].bot] = [@ EXCEPT ![texts[n].chat] = e]]

\* Faulty variant: a waiting entry's timer is stopped and not set again.
DedupSendStops(n) ==
  /\ n \in spawned
  /\ spawned' = spawned \ {n}
  /\ \/ /\ Entry(n) = NoEntry
        /\ SetEntry(n, [entry |-> n, text |-> n])
        /\ armed' = armed \union {n}
        /\ UNCHANGED replaced
     \/ /\ Entry(n) # NoEntry
        /\ SetEntry(n, [Entry(n) EXCEPT !.text = n])
        /\ armed' = armed \ {Entry(n).entry}
        /\ replaced' = replaced \union {Entry(n).text}
  /\ UNCHANGED <<managing, texts, callbacks, taken, sending>>

\* Send under the mutex: a waiting entry gets the new text and its timer is
\* set again, even if it has just fired; else a new entry with a timer.
DedupSend(n) ==
  /\ n \in spawned
  /\ spawned' = spawned \ {n}
  /\ \/ /\ Entry(n) = NoEntry
        /\ SetEntry(n, [entry |-> n, text |-> n])
        /\ armed' = armed \union {n}
        /\ UNCHANGED replaced
     \/ /\ Entry(n) # NoEntry
        /\ SetEntry(n, [Entry(n) EXCEPT !.text = n])
        /\ armed' = armed \union {Entry(n).entry}
        /\ replaced' = replaced \union {Entry(n).text}
  /\ UNCHANGED <<managing, texts, callbacks, taken, sending>>

\* A timer runs out and starts its callback.
Fire(n) ==
  /\ n \in armed
  /\ armed' = armed \ {n}
  /\ callbacks' = [callbacks EXCEPT ![n] = @ + 1]
  /\ UNCHANGED <<managing, texts, spawned, pending, taken, replaced, sending>>

\* Faulty variant: the entry is read and left in the map.
CallbackKeeps(n) ==
  /\ callbacks[n] > 0
  /\ callbacks' = [callbacks EXCEPT ![n] = @ - 1]
  /\ taken' = IF Entry(n) = NoEntry THEN taken ELSE taken \union {Entry(n).text}
  /\ UNCHANGED <<managing, texts, spawned, pending, armed, replaced, sending>>

\* The callback under the mutex: the chat's entry goes, whichever entry it
\* is; a callback that finds none has nothing to do.
Callback(n) ==
  /\ callbacks[n] > 0
  /\ callbacks' = [callbacks EXCEPT ![n] = @ - 1]
  /\ \/ /\ Entry(n) = NoEntry
        /\ UNCHANGED <<pending, taken>>
     \/ /\ Entry(n) # NoEntry
        /\ SetEntry(n, NoEntry)
        /\ taken' = taken \union {Entry(n).text}
  /\ UNCHANGED <<managing, texts, spawned, armed, replaced, sending>>

\* The callback after the mutex: inner.Send.
HandOn(n) ==
  /\ n \in taken
  /\ taken' = taken \ {n}
  /\ Put(texts[n].bot, n)
  /\ UNCHANGED <<managing, texts, spawned, pending, armed, callbacks, replaced,
                 worker, sent, lost>>

-----------------------------------------------------------------------------
(***************************************************************************)
(* The workers of a queue.  A select with both cases ready takes either,   *)
(* so a worker may go on for a while after its bot was cancelled.          *)
(***************************************************************************)
Becomes(b, w, s) == worker' = [worker EXCEPT ![b] = [@ EXCEPT ![w] = s]]
KeepSenders == UNCHANGED <<managing, texts, dedup, replaced>>

Take(b, w) ==
  /\ worker[b][w] = Waiting
  /\ channel[b] # <<>>
  /\ channel' = [channel EXCEPT ![b] = Tail(@)]
  /\ Becomes(b, w, [state |-> "send", text |-> Head(channel[b]), attempt |-> 1])
  /\ KeepSenders
  /\ UNCHANGED <<sent, logged, lost>>

\* Faulty variant: a worker leaves only a closed queue, and none is closed.
QuitWhenClosed(b, w) ==
  /\ worker[b][w] = Waiting
  /\ loop[b] = "closed"
  /\ Becomes(b, w, Off)
  /\ KeepSenders
  /\ UNCHANGED <<channel, sent, logged, lost>>

Quit(b, w) ==
  /\ worker[b][w] = Waiting
  /\ b \in cancelled
  /\ Becomes(b, w, Off)
  /\ KeepSenders
  /\ UNCHANGED <<channel, sent, logged, lost>>

Got(n) == [sent EXCEPT ![n] = @ + 1]

\* Faulty variant: any error is taken for a refusal for the rate.
AttemptAgain(b, w) ==
  /\ worker[b][w].state = "send"
  /\ \/ /\ sent' = Got(worker[b][w].text)
        /\ Becomes(b, w, Waiting)
     \/ /\ Faults
        /\ sent' \in {sent, Got(worker[b][w].text)}
        /\ Becomes(b, w, [worker[b][w] EXCEPT !.state = "backoff"])
  /\ KeepSenders
  /\ UNCHANGED <<channel, logged, lost>>

\* One call of Telegram.  A refusal for the rate (429) has no effect; after
\* any other error the text may or may not have arrived.
Attempt(b, w) ==
  /\ worker[b][w].state = "send"
  /\ \/ /\ sent' = Got(worker[b][w].text)
        /\ Becomes(b, w, Waiting)
        /\ UNCHANGED logged
     \/ /\ Faults
        /\ Becomes(b, w, [worker[b][w] EXCEPT !.state = "backoff"])
        /\ UNCHANGED <<sent, logged>>
     \/ /\ Faults
        /\ sent' \in {sent, Got(worker[b][w].text)}
        /\ logged' = logged \union {worker[b][w].text}
        /\ Becomes(b, w, Waiting)
  /\ KeepSenders
  /\ UNCHANGED <<channel, lost>>

\* Faulty variant: rate-limited texts are tried for ever.
ResumeForEver(b, w) ==
  /\ worker[b][w].state = "backoff"
  /\ Becomes(b, w, [worker[b][w] EXCEPT !.state = "send"])
  /\ KeepSenders
  /\ UNCHANGED <<channel, sent, logged, lost>>

\* The backoff is over: the next attempt, or the end of the loop.
Resume(b, w) ==
  /\ worker[b][w].state = "backoff"
  /\ \/ /\ worker[b][w].attempt < Attempts
        /\ Becomes(b, w, [worker[b][w] EXCEPT !.state = "send", !.attempt = @ + 1])
        /\ UNCHANGED logged
     \/ /\ worker[b][w].attempt = Attempts
        /\ logged' = logged \union {worker[b][w].text}
        /\ Becomes(b, w, Waiting)
  /\ KeepSenders
  /\ UNCHANGED <<channel, sent, lost>>

\* The bot is cancelled during the backoff.
GiveUp(b, w) ==
  /\ worker[b][w].state = "backoff"
  /\ b \in cancelled
  /\ lost' = lost \union {worker[b][w].text}
  /\ Becomes(b, w, Waiting)
  /\ KeepSenders
  /\ UNCHANGED <<channel, sent, logged>>

\* hub.Out is emptied by the loop of a running bot, without retries.
DrainOut(b) ==
  /\ loop[b] = "running"
  /\ channel[NoBot] # <<>>
  /\ channel' = [channel EXCEPT ![NoBot] = Tail(@)]
  /\ \/ sent' = Got(Head(channel[NoBot])) /\ UNCHANGED logged
     \/ /\ Faults
        /\ sent' \in {sent, Got(Head(channel[NoBot]))}
        /\ logged' = logged \union {Head(channel[NoBot])}
  /\ KeepSenders
  /\ UNCHANGED <<worker, lost>>

-----------------------------------------------------------------------------
Work(b, w) == Take(b, w) \/ Attempt(b, w) \/ Resume(b, w) \/ GiveUp(b, w)

Next ==
  \/ Connect \/ ConnectFails \/ Link \/ Launch \/ Disconnect
  \/ \E c \in Chats : Notify(c) \/ SendMessage(c) \/ SendToAll(c)
  \/ \E n \in DOMAIN texts : DedupSend(n) \/ Fire(n) \/ Callback(n) \/ HandOn(n)
  \/ \E b \in Bots : Begin(b) \/ LoopStops(b) \/ DrainOut(b)
  \/ \E b \in Bots, w \in Workers : Work(b, w) \/ Quit(b, w)

Spec == Init /\ [][Next]_vars

\* Goroutines and timers run and calls return; nobody has to send, connect or
\* disconnect, and Telegram may refuse every attempt.
Fairness ==
  /\ WF_vars(ConnectFails \/ Link)
  /\ WF_vars(Launch)
  /\ \A n \in TextIds :
       WF_vars(DedupSend(n)) /\ WF_vars(Fire(n)) /\ WF_vars(Callback(n)) /\ WF_vars(HandOn(n))
  /\ \A b \in Bots : WF_vars(Begin(b)) /\ WF_vars(LoopStops(b)) /\ WF_vars(DrainOut(b))
  /\ \A b \in Bots, w \in Workers : WF_vars(Work(b, w)) /\ WF_vars(Quit(b, w))

FairSpec == Spec /\ Fairness

-----------------------------------------------------------------------------
(***************************************************************************)
(* Properties.                                                             *)
(***************************************************************************)
Holding == [state : {"send", "backoff"}, text : TextIds, attempt : 1 .. Attempts]

\* Channels stay within their capacity, workers within their attempts, and
\* the rest within its types.
DeliveryTypeOK ==
  /\ bot \in AnyBot
  /\ manager \in {"free", "dialing", "linking"}
  /\ cancelled \subseteq Bots
  /\ loop \in [Bots -> {"none", "made", "launched", "running", "stopped"}]
  /\ wired \in [bids : AnyBot, clients : AnyBot, hub : AnyBot]
  /\ texts \in Seq([chat : Chats, bot : AnyBot])
  /\ Len(texts) <= MaxTexts
  /\ spawned \union armed \union taken \union logged \union replaced \union lost
       \subseteq TextIds
  /\ pending \in [Bots -> [Chats -> [entry : 0 .. MaxTexts, text : 0 .. MaxTexts]]]
  /\ callbacks \in [TextIds -> Nat]
  /\ channel \in [AnyBot -> Seq(TextIds)]
  /\ \A b \in AnyBot : Len(channel[b]) <= Capacity
  /\ worker \in [Bots -> [Workers -> {Off, Waiting} \union Holding]]
  /\ sent \in [TextIds -> Nat]

Settled(n) == sent[n] > 0 \/ n \in logged \union replaced
HeldBy(b, w) == IF worker[b][w] \in Holding THEN {worker[b][w].text} ELSE {}

\* In how many places a text is before it has ended.
Places(n) ==
  Cardinality(spawned \intersect {n}) + Cardinality(taken \intersect {n})
    + Cardinality({x \in Bots \X Chats : pending[x[1]][x[2]].text = n})
    + Cardinality({x \in AnyBot \X (1 .. Capacity) :
                     x[2] <= Len(channel[x[1]]) /\ channel[x[1]][x[2]] = n})
    + Cardinality({x \in Bots \X Workers : n \in HeldBy(x[1], x[2])})

\* A text is in one place until it has ended and in none after: whatever
\* races with Reset, a cancelled bot or a retry, Telegram never gets a text
\* twice and no text vanishes outside the four ways to end.
EachTextOnce ==
  \A n \in DOMAIN texts :
    /\ sent[n] <= 1
    /\ Places(n) = (IF Settled(n) \/ n \in lost THEN 0 ELSE 1)

\* A waiting entry is going to be delivered: its own timer runs or its own
\* callback waits for the mutex, even when Reset met a timer that had fired
\* and another entry's callback removed the one before.
EntryHasTimer ==
  \A b \in Bots, c \in Chats :
    LET e == pending[b][c].entry
    IN  pending[b][c] # NoEntry => e \in armed \/ callbacks[e] > 0

\* Whatever overwrites whatever in the de-duplicator, the chat is left with a
\* notice of that bot that was not overwritten: of a burst one always goes on.
NoticeSurvives ==
  \A n \in replaced : \E m \in DOMAIN texts \ replaced : texts[m] = texts[n]

\* Timers, queues, retries and reconnections are the outbox of Outbox: a text
\* ends once, and one that was overwritten gave way to one that still waited.
Out == INSTANCE Outbox

ImplementsOutbox == Out!Spec

\* Once Connect has returned, what the bid service and the client service
\* send goes to the bot connected last and to no earlier one.
ServicesFollowBot ==
  manager = "free" /\ bot # NoBot => wired.bids = bot /\ wired.clients = bot

Served(n) ==
  /\ n \in DOMAIN texts
  /\ IF texts[n].bot = NoBot THEN bot # NoBot ELSE texts[n].bot \notin cancelled

\* While its bot stays connected every text reaches Telegram, or gives way to
\* a later text for its chat, or is given up with a log line.
EveryTextSettles ==
  \A n \in TextIds :
    Served(n) ~> Settled(n) \/ ~ Served(n)

\* A cancelled bot's loop and workers end: no reconnection leaves goroutines
\* behind that send with the old token.
CancelledBotEnds ==
  \A b \in Bots :
    b \in cancelled ~> [](loop[b] = "stopped" /\ \A w \in Workers : worker[b][w] = Off)
=============================================================================
