--------------------------- MODULE DeliveryProofs ---------------------------
(***************************************************************************)
(* Proofs about Delivery, for any number of chats, workers, texts and      *)
(* connections.                                                            *)
(***************************************************************************)
EXTENDS Delivery, FiniteSetTheorems, TLAPS

-----------------------------------------------------------------------------
(***************************************************************************)
(* Type correctness, one lemma per part of the way.                        *)
(***************************************************************************)
LEMMA InitType == Init => DeliveryTypeOK
  BY DeliveryAssumption DEF Init, DeliveryTypeOK, AnyBot, NoBot, Bots, TextIds, NoEntry

LEMMA ManagerType ==
  ASSUME DeliveryTypeOK, Connect \/ ConnectFails \/ Link \/ Launch \/ Disconnect
  PROVE  DeliveryTypeOK'
<1> USE DeliveryAssumption DEF DeliveryTypeOK, KeepTexts, dedup, sending, AnyBot
<1>1. CASE Connect
  BY <1>1 DEF Connect
<1>2. CASE ConnectFails
  BY <1>2 DEF ConnectFails
<1>3. CASE Link
  BY <1>3 DEF Link, Unmade
<1>4. CASE Launch
  BY <1>4 DEF Launch
<1>5. CASE Disconnect
  BY <1>5 DEF Disconnect
<1> QED  BY <1>1, <1>2, <1>3, <1>4, <1>5

LEMMA LoopType ==
  ASSUME DeliveryTypeOK, NEW b \in Bots, Begin(b) \/ LoopStops(b) PROVE DeliveryTypeOK'
<1>1. CASE Begin(b)
  <2>1. loop' \in [Bots -> {"none", "made", "launched", "running", "stopped"}]
    BY <1>1 DEF Begin, DeliveryTypeOK
  <2>2. worker' \in [Bots -> [Workers -> {Off, Waiting} \union Holding]]
    BY <1>1 DEF Begin, DeliveryTypeOK
  <2> QED  BY <1>1, <2>1, <2>2 DEF Begin, DeliveryTypeOK, dedup
<1>2. CASE LoopStops(b)
  BY <1>2 DEF LoopStops, DeliveryTypeOK, KeepTexts, dedup, sending
<1> QED  BY <1>1, <1>2

\* A text is numbered within the bound, and its chat and bot are kept.
LEMMA NewTextType ==
  ASSUME DeliveryTypeOK, NEW c \in Chats, NEW b \in AnyBot, NewText(c, b)
  PROVE  /\ texts' \in Seq([chat : Chats, bot : AnyBot])
         /\ Len(texts') = Len(texts) + 1
         /\ Len(texts') \in TextIds
         /\ texts'[Len(texts')] = [chat |-> c, bot |-> b]
         /\ \A n \in DOMAIN texts : n \in DOMAIN texts' /\ texts'[n] = texts[n]
<1>1. texts \in Seq([chat : Chats, bot : AnyBot]) /\ Len(texts) < MaxTexts
  BY DEF DeliveryTypeOK, NewText
<1>2. [chat |-> c, bot |-> b] \in [chat : Chats, bot : AnyBot]
  OBVIOUS
<1>3. \A S, t : texts \in Seq(S) /\ t \in S =>
        /\ Append(texts, t) \in Seq(S)
        /\ Len(Append(texts, t)) = Len(texts) + 1
        /\ Append(texts, t)[Len(texts) + 1] = t
        /\ \A n \in DOMAIN texts :
             n \in DOMAIN Append(texts, t) /\ Append(texts, t)[n] = texts[n]
  OBVIOUS
<1>4. Len(texts) + 1 \in TextIds
  BY <1>1, DeliveryAssumption DEF TextIds
<1> QED  BY <1>1, <1>2, <1>3, <1>4 DEF NewText

LEMMA TextType ==
  ASSUME DeliveryTypeOK, NEW n \in DOMAIN texts
  PROVE  n \in TextIds /\ texts[n].bot \in AnyBot /\ texts[n].chat \in Chats
<1>1. DOMAIN texts = 1 .. Len(texts) /\ Len(texts) \in Nat /\ Len(texts) <= MaxTexts
  BY DEF DeliveryTypeOK
<1>2. n \in TextIds
  BY <1>1, DeliveryAssumption DEF TextIds
<1>3. texts[n] \in [chat : Chats, bot : AnyBot]
  <2>1. texts \in Seq([chat : Chats, bot : AnyBot]) /\ n \in 1 .. Len(texts)
    BY <1>1 DEF DeliveryTypeOK
  <2>2. \A S : texts \in Seq(S) => texts[n] \in S
    BY <2>1
  <2> QED  BY <2>1, <2>2
<1> QED  BY <1>2, <1>3

LEMMA PutType ==
  ASSUME DeliveryTypeOK, NEW b \in AnyBot, NEW n \in TextIds, Put(b, n)
  PROVE  /\ channel' \in [AnyBot -> Seq(TextIds)]
         /\ \A a \in AnyBot : Len(channel'[a]) <= Capacity
         /\ logged' \subseteq TextIds
<1>1. CASE Len(channel[b]) < Capacity /\ channel' = [channel EXCEPT ![b] = Append(@, n)]
           /\ UNCHANGED logged
  BY <1>1, DeliveryAssumption DEF DeliveryTypeOK
<1>2. CASE logged' = logged \union {n} /\ UNCHANGED channel
  BY <1>2 DEF DeliveryTypeOK
<1> QED  BY <1>1, <1>2 DEF Put

LEMMA SenderType ==
  ASSUME DeliveryTypeOK, NEW c \in Chats, Notify(c) \/ SendMessage(c) \/ SendToAll(c)
  PROVE  DeliveryTypeOK'
<1>1. wired.bids \in AnyBot /\ wired.clients \in AnyBot /\ wired.hub \in AnyBot
  BY DEF DeliveryTypeOK
<1>2. ASSUME NEW b \in AnyBot, NewText(c, b)
      PROVE  /\ texts' \in Seq([chat : Chats, bot : AnyBot])
             /\ Len(texts') \in TextIds
             /\ Len(texts') <= MaxTexts
  BY <1>2, NewTextType, DeliveryAssumption DEF TextIds, NewText, DeliveryTypeOK
<1>3. CASE Notify(c)
  <2>1. NewText(c, wired.bids)
    BY <1>3 DEF Notify
  <2>2. spawned' \subseteq TextIds
    BY <1>1, <1>2, <1>3, <2>1 DEF Notify, DeliveryTypeOK
  <2> QED  BY <1>1, <1>2, <1>3, <2>1, <2>2 DEF Notify, DeliveryTypeOK, managing, sending
<1>4. ASSUME NEW b \in AnyBot, NewText(c, b), Put(b, Len(texts')),
             UNCHANGED <<managing, dedup, replaced, worker, sent, lost>>
      PROVE  DeliveryTypeOK'
  <2>1. /\ channel' \in [AnyBot -> Seq(TextIds)]
        /\ \A a \in AnyBot : Len(channel'[a]) <= Capacity
        /\ logged' \subseteq TextIds
    BY <1>2, <1>4, PutType
  <2> QED  BY <1>2, <1>4, <2>1 DEF DeliveryTypeOK, managing, dedup
<1>5. CASE SendMessage(c)
  BY <1>1, <1>4, <1>5 DEF SendMessage
<1>6. CASE SendToAll(c)
  BY <1>1, <1>4, <1>6 DEF SendToAll
<1> QED  BY <1>3, <1>5, <1>6

-----------------------------------------------------------------------------
(***************************************************************************)
(* What goes through the de-duplicator is a notice: a text of some bot.    *)
(***************************************************************************)
IsNotice(n) == n \in DOMAIN texts /\ texts[n].bot \in Bots

Notices ==
  \A n \in TextIds : n \in spawned \union armed \union taken \/ callbacks[n] > 0 => IsNotice(n)

\* An entry is named by a notice of its own chat and bot, and holds one.
EntryNamed ==
  \A b \in Bots, c \in Chats :
    pending[b][c] # NoEntry =>
      /\ \A n \in {pending[b][c].entry, pending[b][c].text} :
           IsNotice(n) /\ texts[n].bot = b /\ texts[n].chat = c

TimerInv == DeliveryTypeOK /\ Notices /\ EntryNamed /\ EntryHasTimer

LEMMA EntryType ==
  ASSUME DeliveryTypeOK, NEW n \in DOMAIN texts, texts[n].bot \in Bots
  PROVE  Entry(n) \in [entry : 0 .. MaxTexts, text : 0 .. MaxTexts]
<1>1. texts[n].chat \in Chats
  BY TextType
<1>2. pending \in [Bots -> [Chats -> [entry : 0 .. MaxTexts, text : 0 .. MaxTexts]]]
  BY DEF DeliveryTypeOK
<1>3. \A S : pending \in [Bots -> [Chats -> S]] => Entry(n) \in S
  BY <1>1 DEF Entry
<1> QED  BY <1>2, <1>3

LEMMA DedupType ==
  ASSUME DeliveryTypeOK, Notices, EntryNamed, NEW n \in DOMAIN texts,
         DedupSend(n) \/ Fire(n) \/ Callback(n) \/ HandOn(n)
  PROVE  DeliveryTypeOK'
<1>1. n \in TextIds /\ texts[n].bot \in AnyBot /\ texts[n].chat \in Chats
  BY TextType
<1>2. ASSUME texts[n].bot \in Bots
      PROVE  Entry(n) \in [entry : 0 .. MaxTexts, text : 0 .. MaxTexts]
  BY <1>2, EntryType
<1>3. ASSUME NEW e \in [entry : 0 .. MaxTexts, text : 0 .. MaxTexts],
             texts[n].bot \in Bots, SetEntry(n, e)
      PROVE  pending' \in [Bots -> [Chats -> [entry : 0 .. MaxTexts, text : 0 .. MaxTexts]]]
  BY <1>1, <1>3 DEF SetEntry, DeliveryTypeOK
<1>4. ASSUME texts[n].bot \in Bots, Entry(n) # NoEntry
      PROVE  Entry(n).entry \in TextIds /\ Entry(n).text \in TextIds
  <2>1. \A m \in {Entry(n).entry, Entry(n).text} : m \in DOMAIN texts
    BY <1>1, <1>4 DEF EntryNamed, Entry, IsNotice
  <2> QED  BY <2>1, TextType
<1>5. NoEntry \in [entry : 0 .. MaxTexts, text : 0 .. MaxTexts]
  BY DeliveryAssumption DEF NoEntry
<1>6. CASE DedupSend(n)
  <2>1. texts[n].bot \in Bots
    BY <1>1, <1>6 DEF DedupSend, Notices, IsNotice
  <2>2. CASE Entry(n) = NoEntry
    <3>1. SetEntry(n, [entry |-> n, text |-> n])
      BY <1>6, <2>2 DEF DedupSend
    <3>2. [entry |-> n, text |-> n] \in [entry : 0 .. MaxTexts, text : 0 .. MaxTexts]
      BY <1>1 DEF TextIds
    <3> QED  BY <1>1, <1>3, <1>6, <2>1, <2>2, <3>1, <3>2
             DEF DedupSend, DeliveryTypeOK, managing, sending
  <2>3. CASE Entry(n) # NoEntry
    <3>1. SetEntry(n, [Entry(n) EXCEPT !.text = n])
      BY <1>6, <2>3 DEF DedupSend
    <3>2. [Entry(n) EXCEPT !.text = n] \in [entry : 0 .. MaxTexts, text : 0 .. MaxTexts]
      BY <1>1, <1>2, <2>1 DEF TextIds
    <3> QED  BY <1>1, <1>3, <1>4, <1>6, <2>1, <2>3, <3>1, <3>2
             DEF DedupSend, DeliveryTypeOK, managing, sending
  <2> QED  BY <2>2, <2>3
<1>7. CASE Fire(n)
  BY <1>1, <1>7 DEF Fire, DeliveryTypeOK, managing, sending
<1>8. CASE Callback(n)
  <2>1. texts[n].bot \in Bots
    BY <1>1, <1>8 DEF Callback, Notices, IsNotice
  <2>2. callbacks' \in [TextIds -> Nat]
    BY <1>1, <1>8 DEF Callback, DeliveryTypeOK
  <2>3. CASE Entry(n) = NoEntry
    BY <1>8, <2>2, <2>3 DEF Callback, DeliveryTypeOK, managing, sending
  <2>4. CASE Entry(n) # NoEntry
    BY <1>3, <1>4, <1>5, <1>8, <2>1, <2>2, <2>4
       DEF Callback, DeliveryTypeOK, managing, sending
  <2> QED  BY <2>3, <2>4
<1>9. CASE HandOn(n)
  BY <1>1, <1>9, PutType DEF HandOn, DeliveryTypeOK, managing
<1> QED  BY <1>6, <1>7, <1>8, <1>9

-----------------------------------------------------------------------------
\* Taking a text out of a channel.
LEMMA HeadType ==
  ASSUME DeliveryTypeOK, NEW a \in AnyBot, channel[a] # <<>>
  PROVE  /\ Head(channel[a]) \in TextIds
         /\ [channel EXCEPT ![a] = Tail(@)] \in [AnyBot -> Seq(TextIds)]
         /\ \A d \in AnyBot : Len([channel EXCEPT ![a] = Tail(@)][d]) <= Capacity
  BY DeliveryAssumption DEF DeliveryTypeOK

LEMMA GotType ==
  ASSUME DeliveryTypeOK, NEW n \in TextIds PROVE Got(n) \in [TextIds -> Nat]
  BY DEF Got, DeliveryTypeOK

LEMMA DrainType ==
  ASSUME DeliveryTypeOK, NEW b \in Bots, DrainOut(b) PROVE DeliveryTypeOK'
<1>1. NoBot \in AnyBot
  BY DEF AnyBot
<1>2. Head(channel[NoBot]) \in TextIds
  BY <1>1, HeadType DEF DrainOut
<1>3. Got(Head(channel[NoBot])) \in [TextIds -> Nat]
  BY <1>2, GotType
<1>4. sent' \in [TextIds -> Nat] /\ logged' \subseteq TextIds
  BY <1>2, <1>3 DEF DrainOut, DeliveryTypeOK
<1> QED  BY <1>1, <1>4, HeadType DEF DrainOut, DeliveryTypeOK, KeepSenders, managing, dedup

LEMMA WorkerType ==
  ASSUME DeliveryTypeOK, NEW b \in Bots, NEW w \in Workers,
         Work(b, w) \/ Quit(b, w)
  PROVE  DeliveryTypeOK'
<1> DEFINE States == {Off, Waiting} \union Holding
<1>1. ASSUME NEW s \in States, Becomes(b, w, s)
      PROVE  worker' \in [Bots -> [Workers -> States]]
  BY <1>1 DEF Becomes, DeliveryTypeOK
<1>2. worker[b][w] \in States
  BY DEF DeliveryTypeOK
<1>3. ASSUME worker[b][w].state \in {"send", "backoff"}
      PROVE  worker[b][w] \in Holding /\ worker[b][w].text \in TextIds
  BY <1>2, <1>3 DEF Off, Waiting, Holding
<1>6. b \in AnyBot /\ Waiting \in States /\ Off \in States
  BY DEF AnyBot
<1> USE DEF KeepSenders, managing, dedup
<1>7. CASE Take(b, w)
  <2>1. [state |-> "send", text |-> Head(channel[b]), attempt |-> 1] \in States
    BY <1>6, <1>7, HeadType, DeliveryAssumption DEF Take, Holding
  <2> QED  BY <1>1, <1>6, <1>7, <2>1, HeadType DEF Take, DeliveryTypeOK
<1>8. CASE Quit(b, w)
  BY <1>1, <1>6, <1>8 DEF Quit, DeliveryTypeOK
<1>9. CASE Attempt(b, w)
  <2>1. worker[b][w] \in Holding /\ worker[b][w].text \in TextIds
    BY <1>3, <1>9 DEF Attempt
  <2>2. [worker[b][w] EXCEPT !.state = "backoff"] \in States
    BY <2>1 DEF Holding
  <2>3. worker' \in [Bots -> [Workers -> States]]
    BY <1>1, <1>6, <1>9, <2>2 DEF Attempt
  <2>4. sent' \in [TextIds -> Nat] /\ logged' \subseteq TextIds
    BY <1>9, <2>1, GotType DEF Attempt, DeliveryTypeOK
  <2> QED  BY <1>9, <2>3, <2>4 DEF Attempt, DeliveryTypeOK
<1>10. CASE Resume(b, w)
  <2>1. worker[b][w] \in Holding /\ worker[b][w].text \in TextIds
    BY <1>3, <1>10 DEF Resume
  <2>2. ASSUME worker[b][w].attempt < Attempts
        PROVE  [worker[b][w] EXCEPT !.state = "send", !.attempt = @ + 1] \in States
    <3>1. worker[b][w].attempt + 1 \in 1 .. Attempts
      BY <2>1, <2>2, DeliveryAssumption DEF Holding
    <3> QED  BY <2>1, <3>1 DEF Holding
  <2>3. worker' \in [Bots -> [Workers -> States]]
    BY <1>1, <1>6, <1>10, <2>2 DEF Resume
  <2> QED  BY <1>10, <2>1, <2>3 DEF Resume, DeliveryTypeOK
<1>11. CASE GiveUp(b, w)
  <2>1. worker[b][w].text \in TextIds
    BY <1>3, <1>11 DEF GiveUp
  <2> QED  BY <1>1, <1>6, <1>11, <2>1 DEF GiveUp, DeliveryTypeOK
<1> QED  BY <1>7, <1>8, <1>9, <1>10, <1>11 DEF Work

LEMMA NextType ==
  ASSUME DeliveryTypeOK, Notices, EntryNamed, [Next]_vars PROVE DeliveryTypeOK'
<1>1. CASE Connect \/ ConnectFails \/ Link \/ Launch \/ Disconnect
  BY <1>1, ManagerType
<1>2. CASE \E c \in Chats : Notify(c) \/ SendMessage(c) \/ SendToAll(c)
  BY <1>2, SenderType
<1>3. CASE \E n \in DOMAIN texts : DedupSend(n) \/ Fire(n) \/ Callback(n) \/ HandOn(n)
  BY <1>3, DedupType
<1>4. CASE \E b \in Bots : Begin(b) \/ LoopStops(b)
  BY <1>4, LoopType
<1>5. CASE \E b \in Bots : DrainOut(b)
  BY <1>5, DrainType
<1>6. CASE \E b \in Bots, w \in Workers : Work(b, w) \/ Quit(b, w)
  BY <1>6, WorkerType
<1>7. CASE UNCHANGED vars
  BY <1>7 DEF vars, managing, dedup, sending, DeliveryTypeOK
<1> QED  BY <1>1, <1>2, <1>3, <1>4, <1>5, <1>6, <1>7 DEF Next

-----------------------------------------------------------------------------
(***************************************************************************)
(* An entry keeps its timer.                                               *)
(***************************************************************************)

\* What neither the texts nor the de-duplicator are touched by.
LEMMA OtherStep ==
  ASSUME TimerInv, UNCHANGED <<texts, dedup>>
  PROVE  Notices' /\ EntryNamed' /\ EntryHasTimer'
  BY DEF TimerInv, Notices, EntryNamed, EntryHasTimer, IsNotice, dedup

\* A new text is no entry yet and the older ones stay what they were.
LEMMA NewTextStep ==
  ASSUME TimerInv, NEW c \in Chats, NEW b \in AnyBot, NewText(c, b),
         UNCHANGED <<pending, armed, callbacks, taken>>,
         spawned' \subseteq spawned \union {n \in {Len(texts')} : b \in Bots}
  PROVE  Notices' /\ EntryNamed' /\ EntryHasTimer'
<1>1. /\ Len(texts') \in DOMAIN texts'
      /\ texts'[Len(texts')] = [chat |-> c, bot |-> b]
      /\ \A n \in DOMAIN texts : n \in DOMAIN texts' /\ texts'[n] = texts[n]
  BY NewTextType DEF TimerInv
<1>2. \A n : IsNotice(n) => IsNotice(n)'
  BY <1>1 DEF IsNotice
<1>3. ASSUME b \in Bots PROVE IsNotice(Len(texts))'
  BY <1>1, <1>3 DEF IsNotice
<1>4. Notices'
  BY <1>2, <1>3 DEF TimerInv, Notices
<1>5. EntryNamed'
  BY <1>1, <1>2 DEF TimerInv, EntryNamed, IsNotice
<1>6. EntryHasTimer'
  BY DEF TimerInv, EntryHasTimer
<1> QED  BY <1>4, <1>5, <1>6

LEMMA DedupStep ==
  ASSUME TimerInv, NEW n \in DOMAIN texts,
         DedupSend(n) \/ Fire(n) \/ Callback(n) \/ HandOn(n)
  PROVE  Notices' /\ EntryNamed' /\ EntryHasTimer'
<1> DEFINE b == texts[n].bot
           c == texts[n].chat
<1>1. n \in TextIds /\ c \in Chats /\ texts' = texts /\ \A m : IsNotice(m)' <=> IsNotice(m)
  BY TextType DEF TimerInv, DedupSend, Fire, Callback, HandOn, IsNotice
<1>2. ASSUME NEW e, IsNotice(n), SetEntry(n, e)
      PROVE  /\ pending'[b][c] = e
             /\ \A d \in Bots, a \in Chats :
                  (d # b \/ a # c) => pending'[d][a] = pending[d][a]
  BY <1>1, <1>2 DEF IsNotice, SetEntry, TimerInv, DeliveryTypeOK
<1>3. \A d \in Bots, a \in Chats : pending[d][a] # NoEntry =>
        /\ IsNotice(pending[d][a].entry) /\ IsNotice(pending[d][a].text)
        /\ pending[d][a].entry \in TextIds /\ pending[d][a].text \in TextIds
        /\ (pending[d][a].entry = n => d = b /\ a = c)
        /\ texts[pending[d][a].entry].bot = d /\ texts[pending[d][a].entry].chat = a
  BY TextType DEF TimerInv, EntryNamed, IsNotice
<1>4. CASE DedupSend(n)
  <2>1. IsNotice(n)
    BY <1>1, <1>4 DEF DedupSend, TimerInv, Notices
  <2>2. CASE Entry(n) = NoEntry
    <3>1. SetEntry(n, [entry |-> n, text |-> n]) /\ armed' = armed \union {n}
      BY <1>4, <2>2 DEF DedupSend
    <3>2. pending'[b][c].entry = n /\ pending'[b][c].text = n
      BY <1>2, <2>1, <3>1
    <3>3. Notices'
      BY <1>1, <1>4, <2>1, <3>1 DEF DedupSend, TimerInv, Notices
    <3>4. EntryNamed'
      BY <1>1, <1>2, <2>1, <3>1, <3>2 DEF TimerInv, EntryNamed, IsNotice
    <3>5. EntryHasTimer'
      BY <1>1, <1>2, <1>4, <2>1, <3>1, <3>2 DEF DedupSend, TimerInv, EntryHasTimer
    <3> QED  BY <3>3, <3>4, <3>5
  <2>3. CASE Entry(n) # NoEntry
    <3>1. SetEntry(n, [Entry(n) EXCEPT !.text = n]) /\ armed' = armed \union {Entry(n).entry}
      BY <1>4, <2>3 DEF DedupSend
    <3>2. pending'[b][c].entry = Entry(n).entry /\ pending'[b][c].text = n
      <4>1. pending[b][c] \in [entry : 0 .. MaxTexts, text : 0 .. MaxTexts]
        BY <1>1, <2>1 DEF TimerInv, DeliveryTypeOK, IsNotice
      <4> QED  BY <1>2, <2>1, <3>1, <4>1 DEF Entry
    <3>3. IsNotice(Entry(n).entry) /\ Entry(n).entry \in TextIds
      BY <1>1, <1>3, <2>1, <2>3 DEF Entry, IsNotice
    <3>4. Notices'
      BY <1>1, <1>4, <3>1, <3>3 DEF DedupSend, TimerInv, Notices
    <3>5. EntryNamed'
      BY <1>1, <1>2, <2>1, <2>3, <3>1, <3>2 DEF TimerInv, EntryNamed, IsNotice, Entry
    <3>6. EntryHasTimer'
      BY <1>1, <1>2, <1>4, <2>1, <3>1, <3>2 DEF DedupSend, TimerInv, EntryHasTimer
    <3> QED  BY <3>4, <3>5, <3>6
  <2> QED  BY <2>2, <2>3
<1>5. CASE Fire(n)
  <2>1. /\ armed' = armed \ {n} /\ pending' = pending /\ IsNotice(n)
        /\ callbacks'[n] = callbacks[n] + 1 /\ callbacks[n] \in Nat
        /\ \A m \in TextIds : m # n => callbacks'[m] = callbacks[m]
    BY <1>1, <1>5 DEF Fire, TimerInv, DeliveryTypeOK, Notices
  <2>2. Notices'
    BY <1>1, <1>5, <2>1 DEF Fire, TimerInv, Notices
  <2>3. EntryNamed'
    BY <1>1, <2>1 DEF TimerInv, EntryNamed
  <2>4. EntryHasTimer'
    BY <1>3, <2>1 DEF TimerInv, EntryHasTimer
  <2> QED  BY <2>2, <2>3, <2>4
<1>6. CASE Callback(n)
  <2>1. /\ armed' = armed /\ spawned' = spawned /\ IsNotice(n)
        /\ callbacks[n] \in Nat /\ callbacks'[n] = callbacks[n] - 1
        /\ \A m \in TextIds : m # n => callbacks'[m] = callbacks[m]
    BY <1>1, <1>6 DEF Callback, TimerInv, DeliveryTypeOK, Notices
  <2>2. /\ pending'[b][c] = NoEntry
        /\ \A d \in Bots, a \in Chats :
             (d # b \/ a # c) => pending'[d][a] = pending[d][a]
    BY <1>2, <1>6, <2>1 DEF Callback, Entry
  <2>3. taken' = taken \/ (Entry(n) # NoEntry /\ taken' = taken \union {Entry(n).text})
    BY <1>6 DEF Callback
  <2>4. Notices'
    <3>1. Entry(n) # NoEntry => IsNotice(Entry(n).text)
      BY <1>1, <1>3, <2>1 DEF Entry, IsNotice
    <3> QED  BY <1>1, <2>1, <2>3, <3>1 DEF TimerInv, Notices
  <2>5. EntryNamed'
    BY <1>1, <2>2 DEF TimerInv, EntryNamed
  <2>6. EntryHasTimer'
    BY <1>3, <2>1, <2>2 DEF TimerInv, EntryHasTimer
  <2> QED  BY <2>4, <2>5, <2>6
<1>7. CASE HandOn(n)
  BY <1>1, <1>7 DEF HandOn, TimerInv, Notices, EntryNamed, EntryHasTimer, IsNotice
<1> QED  BY <1>4, <1>5, <1>6, <1>7

LEMMA TimerStep == TimerInv /\ [Next]_vars => TimerInv'
<1> SUFFICES ASSUME TimerInv, [Next]_vars PROVE Notices' /\ EntryNamed' /\ EntryHasTimer'
  BY NextType DEF TimerInv
<1>1. CASE Connect \/ ConnectFails \/ Link \/ Launch \/ Disconnect
  BY <1>1, OtherStep DEF Connect, ConnectFails, Link, Launch, Disconnect, KeepTexts
<1>2. ASSUME NEW c \in Chats, Notify(c) \/ SendMessage(c) \/ SendToAll(c)
      PROVE  Notices' /\ EntryNamed' /\ EntryHasTimer'
  <2>1. wired.bids \in AnyBot /\ wired.clients \in AnyBot /\ wired.hub \in AnyBot
    BY DEF TimerInv, DeliveryTypeOK
  <2>2. CASE Notify(c)
    <3>1. /\ NewText(c, wired.bids) /\ wired.bids \in Bots
          /\ spawned' = spawned \union {Len(texts')}
          /\ UNCHANGED <<pending, armed, callbacks, taken>>
      BY <2>1, <2>2 DEF Notify, AnyBot
    <3> QED  BY <2>1, <3>1, NewTextStep
  <2>3. CASE SendMessage(c)
    BY <2>1, <2>3, NewTextStep DEF SendMessage, dedup
  <2>4. CASE SendToAll(c)
    BY <2>1, <2>4, NewTextStep DEF SendToAll, dedup
  <2> QED  BY <1>2, <2>2, <2>3, <2>4
<1>3. CASE \E n \in DOMAIN texts : DedupSend(n) \/ Fire(n) \/ Callback(n) \/ HandOn(n)
  BY <1>3, DedupStep
<1>4. CASE \E b \in Bots : Begin(b) \/ LoopStops(b) \/ DrainOut(b)
  BY <1>4, OtherStep DEF Begin, LoopStops, DrainOut, KeepTexts, KeepSenders
<1>5. CASE \E b \in Bots, w \in Workers : Work(b, w) \/ Quit(b, w)
  BY <1>5, OtherStep DEF Work, Take, Attempt, Resume, GiveUp, Quit, KeepSenders
<1>6. CASE UNCHANGED vars
  BY <1>6, OtherStep DEF vars
<1> QED  BY <1>1, <1>2, <1>3, <1>4, <1>5, <1>6 DEF Next

LEMMA TimerInit == Init => TimerInv
  BY InitType, DeliveryAssumption
     DEF Init, TimerInv, Notices, EntryNamed, EntryHasTimer, TextIds

\* Everything keeps its type: no channel passes its capacity and no worker its
\* attempts, however often the bot is replaced.
THEOREM DeliveryTypeCorrect == Spec => []DeliveryTypeOK
<1>1. TimerInv => DeliveryTypeOK
  BY DEF TimerInv
<1> QED  BY TimerInit, TimerStep, <1>1, PTL DEF Spec

\* No race between Send, the timers and their callbacks leaves an entry in
\* pending that nothing will deliver.
THEOREM TimerNeverLost == Spec => []EntryHasTimer
<1>1. TimerInv => EntryHasTimer
  BY DEF TimerInv
<1> QED  BY TimerInit, TimerStep, <1>1, PTL DEF Spec

-----------------------------------------------------------------------------
(***************************************************************************)
(* The services follow the manager's bot.                                  *)
(***************************************************************************)

\* Inside Connect no bot is connected until the bid service has its notifier.
Following ==
  /\ manager = "dialing" => bot = NoBot
  /\ manager = "linking" => bot # NoBot /\ wired.bids = bot
  /\ ServicesFollowBot

\* When no Connect is running, the bid service and the client service send
\* through the connected bot.
THEOREM ServicesFollow == Spec => []ServicesFollowBot
<1> DEFINE Inv == DeliveryTypeOK /\ Following
<1>1. Init => Inv
  BY InitType DEF Init, Following, ServicesFollowBot, NoBot
<1>2. ASSUME TimerInv, Inv, [Next]_vars PROVE Inv'
  <2>1. SUFFICES Following'
    BY <1>2, NextType DEF TimerInv
  <2>2. wired \in [bids : AnyBot, clients : AnyBot, hub : AnyBot]
    BY <1>2 DEF DeliveryTypeOK
  <2> USE DEF Following, ServicesFollowBot
  <2>3. CASE Link
    <3>1. PICK b \in Bots : bot' = b /\ wired' = [wired EXCEPT !.bids = b]
      BY <2>3 DEF Link, Unmade
    <3> QED  BY <2>2, <2>3, <3>1 DEF Link, Bots, NoBot
  <2>4. CASE Launch
    BY <1>2, <2>2, <2>4 DEF Launch
  <2>5. CASE Connect \/ ConnectFails \/ Disconnect
    BY <1>2, <2>5 DEF Connect, ConnectFails, Disconnect
  <2>6. CASE UNCHANGED <<bot, manager, wired>>
    BY <1>2, <2>6
  <2>7. ASSUME NEW c \in Chats, Notify(c) \/ SendMessage(c) \/ SendToAll(c)
        PROVE  UNCHANGED <<bot, manager, wired>>
    BY <2>7 DEF Notify, SendMessage, SendToAll, managing
  <2>8. ASSUME NEW n, DedupSend(n) \/ Fire(n) \/ Callback(n) \/ HandOn(n)
        PROVE  UNCHANGED <<bot, manager, wired>>
    BY <2>8 DEF DedupSend, Fire, Callback, HandOn, managing
  <2>9. ASSUME NEW b \in Bots, Begin(b) \/ LoopStops(b) \/ DrainOut(b)
        PROVE  UNCHANGED <<bot, manager, wired>>
    BY <2>9 DEF Begin, LoopStops, DrainOut, KeepSenders, managing
  <2>10. ASSUME NEW b \in Bots, NEW w \in Workers, Work(b, w) \/ Quit(b, w)
         PROVE  UNCHANGED <<bot, manager, wired>>
    BY <2>10 DEF Work, Take, Attempt, Resume, GiveUp, Quit, KeepSenders, managing
  <2>11. CASE UNCHANGED vars
    BY <2>6, <2>11 DEF vars, managing
  <2> QED  BY <1>2, <2>3, <2>4, <2>5, <2>6, <2>7, <2>8, <2>9, <2>10, <2>11 DEF Next
<1>3. Inv => ServicesFollowBot
  BY DEF Following
<1> QED  BY TimerInit, TimerStep, <1>1, <1>2, <1>3, PTL DEF Spec
-----------------------------------------------------------------------------
(***************************************************************************)
(* Where a text is: before its notice runs, in pending, taken out of it, in *)
(* a channel, with a worker, or ended; and in no two of these.              *)
(***************************************************************************)
InPending(n) == \E b \in Bots, c \in Chats : pending[b][c].text = n
InChannel(n) == \E b \in AnyBot : \E i \in 1 .. Len(channel[b]) : channel[b][i] = n
InWorker(n) == \E b \in Bots, w \in Workers : worker[b][w].text = n
Ended(n) == Settled(n) \/ n \in lost

Stages == {"spawned", "pending", "taken", "channel", "worker", "ended"}
In(stage, n) ==
  \/ stage = "spawned" /\ n \in spawned
  \/ stage = "pending" /\ InPending(n)
  \/ stage = "taken" /\ n \in taken
  \/ stage = "channel" /\ InChannel(n)
  \/ stage = "worker" /\ InWorker(n)
  \/ stage = "ended" /\ Ended(n)

Staged ==
  \A n \in TextIds :
    IF n \in DOMAIN texts THEN \E s \in Stages : \A t \in Stages : In(t, n) <=> t = s
                          ELSE \A t \in Stages : ~In(t, n)

\* No text is twice in the channels, or with two workers.
ChannelsApart ==
  \A a, b \in AnyBot : \A i \in 1 .. Len(channel[a]), j \in 1 .. Len(channel[b]) :
    channel[a][i] = channel[b][j] => a = b /\ i = j
WorkersApart ==
  \A a, b \in Bots : \A v, w \in Workers :
    worker[a][v].text = worker[b][w].text /\ worker[a][v].text # 0 => a = b /\ v = w

\* The workers of a bot start once, when it does.
Unstarted ==
  /\ manager = "linking" => bot \in Bots /\ loop[bot] = "made"
  /\ \A b \in Bots : loop[b] \in {"none", "made", "launched"} =>
       \A w \in Workers : worker[b][w] = Off

SentOnce == \A n \in TextIds : sent[n] <= 1

OnceInv == Staged /\ ChannelsApart /\ WorkersApart /\ Unstarted /\ SentOnce

\* A text that goes from one stage to another, the others staying where they
\* are.
LEMMA StageMoves ==
  ASSUME Staged, NEW n \in TextIds, NEW s \in Stages, NEW t \in Stages, In(s, n),
         DOMAIN texts' = DOMAIN texts,
         \A m \in TextIds \ {n} : \A u \in Stages : In(u, m)' <=> In(u, m),
         \A u \in Stages \ {s, t} : In(u, n)' <=> In(u, n),
         In(t, n)',
         s # t => ~In(s, n)'
  PROVE  Staged'
<1>1. n \in DOMAIN texts /\ \A u \in Stages : In(u, n) <=> u = s
  BY DEF Staged
<1>2. \A u \in Stages : In(u, n)' <=> u = t
  BY <1>1
<1> QED  BY <1>1, <1>2 DEF Staged

LEMMA PutPlaces ==
  ASSUME DeliveryTypeOK, ChannelsApart, NEW b \in AnyBot, NEW n \in TextIds, Put(b, n),
         ~InChannel(n), n \notin logged
  PROVE  /\ \A m \in TextIds \ {n} : /\ InChannel(m)' <=> InChannel(m)
                                     /\ m \in logged' <=> m \in logged
         /\ InChannel(n)' <=> n \notin logged'
         /\ ChannelsApart'
<1>1. channel \in [AnyBot -> Seq(TextIds)]
  BY DEF DeliveryTypeOK
<1>2. CASE channel' = [channel EXCEPT ![b] = Append(@, n)] /\ UNCHANGED logged
  <2>1. /\ Len(channel'[b]) = Len(channel[b]) + 1
        /\ channel'[b][Len(channel[b]) + 1] = n
        /\ \A i \in 1 .. Len(channel[b]) : channel'[b][i] = channel[b][i]
        /\ \A a \in AnyBot \ {b} : channel'[a] = channel[a]
        /\ \A a \in AnyBot : Len(channel[a]) \in Nat
    BY <1>1, <1>2
  <2>2. InChannel(n)'
    BY <2>1 DEF InChannel
  <2>3. \A m \in TextIds \ {n} : InChannel(m)' <=> InChannel(m)
    <3>1. \A m \in TextIds \ {n} : InChannel(m) => InChannel(m)'
      BY <2>1 DEF InChannel
    <3>2. ASSUME NEW m \in TextIds \ {n}, InChannel(m)' PROVE InChannel(m)
      <4>1. PICK a \in AnyBot : \E i \in 1 .. Len(channel'[a]) : channel'[a][i] = m
        BY <3>2 DEF InChannel
      <4>2. PICK i \in 1 .. Len(channel'[a]) : channel'[a][i] = m
        BY <4>1
      <4>3. i \in 1 .. Len(channel[a]) /\ channel[a][i] = m
        BY <2>1, <4>2
      <4> QED  BY <4>3 DEF InChannel
    <3> QED  BY <3>1, <3>2
  <2>4. ChannelsApart'
    <3>1. ASSUME NEW a \in AnyBot, NEW i \in 1 .. Len(channel'[a])
          PROVE  \/ i \in 1 .. Len(channel[a]) /\ channel'[a][i] = channel[a][i]
                                               /\ channel[a][i] # n
                 \/ a = b /\ i = Len(channel[b]) + 1 /\ channel'[a][i] = n
      BY <2>1, <3>1 DEF InChannel
    <3> QED  BY <3>1 DEF ChannelsApart
  <2> QED  BY <1>2, <2>2, <2>3, <2>4
<1>3. CASE logged' = logged \union {n} /\ UNCHANGED channel
  BY <1>3 DEF InChannel, ChannelsApart
<1> QED  BY <1>2, <1>3 DEF Put

LEMMA TailPlaces ==
  ASSUME DeliveryTypeOK, ChannelsApart, NEW b \in AnyBot, channel[b] # <<>>,
         channel' = [channel EXCEPT ![b] = Tail(@)], NEW n, n = Head(channel[b])
  PROVE  /\ n \in TextIds
         /\ InChannel(n)
         /\ ~InChannel(n)'
         /\ \A m \in TextIds \ {n} : InChannel(m)' <=> InChannel(m)
         /\ ChannelsApart'
<1>1. channel \in [AnyBot -> Seq(TextIds)]
  BY DEF DeliveryTypeOK
<1>2. /\ Len(channel'[b]) = Len(channel[b]) - 1
      /\ Len(channel[b]) \in Nat \ {0}
      /\ n = channel[b][1]
      /\ n \in TextIds
      /\ \A i \in 1 .. Len(channel'[b]) : channel'[b][i] = channel[b][i + 1]
      /\ \A a \in AnyBot \ {b} : channel'[a] = channel[a]
      /\ \A a \in AnyBot : Len(channel[a]) \in Nat
  BY <1>1
<1>3. InChannel(n)
  BY <1>2 DEF InChannel
<1>4. ASSUME NEW a \in AnyBot, NEW i \in 1 .. Len(channel'[a])
      PROVE  \E j \in 1 .. Len(channel[a]) :
               /\ channel'[a][i] = channel[a][j]
               /\ j = IF a = b THEN i + 1 ELSE i
  BY <1>2, <1>4
<1>5. ~InChannel(n)'
  BY <1>2, <1>4 DEF InChannel, ChannelsApart
<1>6. ASSUME NEW m \in TextIds \ {n}, InChannel(m) PROVE InChannel(m)'
  <2>1. PICK a \in AnyBot : \E i \in 1 .. Len(channel[a]) : channel[a][i] = m
    BY <1>6 DEF InChannel
  <2>2. PICK i \in 1 .. Len(channel[a]) : channel[a][i] = m
    BY <2>1
  <2>3. CASE a = b
    <3>1. i # 1
      BY <1>2, <1>6, <2>2, <2>3
    <3>2. i - 1 \in 1 .. Len(channel'[b]) /\ channel'[b][i - 1] = m
      BY <1>2, <2>2, <2>3, <3>1
    <3> QED  BY <2>3, <3>2 DEF InChannel
  <2>4. CASE a # b
    BY <1>2, <2>2, <2>4 DEF InChannel
  <2> QED  BY <2>3, <2>4
<1>7. \A m \in TextIds \ {n} : InChannel(m)' => InChannel(m)
  BY <1>4 DEF InChannel
<1>8. ChannelsApart'
  <2> SUFFICES ASSUME NEW a \in AnyBot, NEW c \in AnyBot, NEW i \in 1 .. Len(channel'[a]),
                      NEW j \in 1 .. Len(channel'[c]), channel'[a][i] = channel'[c][j]
               PROVE  a = c /\ i = j
    BY DEF ChannelsApart
  <2>1. PICK k \in 1 .. Len(channel[a]) :
          channel'[a][i] = channel[a][k] /\ k = IF a = b THEN i + 1 ELSE i
    BY <1>4
  <2>2. PICK l \in 1 .. Len(channel[c]) :
          channel'[c][j] = channel[c][l] /\ l = IF c = b THEN j + 1 ELSE j
    BY <1>4
  <2>3. a = c /\ k = l
    BY <2>1, <2>2 DEF ChannelsApart
  <2> QED  BY <1>2, <2>1, <2>2, <2>3
<1> QED  BY <1>2, <1>3, <1>5, <1>6, <1>7, <1>8

LEMMA BecomesPlaces ==
  ASSUME DeliveryTypeOK, WorkersApart, NEW b \in Bots, NEW w \in Workers,
         NEW old, old = worker[b][w].text,
         NEW s, s.text \in 0 .. MaxTexts, Becomes(b, w, s),
         s.text \in TextIds /\ s.text # old => ~InWorker(s.text)
  PROVE  /\ \A m \in TextIds \ {old, s.text} : InWorker(m)' <=> InWorker(m)
         /\ old \in TextIds => InWorker(old)
         /\ s.text \in TextIds => InWorker(s.text)'
         /\ old \in TextIds /\ old # s.text => ~InWorker(old)'
         /\ WorkersApart'
<1>1. /\ worker'[b][w] = s
      /\ \A a \in Bots, v \in Workers : a # b \/ v # w => worker'[a][v] = worker[a][v]
  BY DEF Becomes, DeliveryTypeOK
<1>2. old \in TextIds => InWorker(old)
  BY DEF InWorker
<1>3. s.text \in TextIds => InWorker(s.text)'
  BY <1>1 DEF InWorker
<1>4. \A m \in TextIds \ {old, s.text} : InWorker(m)' <=> InWorker(m)
  BY <1>1 DEF InWorker
<1>5. old \in TextIds /\ old # s.text => ~InWorker(old)'
  BY <1>1 DEF InWorker, WorkersApart, TextIds
<1>6. \A a \in Bots, v \in Workers :
        a # b \/ v # w => worker'[a][v].text # s.text \/ s.text = 0
  BY <1>1 DEF InWorker, WorkersApart, TextIds
<1>7. WorkersApart'
  BY <1>1, <1>6 DEF WorkersApart
<1> QED  BY <1>2, <1>3, <1>4, <1>5, <1>7

LEMMA EntryPlaces ==
  ASSUME TimerInv, NEW n \in DOMAIN texts, IsNotice(n), NEW e, SetEntry(n, e),
         UNCHANGED texts, NEW old, old = Entry(n).text
  PROVE  /\ \A m \in TextIds \ {old, e.text} : InPending(m)' <=> InPending(m)
         /\ old \in TextIds => InPending(old)
         /\ e.text \in TextIds => InPending(e.text)'
         /\ old \in TextIds /\ old # e.text => ~InPending(old)'
<1> DEFINE b == texts[n].bot
           c == texts[n].chat
<1>1. n \in TextIds /\ b \in Bots /\ c \in Chats
  BY TextType DEF TimerInv, IsNotice
<1>2. /\ pending'[b][c] = e
      /\ \A d \in Bots, a \in Chats : (d # b \/ a # c) => pending'[d][a] = pending[d][a]
  BY <1>1 DEF SetEntry, TimerInv, DeliveryTypeOK
<1>3. pending[b][c].text = old
  BY DEF Entry
<1>4. ASSUME old \in TextIds, NEW d \in Bots, NEW a \in Chats, pending[d][a].text = old
      PROVE  d = b /\ a = c
  <2>1. pending[d][a] # NoEntry /\ pending[b][c] # NoEntry
    BY <1>3, <1>4 DEF NoEntry, TextIds
  <2>2. texts[old].bot = d /\ texts[old].chat = a /\ texts[old].bot = b /\ texts[old].chat = c
    BY <1>1, <1>3, <1>4, <2>1 DEF TimerInv, EntryNamed
  <2> QED  BY <2>2
<1>5. \A m \in TextIds \ {old, e.text} : InPending(m)' <=> InPending(m)
  BY <1>1, <1>2, <1>3 DEF InPending
<1>6. old \in TextIds /\ old # e.text => ~InPending(old)'
  BY <1>2, <1>4 DEF InPending
<1>7. (old \in TextIds => InPending(old)) /\ (e.text \in TextIds => InPending(e.text)')
  BY <1>1, <1>2, <1>3 DEF InPending
<1> QED  BY <1>5, <1>6, <1>7

\* Steps of the manager, timers that run out, and bots that begin or stop.
LEMMA StageStays ==
  ASSUME OnceInv,
         UNCHANGED <<texts, spawned, pending, taken, channel, sent, logged, replaced, lost>>,
         \A b \in Bots, w \in Workers : worker'[b][w].text = worker[b][w].text
  PROVE  Staged' /\ ChannelsApart' /\ WorkersApart' /\ SentOnce'
<1>1. \A n : \A s \in Stages : In(s, n)' <=> In(s, n)
  BY DEF In, InPending, InChannel, InWorker, Ended, Settled
<1>2. Staged'
  BY <1>1 DEF OnceInv, Staged
<1>3. ChannelsApart' /\ WorkersApart' /\ SentOnce'
  BY DEF OnceInv, ChannelsApart, WorkersApart, SentOnce
<1> QED  BY <1>2, <1>3

LEMMA UnstartedStep ==
  ASSUME TimerInv, Unstarted, [Next]_vars PROVE Unstarted'
<1>1. /\ loop \in [Bots -> {"none", "made", "launched", "running", "stopped"}]
      /\ worker \in [Bots -> [Workers -> {Off, Waiting} \union Holding]]
      /\ bot \in AnyBot
  BY DEF TimerInv, DeliveryTypeOK
<1> USE DEF Unstarted
<1>2. CASE Connect \/ ConnectFails \/ Disconnect
  BY <1>2 DEF Connect, ConnectFails, Disconnect, KeepTexts, sending
<1>3. CASE Link
  BY <1>1, <1>3 DEF Link, Unmade, KeepTexts, sending
<1>4. CASE Launch
  BY <1>1, <1>4 DEF Launch, KeepTexts, sending
<1>5. CASE UNCHANGED <<manager, bot, loop, worker>>
  BY <1>5
<1>6. ASSUME NEW c \in Chats, Notify(c) \/ SendMessage(c) \/ SendToAll(c)
      PROVE  UNCHANGED <<manager, bot, loop, worker>>
  BY <1>6 DEF Notify, SendMessage, SendToAll, managing, sending
<1>7. ASSUME NEW n \in DOMAIN texts, DedupSend(n) \/ Fire(n) \/ Callback(n) \/ HandOn(n)
      PROVE  UNCHANGED <<manager, bot, loop, worker>>
  BY <1>7 DEF DedupSend, Fire, Callback, HandOn, managing, sending
<1>8. ASSUME NEW b \in Bots, Begin(b) \/ LoopStops(b) PROVE Unstarted'
  <2>1. CASE Begin(b)
    BY <1>1, <2>1 DEF Begin
  <2>2. CASE LoopStops(b)
    BY <1>1, <2>2 DEF LoopStops, KeepTexts, sending
  <2> QED  BY <1>8, <2>1, <2>2
<1>9. ASSUME NEW b \in Bots, DrainOut(b) PROVE UNCHANGED <<manager, bot, loop, worker>>
  BY <1>9 DEF DrainOut, KeepSenders, managing
<1>10. ASSUME NEW b \in Bots, NEW w \in Workers, Work(b, w) \/ Quit(b, w) PROVE Unstarted'
  <2>1. /\ UNCHANGED <<manager, bot, loop>>
        /\ worker[b][w] # Off
        /\ \A a \in Bots, v \in Workers : a # b \/ v # w => worker'[a][v] = worker[a][v]
    BY <1>1, <1>10 DEF Work, Take, Attempt, Resume, GiveUp, Quit, Becomes, KeepSenders, managing,
                       Off, Waiting
  <2> QED  BY <2>1
<1>11. CASE UNCHANGED vars
  BY <1>5, <1>11 DEF vars, managing, sending
<1> QED  BY <1>2, <1>3, <1>4, <1>5, <1>6, <1>7, <1>8, <1>9, <1>10, <1>11 DEF Next

\* A new text's first stage.
LEMMA StageStarts ==
  ASSUME Staged, NEW n \in TextIds, n \notin DOMAIN texts, NEW t \in Stages,
         DOMAIN texts' = DOMAIN texts \union {n},
         \A m \in TextIds \ {n} : \A u \in Stages : In(u, m)' <=> In(u, m),
         \A u \in Stages \ {t} : In(u, n)' <=> In(u, n),
         In(t, n)'
  PROVE  Staged'
<1>1. \A u \in Stages : In(u, n)' <=> u = t
  BY DEF Staged
<1> QED  BY <1>1 DEF Staged

LEMMA SenderStage ==
  ASSUME TimerInv, OnceInv, NEW c \in Chats, Notify(c) \/ SendMessage(c) \/ SendToAll(c)
  PROVE  Staged' /\ ChannelsApart' /\ WorkersApart' /\ SentOnce'
<1>1. wired.bids \in AnyBot /\ wired.clients \in AnyBot /\ wired.hub \in AnyBot /\ DeliveryTypeOK
  BY DEF TimerInv, DeliveryTypeOK
<1>2. \E b \in AnyBot : NewText(c, b)
  BY <1>1 DEF Notify, SendMessage, SendToAll
<1>3. PICK n \in TextIds :
        n = Len(texts') /\ n \notin DOMAIN texts /\ DOMAIN texts' = DOMAIN texts \union {n}
  <2>1. /\ Len(texts') = Len(texts) + 1 /\ Len(texts') \in TextIds
        /\ texts' \in Seq([chat : Chats, bot : AnyBot])
    BY <1>1, <1>2, NewTextType
  <2>2. DOMAIN texts' = 1 .. Len(texts') /\ DOMAIN texts = 1 .. Len(texts) /\ Len(texts) \in Nat
    BY <1>1, <2>1 DEF DeliveryTypeOK
  <2> QED  BY <2>1, <2>2
<1>4. \A u \in Stages : ~In(u, n)
  BY <1>3 DEF OnceInv, Staged
<1>5. n \notin logged /\ ~InChannel(n)
  <2>1. "ended" \in Stages /\ "channel" \in Stages
    BY DEF Stages
  <2> QED  BY <1>4, <2>1 DEF In, Ended, Settled
<1>6. CASE Notify(c)
  <2>1. spawned' = spawned \union {n}
        /\ UNCHANGED <<pending, taken, channel, worker, sent, logged, replaced, lost>>
    BY <1>3, <1>6 DEF Notify, sending
  <2>2. \A m : \A u \in Stages : m # n \/ u # "spawned" => (In(u, m)' <=> In(u, m))
    BY <2>1 DEF In, InPending, InChannel, InWorker, Ended, Settled
  <2>3. In("spawned", n)' /\ "spawned" \in Stages
    BY <2>1 DEF In, Stages
  <2>4. Staged'
    BY <1>3, <2>2, <2>3, StageStarts DEF OnceInv
  <2> QED  BY <2>1, <2>4 DEF OnceInv, ChannelsApart, WorkersApart, SentOnce
<1>7. ASSUME NEW b \in AnyBot, Put(b, n),
             UNCHANGED <<managing, dedup, replaced, worker, sent, lost>>
      PROVE  Staged' /\ ChannelsApart' /\ WorkersApart' /\ SentOnce'
  <2>1. /\ \A m \in TextIds \ {n} : /\ InChannel(m)' <=> InChannel(m)
                                    /\ m \in logged' <=> m \in logged
        /\ InChannel(n)' <=> n \notin logged'
        /\ ChannelsApart'
    BY <1>1, <1>3, <1>5, <1>7, PutPlaces DEF OnceInv
  <2>2. \A m \in TextIds \ {n} : \A u \in Stages : In(u, m)' <=> In(u, m)
    BY <1>7, <2>1 DEF In, InPending, InWorker, Ended, Settled, dedup
  <2>3. \A u \in Stages \ {"channel", "ended"} : In(u, n)' <=> In(u, n)
    BY <1>7 DEF In, InPending, InWorker, dedup
  <2>4. "channel" \in Stages /\ "ended" \in Stages /\ ~In("channel", n) /\ ~In("ended", n)
    BY <1>4 DEF Stages
  <2>5. In("channel", n)' <=> InChannel(n)'
    BY DEF In
  <2>6. In("ended", n)' <=> n \in logged'
    BY <1>7, <2>4 DEF In, Ended, Settled
  <2>7. Staged'
    <3>1. CASE n \in logged'
      BY <1>3, <2>1, <2>2, <2>3, <2>4, <2>5, <2>6, <3>1, StageStarts DEF OnceInv
    <3>2. CASE n \notin logged'
      BY <1>3, <2>1, <2>2, <2>3, <2>4, <2>5, <2>6, <3>2, StageStarts DEF OnceInv
    <3> QED  BY <3>1, <3>2
  <2> QED  BY <1>7, <2>1, <2>7 DEF OnceInv, WorkersApart, SentOnce
<1>8. CASE SendMessage(c)
  BY <1>1, <1>3, <1>7, <1>8 DEF SendMessage
<1>9. CASE SendToAll(c)
  BY <1>1, <1>3, <1>7, <1>9 DEF SendToAll
<1> QED  BY <1>6, <1>8, <1>9

LEMMA DedupStage ==
  ASSUME TimerInv, OnceInv, NEW n \in DOMAIN texts,
         DedupSend(n) \/ Fire(n) \/ Callback(n) \/ HandOn(n)
  PROVE  Staged' /\ ChannelsApart' /\ WorkersApart' /\ SentOnce'
<1>1. n \in TextIds /\ DeliveryTypeOK
  BY TextType DEF TimerInv
<1>2. PICK old : old = Entry(n).text
  OBVIOUS
<1>3. CASE Fire(n)
  BY <1>3, StageStays DEF Fire, sending
<1>4. CASE HandOn(n)
  <2>1. /\ Put(texts[n].bot, n) /\ texts[n].bot \in AnyBot /\ taken' = taken \ {n} /\ n \in taken
        /\ UNCHANGED <<texts, spawned, pending, replaced, worker, sent, lost>>
    BY <1>1, <1>4, TextType DEF HandOn
  <2>2. In("taken", n) /\ {"taken", "channel", "ended"} \subseteq Stages
    BY <2>1 DEF In, Stages
  <2>3. \A u \in Stages \ {"taken"} : ~In(u, n)
    BY <1>1, <2>2 DEF OnceInv, Staged
  <2>4. n \notin logged /\ ~InChannel(n)
    BY <2>2, <2>3 DEF In, Ended, Settled
  <2>5. /\ \A m \in TextIds \ {n} : /\ InChannel(m)' <=> InChannel(m)
                                    /\ m \in logged' <=> m \in logged
        /\ InChannel(n)' <=> n \notin logged'
        /\ ChannelsApart'
    BY <1>1, <2>1, <2>4, PutPlaces DEF OnceInv
  <2>6. \A m \in TextIds \ {n} : \A u \in Stages : In(u, m)' <=> In(u, m)
    BY <2>1, <2>5 DEF In, InPending, InWorker, Ended, Settled
  <2>7. \A u \in Stages \ {"taken", "channel", "ended"} : In(u, n)' <=> In(u, n)
    BY <2>1 DEF In, InPending, InWorker
  <2>8. ~In("taken", n)' /\ (In("channel", n)' <=> InChannel(n)')
    BY <2>1 DEF In
  <2>9. In("ended", n)' <=> n \in logged'
    <3>1. ~In("ended", n)
      BY <2>2, <2>3
    <3> QED  BY <2>1, <3>1 DEF In, Ended, Settled
  <2>10. Staged'
    <3>1. CASE n \in logged'
      <4>1. \A u \in Stages \ {"taken", "ended"} : In(u, n)' <=> In(u, n)
        BY <2>2, <2>3, <2>5, <2>7, <2>8, <3>1
      <4> QED  BY <1>1, <2>1, <2>2, <2>6, <2>8, <2>9, <3>1, <4>1, StageMoves DEF OnceInv
    <3>2. CASE n \notin logged'
      <4>1. \A u \in Stages \ {"taken", "channel"} : In(u, n)' <=> In(u, n)
        BY <2>2, <2>3, <2>7, <2>9, <3>2
      <4> QED  BY <1>1, <2>1, <2>2, <2>5, <2>6, <2>8, <3>2, <4>1, StageMoves DEF OnceInv
    <3> QED  BY <3>1, <3>2
  <2> QED  BY <2>1, <2>5, <2>10 DEF OnceInv, WorkersApart, SentOnce
<1>5. CASE DedupSend(n)
  <2>1. /\ n \in spawned /\ spawned' = spawned \ {n} /\ IsNotice(n)
        /\ UNCHANGED <<texts, taken, channel, worker, sent, logged, lost>>
    BY <1>1, <1>5 DEF DedupSend, TimerInv, Notices, sending
  <2>2. In("spawned", n) /\ {"spawned", "pending", "ended"} \subseteq Stages
    BY <2>1 DEF In, Stages
  <2>3. ~In("spawned", n)'
    BY <2>1 DEF In
  <2>4. ChannelsApart' /\ WorkersApart' /\ SentOnce'
    BY <2>1 DEF OnceInv, ChannelsApart, WorkersApart, SentOnce
  <2>5. CASE Entry(n) = NoEntry
    <3>1. SetEntry(n, [entry |-> n, text |-> n]) /\ UNCHANGED replaced /\ old \notin TextIds
      BY <1>2, <1>5, <2>5 DEF DedupSend, NoEntry, TextIds
    <3>2. /\ \A m \in TextIds \ {n} : InPending(m)' <=> InPending(m)
          /\ InPending(n)'
      BY <1>1, <1>2, <2>1, <3>1, EntryPlaces
    <3>3. \A m \in TextIds \ {n} : \A u \in Stages : In(u, m)' <=> In(u, m)
      BY <2>1, <3>1, <3>2 DEF In, InChannel, InWorker, Ended, Settled
    <3>4. \A u \in Stages \ {"spawned", "pending"} : In(u, n)' <=> In(u, n)
      BY <2>1, <3>1 DEF In, InChannel, InWorker, Ended, Settled
    <3>5. In("pending", n)'
      BY <3>2 DEF In
    <3> QED  BY <1>1, <2>1, <2>2, <2>3, <2>4, <3>3, <3>4, <3>5, StageMoves DEF OnceInv
  <2>6. CASE Entry(n) # NoEntry
    <3>1. SetEntry(n, [Entry(n) EXCEPT !.text = n]) /\ replaced' = replaced \union {old}
      BY <1>2, <1>5, <2>6 DEF DedupSend
    <3>2. old \in DOMAIN texts /\ old \in TextIds
      BY <1>1, <1>2, <2>1, <2>6, TextType DEF TimerInv, EntryNamed, Entry, IsNotice
    <3>3. PICK e : SetEntry(n, e) /\ e.text = n
      <4>1. Entry(n) \in [entry : 0 .. MaxTexts, text : 0 .. MaxTexts]
        BY <1>1, <2>1, EntryType DEF IsNotice
      <4> QED  BY <3>1, <4>1
    <3>4. /\ \A m \in TextIds \ {old, n} : InPending(m)' <=> InPending(m)
          /\ InPending(old) /\ InPending(n)'
          /\ old # n => ~InPending(old)'
      BY <1>1, <1>2, <2>1, <3>2, <3>3, EntryPlaces
    <3>5. In("pending", old)
      BY <3>4 DEF In
    <3>6. old # n
      BY <2>2, <3>2, <3>5 DEF OnceInv, Staged
    <3>7. \A m \in TextIds \ {old, n} : \A u \in Stages : In(u, m)' <=> In(u, m)
      BY <2>1, <3>1, <3>4 DEF In, InChannel, InWorker, Ended, Settled
    <3>8. \A u \in Stages : In(u, n)' <=> u = "pending"
      <4>1. \A u \in Stages \ {"spawned", "pending"} : In(u, n)' <=> In(u, n)
        BY <2>1, <3>1, <3>6 DEF In, InChannel, InWorker, Ended, Settled
      <4>2. \A u \in Stages \ {"spawned"} : ~In(u, n)
        BY <1>1, <2>2 DEF OnceInv, Staged
      <4>3. In("pending", n)'
        BY <3>4 DEF In
      <4> QED  BY <2>3, <4>1, <4>2, <4>3
    <3>9. \A u \in Stages : In(u, old)' <=> u = "ended"
      <4>1. \A u \in Stages \ {"pending", "ended"} : In(u, old)' <=> In(u, old)
        BY <2>1, <3>1, <3>6 DEF In, InChannel, InWorker
      <4>2. \A u \in Stages \ {"pending"} : ~In(u, old)
        BY <2>2, <3>2, <3>5 DEF OnceInv, Staged
      <4>3. In("ended", old)' /\ ~In("pending", old)'
        BY <3>1, <3>4, <3>6 DEF In, Ended, Settled
      <4> QED  BY <4>1, <4>2, <4>3
    <3>10. Staged'
      BY <1>1, <2>1, <2>2, <3>2, <3>7, <3>8, <3>9 DEF OnceInv, Staged
    <3> QED  BY <2>4, <3>10
  <2> QED  BY <2>5, <2>6
<1>6. CASE Callback(n)
  <2>1. UNCHANGED <<texts, spawned, replaced, channel, worker, sent, logged, lost>>
    BY <1>6 DEF Callback, sending
  <2>2. IsNotice(n)
    BY <1>1, <1>6 DEF Callback, TimerInv, Notices, DeliveryTypeOK
  <2>3. CASE Entry(n) = NoEntry
    <3>1. UNCHANGED <<pending, taken>>
      BY <1>6, <2>3 DEF Callback
    <3> QED  BY <2>1, <3>1, StageStays
  <2>4. CASE Entry(n) # NoEntry
    <3>1. SetEntry(n, NoEntry) /\ taken' = taken \union {old}
      BY <1>2, <1>6, <2>4 DEF Callback
    <3>2. old \in DOMAIN texts /\ old \in TextIds /\ NoEntry.text \notin TextIds /\ NoEntry.text = 0
      BY <1>1, <1>2, <2>2, <2>4, TextType DEF TimerInv, EntryNamed, Entry, IsNotice, NoEntry, TextIds
    <3>3. /\ \A m \in TextIds \ {old} : InPending(m)' <=> InPending(m)
          /\ InPending(old) /\ ~InPending(old)'
      BY <1>2, <2>1, <2>2, <3>1, <3>2, EntryPlaces
    <3>4. /\ In("pending", old) /\ ~In("pending", old)' /\ In("taken", old)'
          /\ "pending" \in Stages /\ "taken" \in Stages
      BY <3>1, <3>3 DEF In, Stages
    <3>5. \A m \in TextIds \ {old} : \A u \in Stages : In(u, m)' <=> In(u, m)
      BY <2>1, <3>1, <3>3 DEF In, InChannel, InWorker, Ended, Settled
    <3>6. \A u \in Stages \ {"pending", "taken"} : In(u, old)' <=> In(u, old)
      BY <2>1 DEF In, InChannel, InWorker, Ended, Settled
    <3>7. Staged'
      BY <2>1, <3>2, <3>4, <3>5, <3>6, StageMoves DEF OnceInv
    <3> QED  BY <2>1, <3>7 DEF OnceInv, ChannelsApart, WorkersApart, SentOnce
  <2> QED  BY <2>3, <2>4
<1> QED  BY <1>3, <1>4, <1>5, <1>6

\* A text that ends: it is got once, logged or lost.
Ends(n) ==
  /\ sent' \in {sent, Got(n)}
  /\ logged' \in {logged, logged \union {n}}
  /\ lost' \in {lost, lost \union {n}}
  /\ UNCHANGED replaced
  /\ \/ sent' = Got(n) \/ n \in logged' \/ n \in lost'

LEMMA EndPlaces ==
  ASSUME DeliveryTypeOK, SentOnce, NEW n \in TextIds, ~In("ended", n), Ends(n)
  PROVE  /\ In("ended", n)'
         /\ \A m \in TextIds \ {n} : In("ended", m)' <=> In("ended", m)
         /\ SentOnce'
<1>1. sent[n] = 0 /\ sent \in [TextIds -> Nat]
  BY DEF DeliveryTypeOK, In, Ended, Settled
<1>2. /\ sent'[n] \in {0, 1}
      /\ sent' = Got(n) => sent'[n] = 1
      /\ \A m \in TextIds \ {n} : sent'[m] = sent[m]
  BY <1>1 DEF Ends, Got
<1>3. In("ended", n)'
  BY <1>2 DEF Ends, In, Ended, Settled
<1>4. \A m \in TextIds \ {n} : In("ended", m)' <=> In("ended", m)
  BY <1>2 DEF Ends, In, Ended, Settled
<1>5. SentOnce'
  BY <1>2 DEF SentOnce
<1> QED  BY <1>3, <1>4, <1>5

LEMMA WorkerEnds ==
  ASSUME TimerInv, OnceInv, NEW b \in Bots, NEW w \in Workers, NEW n \in TextIds,
         worker[b][w].text = n, Becomes(b, w, Waiting), Ends(n), KeepSenders, UNCHANGED channel
  PROVE  Staged' /\ ChannelsApart' /\ WorkersApart' /\ SentOnce'
<1>1. Waiting.text = 0 /\ 0 \in 0 .. MaxTexts /\ 0 \notin TextIds
  BY DeliveryAssumption DEF Waiting, TextIds
<1>2. /\ \A m \in TextIds \ {n} : InWorker(m)' <=> InWorker(m)
      /\ InWorker(n) /\ ~InWorker(n)'
      /\ WorkersApart'
  BY <1>1, BecomesPlaces DEF TimerInv, OnceInv
<1>3. In("worker", n) /\ ~In("worker", n)' /\ "worker" \in Stages /\ "ended" \in Stages
  BY <1>2 DEF In, Stages
<1>4. ~In("ended", n)
  BY <1>3 DEF OnceInv, Staged
<1>5. /\ In("ended", n)'
      /\ \A m \in TextIds \ {n} : In("ended", m)' <=> In("ended", m)
      /\ SentOnce'
  BY <1>4, EndPlaces DEF TimerInv, OnceInv
<1>6. \A m \in TextIds : \A u \in Stages \ {"worker", "ended"} : In(u, m)' <=> In(u, m)
  BY DEF In, InPending, InChannel, KeepSenders, dedup
<1>7. \A m \in TextIds \ {n} : In("worker", m)' <=> In("worker", m)
  BY <1>2 DEF In
<1>8. \A m \in TextIds \ {n} : \A u \in Stages : In(u, m)' <=> In(u, m)
  BY <1>5, <1>6, <1>7
<1>9. Staged'
  BY <1>3, <1>5, <1>6, <1>8, StageMoves DEF OnceInv, KeepSenders
<1>10. ChannelsApart'
  BY DEF OnceInv, ChannelsApart
<1> QED  BY <1>2, <1>5, <1>9, <1>10

LEMMA DrainStage ==
  ASSUME TimerInv, OnceInv, NEW b \in Bots, DrainOut(b)
  PROVE  Staged' /\ ChannelsApart' /\ WorkersApart' /\ SentOnce'
<1>1. PICK n : n = Head(channel[NoBot])
  OBVIOUS
<1>2. NoBot \in AnyBot /\ channel[NoBot] # <<>> /\ channel' = [channel EXCEPT ![NoBot] = Tail(@)]
  BY DEF DrainOut, AnyBot
<1>3. /\ n \in TextIds /\ InChannel(n) /\ ~InChannel(n)' /\ ChannelsApart'
      /\ \A m \in TextIds \ {n} : InChannel(m)' <=> InChannel(m)
  BY <1>1, <1>2, TailPlaces DEF TimerInv, OnceInv
<1>4. In("channel", n) /\ ~In("channel", n)' /\ "channel" \in Stages /\ "ended" \in Stages
  BY <1>3 DEF In, Stages
<1>5. ~In("ended", n)
  BY <1>3, <1>4 DEF OnceInv, Staged
<1>6. Ends(n)
  BY <1>1 DEF DrainOut, Ends, KeepSenders
<1>7. /\ In("ended", n)'
      /\ \A m \in TextIds \ {n} : In("ended", m)' <=> In("ended", m)
      /\ SentOnce'
  BY <1>3, <1>5, <1>6, EndPlaces DEF TimerInv, OnceInv
<1>8. \A m \in TextIds : \A u \in Stages \ {"channel", "ended"} : In(u, m)' <=> In(u, m)
  BY DEF DrainOut, In, InPending, InWorker, KeepSenders, dedup
<1>9. \A m \in TextIds \ {n} : In("channel", m)' <=> In("channel", m)
  BY <1>3 DEF In
<1>10. \A m \in TextIds \ {n} : \A u \in Stages : In(u, m)' <=> In(u, m)
  BY <1>7, <1>8, <1>9
<1>11. Staged'
  BY <1>3, <1>4, <1>7, <1>8, <1>10, StageMoves DEF OnceInv, DrainOut, KeepSenders
<1>12. WorkersApart'
  BY DEF DrainOut, OnceInv, WorkersApart
<1> QED  BY <1>3, <1>7, <1>11, <1>12

LEMMA WorkStage ==
  ASSUME TimerInv, OnceInv, NEW b \in Bots, NEW w \in Workers, Work(b, w) \/ Quit(b, w)
  PROVE  Staged' /\ ChannelsApart' /\ WorkersApart' /\ SentOnce'
<1>1. worker \in [Bots -> [Workers -> {Off, Waiting} \union Holding]] /\ b \in AnyBot
  BY DEF TimerInv, DeliveryTypeOK, AnyBot
<1>2. ASSUME NEW s, Becomes(b, w, s), s.text = worker[b][w].text, KeepSenders,
             UNCHANGED <<channel, sent, logged, lost>>
      PROVE  Staged' /\ ChannelsApart' /\ WorkersApart' /\ SentOnce'
  <2>1. \A a \in Bots, v \in Workers : worker'[a][v].text = worker[a][v].text
    BY <1>1, <1>2 DEF Becomes
  <2> QED  BY <1>2, <2>1, StageStays DEF KeepSenders, dedup
<1>3. PICK n : n = worker[b][w].text
  OBVIOUS
<1>4. worker[b][w].state \in {"send", "backoff"} => n \in TextIds /\ worker[b][w] \in Holding
  BY <1>1, <1>3 DEF Off, Waiting, Holding
<1>5. CASE Quit(b, w)
  BY <1>2, <1>5 DEF Quit, Off, Waiting
<1>6. CASE GiveUp(b, w)
  BY <1>3, <1>4, <1>6, WorkerEnds DEF GiveUp, Ends, KeepSenders
<1>7. CASE Resume(b, w)
  <2>1. CASE Becomes(b, w, [worker[b][w] EXCEPT !.state = "send", !.attempt = @ + 1])
             /\ UNCHANGED logged
    <3>1. [worker[b][w] EXCEPT !.state = "send", !.attempt = @ + 1].text = worker[b][w].text
      BY <1>4, <1>7 DEF Resume, Holding
    <3> QED  BY <1>2, <1>7, <2>1, <3>1 DEF Resume
  <2>2. CASE logged' = logged \union {worker[b][w].text} /\ Becomes(b, w, Waiting)
    BY <1>3, <1>4, <1>7, <2>2, WorkerEnds DEF Resume, Ends, KeepSenders
  <2> QED  BY <1>7, <2>1, <2>2 DEF Resume
<1>8. CASE Attempt(b, w)
  <2>1. CASE Becomes(b, w, [worker[b][w] EXCEPT !.state = "backoff"]) /\ UNCHANGED <<sent, logged>>
    <3>1. [worker[b][w] EXCEPT !.state = "backoff"].text = worker[b][w].text
      BY <1>4, <1>8 DEF Attempt, Holding
    <3> QED  BY <1>2, <1>8, <2>1, <3>1 DEF Attempt
  <2>2. CASE Becomes(b, w, Waiting) /\ Ends(n)
    BY <1>3, <1>4, <1>8, <2>2, WorkerEnds DEF Attempt
  <2> QED  BY <1>3, <1>8, <2>1, <2>2 DEF Attempt, Ends, KeepSenders
<1>9. CASE Take(b, w)
  <2>1. PICK m : m = Head(channel[b])
    OBVIOUS
  <2>2. channel[b] # <<>> /\ channel' = [channel EXCEPT ![b] = Tail(@)] /\ worker[b][w].text = 0
    BY <1>9 DEF Take, Waiting
  <2>3. /\ m \in TextIds /\ InChannel(m) /\ ~InChannel(m)' /\ ChannelsApart'
        /\ \A k \in TextIds \ {m} : InChannel(k)' <=> InChannel(k)
    BY <1>1, <2>1, <2>2, TailPlaces DEF TimerInv, OnceInv
  <2>4. In("channel", m) /\ ~In("channel", m)' /\ "channel" \in Stages /\ "worker" \in Stages
    BY <2>3 DEF In, Stages
  <2>5. ~InWorker(m)
    <3>1. ~In("worker", m)
      BY <2>3, <2>4 DEF OnceInv, Staged
    <3> QED  BY <3>1 DEF In
  <2>6. PICK s : Becomes(b, w, s) /\ s.text = m
    BY <1>9, <2>1 DEF Take
  <2>7. 0 \notin TextIds /\ TextIds \subseteq 0 .. MaxTexts
    BY DEF TextIds
  <2>8. /\ \A k \in TextIds \ {m} : InWorker(k)' <=> InWorker(k)
        /\ InWorker(m)' /\ WorkersApart'
    BY <2>2, <2>3, <2>5, <2>6, <2>7, BecomesPlaces DEF TimerInv, OnceInv
  <2>9. \A k \in TextIds : \A u \in Stages \ {"channel", "worker"} : In(u, k)' <=> In(u, k)
    BY <1>9 DEF Take, In, InPending, Ended, Settled, KeepSenders, dedup
  <2>10. \A k \in TextIds \ {m} : \A u \in Stages : In(u, k)' <=> In(u, k)
    <3>1. \A k \in TextIds \ {m} : \A u \in {"channel", "worker"} : In(u, k)' <=> In(u, k)
      BY <2>3, <2>8 DEF In
    <3> QED  BY <2>9, <3>1
  <2>11. In("worker", m)'
    BY <2>8 DEF In
  <2>12. Staged'
    BY <1>9, <2>3, <2>4, <2>9, <2>10, <2>11, StageMoves DEF OnceInv, Take, KeepSenders
  <2> QED  BY <1>9, <2>3, <2>8, <2>12 DEF Take, OnceInv, SentOnce
<1> QED  BY <1>5, <1>6, <1>7, <1>8, <1>9 DEF Work

LEMMA OnceStep == TimerInv /\ OnceInv /\ [Next]_vars => OnceInv'
<1> SUFFICES ASSUME TimerInv, OnceInv, [Next]_vars
             PROVE  Staged' /\ ChannelsApart' /\ WorkersApart' /\ SentOnce'
  BY UnstartedStep DEF OnceInv
<1>1. CASE Connect \/ ConnectFails \/ Link \/ Launch \/ Disconnect
  BY <1>1, StageStays DEF Connect, ConnectFails, Link, Launch, Disconnect, KeepTexts, dedup, sending
<1>2. ASSUME NEW b \in Bots, Begin(b) \/ LoopStops(b)
      PROVE  Staged' /\ ChannelsApart' /\ WorkersApart' /\ SentOnce'
  <2>1. CASE Begin(b)
    <3>1. \A w \in Workers : worker[b][w].text = 0
      BY <2>1 DEF Begin, OnceInv, Unstarted, Off
    <3>2. \A a \in Bots, w \in Workers : worker'[a][w].text = worker[a][w].text
      BY <2>1, <3>1 DEF Begin, TimerInv, DeliveryTypeOK, Waiting
    <3> QED  BY <2>1, <3>2, StageStays DEF Begin, dedup
  <2>2. CASE LoopStops(b)
    BY <2>2, StageStays DEF LoopStops, KeepTexts, dedup, sending
  <2> QED  BY <1>2, <2>1, <2>2
<1>3. CASE UNCHANGED vars
  BY <1>3, StageStays DEF vars, dedup, sending
<1> QED  BY <1>1, <1>2, <1>3, SenderStage, DedupStage, DrainStage, WorkStage DEF Next

LEMMA OnceInit == Init => OnceInv
<1> SUFFICES ASSUME Init PROVE OnceInv
  OBVIOUS
<1>1. DOMAIN texts = {} /\ 0 \notin TextIds
  BY DEF Init, TextIds
<1>2. \A n \in TextIds : \A s \in Stages : ~In(s, n)
  BY <1>1 DEF Init, In, InPending, InChannel, InWorker, Ended, Settled, NoEntry, Off
<1>3. Staged
  BY <1>1, <1>2 DEF Staged
<1>4. ChannelsApart /\ WorkersApart /\ Unstarted /\ SentOnce
  BY DEF Init, ChannelsApart, WorkersApart, Unstarted, SentOnce, Off
<1> QED  BY <1>3, <1>4 DEF OnceInv

\* A set with no two elements counts one if it has any.
LEMMA CountOne ==
  ASSUME NEW S, \A x, y \in S : x = y
  PROVE  Cardinality(S) = IF S = {} THEN 0 ELSE 1
<1>1. CASE S = {}
  BY <1>1, FS_EmptySet
<1>2. CASE S # {}
  <2>1. PICK x \in S : TRUE
    BY <1>2
  <2>2. S = {x}
    BY <2>1
  <2> QED  BY <1>2, <2>2, FS_Singleton
<1> QED  BY <1>1, <1>2

LEMMA PlacesOfStage ==
  ASSUME TimerInv, OnceInv, NEW n \in DOMAIN texts
  PROVE  Places(n) = IF Settled(n) \/ n \in lost THEN 0 ELSE 1
<1>1. n \in TextIds /\ n # 0 /\ DeliveryTypeOK
  BY TextType DEF TimerInv, TextIds
<1> DEFINE Entries == {x \in Bots \X Chats : pending[x[1]][x[2]].text = n}
           Slots == {x \in AnyBot \X (1 .. Capacity) :
                       x[2] <= Len(channel[x[1]]) /\ channel[x[1]][x[2]] = n}
           Holders == {x \in Bots \X Workers : n \in HeldBy(x[1], x[2])}
<1>2. Cardinality(spawned \intersect {n}) = IF n \in spawned THEN 1 ELSE 0
  <2>1. \A x, y \in spawned \intersect {n} : x = y
    OBVIOUS
  <2>2. spawned \intersect {n} = {} <=> n \notin spawned
    OBVIOUS
  <2> QED  BY <2>1, <2>2, CountOne
<1>3. Cardinality(taken \intersect {n}) = IF n \in taken THEN 1 ELSE 0
  <2>1. \A x, y \in taken \intersect {n} : x = y
    OBVIOUS
  <2>2. taken \intersect {n} = {} <=> n \notin taken
    OBVIOUS
  <2> QED  BY <2>1, <2>2, CountOne
<1>4. Cardinality(Entries) = IF InPending(n) THEN 1 ELSE 0
  <2>1. ASSUME NEW x \in Entries PROVE x = <<texts[n].bot, texts[n].chat>>
    <3>1. x \in Bots \X Chats /\ pending[x[1]][x[2]].text = n
      OBVIOUS
    <3>2. pending[x[1]][x[2]] # NoEntry
      BY <1>1, <3>1 DEF NoEntry
    <3>3. texts[n].bot = x[1] /\ texts[n].chat = x[2]
      BY <3>1, <3>2 DEF TimerInv, EntryNamed
    <3> QED  BY <3>1, <3>3
  <2>2. Entries = {} <=> ~InPending(n)
    <3>1. ASSUME NEW b \in Bots, NEW c \in Chats, pending[b][c].text = n
          PROVE  <<b, c>> \in Entries
      BY <3>1
    <3> QED  BY <3>1 DEF InPending
  <2>3. \A x, y \in Entries : x = y
    BY <2>1
  <2> HIDE DEF Entries
  <2> QED  BY <2>2, <2>3, CountOne
<1>5. Cardinality(Slots) = IF InChannel(n) THEN 1 ELSE 0
  <2>1. \A b \in AnyBot : Len(channel[b]) \in Nat /\ Len(channel[b]) <= Capacity
    BY <1>1 DEF DeliveryTypeOK
  <2>2. ASSUME NEW x \in Slots, NEW y \in Slots PROVE x = y
    <3>1. /\ x \in AnyBot \X (1 .. Capacity) /\ y \in AnyBot \X (1 .. Capacity)
          /\ x[2] <= Len(channel[x[1]]) /\ y[2] <= Len(channel[y[1]])
          /\ channel[x[1]][x[2]] = n /\ channel[y[1]][y[2]] = n
      OBVIOUS
    <3>2. x[2] \in 1 .. Len(channel[x[1]]) /\ y[2] \in 1 .. Len(channel[y[1]])
      BY <2>1, <3>1, DeliveryAssumption
    <3>3. x[1] = y[1] /\ x[2] = y[2]
      BY <3>1, <3>2 DEF OnceInv, ChannelsApart
    <3> QED  BY <3>1, <3>3
  <2>3. Slots = {} <=> ~InChannel(n)
    <3>1. ASSUME NEW b \in AnyBot, NEW i \in 1 .. Len(channel[b]), channel[b][i] = n
          PROVE  <<b, i>> \in Slots
      BY <2>1, <3>1, DeliveryAssumption
    <3>2. ASSUME NEW x \in Slots PROVE InChannel(n)
      <4>1. x[1] \in AnyBot /\ x[2] \in 1 .. Len(channel[x[1]]) /\ channel[x[1]][x[2]] = n
        BY <2>1, <3>2, DeliveryAssumption
      <4> QED  BY <4>1 DEF InChannel
    <3> QED  BY <3>1, <3>2 DEF InChannel
  <2> HIDE DEF Slots
  <2> QED  BY <2>2, <2>3, CountOne
<1>6. Cardinality(Holders) = IF InWorker(n) THEN 1 ELSE 0
  <2>1. ASSUME NEW b \in Bots, NEW w \in Workers
        PROVE  n \in HeldBy(b, w) <=> worker[b][w].text = n
    <3>1. worker[b][w] \in {Off, Waiting} \union Holding
      BY <1>1 DEF DeliveryTypeOK
    <3> QED  BY <1>1, <3>1 DEF HeldBy, Off, Waiting
  <2>2. ASSUME NEW x \in Holders, NEW y \in Holders PROVE x = y
    <3>1. /\ x \in Bots \X Workers /\ y \in Bots \X Workers
          /\ worker[x[1]][x[2]].text = n /\ worker[y[1]][y[2]].text = n
      BY <2>1
    <3>2. x[1] = y[1] /\ x[2] = y[2]
      BY <1>1, <3>1 DEF OnceInv, WorkersApart
    <3> QED  BY <3>1, <3>2
  <2>3. Holders = {} <=> ~InWorker(n)
    <3>1. ASSUME NEW b \in Bots, NEW w \in Workers, worker[b][w].text = n
          PROVE  <<b, w>> \in Holders
      BY <2>1, <3>1
    <3>2. ASSUME NEW x \in Holders PROVE InWorker(n)
      BY <2>1 DEF InWorker
    <3> QED  BY <3>1, <3>2 DEF InWorker
  <2> HIDE DEF Holders
  <2> QED  BY <2>2, <2>3, CountOne
<1>7. \E s \in Stages : \A t \in Stages : In(t, n) <=> t = s
  BY <1>1 DEF OnceInv, Staged
<1>8. LET A == n \in spawned
          B == InPending(n)
          C == n \in taken
          D == InChannel(n)
          F == InWorker(n)
          G == Ended(n)
      IN  \/ A /\ ~B /\ ~C /\ ~D /\ ~F /\ ~G
          \/ ~A /\ B /\ ~C /\ ~D /\ ~F /\ ~G
          \/ ~A /\ ~B /\ C /\ ~D /\ ~F /\ ~G
          \/ ~A /\ ~B /\ ~C /\ D /\ ~F /\ ~G
          \/ ~A /\ ~B /\ ~C /\ ~D /\ F /\ ~G
          \/ ~A /\ ~B /\ ~C /\ ~D /\ ~F /\ G
  BY <1>7 DEF Stages, In
<1>9. Places(n) = Cardinality(spawned \intersect {n}) + Cardinality(taken \intersect {n})
                    + Cardinality(Entries) + Cardinality(Slots) + Cardinality(Holders)
  BY DEF Places
<1> HIDE DEF Entries, Slots, Holders
<1> QED  BY <1>2, <1>3, <1>4, <1>5, <1>6, <1>8, <1>9 DEF Ended

\* Telegram never gets a text twice, and a text is in one place until it ends,
\* whatever races with Reset, a retry or the next bot.
THEOREM TextsOnce == Spec => []EachTextOnce
<1>1. TimerInv /\ OnceInv => EachTextOnce
  BY PlacesOfStage, TextType DEF EachTextOnce, OnceInv, SentOnce, TimerInv
<1> QED  BY TimerInit, TimerStep, OnceInit, OnceStep, <1>1, PTL DEF Spec

-----------------------------------------------------------------------------
(***************************************************************************)
(* A text keeps to its bot: the queue and the workers of a bot hold the    *)
(* texts that were accepted for that bot.                                  *)
(***************************************************************************)
Goes(n, b) == n \in DOMAIN texts /\ texts[n].bot = b

Routed ==
  /\ \A b \in AnyBot : \A i \in 1 .. Len(channel[b]) : Goes(channel[b][i], b)
  /\ \A b \in Bots, w \in Workers : worker[b][w].text # 0 => Goes(worker[b][w].text, b)

LEMMA PutRouted ==
  ASSUME DeliveryTypeOK, Routed, UNCHANGED worker,
         \A m, a : Goes(m, a) => Goes(m, a)',
         NEW b \in AnyBot, NEW n \in TextIds, Put(b, n), Goes(n, b)'
  PROVE  Routed'
<1>1. channel \in [AnyBot -> Seq(TextIds)]
  BY DEF DeliveryTypeOK
<1>2. ASSUME NEW a \in AnyBot, NEW i \in 1 .. Len(channel'[a])
      PROVE  \E m : m = channel'[a][i] /\ Goes(m, a)'
  <2>1. CASE i \in 1 .. Len(channel[a]) /\ channel'[a][i] = channel[a][i]
    <3>1. PICK m : m = channel[a][i]
      OBVIOUS
    <3> QED  BY <2>1, <3>1 DEF Routed
  <2>2. CASE channel' = [channel EXCEPT ![b] = Append(@, n)]
    <3>1. \/ i \in 1 .. Len(channel[a]) /\ channel'[a][i] = channel[a][i]
          \/ a = b /\ channel'[a][i] = n
      BY <1>1, <2>2
    <3> QED  BY <2>1, <3>1
  <2> QED  BY <2>1, <2>2 DEF Put
<1>3. \A a \in Bots, w \in Workers : worker[a][w].text # 0 =>
        \E m : m = worker[a][w].text /\ Goes(m, a)'
  BY DEF Routed
<1> QED  BY <1>2, <1>3 DEF Routed, Goes

\* Taking the first text of a channel.
LEMMA TakeRouted ==
  ASSUME DeliveryTypeOK, Routed, NEW b \in AnyBot, channel[b] # <<>>,
         channel' = [channel EXCEPT ![b] = Tail(@)]
  PROVE  /\ \A a \in AnyBot : \A i \in 1 .. Len(channel'[a]) : Goes(channel'[a][i], a)
         /\ Goes(Head(channel[b]), b)
<1>1. channel \in [AnyBot -> Seq(TextIds)]
  BY DEF DeliveryTypeOK
<1>2. /\ Len(channel'[b]) = Len(channel[b]) - 1 /\ Len(channel[b]) \in Nat \ {0}
      /\ \A i \in 1 .. Len(channel'[b]) : channel'[b][i] = channel[b][i + 1]
      /\ \A a \in AnyBot \ {b} : channel'[a] = channel[a]
      /\ Head(channel[b]) = channel[b][1]
  BY <1>1
<1>3. \A i \in 1 .. Len(channel'[b]) : Goes(channel'[b][i], b)
  <2> TAKE i \in 1 .. Len(channel'[b])
  <2>1. i + 1 \in 1 .. Len(channel[b])
    BY <1>2
  <2> QED  BY <1>2, <2>1 DEF Routed
<1>4. Goes(Head(channel[b]), b)
  <2>1. 1 \in 1 .. Len(channel[b])
    BY <1>2
  <2> QED  BY <1>2, <2>1 DEF Routed
<1>5. ASSUME NEW a \in AnyBot \ {b} PROVE \A i \in 1 .. Len(channel'[a]) : Goes(channel'[a][i], a)
  BY <1>2 DEF Routed
<1> QED  BY <1>3, <1>4, <1>5

LEMMA SenderRouted ==
  ASSUME TimerInv, Routed, NEW c \in Chats, Notify(c) \/ SendMessage(c) \/ SendToAll(c)
  PROVE  Routed'
<1>1. wired.bids \in AnyBot /\ wired.clients \in AnyBot /\ wired.hub \in AnyBot /\ DeliveryTypeOK
  BY DEF TimerInv, DeliveryTypeOK
<1>2. ASSUME NEW b \in AnyBot, NewText(c, b)
      PROVE  /\ Len(texts') \in TextIds
             /\ Goes(Len(texts), b)'
             /\ \A m, a : Goes(m, a) => Goes(m, a)'
  <2>1. /\ Len(texts') \in TextIds /\ Len(texts') = Len(texts) + 1
        /\ texts' \in Seq([chat : Chats, bot : AnyBot])
        /\ texts'[Len(texts')] = [chat |-> c, bot |-> b]
        /\ \A n \in DOMAIN texts : n \in DOMAIN texts' /\ texts'[n] = texts[n]
    BY <1>1, <1>2, NewTextType
  <2>2. Len(texts') \in DOMAIN texts'
    BY <2>1 DEF TextIds
  <2> QED  BY <2>1, <2>2 DEF Goes
<1>3. CASE Notify(c)
  BY <1>1, <1>2, <1>3 DEF Notify, sending, Routed
<1>4. CASE SendMessage(c)
  BY <1>1, <1>2, <1>4, PutRouted DEF SendMessage
<1>5. CASE SendToAll(c)
  BY <1>1, <1>2, <1>5, PutRouted DEF SendToAll
<1> QED  BY <1>3, <1>4, <1>5

LEMMA HandOnRouted ==
  ASSUME TimerInv, Routed, NEW n \in DOMAIN texts, HandOn(n)
  PROVE  Routed'
<1>1. n \in TextIds /\ DeliveryTypeOK
  BY TextType DEF TimerInv
<1>2. PICK b \in AnyBot : b = texts[n].bot
  BY TextType DEF TimerInv
<1>3. Put(b, n) /\ UNCHANGED <<worker, texts>>
  BY <1>2 DEF HandOn
<1>4. \A m, a : Goes(m, a) => Goes(m, a)'
  BY <1>3 DEF Goes
<1>5. Goes(n, b)'
  BY <1>2, <1>3 DEF Goes
<1> QED  BY <1>1, <1>3, <1>4, <1>5, PutRouted

LEMMA WorkRouted ==
  ASSUME TimerInv, Routed, NEW b \in Bots, NEW w \in Workers, Work(b, w) \/ Quit(b, w)
  PROVE  Routed'
<1>1. worker \in [Bots -> [Workers -> {Off, Waiting} \union Holding]] /\ b \in AnyBot
  BY DEF TimerInv, DeliveryTypeOK, AnyBot
<1>2. texts' = texts
  BY DEF Work, Take, Attempt, Resume, GiveUp, Quit, KeepSenders
<1>3. ASSUME NEW s, Becomes(b, w, s)
      PROVE  \A a \in Bots, v \in Workers :
               worker'[a][v] = IF a = b /\ v = w THEN s ELSE worker[a][v]
  BY <1>1, <1>3 DEF Becomes
<1>4. CASE Take(b, w)
  <2>1. PICK m : m = Head(channel[b])
    OBVIOUS
  <2>2. PICK s : Becomes(b, w, s) /\ s.text = m
    BY <1>4, <2>1 DEF Take
  <2>3. /\ \A a \in AnyBot : \A i \in 1 .. Len(channel'[a]) : Goes(channel'[a][i], a)
        /\ Goes(m, b)
    BY <1>1, <1>4, <2>1, TakeRouted DEF Take, TimerInv
  <2> QED  BY <1>2, <1>3, <2>2, <2>3 DEF Routed, Goes
<1>5. ASSUME UNCHANGED channel, NEW s, Becomes(b, w, s), s.text \in {0, worker[b][w].text}
      PROVE  Routed'
  BY <1>2, <1>3, <1>5 DEF Routed, Goes
<1>6. Off.text = 0 /\ Waiting.text = 0
  BY DEF Off, Waiting
<1>7. CASE Attempt(b, w) \/ Resume(b, w)
  <2>1. worker[b][w] \in Holding
    BY <1>1, <1>7 DEF Attempt, Resume, Off, Waiting
  <2>2. /\ [worker[b][w] EXCEPT !.state = "backoff"].text = worker[b][w].text
        /\ [worker[b][w] EXCEPT !.state = "send", !.attempt = @ + 1].text = worker[b][w].text
    BY <2>1 DEF Holding
  <2>3. PICK s : Becomes(b, w, s) /\ s.text \in {0, worker[b][w].text}
    BY <1>6, <1>7, <2>2 DEF Attempt, Resume
  <2> QED  BY <1>5, <1>7, <2>3 DEF Attempt, Resume
<1>8. CASE GiveUp(b, w) \/ Quit(b, w)
  BY <1>5, <1>6, <1>8 DEF GiveUp, Quit
<1> QED  BY <1>4, <1>7, <1>8 DEF Work

LEMMA RoutedStep == TimerInv /\ OnceInv /\ Routed /\ [Next]_vars => Routed'
<1> SUFFICES ASSUME TimerInv, OnceInv, Routed, [Next]_vars PROVE Routed'
  OBVIOUS
<1>1. ASSUME UNCHANGED <<texts, channel>>,
             \A b \in Bots, w \in Workers : worker'[b][w].text = worker[b][w].text
      PROVE  Routed'
  BY <1>1 DEF Routed, Goes
<1>2. CASE Connect \/ ConnectFails \/ Link \/ Launch \/ Disconnect
  BY <1>1, <1>2 DEF Connect, ConnectFails, Link, Launch, Disconnect, KeepTexts, sending
<1>3. ASSUME NEW b \in Bots, Begin(b) \/ LoopStops(b) PROVE Routed'
  <2>1. CASE Begin(b)
    <3>1. \A w \in Workers : worker[b][w].text = 0
      BY <2>1 DEF Begin, OnceInv, Unstarted, Off
    <3>2. \A a \in Bots, w \in Workers : worker'[a][w].text = worker[a][w].text
      BY <2>1, <3>1 DEF Begin, TimerInv, DeliveryTypeOK, Waiting
    <3> QED  BY <1>1, <2>1, <3>2 DEF Begin
  <2>2. CASE LoopStops(b)
    BY <1>1, <2>2 DEF LoopStops, KeepTexts, sending
  <2> QED  BY <1>3, <2>1, <2>2
<1>4. ASSUME NEW n \in DOMAIN texts, DedupSend(n) \/ Fire(n) \/ Callback(n) PROVE Routed'
  BY <1>1, <1>4 DEF DedupSend, Fire, Callback, sending
<1>5. ASSUME NEW b \in Bots, DrainOut(b) PROVE Routed'
  <2>1. NoBot \in AnyBot /\ UNCHANGED <<texts, worker>>
    BY <1>5 DEF AnyBot, DrainOut, KeepSenders
  <2>2. \A a \in AnyBot : \A i \in 1 .. Len(channel'[a]) : Goes(channel'[a][i], a)
    BY <1>5, <2>1, TakeRouted DEF DrainOut, TimerInv
  <2> QED  BY <2>1, <2>2 DEF Routed, Goes
<1>6. CASE UNCHANGED vars
  BY <1>1, <1>6 DEF vars, sending
<1> QED  BY <1>2, <1>3, <1>4, <1>5, <1>6, SenderRouted, HandOnRouted, WorkRouted DEF Next

LEMMA RoutedInit == Init => Routed
  BY DEF Init, Routed, Off

-----------------------------------------------------------------------------
(***************************************************************************)
(* The refinement of Outbox.                                               *)
(***************************************************************************)
LEMMA StagedWaits ==
  ASSUME TimerInv, OnceInv, NEW n \in TextIds, NEW s \in Stages \ {"ended"}, In(s, n)
  PROVE  Out!Waiting(n)
<1>1. n \in DOMAIN texts /\ "ended" \in Stages
  BY DEF OnceInv, Staged, Stages
<1>2. ~In("ended", n)
  BY <1>1 DEF OnceInv, Staged
<1>3. sent[n] \in Nat
  BY DEF TimerInv, DeliveryTypeOK
<1> QED  BY <1>1, <1>2, <1>3 DEF Out!Waiting, In, Ended, Settled

LEMMA HeldWaits ==
  ASSUME TimerInv, OnceInv, NEW b \in Bots, NEW w \in Workers,
         worker[b][w].state \in {"send", "backoff"}, NEW n, n = worker[b][w].text
  PROVE  n \in TextIds /\ Out!Waiting(n)
<1>1. n \in TextIds
  <2>1. worker[b][w] \in {Off, Waiting} \union Holding
    BY DEF TimerInv, DeliveryTypeOK
  <2> QED  BY <2>1 DEF Off, Waiting, Holding
<1>2. In("worker", n) /\ "worker" \in Stages \ {"ended"}
  BY DEF In, InWorker, Stages
<1> QED  BY <1>1, <1>2, StagedWaits

LEMMA AcceptStep ==
  ASSUME TimerInv, NEW c \in Chats, Notify(c) \/ SendMessage(c) \/ SendToAll(c)
  PROVE  Out!Next
<1>1. wired.bids \in AnyBot /\ wired.clients \in AnyBot /\ wired.hub \in AnyBot
  BY DEF TimerInv, DeliveryTypeOK
<1>2. PICK b \in AnyBot : NewText(c, b)
  BY <1>1 DEF Notify, SendMessage, SendToAll
<1>3. logged' \in {logged, logged \union {Len(texts')}}
  BY DEF Notify, SendMessage, SendToAll, Put, sending
<1>4. UNCHANGED <<cancelled, sent, replaced, lost>>
  BY DEF Notify, SendMessage, SendToAll, managing, sending
<1>5. Out!Accept(c, b)
  BY <1>2, <1>3, <1>4 DEF NewText, Out!Accept
<1> QED  BY <1>5 DEF Out!Next, AnyBot

\* Send puts its notice over a text that waits in the entry of the same chat.
LEMMA DedupSendGivesWay ==
  ASSUME TimerInv, OnceInv, NEW n \in DOMAIN texts, DedupSend(n)
  PROVE  Out!Next \/ UNCHANGED Out!vars
<1>1. n \in TextIds
  BY TextType DEF TimerInv
<1>2. UNCHANGED <<texts, cancelled, sent, logged, lost>>
  BY DEF DedupSend, managing, sending
<1>3. CASE UNCHANGED replaced
  BY <1>2, <1>3 DEF Out!vars
<1>4. CASE Entry(n) # NoEntry /\ replaced' = replaced \union {Entry(n).text}
  <2>1. n \in spawned /\ IsNotice(n)
    BY <1>1 DEF DedupSend, TimerInv, Notices
  <2>2. PICK b \in Bots, c \in Chats : b = texts[n].bot /\ c = texts[n].chat
    BY <2>1, TextType DEF IsNotice, TimerInv
  <2>3. PICK m : m = pending[b][c].text
    OBVIOUS
  <2>4. /\ IsNotice(m) /\ texts[m].bot = b /\ texts[m].chat = c
        /\ replaced' = replaced \union {m}
    BY <1>4, <2>2, <2>3 DEF Entry, TimerInv, EntryNamed
  <2>5. m \in DOMAIN texts /\ m \in TextIds
    BY <2>4, TextType DEF IsNotice, TimerInv
  <2>6. In("pending", m) /\ In("spawned", n)
    BY <2>1, <2>3 DEF In, InPending
  <2>7. "pending" \in Stages \ {"ended"} /\ "spawned" \in Stages \ {"ended"}
    BY DEF Stages
  <2>8. m # n
    BY <1>1, <2>6, <2>7 DEF OnceInv, Staged
  <2>9. Out!Waiting(m) /\ Out!Waiting(n)
    BY <1>1, <2>5, <2>6, <2>7, StagedWaits
  <2>10. texts[m] = texts[n]
    <3>1. texts[m] \in [chat : Chats, bot : AnyBot] /\ texts[n] \in [chat : Chats, bot : AnyBot]
      <4>1. \A S : texts \in Seq(S) => \A k \in DOMAIN texts : texts[k] \in S
        OBVIOUS
      <4> QED  BY <2>5, <4>1 DEF TimerInv, DeliveryTypeOK
    <3> QED  BY <2>2, <2>4, <3>1
  <2>11. texts[m].bot # NoBot
    BY <2>4 DEF Bots, NoBot
  <2>12. Out!GiveWay(m, n)
    BY <1>2, <2>4, <2>8, <2>9, <2>10, <2>11 DEF Out!GiveWay
  <2> QED  BY <1>1, <2>5, <2>12 DEF Out!Next
<1> QED  BY <1>3, <1>4 DEF DedupSend

LEMMA HandOnStep ==
  ASSUME TimerInv, OnceInv, NEW n \in DOMAIN texts, HandOn(n)
  PROVE  Out!Next \/ UNCHANGED Out!vars
<1>1. n \in TextIds
  BY TextType DEF TimerInv
<1>2. UNCHANGED <<texts, cancelled, sent, replaced, lost>>
  BY DEF HandOn, managing
<1>3. CASE UNCHANGED logged
  BY <1>2, <1>3 DEF Out!vars
<1>4. CASE logged' = logged \union {n}
  <2>1. In("taken", n) /\ "taken" \in Stages \ {"ended"}
    BY DEF HandOn, In, Stages
  <2>2. Out!GiveUp(n)
    BY <1>1, <1>2, <1>4, <2>1, StagedWaits DEF Out!GiveUp
  <2> QED  BY <1>1, <2>2 DEF Out!Next
<1> QED  BY <1>3, <1>4 DEF HandOn, Put

LEMMA DrainDelivers ==
  ASSUME TimerInv, OnceInv, NEW b \in Bots, DrainOut(b)
  PROVE  Out!Next
<1>1. PICK n : n = Head(channel[NoBot])
  OBVIOUS
<1>2. NoBot \in AnyBot /\ channel[NoBot] # <<>> /\ channel' = [channel EXCEPT ![NoBot] = Tail(@)]
  BY DEF DrainOut, AnyBot
<1>3. n \in TextIds /\ InChannel(n)
  BY <1>1, <1>2, TailPlaces DEF TimerInv, OnceInv
<1>4. In("channel", n) /\ "channel" \in Stages \ {"ended"}
  BY <1>3 DEF In, Stages
<1>5. Out!Waiting(n)
  BY <1>3, <1>4, StagedWaits
<1>6. UNCHANGED <<texts, cancelled, replaced, lost>>
  BY DEF DrainOut, KeepSenders, managing
<1>7. Out!Deliver(n) \/ Out!GiveUp(n)
  BY <1>1, <1>5, <1>6 DEF DrainOut, Got, Out!Got, Out!Deliver, Out!GiveUp
<1> QED  BY <1>3, <1>7 DEF Out!Next

LEMMA WorkDelivers ==
  ASSUME TimerInv, OnceInv, Routed, NEW b \in Bots, NEW w \in Workers, Work(b, w) \/ Quit(b, w)
  PROVE  Out!Next \/ UNCHANGED Out!vars
<1>1. PICK n : n = worker[b][w].text
  OBVIOUS
<1>2. UNCHANGED <<texts, cancelled, replaced>>
  BY DEF Work, Take, Attempt, Resume, GiveUp, Quit, KeepSenders, managing
<1>3. CASE UNCHANGED <<sent, logged, lost>>
  BY <1>2, <1>3 DEF Out!vars
<1>4. CASE Attempt(b, w)
  <2>1. n \in TextIds /\ Out!Waiting(n)
    BY <1>1, <1>4, HeldWaits DEF Attempt
  <2>2. UNCHANGED <<sent, logged, lost>> \/ Out!Deliver(n) \/ Out!GiveUp(n)
    BY <1>1, <1>2, <1>4, <2>1 DEF Attempt, Got, Out!Got, Out!Deliver, Out!GiveUp
  <2> QED  BY <1>3, <2>1, <2>2 DEF Out!Next
<1>5. CASE Resume(b, w)
  <2>1. n \in TextIds /\ Out!Waiting(n)
    BY <1>1, <1>5, HeldWaits DEF Resume
  <2>2. UNCHANGED <<sent, logged, lost>> \/ Out!GiveUp(n)
    BY <1>1, <1>2, <1>5, <2>1 DEF Resume, Out!GiveUp
  <2> QED  BY <1>3, <2>1, <2>2 DEF Out!Next
<1>6. CASE GiveUp(b, w)
  <2>1. n \in TextIds /\ Out!Waiting(n)
    BY <1>1, <1>6, HeldWaits DEF GiveUp
  <2>2. texts[n].bot \in cancelled
    <3>1. n # 0
      BY <2>1 DEF TextIds
    <3> QED  BY <1>1, <1>6, <3>1 DEF Routed, Goes, GiveUp
  <2>3. Out!Lose(n)
    BY <1>1, <1>2, <1>6, <2>1, <2>2 DEF GiveUp, Out!Lose
  <2> QED  BY <2>1, <2>3 DEF Out!Next
<1> QED  BY <1>3, <1>4, <1>5, <1>6 DEF Work, Take, Quit

\* Every step on the way is one of the outbox, or none.
LEMMA OutStep == TimerInv /\ OnceInv /\ Routed /\ [Next]_vars => [Out!Next]_(Out!vars)
<1> SUFFICES ASSUME TimerInv, OnceInv, Routed, [Next]_vars
             PROVE  Out!Next \/ UNCHANGED Out!vars
  OBVIOUS
<1>1. ASSUME UNCHANGED <<texts, cancelled, sent, logged, replaced, lost>>
      PROVE  UNCHANGED Out!vars
  BY <1>1 DEF Out!vars
<1>2. CASE Connect \/ Disconnect
  <2>1. UNCHANGED <<texts, sent, logged, replaced, lost>>
    BY <1>2 DEF Connect, Disconnect, KeepTexts, sending
  <2>2. cancelled' = cancelled \/ (bot \in Bots /\ cancelled' = cancelled \union {bot})
    BY <1>2 DEF Connect, Disconnect, TimerInv, DeliveryTypeOK, AnyBot
  <2>3. ASSUME NEW b \in Bots, b = bot, cancelled' = cancelled \union {bot} PROVE Out!Next
    <3>1. Out!Cancel(b)
      BY <2>1, <2>3 DEF Out!Cancel
    <3> QED  BY <3>1 DEF Out!Next
  <2> QED  BY <1>1, <2>1, <2>2, <2>3
<1>3. CASE ConnectFails \/ Link \/ Launch
  BY <1>1, <1>3 DEF ConnectFails, Link, Launch, KeepTexts, sending
<1>4. ASSUME NEW n \in DOMAIN texts, Fire(n) \/ Callback(n) PROVE UNCHANGED Out!vars
  BY <1>1, <1>4 DEF Fire, Callback, managing, sending
<1>5. ASSUME NEW b \in Bots, Begin(b) \/ LoopStops(b) PROVE UNCHANGED Out!vars
  BY <1>1, <1>5 DEF Begin, LoopStops, KeepTexts, sending
<1>6. CASE UNCHANGED vars
  BY <1>1, <1>6 DEF vars, managing, sending
<1> QED  BY <1>2, <1>3, <1>4, <1>5, <1>6, AcceptStep, DedupSendGivesWay, HandOnStep,
            DrainDelivers, WorkDelivers DEF Next

\* The notifiers, timers, queues, workers and reconnections are the outbox: a
\* text ends once, and gives way only to a notice of its chat that waits.
THEOREM DeliveryImplements == Spec => ImplementsOutbox
<1>1. Init => Out!Init
  BY DEF Init, Out!Init
<1> QED  BY <1>1, TimerInit, TimerStep, OnceInit, OnceStep, RoutedInit, RoutedStep, OutStep, PTL
         DEF Spec, ImplementsOutbox, Out!Spec

-----------------------------------------------------------------------------
(***************************************************************************)
(* What the outbox gives a chat.  Texts are numbered from 1, and those that *)
(* were overwritten are among them.                                        *)
(***************************************************************************)
LEMMA SurvivorStep ==
  TimerInv /\ OnceInv /\ NoticeSurvives /\ [Out!Next]_(Out!vars) => NoticeSurvives'
<1> SUFFICES ASSUME TimerInv, OnceInv, NoticeSurvives, [Out!Next]_(Out!vars)
             PROVE  NoticeSurvives'
  OBVIOUS
<1>1. ASSUME NEW n \in replaced
      PROVE  n \in DOMAIN texts
  <2>1. n \in TextIds /\ In("ended", n) /\ "ended" \in Stages
    BY DEF In, Ended, Settled, Stages, TimerInv, DeliveryTypeOK
  <2> QED  BY <2>1 DEF OnceInv, Staged
<1>2. CASE UNCHANGED <<texts, replaced>>
  BY <1>2 DEF NoticeSurvives
<1>3. ASSUME NEW c \in Chats, NEW b \in Bots \union {NoBot}, Out!Accept(c, b)
      PROVE  NoticeSurvives'
  <2>1. \A n \in DOMAIN texts : n \in DOMAIN texts' /\ texts'[n] = texts[n]
    <3>1. texts \in Seq([chat : Chats, bot : AnyBot])
      BY DEF TimerInv, DeliveryTypeOK
    <3>2. \A t : texts' = Append(texts, t) =>
            \A n \in DOMAIN texts : n \in DOMAIN texts' /\ texts'[n] = texts[n]
      BY <3>1
    <3> QED  BY <1>3, <3>2 DEF Out!Accept
  <2>2. replaced' = replaced
    BY <1>3 DEF Out!Accept
  <2> QED  BY <1>1, <2>1, <2>2 DEF NoticeSurvives
<1>4. ASSUME NEW n \in TextIds, NEW m \in TextIds, Out!GiveWay(n, m)
      PROVE  NoticeSurvives'
  <2>1. /\ m \in DOMAIN texts /\ m \notin replaced /\ n # m /\ texts[n] = texts[m]
        /\ replaced' = replaced \union {n} /\ texts' = texts
    BY <1>4 DEF Out!GiveWay, Out!Waiting
  <2> QED  BY <2>1 DEF NoticeSurvives
<1>5. ASSUME NEW n \in TextIds, Out!Deliver(n) \/ Out!GiveUp(n) \/ Out!Lose(n)
      PROVE  UNCHANGED <<texts, replaced>>
  BY <1>5 DEF Out!Deliver, Out!GiveUp, Out!Lose
<1>6. ASSUME NEW b \in Bots, Out!Cancel(b) PROVE UNCHANGED <<texts, replaced>>
  BY <1>6 DEF Out!Cancel
<1>7. CASE UNCHANGED Out!vars
  BY <1>2, <1>7 DEF Out!vars
<1> QED  BY <1>2, <1>3, <1>4, <1>5, <1>6, <1>7 DEF Out!Next

\* However many notices overwrite each other in the de-duplicator, in whatever
\* order their goroutines run, one of them is not overwritten.
THEOREM BurstKeepsOne == Spec => []NoticeSurvives
<1>1. Init => NoticeSurvives
  BY DEF Init, NoticeSurvives
<1> QED  BY <1>1, TimerInit, TimerStep, OnceInit, OnceStep, RoutedInit, RoutedStep, OutStep,
            SurvivorStep, PTL DEF Spec
=============================================================================
