-------------------------- MODULE ChatSessionProofs --------------------------
(***************************************************************************)
(* Proofs about ChatSession, for any number of chats, lots, bots and       *)
(* updates, and any capacity of the channels.                              *)
(***************************************************************************)
EXTENDS ChatSession, TLAPS

-----------------------------------------------------------------------------
(***************************************************************************)
(* Sequences of updates.                                                   *)
(***************************************************************************)
LEMMA TailOfUpdates ==
  ASSUME NEW s \in Seq(Update), s # <<>>
  PROVE  /\ Head(s) \in Update
         /\ Tail(s) \in Seq(Update)
         /\ Len(Tail(s)) = Len(s) - 1
         /\ RangeOf(s) = {Head(s)} \union RangeOf(Tail(s))
<1>1. /\ Head(s) \in Update
      /\ Tail(s) \in Seq(Update)
      /\ Len(Tail(s)) = Len(s) - 1
      /\ \A i \in DOMAIN Tail(s) : i + 1 \in DOMAIN s /\ Tail(s)[i] = s[i + 1]
      /\ \A i \in DOMAIN s : i = 1 \/ i - 1 \in DOMAIN Tail(s)
      /\ 1 \in DOMAIN s /\ Head(s) = s[1]
      /\ DOMAIN s \subseteq Int
  OBVIOUS
<1>2. \A i \in DOMAIN s : s[i] = Head(s) \/ \E j \in DOMAIN Tail(s) : Tail(s)[j] = s[i]
  <2> TAKE i \in DOMAIN s
  <2>1. CASE i = 1
    BY <2>1, <1>1
  <2>2. CASE i # 1
    <3>1. i - 1 \in DOMAIN Tail(s) /\ i - 1 + 1 = i
      BY <2>2, <1>1
    <3> QED  BY <3>1, <1>1
  <2> QED  BY <2>1, <2>2
<1> QED  BY <1>1, <1>2 DEF RangeOf

LEMMA AppendedUpdate ==
  ASSUME NEW s \in Seq(Update), NEW u \in Update
  PROVE  /\ Append(s, u) \in Seq(Update)
         /\ Len(Append(s, u)) = Len(s) + 1
         /\ RangeOf(Append(s, u)) = RangeOf(s) \union {u}
<1> DEFINE t == Append(s, u)
<1>1. /\ t \in Seq(Update)
      /\ Len(t) = Len(s) + 1
      /\ \A i \in DOMAIN s : i \in DOMAIN t /\ t[i] = s[i]
      /\ \A i \in DOMAIN t : i \in DOMAIN s \/ i = Len(s) + 1
      /\ Len(s) + 1 \in DOMAIN t /\ t[Len(s) + 1] = u
  OBVIOUS
<1> QED  BY <1>1 DEF RangeOf

LEMMA NoneIsNoUpdate == None \notin Update
  BY DEF None, Update

-----------------------------------------------------------------------------
(***************************************************************************)
(* Type correctness.                                                       *)
(***************************************************************************)
LEMMA InitType == Init => SessionTypeOK
<1> SUFFICES ASSUME Init PROVE SessionTypeOK
  OBVIOUS
<1>1. \A c \in Chats : /\ inbox[c] \in Seq(Update) /\ Len(inbox[c]) <= Inbox
                       /\ held[c] = None /\ at[c] = "absent" /\ writer[c] = NoBot
                       /\ lot[c] = NoLot
  <2>1. <<>> \in Seq(Update) /\ Len(<<>>) = 0
    OBVIOUS
  <2> QED  BY <2>1, SessionAssumption DEF Init
<1>2. telegram \in Seq(Update)
  BY DEF Init
<1>3. /\ made \in 0 .. MaxBots
      /\ bot \in {made, NoBot}
  BY SessionAssumption DEF Init, NoBot
<1>4. /\ at \in [Chats -> States]
      /\ lot \in [Chats -> Lots \union {NoLot}]
      /\ writer \in [Chats -> 0 .. made]
      /\ out \in [Bots -> 0 .. Outbox]
  BY <1>3, SessionAssumption DEF Init, Bots, NoBot, NoLot, States
<1>5. inbox \in [Chats -> Seq(Update)] /\ held \in [Chats -> Update \union {None}]
  BY <1>1 DEF Init
<1>6. /\ auction \in Auctions \union {NoAuction}
      /\ within \in [Chats -> Auctions \union {NoAuction}]
  BY DEF Init
<1> QED  BY <1>1, <1>2, <1>3, <1>4, <1>5, <1>6, SessionAssumption DEF Init, SessionTypeOK

\* What every message to a channel leaves: the channels of the bots stay
\* within their capacity.
LEMMA SaidType ==
  ASSUME SessionTypeOK, NEW c \in Chats, at[c] # "absent"
  PROVE  /\ \A n \in {1, 2} : Push(c, n) => out' \in [Bots -> 0 .. Outbox]
         /\ Say(c) => out' \in [Bots -> 0 .. Outbox]
         /\ Offer(c) => out' \in [Bots -> 0 .. Outbox]
         /\ Waits(c) => out' \in [Bots -> 0 .. Outbox]
         /\ \A n \in Lots \union {NoLot} : Describe(c, n) => out' \in [Bots -> 0 .. Outbox]
<1>1. /\ writer[c] \in Bots
      /\ out \in [Bots -> 0 .. Outbox]
      /\ Outbox \in Nat
  BY SessionAssumption DEF SessionTypeOK, Bots, NoBot
<1>2. \A n \in {1, 2} : Push(c, n) => out' \in [Bots -> 0 .. Outbox]
  BY <1>1 DEF Push
<1>3. Say(c) => out' \in [Bots -> 0 .. Outbox]
  BY <1>1, <1>2 DEF Say
<1>4. Offer(c) => out' \in [Bots -> 0 .. Outbox]
  BY <1>2, <1>3 DEF Offer
<1>5. Waits(c) => out' \in [Bots -> 0 .. Outbox]
  BY <1>1 DEF Waits, Room
<1>6. \A n \in Lots \union {NoLot} : Describe(c, n) => out' \in [Bots -> 0 .. Outbox]
  BY <1>1, <1>2 DEF Describe
<1> QED  BY <1>2, <1>3, <1>4, <1>5, <1>6

LEMMA BetType ==
  ASSUME SessionTypeOK, NEW c \in Chats, at[c] # "absent", Bet(c)
  PROVE  /\ out' \in [Bots -> 0 .. Outbox]
         /\ bids' \subseteq Bid
<1>1. out' \in [Bots -> 0 .. Outbox]
  BY SaidType DEF Bet
<1>2. bids' \subseteq Bid
  <2> DEFINE b == [lot |-> lot[c], auction |-> auction, meant |-> chosen[c], within |-> within[c]]
  <2>1. lot[c] \in lots => b \in Bid
    BY DEF SessionTypeOK, Bid
  <2>2. CASE UNCHANGED bids
    BY <2>2 DEF SessionTypeOK
  <2>3. CASE lot[c] \in lots /\ bids' = bids \union (IF sure[c] THEN {b} ELSE {})
    BY <2>1, <2>3 DEF SessionTypeOK
  <2> QED  BY <2>2, <2>3 DEF Bet
<1> QED  BY <1>1, <1>2

\* What a chat's fields must be, as one fact about each chat.
ChatOK(c) == /\ Len(inbox[c]) <= Inbox
             /\ held[c] # None <=> at[c] \in {"deleting", "acting"}
             /\ writer[c] # NoBot <=> at[c] # "absent"
             /\ lot[c] # NoLot => at[c] \in {"menu", "deleting", "acting"}

\* A step of one chat that exists, which leaves the bot's queues and the
\* admin's request alone, keeps the types if it keeps that chat's.
LEMMA ChatMoves ==
  ASSUME SessionTypeOK, NEW c \in Chats, at[c] # "absent",
         NEW a \in States \ {"absent"}, at' = [at EXCEPT ![c] = a],
         NEW q, inbox' = [inbox EXCEPT ![c] = q],
         NEW h, held' = [held EXCEPT ![c] = h],
         NEW l \in Lots \union {NoLot}, lot' = [lot EXCEPT ![c] = l],
         q \in Seq(Update), Len(q) <= Inbox, h \in Update \union {None},
         h # None <=> a \in {"deleting", "acting"},
         l # NoLot => a \in {"menu", "deleting", "acting"},
         out' \in [Bots -> 0 .. Outbox],
         bids' \subseteq Bid,
         UNCHANGED <<writer, bots, telegram, handing, hub, user>>
  PROVE  SessionTypeOK'
<1>1. \A d \in Chats : ChatOK(d)'
  <2> TAKE d \in Chats
  <2>1. CASE d = c
    BY <2>1 DEF SessionTypeOK, ChatOK
  <2>2. CASE d # c
    BY <2>2 DEF SessionTypeOK, ChatOK
  <2> QED  BY <2>1, <2>2
<1>2. \A d \in Chats : at[d] # "absent" => at'[d] # "absent"
  BY DEF SessionTypeOK
<1>3. /\ at' \in [Chats -> States]
      /\ lot' \in [Chats -> Lots \union {NoLot}]
      /\ inbox' \in [Chats -> Seq(Update)]
      /\ held' \in [Chats -> Update \union {None}]
  BY DEF SessionTypeOK
<1>4. showing' \subseteq {d \in Chats : at'[d] # "absent"}
  BY <1>2 DEF SessionTypeOK, hub
<1>5. \A u \in handing' : at'[u.chat] # "absent"
  <2> SUFFICES ASSUME NEW u \in handing PROVE at'[u.chat] # "absent"
    BY DEF hub
  <2>1. u.chat \in Chats /\ at[u.chat] # "absent"
    BY DEF SessionTypeOK, Update
  <2> QED  BY <2>1, <1>2
<1> QED  BY <1>1, <1>3, <1>4, <1>5 DEF SessionTypeOK, ChatOK, bots, hub, user

\* The chat the step is about exists, and has a head to take.
LEMMA TakesHead ==
  ASSUME SessionTypeOK, NEW c \in Chats, Take(c)
  PROVE  /\ inbox' = [inbox EXCEPT ![c] = Tail(inbox[c])]
         /\ Head(inbox[c]) \in Update
         /\ Tail(inbox[c]) \in Seq(Update)
         /\ Len(Tail(inbox[c])) <= Inbox
<1>1. inbox[c] \in Seq(Update) /\ Len(inbox[c]) <= Inbox /\ inbox[c] # <<>>
  BY DEF SessionTypeOK, Take
<1>2. Len(inbox[c]) \in Nat
  BY <1>1
<1> QED  BY <1>1, <1>2, TailOfUpdates, SessionAssumption DEF Take

\* Leaving a field of the chat alone is setting it to what it is.
LEMMA Unchanged ==
  ASSUME SessionTypeOK, NEW c \in Chats
  PROVE  /\ inbox = [inbox EXCEPT ![c] = inbox[c]]
         /\ held = [held EXCEPT ![c] = held[c]]
         /\ lot = [lot EXCEPT ![c] = lot[c]]
         /\ at = [at EXCEPT ![c] = at[c]]
         /\ inbox[c] \in Seq(Update) /\ Len(inbox[c]) <= Inbox
         /\ held[c] \in Update \union {None}
         /\ lot[c] \in Lots \union {NoLot}
         /\ held[c] # None <=> at[c] \in {"deleting", "acting"}
         /\ lot[c] # NoLot => at[c] \in {"menu", "deleting", "acting"}
         /\ out \in [Bots -> 0 .. Outbox]
         /\ bids \subseteq Bid
  BY DEF SessionTypeOK

\* Each step of a chat.
LEMMA ChatType ==
  ASSUME SessionTypeOK, NEW c \in Chats, ChatStep(c)
  PROVE  SessionTypeOK'
<1> USE Unchanged DEF States, Move
<1>1. CASE Open(c)
  <2>1. at[c] = "opening"
    BY <1>1 DEF Open
  <2>2. \/ inbox' = [inbox EXCEPT ![c] = inbox[c]]
        \/ Take(c)
    BY <1>1 DEF Open
  <2>3. PICK q : q \in Seq(Update) /\ Len(q) <= Inbox /\ inbox' = [inbox EXCEPT ![c] = q]
    BY <2>2, TakesHead
  <2>4. PICK a \in {"asking", "greeting"} : at' = [at EXCEPT ![c] = a]
    BY <1>1 DEF Open
  <2> QED  BY <1>1, <2>1, <2>3, <2>4, ChatMoves DEF Open
<1>2. CASE Ask(c)
  <2>1. PICK a \in {"greeting", "prompting"} : at' = [at EXCEPT ![c] = a]
    BY <1>2 DEF Ask
  <2> QED  BY <1>2, <2>1, TakesHead, ChatMoves DEF Ask
<1>3. CASE Prompt(c)
  <2>1. PICK a \in {"asking", "checking"} : at' = [at EXCEPT ![c] = a]
    BY <1>3 DEF Prompt
  <2>2. at[c] \in {"prompting", "greeting"}
    BY <1>3 DEF Prompt
  <2>3. out' \in [Bots -> 0 .. Outbox]
    BY <1>3, <2>2, SaidType DEF Prompt
  <2> QED  BY <1>3, <2>1, <2>2, <2>3, ChatMoves DEF Prompt
<1>4. CASE Check(c)
  <2>1. PICK a \in {"offering", "waiting"} : at' = [at EXCEPT ![c] = a]
    BY <1>4 DEF Check
  <2>2. at[c] = "checking"
    BY <1>4 DEF Check
  <2>3. out' \in [Bots -> 0 .. Outbox]
    BY <1>4, <2>2, SaidType DEF Check
  <2> QED  BY <1>4, <2>1, <2>2, <2>3, ChatMoves DEF Check
<1>5. CASE Wait(c)
  <2>1. PICK a \in {"offering", "waiting"} : at' = [at EXCEPT ![c] = a]
    BY <1>5 DEF Wait
  <2>2. at[c] = "waiting"
    BY <1>5 DEF Wait
  <2>3. out' \in [Bots -> 0 .. Outbox]
    BY <1>5, <2>2, SaidType DEF Wait
  <2>4. PICK q : q \in Seq(Update) /\ Len(q) <= Inbox /\ inbox' = [inbox EXCEPT ![c] = q]
    BY <1>5, TakesHead DEF Wait
  <2> QED  BY <1>5, <2>1, <2>2, <2>3, <2>4, ChatMoves DEF Wait
<1>6. CASE OfferLots(c)
  <2>1. out' \in [Bots -> 0 .. Outbox]
    BY <1>6, SaidType DEF OfferLots
  <2>2. /\ at[c] = "offering" /\ at' = [at EXCEPT ![c] = "menu"]
        /\ UNCHANGED <<inbox, held, lot, writer, bots, telegram, handing, hub, user, bids>>
        /\ "menu" \in States \ {"absent"}
    BY <1>6 DEF OfferLots
  <2>3. /\ inbox' = [inbox EXCEPT ![c] = inbox[c]]
        /\ held' = [held EXCEPT ![c] = None]
        /\ lot' = [lot EXCEPT ![c] = NoLot]
        /\ bids' \subseteq Bid
    BY <2>2
  <2>4. /\ None \in Update \union {None} /\ NoLot \in Lots \union {NoLot}
        /\ inbox[c] \in Seq(Update) /\ Len(inbox[c]) <= Inbox
        /\ UNCHANGED <<writer, bots, telegram, handing, hub, user>>
        /\ at[c] # "absent" /\ at' = [at EXCEPT ![c] = "menu"]
        /\ "menu" \in States \ {"absent"}
    BY <2>2
  <2>5. Len(inbox[c]) <= Inbox /\ "menu" \notin {"deleting", "acting"}
    BY <2>4
  <2> HIDE DEF States
  <2> QED  BY <2>1, <2>3, <2>4, <2>5, ChatMoves
<1>7. CASE Handle(c)
  <2> DEFINE u == Head(inbox[c])
  <2>1. at[c] = "menu" /\ Take(c)
    BY <1>7 DEF Handle
  <2>2. /\ u \in Update
        /\ \E q : q \in Seq(Update) /\ Len(q) <= Inbox /\ inbox' = [inbox EXCEPT ![c] = q]
    BY <2>1, TakesHead
  <2>3. CASE u.kind = "/start" /\ lot' = [lot EXCEPT ![c] = NoLot] /\ Offer(c)
               /\ UNCHANGED <<at, held, bids>>
    <3>1. out' \in [Bots -> 0 .. Outbox]
      BY <2>1, <2>3, SaidType
    <3> QED  BY <1>7, <2>1, <2>2, <2>3, <3>1, ChatMoves DEF Handle
  <2>4. CASE Bet(c) /\ UNCHANGED <<at, lot, held>>
    <3>1. out' \in [Bots -> 0 .. Outbox]
          /\ bids' \subseteq Bid
      BY <2>1, <2>4, BetType
    <3> QED  BY <1>7, <2>1, <2>2, <2>4, <3>1, ChatMoves DEF Handle
  <2>5. CASE UNCHANGED <<at, lot, held, out, bids>>
    BY <1>7, <2>1, <2>2, <2>5, ChatMoves DEF Handle
  <2>6. CASE held' = [held EXCEPT ![c] = u] /\ at' = [at EXCEPT ![c] = "deleting"]
               /\ UNCHANGED <<lot, out, bids>>
    BY <1>7, <2>1, <2>2, <2>6, NoneIsNoUpdate, ChatMoves DEF Handle
  <2> QED  BY <1>7, <2>3, <2>4, <2>5, <2>6 DEF Handle
<1>8. CASE Delete(c)
  <2>1. out' \in [Bots -> 0 .. Outbox]
    BY <1>8, SaidType DEF Delete
  <2> QED  BY <1>8, <2>1, ChatMoves DEF Delete
<1>9. CASE Act(c)
  <2>1. at[c] = "acting" /\ held[c] \in Update /\ held[c].lot \in Lots \union {NoLot}
    BY <1>9 DEF Act, Update
  <2>. /\ at' = [at EXCEPT ![c] = "menu"]
       /\ held' = [held EXCEPT ![c] = None]
       /\ UNCHANGED <<inbox, writer, bots, telegram, handing, hub, user>>
       /\ "menu" \in States \ {"absent"}
    BY <1>9 DEF Act
  <2>2. CASE lot' = [lot EXCEPT ![c] = held[c].lot] /\ Describe(c, held[c].lot) /\ UNCHANGED bids
    <3>1. out' \in [Bots -> 0 .. Outbox]
      BY <2>1, <2>2, SaidType
    <3> QED  BY <2>1, <2>2, <3>1, ChatMoves
  <2>3. CASE Bet(c) /\ UNCHANGED lot
    <3>1. out' \in [Bots -> 0 .. Outbox]
          /\ bids' \subseteq Bid
      BY <2>1, <2>3, BetType
    <3>2. /\ lot' = [lot EXCEPT ![c] = lot[c]] /\ lot[c] \in Lots \union {NoLot}
          /\ inbox' = [inbox EXCEPT ![c] = inbox[c]]
          /\ None \in Update \union {None}
      BY <2>3
    <3> HIDE DEF States
    <3> QED  BY <2>1, <3>1, <3>2, ChatMoves
  <2>4. CASE lot' = [lot EXCEPT ![c] = NoLot] /\ Offer(c) /\ UNCHANGED bids
    <3>1. out' \in [Bots -> 0 .. Outbox]
      BY <2>1, <2>4, SaidType
    <3>2. NoLot \in Lots \union {NoLot} /\ bids' \subseteq Bid
      BY <2>4
    <3> QED  BY <2>1, <2>4, <3>1, <3>2, ChatMoves
  <2> QED  BY <1>9, <2>2, <2>3, <2>4 DEF Act
<1> QED  BY <1>1, <1>2, <1>3, <1>4, <1>5, <1>6, <1>7, <1>8, <1>9 DEF ChatStep

\* Each step of the user, the bot and the admin.
LEMMA SendType ==
  ASSUME SessionTypeOK, NEW c \in Chats, NEW k \in Kinds, NEW n \in Lots \union {NoLot},
         NEW a \in Auctions \union {NoAuction}, Send(c, k, n, a)
  PROVE  SessionTypeOK'
<1> DEFINE u == [id |-> updates', chat |-> c, kind |-> k, lot |-> n]
<1>1. updates' \in 1 .. MaxUpdates
  BY SessionAssumption DEF Send, SessionTypeOK
<1>2. u \in Update
  BY <1>1, SessionAssumption DEF Update
<1>3. telegram' \in Seq(Update)
  BY <1>2, AppendedUpdate DEF Send, SessionTypeOK
<1>4. chosen' \in [Chats -> Lots \union {NoLot}]
  BY DEF Send, SessionTypeOK
<1>5. sure' \in [Chats -> BOOLEAN]
  <2>1. \/ sure' = [sure EXCEPT ![c] = (InFlight(c) = {})]
        \/ sure' = [sure EXCEPT ![c] = (sure[c] /\ InFlight(c) = {})]
    BY DEF Send
  <2> DEFINE S == InFlight(c) = {}
  <2> HIDE DEF S
  <2>2. S \in BOOLEAN /\ (sure[c] /\ S) \in BOOLEAN
    BY Zenon DEF S
  <2>3. sure' = [sure EXCEPT ![c] = S] \/ sure' = [sure EXCEPT ![c] = (sure[c] /\ S)]
    BY <2>1 DEF S
  <2> QED  BY <2>2, <2>3, Zenon DEF SessionTypeOK
<1>6. within' \in [Chats -> Auctions \union {NoAuction}]
  BY DEF Send, SessionTypeOK
<1> QED  BY <1>1, <1>3, <1>4, <1>5, <1>6 DEF Send, SessionTypeOK, session, bots, hub

LEMMA ReceiveType ==
  ASSUME SessionTypeOK, NEW b \in Bots, Receive(b)
  PROVE  SessionTypeOK'
<1> DEFINE u == Head(telegram)
<1>1. u \in Update /\ u.chat \in Chats /\ Tail(telegram) \in Seq(Update)
  BY TailOfUpdates DEF Receive, SessionTypeOK, Update
<1>2. /\ at' \in [Chats -> States]
      /\ writer' \in [Chats -> 0 .. made]
      /\ at'[u.chat] # "absent"
      /\ \A c \in Chats : at[c] # "absent" => at'[c] # "absent"
      /\ \A c \in Chats : at'[c] = at[c] \/ (at[c] = "absent" /\ at'[c] = "opening")
      /\ \A c \in Chats : writer'[c] # NoBot <=> at'[c] # "absent"
  <2>1. CASE /\ at[u.chat] = "absent"
             /\ at' = [at EXCEPT ![u.chat] = "opening"]
             /\ writer' = [writer EXCEPT ![u.chat] = b]
    BY <2>1, <1>1 DEF Receive, SessionTypeOK, States, Bots, NoBot
  <2>2. CASE at[u.chat] # "absent" /\ UNCHANGED <<at, writer>>
    BY <2>2, <1>1 DEF SessionTypeOK
  <2> QED  BY <2>1, <2>2 DEF Receive, GetChat
<1>3. handing' \subseteq Update /\ \A v \in handing' : at'[v.chat] # "absent"
  <2> SUFFICES ASSUME NEW v \in handing' PROVE v \in Update /\ at'[v.chat] # "absent"
    OBVIOUS
  <2>1. CASE v = u
    BY <2>1, <1>1, <1>2
  <2>2. CASE v \in handing
    BY <2>2, <1>2 DEF SessionTypeOK, Update
  <2> QED  BY <2>1, <2>2 DEF Receive
<1>4. showing' \subseteq {c \in Chats : at'[c] # "absent"}
  BY <1>2 DEF Receive, SessionTypeOK, hub
<1> QED  BY <1>1, <1>2, <1>3, <1>4 DEF Receive, SessionTypeOK, bots, hub, user

LEMMA SendToType ==
  ASSUME SessionTypeOK, NEW u \in handing, SendTo(u)
  PROVE  SessionTypeOK'
<1>1. u \in Update /\ u.chat \in Chats
  BY DEF SessionTypeOK, Update
<1>2. /\ inbox' \in [Chats -> Seq(Update)]
      /\ \A c \in Chats : Len(inbox'[c]) <= Inbox
  <2>1. Append(inbox[u.chat], u) \in Seq(Update)
        /\ Len(Append(inbox[u.chat], u)) = Len(inbox[u.chat]) + 1
    BY <1>1, AppendedUpdate DEF SessionTypeOK
  <2>2. Len(inbox[u.chat]) \in Nat /\ Len(inbox[u.chat]) < Inbox
    BY <1>1 DEF SessionTypeOK, SendTo
  <2> QED  BY <1>1, <2>1, <2>2, SessionAssumption DEF SendTo, SessionTypeOK
<1> QED  BY <1>1, <1>2 DEF SendTo, SessionTypeOK, bots, hub, user

LEMMA BotAndAdminType ==
  ASSUME SessionTypeOK
  PROVE  /\ Connect => SessionTypeOK'
         /\ Disconnect => SessionTypeOK'
         /\ Lose => SessionTypeOK'
         /\ \A b \in Bots : Sender(b) => SessionTypeOK'
         /\ \A c \in Chats : ShowTo(c) => SessionTypeOK'
         /\ \A a \in Auctions, L \in SUBSET Lots : Show(a, L) => SessionTypeOK'
         /\ End => SessionTypeOK'
<1> USE SessionAssumption
<1>1. Connect => SessionTypeOK'
  BY DEF Connect, SessionTypeOK, session, hub, user, Bots
<1>2. Disconnect => SessionTypeOK'
  BY DEF Disconnect, SessionTypeOK, session, hub, user, Bots
<1>3. Lose => SessionTypeOK'
  <2> SUFFICES ASSUME Lose PROVE SessionTypeOK'
    OBVIOUS
  <2>1. Tail(telegram) \in Seq(Update)
    BY TailOfUpdates DEF Lose, SessionTypeOK
  <2> QED  BY <2>1 DEF Lose, SessionTypeOK, session, bots, hub
<1>4. ASSUME NEW b \in Bots, Sender(b) PROVE SessionTypeOK'
  <2>1. out' \in [Bots -> 0 .. Outbox]
    BY <1>4 DEF Sender, SessionTypeOK
  <2> QED  BY <1>4, <2>1 DEF Sender, SessionTypeOK, session, bots, hub, user
<1>5. ASSUME NEW c \in Chats, ShowTo(c) PROVE SessionTypeOK'
  <2>1. at[c] # "absent"
    BY <1>5 DEF ShowTo, SessionTypeOK
  <2>2. out' \in [Bots -> 0 .. Outbox]
    BY <1>5, <2>1, SaidType DEF ShowTo
  <2> QED  BY <1>5, <2>2 DEF ShowTo, SessionTypeOK, session, bots, user
<1>6. ASSUME NEW a \in Auctions, NEW L \in SUBSET Lots, Show(a, L) PROVE SessionTypeOK'
  <2>1. /\ within' \in [Chats -> Auctions \union {NoAuction}]
        /\ auction' \in Auctions \union {NoAuction}
    BY <1>6 DEF Show
  <2> QED  BY <1>6, <2>1 DEF Show, SessionTypeOK, session, bots
<1>7. End => SessionTypeOK'
  <2> SUFFICES ASSUME End PROVE SessionTypeOK'
    OBVIOUS
  <2>1. lots' \subseteq Lots /\ shows' \in 0 .. MaxShows
    BY DEF End, SessionTypeOK
  <2>2. started' \in BOOLEAN
    BY DEF End
  <2> QED  BY <2>1, <2>2 DEF End, SessionTypeOK, session, bots, user
<1> QED  BY <1>1, <1>2, <1>3, <1>4, <1>5, <1>6, <1>7

LEMMA NextType == SessionTypeOK /\ [Next]_vars => SessionTypeOK'
<1> SUFFICES ASSUME SessionTypeOK, [Next]_vars PROVE SessionTypeOK'
  OBVIOUS
<1>1. CASE UNCHANGED vars
  BY <1>1 DEF SessionTypeOK, vars, session, bots, hub, user
<1>2. CASE Next
  BY <1>2, SendType, ChatType, ReceiveType, SendToType, BotAndAdminType DEF Next
<1> QED  BY <1>1, <1>2

\* The channels keep within their capacities, a chat keeps the writer of a
\* bot that was made, a press is in hand exactly while the chat deletes and
\* acts on it, and only a chat that reached its menu has a current lot.
THEOREM SessionTypeCorrect == Spec => []SessionTypeOK
<1> QED  BY InitType, NextType, PTL DEF Spec

-----------------------------------------------------------------------------
(***************************************************************************)
(* The lot a bid is on.  While a user's meaning is sure, at most one of    *)
(* the user's updates is on its way; if it is a choice it is the last one, *)
(* and if none is on its way the chat has the chosen lot or none.          *)
(***************************************************************************)
Choices == {"lot", "back", "/start"}

Own == \A c \in Chats : /\ \A u \in RangeOf(inbox[c]) : u.chat = c
                        /\ held[c] # None => held[c].chat = c

Alone(c) ==
  /\ \A u, v \in InFlight(c) : u = v
  /\ \A u \in InFlight(c) : u.kind \in Choices => u.lot = chosen[c]
  /\ (\A u \in InFlight(c) : u.kind \notin Choices) => lot[c] \in {chosen[c], NoLot}

Clear == \A c \in Chats : sure[c] => Alone(c)

Here == \A c \in Chats : within[c] \in {auction, NoAuction}

SessionInv == SessionTypeOK /\ Own /\ Clear /\ Here /\ BidOnChosenLot

LEMMA InitInv == Init => SessionInv
<1> SUFFICES ASSUME Init PROVE SessionInv
  OBVIOUS
<1>1. SessionTypeOK
  BY InitType
<1>2. \A c \in Chats : RangeOf(inbox[c]) = {} /\ held[c] = None
  BY DEF Init, RangeOf
<1>3. RangeOf(telegram) = {} /\ handing = {}
  BY DEF Init, RangeOf
<1>4. \A c \in Chats : InFlight(c) = {} /\ lot[c] = NoLot
  BY <1>2, <1>3 DEF Init, InFlight
<1>5. Own /\ Clear
  BY <1>2, <1>4 DEF Own, Clear, Alone
<1>6. Here
  BY DEF Init, Here
<1> QED  BY <1>1, <1>5, <1>6 DEF SessionInv, BidOnChosenLot, Init

\* An update that arrives nowhere new leaves the other facts as they are; a
\* choice may get lost only while the chat has no lot.
LEMMA Still ==
  ASSUME NEW c \in Chats, Alone(c), InFlight(c)' \subseteq InFlight(c),
         chosen'[c] = chosen[c], lot'[c] = lot[c],
         \/ InFlight(c)' = InFlight(c)
         \/ lot[c] = NoLot
         \/ \A u \in InFlight(c) : u.kind \notin Choices
  PROVE  Alone(c)'
  BY DEF Alone

\* A step of chat c with its new inbox, press and lot: what has to be shown
\* is about c alone.
LEMMA OneChat ==
  ASSUME SessionTypeOK, Own, Clear, NEW c \in Chats,
         NEW q, inbox' = [inbox EXCEPT ![c] = q],
         NEW h, held' = [held EXCEPT ![c] = h],
         NEW l, lot' = [lot EXCEPT ![c] = l],
         UNCHANGED <<telegram, handing, user>>,
         \A u \in RangeOf(q) : u.chat = c,
         h # None => h.chat = c,
         sure[c] /\ Alone(c) => Alone(c)'
  PROVE  Own' /\ Clear'
<1>1. inbox'[c] = q /\ held'[c] = h /\ lot'[c] = l
  BY DEF SessionTypeOK
<1>2. \A d \in Chats \ {c} : inbox'[d] = inbox[d] /\ held'[d] = held[d] /\ lot'[d] = lot[d]
  BY DEF SessionTypeOK
<1>3. Own'
  BY <1>1, <1>2 DEF Own
<1>4. Clear'
  <2> SUFFICES ASSUME NEW d \in Chats, sure[d] PROVE Alone(d)'
    BY DEF Clear, user
  <2>1. Alone(d)
    BY DEF Clear
  <2>2. CASE d = c
    BY <2>1, <2>2
  <2>3. CASE d # c
    <3>1. InFlight(d)' = InFlight(d)
      BY <1>2, <2>3 DEF InFlight
    <3> QED  BY <2>1, <2>3, <3>1, <1>2, Still DEF user
  <2> QED  BY <2>2, <2>3
<1> QED  BY <1>3, <1>4

\* The update a chat takes, and what is on its way afterwards.
LEMMA Taking ==
  ASSUME SessionTypeOK, Own, NEW c \in Chats, Take(c), UNCHANGED <<telegram, handing>>
  PROVE  /\ Head(inbox[c]) \in InFlight(c)
         /\ \A u \in RangeOf(Tail(inbox[c])) : u.chat = c
         /\ held'[c] = held[c] => InFlight(c)' \subseteq InFlight(c)
         /\ held'[c] = None => InFlight(c)' \subseteq InFlight(c)
         /\ held[c] = None /\ held'[c] = Head(inbox[c]) => InFlight(c)' = InFlight(c)
<1>1. inbox[c] \in Seq(Update) /\ inbox[c] # <<>>
  BY DEF SessionTypeOK, Take
<1>2. /\ RangeOf(inbox[c]) = {Head(inbox[c])} \union RangeOf(Tail(inbox[c]))
      /\ Head(inbox[c]) \in Update
  BY <1>1, TailOfUpdates
<1>3. inbox'[c] = Tail(inbox[c])
  BY DEF Take, SessionTypeOK
<1>4. Head(inbox[c]).chat = c /\ Head(inbox[c]) # None
  BY <1>2, NoneIsNoUpdate DEF Own
<1> QED  BY <1>2, <1>3, <1>4 DEF Own, InFlight

\* A bid on a sure update is on the chosen number, and on the lot it was on
\* the keyboard as long as the hub shows that keyboard's auction.
LEMMA BetOnChosen ==
  ASSUME SessionTypeOK, Here, BidOnChosenLot, NEW c \in Chats, Bet(c),
         sure[c] => lot[c] \in {chosen[c], NoLot}
  PROVE  BidOnChosenLot'
<1> DEFINE b == [lot |-> lot[c], auction |-> auction, meant |-> chosen[c], within |-> within[c]]
<1>1. lot[c] \in lots => lot[c] # NoLot
  BY SessionAssumption DEF SessionTypeOK, NoLot
<1>2. CASE UNCHANGED bids
  BY <1>2 DEF BidOnChosenLot
<1>3. CASE /\ lot[c] \in lots
           /\ bids' = bids \union (IF sure[c] THEN {b} ELSE {})
  <2>1. /\ b.lot = lot[c] /\ b.meant = chosen[c]
        /\ b.auction = auction /\ b.within = within[c]
    OBVIOUS
  <2>2. b.within \in {b.auction, NoAuction}
    BY <2>1 DEF Here
  <2>3. sure[c] => b.lot = b.meant
    BY <1>1, <1>3, <2>1
  <2> HIDE DEF b
  <2> QED  BY <1>3, <2>2, <2>3 DEF BidOnChosenLot
<1> QED  BY <1>2, <1>3 DEF Bet

\* A step that may take an update, before the chat has a lot, or none.
LEMMA BeforeMenu ==
  ASSUME SessionTypeOK, Own, Clear, NEW c \in Chats, lot[c] = NoLot,
         \/ Take(c)
         \/ UNCHANGED inbox,
         UNCHANGED <<held, lot, telegram, handing, user>>
  PROVE  Own' /\ Clear'
<1>1. \E q : /\ inbox' = [inbox EXCEPT ![c] = q]
             /\ \A u \in RangeOf(q) : u.chat = c
  BY Unchanged, Taking DEF Take, Own
<1>2. InFlight(c)' \subseteq InFlight(c)
  BY Taking DEF InFlight
<1>3. Alone(c) => Alone(c)'
  BY <1>2, Still DEF user
<1>4. /\ held' = [held EXCEPT ![c] = held[c]] /\ lot' = [lot EXCEPT ![c] = lot[c]]
      /\ held[c] # None => held[c].chat = c
  BY Unchanged DEF Own
<1> QED  BY <1>1, <1>3, <1>4, OneChat

\* A step that takes nothing.
LEMMA NothingTaken ==
  ASSUME Own, Clear, UNCHANGED <<inbox, held, lot, telegram, handing, chosen, sure>>
  PROVE  Own' /\ Clear'
<1>1. Own'
  BY DEF Own
<1>2. \A c \in Chats : InFlight(c)' = InFlight(c)
  BY DEF InFlight
<1>3. \A c \in Chats : Alone(c) => Alone(c)'
  BY <1>2, Still
<1> QED  BY <1>1, <1>3 DEF Clear

LEMMA HandleInv ==
  ASSUME SessionInv, NEW c \in Chats, Handle(c)
  PROVE  Own' /\ Clear' /\ BidOnChosenLot'
<1> DEFINE u == Head(inbox[c])
<1> USE DEF SessionInv
<1>1. /\ at[c] = "menu" /\ Take(c) /\ held[c] = None
      /\ UNCHANGED <<telegram, handing, user>>
  BY DEF Handle, SessionTypeOK
<1>2. /\ u \in InFlight(c)
      /\ \A v \in RangeOf(Tail(inbox[c])) : v.chat = c
      /\ held'[c] = None => InFlight(c)' \subseteq InFlight(c)
      /\ held'[c] = u => InFlight(c)' = InFlight(c)
      /\ inbox' = [inbox EXCEPT ![c] = Tail(inbox[c])]
      /\ u.chat = c
  BY <1>1, Taking DEF Take, InFlight
<1>3. Alone(c) /\ u.kind \notin Choices =>
        lot[c] \in {chosen[c], NoLot} /\ \A v \in InFlight(c) : v.kind \notin Choices
  BY <1>2 DEF Alone
<1>4. CASE u.kind = "/start" /\ lot' = [lot EXCEPT ![c] = NoLot] /\ UNCHANGED <<held, bids>>
  <2>1. lot'[c] = NoLot /\ held' = [held EXCEPT ![c] = None] /\ held'[c] = None
    BY <1>1, <1>4, Unchanged DEF SessionTypeOK
  <2>2. Alone(c) => Alone(c)'
    BY <1>1, <1>2, <2>1 DEF Alone, user
  <2> QED  BY <1>1, <1>2, <1>4, <2>1, <2>2, OneChat DEF BidOnChosenLot
<1>5. CASE /\ u.kind \in {"sum", "text", "contact"}
           /\ Bet(c) \/ UNCHANGED bids
           /\ UNCHANGED <<lot, held>>
  <2>1. u.kind \notin Choices
    BY <1>5 DEF Choices
  <2>2. Alone(c) => Alone(c)'
    BY <1>1, <1>2, <1>3, <1>5, <2>1, Still DEF user
  <2>3. /\ held' = [held EXCEPT ![c] = None] /\ lot' = [lot EXCEPT ![c] = lot[c]]
    BY <1>1, <1>5, Unchanged
  <2>4. Own' /\ Clear'
    BY <1>1, <1>2, <2>2, <2>3, OneChat
  <2>5. sure[c] => lot[c] \in {chosen[c], NoLot}
    BY <1>3, <2>1 DEF Clear
  <2>6. BidOnChosenLot'
    BY <1>5, <2>5, BetOnChosen DEF BidOnChosenLot
  <2> QED  BY <2>4, <2>6
<1>6. CASE held' = [held EXCEPT ![c] = u] /\ UNCHANGED <<lot, bids>>
  <2>1. held'[c] = u /\ lot' = [lot EXCEPT ![c] = lot[c]]
    BY <1>6, Unchanged DEF SessionTypeOK
  <2>2. Alone(c) => Alone(c)'
    BY <1>1, <1>2, <1>6, <2>1, Still DEF user
  <2> QED  BY <1>1, <1>2, <1>6, <2>1, <2>2, OneChat DEF BidOnChosenLot
<1> QED  BY <1>4, <1>5, <1>6 DEF Handle

LEMMA ActInv ==
  ASSUME SessionInv, NEW c \in Chats, Act(c)
  PROVE  Own' /\ Clear' /\ BidOnChosenLot'
<1> DEFINE u == held[c]
<1> USE DEF SessionInv
<1>1. /\ at[c] = "acting" /\ u # None /\ u.chat = c /\ u \in InFlight(c)
      /\ held' = [held EXCEPT ![c] = None] /\ held'[c] = None
      /\ inbox' = [inbox EXCEPT ![c] = inbox[c]] /\ UNCHANGED inbox
      /\ UNCHANGED <<telegram, handing, user>>
  BY Unchanged DEF Act, SessionTypeOK, Own, InFlight, Move
<1>2. InFlight(c)' \subseteq InFlight(c)
  BY <1>1 DEF InFlight
<1>3. \A v \in RangeOf(inbox[c]) : v.chat = c
  BY DEF Own
<1>4. CASE u.kind = "lot" /\ lot' = [lot EXCEPT ![c] = u.lot] /\ UNCHANGED bids
  <2>1. lot'[c] = u.lot
    BY <1>4 DEF SessionTypeOK
  <2>2. Alone(c) => Alone(c)'
    BY <1>1, <1>2, <1>4, <2>1 DEF Alone, user, Choices
  <2> QED  BY <1>1, <1>3, <1>4, <2>2, OneChat DEF BidOnChosenLot
<1>5. CASE u.kind = "quick" /\ Bet(c) /\ UNCHANGED lot
  <2>1. Alone(c) => lot[c] \in {chosen[c], NoLot} /\ \A v \in InFlight(c) : v.kind \notin Choices
    BY <1>1, <1>5 DEF Alone, Choices
  <2>2. Alone(c) => Alone(c)'
    BY <1>1, <1>2, <1>5, <2>1, Still DEF user
  <2>3. lot' = [lot EXCEPT ![c] = lot[c]]
    BY <1>5, Unchanged
  <2>4. Own' /\ Clear'
    BY <1>1, <1>3, <2>2, <2>3, OneChat
  <2>5. BidOnChosenLot'
    BY <1>5, <2>1, BetOnChosen DEF Clear
  <2> QED  BY <2>4, <2>5
<1>6. CASE lot' = [lot EXCEPT ![c] = NoLot] /\ UNCHANGED bids
  <2>1. lot'[c] = NoLot
    BY <1>6 DEF SessionTypeOK
  <2>2. Alone(c) => Alone(c)'
    BY <1>1, <1>2, <2>1 DEF Alone, user
  <2> QED  BY <1>1, <1>3, <1>6, <2>2, OneChat DEF BidOnChosenLot
<1> QED  BY <1>4, <1>5, <1>6 DEF Act

LEMMA SendInv ==
  ASSUME SessionInv, NEW c \in Chats, NEW k \in Kinds, NEW n \in Lots \union {NoLot},
         NEW a \in Auctions \union {NoAuction}, Send(c, k, n, a)
  PROVE  Own' /\ Clear' /\ BidOnChosenLot'
<1> DEFINE u == [id |-> updates', chat |-> c, kind |-> k, lot |-> n]
<1> USE DEF SessionInv
<1>1. RangeOf(telegram') = RangeOf(telegram) \union {u}
  <2>1. updates' \in 1 .. MaxUpdates
    BY SessionAssumption DEF Send, SessionTypeOK
  <2>2. u \in Update
    BY <2>1, SessionAssumption DEF Update
  <2> QED  BY <2>2, AppendedUpdate DEF Send, SessionTypeOK
<1>2. UNCHANGED <<inbox, held, lot, handing, bids>> /\ u.chat = c /\ u # None
  BY DEF Send, session, hub, None
<1>3. \A d \in Chats \ {c} : InFlight(d)' = InFlight(d)
  BY <1>1, <1>2 DEF InFlight
<1>4. InFlight(c)' = InFlight(c) \union {u}
  BY <1>1, <1>2 DEF InFlight
<1>5. /\ \A d \in Chats \ {c} : sure'[d] = sure[d] /\ chosen'[d] = chosen[d]
      /\ sure'[c] => InFlight(c) = {}
      /\ k \in Choices => chosen'[c] = n
      /\ k \notin Choices => chosen'[c] = chosen[c] /\ (sure'[c] => sure[c])
  <2>1. CASE /\ k \in Choices
             /\ chosen' = [chosen EXCEPT ![c] = n]
             /\ sure' = [sure EXCEPT ![c] = InFlight(c) = {}]
    BY <2>1 DEF SessionTypeOK
  <2>2. CASE /\ k \notin Choices
             /\ sure' = [sure EXCEPT ![c] = @ /\ InFlight(c) = {}]
             /\ UNCHANGED chosen
    BY <2>2 DEF SessionTypeOK
  <2> QED  BY <2>1, <2>2 DEF Send, Choices
<1>6. Clear'
  <2> SUFFICES ASSUME NEW d \in Chats, sure'[d] PROVE Alone(d)'
    BY DEF Clear
  <2>1. CASE d # c
    BY <2>1, <1>2, <1>3, <1>5, Still DEF Clear
  <2>2. CASE d = c
    <3>1. InFlight(c)' = {u}
      BY <2>2, <1>4, <1>5
    <3>2. CASE k \in Choices
      BY <2>2, <3>1, <3>2, <1>5 DEF Alone
    <3>3. CASE k \notin Choices
      BY <2>2, <3>1, <3>3, <1>2, <1>5 DEF Alone, Clear
    <3> QED  BY <3>2, <3>3
  <2> QED  BY <2>1, <2>2
<1>7. Own' /\ BidOnChosenLot'
  BY <1>2 DEF Own, BidOnChosenLot
<1> QED  BY <1>6, <1>7

LEMMA ReceiveInv ==
  ASSUME SessionInv, NEW b \in Bots, Receive(b)
  PROVE  Own' /\ Clear' /\ BidOnChosenLot'
<1> USE DEF SessionInv
<1>1. RangeOf(telegram) = {Head(telegram)} \union RangeOf(telegram')
  BY TailOfUpdates DEF Receive, SessionTypeOK
<1>2. handing' = handing \union {Head(telegram)} /\ UNCHANGED <<inbox, held, lot, user, bids>>
  BY DEF Receive
<1>3. \A c \in Chats : InFlight(c)' = InFlight(c)
  BY <1>1, <1>2 DEF InFlight
<1>4. Clear'
  BY <1>2, <1>3, Still DEF Clear, user
<1> QED  BY <1>2, <1>4 DEF Own, BidOnChosenLot

LEMMA LoseInv ==
  ASSUME SessionInv, Lose
  PROVE  Own' /\ Clear' /\ BidOnChosenLot'
<1> DEFINE u == Head(telegram)
<1> USE DEF SessionInv
<1>1. /\ RangeOf(telegram) = {u} \union RangeOf(telegram')
      /\ u.chat \in Chats
  BY TailOfUpdates DEF Lose, SessionTypeOK, Update
<1>2. UNCHANGED <<inbox, held, lot, handing, chosen, bids>>
  BY DEF Lose, session, hub
<1>3. ~sure'[u.chat] /\ \A c \in Chats \ {u.chat} : sure'[c] = sure[c]
  BY <1>1 DEF Lose, SessionTypeOK
<1>4. \A c \in Chats \ {u.chat} : InFlight(c)' = InFlight(c)
  BY <1>1, <1>2 DEF InFlight
<1>5. Clear'
  BY <1>2, <1>3, <1>4, Still DEF Clear
<1> QED  BY <1>2, <1>5 DEF Own, BidOnChosenLot

LEMMA SendToInv ==
  ASSUME SessionInv, NEW u \in handing, SendTo(u)
  PROVE  Own' /\ Clear' /\ BidOnChosenLot'
<1> USE DEF SessionInv
<1>1. u \in Update /\ u.chat \in Chats
  BY DEF SessionTypeOK, Update
<1>2. RangeOf(Append(inbox[u.chat], u)) = RangeOf(inbox[u.chat]) \union {u}
  BY <1>1, AppendedUpdate DEF SessionTypeOK
<1>3. /\ handing' = handing \ {u}
      /\ RangeOf(inbox'[u.chat]) = RangeOf(inbox[u.chat]) \union {u}
      /\ \A c \in Chats \ {u.chat} : inbox'[c] = inbox[c]
      /\ UNCHANGED <<telegram, held, lot, user, bids>>
  BY <1>1, <1>2 DEF SendTo, SessionTypeOK
<1>4. \A c \in Chats : InFlight(c)' = InFlight(c)
  BY <1>3 DEF InFlight
<1>5. Clear'
  BY <1>3, <1>4, Still DEF Clear, user
<1>6. Own'
  BY <1>1, <1>3 DEF Own
<1> QED  BY <1>3, <1>5, <1>6 DEF BidOnChosenLot

\* Only a choice and a change of what the hub shows touch the auction a choice
\* was made in.
LEMMA HereStays ==
  ASSUME SessionTypeOK, Here, [Next]_vars
  PROVE  Here'
<1>1. ASSUME UNCHANGED <<auction, within>> PROVE Here'
  BY <1>1 DEF Here
<1>2. ASSUME NEW a \in Auctions, NEW L \in SUBSET Lots, Show(a, L) PROVE Here'
  BY <1>2 DEF Show, Here
<1>3. ASSUME NEW c \in Chats, NEW k \in Kinds, NEW n \in Lots \union {NoLot},
             NEW a \in Auctions \union {NoAuction}, Send(c, k, n, a)
      PROVE  Here'
  <2>1. /\ UNCHANGED auction
        /\ \/ UNCHANGED within
           \/ within' = [within EXCEPT ![c] = IF a = auction THEN a ELSE NoAuction]
    BY <1>3 DEF Send, hub
  <2> QED  BY <2>1 DEF Here, SessionTypeOK
<1>4. ASSUME NEW c \in Chats, ChatStep(c) \/ ShowTo(c) PROVE UNCHANGED <<auction, within>>
  BY <1>4 DEF ChatStep, Open, Ask, Prompt, Check, Wait, OfferLots, Handle, Delete, Act, ShowTo,
              hub, user
<1>5. ASSUME \/ Connect \/ Disconnect \/ Lose \/ End
             \/ \E b \in Bots : Receive(b) \/ Sender(b)
             \/ \E u \in handing : SendTo(u)
             \/ UNCHANGED vars
      PROVE  UNCHANGED <<auction, within>>
  BY <1>5 DEF Connect, Disconnect, Lose, End, Receive, Sender, SendTo, vars, hub, user
<1> QED  BY <1>1, <1>2, <1>3, <1>4, <1>5 DEF Next

LEMMA NextInv == SessionInv /\ [Next]_vars => SessionInv'
<1> SUFFICES ASSUME SessionInv, [Next]_vars PROVE Own' /\ Clear' /\ BidOnChosenLot'
  BY NextType, HereStays DEF SessionInv
<1>1. ASSUME UNCHANGED <<inbox, held, lot, telegram, handing, chosen, sure, bids>>
      PROVE  Own' /\ Clear' /\ BidOnChosenLot'
  BY <1>1, NothingTaken DEF SessionInv, BidOnChosenLot
<1>2. ASSUME NEW c \in Chats, ChatStep(c)
      PROVE  Own' /\ Clear' /\ BidOnChosenLot'
  <2>1. CASE Open(c) \/ Ask(c) \/ Wait(c)
    <3>1. lot[c] = NoLot
      BY <2>1 DEF SessionInv, SessionTypeOK, Open, Ask, Wait, Move
    <3>2. /\ Take(c) \/ UNCHANGED inbox
          /\ UNCHANGED <<held, lot, telegram, handing, user, bids>>
      BY <2>1 DEF Open, Ask, Wait
    <3> QED  BY <3>1, <3>2, BeforeMenu DEF SessionInv, BidOnChosenLot
  <2>2. CASE Prompt(c) \/ Check(c) \/ OfferLots(c) \/ Delete(c)
    BY <2>2, <1>1 DEF Prompt, Check, OfferLots, Delete, user
  <2> QED  BY <1>2, <2>1, <2>2, HandleInv, ActInv DEF ChatStep
<1>3. ASSUME NEW c \in Chats, ShowTo(c)
      PROVE  Own' /\ Clear' /\ BidOnChosenLot'
  BY <1>1, <1>3 DEF ShowTo, session, user
<1>4. ASSUME \/ Connect \/ Disconnect \/ End
             \/ \E b \in Bots : Sender(b)
             \/ \E a \in Auctions, L \in SUBSET Lots : Show(a, L)
             \/ UNCHANGED vars
      PROVE  Own' /\ Clear' /\ BidOnChosenLot'
  BY <1>1, <1>4 DEF Connect, Disconnect, End, Sender, Show, vars, session, hub, user
<1> QED  BY <1>2, <1>3, <1>4, SendInv, ReceiveInv, LoseInv, SendToInv DEF Next

\* A user who lets each update be handled before the next bids on the number
\* chosen last: not on one of an older keyboard, of a reconnection or of a
\* choice that was thrown away.  It is the lot of the auction it was chosen in
\* unless the hub has shown another since; then the number is kept, and the
\* bid is on the lot of that number in the other auction.
THEOREM ChosenLot == Spec => []BidOnChosenLot
<1>1. SessionInv => BidOnChosenLot
  BY DEF SessionInv
<1> QED  BY InitInv, NextInv, <1>1, PTL DEF Spec

-----------------------------------------------------------------------------
(***************************************************************************)
(* An update is in one place only: with Telegram, in the hands of one      *)
(* goroutine, in its chat's channel or being handled.                      *)
(***************************************************************************)
Once(s) == \A i, j \in DOMAIN s : s[i] = s[j] => i = j

OnePlace ==
  /\ Once(telegram)
  /\ \A u \in RangeOf(telegram) \union handing : u.id <= updates
  /\ RangeOf(telegram) \intersect handing = {}
  /\ \A c \in Chats :
       /\ Once(inbox[c])
       /\ \A u \in RangeOf(inbox[c]) \union {held[c]} : u.id <= updates
       /\ RangeOf(inbox[c]) \intersect (RangeOf(telegram) \union handing) = {}
       /\ held[c] \notin RangeOf(inbox[c]) \union RangeOf(telegram) \union handing

LEMMA TailOnce ==
  ASSUME NEW s \in Seq(Update), s # <<>>, Once(s)
  PROVE  Once(Tail(s)) /\ Head(s) \notin RangeOf(Tail(s))
<1>1. /\ \A i \in DOMAIN Tail(s) : i + 1 \in DOMAIN s /\ Tail(s)[i] = s[i + 1] /\ i \in Nat \ {0}
      /\ 1 \in DOMAIN s /\ Head(s) = s[1]
  OBVIOUS
<1>2. ASSUME NEW i \in DOMAIN Tail(s), NEW j \in DOMAIN Tail(s), Tail(s)[i] = Tail(s)[j]
      PROVE  i = j
  <2>1. i + 1 = j + 1
    BY <1>1, <1>2 DEF Once
  <2> QED  BY <1>1, <2>1
<1>3. ASSUME NEW i \in DOMAIN Tail(s) PROVE Tail(s)[i] # Head(s)
  <2>1. i + 1 # 1
    BY <1>1
  <2> QED  BY <1>1, <2>1 DEF Once
<1> QED  BY <1>2, <1>3 DEF Once, RangeOf

LEMMA AppendedOnce ==
  ASSUME NEW s \in Seq(Update), NEW u \in Update, Once(s), u \notin RangeOf(s)
  PROVE  Once(Append(s, u))
<1> DEFINE t == Append(s, u)
<1>1. /\ \A i \in DOMAIN t : (i \in DOMAIN s /\ t[i] = s[i]) \/ i = Len(s) + 1
      /\ t[Len(s) + 1] = u
  OBVIOUS
<1> QED  BY <1>1 DEF Once, RangeOf

LEMMA InitOnePlace == Init => OnePlace
<1> SUFFICES ASSUME Init PROVE OnePlace
  OBVIOUS
<1>1. telegram = <<>> /\ handing = {} /\ updates = 0
  BY DEF Init
<1>2. \A c \in Chats : inbox[c] = <<>> /\ held[c] = None
  BY DEF Init
<1>3. Once(<<>>) /\ RangeOf(<<>>) = {} /\ None.id = 0
  BY DEF Once, RangeOf, None
<1> QED  BY <1>1, <1>2, <1>3 DEF OnePlace

\* The step of one chat, which keeps the rest of its channel and has one of
\* the updates it had in hand.
LEMMA OneChatPlace ==
  ASSUME SessionTypeOK, OnePlace, NEW c \in Chats,
         NEW q, inbox' = [inbox EXCEPT ![c] = q],
         NEW h, held' = [held EXCEPT ![c] = h],
         UNCHANGED <<telegram, handing, updates>>,
         Once(q), RangeOf(q) \subseteq RangeOf(inbox[c]),
         h \in RangeOf(inbox[c]) \union {held[c], None}, h \notin RangeOf(q)
  PROVE  OnePlace'
<1>1. /\ inbox'[c] = q /\ held'[c] = h
      /\ \A d \in Chats \ {c} : inbox'[d] = inbox[d] /\ held'[d] = held[d]
  BY DEF SessionTypeOK
<1>2. None \notin RangeOf(telegram) \union handing /\ None.id <= updates
  <2>1. RangeOf(telegram) \subseteq Update /\ handing \subseteq Update /\ updates \in Nat
    BY SessionAssumption DEF SessionTypeOK, RangeOf
  <2>2. None.id = 0
    BY DEF None
  <2> QED  BY <2>1, <2>2, NoneIsNoUpdate
<1>3. h \notin RangeOf(telegram) \union handing /\ h.id <= updates
  BY <1>2 DEF OnePlace
<1>4. \A d \in Chats :
        /\ Once(inbox'[d])
        /\ \A u \in RangeOf(inbox'[d]) \union {held'[d]} : u.id <= updates
        /\ RangeOf(inbox'[d]) \intersect (RangeOf(telegram) \union handing) = {}
        /\ held'[d] \notin RangeOf(inbox'[d]) \union RangeOf(telegram) \union handing
  <2> TAKE d \in Chats
  <2>1. CASE d = c
    BY <2>1, <1>1, <1>3 DEF OnePlace
  <2>2. CASE d # c
    BY <2>2, <1>1 DEF OnePlace
  <2> QED  BY <2>1, <2>2
<1> QED  BY <1>4 DEF OnePlace

\* What a chat takes was nowhere else, and what it leaves is still once there.
LEMMA TakesOnce ==
  ASSUME SessionTypeOK, OnePlace, NEW c \in Chats, Take(c)
  PROVE  /\ Once(Tail(inbox[c]))
         /\ RangeOf(inbox[c]) = {Head(inbox[c])} \union RangeOf(Tail(inbox[c]))
         /\ Head(inbox[c]) \notin RangeOf(Tail(inbox[c])) \union RangeOf(telegram) \union handing
         /\ Head(inbox[c]) # held[c]
         /\ Head(inbox[c]) \in Update
<1>1. inbox[c] \in Seq(Update) /\ inbox[c] # <<>>
  BY DEF SessionTypeOK, Take
<1>2. /\ RangeOf(inbox[c]) = {Head(inbox[c])} \union RangeOf(Tail(inbox[c]))
      /\ Head(inbox[c]) \in Update
  BY <1>1, TailOfUpdates
<1>3. Once(Tail(inbox[c])) /\ Head(inbox[c]) \notin RangeOf(Tail(inbox[c]))
  BY <1>1, TailOnce DEF OnePlace
<1> QED  BY <1>2, <1>3 DEF OnePlace

LEMMA ChatOnePlace ==
  ASSUME SessionTypeOK, OnePlace, NEW c \in Chats, ChatStep(c)
  PROVE  OnePlace'
<1>1. UNCHANGED <<telegram, handing, updates>>
  BY DEF ChatStep, Open, Ask, Prompt, Check, Wait, OfferLots, Handle, Delete, Act, user
<1>2. ASSUME UNCHANGED inbox, held' = [held EXCEPT ![c] = held[c]] PROVE OnePlace'
  BY <1>1, <1>2, Unchanged, OneChatPlace DEF OnePlace
<1>3. ASSUME Take(c), UNCHANGED held PROVE OnePlace'
  <2>1. /\ inbox' = [inbox EXCEPT ![c] = Tail(inbox[c])]
        /\ held' = [held EXCEPT ![c] = held[c]]
    BY <1>3, Unchanged DEF Take
  <2>2. /\ Once(Tail(inbox[c])) /\ RangeOf(Tail(inbox[c])) \subseteq RangeOf(inbox[c])
        /\ held[c] \notin RangeOf(Tail(inbox[c]))
    BY <1>3, TakesOnce DEF OnePlace
  <2> QED  BY <1>1, <2>1, <2>2, OneChatPlace
<1>4. ASSUME Take(c), held' = [held EXCEPT ![c] = Head(inbox[c])] PROVE OnePlace'
  <2>1. inbox' = [inbox EXCEPT ![c] = Tail(inbox[c])]
    BY <1>4 DEF Take
  <2>2. /\ Once(Tail(inbox[c])) /\ RangeOf(Tail(inbox[c])) \subseteq RangeOf(inbox[c])
        /\ Head(inbox[c]) \in RangeOf(inbox[c]) /\ Head(inbox[c]) \notin RangeOf(Tail(inbox[c]))
    BY <1>4, TakesOnce
  <2> QED  BY <1>1, <1>4, <2>1, <2>2, OneChatPlace
<1>5. ASSUME UNCHANGED inbox, held' = [held EXCEPT ![c] = None] PROVE OnePlace'
  <2>1. None \notin RangeOf(inbox[c])
    <3>1. RangeOf(inbox[c]) \subseteq Update
      BY DEF SessionTypeOK, RangeOf
    <3> QED  BY <3>1, NoneIsNoUpdate
  <2> QED  BY <1>1, <1>5, <2>1, Unchanged, OneChatPlace DEF OnePlace
<1>6. UNCHANGED held => held' = [held EXCEPT ![c] = held[c]]
  BY Unchanged
<1>7. CASE Open(c)
  BY <1>7, <1>2, <1>3, <1>6 DEF Open
<1>8. CASE Ask(c)
  BY <1>8, <1>3 DEF Ask
<1>9. CASE Prompt(c) \/ Check(c) \/ OfferLots(c) \/ Delete(c)
  BY <1>9, <1>2, <1>6 DEF Prompt, Check, OfferLots, Delete
<1>10. CASE Wait(c)
  BY <1>10, <1>2, <1>3, <1>6 DEF Wait
<1>11. CASE Handle(c)
  BY <1>11, <1>3, <1>4 DEF Handle
<1>12. CASE Act(c)
  BY <1>12, <1>5 DEF Act
<1> QED  BY <1>7, <1>8, <1>9, <1>10, <1>11, <1>12 DEF ChatStep

LEMMA SendOnePlace ==
  ASSUME SessionTypeOK, OnePlace, NEW c \in Chats, NEW k \in Kinds,
         NEW n \in Lots \union {NoLot},
         NEW a \in Auctions \union {NoAuction}, Send(c, k, n, a)
  PROVE  OnePlace'
<1> DEFINE u == [id |-> updates', chat |-> c, kind |-> k, lot |-> n]
<1>1. /\ updates' = updates + 1 /\ updates \in Nat /\ updates' \in 1 .. MaxUpdates
      /\ telegram' = Append(telegram, u)
      /\ UNCHANGED <<inbox, held, handing>>
  BY SessionAssumption DEF Send, SessionTypeOK, session, hub
<1>2. u \in Update /\ u.id = updates + 1 /\ telegram \in Seq(Update)
  BY <1>1, SessionAssumption DEF Update, SessionTypeOK
<1>3. /\ u \notin RangeOf(telegram) \union handing
      /\ \A d \in Chats : u \notin RangeOf(inbox[d]) \union {held[d]}
  BY <1>1, <1>2 DEF OnePlace
<1>4. RangeOf(telegram') = RangeOf(telegram) \union {u} /\ Once(telegram')
  BY <1>1, <1>2, <1>3, AppendedUpdate, AppendedOnce DEF OnePlace
<1>5. /\ RangeOf(telegram) \subseteq Update /\ handing \subseteq Update
      /\ \A d \in Chats : RangeOf(inbox[d]) \subseteq Update
                          /\ held[d] \in Update \union {None}
  BY DEF SessionTypeOK, RangeOf
<1>6. \A v \in Update \union {None} : v.id <= updates => v.id <= updates'
  <2>1. \A v \in Update \union {None} : v.id \in Nat
    BY SessionAssumption DEF Update, None
  <2> QED  BY <1>1, <2>1
<1>7. \A v \in RangeOf(telegram') \union handing' : v.id <= updates'
  BY <1>1, <1>2, <1>4, <1>5, <1>6 DEF OnePlace
<1>8. \A d \in Chats : \A v \in RangeOf(inbox'[d]) \union {held'[d]} : v.id <= updates'
  BY <1>1, <1>5, <1>6 DEF OnePlace
<1> HIDE DEF u
<1> QED  BY <1>1, <1>3, <1>4, <1>7, <1>8 DEF OnePlace

LEMMA ReceiveOnePlace ==
  ASSUME SessionTypeOK, OnePlace, NEW b \in Bots, Receive(b)
  PROVE  OnePlace'
<1>1. /\ RangeOf(telegram) = {Head(telegram)} \union RangeOf(telegram')
      /\ Once(telegram') /\ Head(telegram) \notin RangeOf(telegram')
  BY TailOfUpdates, TailOnce DEF Receive, SessionTypeOK, OnePlace
<1>2. /\ handing' = handing \union {Head(telegram)}
      /\ UNCHANGED <<inbox, held, updates>>
  BY DEF Receive, user
<1> QED  BY <1>1, <1>2 DEF OnePlace

LEMMA LoseOnePlace ==
  ASSUME SessionTypeOK, OnePlace, Lose
  PROVE  OnePlace'
<1>1. /\ RangeOf(telegram) = {Head(telegram)} \union RangeOf(telegram')
      /\ Once(telegram')
  BY TailOfUpdates, TailOnce DEF Lose, SessionTypeOK, OnePlace
<1>2. UNCHANGED <<handing, inbox, held, updates>>
  BY DEF Lose, session
<1> QED  BY <1>1, <1>2 DEF OnePlace

LEMMA SendToOnePlace ==
  ASSUME SessionTypeOK, OnePlace, NEW u \in handing, SendTo(u), Own
  PROVE  OnePlace'
<1>1. u \in Update /\ u.chat \in Chats /\ inbox[u.chat] \in Seq(Update)
  BY DEF SessionTypeOK, Update
<1>2. /\ handing' = handing \ {u}
      /\ inbox'[u.chat] = Append(inbox[u.chat], u)
      /\ \A c \in Chats \ {u.chat} : inbox'[c] = inbox[c]
      /\ UNCHANGED <<telegram, held, updates>>
  BY <1>1 DEF SendTo, SessionTypeOK, user
<1>3. /\ RangeOf(inbox'[u.chat]) = RangeOf(inbox[u.chat]) \union {u}
      /\ Once(inbox'[u.chat])
  BY <1>1, <1>2, AppendedUpdate, AppendedOnce DEF OnePlace
<1>4. u.id <= updates /\ u \notin RangeOf(telegram)
  BY DEF OnePlace
<1>5. \A d \in Chats :
        /\ Once(inbox'[d])
        /\ \A v \in RangeOf(inbox'[d]) \union {held[d]} : v.id <= updates
        /\ RangeOf(inbox'[d]) \intersect (RangeOf(telegram) \union handing') = {}
        /\ held[d] \notin RangeOf(inbox'[d]) \union RangeOf(telegram) \union handing'
  <2> TAKE d \in Chats
  <2>1. CASE d = u.chat
    BY <2>1, <1>2, <1>3, <1>4 DEF OnePlace
  <2>2. CASE d # u.chat
    BY <2>2, <1>2 DEF OnePlace
  <2> QED  BY <2>1, <2>2
<1> QED  BY <1>2, <1>5 DEF OnePlace

TalkInv == SessionInv /\ OnePlace

LEMMA TalkInvariant == Spec => []TalkInv
<1>1. Init => TalkInv
  BY InitInv, InitOnePlace DEF TalkInv
<1>2. TalkInv /\ [Next]_vars => TalkInv'
  <2> SUFFICES ASSUME SessionInv, OnePlace, [Next]_vars PROVE OnePlace'
    BY NextInv DEF TalkInv
  <2>1. SessionTypeOK /\ Own
    BY DEF SessionInv
  <2>2. ASSUME UNCHANGED <<telegram, handing, inbox, held, updates>> PROVE OnePlace'
    BY <2>2 DEF OnePlace
  <2>3. ASSUME NEW c \in Chats, ShowTo(c) PROVE OnePlace'
    BY <2>2, <2>3 DEF ShowTo, session, user
  <2>4. ASSUME \/ Connect \/ Disconnect \/ End
               \/ \E b \in Bots : Sender(b)
               \/ \E a \in Auctions, L \in SUBSET Lots : Show(a, L)
               \/ UNCHANGED vars
        PROVE  OnePlace'
    BY <2>2, <2>4 DEF Connect, Disconnect, End, Sender, Show, vars, session, hub, user
  <2> QED  BY <2>1, <2>3, <2>4, ChatOnePlace, SendOnePlace, ReceiveOnePlace, LoseOnePlace,
              SendToOnePlace DEF Next
<1> QED  BY <1>1, <1>2, PTL DEF Spec

-----------------------------------------------------------------------------
(***************************************************************************)
(* The refinement of Conversation.                                         *)
(***************************************************************************)
Due == [c \in Chats |-> InFlight(c)]
Talking == {c \in Chats : at[c] \in {"menu", "deleting", "acting"}}
Replaced == Cancelled # {}

\* The updates of one chat changed.
LEMMA DueOfOne ==
  ASSUME NEW c \in Chats, NEW S, InFlight(c)' = S,
         \A d \in Chats \ {c} : InFlight(d)' = InFlight(d)
  PROVE  Due' = [Due EXCEPT ![c] = S]
  BY DEF Due

LEMMA DueStays ==
  ASSUME \A d \in Chats : InFlight(d)' = InFlight(d)
  PROVE  Due' = Due
  BY DEF Due

\* An update that leaves for good.
LEMMA Settled ==
  ASSUME NEW c \in Chats, NEW u, u \in InFlight(c), InFlight(c)' = InFlight(c) \ {u},
         \A d \in Chats \ {c} : InFlight(d)' = InFlight(d),
         UNCHANGED <<updates, bots, auction, lots>>, Talking' = Talking
  PROVE  Talk!Settle(c, u)
<1>1. Due' = [Due EXCEPT ![c] = InFlight(c) \ {u}] /\ Due[c] = InFlight(c)
  BY DueOfOne DEF Due
<1> QED  BY <1>1 DEF Talk!Settle, Due, Talking, Cancelled, bots

\* What a chat takes without handling it further is on its way no more.
LEMMA TakenAway ==
  ASSUME TalkInv, NEW c \in Chats, Take(c), held[c] = None,
         UNCHANGED <<held, telegram, handing>>
  PROVE  /\ Head(inbox[c]) \in InFlight(c)
         /\ InFlight(c)' = InFlight(c) \ {Head(inbox[c])}
         /\ \A d \in Chats \ {c} : InFlight(d)' = InFlight(d)
<1>1. SessionTypeOK /\ Own /\ OnePlace
  BY DEF TalkInv, SessionInv
<1>2. /\ inbox'[c] = Tail(inbox[c]) /\ \A d \in Chats \ {c} : inbox'[d] = inbox[d]
  BY <1>1 DEF Take, SessionTypeOK
<1>3. Head(inbox[c]) \in InFlight(c)
  BY <1>1, Taking
<1>4. /\ RangeOf(inbox[c]) = {Head(inbox[c])} \union RangeOf(Tail(inbox[c]))
      /\ Head(inbox[c]) \notin RangeOf(Tail(inbox[c])) \union RangeOf(telegram) \union handing
  BY <1>1, TakesOnce
<1>5. InFlight(c)' = InFlight(c) \ {Head(inbox[c])}
  BY <1>2, <1>4 DEF InFlight
<1>6. \A d \in Chats \ {c} : InFlight(d)' = InFlight(d)
  BY <1>2 DEF InFlight
<1> QED  BY <1>3, <1>5, <1>6

\* Steps that are the talk's concern only as far as the chat's place in it.
LEMMA NoUpdateMoves ==
  ASSUME UNCHANGED <<telegram, handing, inbox, held>>
  PROVE  Due' = Due
<1>1. \A d \in Chats : InFlight(d)' = InFlight(d)
  BY DEF InFlight
<1> QED  BY <1>1, DueStays

LEMMA SendWrites ==
  ASSUME TalkInv, NEW c \in Chats, NEW k \in Kinds, NEW n \in Lots \union {NoLot},
         NEW a \in Auctions \union {NoAuction}, Send(c, k, n, a)
  PROVE  Talk!Write(c, k, n)
<1> DEFINE u == [id |-> updates', chat |-> c, kind |-> k, lot |-> n]
<1>1. /\ updates < MaxUpdates /\ updates' = updates + 1
      /\ telegram' = Append(telegram, u)
      /\ UNCHANGED <<at, lot, inbox, held, handing, bot, made, auction, lots, bids>>
  BY DEF Send, session, bots, hub
<1>2. u \in Update /\ telegram \in Seq(Update)
  <2>1. updates' \in 1 .. MaxUpdates
    BY <1>1, SessionAssumption DEF TalkInv, SessionInv, SessionTypeOK
  <2> QED  BY <2>1, SessionAssumption DEF Update, TalkInv, SessionInv, SessionTypeOK
<1>3. RangeOf(telegram') = RangeOf(telegram) \union {u} /\ u.chat = c
  BY <1>1, <1>2, AppendedUpdate
<1>4. /\ InFlight(c)' = InFlight(c) \union {u}
      /\ \A d \in Chats \ {c} : InFlight(d)' = InFlight(d)
  BY <1>1, <1>3 DEF InFlight
<1>5. Due' = [Due EXCEPT ![c] = Due[c] \union {u}]
  BY <1>4, DueOfOne DEF Due
<1> QED  BY <1>1, <1>5 DEF Talk!Write, Due, Cancelled, Placed

LEMMA TalkingStays ==
  ASSUME TalkInv, NEW c \in Chats, NEW a, at' = [at EXCEPT ![c] = a],
         at[c] \in {"menu", "deleting", "acting"} <=> a \in {"menu", "deleting", "acting"}
  PROVE  Talking' = Talking
<1>1. at'[c] = a /\ \A d \in Chats \ {c} : at'[d] = at[d]
  BY DEF TalkInv, SessionInv, SessionTypeOK
<1> QED  BY <1>1 DEF Talking

\* Before its menu a chat ignores what it takes.
LEMMA EarlyStep ==
  ASSUME TalkInv, NEW c \in Chats, Open(c) \/ Ask(c) \/ Wait(c)
  PROVE  (\E u \in InFlight(c) : Talk!Ignore(c, u)) \/ UNCHANGED Talk!vars
<1>1. /\ at[c] \in {"opening", "asking", "waiting"}
      /\ held[c] = None /\ c \notin Talking
      /\ UNCHANGED <<held, lot, bot, made, telegram, handing, auction, lots, updates, bids>>
  BY DEF Open, Ask, Wait, Move, TalkInv, SessionInv, SessionTypeOK, Talking, bots, hub, user
<1>2. PICK a \in {"asking", "greeting", "prompting", "offering", "waiting"} :
        at' = [at EXCEPT ![c] = a]
  BY DEF Open, Ask, Wait, Move
<1>3. Talking' = Talking
  BY <1>1, <1>2, TalkingStays
<1>4. CASE Take(c)
  <2>1. PICK u : u = Head(inbox[c])
    OBVIOUS
  <2>2. /\ u \in InFlight(c) /\ InFlight(c)' = InFlight(c) \ {u}
        /\ \A d \in Chats \ {c} : InFlight(d)' = InFlight(d)
    BY <1>1, <1>4, <2>1, TakenAway
  <2>3. Talk!Settle(c, u)
    BY <1>1, <1>3, <2>2, Settled DEF bots
  <2> QED  BY <1>1, <2>2, <2>3 DEF Talk!Ignore, Talking, Placed
<1>5. CASE UNCHANGED inbox
  BY <1>1, <1>3, <1>5, NoUpdateMoves DEF Talk!vars, Due, Talking, Cancelled, Placed
<1> QED  BY <1>4, <1>5 DEF Open, Ask, Wait

\* A chat that only speaks, deletes a keyboard or offers the lots.
LEMMA SpeakStep ==
  ASSUME TalkInv, NEW c \in Chats
  PROVE  /\ Prompt(c) \/ Check(c) \/ Delete(c) => UNCHANGED Talk!vars
         /\ OfferLots(c) => Talk!Enter(c)
<1>1. ASSUME Prompt(c) \/ Check(c) \/ Delete(c) PROVE UNCHANGED Talk!vars
  <2>1. UNCHANGED <<inbox, held, lot, bot, made, telegram, handing, auction, lots, updates, bids>>
    BY <1>1 DEF Prompt, Check, Delete, bots, hub, user
  <2>2. PICK a \in {"asking", "checking", "offering", "waiting", "acting"} :
          /\ at' = [at EXCEPT ![c] = a]
          /\ at[c] = "deleting" <=> a = "acting"
          /\ at[c] \notin {"menu", "acting"}
    BY <1>1 DEF Prompt, Check, Delete, Move
  <2>3. Talking' = Talking
    BY <2>2, TalkingStays
  <2> QED  BY <2>1, <2>3, NoUpdateMoves DEF Talk!vars, Due, Talking, Cancelled, Placed
<1>2. ASSUME OfferLots(c) PROVE Talk!Enter(c)
  <2>1. UNCHANGED <<inbox, held, lot, bot, made, telegram, handing, auction, lots, updates, bids>>
    BY <1>2 DEF OfferLots, bots, hub, user
  <2>2. c \notin Talking /\ at'[c] = "menu" /\ \A d \in Chats \ {c} : at'[d] = at[d]
    BY <1>2 DEF OfferLots, Move, Talking, TalkInv, SessionInv, SessionTypeOK
  <2>3. Talking' = Talking \union {c}
    BY <2>2 DEF Talking
  <2> QED  BY <2>1, <2>2, <2>3, NoUpdateMoves DEF Talk!Enter, Due, Talking, Cancelled, Placed
<1> QED  BY <1>1, <1>2

\* A bid that is taken up leaves a record of the current lot, or none.
LEMMA BetIsBidOrRemark ==
  ASSUME NEW c \in Chats, NEW u, Bet(c), BidOnChosenLot', Talk!Settle(c, u), UNCHANGED lot,
         c \in Talking, u.kind \in {"quick", "sum"}
  PROVE  Talk!Bid(c, u) \/ Talk!Remark(c, u)
<1> DEFINE b == [lot |-> lot[c], auction |-> auction, meant |-> chosen[c], within |-> within[c]]
<1>1. CASE UNCHANGED bids
  BY <1>1 DEF Talk!Remark, Talking, Placed
<1>2. CASE lot[c] \in lots /\ bids' = bids \union {b}
  <2>1. b \in bids' /\ b.lot = lot[c] /\ b.meant = chosen[c] /\ b.auction = auction
    BY <1>2
  <2>2. lot[c] = chosen[c]
    BY <2>1 DEF BidOnChosenLot
  <2>3. Placed' = Placed \union {[lot |-> b.lot, auction |-> b.auction, meant |-> b.meant]}
    <3> HIDE DEF b
    <3> QED  BY <1>2 DEF Placed
  <2> QED  BY <1>2, <2>1, <2>2, <2>3 DEF Talk!Bid, Talking
<1>3. bids \union {} = bids
  OBVIOUS
<1> QED  BY <1>1, <1>2, <1>3 DEF Bet

LEMMA HandleAnswers ==
  ASSUME TalkInv, NEW c \in Chats, Handle(c)
  PROVE  (\E u \in InFlight(c) : Talk!Choose(c, u) \/ Talk!Bid(c, u) \/ Talk!Remark(c, u))
           \/ UNCHANGED Talk!vars
<1>1. PICK u : u = Head(inbox[c])
  OBVIOUS
<1>2. /\ at[c] = "menu" /\ Take(c) /\ held[c] = None /\ c \in Talking
      /\ UNCHANGED <<bot, made, telegram, handing, auction, lots, updates>>
  BY DEF Handle, TalkInv, SessionInv, SessionTypeOK, Talking, bots, hub, user
<1>3. BidOnChosenLot'
  BY HandleInv DEF TalkInv
<1>4. ASSUME UNCHANGED <<at, held>>
      PROVE  u \in InFlight(c) /\ Talk!Settle(c, u)
  <2>1. /\ u \in InFlight(c) /\ InFlight(c)' = InFlight(c) \ {u}
        /\ \A d \in Chats \ {c} : InFlight(d)' = InFlight(d)
    BY <1>1, <1>2, <1>4, TakenAway
  <2>2. Talking' = Talking
    BY <1>4 DEF Talking
  <2> QED  BY <1>2, <2>1, <2>2, Settled DEF bots
<1>5. CASE u.kind = "/start" /\ lot' = [lot EXCEPT ![c] = NoLot] /\ UNCHANGED <<at, held, bids>>
  BY <1>2, <1>4, <1>5 DEF Talk!Choose, Talk!NoLot, NoLot, Talking, Placed
<1>6. CASE u.kind = "sum" /\ Bet(c) /\ UNCHANGED <<at, lot, held>>
  BY <1>2, <1>3, <1>4, <1>6, BetIsBidOrRemark
<1>7. CASE u.kind \in {"text", "contact", "sum"} /\ UNCHANGED <<at, lot, held, bids>>
  BY <1>2, <1>4, <1>7 DEF Talk!Remark, Talking, Placed
<1>8. CASE /\ held' = [held EXCEPT ![c] = u]
           /\ at' = [at EXCEPT ![c] = "deleting"]
           /\ UNCHANGED <<lot, bids>>
  <2>1. Talking' = Talking
    BY <1>2, <1>8, TalkingStays
  <2>2. SessionTypeOK /\ Own
    BY DEF TalkInv, SessionInv
  <2>3. held'[c] = u /\ \A d \in Chats \ {c} : held'[d] = held[d] /\ inbox'[d] = inbox[d]
    BY <1>2, <1>8, <2>2 DEF SessionTypeOK, Take
  <2>4. InFlight(c)' = InFlight(c)
    BY <1>1, <1>2, <2>2, <2>3, Taking
  <2>5. \A d \in Chats : InFlight(d)' = InFlight(d)
    BY <1>2, <2>3, <2>4 DEF InFlight
  <2> QED  BY <1>2, <1>8, <2>1, <2>5, DueStays DEF Talk!vars, Due, Talking, Cancelled, Placed
<1> QED  BY <1>1, <1>5, <1>6, <1>7, <1>8 DEF Handle

LEMMA ActAnswers ==
  ASSUME TalkInv, NEW c \in Chats, Act(c)
  PROVE  \E u \in InFlight(c) : Talk!Choose(c, u) \/ Talk!Bid(c, u)  \/ Talk!Remark(c, u)
<1>1. PICK u : u = held[c]
  OBVIOUS
<1>2. /\ at[c] = "acting" /\ at' = [at EXCEPT ![c] = "menu"] /\ u # None /\ c \in Talking
      /\ held'[c] = None /\ \A d \in Chats \ {c} : held'[d] = held[d]
      /\ UNCHANGED <<inbox, bot, made, telegram, handing, auction, lots, updates>>
  BY <1>1 DEF Act, Move, TalkInv, SessionInv, SessionTypeOK, Talking, bots, hub, user
<1>3. BidOnChosenLot'
  BY ActInv DEF TalkInv
<1>4. u \in InFlight(c) /\ u \notin RangeOf(inbox[c]) \union RangeOf(telegram) \union handing
  BY <1>1, <1>2 DEF InFlight, TalkInv, SessionInv, Own, OnePlace
<1>5. InFlight(c)' = InFlight(c) \ {u} /\ \A d \in Chats \ {c} : InFlight(d)' = InFlight(d)
  BY <1>1, <1>2, <1>4 DEF InFlight
<1>6. Talking' = Talking
  BY <1>2, TalkingStays
<1>7. Talk!Settle(c, u)
  BY <1>2, <1>4, <1>5, <1>6, Settled DEF bots
<1>8. CASE u.kind = "lot" /\ lot' = [lot EXCEPT ![c] = u.lot] /\ UNCHANGED bids
  BY <1>2, <1>4, <1>7, <1>8 DEF Talk!Choose, Talking, Placed
<1>9. CASE u.kind = "quick" /\ Bet(c) /\ UNCHANGED lot
  BY <1>2, <1>3, <1>4, <1>7, <1>9, BetIsBidOrRemark
<1>10. CASE u.kind = "back" /\ lot' = [lot EXCEPT ![c] = NoLot] /\ UNCHANGED bids
  BY <1>2, <1>4, <1>7, <1>10 DEF Talk!Choose, Talk!NoLot, NoLot, Talking, Placed
<1> QED  BY <1>1, <1>8, <1>9, <1>10 DEF Act

LEMMA ShowOffers ==
  ASSUME UNCHANGED <<session, bots, telegram, handing, updates, bids>>
  PROVE  /\ Due' = Due /\ Talking' = Talking
         /\ Talk!Offer(auction', lots')
         /\ UNCHANGED <<auction, lots>> => UNCHANGED Talk!vars
  BY NoUpdateMoves DEF session, bots, Talk!Offer, Talk!vars, Due, Talking, Cancelled, Placed

\* Only the first connection replaces nothing.
LEMMA BotReplaced ==
  ASSUME TalkInv, Connect \/ Disconnect
  PROVE  Talk!Replace \/ UNCHANGED Talk!vars
<1>1. /\ UNCHANGED <<session, telegram, handing, auction, lots, updates, bids>>
      /\ Due' = Due /\ Talking' = Talking
  BY NoUpdateMoves DEF Connect, Disconnect, session, hub, user, Talking
<1>2. made \in Nat /\ bot \in {made, NoBot}
  BY SessionAssumption DEF TalkInv, SessionInv, SessionTypeOK
<1>3. Replaced => Replaced'
  <2>1. CASE Connect
    BY <2>1, <1>2 DEF Connect, Replaced, Cancelled
  <2>2. CASE Disconnect
    BY <2>2, <1>2 DEF Disconnect, Replaced, Cancelled, NoBot
  <2> QED  BY <2>1, <2>2
<1>4. CASE Replaced' = Replaced
  BY <1>1, <1>4 DEF Talk!vars, Due, Talking, Replaced, session, Placed
<1>5. CASE ~Replaced /\ Replaced'
  BY <1>1, <1>5 DEF Talk!Replace, Due, Talking, Replaced, session, Placed
<1>6. Replaced \in BOOLEAN /\ Replaced' \in BOOLEAN
  BY DEF Replaced
<1> QED  BY <1>3, <1>4, <1>5, <1>6

LEMMA LoseLoses ==
  ASSUME TalkInv, Lose
  PROVE  \E c \in Chats : \E u \in InFlight(c) : Talk!Lose(c, u)
<1>1. PICK u : u = Head(telegram)
  OBVIOUS
<1>2. /\ RangeOf(telegram) = {u} \union RangeOf(telegram') /\ u \notin RangeOf(telegram')
      /\ u.chat \in Chats
      /\ UNCHANGED <<session, bots, handing, auction, lots, updates, bids>>
  BY <1>1, TailOfUpdates, TailOnce
     DEF Lose, TalkInv, SessionInv, SessionTypeOK, OnePlace, Update, hub
<1>3. PICK c \in Chats : c = u.chat
  BY <1>2
<1>4. u \notin handing /\ u \notin RangeOf(inbox[c]) /\ u # held[c]
  BY <1>2 DEF TalkInv, OnePlace
<1>5. /\ u \in InFlight(c) /\ InFlight(c)' = InFlight(c) \ {u}
      /\ \A d \in Chats \ {c} : InFlight(d)' = InFlight(d)
  BY <1>2, <1>3, <1>4 DEF InFlight, session
<1>6. Talk!Settle(c, u)
  BY <1>2, <1>5, Settled DEF session, Talking
<1>7. Talk!Lose(c, u)
  BY <1>2, <1>6 DEF Lose, Talk!Lose, Replaced, session, Placed
<1> QED  BY <1>5, <1>7

LEMMA TalkStep == TalkInv /\ [Next]_vars => [Talk!Next]_(Talk!vars)
<1> SUFFICES ASSUME TalkInv, [Next]_vars PROVE Talk!Next \/ UNCHANGED Talk!vars
  OBVIOUS
<1>u. \A c \in Chats : Due[c] = InFlight(c)
  BY DEF Due
<1>1. ASSUME UNCHANGED <<session, bots, telegram, handing, updates, bids, auction, lots>>
      PROVE  UNCHANGED Talk!vars
  BY <1>1, ShowOffers
<1>2. ASSUME NEW c \in Chats, ChatStep(c) PROVE Talk!Next \/ UNCHANGED Talk!vars
  <2>1. ASSUME \E u \in InFlight(c) : \/ Talk!Choose(c, u) \/ Talk!Bid(c, u) \/ Talk!Remark(c, u)
                                      \/ Talk!Ignore(c, u)
        PROVE  Talk!Next
    BY <1>u, <2>1 DEF Talk!Next, Due
  <2>2. Talk!Enter(c) => Talk!Next
    BY DEF Talk!Next
  <2> QED  BY <1>2, <2>1, <2>2, EarlyStep, SpeakStep, HandleAnswers, ActAnswers DEF ChatStep
<1>3. ASSUME NEW c \in Chats, ShowTo(c) PROVE UNCHANGED Talk!vars
  BY <1>1, <1>3 DEF ShowTo, user
<1>4. ASSUME NEW b \in Bots, Sender(b) PROVE UNCHANGED Talk!vars
  BY <1>1, <1>4 DEF Sender, user, hub
<1>5. ASSUME NEW b \in Bots, Receive(b) PROVE UNCHANGED Talk!vars
  <2>1. /\ RangeOf(telegram) = {Head(telegram)} \union RangeOf(telegram')
        /\ Head(telegram).chat \in Chats
        /\ handing' = handing \union {Head(telegram)}
        /\ UNCHANGED <<inbox, held, lot, bots, auction, lots, updates, bids>>
    BY <1>5, TailOfUpdates
       DEF Receive, TalkInv, SessionInv, SessionTypeOK, Update, hub, user
  <2>2. \A c \in Chats : InFlight(c)' = InFlight(c)
    BY <2>1 DEF InFlight
  <2>3. at' = at \/ \E c \in Chats : at[c] = "absent" /\ at' = [at EXCEPT ![c] = "opening"]
    BY <1>5, <2>1 DEF Receive, GetChat
  <2>4. Talking' = Talking
    <3>1. CASE at' = at
      BY <3>1 DEF Talking
    <3>2. ASSUME NEW c \in Chats, at[c] = "absent", at' = [at EXCEPT ![c] = "opening"]
          PROVE  Talking' = Talking
      BY <3>2, TalkingStays
    <3> QED  BY <2>3, <3>1, <3>2
  <2> QED  BY <2>1, <2>2, <2>4, DueStays DEF Talk!vars, Due, Talking, Cancelled, Placed, bots
<1>6. ASSUME NEW u \in handing, SendTo(u) PROVE UNCHANGED Talk!vars
  <2>1. u.chat \in Chats /\ inbox[u.chat] \in Seq(Update) /\ u \in Update
    BY DEF TalkInv, SessionInv, SessionTypeOK, Update
  <2>2. RangeOf(Append(inbox[u.chat], u)) = RangeOf(inbox[u.chat]) \union {u}
    BY <2>1, AppendedUpdate
  <2>3. /\ handing' = handing \ {u}
        /\ RangeOf(inbox'[u.chat]) = RangeOf(inbox[u.chat]) \union {u}
        /\ \A c \in Chats \ {u.chat} : inbox'[c] = inbox[c]
        /\ UNCHANGED <<telegram, held, lot, at, bots, auction, lots, updates, bids>>
    BY <1>6, <2>1, <2>2 DEF SendTo, TalkInv, SessionInv, SessionTypeOK, hub, user
  <2>4. \A c \in Chats : InFlight(c)' = InFlight(c)
    BY <2>3 DEF InFlight
  <2>5. Talking' = Talking
    BY <2>3 DEF Talking
  <2> QED  BY <2>3, <2>4, <2>5, DueStays DEF Talk!vars, Due, Talking, Cancelled, Placed, bots
<1>7. ASSUME NEW a \in Auctions, NEW L \in SUBSET Lots, Show(a, L) PROVE Talk!Next
  BY <1>7, ShowOffers DEF Show, Talk!Next
<1>8. ASSUME End PROVE Talk!Next
  <2>1. lots' \in SUBSET Lots /\ auction' \in Auctions \union {NoAuction}
    BY <1>8 DEF End, TalkInv, SessionInv, SessionTypeOK
  <2> QED  BY <1>8, <2>1, ShowOffers DEF End, Talk!Next, user
<1>9. ASSUME NEW c \in Chats, NEW k \in Kinds, NEW n \in Lots \union {NoLot},
         NEW a \in Auctions \union {NoAuction}, Send(c, k, n, a)
      PROVE  Talk!Next
  BY <1>9, SendWrites DEF Talk!Next, Talk!NoLot, NoLot
<1>10. Talk!Replace => Talk!Next
  BY DEF Talk!Next
<1>11. Lose => Talk!Next
  <2> SUFFICES ASSUME Lose PROVE Talk!Next
    OBVIOUS
  <2>1. PICK c \in Chats : \E u \in Due[c] : Talk!Lose(c, u)
    BY LoseLoses, <1>u
  <2> QED  BY <2>1 DEF Talk!Next, Due
<1>12. CASE UNCHANGED vars
  BY <1>1, <1>12 DEF vars, hub, user
<1> QED  BY <1>2, <1>3, <1>4, <1>5, <1>6, <1>7, <1>8, <1>9, <1>10, <1>11, <1>12, BotReplaced
         DEF Next

\* What a user writes is answered once at the most, by that user's chat; it
\* is ignored only before the chat has come to its menu and lost only to a
\* bot that was replaced, however its goroutines and channels interleave.
THEOREM SessionConverses == Spec => ImplementsConversation
<1>1. Init => Talk!Init
  <2> SUFFICES ASSUME Init PROVE Talk!Init
    OBVIOUS
  <2>1. \A c \in Chats : InFlight(c) = {}
    BY DEF Init, InFlight, RangeOf
  <2>2. /\ Cancelled = {} /\ lots \subseteq Lots /\ auction \in Auctions \union {NoAuction}
        /\ Placed = {}
    BY SessionAssumption DEF Init, Cancelled, NoBot, Placed
  <2> QED  BY <2>1, <2>2 DEF Init, Talk!Init, Talk!NoLot, NoLot
<1> QED  BY <1>1, TalkInvariant, TalkStep, PTL DEF Spec, ImplementsConversation, Talk!Spec
=============================================================================
