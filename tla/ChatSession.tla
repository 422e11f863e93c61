----------------------------- MODULE ChatSession -----------------------------
(***************************************************************************)
(* A chat's goroutine from its first update to its bids, and what feeds    *)
(* and empties it: the bot's poller and loop, the goroutine that hands     *)
(* each update over, the channel the chat writes to and the goroutine that *)
(* sends from it, the hub's auction, and the manager that replaces the bot *)
(* while the chats keep the channel they were made with.                   *)
(*                                                                         *)
(* Of what a chat writes only the number of messages matters: whether the  *)
(* channel has room for one more.                                          *)
(***************************************************************************)
EXTENDS Integers, Sequences, FiniteSets

CONSTANTS Chats,       \* Telegram chats
          Auctions,    \* the auctions the hub may show
          Lots,        \* lot numbers: every auction numbers its lots from 1
          Kinds,       \* the updates a user may send
          Inbox,       \* capacity of Chat.in (32)
          Outbox,      \* capacity of a bot's writer (256)
          EnvBot,      \* is the bot connected from the environment?
          MaxUpdates,  \* bound: updates
          MaxBots,     \* bound: connections
          MaxShows,    \* bound: auctions shown or ended
          NoAuction    \* a nil *domain.Auction

Presses == {"lot", "quick", "back"}                \* CallbackQuery
Messages == {"/start", "contact", "sum", "text"}   \* Message

ASSUME SessionAssumption ==
  /\ Lots \subseteq Nat \ {0}
  /\ Kinds \subseteq Presses \union Messages
  /\ {Inbox, Outbox} \subseteq Nat \ {0}
  /\ EnvBot \in BOOLEAN
  /\ {MaxUpdates, MaxBots, MaxShows} \subseteq Nat
  /\ EnvBot => MaxBots > 0
  /\ NoAuction \notin Auctions

VARIABLES at,        \* where each chat's Run is
          inbox,     \* Chat.in
          held,      \* the press a chat is handling
          lot,       \* Chat.currentLot, 0 when none
          writer,    \* Chat.out: the bot whose writer it is
          bot,       \* Manager.bot
          made,      \* the bots made so far: all but Manager.bot are cancelled
          out,       \* messages in each bot's writer
          telegram,  \* the updates Telegram, or a poller's channel, has
          handing,   \* the goroutines chat.SendTo(update)
          auction,   \* Hub.auction
          started,   \* Hub.IsStarted
          lots,      \* the numbers of Hub.lots
          showing,   \* the chats SetActiveAuction has yet to send the lots to
          updates,   \* updates so far
          shows,     \* auctions shown or ended so far
          chosen,    \* history: the lot the user chose last, 0 for none
          sure,      \* history: has each update since been handled before the next?
          within,    \* history: the auction whose keyboard that choice was made on,
                     \*   NoAuction once the hub shows another
          bids       \* history: the bids of users whose meaning is sure, and that meaning

session == <<at, inbox, held, lot, writer>>
bots == <<bot, made>>
hub == <<auction, started, lots, showing, shows>>
user == <<updates, chosen, sure, within>>
vars == <<session, bots, out, telegram, handing, hub, user, bids>>

NoBot == 0
Bots == 1 .. MaxBots
NoLot == 0
Update == [id : 1 .. MaxUpdates, chat : Chats, kind : Presses \union Messages,
           lot : Lots \union {NoLot}]
Bid == [lot : Lots, auction : Auctions \union {NoAuction},
        meant : Lots \union {NoLot}, within : Auctions \union {NoAuction}]
None == [id |-> 0]                                 \* no press is being handled

Init ==
  /\ at = [c \in Chats |-> "absent"]
  /\ inbox = [c \in Chats |-> <<>>]
  /\ held = [c \in Chats |-> None]
  /\ lot = [c \in Chats |-> NoLot]
  /\ writer = [c \in Chats |-> NoBot]
  /\ bot = IF EnvBot THEN 1 ELSE NoBot
  /\ made = bot
  /\ out = [b \in Bots |-> 0]
  /\ telegram = <<>>
  /\ handing = {}
  /\ started \in BOOLEAN
  /\ auction \in IF started THEN Auctions ELSE {NoAuction}
  /\ lots = IF started THEN Lots ELSE {}
  /\ showing = {}
  /\ updates = 0
  /\ shows = 0
  /\ chosen = [c \in Chats |-> NoLot]
  /\ sure = [c \in Chats |-> TRUE]
  /\ within = [c \in Chats |-> NoAuction]
  /\ bids = {}

-----------------------------------------------------------------------------
(***************************************************************************)
(* The user.  Keyboards of earlier auctions and of an earlier run of the   *)
(* program stay on the screen, so any button may be pressed at any time.   *)
(* A button of a lot carries the number alone: of the auction a whose      *)
(* keyboard it is on the program learns nothing.                           *)
(***************************************************************************)
RangeOf(s) == {s[i] : i \in DOMAIN s}
InFlight(c) ==
  {u \in RangeOf(telegram) \union handing \union RangeOf(inbox[c]) \union ({held[c]} \ {None}) :
     u.chat = c}

Send(c, k, n, a) ==
  /\ updates < MaxUpdates                          \* bound
  /\ updates' = updates + 1
  /\ telegram' = Append(telegram, [id |-> updates', chat |-> c, kind |-> k, lot |-> n])
  /\ \/ /\ k \in {"lot", "back", "/start"}
        /\ chosen' = [chosen EXCEPT ![c] = n]
        /\ within' = [within EXCEPT ![c] = IF a = auction THEN a ELSE NoAuction]
        /\ sure' = [sure EXCEPT ![c] = InFlight(c) = {}]
     \/ /\ k \notin {"lot", "back", "/start"}
        /\ sure' = [sure EXCEPT ![c] = @ /\ InFlight(c) = {}]
        /\ UNCHANGED <<chosen, within>>
  /\ UNCHANGED <<session, bots, out, handing, hub, bids>>

-----------------------------------------------------------------------------
(***************************************************************************)
(* The bot.  A cancelled bot's loop and sender may take a few more steps:  *)
(* their selects choose at random while the context is done and there is   *)
(* work, so here they may take a step and need not.                        *)
(***************************************************************************)
Cancelled == (1 .. made) \ {bot}

\* Manager.Connect with the start of the bot's goroutines; Delivery has the
\* steps in between.
Connect ==
  /\ made < MaxBots                                \* bound
  /\ made' = made + 1
  /\ bot' = made'
  /\ UNCHANGED <<session, out, telegram, handing, hub, user, bids>>

Disconnect ==
  /\ bot # NoBot
  /\ bot' = NoBot
  /\ UNCHANGED <<session, made, out, telegram, handing, hub, user, bids>>

\* Faulty variant: the chat is made without the bot's writer.
ReceiveUnwired(b) ==
  /\ b \in 1 .. made
  /\ telegram # <<>>
  /\ at' = [at EXCEPT ![Head(telegram).chat] = IF @ = "absent" THEN "opening" ELSE @]
  /\ handing' = handing \union {Head(telegram)}
  /\ telegram' = Tail(telegram)
  /\ UNCHANGED <<inbox, held, lot, writer, bots, out, hub, user, bids>>

\* A chat is made when there is none, with this bot's writer.
GetChat(c, b) ==
  \/ /\ at[c] = "absent"
     /\ at' = [at EXCEPT ![c] = "opening"]
     /\ writer' = [writer EXCEPT ![c] = b]
  \/ /\ at[c] # "absent"
     /\ UNCHANGED <<at, writer>>

\* The loop takes an update, and a goroutine hands it to its chat.
Receive(b) ==
  /\ b \in 1 .. made
  /\ telegram # <<>>
  /\ GetChat(Head(telegram).chat, b)
  /\ handing' = handing \union {Head(telegram)}
  /\ telegram' = Tail(telegram)
  /\ UNCHANGED <<inbox, held, lot, bots, out, hub, user, bids>>

\* Nothing stops the poller of a cancelled bot, and what it fetched is lost
\* to the bot that follows.
Lose ==
  /\ Cancelled # {}
  /\ telegram # <<>>
  /\ telegram' = Tail(telegram)
  /\ sure' = [sure EXCEPT ![Head(telegram).chat] = FALSE]
  /\ UNCHANGED <<session, bots, out, handing, hub, updates, chosen, within, bids>>

\* A bot's sender takes a message; an error of Telegram is logged.
Sender(b) ==
  /\ out[b] > 0
  /\ out' = [out EXCEPT ![b] = @ - 1]
  /\ UNCHANGED <<session, bots, telegram, handing, hub, user, bids>>

\* Faulty variant: a full channel drops the update.
SendToOrDrop(u) ==
  /\ u \in handing
  /\ inbox' = [inbox EXCEPT ![u.chat] = IF Len(@) < Inbox THEN Append(@, u) ELSE @]
  /\ handing' = handing \ {u}
  /\ UNCHANGED <<at, held, lot, writer, bots, out, telegram, hub, user, bids>>

\* chat.SendTo: the goroutines of two updates may come in either order, and
\* wait while the chat's channel is full.
SendTo(u) ==
  /\ u \in handing
  /\ Len(inbox[u.chat]) < Inbox
  /\ inbox' = [inbox EXCEPT ![u.chat] = Append(@, u)]
  /\ handing' = handing \ {u}
  /\ UNCHANGED <<at, held, lot, writer, bots, out, telegram, hub, user, bids>>

-----------------------------------------------------------------------------
(***************************************************************************)
(* What a chat says.  The select with a default drops the message when the *)
(* channel is full; sendText uses the broadcaster, set only for the bot of *)
(* the environment, before the channel.                                    *)
(***************************************************************************)
Room(c) == out[writer[c]] < Outbox
Waits(c) == Room(c) /\ out' = [out EXCEPT ![writer[c]] = @ + 1]
Push(c, n) ==
  out' = [out EXCEPT ![writer[c]] = IF @ + n <= Outbox THEN @ + n ELSE Outbox]
Say(c) == IF EnvBot THEN UNCHANGED out ELSE Push(c, 1)

\* Faulty variant: the keyboard of active lots waits for room.
OfferBlocking(c) == \/ lots # {} /\ Waits(c)
                    \/ lots = {} /\ Say(c)

\* sendLotsKeyboard: the hub's lots may all be other than active.
Offer(c) == \/ lots # {} /\ Push(c, 1)
            \/ Say(c)

\* sendLotKeyboard: nothing without the lot, and its photo when it has one.
Describe(c, n) == \/ n \in lots /\ \E k \in {1, 2} : Push(c, k)
                  \/ n \notin lots /\ UNCHANGED out

\* addBet, or the answer to a blocked client.  The bid is on the lot that has
\* the current number in the auction shown now.  BidPlacement has PlaceBid;
\* AuctionLifecycle has the hub's auction and its lot read apart.
Bet(c) ==
  \/ Say(c) /\ UNCHANGED bids
  \/ /\ lot[c] \in lots
     /\ bids' = bids \union (IF sure[c] THEN {[lot |-> lot[c], auction |-> auction,
                                              meant |-> chosen[c], within |-> within[c]]}
                                        ELSE {})
     /\ IF Room(c) THEN Push(c, 1) ELSE Say(c)

-----------------------------------------------------------------------------
(***************************************************************************)
(* The chat's goroutine.                                                   *)
(***************************************************************************)
Move(c, from, to) == at[c] = from /\ at' = [at EXCEPT ![c] = to]
Take(c) == inbox[c] # <<>> /\ inbox' = [inbox EXCEPT ![c] = Tail(@)]

\* GetByTgID, answered by the directory: a known client's first update, if
\* it is there already, is thrown away.
Open(c) ==
  /\ \/ Move(c, "opening", "asking") /\ UNCHANGED inbox
     \/ /\ Move(c, "opening", "greeting")
        /\ inbox[c] # <<>> => Take(c)
        /\ inbox[c] = <<>> => UNCHANGED inbox
  /\ UNCHANGED <<held, lot, writer, bots, out, telegram, handing, hub, user, bids>>

\* Only a contact ends the authorisation; ClientDirectory has what follows.
Ask(c) ==
  /\ Take(c)
  /\ Move(c, "asking", IF Head(inbox[c]).kind = "contact" THEN "greeting" ELSE "prompting")
  /\ UNCHANGED <<held, lot, writer, bots, out, telegram, handing, hub, user, bids>>

\* The request for the phone and the greeting wait for room in the channel.
Prompt(c) ==
  /\ \/ Move(c, "prompting", "asking")
     \/ Move(c, "greeting", "checking")
  /\ Waits(c)
  /\ UNCHANGED <<inbox, held, lot, writer, bots, telegram, handing, hub, user, bids>>

Check(c) ==
  /\ \/ started /\ Move(c, "checking", "offering") /\ UNCHANGED out
     \/ ~started /\ Move(c, "checking", "waiting") /\ Say(c)
  /\ UNCHANGED <<inbox, held, lot, writer, bots, telegram, handing, hub, user, bids>>

\* An update, or a look at the auction every three seconds.
Wait(c) ==
  /\ \/ Take(c)
     \/ inbox[c] = <<>> /\ started /\ UNCHANGED inbox
  /\ \/ started /\ Move(c, "waiting", "offering") /\ UNCHANGED out
     \/ ~started /\ Move(c, "waiting", "waiting") /\ Say(c)
  /\ UNCHANGED <<held, lot, writer, bots, telegram, handing, hub, user, bids>>

\* Faulty variant: updates are handed over under the hub's mutex, which the
\* keyboard needs.
OfferLotsUnderLock(c) ==
  /\ handing = {}
  /\ Move(c, "offering", "menu")
  /\ Offer(c)
  /\ UNCHANGED <<inbox, held, lot, writer, bots, telegram, handing, hub, user, bids>>

OfferLots(c) ==
  /\ Move(c, "offering", "menu")
  /\ Offer(c)
  /\ UNCHANGED <<inbox, held, lot, writer, bots, telegram, handing, hub, user, bids>>

\* Faulty variant: /start offers the lots and keeps the current one.
HandleKeepingLot(c) ==
  /\ at[c] = "menu"
  /\ Take(c)
  /\ LET u == Head(inbox[c]) IN
       \/ /\ u.kind = "/start"
          /\ Offer(c)
          /\ UNCHANGED <<at, lot, held, bids>>
       \/ /\ u.kind = "sum" /\ lot[c] # NoLot
          /\ Bet(c)
          /\ UNCHANGED <<at, lot, held>>
       \/ /\ u.kind \in Presses
          /\ held' = [held EXCEPT ![c] = u]
          /\ at' = [at EXCEPT ![c] = "deleting"]
          /\ UNCHANGED <<lot, out, bids>>
  /\ UNCHANGED <<writer, bots, telegram, handing, hub, user>>

\* The main loop takes an update: a message is answered, or only recorded;
\* a press goes on to Delete.
Handle(c) ==
  /\ at[c] = "menu"
  /\ Take(c)
  /\ LET u == Head(inbox[c]) IN
       \/ /\ u.kind = "/start"
          /\ lot' = [lot EXCEPT ![c] = NoLot]
          /\ Offer(c)
          /\ UNCHANGED <<at, held, bids>>
       \/ /\ u.kind = "sum" /\ lot[c] # NoLot
          /\ Bet(c)
          /\ UNCHANGED <<at, lot, held>>
       \/ /\ u.kind \in {"text", "contact"} \/ (u.kind = "sum" /\ lot[c] = NoLot)
          /\ UNCHANGED <<at, lot, held, out, bids>>
       \/ /\ u.kind \in Presses
          /\ held' = [held EXCEPT ![c] = u]
          /\ at' = [at EXCEPT ![c] = "deleting"]
          /\ UNCHANGED <<lot, out, bids>>
  /\ UNCHANGED <<writer, bots, telegram, handing, hub, user>>

\* The deletion of the pressed keyboard waits for room in the channel.
Delete(c) ==
  /\ Move(c, "deleting", "acting")
  /\ Waits(c)
  /\ UNCHANGED <<inbox, held, lot, writer, bots, telegram, handing, hub, user, bids>>

\* A quick-bid button carries the sum alone: the bid is on the current lot,
\* which may not be the one the button was made for.
Act(c) ==
  /\ Move(c, "acting", "menu")
  /\ held' = [held EXCEPT ![c] = None]
  /\ \/ /\ held[c].kind = "lot"
        /\ lot' = [lot EXCEPT ![c] = held[c].lot]
        /\ Describe(c, held[c].lot)
        /\ UNCHANGED bids
     \/ /\ held[c].kind = "quick"
        /\ Bet(c)
        /\ UNCHANGED lot
     \/ /\ held[c].kind = "back"
        /\ lot' = [lot EXCEPT ![c] = NoLot]
        /\ Offer(c)
        /\ UNCHANGED bids
  /\ UNCHANGED <<inbox, writer, bots, telegram, handing, hub, user>>

ChatStep(c) == \/ Open(c)
               \/ Ask(c)
               \/ Prompt(c)
               \/ Check(c)
               \/ Wait(c)
               \/ OfferLots(c)
               \/ Handle(c)
               \/ Delete(c)
               \/ Act(c)

-----------------------------------------------------------------------------
(***************************************************************************)
(* The admin: SetActiveAuction offers the lots to every chat, one by one.  *)
(* It leaves the chats' current lots alone.                                *)
(***************************************************************************)
Show(a, L) ==
  /\ shows < MaxShows                              \* bound
  /\ showing = {}
  /\ shows' = shows + 1
  /\ auction' = a
  /\ started' = TRUE
  /\ lots' = L
  /\ showing' = {c \in Chats : at[c] # "absent"}
  /\ within' = [c \in Chats |-> IF within[c] = a THEN a ELSE NoAuction]
  /\ UNCHANGED <<session, bots, out, telegram, handing, updates, chosen, sure, bids>>

ShowTo(c) ==
  /\ c \in showing
  /\ showing' = showing \ {c}
  /\ Offer(c)
  /\ UNCHANGED <<session, bots, telegram, handing, auction, started, lots, shows, user, bids>>

End ==
  /\ started
  /\ shows < MaxShows                              \* bound
  /\ shows' = shows + 1
  /\ started' = FALSE
  /\ lots' = {}
  /\ UNCHANGED <<session, bots, out, telegram, handing, auction, showing, user, bids>>

Next ==
  \/ \E c \in Chats, k \in Kinds \ {"lot"} : Send(c, k, NoLot, NoAuction)
  \/ \E c \in Chats, k \in Kinds \cap {"lot"}, n \in Lots, a \in Auctions : Send(c, k, n, a)
  \/ Connect
  \/ Disconnect
  \/ Lose
  \/ \E b \in Bots : Receive(b) \/ Sender(b)
  \/ \E u \in handing : SendTo(u)
  \/ \E c \in Chats : ChatStep(c) \/ ShowTo(c)
  \/ \E a \in Auctions, L \in SUBSET Lots : Show(a, L)
  \/ End

Spec == Init /\ [][Next]_vars

\* The runtime runs every goroutine that can go on, and Telegram answers.
\* Nothing makes a user write or an admin connect, disconnect, show or end.
Fairness ==
  /\ \A b \in Bots : WF_vars(b = bot /\ Receive(b)) /\ WF_vars(b = bot /\ Sender(b))
  /\ \A c \in Chats : /\ WF_vars(\E u \in handing : u.chat = c /\ SendTo(u))
                      /\ WF_vars(ChatStep(c))
                      /\ WF_vars(ShowTo(c))

FairSpec == Spec /\ Fairness

-----------------------------------------------------------------------------
States == {"absent", "opening", "asking", "prompting", "greeting", "checking",
           "waiting", "offering", "menu", "deleting", "acting"}

\* Types and capacities; a chat that exists has the writer of a bot that was
\* made, a press is in hand exactly while the chat deletes and acts on it, and
\* a chat that has not come to its menu has no current lot.
SessionTypeOK ==
  /\ at \in [Chats -> States]
  /\ inbox \in [Chats -> Seq(Update)]
  /\ held \in [Chats -> Update \union {None}]
  /\ \A c \in Chats : /\ Len(inbox[c]) <= Inbox
                      /\ held[c] # None <=> at[c] \in {"deleting", "acting"}
                      /\ writer[c] # NoBot <=> at[c] # "absent"
                      /\ lot[c] # NoLot => at[c] \in {"menu", "deleting", "acting"}
  /\ lot \in [Chats -> Lots \union {NoLot}]
  /\ writer \in [Chats -> 0 .. made]
  /\ made \in 0 .. MaxBots
  /\ bot \in {made, NoBot}
  /\ out \in [Bots -> 0 .. Outbox]
  /\ telegram \in Seq(Update)
  /\ handing \subseteq Update
  /\ \A u \in handing : at[u.chat] # "absent"
  /\ started \in BOOLEAN
  /\ auction \in Auctions \union {NoAuction}
  /\ lots \subseteq Lots
  /\ showing \subseteq {c \in Chats : at[c] # "absent"}
  /\ updates \in 0 .. MaxUpdates
  /\ shows \in 0 .. MaxShows
  /\ chosen \in [Chats -> Lots \union {NoLot}]
  /\ sure \in [Chats -> BOOLEAN]
  /\ within \in [Chats -> Auctions \union {NoAuction}]
  /\ bids \subseteq Bid

\* A user who lets each update be handled before the next bids on the number
\* chosen last, whatever the button or the sum typed, over reconnections,
\* auctions that end and start, and a first update that is thrown away; and on
\* the very lot chosen as long as the hub shows the auction it was chosen in.
\* No more than that: the number is kept when another auction is shown, and
\* the bid is then on the lot of that number there (Chat.currentLot against
\* chat.go:162-211 and hub.go:48-63).
BidOnChosenLot ==
  \A b \in bids : b.lot = b.meant /\ b.within \in {b.auction, NoAuction}

\* The chats' goroutines and the channels between them are the talk of
\* Conversation: an update is taken up once, by the chat it is for, though it
\* passes a bot's poller, a goroutine and two channels; once the chat is at
\* its menu none is thrown away.
Placed == {[lot |-> b.lot, auction |-> b.auction, meant |-> b.meant] : b \in bids}

Talk == INSTANCE Conversation WITH
  wrote <- updates,
  due <- [c \in Chats |-> InFlight(c)],
  talking <- {c \in Chats : at[c] \in {"menu", "deleting", "acting"}},
  open <- lots,
  replaced <- Cancelled # {},
  bids <- Placed

ImplementsConversation == Talk!Spec

\* The admin who starts an auction gets an answer, even when the channel of
\* a chat is full and nobody empties it any more (hub.go:60, chat.go:278).
AdminNeverWaits == showing # {} ~> showing = {}

\* As long as no bot was replaced or disconnected, whatever a user sends is
\* taken up by the chat, however full the channels between them.
EveryUpdateTaken ==
  \A c \in Chats : (InFlight(c) # {} /\ bot # NoBot) ~> (InFlight(c) = {} \/ Cancelled # {})

\* "connect/disconnect the bot from the admin panel without restart": once a
\* bot is connected, what a chat wrote is sent, or the bot is disconnected.
Unsent(c) == at[c] # "absent" /\ out[writer[c]] > 0
ChatHeard == \A c \in Chats : (bot # NoBot /\ Unsent(c)) ~> (~Unsent(c) \/ bot = NoBot)
=============================================================================
