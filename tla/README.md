# A formal model of publika-auction

TLA+ modules, TLC runs and TLAPS proofs for the auction service of this
repository: a Telegram bot takes bids on the lots of one active auction, an
admin panel starts auctions, sells lots, cancels bids and pulls lots. MongoDB
holds the documents, Redis a lock per lot, and the process an in-memory cache
from which every bid is judged.

Paths below are relative to `src/`; `service/…`, `hub/…` and the like stand for
`internal/service/…` and so on.

## The system

| Component | State it keeps | Operations | Talks to |
|---|---|---|---|
| bid service `service/bid/service.go` | none of its own | PlaceBid, SellLot, CancelBid, HydrateLot | bid cache, Redis lock, bids and lots collections, notifier, event hub |
| bid cache `repo/cache/bid_cache.go` | a `LotState` per auction and lot | Get, Set | – |
| Redis lock `lock/redis_lock.go` | `lock:<auction>:<lot>` with a random token and a TTL of 500 ms | Acquire (SETNX), Release (compare and delete) | Redis |
| auction service `service/auction/service.go` | auction documents | Create, Activate, End, GetActiveAuction | bid service (hydration), events |
| lot service `service/lot/service.go` | lot documents | Create, Pull | – |
| admin handlers `admin/handlers/` | the pages browsers show | one handler per button | services, hub |
| hub `hub/hub.go` | the active auction and its lots as the bot shows them; the chats | SetActiveAuction, GetChat, SendToAll | chats |
| chat `hub/chat.go` | one goroutine per chat: a channel of 32 updates, its client, its current lot, the channel it writes to | Run, addBet, keyboards | hub, bid service, client service, the bot it was made by |
| de-duplication `tgqueue/dedup.go` | one pending text and timer per chat | Send | send queue |
| send queue `tgqueue/queue.go` | a channel of 1000 texts, 3 workers | Enqueue, sendWithRetry | Telegram |
| bot and manager `tg/` | the running bot, its poller, its writer channel of 256 messages | Connect, Disconnect, Start | hub, queue, Telegram |
| client service `service/client/service.go`, `repo/cache/client_cache.go` | clients by phone and by chat | lookups, RegisterOrUpdate, Block, LoadAll, messages | clients collection |
| event hub `admin/handlers/sse.go` | a channel of 32 events per browser | Publish, subscribe, unsubscribe | browsers |
| `cmd/main.go` | – | bot of the environment, loading of the clients, restore of the active auction, shutdown | all |

Of the middleware only the response writer it wraps matters to the rest (the
event feed needs to flush it). Everything else (sessions, metrics,
configuration, templates, test doubles) shares no state with the above;
`PROJECT.json` lists it.

What is hard here:

* **Concurrency.** Every chat and every admin request is a goroutine. PlaceBid
  alone takes the lock; SellLot, CancelBid and HydrateLot read and write the
  same cache entries without it.
* **Time.** The lock's key expires after 500 ms, whether or not its section has
  ended, and nothing renews it or notices.
* **Failure.** A Redis or MongoDB call may fail, with or without effect. Several
  failures are only logged. The insert of a bid runs after its bidder was told
  it is accepted.
* **Restart.** The cache dies with the process and is rebuilt from the lots.
* **Stale pages and buttons.** An admin clicks what the browser shows, and the
  handlers check little of it again; a user presses a button of any earlier
  keyboard.
* **Copies.** A client lives in two maps, in a document, in the variables of
  chats and handlers and in the goroutines that store it, with nothing held from
  a read to the write that follows.
* **Full channels.** Some sends drop what finds no room, some wait; who waits
  for whom must not close a circle.

What makes each component correct: the lock excludes and is never leaked; one
bid wins a price and none is lost; events and notices follow the bids; sales
name real bids; a cancelled bid stays cancelled; at most one auction is active
and the bot offers lots that can be bid on; a chat bids in its own name, for the
lot it chose, and not once its client is blocked; nothing a user sends is
forgotten and nobody who publishes is held up. `PROJECT.json` lists each hazard
at its line with the properties that would notice it.

## The modules

| Module | Models |
|---|---|
| `LotAuction` | the abstract auction of a lot: a price, a leader, a round, who was told |
| `BidPlacement` | PlaceBid over the cache, the lock, the insert and notification goroutines, the events |
| `BidPlacementProofs` | the theorems about `BidPlacement` |
| `LotDesk` | extends `BidPlacement` with selling, cancelling, pulling, starting and a restart |
| `LotDeskProofs` | the theorems about `LotDesk`; extends `BidPlacementProofs` |
| `AuctionHouse` | the abstract house: auctions that start and end, lots numbered in order, bids |
| `AuctionLifecycle` | auctions from draft to ended, their lots, the hub, addBet, a restart |
| `AuctionLifecycleProofs` | the theorems about `AuctionLifecycle` |
| `Outbox` | what the way to Telegram promises of a text: staged, held, ended once |
| `Delivery` | the texts' way to Telegram: de-duplicator, timers, send queues, workers, the manager that replaces the bot |
| `DeliveryProofs` | the theorems about `Delivery` |
| `ClientDirectory` | the clients: maps, collection, upserts, lookups, a chat's way to its bids, Block, LoadAll, restarts |
| `ClientDirectoryProofs` | the theorems about `ClientDirectory` |
| `Conversation` | what a user may count on: updates answered once at the most, a menu that ignores none |
| `ChatSession` | a chat's goroutine, the channels before and after it, the bot's loop, the hub's offers, a reconnection |
| `ChatSessionProofs` | the theorems about `ChatSession` |
| `Broadcast` | the abstract feed: an event offered to all subscribers at once, kept in order |
| `EventFeed` | the hub of server-sent events: publishers, requests, their channels |
| `EventFeedProofs` | the theorems about `EventFeed` |
| `MC…` | the instances TLC checks |

### BidPlacement

One action per access to shared state; what lies between two accesses is local
to the goroutine.

| Action | Code in `service/bid/service.go` |
|---|---|
| `PlaceBid` | the cache read at 99 and the early returns at 101–111 |
| `TryLock`, `AcquireFails` | Acquire at 115 and its two refusals at 117–119 |
| `Recheck` | the second read and check at 124–128 |
| `Store` | 130–160: the state written back, both goroutines started |
| `Publish` | 165–176, still under the lock |
| `Release`, `ReleaseFails` | the deferred Release of 121, the script of `lock/redis_lock.go` |
| `Expire` | the TTL of 115, in Redis |
| `InsertDone`, `InsertFails` | the goroutine at 152–156 |
| `Hydrate` | the first HydrateLot of a lot, 251–274 |

`hydrated` and `cache` are `BidCache.states`; `lock` is the Redis key; `seen` is
PlaceBid's local variable `state`; `bids` is the history of accepted bids and
has no counterpart in memory, and a bid's ID is its position there. One chat
stands for ClientID and TgUserID, which a chat always sends together. Additions
wrap as Go's `int` does (`Plus`). A lock token is the chat that drew it: tokens
are 16 random bytes, taken as never repeated, and a chat has one request at a
time.

`LotAuction` says what this adds up to: opening a lot sets its price, and
raising it changes price and leader, counts the round and tells the displaced
leader, in one step. Read over the cache, `Store` is that step and every other
action but `Hydrate` is a stutter (`ImplementsLotAuction`).

### LotDesk

The admin handlers beside the bids: `Load` (a page is rendered), `Start`,
`Activate`, `HydrateRead`/`HydrateWrite`, `Sell`/`SellRead`/`SellWrite`,
`Cancel`/`CancelRead`/`CancelWrite`, `Pull`/`PullWrite` and `Restart`. Each
handler is cut between its read and its write of the cache or of a document,
because nothing keeps a bid or another handler out in between. Clicks come from
`pages`, so a stale button is a legal click, and any admin may click Start.
With `Faults` every call of a handler may fail, a write with or without effect;
a list of lots that fails leaves those read before it to be hydrated. `Restart`
drops everything in memory and hydrates the lots of an active auction as
`cmd/main.go` does: all, some, or none if the auction cannot be read; Redis,
MongoDB and the browsers stay. `Congratulate` is the notification at the end of
SellLot, which a lot without an entry does not keep from being sent. The desk
has one auction: those that Activate ends first are `AuctionLifecycle`'s.

### AuctionLifecycle

`created`, `status` and `lots` are MongoDB's; `entries` the keys of the bid
cache; `hub` the hub's auction and lots; `task` the handler each admin waits
for; `chat` how far each chat's addBet is. `Start`, `List`, `EndOther`,
`Activate` (with `MarkActive`), `Hydrate`, `Relist` and `Show` are the steps of
a Start click, `End` and `Close` those of an End click, `AddLot`, `CreateLot`,
`HydrateLot`, `Relist` and `Show` those of a new lot, `ReadAuction`, `ReadLot`
and `PlaceBid` those of addBet. PlaceBid is one step here and may refuse or
accept whenever the lot has an entry: `BidPlacement` says which. `logged` keeps
which failures were logged or shown to the admin, so that properties can say
"unless that failed". Two more histories name the races of handlers that hold no
lock: `crossed` has the pairs of auctions whose Starts overlapped, each past its
list when the other became active, and `late` the auctions that got a lot by an
AddLot that had found them not active while they were. `IsNewest` is
GetActiveAuction, which takes the first active one of a list sorted by age.
`Listed` is a list whose error is ignored: only what was read before it counts,
and the unique index on the lots' numbers refuses a number taken twice. The
service's list and hydration of the lots are one step: between them nothing else
touches the entries of those lots.

`AuctionHouse` keeps only what is stored for good: the auctions, their status,
their lots and the accepted bids. `CreateLot` is its `AddLot`, `Activate` its
`Start`, `EndOther` and `End` its `End`, `PlaceBid` its `Bid`; pages, hub, cache,
handlers and restarts are stutters (`ImplementsAuctionHouse`).

### Delivery

Every connection makes a bot with a queue, workers and a de-duplicator of its
own, so these are indexed by the number of the connection; `wired` says through
which of them the bid service, the client service and the hub send.

| Action | Code |
|---|---|
| `Connect`, `ConnectFails`, `Link`, `Launch`, `Disconnect` | `tg/manager.go`: the old bot cancelled, the new one authorised by Telegram, the two notifiers set one after the other, the goroutine started |
| `Begin`, `LoopStops`, `DrainOut` | `tg/bot.go`, Start and its loop over hub.Out |
| `Notify` | `go s.notifier.Send(...)` of PlaceBid and SellLot: the notifier is read now, the goroutine runs later |
| `SendMessage`, `SendToAll` | an admin's message and one client's turn in a broadcast, straight into a channel |
| `DedupSend`, `Fire`, `Callback`, `HandOn` | `tgqueue/dedup.go`: Send under the mutex, a timer that runs out, its callback under the mutex and after it |
| `Take`, `Attempt`, `Resume`, `GiveUp`, `Quit` | `tgqueue/queue.go`: a worker, its attempts and backoffs |

A text is a number; `sent`, `logged`, `replaced` and `lost` keep how it ended.
An entry of `pending` is named by the text that opened it: its callback removes
whatever entry its chat has by then. Reset on a timer that has fired arms it
again (`armed`), so several callbacks of one entry may wait at once. `channel`
of `NoBot` is hub.Out.

`Outbox` has the texts and their ends and nothing else. `Send`, `SendMessage` and
`SendToAll` accept a text, an attempt that succeeds delivers it, the last refusal
gives it up, Send over a waiting entry makes the older text give way, and what a
cancelled bot leaves behind is lost; timers, entries, channels and workers are
stutters (`ImplementsOutbox`).

### ClientDirectory

A lookup, a registration and a Block are cut at each access to a map or to the
collection. A record is its phone, its chat, its ID and whether it is blocked.

| Action | Code |
|---|---|
| `Hello`, `Find`, `Fill` | the GetByTgID at the head of Run, `hub/chat.go`: the map, the query after a miss, the record set in the maps |
| `Share`, `Look`, `Merge` | the contact that ends the authorisation: GetByPhone likewise, and the chat that takes the record over |
| `Register`, `Upsert` | RegisterOrUpdate: the ID, the maps, and the goroutine that replaces the document |
| `Judge`, `Bid` | a sum or a quick bid: the client read again and its block looked at; then, with the phone that was judged, the PlaceBid that `addBet` reaches after its reads of the hub |
| `View`, `ViewRead`, `ViewFill` | the page of a client, whose miss fills the maps |
| `Block`, `BlockSet`, `BlockUpdate` | Block: the cached record, the maps, the document |
| `List`, `LoadSet`, `LoadEnds` | LoadAll at the start, beside a bot of the environment that already runs |
| `Restart` | the end of the process: maps, goroutines and pages go, the collection stays |

`Accepted` is what MongoDB refuses in an upsert: a document's `_id` does not
change and a chat belongs to one document. An error of a read is taken for "not
found" by the code, and so by `Find`, `Look` and `ViewRead`. `shared` and `bids`
are history.

### ChatSession

| Action | Code |
|---|---|
| `Send` | a user: any button of any keyboard still on the screen, or a message |
| `Connect`, `Disconnect` | `tg/manager.go` in one step each; `Delivery` has those in between |
| `Receive`, `Lose`, `Sender` | `tg/bot.go`: the loop that hands updates over, the poller that goes on after its bot, the sender that empties the writer channel |
| `SendTo` | the goroutine of one update, which waits for room in the chat's channel |
| `Open`, `Ask`, `Prompt` | Run: the client looked up, the phone asked for until a contact comes, the greeting |
| `Check`, `Wait`, `OfferLots` | Run: waiting for an auction, by an update or every three seconds |
| `Handle`, `Delete`, `Act` | the main loop: a message, or a press whose keyboard is deleted and which is then acted on |
| `Show`, `ShowTo`, `End` | SetActiveAuction and its offers to the chats, the hub cleared |

What a chat writes is counted, not kept: only whether its channel has room
matters. `Waits` is a plain send, `Push` a select with a default, `Say` sendText
with its two ways. The bot whose writer a chat got with its first update stays
in `writer`. A cancelled bot's loop and sender may still take a step and need
not. `chosen` is the lot of the user's last choice; `sure` says that every update
since was handled before the next was sent, without which a user cannot know
what a button will act on. A button carries a lot's number and no auction, and a
chat keeps its number when the hub shows another auction: `within`, the auction
whose keyboard that choice was made on, is history too and is `NoAuction` once
the hub has shown another since.

`Conversation` has neither channels nor goroutines: what a user has written is
due until it is answered (`due` is whatever is with Telegram, in a goroutine's
hands, in the chat's channel or being handled), `talking` are the chats at their
menu, and only a replaced bot loses an update (`ImplementsConversation`).

### EventFeed

`RLock`, `Offer` and `RUnlock` are Publish, one channel of the map at a time;
`Request`, `Subscribe`, `Write`, `Go`, `Leave` and `Unsubscribe` are ServeHTTP,
with the client that may go at any time. A closed channel is one that is no
longer in `subs`; what `owed` and `dropped` keep is history. `Wrapped` says
whether the response writer is the one of the metrics middleware, which has no
Flush: it is in the program, so that the handler answers every request with an
error. `Wrapped = FALSE` is the handler with a writer that can flush, the one
`handlers/sse.go` is written for.

`Broadcast` offers an event to all subscribers in one step: `RLock` is its
`Publish`, each `Offer` a `Get` or a `Lose`, `Write` a `Read`, `Subscribe` and
`Unsubscribe` a `Join` and a `Leave`. What a subscriber got is what its handler
wrote followed by its channel (`ImplementsBroadcast`).

## The runs

| Run | Instance | Shows |
|---|---|---|
| `placement` | 3 chats, 1 lot, 4 sums, 3 bids, any call may fail | exclusion, one winner per price, events in order, `LotAuction`: no update lost and the displaced leader told |
| `placement_live` | 3 chats, 1 lot, 2 bids, fair, no failures, sections that may outlive their key | no leaked key, none deleted by another, a "busy" answer only when another is inside, a contest that ends with a bid, every accepted bid inserted |
| `desk` | 2 chats, 2 admins, 3 clicks or restarts, failures | sale records, leaders, the floor, notices, cancelled bids and the feed stay consistent |
| `lifecycle` | 2 auctions of 1 lot, 2 admins, 1 chat, 2 clicks and 1 restart, failures of one kind in a behaviour | one active auction, no bid in a draft, offered lots can be bid on, `AuctionHouse`: bids on own lots only |
| `delivery` | 1 chat, 2 texts, 2 workers, 2 connections, refusals, fair | no text doubled or lost unnoticed, no entry without a timer, texts that settle, goroutines that end, `Outbox` |
| `directory` | 2 chats, 2 phones, 1 admin, 2 IDs, a restart, reads and writes that fail, the bot of the environment | bids in one's own name, a block that holds, an ID that stays, a lookup before a bid that never misses |
| `session` | 1 chat, 2 auctions of 2 lots, shown or ended twice, 3 updates (a lot, a sum, a quick sum, back, `/start`), 1 bot, channels of one place | bids on the lot chosen, and in the auction it was chosen in unless another was shown since |
| `session_live` | 1 chat, 1 auction of 1 lot, 3 updates (a contact, a lot, a quick sum), 2 bots, channels of one place, fair | an admin who is answered, updates that are taken up, `Conversation`: none answered twice or thrown away by a chat at its menu |
| `feed` | 2 publishers with 2 events each, 2 requests, channels of one place, a writer that flushes, fair | publishers that go on, `Broadcast`: no send on a closed channel, losses only from one's own full channel, events in their publisher's order |
| `restart`, `chat_silent`, `feed_refused` | the smallest instance that shows it | that the code does not keep what the README says (below) |

Bounds. `MaxBids`, `MaxClicks`, `MaxLogged`, `MaxLots`, `MaxTexts`, `MaxIds`,
`MaxRestarts`, `MaxUpdates`, `MaxBots`, `MaxShows` and `MaxEvents` are guards of
the actions that would pass them; `Amounts` and the sets of chats, lots and
admins are finite. Three chats are enough for one inside the section, one
waiting at the lock with a price checked earlier, and one arriving, and three
bids for a leader displaced by a bidder who is displaced in turn; lots share
nothing in `BidPlacement`, so one is checked and the theorems cover any number.
With fairness two bids are enough: two of the three chats meet at the lock, or
one follows the other through a key that has expired. Two admins and three
clicks after the page is loaded allow a start and two operations that overlap
each other and the bids. Two clicks on auctions are two Starts that overlap, or
a Start with an End, each beside the AddLots and the Creates, which are not
counted, and a restart before, between or after them. One logged failure is
enough for each of the exceptions the properties make. The sums include some
that tie, some within a step of another and some below the floor. Chats, phones,
and in the runs without liveness auctions and admins too where nothing tells
them apart, are symmetric.

Each exception was seen to be needed: without `crossed` `AtMostOneActive` is
violated in the run, without `late` `ShownLotsBiddable` is. That `ShownLotsBiddable`
needs `crossed` shows only with a third click, the one that shows an auction
again which the restart has passed over; the theorem covers it.

In `Delivery` a chat's texts meet only its own entry and a worker, so one chat
is enough; two texts of it meet in an entry, in a channel of capacity one and
in two workers, and two attempts make a retry and a last one. That a third text
may find an entry whose timer is an older one's is left to the theorem, which
holds for any number.

In `ClientDirectory` two chats over two phones share one phone, two, or take
each other's; two IDs are the client's own and the one a misread draws; one
restart gives a cache that is filled from documents older than a block. One admin
views or blocks while the chats register and bid.

In `ChatSession` chats share the bots' channels and the hub only. One chat with
channels of one place fills each of them: a second update waits for the chat, a
second message for the sender. Three updates are a contact, a lot and a bid, or
a first update thrown away, a lot and a bid, or two choices and a bid. Two
auctions of two lots, and two changes of what the hub shows, let a chosen number
stay, be carried into the other auction, come back to its own, or name no lot.
That, and reconnections with liveness and the refinement, are two questions and
two runs, for together they pass the time one has. That no chat answers another's
updates cannot be seen with one chat: it is a part of `ImplementsConversation`
that rests on the theorem `SessionConverses`, as more lots and updates do. In
`EventFeed` two requests make one that reads and one that does not, and two
publishers hold the mutex together; two events overflow a channel of one.

The `lifecycle` run has one lot per auction, so there the numbering of lots in
`AuctionHouse` is a matter of the first number alone: two lots beside two
auctions pass the time a run has. `HouseKept` proves it for any number.
`NoLostUpdate`, `OutbidTold`, `BidOnOwnLot`, `NeverCrashes`, `OnlyOwnLosses` and
`FeedInOrder` are implied by the refinements and are proved as theorems of their
own; `NoticeSurvives` and `MapsAgree` are proved only.

Fairness. A goroutine that can run does, a database call returns, with an error
or without, and Redis removes an expired key. A bid, a click, a failure, an
update, a connection and the end of a request are never obliged to happen. Each
chat's step is weakly fair on its own because each is a goroutine that no other
can disable for ever: TryLock answers at once, whichever way. `Expire` is weakly
fair because the TTL was set with the key; a key whose section has outlived it
is removed all the same (`Stalls = TRUE` in `placement_live`). Nothing obliges a
call to fail, and that run has none that does: an accepted bid whose insert
fails is only logged, and then `EveryBidInserted` is not kept. In `Delivery`
goroutines and workers run, timers run out and calls return; Telegram may refuse
every attempt. A worker that could take a text or leave leaves in the end
because texts run out; in the program because Go's select picks at random. In
`ChatSession` only the bot that is connected must receive and send; one of its
updates' goroutines and the chat itself run while they can. In `EventFeed` a
client may stop reading for ever, so `Write` is not fair, and `PublishEnds`
holds all the same.

### What the code does not keep

| Run | What happens |
|---|---|
| `restart` | The restored lots start from their starting price; the bids in MongoDB are not read. |
| `chat_silent` | A chat keeps the writer channel of the bot it was made by: after a reconnection from the panel nothing it writes is sent, and once that channel is full it waits for ever. |
| `feed_refused` | The middleware's response writer cannot flush: every request for the live feed is answered 500. |

Met while modelling and in the models, without a run of its own:

* A section that outlives its key lets another chat check and take the same
  price (`Stalls = TRUE` breaks `OneWinnerPerPrice`).
* CancelBid writes back a state read before a bid, and the bid is gone from the
  cache; so do a sale and a second Start (HydrateLot of an entry that exists),
  which may also put a bid cancelled meanwhile back in the lead.
* A sold lot still takes bids, since `ErrLotSold` is returned nowhere.
* Two Starts that overlap leave two auctions active (`crossed`), of which only
  the newest is hydrated and shown after a restart.
* A lot added to a draft while another admin starts it is stored but not
  hydrated (`late`): it is offered, and answered "try again".
* A bid judged before its client was blocked still goes out.
* A chat's current lot is a number and is kept when another auction is shown
  (`hub/hub.go:48-63` does not reset it, `hub/chat.go:205-211` looks it up anew): a
  sum typed then is a bid on the lot of that number in the new auction.
  `BidOnChosenLot` promises the auction only while the hub shows the one the lot
  was chosen in.
* The hub's broadcasts keep going to the first bot's queue after a reconnection.

## The proofs

All proofs hold for every value of the constants that satisfies the module's
assumption.

| Module | Theorem | Assumes | Says |
|---|---|---|---|
| `BidPlacementProofs` | `TypeCorrect` | – | `TypeOK` |
| | `LockExcludes` | `Stalls = FALSE` | `MutualExclusion`, whatever calls fail |
| | `LockNotLeaked` | `Faults = FALSE` | `NoLockLeak`, even when sections outlive their keys |
| | `BusyJustified` | `Faults = FALSE` | `BusyMeansContended` |
| | `ReleaseIsOwn` | – | `NoForeignRelease`: the script's comparison is enough |
| | `PriceCorrect` | `Stalls = FALSE`, `NoOverflow` | `OneWinnerPerPrice` |
| | `NothingLost` | the same | `NoLostUpdate` |
| | `EventsOrdered` | the same | `EventsInOrder` |
| | `DisplacedTold` | the same | `OutbidTold` |
| | `Refinement` | the same | `ImplementsLotAuction` |
| `LotDeskProofs` | `DeskTypeCorrect` | – | `DeskTypeOK`: pages and handlers name bids of MongoDB |
| | `SaleRecorded` | – | `SaleRecordConsistent` |
| | `LeaderCorrect` | – | `LeaderIsReal` |
| | `FloorHeld` | `NoOverflow` | `FloorHeldUntilCancel` |
| | `NoResurrection` | – | `OnlyASaleResurrects`: a sale, or a second Start that writes back what it read |
| | `RestartExcludes` | `Stalls = FALSE` | `MutualExclusion` at the desk, restarts included |
| | `ToldRightly` | – | `NoticesReal` |
| | `AnnouncedRightly` | `Stalls = FALSE` | `AnnouncedInOrder`: the feed has the bids in order over every desk operation and restart |
| `AuctionLifecycleProofs` | `LifecycleTypeCorrect` | – | `LifecycleTypeOK` |
| | `OwnLot` | – | `BidOnOwnLot` |
| | `NoDraftBid` | – | `NoBidInDraft` |
| | `OneActive` | – | `AtMostOneActive`: any number of admins start and end auctions, and only a failed end or an overlap of two Starts leaves two active |
| | `OfferedBiddable` | – | `ShownLotsBiddable`, up to the failures and the two races it names |
| | `HouseKept` | – | `ImplementsAuctionHouse`, for any number of admins |
| `DeliveryProofs` | `DeliveryTypeCorrect` | – | `DeliveryTypeOK`, the capacities and the number of attempts included |
| | `TimerNeverLost` | – | `EntryHasTimer`: no pending text is forgotten |
| | `ServicesFollow` | – | `ServicesFollowBot` |
| | `TextsOnce` | – | `EachTextOnce`: no text twice, none vanished |
| | `DeliveryImplements` | – | `ImplementsOutbox` |
| | `BurstKeepsOne` | – | `NoticeSurvives`: of notices that overwrite each other one is left |
| `ClientDirectoryProofs` | `DirectoryTypeCorrect` | – | `DirectoryTypeOK`: the lookup before a bid never misses |
| | `OwnName` | – | `BidsInOwnName` |
| | `OneVersion` | – | `MapsAgree`: a block by phone reaches the chat that owns the phone |
| | `BlockFirm` | – | `BlockIsFirm`: once every copy is blocked, none is unblocked and no bid of that client is begun |
| | `IdFirm` | – | `IdIsFirm` |
| `ChatSessionProofs` | `SessionTypeCorrect` | – | `SessionTypeOK` |
| | `ChosenLot` | – | `BidOnChosenLot`, with any number of auctions shown in turn |
| | `SessionConverses` | – | `ImplementsConversation` |
| `EventFeedProofs` | `FeedTypeCorrect` | – | `FeedTypeOK` |
| | `NoCrash` | – | `NeverCrashes` |
| | `LossesAreOwn` | – | `OnlyOwnLosses` |
| | `FeedImplements` | – | `ImplementsBroadcast` |
| | `FeedOrdered` | – | `FeedInOrder` |

The assumptions are the code's own limits: a section that outlives its key breaks
the price rule and the order of the feed, a sum within a step of the largest int
the price rule (`NoOverflow`), and a call of Redis that fails leaves a key to its
TTL. Nothing is assumed of the admins: none of their handlers takes a lock, so
what a race of two can do is said in the property itself.

**Bids.** Exclusion is not inductive by itself: what is kept is `HolderInside`,
that a chat in its section still holds the key. TryLock needs a free key,
Release frees only one's own, and a key expires only outside its section.
`NoLockLeak` is inductive with the types, and a refusal finds the key taken by
somebody inside (`BusyJustified`). For prices the invariant is `PriceInv`:
`HolderInside`; the price rule and the cache being the last bid; and what links a
bidder to them, that the state read under the lock is still the cached one
(`SeenIsFresh`) and that a bid about to be stored tops it (`StoreTopsPrice`).
Only Store writes the cache of a hydrated lot and only from inside, so no other
chat's `seen` goes stale; `ClosedUntouched` and `InFlightHydrated` keep Hydrate
from resetting a lot with bids, and `PriceKnown` bounds the price so that `Plus`
does not wrap. `PriceStep` takes Hydrate, Store and the remaining actions one by
one, and `PriceInvariant` is what the four theorems after it rest on. Events:
Store opens a gap of one that its own Publish, still inside, closes, and no
other can be inside (`AloneInSection`). Notices: the state Store read is the last
bid, so the leader it displaces is the author of that bid. `Refinement`: Store
maps to `Raise`, Hydrate to `Open`, the rest to a stutter.

**Desk.** Types hold with `DeskInv`: pages and handlers name only bids that are in
MongoDB (`Wanted`), and MongoDB only bids that were placed (`Filed`). The other
invariants treat what a handler has read and not yet written as one more copy:
`Records` says of a document and of the copy Pull holds what is said of a sale,
`Leaders` of a cache entry and of the state a handler will write back what is said
of a leader. For the floor, `FloorInv`: an entry, and every state about to be
written back, is at least the starting price or some bid of the lot was
cancelled; the cancellation is recorded in MongoDB before the entry is touched
(`CancelOpens`), and a bid checked earlier under the lock keeps its excuse
because cancellations never go back (`StoreFloor`). `NoResurrection`: a cancellation writes
back a state without a leader and a sale one led by the bid sold (`DeskSaves`), a
new bid has a number no cancelled one has, and a restart leaves no leader.

`HolderInside` is kept at the desk as well, because no handler takes or frees a
lock and a restart, which empties the sections, leaves the keys to their TTL
(`RestartExcludes`). `ToldRightly` adds `SeenLeaders`: the leader a bid is about
to displace has bid on that lot, though it may have been cancelled since.
`AnnouncedRightly` rests on `HolderInside` and `AnnounceInv`: a lot's events name
bids already placed, a bid about to be announced is the last one placed and newer
than every event, and the bid stored next is newer still. No desk operation places
a bid or announces one, and a bid whose process dies before its Publish leaves
a gap, which an order allows.

**Lifecycle.** `OwnLot` rests on `EntriesOwn`: an entry files a lot under its own
auction, so PlaceBid refuses a pair that addBet's two reads have mixed.
`NoDraftBid` rests on `Begun`: a handler that will hydrate has seen its auction
active, and no auction goes back to draft. `OneActive`: while an admin activates
an auction every other active one is still on the list, or its end has failed, or
the two are `crossed` (`Rivals`): an auction that becomes active while this Start
is past its list was started by another that is past its own.

`OfferedBiddable`: the invariant is `Covered`. An auction runs when it is active
or when a handler that found it so has its lots still to list; of such an
auction all lots are `Biddable`, and so are the lots the hub shows and those a
handler is about to show. The two steps that could break it are a lot inserted
by a handler that does not hydrate it, which is then `late`, and a restart,
which keeps the entries of one auction: by `AtMostOneActive` no other is active,
or it is excused. Entries only grow between restarts, so a Start that finds its
auction active, an AddLot and an End leave what was `Biddable` as it was.
`HouseKept`: by `Numbered` a number is taken one above a lot that is filed, or
is 1, so even a partial list leads to a number whose predecessors exist, and the
unique index keeps the second of two that took the same one out; lots are never
deleted. `Endable`: what a page offers to end, and what Activate found active,
is no draft, so no end turns a draft into an ended auction.

**Delivery.** For the first two the invariant is `TimerInv`: an entry is named by
a notice of its own chat and bot (`EntryNamed`), so that a callback, which
removes the entry of its own chat, cannot leave another chat's entry behind
without the timer it counted on; and only texts of some bot pass through the
de-duplicator (`Notices`). `ServicesFollow` adds where Connect is: no bot while
it dials, and the bid service's notifier set once there is one. `TextsOnce` rests
on `Staged`: each text is in exactly one of six stages (its notice has not run,
an entry, taken out of it, a channel, a worker, ended), and on the channels and
workers holding no text twice (`ChannelsApart`, `WorkersApart`); every step moves
one text a stage on, but for Send over a waiting entry, which ends the older text
as well. `Unstarted` keeps a bot's start from wiping out texts its workers hold.
`DeliveryImplements` adds `Routed`, that a text is staged with its own chat and bot:
whatever is in an entry, a channel or a worker has not ended (`StagedWaits`,
`HeldWaits`), what Send replaces and what replaces it agree in chat and bot, and
what is lost was with a bot that had been cancelled. `BurstKeepsOne` is proved over
`Outbox`: a text gives way only to one that is not replaced itself, and when that
one is, it passes on those that gave way to it.

**Clients.** Everything that may still be written is a copy of the client
(`Copies`), and `CopyOrigin` says where a copy after a step comes from: it was
one before, or it was adopted by a chat, blocked, given its first ID, or made
for a number no record was read for. `OwnName` needs `OwnCopies`, that each copy
names a chat that has shared its phone, and the same of the lookups under way.
`BlockFirm` and `IdFirm` go through the origins: each keeps the block and the ID,
and a chat that reads a blocked copy begins no bid, while one that was judged
before may still send its bid; a fresh record for a number with a document is a misread
(`FreshIsMisread`); `Numbered` excludes that a document's ID is drawn anew.

**Chats.** `BidOnChosenLot` needs `Clear`: while `sure` holds at most one of the
user's updates is on its way, a choice on its way is the last one, and when none
is, the chat has the chosen lot or none; `Own`, that a chat holds only its user's
updates; and `Here`, that `within` is the auction the hub has or none. `SessionConverses` rests on `OnePlace`: an update is in one place only
and in none twice, so that handling, ignoring or losing it takes exactly it out
of what is due, and a goroutine that hands over, a channel and a select move it
without settling it.

**Feed.** `FeedInv`: a publisher has channels to offer to only while it holds the
mutex, and only channels in the map (`Guarded`), so that Unsubscribe, which needs
no reader, closes none of them; a request that has not subscribed is owed nothing
(`Early`). `FeedImplements`: what is due to a subscriber are the events of the
publishers that still have its channel before them; RLock adds one for all
subscribers at once, since the map does not change while the mutex is held, and
no request leaves the map while one is due to it. `FeedOrdered` adds that an
event not yet offered is newer than any of its publisher's that was got.

Only model-checked: liveness, which is out of the prover's reach
(`ContestHasWinner`, `EveryBidInserted`, `EveryTextSettles`, `CancelledBotEnds`,
`AdminNeverWaits`, `EveryUpdateTaken`, `PublishEnds`). Every invariant, action
property and refinement of the passing runs is proved.

## Not modelled, and the plan

1. The composition of `ClientDirectory` and `ChatSession`: here each has the
   other's answer as a choice.
2. Several auctions at the desk, so that what two that are active do to each
   other's sales and bids can be said.
3. An abstract specification of what `ClientDirectory` promises of a client.

In the modelled parts these are left out: the texts and keyboards; the photo
upload; `view_count`, metrics and time stamps; a lot's title; the log of chat
messages, which the program only writes and lists; the heartbeat of the event
feed; the notifier that is nil until a bot connects (SellLot and a message to a
client then panic, which the HTTP server recovers from); a chat outbid so often
that its timer never runs out; a lot's status as the hub remembers it, which
`Offer` chooses. The chat never sends a sum of 0 (`hub/chat.go:168`), and a bid
step of 0 is replaced by the form (`admin/handlers/auction.go:55`).

Left out altogether, for they keep no state the others read: the login sessions,
routing, metrics, configuration, page templates and the test doubles. Six
hazards in `PROJECT.json` have no property: what they say is what the code does,
and a property that forbids it fails on the models as they are, or needs a state
they do not keep; each has a note.
