-------------------------- MODULE AuctionLifecycle --------------------------
(***************************************************************************)
(* Auctions from draft to ended: the admin handlers that create, start and *)
(* end them and add their lots, the auction MongoDB says is active, the    *)
(* one the hub shows to the bot's chats, the lots that have a bid cache    *)
(* entry, and a restart of the process.                                    *)
(*                                                                         *)
(* The handlers take no lock: each is cut at its calls to MongoDB and to   *)
(* the hub.  A bid is BidPlacement's PlaceBid seen from outside: it is     *)
(* refused or accepted, and here only by whether its lot has an entry.     *)
(***************************************************************************)
EXTENDS Integers, Sequences, FiniteSets

CONSTANTS Auctions,  \* the auctions that may be created
          MaxLots,   \* bound: lots of one auction
          Admins,    \* browser sessions of the admin panel, one click at a time
          Chats,     \* the bot's chats
          Faults,    \* may a MongoDB call fail?
          MaxClicks, \* bound: clicks on Start and End
          MaxRestarts, \* bound: restarts of the process
          MaxLogged, \* bound: kinds of failures logged
          NoAuction  \* a nil *domain.Auction

ASSUME LifecycleAssumption ==
  /\ MaxLots \in Nat
  /\ Faults \in BOOLEAN
  /\ MaxClicks \in Nat
  /\ MaxRestarts \in Nat
  /\ MaxLogged \in Nat
  /\ NoAuction \notin Auctions

VARIABLES created,  \* the auctions collection, oldest first
          status,   \* Auction.Status in MongoDB
          lots,     \* the numbers of each auction's lots in MongoDB
          entries,  \* the bid cache's keys: <<auction id, lot>>
          hub,      \* Hub.auction (the status is the struct's own) and Hub.lots
          pages,    \* per admin: the buttons shown, Start and End of an auction
          task,     \* per admin: the handler running
          chat,     \* per chat: how far its addBet is
          accepted, \* the bids accepted: <<auction id, lot>>
          logged,   \* history: failed calls that were logged or, for a lot, shown to the admin
          crossed,  \* history: the pairs of auctions whose Starts overlapped
          late,     \* history: the auctions that got a lot as if they were not running
          clicks,
          restarts

races == <<crossed, late>>
counts == <<clicks, restarts>>
vars == <<created, status, lots, entries, hub, pages, task, chat, accepted, logged, races, counts>>

Nums == 1 .. MaxLots
LotIds == Auctions \X Nums              \* a lot belongs to the auction in its id
LotsOf(a) == {a} \X lots[a]
Known == {created[i] : i \in DOMAIN created}
Active == {a \in Known : status[a] = "active"}

NoHub == [auction |-> NoAuction, status |-> "draft", lots |-> {}]
Idle == [op |-> "idle"]

Init ==
  /\ created = <<>>
  /\ status = [a \in Auctions |-> "draft"]
  /\ lots = [a \in Auctions |-> {}]
  /\ entries = {}
  /\ hub = NoHub
  /\ pages = [m \in Admins |-> [start |-> {}, end |-> {}]]
  /\ task = [m \in Admins |-> Idle]
  /\ chat = [c \in Chats |-> Idle]
  /\ accepted = {}
  /\ logged = {}
  /\ crossed = {}
  /\ late = {}
  /\ clicks = 0
  /\ restarts = 0

-----------------------------------------------------------------------------
Goto(m, step) == task' = [task EXCEPT ![m] = step]
KeepStore == UNCHANGED <<created, status, lots>>
KeepBot == UNCHANGED <<entries, hub, chat, accepted>>

Create(m, a) ==
  /\ task[m] = Idle
  /\ a \notin Known
  /\ created' = Append(created, a)
  /\ KeepBot
  /\ UNCHANGED <<status, lots, pages, task, logged, races, counts>>

\* The list page: Start on the drafts, End on the active ones.
Load(m) ==
  /\ task[m] = Idle
  /\ pages' = [pages EXCEPT ![m] =
                 [start |-> {a \in Known : status[a] = "draft"}, end |-> Active]]
  /\ KeepStore
  /\ KeepBot
  /\ UNCHANGED <<task, logged, races, counts>>

Click(m) ==
  /\ task[m] = Idle
  /\ clicks < MaxClicks     \* bound
  /\ clicks' = clicks + 1
  /\ UNCHANGED <<created, lots, pages, logged, races, restarts>>
  /\ KeepBot

-----------------------------------------------------------------------------
(***************************************************************************)
(* Start: service.Activate reads the auction, ends the active ones of a    *)
(* list, marks this one and hydrates its lots; the handler lists the lots  *)
(* again and hands them to the hub.  An auction already active goes        *)
(* straight to the handler's part.                                         *)
(***************************************************************************)
Start(m, a) ==
  /\ Click(m)
  /\ a \in pages[m].start
  /\ Goto(m, [op |-> IF status[a] = "active" THEN "relist" ELSE "list", auction |-> a])
  /\ UNCHANGED status

Log(call, a) ==
  /\ logged' = logged \union {[call |-> call, auction |-> a]}
  /\ Cardinality(logged') <= MaxLogged     \* bound
Fail(m, call) == Faults /\ Log(call, task[m].auction) /\ Goto(m, Idle)

\* Faulty variant: the other auctions are left as they are.
ListNone(m) ==
  /\ task[m].op = "list"
  /\ Goto(m, [op |-> "activate", auction |-> task[m].auction, rest |-> {}])
  /\ KeepStore
  /\ KeepBot
  /\ UNCHANGED <<pages, logged, races, counts>>

List(m) ==
  /\ task[m].op = "list"
  /\ \/ /\ Goto(m, [op |-> "activate", auction |-> task[m].auction,
                    rest |-> Active \ {task[m].auction}])
        /\ UNCHANGED logged
     \/ Fail(m, "activate")
  /\ KeepStore
  /\ KeepBot
  /\ UNCHANGED <<pages, races, counts>>

\* One of the listed auctions is ended; a failure is logged and passed over.
EndOther(m) ==
  /\ task[m].op = "activate"
  /\ \E o \in task[m].rest :
       /\ Goto(m, [task[m] EXCEPT !.rest = @ \ {o}])
       /\ \/ status' = [status EXCEPT ![o] = "ended"] /\ UNCHANGED logged
          \/ /\ Faults
             /\ UNCHANGED status \/ status' = [status EXCEPT ![o] = "ended"]
             /\ Log("end", o)
  /\ KeepBot
  /\ UNCHANGED <<created, lots, pages, races, counts>>

\* The Starts that listed the active auctions before this one made its own
\* active, and have yet to make theirs.
Overlapping(m) ==
  {n \in Admins \ {m} : task[n].op = "activate" /\ task[n].auction # task[m].auction}

MarkActive(m) ==
  /\ status' = [status EXCEPT ![task[m].auction] = "active"]
  /\ crossed' = crossed \union {{task[m].auction, task[n].auction} : n \in Overlapping(m)}

Activate(m) ==
  /\ task[m].op = "activate"
  /\ task[m].rest = {}
  /\ \/ /\ MarkActive(m)
        /\ Goto(m, [op |-> "hydrate", auction |-> task[m].auction])
        /\ UNCHANGED logged
     \/ /\ Fail(m, "activate")
        /\ MarkActive(m) \/ UNCHANGED <<status, crossed>>
  /\ KeepBot
  /\ UNCHANGED <<created, lots, pages, late, counts>>

\* Faulty variant: the first lot is passed over.
HydrateRest(m) ==
  /\ task[m].op = "hydrate"
  /\ LET a == task[m].auction IN
       /\ entries' = entries \union ({a} \X (LotsOf(a) \ {<<a, 1>>}))
       /\ Goto(m, [op |-> "relist", auction |-> a])
  /\ KeepStore
  /\ UNCHANGED <<hub, chat, accepted, pages, logged, races, counts>>

\* The lots are listed and hydrated, and those read before an error when the
\* list fails.
Hydrate(m) ==
  /\ task[m].op = "hydrate"
  /\ LET a == task[m].auction IN
       /\ \/ entries' = entries \union ({a} \X LotsOf(a)) /\ UNCHANGED logged
          \/ /\ Faults
             /\ \E part \in SUBSET LotsOf(a) : entries' = entries \union ({a} \X part)
             /\ Log("lots", a)
       /\ Goto(m, [op |-> "relist", auction |-> a])
  /\ KeepStore
  /\ UNCHANGED <<hub, chat, accepted, pages, races, counts>>

\* The handler's own list of the lots, its error ignored.
Relist(m) ==
  /\ task[m].op = "relist"
  /\ \E list \in SUBSET LotsOf(task[m].auction) :
       /\ Faults \/ list = LotsOf(task[m].auction)
       /\ Goto(m, [op |-> "show", auction |-> task[m].auction, lots |-> list])
  /\ KeepStore
  /\ KeepBot
  /\ UNCHANGED <<pages, logged, races, counts>>

\* SetActiveAuction with the handler's copy of the auction, read or set active.
Show(m) ==
  /\ task[m].op = "show"
  /\ hub' = [auction |-> task[m].auction, status |-> "active", lots |-> task[m].lots]
  /\ Goto(m, Idle)
  /\ KeepStore
  /\ UNCHANGED <<entries, chat, accepted, pages, logged, races, counts>>

-----------------------------------------------------------------------------
(***************************************************************************)
(* End never looks at the status, nor at the auction the hub shows.        *)
(***************************************************************************)
End(m, a) ==
  /\ Click(m)
  /\ a \in pages[m].end
  /\ \/ status' = [status EXCEPT ![a] = "ended"] /\ Goto(m, [op |-> "close", auction |-> a])
     \/ /\ Faults
        /\ UNCHANGED status \/ status' = [status EXCEPT ![a] = "ended"]
        /\ Goto(m, Idle)

Close(m) ==
  /\ task[m].op = "close"
  /\ hub' = [auction |-> task[m].auction, status |-> "ended", lots |-> {}]
  /\ Goto(m, Idle)
  /\ KeepStore
  /\ UNCHANGED <<entries, chat, accepted, pages, logged, races, counts>>

-----------------------------------------------------------------------------
(***************************************************************************)
(* AddLot numbers the lot and decides whether it joins a running auction   *)
(* by what it read before the insert.  The error of the list is ignored:   *)
(* only the lots read before it are counted.                               *)
(***************************************************************************)
Listed(a) == {list \in SUBSET lots[a] : Faults \/ list = lots[a]}

\* One more than the largest of the numbers, or 1 when there is none.
NextNum(nums) == {n \in Nums : /\ n = 1 \/ n - 1 \in nums
                               /\ \A k \in nums : k < n}

\* Faulty variants: the lot takes the last number; it joins the hub's lots
\* whatever the auction's status.
AddLotSameNum(m, a) ==
  /\ task[m] = Idle
  /\ a \in Known
  /\ lots[a] # Nums
  /\ \E list \in Listed(a) : \E n \in NextNum(list) :
       Goto(m, [op |-> "create", auction |-> a, num |-> n - 1,
                active |-> status[a] = "active"])
  /\ KeepStore
  /\ KeepBot
  /\ UNCHANGED <<pages, logged, races, counts>>
AddLotAlwaysJoins(m, a) ==
  /\ task[m] = Idle
  /\ a \in Known
  /\ lots[a] # Nums
  /\ \E list \in Listed(a) : \E n \in NextNum(list) :
       Goto(m, [op |-> "create", auction |-> a, num |-> n, active |-> TRUE])
  /\ KeepStore
  /\ KeepBot
  /\ UNCHANGED <<pages, logged, races, counts>>

AddLot(m, a) ==
  /\ task[m] = Idle
  /\ a \in Known
  /\ lots[a] # Nums     \* bound
  /\ \E list \in Listed(a) : \E n \in NextNum(list) :
       Goto(m, [op |-> "create", auction |-> a, num |-> n,
                active |-> status[a] = "active"])
  /\ KeepStore
  /\ KeepBot
  /\ UNCHANGED <<pages, logged, races, counts>>

\* An auction is active, or a handler that found it so has its lots to list.
FoundActive(t) == t.op \in {"relist", "hydrateLot"} \/ (t.op = "create" /\ t.active)
Running(a) == \/ status[a] = "active"
              \/ \E n \in Admins : FoundActive(task[n]) /\ task[n].auction = a

\* The unique index on (auction_id, num) refuses the second of two equal
\* numbers; an insert that took effect and failed is shown as an error, and
\* the lot is not hydrated.
CreateLot(m) ==
  /\ task[m].op = "create"
  /\ LET a == task[m].auction
         n == task[m].num
     IN \/ /\ n \notin lots[a]
           /\ lots' = [lots EXCEPT ![a] = @ \union {n}]
           /\ late' = late \union (IF ~task[m].active /\ Running(a) THEN {a} ELSE {})
           /\ \/ /\ Goto(m, IF task[m].active
                             THEN [op |-> "hydrateLot", auction |-> a, num |-> n]
                             ELSE Idle)
                 /\ UNCHANGED logged
              \/ Fail(m, "create")
        \/ n \in lots[a] /\ Goto(m, Idle) /\ UNCHANGED <<lots, late, logged>>
  /\ KeepBot
  /\ UNCHANGED <<created, status, pages, crossed, counts>>

HydrateLot(m) ==
  /\ task[m].op = "hydrateLot"
  /\ LET a == task[m].auction IN
       /\ entries' = entries \union {<<a, <<a, task[m].num>>>>}
       /\ Goto(m, [op |-> "relist", auction |-> a])
  /\ KeepStore
  /\ UNCHANGED <<hub, chat, accepted, pages, logged, races, counts>>

-----------------------------------------------------------------------------
(***************************************************************************)
(* addBet reads the hub's auction, then the lot by its number, which the   *)
(* chat may have picked in an earlier auction, then calls PlaceBid.        *)
(***************************************************************************)
KeepDesk == UNCHANGED <<entries, hub, pages, task, logged, races, counts>>
Step(c, step) == chat' = [chat EXCEPT ![c] = step]

ReadAuction(c) ==
  /\ chat[c] = Idle
  /\ hub.auction # NoAuction
  /\ Step(c, [op |-> "lot", auction |-> hub.auction])
  /\ KeepStore
  /\ KeepDesk
  /\ UNCHANGED accepted

ReadLot(c, n) ==
  /\ chat[c].op = "lot"
  /\ LET found == {l \in hub.lots : l[2] = n} IN
       \/ found = {} /\ Step(c, Idle)
       \/ \E l \in found : Step(c, [op |-> "place", auction |-> chat[c].auction, lot |-> l])
  /\ KeepStore
  /\ KeepDesk
  /\ UNCHANGED accepted

\* Faulty variant: the cache is looked up by the lot alone.
PlaceBidByLot(c) ==
  /\ chat[c].op = "place"
  /\ \/ /\ \E a \in Auctions : <<a, chat[c].lot>> \in entries
        /\ accepted' = accepted \union {<<chat[c].auction, chat[c].lot>>}
     \/ UNCHANGED accepted
  /\ Step(c, Idle)
  /\ KeepStore
  /\ KeepDesk

PlaceBid(c) ==
  /\ chat[c].op = "place"
  /\ \/ /\ <<chat[c].auction, chat[c].lot>> \in entries
        /\ accepted' = accepted \union {<<chat[c].auction, chat[c].lot>>}
     \/ UNCHANGED accepted
  /\ Step(c, Idle)
  /\ KeepStore
  /\ KeepDesk

-----------------------------------------------------------------------------
\* main.go: the newest auction that is active is hydrated and shown before
\* the admin server accepts a request.
IsNewest(a) ==
  \E i \in DOMAIN created :
    /\ created[i] = a /\ a \in Active
    /\ \A j \in DOMAIN created : created[j] \in Active => j <= i

Restart ==
  /\ restarts < MaxRestarts     \* bound
  /\ restarts' = restarts + 1
  /\ \/ \E a \in Auctions : \E list \in SUBSET LotsOf(a) :
          /\ IsNewest(a)
          /\ entries' = {a} \X list
          /\ hub' = [auction |-> a, status |-> "active", lots |-> list]
          /\ \/ list = LotsOf(a) /\ UNCHANGED logged
             \/ Faults /\ Log("lots", a)
     \/ /\ \/ Active = {} /\ UNCHANGED logged
           \/ Faults /\ Log("restore", NoAuction)
        /\ entries' = {}
        /\ hub' = NoHub
  /\ task' = [m \in Admins |-> Idle]
  /\ chat' = [c \in Chats |-> Idle]
  /\ KeepStore
  /\ UNCHANGED <<pages, accepted, races, clicks>>

Handler(m) ==
  \/ Load(m)
  \/ \E a \in Auctions : Create(m, a) \/ Start(m, a) \/ End(m, a) \/ AddLot(m, a)
  \/ List(m)
  \/ EndOther(m)
  \/ Activate(m)
  \/ Hydrate(m)
  \/ Relist(m)
  \/ Show(m)
  \/ Close(m)
  \/ CreateLot(m)
  \/ HydrateLot(m)

AddBet(c) == ReadAuction(c) \/ (\E n \in Nums : ReadLot(c, n)) \/ PlaceBid(c)

Next ==
  \/ \E m \in Admins : Handler(m)
  \/ \E c \in Chats : AddBet(c)
  \/ Restart

Spec == Init /\ [][Next]_vars

-----------------------------------------------------------------------------
(***************************************************************************)
(* Properties.                                                             *)
(***************************************************************************)

TaskState ==
  {Idle}
    \union [op : {"list", "hydrate", "relist", "close"}, auction : Auctions]
    \union [op : {"activate"}, auction : Auctions, rest : SUBSET Auctions]
    \union [op : {"show"}, auction : Auctions, lots : SUBSET LotIds]
    \union [op : {"create"}, auction : Auctions, num : Nums, active : BOOLEAN]
    \union [op : {"hydrateLot"}, auction : Auctions, num : Nums]
ChatState ==
  {Idle}
    \union [op : {"lot"}, auction : Auctions]
    \union [op : {"place"}, auction : Auctions, lot : LotIds]

\* Documents, keys, pages and handlers hold values of their types.
LifecycleTypeOK ==
  /\ created \in Seq(Auctions)
  /\ \A i, j \in DOMAIN created : created[i] = created[j] => i = j
  /\ status \in [Auctions -> {"draft", "active", "ended"}]
  /\ lots \in [Auctions -> SUBSET Nums]
  /\ entries \subseteq Auctions \X LotIds
  /\ hub \in [auction : Auctions \union {NoAuction}, status : {"draft", "active", "ended"},
              lots : SUBSET LotIds]
  /\ pages \in [Admins -> [start : SUBSET Auctions, end : SUBSET Auctions]]
  /\ task \in [Admins -> TaskState]
  /\ chat \in [Chats -> ChatState]
  /\ accepted \subseteq Auctions \X LotIds
  /\ logged \subseteq [call : {"end", "lots", "activate", "restore", "create"},
                       auction : Auctions \union {NoAuction}]
  /\ crossed \subseteq SUBSET Auctions
  /\ late \subseteq Auctions

\* At most one auction is active, for any number of admins who start and end
\* auctions, but for two: one of the two could not be ended, which was logged,
\* or their Starts overlapped, each past its list when the other became active
\* (auction/service.go: "End any currently active auction before activating
\* this one").  What else handlers, failures and restarts do, it is kept.
AtMostOneActive ==
  \A a, b \in Active : a # b =>
     \/ \E o \in {a, b} : [call |-> "end", auction |-> o] \in logged
     \/ {a, b} \in crossed

\* A bid is accepted only on a lot of the auction it names, although addBet
\* reads the auction and the lot apart and the hub may change in between.
BidOnOwnLot == \A b \in accepted : b[2][1] = b[1]

\* No bid is accepted for an auction that was never started.
NoBidInDraft == \A b \in accepted : status[b[1]] # "draft"

\* A lot the bot offers has a cache entry, so that a bid on it is not answered
\* "try again" for ever, or a handler that has read the lots is about to make
\* it; unless a call failed, and was logged or shown, that started this
\* auction, listed its lots or inserted one, or that ended or restored any; or
\* the auction was started in a race: with another's Start, so that two are
\* active and only the newest is hydrated again after a restart, or with an
\* AddLot that had found it not active, so that the lot is not hydrated.
Excused(a) ==
  \/ \E call \in {"lots", "activate", "create"} : [call |-> call, auction |-> a] \in logged
  \/ \E failure \in logged : failure.call \in {"end", "restore"}
  \/ \E pair \in crossed : a \in pair
  \/ a \in late

BeingHydrated(a) == \E m \in Admins : task[m].op = "hydrate" /\ task[m].auction = a

Coming == {<<task[m].auction, <<task[m].auction, task[m].num>>>> :
             m \in {n \in Admins : task[n].op = "hydrateLot"}}

Biddable(a, L) == Excused(a) \/ BeingHydrated(a) \/ {a} \X L \subseteq entries \union Coming

ShownLotsBiddable == hub.status = "active" => Biddable(hub.auction, hub.lots)

\* The handlers, the cache and the hub are the AuctionHouse: whichever pages
\* are stale and whichever calls fail, crash or cross.
House == INSTANCE AuctionHouse WITH known <- Known

ImplementsAuctionHouse == House!Spec
=============================================================================
