---------------------------- MODULE BidPlacement ----------------------------
(***************************************************************************)
(* The bid service's PlaceBid with what it works on: the in-memory bid     *)
(* cache, the Redis lock with its 500 ms TTL, the goroutines that insert   *)
(* the bid and notify the displaced bidder, and the published events.      *)
(*                                                                         *)
(* Each chat is one goroutine (hub/chat.go, Run) and has at most one       *)
(* PlaceBid in flight.  A PlaceBid is cut into one action per access to    *)
(* shared state; the code between two accesses is local to the goroutine.  *)
(***************************************************************************)
EXTENDS Integers, Sequences, FiniteSets

CONSTANTS Chats,       \* the bidders: ClientID and TgUserID of a request
          Lots,        \* the lots of the active auction
          StartPrice,  \* Lot.StartPrice, the same for every lot
          BidStep,     \* Auction.BidStep
          Amounts,     \* the sums a chat may send; chat.go requires sum > 0
          MaxInt,      \* the largest value of Go's int
          MaxBids,     \* bound: bids stored or in flight, per lot
          Stalls,      \* may a critical section outlive the lock's TTL?
          Faults,      \* may a Redis or MongoDB call fail?
          NoChat       \* TgUserID 0 and ClientID ""

ASSUME BidAssumption ==
  /\ MaxInt \in Nat
  /\ StartPrice \in 0 .. MaxInt
  /\ BidStep \in 1 .. MaxInt      \* the create form replaces a step of 0
  /\ Amounts \subseteq 1 .. MaxInt
  /\ MaxBids \in Nat
  /\ Stalls \in BOOLEAN
  /\ Faults \in BOOLEAN
  /\ NoChat \notin Chats

VARIABLES hydrated,   \* the lots that have a cache entry
          cache,      \* BidCache.states, the zero LotState where there is none
          lock,       \* the Redis key lock:<auction>:<lot>, Free when unset
          bids,       \* the domain.Bid values created, in the order stored
          pc,         \* where each chat's PlaceBid is
          req,        \* its request
          seen,       \* its local variable `state`
          reply,      \* what its last PlaceBid returned or will return
          inserting,  \* the insert goroutines still running
          mongo,      \* the bids collection
          notices,    \* the outbid notification goroutines started
          events      \* the bid_placed events published, per lot

vars == <<hydrated, cache, lock, bids, pc, req, seen, reply, inserting, mongo,
          notices, events>>

Free == NoChat                    \* an unset Redis key has no holder's token

\* cache.LotState; the chat stands for MaxClientID and MaxTgID, always written
\* together, and a bid ID is the position of the bid in its lot's sequence.
LotState == [max : 0 .. MaxInt, bid : Nat, chat : Chats \union {NoChat}, count : Nat]
ZeroState == [max |-> 0, bid |-> 0, chat |-> NoChat, count |-> 0]

Request == [lot : Lots, amount : Amounts]
NoRequest == [lot |-> NoChat, amount |-> 0]
Bid == [chat : Chats, amount : Amounts]

Critical == {"recheck", "store", "publish", "release"}
InSection(c, l) == pc[c] \in Critical /\ req[c].lot = l

\* Go's int addition: two's complement, wrapping at MaxInt.
Plus(a, b) == IF a + b > MaxInt THEN a + b - 2 * (MaxInt + 1) ELSE a + b

TooLow(amount, state) == amount < Plus(state.max, BidStep)
OwnMax(c, amount, state) ==
  state.max > 0 /\ state.chat = c /\ amount <= state.max

Init ==
  /\ hydrated = {}
  /\ cache = [l \in Lots |-> ZeroState]
  /\ lock = [l \in Lots |-> Free]
  /\ bids = [l \in Lots |-> <<>>]
  /\ pc = [c \in Chats |-> "idle"]
  /\ req = [c \in Chats |-> NoRequest]
  /\ seen = [c \in Chats |-> ZeroState]
  /\ reply = [c \in Chats |-> "none"]
  /\ inserting = {}
  /\ mongo = {}
  /\ notices = {}
  /\ events = [l \in Lots |-> <<>>]

-----------------------------------------------------------------------------
(***************************************************************************)
(* The first HydrateLot of a lot, which no bid can overlap: PlaceBid       *)
(* refuses a lot that has no entry.  LotDesk models later hydrations.      *)
(***************************************************************************)
HydrateWith(l, price) ==
  /\ l \notin hydrated
  /\ hydrated' = hydrated \union {l}
  /\ cache' = [cache EXCEPT ![l] = [max |-> price, bid |-> 0, chat |-> NoChat, count |-> 0]]
  /\ UNCHANGED <<lock, bids, pc, req, seen, reply, inserting, mongo, notices, events>>

Hydrate(l) == HydrateWith(l, StartPrice)

-----------------------------------------------------------------------------
Pending(l) == {c \in Chats : pc[c] \in {"acquire", "recheck", "store"} /\ req[c].lot = l}

\* The function returns r: its locals are gone.
Return(c, r) ==
  /\ pc' = [pc EXCEPT ![c] = "idle"]
  /\ req' = [req EXCEPT ![c] = NoRequest]
  /\ seen' = [seen EXCEPT ![c] = ZeroState]
  /\ reply' = [reply EXCEPT ![c] = r]

\* Up to the lock: the first read of the cache and the early returns.
PlaceBid(c, l, a) ==
  /\ pc[c] = "idle"
  /\ \/ l \notin hydrated /\ Return(c, "noAuction")
     \/ /\ l \in hydrated
        /\ OwnMax(c, a, cache[l]) \/ TooLow(a, cache[l])
        /\ Return(c, "tooLow")
     \/ /\ l \in hydrated
        /\ ~OwnMax(c, a, cache[l])
        /\ ~TooLow(a, cache[l])
        /\ Len(bids[l]) + Cardinality(Pending(l)) < MaxBids     \* bound
        /\ pc' = [pc EXCEPT ![c] = "acquire"]
        /\ req' = [req EXCEPT ![c] = [lot |-> l, amount |-> a]]
        /\ reply' = [reply EXCEPT ![c] = "pending"]
        /\ UNCHANGED seen
  /\ UNCHANGED <<hydrated, cache, lock, bids, inserting, mongo, notices, events>>

\* Faulty variant: SET without NX takes a key that is held.
TakeLock(c) ==
  /\ pc[c] = "acquire"
  /\ lock' = [lock EXCEPT ![req[c].lot] = c]
  /\ pc' = [pc EXCEPT ![c] = "recheck"]
  /\ UNCHANGED <<hydrated, cache, bids, req, seen, reply, inserting, mongo, notices, events>>

\* SETNX answers: the lock is ours, or the bidder is told to try again.
TryLock(c) ==
  /\ pc[c] = "acquire"
  /\ LET l == req[c].lot IN
       \/ /\ lock[l] = Free
          /\ lock' = [lock EXCEPT ![l] = c]
          /\ pc' = [pc EXCEPT ![c] = "recheck"]
          /\ UNCHANGED <<req, seen, reply>>
       \/ /\ lock[l] # Free
          /\ Return(c, "busy")
          /\ UNCHANGED lock
  /\ UNCHANGED <<hydrated, cache, bids, inserting, mongo, notices, events>>

\* SETNX returns an error; the key may have been set all the same.
AcquireFails(c) ==
  /\ Faults
  /\ pc[c] = "acquire"
  /\ \/ UNCHANGED lock
     \/ lock[req[c].lot] = Free /\ lock' = [lock EXCEPT ![req[c].lot] = c]
  /\ Return(c, "busy")
  /\ UNCHANGED <<hydrated, cache, bids, inserting, mongo, notices, events>>

\* Faulty variants: no second check; a second check off by one; a rejected
\* bid that returns without the deferred Release.
SkipRecheck(c) ==
  /\ pc[c] = "recheck"
  /\ pc' = [pc EXCEPT ![c] = "store"]
  /\ seen' = [seen EXCEPT ![c] = cache[req[c].lot]]
  /\ UNCHANGED <<hydrated, cache, lock, bids, req, reply, inserting, mongo, notices, events>>
RecheckOffByOne(c) ==
  /\ pc[c] = "recheck"
  /\ \/ req[c].amount > Plus(cache[req[c].lot].max, BidStep) /\ SkipRecheck(c)
     \/ /\ req[c].amount <= Plus(cache[req[c].lot].max, BidStep)
        /\ pc' = [pc EXCEPT ![c] = "release"]
        /\ reply' = [reply EXCEPT ![c] = "tooLow"]
        /\ UNCHANGED <<hydrated, cache, lock, bids, req, seen, inserting, mongo, notices, events>>
RecheckNoDefer(c) ==
  /\ pc[c] = "recheck"
  /\ \/ ~TooLow(req[c].amount, cache[req[c].lot]) /\ SkipRecheck(c)
     \/ /\ TooLow(req[c].amount, cache[req[c].lot])
        /\ Return(c, "tooLow")
        /\ UNCHANGED <<hydrated, cache, lock, bids, inserting, mongo, notices, events>>

\* The second read of the cache, under the lock.
Recheck(c) ==
  /\ pc[c] = "recheck"
  /\ LET state == cache[req[c].lot] IN
       \/ /\ TooLow(req[c].amount, state)
          /\ pc' = [pc EXCEPT ![c] = "release"]
          /\ reply' = [reply EXCEPT ![c] = "tooLow"]
          /\ UNCHANGED seen
       \/ /\ ~TooLow(req[c].amount, state)
          /\ pc' = [pc EXCEPT ![c] = "store"]
          /\ seen' = [seen EXCEPT ![c] = state]
          /\ UNCHANGED reply
  /\ UNCHANGED <<hydrated, cache, lock, bids, req, inserting, mongo, notices, events>>

\* Faulty variant: a bidder who raises their own bid is told, too.
DisplacedOrSelf(c, l, n, state) ==
  {note \in [to : {state.chat}, lot : {l}, bid : {n}] : state.chat # NoChat}

\* Faulty variant: without the test of prevTgID a first bid displaces nobody's
\* chat, and a notice is addressed to chat 0.
DisplacedNobody(c, l, n, state) ==
  {note \in [to : {state.chat}, lot : {l}, bid : {n}] : state.chat # c}

\* Who the new bid n of chat c displaces, given the state it was read over.
Displaced(c, l, n, state) ==
  {note \in [to : {state.chat}, lot : {l}, bid : {n}] :
     state.chat # NoChat /\ state.chat # c /\ state.bid # 0}

\* Faulty variant: the insert is started beside the notice, under the same
\* condition.
StoreForDisplaced(c) ==
  /\ pc[c] = "store"
  /\ LET l == req[c].lot
         n == Len(bids[l]) + 1
         state == [max |-> req[c].amount, bid |-> n, chat |-> c,
                   count |-> seen[c].count + 1]
     IN /\ bids' = [bids EXCEPT ![l] = Append(@, [chat |-> c, amount |-> req[c].amount])]
        /\ cache' = [cache EXCEPT ![l] = state]
        /\ seen' = [seen EXCEPT ![c] = state]
        /\ inserting' = IF Displaced(c, l, n, seen[c]) = {} THEN inserting
                         ELSE inserting \union {<<l, n>>}
        /\ notices' = notices \union Displaced(c, l, n, seen[c])
  /\ pc' = [pc EXCEPT ![c] = "publish"]
  /\ reply' = [reply EXCEPT ![c] = "accepted"]
  /\ UNCHANGED <<hydrated, lock, req, mongo, events>>

\* The whole LotState is written back and the two goroutines are started.
Store(c) ==
  /\ pc[c] = "store"
  /\ LET l == req[c].lot
         n == Len(bids[l]) + 1
         state == [max |-> req[c].amount, bid |-> n, chat |-> c,
                   count |-> seen[c].count + 1]
     IN /\ bids' = [bids EXCEPT ![l] = Append(@, [chat |-> c, amount |-> req[c].amount])]
        /\ cache' = [cache EXCEPT ![l] = state]
        /\ seen' = [seen EXCEPT ![c] = state]
        /\ inserting' = inserting \union {<<l, n>>}
        /\ notices' = notices \union Displaced(c, l, n, seen[c])
  /\ pc' = [pc EXCEPT ![c] = "publish"]
  /\ reply' = [reply EXCEPT ![c] = "accepted"]
  /\ UNCHANGED <<hydrated, lock, req, mongo, events>>

Publish(c) ==
  /\ pc[c] = "publish"
  /\ events' = [events EXCEPT ![req[c].lot] =
                  Append(@, [bid |-> seen[c].bid, count |-> seen[c].count])]
  /\ pc' = [pc EXCEPT ![c] = "release"]
  /\ UNCHANGED <<hydrated, cache, lock, bids, req, seen, reply, inserting, mongo, notices>>

\* Faulty variant: DEL without comparing the token.
ReleaseAny(c) ==
  /\ pc[c] = "release"
  /\ lock' = [lock EXCEPT ![req[c].lot] = Free]
  /\ Return(c, reply[c])
  /\ UNCHANGED <<hydrated, cache, bids, inserting, mongo, notices, events>>

\* The deferred Release: compare the token and delete, in one Lua script.
Release(c) ==
  /\ pc[c] = "release"
  /\ lock' = IF lock[req[c].lot] = c THEN [lock EXCEPT ![req[c].lot] = Free] ELSE lock
  /\ Return(c, reply[c])
  /\ UNCHANGED <<hydrated, cache, bids, inserting, mongo, notices, events>>

\* Release returns an error nobody looks at: the key stays until its TTL.
ReleaseFails(c) ==
  /\ Faults
  /\ pc[c] = "release"
  /\ Return(c, reply[c])
  /\ UNCHANGED <<hydrated, cache, lock, bids, inserting, mongo, notices, events>>

\* Redis drops the key 500 ms after SETNX.
Expire(l) ==
  /\ lock[l] # Free
  /\ Stalls \/ ~InSection(lock[l], l)
  /\ lock' = [lock EXCEPT ![l] = Free]
  /\ UNCHANGED <<hydrated, cache, bids, pc, req, seen, reply, inserting, mongo, notices, events>>

InsertDone(l, n) ==
  /\ <<l, n>> \in inserting
  /\ inserting' = inserting \ {<<l, n>>}
  /\ mongo' = mongo \union {<<l, n>>}
  /\ UNCHANGED <<hydrated, cache, lock, bids, pc, req, seen, reply, notices, events>>

\* The insert's error is logged and the bid stays only in memory.
InsertFails(l, n) ==
  /\ Faults
  /\ <<l, n>> \in inserting
  /\ inserting' = inserting \ {<<l, n>>}
  /\ UNCHANGED <<hydrated, cache, lock, bids, pc, req, seen, reply, mongo, notices, events>>

-----------------------------------------------------------------------------
Bidder(c) ==
  \/ \E l \in Lots, a \in Amounts : PlaceBid(c, l, a)
  \/ TryLock(c)
  \/ AcquireFails(c)
  \/ Recheck(c)
  \/ Store(c)
  \/ Publish(c)
  \/ Release(c)
  \/ ReleaseFails(c)

Database == \E l \in Lots, n \in 1 .. MaxBids : InsertDone(l, n) \/ InsertFails(l, n)

Next ==
  \/ \E l \in Lots : Hydrate(l) \/ Expire(l)
  \/ \E c \in Chats : Bidder(c)
  \/ Database

Spec == Init /\ [][Next]_vars

\* A goroutine that can run does, Redis drops an expired key, and a database
\* call returns.  Nobody is obliged to bid or to hydrate a lot.
Progress(c) == TryLock(c) \/ Recheck(c) \/ Store(c) \/ Publish(c) \/ Release(c)

Fairness ==
  /\ \A c \in Chats : WF_vars(Progress(c))
  /\ \A l \in Lots : WF_vars(Expire(l))
  /\ \A l \in Lots, n \in 1 .. MaxBids : WF_vars(InsertDone(l, n) \/ InsertFails(l, n))

FairSpec == Spec /\ Fairness

-----------------------------------------------------------------------------
(***************************************************************************)
(* Properties.                                                             *)
(***************************************************************************)

\* Every variable holds a value of its Go type, and a PlaceBid in flight has
\* a request.
TypeOK ==
  /\ hydrated \subseteq Lots
  /\ cache \in [Lots -> LotState]
  /\ lock \in [Lots -> Chats \union {Free}]
  /\ bids \in [Lots -> Seq(Bid)]
  /\ pc \in [Chats -> {"idle", "acquire"} \union Critical]
  /\ req \in [Chats -> Request \union {NoRequest}]
  /\ \A c \in Chats : pc[c] # "idle" => req[c] \in Request
  /\ seen \in [Chats -> LotState]
  /\ reply \in [Chats -> {"none", "pending", "accepted", "tooLow", "busy", "noAuction"}]
  /\ inserting \subseteq Lots \X Nat
  /\ mongo \subseteq Lots \X Nat
  /\ notices \subseteq [to : Chats, lot : Lots, bid : Nat]
  /\ events \in [Lots -> Seq([bid : Nat, count : Nat])]

\* Two chats are never between Acquire and Release of the same lot, whatever
\* keys were lost to failed calls (while no section outlives its TTL).
MutualExclusion ==
  \A c, d \in Chats, l \in Lots : InSection(c, l) /\ InSection(d, l) => c = d

\* A chat inside its section still holds the key, so nobody can be let in.
HolderInside == \A c \in Chats, l \in Lots : InSection(c, l) => lock[l] = c

\* With no failed call, a key is in Redis only while its owner is inside:
\* the lot is never left locked by a PlaceBid that has returned.
NoLockLeak == \A l \in Lots : lock[l] # Free => InSection(lock[l], l)

\* At most one bid wins a price level, and each accepted bid tops every
\* earlier one by the step (service_test.go, TestPlaceBid_Concurrent).
OneWinnerPerPrice ==
  \A l \in Lots : \A i, j \in 1 .. Len(bids[l]) :
     i < j => bids[l][j].amount >= bids[l][i].amount + BidStep

\* The cache is the last accepted bid and counts all of them: no update of
\* LotState is lost between the read under the lock and the write.
NoLostUpdate ==
  \A l \in hydrated :
     /\ cache[l].count = Len(bids[l])
     /\ cache[l].bid = Len(bids[l])
     /\ bids[l] = <<>> => cache[l].max = StartPrice /\ cache[l].chat = NoChat
     /\ bids[l] # <<>> => /\ cache[l].max = bids[l][Len(bids[l])].amount
                          /\ cache[l].chat = bids[l][Len(bids[l])].chat

\* The state a chat is about to write back over is still the cached one.
SeenIsFresh ==
  \A c \in Chats : pc[c] \in {"store", "publish"} => seen[c] = cache[req[c].lot]

\* No price plus step passes the largest int.
NoOverflow == \A a \in Amounts \union {StartPrice} : a + BidStep <= MaxInt

\* What makes the three above inductive: the holder keeps its key, a lot has a
\* bid or a request only once hydrated, and a bid about to be stored still
\* tops the price (while no section outlives its TTL and no price wraps).
StoreTopsPrice ==
  \A c \in Chats : pc[c] = "store" => req[c].amount >= cache[req[c].lot].max + BidStep
ClosedUntouched == \A l \in Lots \ hydrated : bids[l] = <<>> /\ cache[l] = ZeroState
InFlightHydrated == \A c \in Chats : pc[c] # "idle" => req[c].lot \in hydrated
PriceKnown == \A l \in hydrated : cache[l].max \in Amounts \union {StartPrice}

PriceInv ==
  /\ HolderInside
  /\ OneWinnerPerPrice
  /\ NoLostUpdate
  /\ SeenIsFresh
  /\ StoreTopsPrice
  /\ ClosedUntouched
  /\ InFlightHydrated
  /\ PriceKnown

\* Each lot's bid_placed events carry the bids 1, 2, 3, ... in that order,
\* with no gap before the one still being published, and the right BidCount.
Publishing(l) == \E c \in Chats : pc[c] = "publish" /\ req[c].lot = l
EventsInOrder ==
  \A l \in Lots :
     /\ \A i \in 1 .. Len(events[l]) : events[l][i] = [bid |-> i, count |-> i]
     /\ Len(events[l]) = IF Publishing(l) THEN Len(bids[l]) - 1 ELSE Len(bids[l])

\* An outbid notice goes to the author of the bid just displaced, never to
\* the one who displaced it, and to every such author.
OutbidTold ==
  \A l \in Lots :
     {note \in notices : note.lot = l} =
       {note \in [to : Chats, lot : {l}, bid : 2 .. Len(bids[l])] :
          /\ note.to = bids[l][note.bid - 1].chat
          /\ note.to # bids[l][note.bid].chat}

\* A step takes a key out of Redis only in its owner's own Release, or by the
\* TTL: the script's comparison protects a key taken over after a stall.
KeyLeavesRightly ==
  \A l \in Lots : lock[l] # Free /\ lock'[l] # lock[l]
    => \/ InSection(lock[l], l) /\ pc[lock[l]] = "release" /\ pc'[lock[l]] = "idle"
       \/ UNCHANGED <<pc, cache>>
NoForeignRelease == [][KeyLeavesRightly]_vars

\* With no failed call, a bidder is told to try again only while another
\* bidder's PlaceBid is inside the section of that very lot.
BusyRightly ==
  \A c \in Chats : pc[c] = "acquire" /\ pc'[c] = "idle"
    => \E d \in Chats \ {c} : InSection(d, req[c].lot)
BusyMeansContended == [][BusyRightly]_vars

\* The contest over a lot has a winner: once a bid reached the lock of a lot,
\* the lot gets a bid, even when everyone else in the contest is told to try
\* again.  (It need not be the highest: a higher bid may be the one refused.)
ContestHasWinner ==
  \A c \in Chats, l \in Lots :
     pc[c] = "acquire" /\ req[c].lot = l ~> bids[l] # <<>>

\* With no failed call, every bid that was accepted reaches the collection,
\* whoever it displaced and however its section was stalled (a failed insert
\* is logged and leaves the bid in memory only).
EveryBidInserted ==
  \A l \in Lots, n \in 1 .. MaxBids : n \in DOMAIN bids[l] ~> <<l, n>> \in mongo

\* Store is where a PlaceBid takes effect: read over the cache, the service
\* is the auction of LotAuction.
Auction == INSTANCE LotAuction WITH
  open <- hydrated,
  price <- [l \in Lots |-> cache[l].max],
  leader <- [l \in Lots |-> cache[l].chat],
  round <- [l \in Lots |-> cache[l].count],
  told <- notices

ImplementsLotAuction == Auction!Spec
=============================================================================
