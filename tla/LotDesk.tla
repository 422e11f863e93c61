------------------------------ MODULE LotDesk -------------------------------
(***************************************************************************)
(* The admin panel working on a lot while bids race: starting the auction  *)
(* (HydrateLot), selling a lot, cancelling a bid, pulling a lot, and a     *)
(* crash of the process with the restart of main.go.  The handlers take no *)
(* lock; each is cut at its accesses to the bid cache and to MongoDB.      *)
(*                                                                         *)
(* An admin clicks a button of the page the browser shows, which may be    *)
(* older than what other admins and bidders have done since.               *)
(***************************************************************************)
EXTENDS BidPlacement

CONSTANTS Admins,    \* browser sessions of the admin panel, one click at a time
          Desk,      \* which of "sell", "cancel", "pull", "restart" occur
          MaxClicks  \* bound: clicks and restarts

ASSUME DeskAssumption ==
  /\ Desk \subseteq {"sell", "cancel", "pull", "restart"}
  /\ MaxClicks \in Nat

VARIABLES status,    \* Auction.Status in MongoDB
          lotDoc,    \* the lots collection
          cancelled, \* the bids whose document has cancelled set
          pages,     \* the buttons each admin's page shows
          desk,      \* where each admin's handler is
          congrats,  \* the notification goroutines SellLot started
          clicks

deskVars == <<status, lotDoc, cancelled, pages, desk, congrats, clicks>>
allVars == <<vars, deskVars>>

\* The core's variables but the cache and who is in it.
bidVars == <<lock, bids, pc, req, seen, reply, inserting, mongo, notices, events>>

LotDoc == [status : {"active", "sold", "pulled"}, soldFor : 0 .. MaxInt, soldBid : Nat]
NewLot == [status |-> "active", soldFor |-> 0, soldBid |-> 0]
BidRefs == Lots \X Nat
Page == [start : BOOLEAN, lots : SUBSET Lots, bids : SUBSET BidRefs]

Idle == [op |-> "idle"]

\* Faulty variant: the starting price is forgotten.
FreshAtZero(l) == [ZeroState EXCEPT !.max = IF lotDoc[l].status = "sold" THEN lotDoc[l].soldFor
                                                                    ELSE 0]
\* HydrateLot's state for a lot without an entry.
Fresh(l) == [ZeroState EXCEPT !.max = IF lotDoc[l].status = "sold" THEN lotDoc[l].soldFor
                                                               ELSE StartPrice]

DeskInit ==
  /\ Init
  /\ status = "draft"
  /\ lotDoc = [l \in Lots |-> NewLot]
  /\ cancelled = {}
  /\ pages = [a \in Admins |-> [start |-> FALSE, lots |-> {}, bids |-> {}]]
  /\ desk = [a \in Admins |-> Idle]
  /\ congrats = {}
  /\ clicks = 0

-----------------------------------------------------------------------------
Goto(a, step) == desk' = [desk EXCEPT ![a] = step]
KeepDocs == UNCHANGED <<status, lotDoc, cancelled>>
KeepCache == UNCHANGED <<hydrated, cache, bidVars>>

\* Faulty variant: the page lists every accepted bid, inserted or not.
LoadUninserted(a) ==
  /\ desk[a] = Idle
  /\ pages' = [pages EXCEPT ![a] =
       [start |-> status = "draft", lots |-> Lots,
        bids |-> UNION {{l} \X (1 .. Len(bids[l])) : l \in Lots}]]
  /\ KeepCache
  /\ KeepDocs
  /\ UNCHANGED <<desk, congrats, clicks>>

\* The templates offer Start on a draft, and Sell, Cancel and Pull on the bids
\* listed for a lot that is active.
Load(a) ==
  /\ desk[a] = Idle
  /\ pages' = [pages EXCEPT ![a] =
       [start |-> status = "draft",
        lots |-> {l \in Lots : lotDoc[l].status = "active"},
        bids |-> {b \in mongo \ cancelled : lotDoc[b[1]].status = "active"}]]
  /\ KeepCache
  /\ KeepDocs
  /\ UNCHANGED <<desk, congrats, clicks>>

Click(a) ==
  /\ desk[a] = Idle
  /\ clicks < MaxClicks     \* bound
  /\ clicks' = clicks + 1
  /\ UNCHANGED <<hydrated, cache, bidVars, pages, congrats>>

-----------------------------------------------------------------------------
(***************************************************************************)
(* Activate: read the status, write it, then hydrate the lots one by one.  *)
(* The desk has one auction; the others that Activate ends first, and what *)
(* their failures do, are AuctionLifecycle's.                              *)
(***************************************************************************)
Start(a) ==
  /\ Click(a)
  /\ pages[a].start
  /\ \/ status = "draft" /\ Goto(a, [op |-> "activate"])
     \/ /\ status = "active" \/ Faults
        /\ UNCHANGED desk
  /\ KeepDocs

\* The list of the auctions or the status update may fail, the latter with or
\* without effect; of a list of lots that fails, those read before are hydrated.
Activate(a) ==
  /\ desk[a].op = "activate"
  /\ \/ /\ status' = "active"
        /\ \E list \in SUBSET Lots :
             /\ Faults \/ list = Lots
             /\ Goto(a, [op |-> "hydrate", lots |-> list])
     \/ /\ Faults
        /\ UNCHANGED status \/ status' = "active"
        /\ Goto(a, Idle)
  /\ KeepCache
  /\ UNCHANGED <<lotDoc, cancelled, pages, congrats, clicks>>

\* An entry that exists keeps what the bids wrote, as it was when read.
HydrateRead(a) ==
  /\ desk[a].op = "hydrate"
  /\ \/ \E l \in desk[a].lots :
          Goto(a, [op |-> "hydrateWrite", lots |-> desk[a].lots \ {l}, lot |-> l,
                   saved |-> IF l \in hydrated THEN cache[l] ELSE Fresh(l)])
     \/ desk[a].lots = {} /\ Goto(a, Idle)
  /\ KeepCache
  /\ KeepDocs
  /\ UNCHANGED <<pages, congrats, clicks>>

SetCache(l, state) ==
  /\ hydrated' = hydrated \union {l}
  /\ cache' = [cache EXCEPT ![l] = state]
  /\ UNCHANGED bidVars

HydrateWrite(a) ==
  /\ desk[a].op = "hydrateWrite"
  /\ SetCache(desk[a].lot, desk[a].saved)
  /\ Goto(a, [op |-> "hydrate", lots |-> desk[a].lots])
  /\ KeepDocs
  /\ UNCHANGED <<pages, congrats, clicks>>

-----------------------------------------------------------------------------
(***************************************************************************)
(* SellLot.  A lot whose hydration failed after a restart has no entry.    *)
(***************************************************************************)
\* Faulty variant: the price recorded is the leader's, whatever bid is sold.
MarkSoldAtMax(l, n) ==
  lotDoc' = [lotDoc EXCEPT ![l] = [status |-> "sold", soldFor |-> cache[l].max, soldBid |-> n]]

MarkSold(l, n) ==
  lotDoc' = [lotDoc EXCEPT ![l] =
               [status |-> "sold", soldFor |-> bids[l][n].amount, soldBid |-> n]]

Sell(a, l, n) ==
  /\ "sell" \in Desk
  /\ Click(a)
  /\ <<l, n>> \in pages[a].bids
  /\ \/ MarkSold(l, n) /\ Goto(a, [op |-> "sellRead", lot |-> l, bid |-> n])
     \/ Faults /\ (MarkSold(l, n) \/ UNCHANGED lotDoc) /\ UNCHANGED desk
  /\ UNCHANGED <<status, cancelled>>

Congratulate(l, n) ==
  congrats' = congrats \union {[to |-> bids[l][n].chat, lot |-> l, bid |-> n]}

SellRead(a) ==
  /\ desk[a].op = "sellRead"
  /\ LET l == desk[a].lot
         n == desk[a].bid
     IN \/ /\ l \in hydrated
           /\ Goto(a, [op |-> "sellWrite", lot |-> l, bid |-> n,
                       saved |-> [cache[l] EXCEPT !.bid = n]])
           /\ UNCHANGED congrats
        \/ /\ l \notin hydrated
           /\ Congratulate(l, n)
           /\ Goto(a, Idle)
  /\ KeepCache
  /\ KeepDocs
  /\ UNCHANGED <<pages, clicks>>

SellWrite(a) ==
  /\ desk[a].op = "sellWrite"
  /\ SetCache(desk[a].lot, desk[a].saved)
  /\ Congratulate(desk[a].lot, desk[a].bid)
  /\ Goto(a, Idle)
  /\ KeepDocs
  /\ UNCHANGED <<pages, clicks>>

-----------------------------------------------------------------------------
(***************************************************************************)
(* CancelBid.                                                              *)
(***************************************************************************)
Cancel(a, l, n) ==
  /\ "cancel" \in Desk
  /\ Click(a)
  /\ <<l, n>> \in pages[a].bids
  /\ \/ /\ cancelled' = cancelled \union {<<l, n>>}
        /\ Goto(a, [op |-> "cancelRead", lot |-> l, bid |-> n])
     \/ /\ Faults
        /\ cancelled' = cancelled \/ cancelled' = cancelled \union {<<l, n>>}
        /\ UNCHANGED desk
  /\ UNCHANGED <<status, lotDoc>>

\* Faulty variants: the bid before the leader is put back, cancelled or not;
\* only the price is reset, and the leader stays.
CancelToPrevious(a) ==
  /\ desk[a].op = "cancelRead"
  /\ LET l == desk[a].lot
         n == desk[a].bid - 1
     IN IF cache[l].bid = desk[a].bid /\ n > 0
        THEN Goto(a, [op |-> "cancelWrite", lot |-> l, bid |-> desk[a].bid,
                      saved |-> [max |-> bids[l][n].amount, bid |-> n,
                                 chat |-> bids[l][n].chat, count |-> n]])
        ELSE Goto(a, Idle)
  /\ KeepCache
  /\ KeepDocs
  /\ UNCHANGED <<pages, congrats, clicks>>
CancelKeepsLeader(a) ==
  /\ desk[a].op = "cancelRead"
  /\ Goto(a, [op |-> "cancelWrite", lot |-> desk[a].lot, bid |-> desk[a].bid,
              saved |-> [cache[desk[a].lot] EXCEPT !.max = 0, !.bid = 0]])
  /\ KeepCache
  /\ KeepDocs
  /\ UNCHANGED <<pages, congrats, clicks>>

\* Only the bid that leads is taken out; nothing puts the one before it back.
CancelRead(a) ==
  /\ desk[a].op = "cancelRead"
  /\ LET state == cache[desk[a].lot] IN
       IF desk[a].lot \in hydrated /\ state.bid = desk[a].bid
       THEN Goto(a, [op |-> "cancelWrite", lot |-> desk[a].lot, bid |-> desk[a].bid,
                     saved |-> [ZeroState EXCEPT !.count = IF state.count > 0
                                                           THEN state.count - 1 ELSE 0]])
       ELSE Goto(a, Idle)
  /\ KeepCache
  /\ KeepDocs
  /\ UNCHANGED <<pages, congrats, clicks>>

CancelWrite(a) ==
  /\ desk[a].op = "cancelWrite"
  /\ SetCache(desk[a].lot, desk[a].saved)
  /\ Goto(a, Idle)
  /\ KeepDocs
  /\ UNCHANGED <<pages, congrats, clicks>>

-----------------------------------------------------------------------------
(***************************************************************************)
(* Pull reads the lot's document and replaces it whole; either may fail.   *)
(***************************************************************************)
Pull(a, l) ==
  /\ "pull" \in Desk
  /\ Click(a)
  /\ l \in pages[a].lots
  /\ \/ Goto(a, [op |-> "pullWrite", lot |-> l, doc |-> lotDoc[l]])
     \/ Faults /\ UNCHANGED desk
  /\ KeepDocs

PullWrite(a) ==
  /\ desk[a].op = "pullWrite"
  /\ \/ lotDoc' = [lotDoc EXCEPT ![desk[a].lot] = [desk[a].doc EXCEPT !.status = "pulled"]]
     \/ Faults /\ UNCHANGED lotDoc
  /\ Goto(a, Idle)
  /\ KeepCache
  /\ UNCHANGED <<status, cancelled, pages, congrats, clicks>>

-----------------------------------------------------------------------------
(***************************************************************************)
(* The process dies, with its cache, its goroutines and its requests, and  *)
(* main.go hydrates the active auction's lots before anything else runs:   *)
(* none if the auction cannot be read, some if the list of its lots fails. *)
(* Redis, MongoDB and the browsers are not affected.                       *)
(***************************************************************************)
Restart ==
  /\ "restart" \in Desk
  /\ clicks < MaxClicks     \* bound
  /\ clicks' = clicks + 1
  /\ \E list \in SUBSET Lots :
       /\ IF status = "active" THEN Faults \/ list = Lots ELSE list = {}
       /\ hydrated' = list
       /\ cache' = [l \in Lots |-> IF l \in list THEN Fresh(l) ELSE ZeroState]
  /\ pc' = [c \in Chats |-> "idle"]
  /\ req' = [c \in Chats |-> NoRequest]
  /\ seen' = [c \in Chats |-> ZeroState]
  /\ reply' = [c \in Chats |-> "none"]
  /\ inserting' = {}
  /\ desk' = [a \in Admins |-> Idle]
  /\ UNCHANGED <<lock, bids, mongo, notices, events>>
  /\ KeepDocs
  /\ UNCHANGED <<pages, congrats>>

-----------------------------------------------------------------------------
Handler(a) ==
  \/ Load(a)
  \/ Start(a)
  \/ Activate(a)
  \/ HydrateRead(a)
  \/ HydrateWrite(a)
  \/ \E l \in Lots, n \in 1 .. MaxBids : Sell(a, l, n) \/ Cancel(a, l, n)
  \/ SellRead(a)
  \/ SellWrite(a)
  \/ CancelRead(a)
  \/ CancelWrite(a)
  \/ \E l \in Lots : Pull(a, l)
  \/ PullWrite(a)

BidNext ==
  /\ \/ \E c \in Chats : Bidder(c)
     \/ \E l \in Lots : Expire(l)
     \/ Database
  /\ UNCHANGED deskVars

DeskNext ==
  \/ BidNext
  \/ \E a \in Admins : Handler(a)
  \/ Restart

DeskSpec == DeskInit /\ [][DeskNext]_allVars

-----------------------------------------------------------------------------
(***************************************************************************)
(* Properties.                                                             *)
(***************************************************************************)

DeskState ==
  [op : {"idle", "activate"}]
    \union [op : {"hydrate"}, lots : SUBSET Lots]
    \union [op : {"hydrateWrite"}, lots : SUBSET Lots, lot : Lots, saved : LotState]
    \union [op : {"sellRead", "cancelRead"}, lot : Lots, bid : Nat]
    \union [op : {"sellWrite", "cancelWrite"}, lot : Lots, bid : Nat, saved : LotState]
    \union [op : {"pullWrite"}, lot : Lots, doc : LotDoc]

\* The documents, the pages and the handlers hold values of their types.
DeskTypeOK ==
  /\ status \in {"draft", "active"}
  /\ lotDoc \in [Lots -> LotDoc]
  /\ cancelled \subseteq BidRefs
  /\ pages \in [Admins -> Page]
  /\ \A a \in Admins : pages[a].bids \subseteq mongo
  /\ desk \in [Admins -> DeskState]
  /\ congrats \subseteq [to : Chats, lot : Lots, bid : Nat]

\* A sale record names a bid of that lot that reached MongoDB, and its price
\* is that bid's, whoever sells, pulls and cancels at the same time.
SaleRecordConsistent ==
  \A l \in Lots : lotDoc[l].soldBid # 0 =>
     /\ <<l, lotDoc[l].soldBid>> \in mongo
     /\ lotDoc[l].soldFor = bids[l][lotDoc[l].soldBid].amount

\* The leader and the price shown for a lot come from one accepted bid of that
\* chat, through every unlocked write of the desk.
LeaderIsReal ==
  \A l \in Lots : cache[l].chat # NoChat =>
     \E n \in 1 .. Len(bids[l]) :
        bids[l][n] = [chat |-> cache[l].chat, amount |-> cache[l].max]

\* A cancelled bid becomes the maximal one again only when an admin sells it,
\* or when a second Start, which read the entry before the cancellation,
\* writes it back: no other unlocked write of the desk, and no late bid.
WritesBack(a, b) ==
  /\ desk[a].op = "hydrateWrite" /\ desk[a].lot = b[1] /\ desk[a].saved.bid = b[2]
  /\ desk'[a].op = "hydrate"
OnlyASaleResurrects ==
  [][\A b \in cancelled : cache[b[1]].bid # b[2] /\ cache'[b[1]].bid = b[2]
       => \/ \E note \in congrats' : note.lot = b[1] /\ note.bid = b[2]
          \/ \E a \in Admins : WritesBack(a, b)]_allVars

\* The events of a lot's bids are published in the order the bids were taken,
\* none twice, over sales, cancellations, second Starts and crashes that leave
\* their key behind (while no section outlives its TTL).
AnnouncedInOrder ==
  \A l \in Lots : \A i, j \in DOMAIN events[l] : i < j => events[l][i].bid < events[l][j].bid

\* Whatever the desk writes back meanwhile, a notice of a bid goes to a chat
\* that bid on that lot before it and did not place it, and a congratulation
\* to the author of a bid MongoDB holds.
OutbidReal(note) ==
  /\ note.bid \in 1 .. Len(bids[note.lot])
  /\ bids[note.lot][note.bid].chat # note.to
  /\ \E m \in 1 .. note.bid - 1 : bids[note.lot][m].chat = note.to
NoticesReal ==
  /\ \A note \in notices : OutbidReal(note)
  /\ \A note \in congrats : /\ <<note.lot, note.bid>> \in mongo
                            /\ note.to = bids[note.lot][note.bid].chat

\* A bid is accepted below the starting price plus the step only after a bid
\* placed before it was cancelled: nothing else lowers the price of a lot.
FloorHeldUntilCancel ==
  \A l \in Lots : \A n \in 1 .. Len(bids[l]) :
     bids[l][n].amount < StartPrice + BidStep => \E m \in 1 .. n - 1 : <<l, m>> \in cancelled

\* The price of a restored lot is not below a bid MongoDB holds.
PriceSurvivesRestart ==
  \A b \in mongo \ cancelled : b[1] \in hydrated => cache[b[1]].max >= bids[b[1]][b[2]].amount
=============================================================================
