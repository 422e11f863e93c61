--------------------------- MODULE LotDeskProofs ---------------------------
(***************************************************************************)
(* Proofs about LotDesk, for every set of chats, lots and admins: what the *)
(* admin panel's unlocked writes to the bid cache and to the lots leave    *)
(* intact, whatever bids, failures and restarts come between two of them.  *)
(***************************************************************************)
EXTENDS LotDesk, BidPlacementProofs

-----------------------------------------------------------------------------
(***************************************************************************)
(* The steps seen by the desk.                                             *)
(***************************************************************************)
LEMMA StepFields ==
  ASSUME NEW step \in DeskState
  PROVE  /\ step.op = "hydrate" => step.lots \subseteq Lots
         /\ step.op = "hydrateWrite" =>
              step.lots \subseteq Lots /\ step.lot \in Lots /\ step.saved \in LotState
         /\ step.op \in {"sellRead", "cancelRead"} => step.lot \in Lots /\ step.bid \in Nat
         /\ step.op \in {"sellWrite", "cancelWrite"} =>
              step.lot \in Lots /\ step.bid \in Nat /\ step.saved \in LotState
         /\ step.op = "pullWrite" => step.lot \in Lots /\ step.doc \in LotDoc
<1>1. CASE step \in [op : {"idle", "activate"}]
  BY <1>1
<1>2. CASE step \in [op : {"hydrate"}, lots : SUBSET Lots]
  BY <1>2
<1>3. CASE step \in [op : {"hydrateWrite"}, lots : SUBSET Lots, lot : Lots, saved : LotState]
  BY <1>3
<1>4. CASE step \in [op : {"sellRead", "cancelRead"}, lot : Lots, bid : Nat]
  BY <1>4
<1>5. CASE step \in [op : {"sellWrite", "cancelWrite"}, lot : Lots, bid : Nat, saved : LotState]
  BY <1>5
<1>6. CASE step \in [op : {"pullWrite"}, lot : Lots, doc : LotDoc]
  BY <1>6
<1> QED  BY <1>1, <1>2, <1>3, <1>4, <1>5, <1>6 DEF DeskState

LEMMA DeskFields ==
  ASSUME DeskTypeOK, NEW a \in Admins
  PROVE  /\ desk[a].op = "hydrate" => desk[a].lots \subseteq Lots
         /\ desk[a].op = "hydrateWrite" =>
              desk[a].lots \subseteq Lots /\ desk[a].lot \in Lots /\ desk[a].saved \in LotState
         /\ desk[a].op \in {"sellRead", "cancelRead"} => desk[a].lot \in Lots /\ desk[a].bid \in Nat
         /\ desk[a].op \in {"sellWrite", "cancelWrite"} =>
              desk[a].lot \in Lots /\ desk[a].bid \in Nat /\ desk[a].saved \in LotState
         /\ desk[a].op = "pullWrite" => desk[a].lot \in Lots /\ desk[a].doc \in LotDoc
<1>1. desk[a] \in DeskState
  BY DEF DeskTypeOK
<1> QED  BY <1>1, StepFields

LEMMA GotoDesk ==
  ASSUME DeskTypeOK, NEW a \in Admins, NEW step, Goto(a, step)
  PROVE  /\ desk'[a] = step
         /\ \A o \in Admins \ {a} : desk'[o] = desk[o]
         /\ step \in DeskState => desk' \in [Admins -> DeskState]
BY DEF Goto, DeskTypeOK

\* A step of the core, and what it does to the bids and to MongoDB.
LEMMA BidCases ==
  ASSUME BidNext
  PROVE  /\ [Next]_vars
         /\ UNCHANGED deskVars
         /\ \/ \E c \in Chats : Store(c)
            \/ /\ UNCHANGED <<hydrated, cache, bids>>
               /\ inserting' \subseteq inserting
               /\ mongo \subseteq mongo' /\ mongo' \subseteq mongo \union inserting
<1>1. [Next]_vars /\ UNCHANGED deskVars
  BY DEF BidNext, Next
<1>2. ASSUME NEW c \in Chats, Bidder(c), ~Store(c)
      PROVE  UNCHANGED <<hydrated, cache, bids, inserting, mongo>>
  BY <1>2 DEF Bidder, PlaceBid, TryLock, AcquireFails, Recheck, Publish, Release, ReleaseFails
<1>3. ASSUME NEW l \in Lots, Expire(l)
      PROVE  UNCHANGED <<hydrated, cache, bids, inserting, mongo>>
  BY <1>3 DEF Expire
<1>4. CASE Database
  BY <1>1, <1>4 DEF Database, InsertDone, InsertFails
<1> QED  BY <1>1, <1>2, <1>3, <1>4 DEF BidNext

\* A handler, and what it leaves alone.
LEMMA HandlerKeeps ==
  ASSUME NEW a \in Admins, Handler(a)
  PROVE  UNCHANGED <<lock, bids, pc, req, seen, reply, inserting, mongo, notices, events>>
BY DEF Handler, Load, Start, Activate, HydrateRead, HydrateWrite, Sell, SellRead, SellWrite, Cancel,
       CancelRead, CancelWrite, Pull, PullWrite, Click, KeepCache, SetCache, bidVars

LEMMA StoreBids ==
  ASSUME TypeOK, NEW c \in Chats, Store(c), NEW l, l = req[c].lot
  PROVE  /\ l \in Lots /\ bids[l] \in Seq(Bid) /\ req[c].amount \in Amounts
         /\ bids'[l] = Append(bids[l], [chat |-> c, amount |-> req[c].amount])
         /\ \A k \in Lots \ {l} : bids'[k] = bids[k]
<1>1. l \in Lots /\ req[c].amount \in Amounts
  BY RequestTyped DEF Store
<1> QED  BY <1>1 DEF Store, TypeOK

\* A bid once stored stays where it is.
LEMMA BidsGrow ==
  ASSUME TypeOK, [DeskNext]_allVars, NEW l \in Lots
  PROVE  /\ Len(bids[l]) \in Nat /\ Len(bids'[l]) \in Nat
         /\ Len(bids[l]) <= Len(bids'[l])
         /\ \A n \in 1 .. Len(bids[l]) : bids'[l][n] = bids[l][n]
<1>1. Len(bids[l]) \in Nat
  BY DEF TypeOK
<1>2. ASSUME UNCHANGED bids PROVE bids'[l] = bids[l]
  BY <1>2
<1>3. ASSUME NEW c \in Chats, Store(c)
      PROVE  /\ Len(bids'[l]) \in Nat
             /\ Len(bids[l]) <= Len(bids'[l])
             /\ \A n \in 1 .. Len(bids[l]) : bids'[l][n] = bids[l][n]
  <2>1. CASE l = req[c].lot
    <3> DEFINE bid == [chat |-> c, amount |-> req[c].amount]
    <3>1. bids[l] \in Seq(Bid) /\ bids'[l] = Append(bids[l], bid) /\ bid \in Bid
      BY <1>3, <2>1, StoreBids DEF Bid
    <3> HIDE DEF bid
    <3> QED  BY <3>1
  <2>2. CASE l # req[c].lot
    <3>1. bids'[l] = bids[l]
      BY <1>3, <2>2, StoreBids
    <3> QED  BY <1>1, <3>1
  <2> QED  BY <2>1, <2>2
<1>4. (\E c \in Chats : Store(c)) \/ UNCHANGED bids
  BY BidCases, HandlerKeeps DEF DeskNext, Restart, allVars, vars
<1> QED  BY <1>1, <1>2, <1>3, <1>4

\* MongoDB loses no bid.
LEMMA MongoGrows == ASSUME [DeskNext]_allVars PROVE mongo \subseteq mongo'
BY BidCases, HandlerKeeps DEF DeskNext, Restart, allVars, vars, Store

-----------------------------------------------------------------------------
(***************************************************************************)
(* Types.  A bid in MongoDB, or on its way there, is a bid that was        *)
(* accepted; the handlers and the pages name bids of MongoDB only.         *)
(***************************************************************************)
Placed(b) == b[2] \in 1 .. Len(bids[b[1]])
BidOf(step) == <<step.lot, step.bid>>

Filed == \A b \in mongo \union inserting : Placed(b)
Wanted ==
  \A a \in Admins :
    desk[a].op \in {"sellRead", "sellWrite", "cancelRead", "cancelWrite"}
      => BidOf(desk[a]) \in mongo

DeskInv == TypeOK /\ DeskTypeOK /\ Filed /\ Wanted /\ cancelled \subseteq mongo

LEMMA PlacedStays ==
  ASSUME TypeOK, [DeskNext]_allVars, NEW b \in Lots \X Nat, Placed(b) PROVE Placed(b)'
<1>1. b[1] \in Lots /\ b[2] \in Nat
  OBVIOUS
<1>2. /\ Len(bids[b[1]]) \in Nat /\ Len(bids'[b[1]]) \in Nat
      /\ Len(bids[b[1]]) <= Len(bids'[b[1]])
  BY <1>1, BidsGrow
<1> QED  BY <1>1, <1>2 DEF Placed

LEMMA FiledStep ==
  ASSUME TypeOK, Filed, [DeskNext]_allVars PROVE Filed'
<1>0. mongo \union inserting \subseteq Lots \X Nat
  BY DEF TypeOK
<1>1. ASSUME NEW c \in Chats, Store(c) PROVE Filed'
  <2>1. PICK l \in Lots : l = req[c].lot
    BY <1>1, RequestTyped DEF Store
  <2>2. PICK n : n = Len(bids[l]) + 1
    OBVIOUS
  <2>3. /\ inserting' = inserting \union {<<l, n>>}
        /\ mongo' = mongo
    BY <1>1, <2>1, <2>2 DEF Store
  <2>4. n \in 1 .. Len(bids'[l])
    <3>1. bids[l] \in Seq(Bid) /\ bids'[l] = Append(bids[l], [chat |-> c, amount |-> req[c].amount])
      BY <1>1, <2>1, StoreBids
    <3> QED  BY <2>2, <3>1
  <2>5. Placed(<<l, n>>)'
    BY <2>4 DEF Placed
  <2> QED  BY <1>0, <2>3, <2>5, PlacedStays DEF Filed
<1>2. ASSUME mongo' \union inserting' \subseteq mongo \union inserting PROVE Filed'
  BY <1>0, <1>2, PlacedStays DEF Filed
<1>3. mongo' \union inserting' \subseteq mongo \union inserting \/ \E c \in Chats : Store(c)
  BY BidCases, HandlerKeeps DEF DeskNext, Restart, allVars, vars
<1> QED  BY <1>1, <1>2, <1>3

LEMMA FreshType ==
  ASSUME DeskTypeOK, NEW l \in Lots PROVE Fresh(l) \in LotState /\ ZeroState \in LotState
<1>1. lotDoc[l].soldFor \in 0 .. MaxInt /\ StartPrice \in 0 .. MaxInt /\ 0 \in 0 .. MaxInt
  BY BidAssumption DEF DeskTypeOK, LotDoc
<1> QED  BY <1>1 DEF Fresh, ZeroState, LotState

LEMMA CacheType ==
  ASSUME TypeOK, NEW l \in Lots, NEW state \in LotState, SetCache(l, state)
  PROVE  TypeOK'
BY DEF SetCache, bidVars, TypeOK

\* The price of a bid in MongoDB.
LEMMA SumType ==
  ASSUME TypeOK, NEW b \in Lots \X Nat, Placed(b)
  PROVE  /\ bids[b[1]][b[2]].amount \in Amounts
         /\ bids[b[1]][b[2]].amount \in 0 .. MaxInt
         /\ bids[b[1]][b[2]].chat \in Chats
<1>1. bids[b[1]] \in Seq(Bid)
  BY DEF TypeOK
<1>2. bids[b[1]][b[2]] \in Bid
  BY <1>1 DEF Placed
<1>3. \A amount \in Amounts : amount \in 0 .. MaxInt
  BY BidAssumption
<1> QED  BY <1>2, <1>3 DEF Bid

LEMMA TypeStep == ASSUME TypeOK, DeskTypeOK, [DeskNext]_allVars PROVE TypeOK'
<1>1. CASE BidNext
  BY <1>1, BidCases, NextType
<1>2. ASSUME NEW a \in Admins, HydrateWrite(a) \/ SellWrite(a) \/ CancelWrite(a) PROVE TypeOK'
  <2>1. desk[a].op \in {"hydrateWrite", "sellWrite", "cancelWrite"} /\ SetCache(desk[a].lot, desk[a].saved)
    BY <1>2 DEF HydrateWrite, SellWrite, CancelWrite
  <2>2. desk[a].lot \in Lots /\ desk[a].saved \in LotState
    BY <2>1, DeskFields
  <2> QED  BY <2>1, <2>2, CacheType
<1>3. ASSUME NEW a \in Admins, Handler(a), ~HydrateWrite(a), ~SellWrite(a), ~CancelWrite(a)
      PROVE  UNCHANGED vars
  BY <1>3 DEF Handler, Load, Start, Activate, HydrateRead, Sell, SellRead, Cancel, CancelRead, Pull,
              PullWrite, Click, KeepCache, bidVars, vars
<1>4. CASE Restart
  <2>1. /\ hydrated' \subseteq Lots
        /\ cache' \in [Lots -> LotState]
    BY <1>4, FreshType DEF Restart
  <2>2. /\ pc' = [c \in Chats |-> "idle"]
        /\ req' = [c \in Chats |-> NoRequest]
        /\ seen' = [c \in Chats |-> ZeroState]
        /\ reply' = [c \in Chats |-> "none"]
        /\ inserting' = {}
        /\ UNCHANGED <<lock, bids, mongo, notices, events>>
    BY <1>4 DEF Restart
  <2>3. ZeroState \in LotState
    BY BidAssumption DEF ZeroState, LotState
  <2> QED  BY <2>1, <2>2, <2>3 DEF TypeOK
<1>5. ASSUME UNCHANGED vars PROVE TypeOK'
  BY <1>5 DEF vars, TypeOK
<1> QED  BY <1>1, <1>2, <1>3, <1>4, <1>5 DEF DeskNext, allVars

\* A handler's next step, for its own type and for the bids it names.
LEMMA NextStep ==
  ASSUME DeskInv, [DeskNext]_allVars, NEW a \in Admins, NEW step \in DeskState, Goto(a, step),
         step.op \in {"sellRead", "sellWrite", "cancelRead", "cancelWrite"} => BidOf(step) \in mongo,
         status' \in {"draft", "active"}, lotDoc' \in [Lots -> LotDoc],
         cancelled' \subseteq mongo, UNCHANGED pages,
         congrats' \subseteq [to : Chats, lot : Lots, bid : Nat]
  PROVE  DeskInv'
<1>1. mongo \subseteq mongo' /\ mongo \subseteq Lots \X Nat
  BY MongoGrows DEF DeskInv, TypeOK
<1>2. TypeOK' /\ Filed'
  BY TypeStep, FiledStep DEF DeskInv
<1>3. DeskTypeOK'
  BY <1>1, GotoDesk DEF DeskInv, DeskTypeOK, BidRefs
<1>4. ASSUME NEW o \in Admins,
             desk'[o].op \in {"sellRead", "sellWrite", "cancelRead", "cancelWrite"}
      PROVE  BidOf(desk'[o]) \in mongo'
  BY <1>1, <1>4, GotoDesk DEF DeskInv, Wanted
<1>5. Wanted'
  BY <1>4 DEF Wanted, BidOf
<1> QED  BY <1>1, <1>2, <1>3, <1>5 DEF DeskInv

\* A step that no handler takes.
LEMMA SameDesk ==
  ASSUME DeskInv, [DeskNext]_allVars,
         UNCHANGED <<status, lotDoc, desk, congrats>>, cancelled' \subseteq mongo,
         \/ UNCHANGED pages
         \/ \E a \in Admins, page \in Page :
              pages' = [pages EXCEPT ![a] = page] /\ page.bids \subseteq mongo
  PROVE  DeskInv'
<1>1. mongo \subseteq mongo' /\ mongo \subseteq Lots \X Nat
  BY MongoGrows DEF DeskInv, TypeOK
<1>2. TypeOK' /\ Filed'
  BY TypeStep, FiledStep DEF DeskInv
<1>3. DeskTypeOK'
  BY <1>1 DEF DeskInv, DeskTypeOK, BidRefs
<1>4. Wanted'
  BY <1>1 DEF DeskInv, Wanted, BidOf
<1> QED  BY <1>1, <1>2, <1>3, <1>4 DEF DeskInv

LEMMA IdleStep == Idle \in DeskState /\ Idle.op = "idle"
BY DEF Idle, DeskState

LEMMA StartStep ==
  ASSUME DeskInv, [DeskNext]_allVars, NEW a \in Admins,
         Load(a) \/ Start(a) \/ Activate(a) \/ HydrateRead(a) \/ HydrateWrite(a)
  PROVE  DeskInv'
<1> USE DEF KeepDocs
<1>c. cancelled \subseteq mongo /\ DeskTypeOK /\ TypeOK
  BY DEF DeskInv
<1>1. CASE Load(a)
  <2> DEFINE page == [start |-> status = "draft",
                      lots |-> {l \in Lots : lotDoc[l].status = "active"},
                      bids |-> {b \in mongo \ cancelled : lotDoc[b[1]].status = "active"}]
  <2>1. page \in Page /\ page.bids \subseteq mongo
    BY <1>c DEF Page, BidRefs, TypeOK
  <2>2. pages' = [pages EXCEPT ![a] = page]
    BY <1>1 DEF Load
  <2> HIDE DEF page
  <2> QED  BY <1>1, <1>c, <2>1, <2>2, SameDesk DEF Load
<1>2. CASE Start(a)
  <2>1. [op |-> "activate"] \in DeskState
    BY DEF DeskState
  <2>2. UNCHANGED <<status, lotDoc, cancelled, pages, congrats>>
    BY <1>2 DEF Start, Click
  <2>3. CASE UNCHANGED desk
    BY <1>c, <2>2, <2>3, SameDesk
  <2>4. CASE Goto(a, [op |-> "activate"])
    BY <1>c, <2>1, <2>2, <2>4, NextStep DEF DeskTypeOK
  <2> QED  BY <1>2, <2>3, <2>4 DEF Start
<1>3. CASE Activate(a)
  <2>1. ASSUME NEW list \in SUBSET Lots PROVE [op |-> "hydrate", lots |-> list] \in DeskState
    BY DEF DeskState
  <2>2. PICK step \in DeskState : Goto(a, step) /\ step.op \in {"idle", "hydrate"}
    BY <1>3, <2>1, IdleStep DEF Activate
  <2>3. status' \in {"draft", "active"} /\ UNCHANGED <<lotDoc, cancelled, pages, congrats>>
    BY <1>3, <1>c DEF Activate, DeskTypeOK
  <2> QED  BY <1>c, <2>2, <2>3, NextStep DEF DeskTypeOK
<1>4. CASE HydrateRead(a)
  <2>1. desk[a].lots \subseteq Lots
    BY <1>4, <1>c, DeskFields DEF HydrateRead
  <2>2. ASSUME NEW l \in desk[a].lots
        PROVE  [op |-> "hydrateWrite", lots |-> desk[a].lots \ {l}, lot |-> l,
                saved |-> IF l \in hydrated THEN cache[l] ELSE Fresh(l)] \in DeskState
    <3>1. (IF l \in hydrated THEN cache[l] ELSE Fresh(l)) \in LotState
      BY <1>c, <2>1, FreshType DEF TypeOK
    <3> QED  BY <2>1, <3>1 DEF DeskState
  <2>3. PICK step \in DeskState : Goto(a, step) /\ step.op \in {"idle", "hydrateWrite"}
    BY <1>4, <2>2, IdleStep DEF HydrateRead
  <2> QED  BY <1>4, <1>c, <2>3, NextStep DEF HydrateRead, DeskTypeOK
<1>5. CASE HydrateWrite(a)
  <2>1. desk[a].lots \subseteq Lots
    BY <1>5, <1>c, DeskFields DEF HydrateWrite
  <2>2. [op |-> "hydrate", lots |-> desk[a].lots] \in DeskState
    BY <2>1 DEF DeskState
  <2>3. Goto(a, [op |-> "hydrate", lots |-> desk[a].lots])
    BY <1>5 DEF HydrateWrite
  <2> QED  BY <1>5, <1>c, <2>2, <2>3, NextStep DEF HydrateWrite, DeskTypeOK
<1> QED  BY <1>1, <1>2, <1>3, <1>4, <1>5

LEMMA CongratsType ==
  ASSUME DeskInv, NEW l, NEW n, <<l, n>> \in mongo, Congratulate(l, n)
  PROVE  congrats' \subseteq [to : Chats, lot : Lots, bid : Nat]
<1>1. <<l, n>> \in Lots \X Nat /\ Placed(<<l, n>>)
  BY DEF DeskInv, TypeOK, Filed
<1>2. bids[l][n].chat \in Chats
  BY <1>1, SumType DEF DeskInv
<1> QED  BY <1>1, <1>2 DEF Congratulate, DeskInv, DeskTypeOK

LEMMA SellStep ==
  ASSUME DeskInv, [DeskNext]_allVars, NEW a \in Admins,
         (\E l \in Lots, n \in 1 .. MaxBids : Sell(a, l, n)) \/ SellRead(a) \/ SellWrite(a)
  PROVE  DeskInv'
<1> USE DEF KeepDocs
<1>c. cancelled \subseteq mongo /\ DeskTypeOK /\ TypeOK
  BY DEF DeskInv
<1>1. ASSUME NEW l \in Lots, NEW n \in 1 .. MaxBids, Sell(a, l, n) PROVE DeskInv'
  <2> DEFINE step == [op |-> "sellRead", lot |-> l, bid |-> n]
  <2>1. <<l, n>> \in mongo
    BY <1>1, <1>c DEF Sell, DeskTypeOK
  <2>2. step \in DeskState /\ BidOf(step) \in mongo
    BY <2>1 DEF DeskState, BidOf
  <2>3. bids[l][n].amount \in 0 .. MaxInt
    <3>1. <<l, n>> \in Lots \X Nat /\ Placed(<<l, n>>)
      BY <2>1 DEF DeskInv, Filed
    <3> QED  BY <1>c, <3>1, SumType
  <2>4. lotDoc' \in [Lots -> LotDoc]
    <3>1. [status |-> "sold", soldFor |-> bids[l][n].amount, soldBid |-> n] \in LotDoc
      BY <2>3 DEF LotDoc
    <3> QED  BY <1>1, <1>c, <3>1 DEF Sell, MarkSold, DeskTypeOK
  <2>5. UNCHANGED <<status, cancelled, pages, congrats>>
    BY <1>1 DEF Sell, Click
  <2>6. CASE Goto(a, step)
    BY <1>c, <2>2, <2>4, <2>5, <2>6, NextStep DEF DeskTypeOK
  <2>7. CASE UNCHANGED desk
    <3>1. desk[a] = Idle /\ Goto(a, desk[a])
      BY <1>1, <1>c, <2>7 DEF Sell, Click, Goto, DeskTypeOK
    <3> QED  BY <1>c, <2>4, <2>5, <3>1, IdleStep, NextStep DEF DeskTypeOK
  <2> QED  BY <1>1, <2>6, <2>7 DEF Sell
<1>2. CASE SellRead(a)
  <2> DEFINE step == [op |-> "sellWrite", lot |-> desk[a].lot, bid |-> desk[a].bid,
                      saved |-> [cache[desk[a].lot] EXCEPT !.bid = desk[a].bid]]
  <2>1. desk[a].op = "sellRead" /\ desk[a].lot \in Lots /\ desk[a].bid \in Nat
    BY <1>2, <1>c, DeskFields DEF SellRead
  <2>2. [cache[desk[a].lot] EXCEPT !.bid = desk[a].bid] \in LotState
    <3>1. PICK state \in LotState : state = cache[desk[a].lot]
      BY <1>c, <2>1 DEF TypeOK
    <3>2. [state EXCEPT !.bid = desk[a].bid] \in LotState
      BY <2>1 DEF LotState
    <3> QED  BY <3>1, <3>2
  <2>3. step \in DeskState /\ step.op = "sellWrite" /\ BidOf(step) \in mongo
    BY <2>1, <2>2 DEF DeskState, DeskInv, Wanted, BidOf
  <2>4. UNCHANGED <<status, lotDoc, cancelled, pages>>
    BY <1>2 DEF SellRead
  <2>5. CASE Goto(a, step) /\ UNCHANGED congrats
    <3> HIDE DEF step
    <3> QED  BY <1>c, <2>3, <2>4, <2>5, NextStep DEF DeskTypeOK
  <2>6. CASE Goto(a, Idle) /\ Congratulate(desk[a].lot, desk[a].bid)
    <3>1. congrats' \subseteq [to : Chats, lot : Lots, bid : Nat]
      BY <2>1, <2>6, CongratsType DEF DeskInv, Wanted, BidOf
    <3> QED  BY <1>c, <2>4, <2>6, <3>1, IdleStep, NextStep DEF DeskTypeOK
  <2> QED  BY <1>2, <2>5, <2>6 DEF SellRead
<1>3. CASE SellWrite(a)
  <2>1. congrats' \subseteq [to : Chats, lot : Lots, bid : Nat]
    BY <1>3, CongratsType DEF SellWrite, DeskInv, Wanted, BidOf
  <2>2. Goto(a, Idle)
    BY <1>3 DEF SellWrite
  <2> QED  BY <1>3, <1>c, <2>1, <2>2, IdleStep, NextStep DEF SellWrite, DeskTypeOK
<1> QED  BY <1>1, <1>2, <1>3

LEMMA CancelStep ==
  ASSUME DeskInv, [DeskNext]_allVars, NEW a \in Admins,
         (\E l \in Lots, n \in 1 .. MaxBids : Cancel(a, l, n)) \/ CancelRead(a) \/ CancelWrite(a)
  PROVE  DeskInv'
<1> USE DEF KeepDocs
<1>c. cancelled \subseteq mongo /\ DeskTypeOK /\ TypeOK
  BY DEF DeskInv
<1>1. ASSUME NEW l \in Lots, NEW n \in 1 .. MaxBids, Cancel(a, l, n) PROVE DeskInv'
  <2> DEFINE step == [op |-> "cancelRead", lot |-> l, bid |-> n]
  <2>1. <<l, n>> \in mongo
    BY <1>1, <1>c DEF Cancel, DeskTypeOK
  <2>2. step \in DeskState /\ BidOf(step) \in mongo
    BY <2>1 DEF DeskState, BidOf
  <2>3. UNCHANGED <<status, lotDoc, pages, congrats>> /\ cancelled' \subseteq mongo
    BY <1>1, <1>c, <2>1 DEF Cancel, Click
  <2>4. CASE Goto(a, step)
    BY <1>c, <2>2, <2>3, <2>4, NextStep DEF DeskTypeOK
  <2>5. CASE UNCHANGED desk
    BY <2>3, <2>5, SameDesk
  <2> QED  BY <1>1, <2>4, <2>5 DEF Cancel
<1>2. CASE CancelRead(a)
  <2>1. desk[a].op = "cancelRead" /\ desk[a].lot \in Lots /\ desk[a].bid \in Nat
    BY <1>2, <1>c, DeskFields DEF CancelRead
  <2> DEFINE count == IF cache[desk[a].lot].count > 0 THEN cache[desk[a].lot].count - 1 ELSE 0
             saved == [ZeroState EXCEPT !.count = count]
             step == [op |-> "cancelWrite", lot |-> desk[a].lot, bid |-> desk[a].bid,
                      saved |-> saved]
  <2>2. count \in Nat
    BY <1>c, <2>1 DEF TypeOK, LotState
  <2>3. saved \in LotState
    BY <1>c, <2>1, <2>2, FreshType DEF LotState
  <2>4. step \in DeskState /\ step.op = "cancelWrite" /\ BidOf(step) \in mongo
    <3> HIDE DEF saved
    <3> QED  BY <2>1, <2>3 DEF DeskState, DeskInv, Wanted, BidOf
  <2>5. Goto(a, step) \/ Goto(a, Idle)
    BY <1>2 DEF CancelRead
  <2> HIDE DEF step
  <2> QED  BY <1>2, <1>c, <2>4, <2>5, IdleStep, NextStep DEF CancelRead, DeskTypeOK
<1>3. CASE CancelWrite(a)
  <2>1. Goto(a, Idle)
    BY <1>3 DEF CancelWrite
  <2> QED  BY <1>3, <1>c, <2>1, IdleStep, NextStep DEF CancelWrite, DeskTypeOK
<1> QED  BY <1>1, <1>2, <1>3

LEMMA PullStep ==
  ASSUME DeskInv, [DeskNext]_allVars, NEW a \in Admins,
         (\E l \in Lots : Pull(a, l)) \/ PullWrite(a)
  PROVE  DeskInv'
<1> USE DEF KeepDocs
<1>c. cancelled \subseteq mongo /\ DeskTypeOK /\ TypeOK
  BY DEF DeskInv
<1>1. ASSUME NEW l \in Lots, Pull(a, l) PROVE DeskInv'
  <2> DEFINE step == [op |-> "pullWrite", lot |-> l, doc |-> lotDoc[l]]
  <2>1. step \in DeskState /\ step.op = "pullWrite"
    BY <1>c DEF DeskState, DeskTypeOK
  <2>2. UNCHANGED <<status, lotDoc, cancelled, pages, congrats>>
    BY <1>1 DEF Pull, Click
  <2>3. CASE Goto(a, step)
    <3> HIDE DEF step
    <3> QED  BY <1>c, <2>1, <2>2, <2>3, NextStep DEF DeskTypeOK
  <2>4. CASE UNCHANGED desk
    BY <1>c, <2>2, <2>4, SameDesk
  <2> QED  BY <1>1, <2>3, <2>4 DEF Pull
<1>2. CASE PullWrite(a)
  <2>1. desk[a].lot \in Lots /\ desk[a].doc \in LotDoc
    BY <1>2, <1>c, DeskFields DEF PullWrite
  <2>2. [desk[a].doc EXCEPT !.status = "pulled"] \in LotDoc
    BY <2>1 DEF LotDoc
  <2>3. lotDoc' \in [Lots -> LotDoc]
    BY <1>2, <1>c, <2>1, <2>2 DEF PullWrite, DeskTypeOK
  <2>4. Goto(a, Idle)
    BY <1>2 DEF PullWrite
  <2> QED  BY <1>2, <1>c, <2>3, <2>4, IdleStep, NextStep DEF PullWrite, DeskTypeOK
<1> QED  BY <1>1, <1>2

LEMMA DeskInvStep == ASSUME DeskInv, [DeskNext]_allVars PROVE DeskInv'
<1>1. ASSUME NEW a \in Admins, Handler(a) PROVE DeskInv'
  BY <1>1, StartStep, SellStep, CancelStep, PullStep DEF Handler
<1>2. CASE Restart
  <2>1. desk' \in [Admins -> DeskState] /\ \A a \in Admins : desk'[a].op = "idle"
    BY <1>2, IdleStep DEF Restart
  <2>2. TypeOK' /\ Filed'
    BY TypeStep, FiledStep DEF DeskInv
  <2>3. DeskTypeOK' /\ cancelled' \subseteq mongo'
    BY <1>2, <2>1 DEF Restart, KeepDocs, DeskInv, DeskTypeOK
  <2>4. Wanted'
    BY <2>1 DEF Wanted
  <2> QED  BY <2>2, <2>3, <2>4 DEF DeskInv
<1>3. ASSUME UNCHANGED deskVars PROVE DeskInv'
  BY <1>3, SameDesk DEF deskVars, DeskInv
<1> QED  BY <1>1, <1>2, <1>3, BidCases DEF DeskNext, allVars

LEMMA DeskInvariant == DeskSpec => []DeskInv
<1>1. DeskInit => DeskInv
  <2> SUFFICES ASSUME DeskInit PROVE DeskInv
    OBVIOUS
  <2>1. TypeOK
    BY InitType DEF DeskInit
  <2>2. NewLot \in LotDoc
    BY BidAssumption DEF NewLot, LotDoc
  <2>3. DeskTypeOK
    BY <2>2, IdleStep DEF DeskInit, DeskTypeOK, Page
  <2>4. Filed /\ Wanted /\ cancelled \subseteq mongo
    BY IdleStep DEF DeskInit, Init, Filed, Wanted
  <2> QED  BY <2>1, <2>3, <2>4 DEF DeskInv
<1>2. DeskInv /\ [DeskNext]_allVars => DeskInv'
  BY DeskInvStep
<1> QED  BY <1>1, <1>2, PTL DEF DeskSpec

\* The documents, the pages and the handlers keep their types: a page and a
\* handler name bids of MongoDB only.
THEOREM DeskTypeCorrect == DeskSpec => []DeskTypeOK
<1>1. DeskInv => DeskTypeOK
  BY DEF DeskInv
<1> QED  BY <1>1, DeskInvariant, PTL

-----------------------------------------------------------------------------
(***************************************************************************)
(* Where a lot's document, its cache entry and the state a handler is      *)
(* about to write back come from.                                          *)
(***************************************************************************)
Writes == {"hydrateWrite", "sellWrite", "cancelWrite"}

LEMMA DocOrigin ==
  ASSUME DeskInv, [DeskNext]_allVars, NEW l \in Lots
  PROVE  \/ lotDoc'[l] = lotDoc[l]
         \/ \E n \in Nat : /\ <<l, n>> \in mongo
                           /\ lotDoc'[l] = [status |-> "sold", soldFor |-> bids[l][n].amount,
                                            soldBid |-> n]
         \/ \E a \in Admins : /\ desk[a].op = "pullWrite" /\ desk[a].lot = l
                              /\ lotDoc'[l] = [desk[a].doc EXCEPT !.status = "pulled"]
<1> USE DEF KeepDocs
<1>t. lotDoc \in [Lots -> LotDoc] /\ \A a \in Admins : pages[a].bids \subseteq mongo
  BY DEF DeskInv, DeskTypeOK
<1>1. ASSUME NEW a \in Admins, NEW k \in Lots, NEW n \in 1 .. MaxBids, Sell(a, k, n)
      PROVE  \/ lotDoc'[l] = lotDoc[l]
             \/ /\ <<l, n>> \in mongo
                /\ lotDoc'[l] = [status |-> "sold", soldFor |-> bids[l][n].amount, soldBid |-> n]
  BY <1>1, <1>t DEF Sell, MarkSold
<1>2. ASSUME NEW a \in Admins, PullWrite(a)
      PROVE  \/ lotDoc'[l] = lotDoc[l]
             \/ /\ desk[a].op = "pullWrite" /\ desk[a].lot = l
                /\ lotDoc'[l] = [desk[a].doc EXCEPT !.status = "pulled"]
  BY <1>2, <1>t DEF PullWrite
<1>3. ASSUME NEW a \in Admins, Handler(a), ~PullWrite(a),
             ~\E k \in Lots, n \in 1 .. MaxBids : Sell(a, k, n)
      PROVE  UNCHANGED lotDoc
  BY <1>3 DEF Handler, Load, Start, Activate, HydrateRead, HydrateWrite, SellRead, SellWrite,
              Cancel, CancelRead, CancelWrite, Pull
<1>4. (\A a \in Admins : ~Handler(a)) => UNCHANGED lotDoc
  BY BidCases DEF DeskNext, Restart, allVars, deskVars
<1> QED  BY <1>1, <1>2, <1>3, <1>4

\* A handler that is not idle after a step was there before, or its own
\* action took it there.
LEMMA DeskOrigin ==
  ASSUME DeskInv, [DeskNext]_allVars, NEW a \in Admins
  PROVE  \/ desk'[a] = desk[a]
         \/ desk'[a].op = "idle"
         \/ desk'[a].op = "activate" /\ Start(a)
         \/ desk'[a].op = "hydrate" /\ Activate(a)
         \/ desk'[a].op = "hydrate" /\ HydrateWrite(a) /\ desk'[a].lots = desk[a].lots
         \/ /\ desk'[a].op = "hydrateWrite" /\ HydrateRead(a)
            /\ \E l \in desk[a].lots :
                 /\ desk'[a].lot = l /\ desk'[a].lots = desk[a].lots \ {l}
                 /\ desk'[a].saved = IF l \in hydrated THEN cache[l] ELSE Fresh(l)
         \/ /\ desk'[a].op = "sellRead"
            /\ \E l \in Lots, n \in 1 .. MaxBids :
                 Sell(a, l, n) /\ desk'[a].lot = l /\ desk'[a].bid = n
         \/ /\ desk'[a].op = "sellWrite" /\ SellRead(a) /\ desk[a].lot \in hydrated
            /\ desk'[a].lot = desk[a].lot /\ desk'[a].bid = desk[a].bid
            /\ desk'[a].saved = [cache[desk[a].lot] EXCEPT !.bid = desk[a].bid]
         \/ /\ desk'[a].op = "cancelRead"
            /\ \E l \in Lots, n \in 1 .. MaxBids :
                 /\ Cancel(a, l, n) /\ desk'[a].lot = l /\ desk'[a].bid = n
                 /\ <<l, n>> \in cancelled'
         \/ /\ desk'[a].op = "cancelWrite" /\ CancelRead(a)
            /\ desk'[a].lot = desk[a].lot /\ desk'[a].bid = desk[a].bid
            /\ \E count : desk'[a].saved = [ZeroState EXCEPT !.count = count]
         \/ /\ desk'[a].op = "pullWrite"
            /\ \E l \in Lots :
                 Pull(a, l) /\ desk'[a].lot = l /\ desk'[a].doc = lotDoc[l]
<1>t. DeskTypeOK
  BY DEF DeskInv
<1>1. ASSUME NEW step, Goto(a, step) PROVE desk'[a] = step
  BY <1>t, <1>1, GotoDesk
<1>2. ASSUME NEW o \in Admins \ {a}, Handler(o) PROVE desk'[a] = desk[a]
  <2>1. UNCHANGED desk \/ \E step : Goto(o, step)
    BY <1>2 DEF Handler, Load, Start, Activate, HydrateRead, HydrateWrite, Sell, SellRead, SellWrite,
                Cancel, CancelRead, CancelWrite, Pull, PullWrite
  <2> QED  BY <1>t, <2>1, GotoDesk
<1>3. CASE Load(a)
  BY <1>3 DEF Load
<1>4. CASE Start(a)
  BY <1>1, <1>4 DEF Start
<1>5. CASE Activate(a)
  <2>1. CASE Goto(a, Idle)
    BY <1>1, <2>1, IdleStep
  <2>2. ASSUME NEW list, Goto(a, [op |-> "hydrate", lots |-> list]) PROVE desk'[a].op = "hydrate"
    BY <1>1, <2>2
  <2> QED  BY <1>5, <2>1, <2>2 DEF Activate
<1>6. CASE HydrateRead(a)
  <2>1. CASE Goto(a, Idle)
    BY <1>1, <2>1, IdleStep
  <2>2. ASSUME NEW l \in desk[a].lots, NEW state,
               state = (IF l \in hydrated THEN cache[l] ELSE Fresh(l)),
               Goto(a, [op |-> "hydrateWrite", lots |-> desk[a].lots \ {l}, lot |-> l, saved |-> state])
        PROVE  /\ desk'[a].op = "hydrateWrite"
               /\ desk'[a].lot = l /\ desk'[a].lots = desk[a].lots \ {l}
               /\ desk'[a].saved = state
    BY <1>1, <2>2
  <2> QED  BY <1>6, <2>1, <2>2 DEF HydrateRead
<1>7. CASE HydrateWrite(a)
  BY <1>1, <1>7 DEF HydrateWrite
<1>8. CASE \E l \in Lots, n \in 1 .. MaxBids : Sell(a, l, n)
  BY <1>1, <1>8 DEF Sell
<1>9. CASE SellRead(a)
  BY <1>1, <1>9, IdleStep DEF SellRead
<1>10. CASE SellWrite(a) \/ CancelWrite(a) \/ PullWrite(a)
  BY <1>1, <1>10, IdleStep DEF SellWrite, CancelWrite, PullWrite
<1>11. CASE \E l \in Lots, n \in 1 .. MaxBids : Cancel(a, l, n)
  BY <1>1, <1>11 DEF Cancel
<1>12. CASE CancelRead(a)
  <2>1. CASE Goto(a, Idle)
    BY <1>1, <2>1, IdleStep
  <2>2. ASSUME NEW state,
               Goto(a, [op |-> "cancelWrite", lot |-> desk[a].lot, bid |-> desk[a].bid, saved |-> state])
        PROVE  /\ desk'[a].op = "cancelWrite" /\ desk'[a].saved = state
               /\ desk'[a].lot = desk[a].lot /\ desk'[a].bid = desk[a].bid
    BY <1>1, <2>2
  <2> DEFINE count == IF cache[desk[a].lot].count > 0 THEN cache[desk[a].lot].count - 1 ELSE 0
             saved == [ZeroState EXCEPT !.count = count]
  <2>3. Goto(a, Idle) \/ Goto(a, [op |-> "cancelWrite", lot |-> desk[a].lot, bid |-> desk[a].bid,
                                 saved |-> saved])
    BY <1>12 DEF CancelRead
  <2> QED  BY <1>12, <2>1, <2>2, <2>3
<1>13. CASE \E l \in Lots : Pull(a, l)
  BY <1>1, <1>13 DEF Pull
<1>14. CASE Restart
  BY <1>14, IdleStep DEF Restart
<1>15. ASSUME UNCHANGED deskVars PROVE desk'[a] = desk[a]
  BY <1>15 DEF deskVars
<1>16. Handler(a) \/ (\E o \in Admins \ {a} : Handler(o)) \/ Restart \/ UNCHANGED deskVars
  BY BidCases DEF DeskNext, allVars
<1>17. ASSUME Handler(a), ~Load(a), ~Start(a), ~Activate(a), ~HydrateRead(a), ~HydrateWrite(a),
              ~SellRead(a), ~SellWrite(a), ~CancelRead(a), ~CancelWrite(a), ~PullWrite(a)
       PROVE  \/ \E l \in Lots, n \in 1 .. MaxBids : Sell(a, l, n) \/ Cancel(a, l, n)
              \/ \E l \in Lots : Pull(a, l)
  BY <1>17 DEF Handler
<1> QED  BY <1>2, <1>3, <1>4, <1>5, <1>6, <1>7, <1>8, <1>9, <1>10, <1>11, <1>12, <1>13, <1>14,
            <1>15, <1>16, <1>17

LEMMA PullOrigin ==
  ASSUME DeskInv, [DeskNext]_allVars, NEW a \in Admins, desk'[a].op = "pullWrite"
  PROVE  \/ desk'[a] = desk[a]
         \/ \E l \in Lots : desk'[a].lot = l /\ desk'[a].doc = lotDoc[l]
BY DeskOrigin

-----------------------------------------------------------------------------
(***************************************************************************)
(* The record of a sale, in the collection and in Pull's copy of it.       *)
(***************************************************************************)
RecordOf(l, doc) ==
  doc.soldBid # 0 => <<l, doc.soldBid>> \in mongo /\ doc.soldFor = bids[l][doc.soldBid].amount

Records ==
  /\ \A l \in Lots : RecordOf(l, lotDoc[l])
  /\ \A a \in Admins : desk[a].op = "pullWrite" => RecordOf(desk[a].lot, desk[a].doc)

LEMMA RecordStays ==
  ASSUME DeskInv, [DeskNext]_allVars, NEW l \in Lots, NEW doc \in LotDoc, RecordOf(l, doc)
  PROVE  RecordOf(l, doc)'
<1> SUFFICES ASSUME doc.soldBid # 0
             PROVE  <<l, doc.soldBid>> \in mongo' /\ doc.soldFor = bids'[l][doc.soldBid].amount
  BY DEF RecordOf
<1>1. <<l, doc.soldBid>> \in mongo /\ doc.soldFor = bids[l][doc.soldBid].amount
  BY DEF RecordOf
<1>2. doc.soldBid \in 1 .. Len(bids[l])
  BY <1>1 DEF DeskInv, Filed, Placed
<1> QED  BY <1>1, <1>2, MongoGrows, BidsGrow DEF DeskInv

LEMMA RecordsStep == ASSUME DeskInv, Records, [DeskNext]_allVars PROVE Records'
<1>t. DeskTypeOK /\ TypeOK
  BY DEF DeskInv
<1>1. ASSUME NEW l \in Lots PROVE RecordOf(l, lotDoc[l])'
  <2>1. CASE lotDoc'[l] = lotDoc[l]
    <3>1. RecordOf(l, lotDoc[l]) /\ lotDoc[l] \in LotDoc
      BY <1>t DEF Records, DeskTypeOK
    <3>2. PICK doc \in LotDoc : doc = lotDoc[l]
      BY <3>1
    <3>3. RecordOf(l, doc)'
      BY <3>1, <3>2, RecordStays
    <3> QED  BY <2>1, <3>2, <3>3 DEF RecordOf
  <2>2. ASSUME NEW n \in Nat, <<l, n>> \in mongo,
               lotDoc'[l] = [status |-> "sold", soldFor |-> bids[l][n].amount, soldBid |-> n]
        PROVE  RecordOf(l, lotDoc[l])'
    <3>1. n \in 1 .. Len(bids[l])
      BY <2>2 DEF DeskInv, Filed, Placed
    <3>2. bids'[l][n] = bids[l][n]
      BY <1>t, <3>1, BidsGrow
    <3> QED  BY <2>2, <3>2, MongoGrows DEF RecordOf
  <2>3. ASSUME NEW a \in Admins, desk[a].op = "pullWrite", desk[a].lot = l,
               lotDoc'[l] = [desk[a].doc EXCEPT !.status = "pulled"]
        PROVE  RecordOf(l, lotDoc[l])'
    <3>1. PICK doc \in LotDoc : doc = desk[a].doc
      BY <1>t, <2>3, DeskFields
    <3>2. RecordOf(l, doc)'
      BY <2>3, <3>1, RecordStays DEF Records
    <3>3. lotDoc'[l].soldBid = doc.soldBid /\ lotDoc'[l].soldFor = doc.soldFor
      BY <2>3, <3>1 DEF LotDoc
    <3> QED  BY <3>2, <3>3 DEF RecordOf
  <2> QED  BY <2>1, <2>2, <2>3, DocOrigin
<1>2. ASSUME NEW a \in Admins, desk'[a].op = "pullWrite"
      PROVE  RecordOf(desk[a].lot, desk[a].doc)'
  <2>1. PICK l \in Lots, doc \in LotDoc :
          l = desk'[a].lot /\ doc = desk'[a].doc /\ RecordOf(l, doc)
    <3>1. CASE desk'[a] = desk[a]
      BY <1>t, <1>2, <3>1, DeskFields DEF Records
    <3>2. CASE \E l \in Lots : desk'[a].lot = l /\ desk'[a].doc = lotDoc[l]
      BY <1>t, <3>2 DEF Records, DeskTypeOK
    <3> QED  BY <1>2, <3>1, <3>2, PullOrigin
  <2>2. RecordOf(l, doc)'
    BY <2>1, RecordStays
  <2> QED  BY <2>1, <2>2 DEF RecordOf
<1> QED  BY <1>1, <1>2 DEF Records

LEMMA RecordsInvariant == DeskSpec => [](DeskInv /\ Records)
<1>1. DeskInit => Records
  BY IdleStep DEF DeskInit, Records, RecordOf, NewLot
<1>2. DeskInv /\ Records /\ [DeskNext]_allVars => Records'
  BY RecordsStep
<1> QED  BY <1>1, <1>2, DeskInvariant, PTL DEF DeskSpec

\* A sale record names a bid that reached MongoDB, at that bid's price,
\* whatever sales, pulls, failures and restarts cross each other.
THEOREM SaleRecorded == DeskSpec => []SaleRecordConsistent
<1>1. Records => SaleRecordConsistent
  BY DEF Records, RecordOf, SaleRecordConsistent
<1> QED  BY <1>1, RecordsInvariant, PTL

-----------------------------------------------------------------------------
(***************************************************************************)
(* The leader, in the cache and in the states about to be written back.    *)
(***************************************************************************)
LEMMA FreshFields ==
  ASSUME NEW l
  PROVE  /\ Fresh(l).chat = NoChat /\ Fresh(l).bid = 0
         /\ Fresh(l).max = IF lotDoc[l].status = "sold" THEN lotDoc[l].soldFor ELSE StartPrice
BY DEF Fresh, ZeroState

LEMMA CacheOrigin ==
  ASSUME DeskInv, [DeskNext]_allVars, NEW l \in Lots
  PROVE  \/ cache'[l] = cache[l] /\ (l \in hydrated' => l \in hydrated)
         \/ /\ UNCHANGED hydrated
            /\ \E c \in Chats :
                 /\ Store(c) /\ req[c].lot = l
                 /\ cache'[l].max = req[c].amount /\ cache'[l].chat = c
                 /\ cache'[l].bid = Len(bids[l]) + 1
         \/ \E a \in Admins : /\ HydrateWrite(a) \/ SellWrite(a) \/ CancelWrite(a)
                              /\ desk[a].op \in Writes /\ desk[a].lot = l
                              /\ cache'[l] = desk[a].saved
         \/ Restart /\ l \in hydrated' /\ cache'[l] = Fresh(l)
         \/ Restart /\ l \notin hydrated' /\ cache'[l] = ZeroState
<1>t. cache \in [Lots -> LotState]
  BY DEF DeskInv, TypeOK
<1>1. ASSUME NEW c \in Chats, Store(c)
      PROVE  \/ cache'[l] = cache[l] /\ UNCHANGED hydrated
             \/ /\ req[c].lot = l /\ UNCHANGED hydrated
                /\ cache'[l].max = req[c].amount /\ cache'[l].chat = c
                /\ cache'[l].bid = Len(bids[l]) + 1
  BY <1>1, <1>t DEF Store
<1>2. ASSUME NEW a \in Admins, HydrateWrite(a) \/ SellWrite(a) \/ CancelWrite(a)
      PROVE  /\ desk[a].op \in Writes
             /\ \/ cache'[l] = cache[l] /\ (l \in hydrated' => l \in hydrated)
                \/ desk[a].lot = l /\ cache'[l] = desk[a].saved
  BY <1>2, <1>t DEF HydrateWrite, SellWrite, CancelWrite, SetCache, Writes
<1>3. ASSUME NEW a \in Admins, Handler(a), ~HydrateWrite(a), ~SellWrite(a), ~CancelWrite(a)
      PROVE  UNCHANGED <<hydrated, cache>>
  BY <1>3 DEF Handler, Load, Start, Activate, HydrateRead, Sell, SellRead, Cancel, CancelRead, Pull,
              PullWrite, Click, KeepCache
<1>4. CASE Restart
  BY <1>4 DEF Restart
<1>5. CASE UNCHANGED allVars
  BY <1>5 DEF allVars, vars
<1>6. CASE BidNext
  BY <1>1, <1>6, BidCases
<1> QED  BY <1>2, <1>3, <1>4, <1>5, <1>6 DEF DeskNext

RealLeader(l, state) ==
  state.chat # NoChat =>
    \E n \in 1 .. Len(bids[l]) : bids[l][n] = [chat |-> state.chat, amount |-> state.max]

Leaders ==
  /\ \A l \in Lots : RealLeader(l, cache[l])
  /\ \A a \in Admins : desk[a].op \in Writes => RealLeader(desk[a].lot, desk[a].saved)

LEMMA LeaderStays ==
  ASSUME DeskInv, [DeskNext]_allVars, NEW l \in Lots, NEW state, RealLeader(l, state)
  PROVE  RealLeader(l, state)'
<1> SUFFICES ASSUME state.chat # NoChat
             PROVE  \E n \in 1 .. Len(bids'[l]) :
                      bids'[l][n] = [chat |-> state.chat, amount |-> state.max]
  BY DEF RealLeader
<1>1. PICK n \in 1 .. Len(bids[l]) : bids[l][n] = [chat |-> state.chat, amount |-> state.max]
  BY DEF RealLeader
<1>2. n \in 1 .. Len(bids'[l]) /\ bids'[l][n] = bids[l][n]
  BY <1>1, BidsGrow DEF DeskInv
<1> QED  BY <1>1, <1>2

LEMMA LeadersStep == ASSUME DeskInv, Leaders, [DeskNext]_allVars PROVE Leaders'
<1>t. DeskTypeOK /\ TypeOK
  BY DEF DeskInv
<1>1. ASSUME NEW l \in Lots, NEW state, state = cache'[l] PROVE RealLeader(l, state)'
  <2>1. CASE RealLeader(l, state)
    BY <2>1, LeaderStays
  <2>2. ASSUME NEW c \in Chats, Store(c), req[c].lot = l, state.max = req[c].amount, state.chat = c
        PROVE  RealLeader(l, state)'
    <3>1. /\ bids[l] \in Seq(Bid)
          /\ bids'[l] = Append(bids[l], [chat |-> state.chat, amount |-> state.max])
      BY <1>t, <2>2, StoreBids
    <3>2. PICK n : n = Len(bids[l]) + 1
      OBVIOUS
    <3>3. n \in 1 .. Len(bids'[l]) /\ bids'[l][n] = [chat |-> state.chat, amount |-> state.max]
      BY <3>1, <3>2
    <3> QED  BY <3>3 DEF RealLeader
  <2>3. RealLeader(l, cache[l]) /\ RealLeader(l, Fresh(l)) /\ RealLeader(l, ZeroState)
    BY FreshFields DEF Leaders, RealLeader, ZeroState
  <2>4. ASSUME NEW a \in Admins, desk[a].op \in Writes, desk[a].lot = l, state = desk[a].saved
        PROVE  RealLeader(l, state)
    BY <2>4 DEF Leaders
  <2> QED  BY <1>1, <2>1, <2>2, <2>3, <2>4, CacheOrigin
<1>2. ASSUME NEW a \in Admins, desk'[a].op \in Writes,
             NEW l, l = desk'[a].lot, NEW state, state = desk'[a].saved
      PROVE  RealLeader(l, state)'
  <2>1. l \in Lots
    <3>1. desk'[a] \in DeskState
      BY DeskInvStep DEF DeskInv, DeskTypeOK
    <3> QED  BY <1>2, <3>1, StepFields DEF Writes
  <2>2. CASE desk'[a] = desk[a]
    BY <1>2, <2>1, <2>2, LeaderStays DEF Leaders
  <2>3. CASE state = cache[l] \/ state = Fresh(l)
    BY <2>1, <2>3, FreshFields, LeaderStays DEF Leaders, RealLeader
  <2>4. ASSUME NEW n, state = [cache[l] EXCEPT !.bid = n] PROVE RealLeader(l, state)'
    <3>1. PICK s \in LotState : s = cache[l]
      BY <1>t, <2>1 DEF TypeOK
    <3>2. state.chat = s.chat /\ state.max = s.max
      BY <2>4, <3>1 DEF LotState
    <3> QED  BY <2>1, <3>1, <3>2, LeaderStays DEF Leaders, RealLeader
  <2>5. ASSUME NEW count, state = [ZeroState EXCEPT !.count = count] PROVE RealLeader(l, state)'
    BY <2>5 DEF ZeroState, RealLeader
  <2> QED  BY <1>2, <2>2, <2>3, <2>4, <2>5, DeskOrigin DEF Writes
<1>3. ASSUME NEW l \in Lots PROVE RealLeader(l, cache[l])'
  BY <1>1 DEF RealLeader
<1>4. ASSUME NEW a \in Admins, desk'[a].op \in Writes
      PROVE  RealLeader(desk[a].lot, desk[a].saved)'
  BY <1>2, <1>4 DEF RealLeader
<1> QED  BY <1>3, <1>4 DEF Leaders

LEMMA LeadersInvariant == DeskSpec => [](DeskInv /\ Leaders)
<1>1. DeskInit => Leaders
  BY IdleStep DEF DeskInit, Init, Leaders, RealLeader, ZeroState, Writes
<1>2. DeskInv /\ Leaders /\ [DeskNext]_allVars => Leaders'
  BY LeadersStep
<1> QED  BY <1>1, <1>2, DeskInvariant, PTL DEF DeskSpec

\* Whoever the admin sees leading a lot has placed that very bid, whichever
\* handler wrote the entry back over whichever bids.
THEOREM LeaderCorrect == DeskSpec => []LeaderIsReal
<1>1. Leaders => LeaderIsReal
  BY DEF Leaders, RealLeader, LeaderIsReal
<1> QED  BY <1>1, LeadersInvariant, PTL

-----------------------------------------------------------------------------
(***************************************************************************)
(* A lot with a PlaceBid past its first check has a cache entry: outside a *)
(* restart, which ends every PlaceBid, no lot loses its entry.             *)
(***************************************************************************)
LEMMA HydratedGrows ==
  ASSUME [DeskNext]_allVars, ~Restart PROVE hydrated \subseteq hydrated'
<1>1. ASSUME NEW a \in Admins, HydrateWrite(a) \/ SellWrite(a) \/ CancelWrite(a)
      PROVE  hydrated \subseteq hydrated'
  BY <1>1 DEF HydrateWrite, SellWrite, CancelWrite, SetCache
<1>2. ASSUME NEW a \in Admins, Handler(a), ~HydrateWrite(a), ~SellWrite(a), ~CancelWrite(a)
      PROVE  UNCHANGED hydrated
  BY <1>2 DEF Handler, Load, Start, Activate, HydrateRead, Sell, SellRead, Cancel, CancelRead, Pull,
              PullWrite, Click, KeepCache
<1>3. CASE BidNext
  BY <1>3, BidCases DEF Store
<1>4. CASE UNCHANGED allVars
  BY <1>4 DEF allVars, vars
<1> QED  BY <1>1, <1>2, <1>3, <1>4 DEF DeskNext

\* Where a PlaceBid is after a step of the core.
LEMMA BetOrigin ==
  ASSUME TypeOK, BidNext, NEW c \in Chats
  PROVE  \/ pc'[c] = "idle"
         \/ /\ pc[c] # "idle" /\ req'[c] = req[c]
            /\ pc'[c] = "store" =>
                 pc[c] = "store" \/ (pc[c] = "recheck" /\ ~TooLow(req[c].amount, cache[req[c].lot]))
         \/ pc'[c] = "acquire" /\ req'[c].lot \in hydrated
<1> USE DEF Return
<1>t. /\ pc \in [Chats -> {"idle", "acquire"} \union Critical]
      /\ req \in [Chats -> Request \union {NoRequest}]
  BY DEF TypeOK
<1> DEFINE Goal == \/ pc'[c] = "idle"
                   \/ /\ pc[c] # "idle" /\ req'[c] = req[c]
                      /\ pc'[c] = "store" =>
                           pc[c] = "store" \/ (pc[c] = "recheck" /\ ~TooLow(req[c].amount, cache[req[c].lot]))
                   \/ pc'[c] = "acquire" /\ req'[c].lot \in hydrated
<1>1. ASSUME NEW d \in Chats, NEW l \in Lots, NEW a \in Amounts, PlaceBid(d, l, a) PROVE Goal
  <2>1. CASE Return(d, "noAuction") \/ Return(d, "tooLow")
    BY <1>t, <2>1
  <2>2. CASE /\ l \in hydrated
             /\ pc' = [pc EXCEPT ![d] = "acquire"]
             /\ req' = [req EXCEPT ![d] = [lot |-> l, amount |-> a]]
    BY <1>t, <2>2
  <2> QED  BY <1>1, <2>1, <2>2 DEF PlaceBid
<1>2. ASSUME NEW d \in Chats, TryLock(d) \/ AcquireFails(d) PROVE Goal
  BY <1>t, <1>2 DEF TryLock, AcquireFails
<1>3. ASSUME NEW d \in Chats, Recheck(d) PROVE Goal
  BY <1>t, <1>3 DEF Recheck
<1>4. ASSUME NEW d \in Chats, Store(d) \/ Publish(d) PROVE Goal
  BY <1>t, <1>4 DEF Store, Publish
<1>5. ASSUME NEW d \in Chats, Release(d) \/ ReleaseFails(d) PROVE Goal
  BY <1>t, <1>5 DEF Release, ReleaseFails
<1>6. ASSUME UNCHANGED <<pc, req>> PROVE Goal
  BY <1>6
<1>7. ASSUME Database \/ \E l \in Lots : Expire(l) PROVE UNCHANGED <<pc, req>>
  BY <1>7 DEF Database, InsertDone, InsertFails, Expire
<1> QED  BY <1>1, <1>2, <1>3, <1>4, <1>5, <1>6, <1>7 DEF BidNext, Bidder

LEMMA InFlightStep ==
  ASSUME DeskInv, InFlightHydrated, [DeskNext]_allVars PROVE InFlightHydrated'
<1>t. TypeOK
  BY DEF DeskInv
<1>1. CASE Restart
  <2>1. \A c \in Chats : pc'[c] = "idle"
    BY <1>1 DEF Restart
  <2> QED  BY <2>1 DEF InFlightHydrated
<1>2. CASE ~Restart
  <2>1. hydrated \subseteq hydrated'
    BY <1>2, HydratedGrows
  <2>2. ASSUME NEW c \in Chats, pc'[c] # "idle" PROVE req'[c].lot \in hydrated'
    <3>1. BidNext \/ UNCHANGED <<pc, req>>
      BY <1>2, HandlerKeeps DEF DeskNext, allVars, vars
    <3> QED  BY <1>t, <2>1, <2>2, <3>1, BetOrigin DEF InFlightHydrated
  <2> QED  BY <2>2 DEF InFlightHydrated
<1> QED  BY <1>1, <1>2

LEMMA InFlightInit == DeskInit => InFlightHydrated
BY DEF DeskInit, Init, InFlightHydrated

-----------------------------------------------------------------------------
(***************************************************************************)
(* The floor.  A price below the starting price comes from a cancellation, *)
(* in the cache, in a state about to be written back and in a bid about to *)
(* be stored.                                                              *)
(***************************************************************************)
Opened(l) == \E m \in Nat : <<l, m>> \in cancelled
FloorState(l, state) == state.max + BidStep <= MaxInt /\ (state.max >= StartPrice \/ Opened(l))

CacheFloor == \A l \in hydrated : FloorState(l, cache[l])
SavedFloor ==
  \A a \in Admins : desk[a].op \in Writes => FloorState(desk[a].lot, desk[a].saved)
StoreFloor ==
  \A c \in Chats : pc[c] = "store" =>
    req[c].amount >= StartPrice + BidStep \/ Opened(req[c].lot)
CancelOpens ==
  \A a \in Admins : desk[a].op \in {"cancelRead", "cancelWrite"} => Opened(desk[a].lot)
SoldNamed == \A l \in Lots : lotDoc[l].status = "sold" => lotDoc[l].soldBid # 0

FloorInv ==
  FloorHeldUntilCancel /\ CacheFloor /\ SavedFloor /\ StoreFloor /\ CancelOpens /\ SoldNamed

LEMMA CancelledGrows == ASSUME [DeskNext]_allVars PROVE cancelled \subseteq cancelled'
BY BidCases DEF DeskNext, Restart, allVars, deskVars, KeepDocs, Handler, Load, Start, Activate,
   HydrateRead, HydrateWrite, Sell, SellRead, SellWrite, Cancel, CancelRead, CancelWrite, Pull,
   PullWrite

LEMMA FloorStays ==
  ASSUME [DeskNext]_allVars, NEW l, NEW state, FloorState(l, state) PROVE FloorState(l, state)'
BY CancelledGrows DEF FloorState, Opened

LEMMA OpenedStays ==
  ASSUME [DeskNext]_allVars, NEW l, Opened(l) PROVE Opened(l)'
BY CancelledGrows DEF Opened

LEMMA Sums ==
  /\ BidStep \in Int /\ StartPrice \in Int /\ MaxInt \in Int
  /\ BidStep >= 1 /\ BidStep <= MaxInt /\ StartPrice >= 0
  /\ \A amount \in Amounts : amount \in Int
  /\ NoOverflow => /\ StartPrice + BidStep <= MaxInt
                   /\ \A amount \in Amounts : amount + BidStep <= MaxInt
BY BidAssumption DEF NoOverflow

\* A sold lot is hydrated at the price of the bid that was sold.
LEMMA FreshFloor ==
  ASSUME NoOverflow, DeskInv, Records, FloorInv, NEW l \in Lots PROVE FloorState(l, Fresh(l))
<1>1. CASE lotDoc[l].status # "sold"
  <2>1. Fresh(l).max = StartPrice
    BY <1>1, FreshFields
  <2> QED  BY <2>1, Sums DEF FloorState
<1>2. CASE lotDoc[l].status = "sold"
  <2>1. PICK n : n = lotDoc[l].soldBid
    OBVIOUS
  <2>2. <<l, n>> \in mongo /\ lotDoc[l].soldFor = bids[l][n].amount
    BY <1>2, <2>1 DEF FloorInv, SoldNamed, Records, RecordOf
  <2>3. n \in 1 .. Len(bids[l]) /\ bids[l][n].amount \in Amounts
    <3>1. <<l, n>> \in Lots \X Nat /\ Placed(<<l, n>>)
      BY <2>2 DEF DeskInv, Filed, TypeOK
    <3> QED  BY <3>1, SumType DEF DeskInv, Placed
  <2>4. Fresh(l).max = bids[l][n].amount
    BY <1>2, <2>2, FreshFields
  <2>5. CASE bids[l][n].amount >= StartPrice
    BY <2>3, <2>4, <2>5, Sums DEF FloorState
  <2>6. CASE ~(bids[l][n].amount >= StartPrice)
    <3>1. bids[l][n].amount < StartPrice + BidStep
      BY <2>3, <2>6, Sums
    <3>2. \E m \in 1 .. n - 1 : <<l, m>> \in cancelled
      BY <2>3, <3>1 DEF FloorInv, FloorHeldUntilCancel
    <3>3. Opened(l)
      BY <3>2 DEF Opened
    <3> QED  BY <2>3, <2>4, <3>3, Sums DEF FloorState
  <2> QED  BY <2>5, <2>6
<1> QED  BY <1>1, <1>2

LEMMA StoreFloorStep ==
  ASSUME NoOverflow, DeskInv, InFlightHydrated, FloorInv, [DeskNext]_allVars PROVE StoreFloor'
<1> SUFFICES ASSUME NEW c \in Chats, pc'[c] = "store", NEW l, l = req'[c].lot
             PROVE  req'[c].amount >= StartPrice + BidStep \/ Opened(l)'
  BY DEF StoreFloor, Opened
<1>t. TypeOK
  BY DEF DeskInv
<1>1. CASE pc[c] = "store" /\ req'[c] = req[c]
  BY <1>1, OpenedStays DEF FloorInv, StoreFloor
<1>2. CASE /\ req'[c] = req[c] /\ pc[c] = "recheck"
           /\ ~TooLow(req[c].amount, cache[req[c].lot])
  <2>1. l \in Lots /\ req[c].amount \in Amounts /\ l \in hydrated
    BY <1>t, <1>2, RequestTyped DEF InFlightHydrated
  <2>2. FloorState(l, cache[l]) /\ cache[l].max \in 0 .. MaxInt
    BY <1>t, <2>1 DEF FloorInv, CacheFloor, TypeOK, LotState
  <2>3. req[c].amount >= cache[l].max + BidStep
    BY <1>2, <2>1, <2>2, Sums DEF TooLow, Plus, FloorState
  <2>4. CASE cache[l].max >= StartPrice
    BY <1>2, <2>1, <2>2, <2>3, <2>4, Sums
  <2>5. CASE Opened(l)
    BY <2>5, OpenedStays
  <2> QED  BY <2>2, <2>4, <2>5 DEF FloorState
<1>3. BidNext \/ (pc'[c] = pc[c] /\ req'[c] = req[c])
  BY HandlerKeeps DEF DeskNext, Restart, allVars, vars
<1> QED  BY <1>t, <1>1, <1>2, <1>3, BetOrigin

LEMMA HeldStep ==
  ASSUME DeskInv, FloorInv, [DeskNext]_allVars PROVE FloorHeldUntilCancel'
<1>t. TypeOK
  BY DEF DeskInv
<1> SUFFICES ASSUME NEW l \in Lots, NEW n \in 1 .. Len(bids'[l]),
                    bids'[l][n].amount < StartPrice + BidStep
             PROVE  \E m \in 1 .. n - 1 : <<l, m>> \in cancelled'
  BY DEF FloorHeldUntilCancel
<1>1. CASE n \in 1 .. Len(bids[l])
  BY <1>t, <1>1, BidsGrow, CancelledGrows DEF FloorInv, FloorHeldUntilCancel
<1>2. ASSUME NEW c \in Chats, Store(c), l = req[c].lot, n \notin 1 .. Len(bids[l])
      PROVE  \E m \in 1 .. n - 1 : <<l, m>> \in cancelled
  <2>1. /\ bids[l] \in Seq(Bid) /\ req[c].amount \in Amounts
        /\ bids'[l] = Append(bids[l], [chat |-> c, amount |-> req[c].amount])
    BY <1>t, <1>2, StoreBids
  <2>2. n = Len(bids[l]) + 1 /\ Len(bids[l]) \in Nat
    BY <1>2, <2>1
  <2>3. bids'[l][n].amount = req[c].amount
    BY <2>1, <2>2
  <2>4. Opened(l)
    BY <1>2, <2>1, <2>3, Sums DEF Store, FloorInv, StoreFloor
  <2>5. PICK m \in Nat : <<l, m>> \in cancelled
    BY <2>4 DEF Opened
  <2>6. m \in 1 .. Len(bids[l])
    BY <2>5 DEF DeskInv, Filed, Placed
  <2> QED  BY <2>2, <2>5, <2>6
<1>3. (\E c \in Chats : Store(c)) \/ UNCHANGED bids
  BY BidCases, HandlerKeeps DEF DeskNext, Restart, allVars, vars
<1>4. n \notin 1 .. Len(bids[l]) => \E c \in Chats : Store(c) /\ l = req[c].lot
  BY <1>t, <1>3, StoreBids
<1> QED  BY <1>1, <1>2, <1>4, CancelledGrows

LEMMA CacheFloorStep ==
  ASSUME NoOverflow, DeskInv, InFlightHydrated, Records, FloorInv, [DeskNext]_allVars PROVE CacheFloor'
<1>t. TypeOK
  BY DEF DeskInv
<1> SUFFICES ASSUME NEW l \in Lots, l \in hydrated', NEW state, state = cache'[l]
             PROVE  FloorState(l, state)'
  <2>1. hydrated' \subseteq Lots
    BY DeskInvStep DEF DeskInv, TypeOK
  <2> QED  BY <2>1 DEF CacheFloor, FloorState
<1>1. CASE FloorState(l, state)
  BY <1>1, FloorStays
<1>2. ASSUME NEW c \in Chats, Store(c), req[c].lot = l, state.max = req[c].amount
      PROVE  FloorState(l, state)
  <2>1. req[c].amount \in Amounts
    BY <1>t, <1>2, StoreBids
  <2>2. req[c].amount >= StartPrice + BidStep \/ Opened(l)
    BY <1>2 DEF Store, FloorInv, StoreFloor
  <2> QED  BY <1>2, <2>1, <2>2, Sums DEF FloorState
<1>3. ASSUME NEW a \in Admins, desk[a].op \in Writes, desk[a].lot = l, state = desk[a].saved
      PROVE  FloorState(l, state)
  BY <1>3 DEF FloorInv, SavedFloor
<1>4. FloorState(l, Fresh(l))
  BY FreshFloor
<1>5. l \in hydrated => FloorState(l, cache[l])
  BY DEF FloorInv, CacheFloor
<1> QED  BY <1>1, <1>2, <1>3, <1>4, <1>5, CacheOrigin

LEMMA SavedFloorStep ==
  ASSUME NoOverflow, DeskInv, InFlightHydrated, Records, FloorInv, [DeskNext]_allVars PROVE SavedFloor'
<1>t. TypeOK /\ DeskTypeOK
  BY DEF DeskInv
<1> SUFFICES ASSUME NEW a \in Admins, desk'[a].op \in Writes,
                    NEW l, l = desk'[a].lot, NEW state, state = desk'[a].saved
             PROVE  FloorState(l, state)'
  BY DEF SavedFloor, FloorState
<1>0. l \in Lots
  <2>1. desk'[a] \in DeskState
    BY DeskInvStep DEF DeskInv, DeskTypeOK
  <2> QED  BY <2>1, StepFields DEF Writes
<1>1. CASE desk'[a] = desk[a]
  BY <1>1, FloorStays DEF FloorInv, SavedFloor
<1>2. CASE state = IF l \in hydrated THEN cache[l] ELSE Fresh(l)
  BY <1>0, <1>2, FreshFloor, FloorStays DEF FloorInv, CacheFloor
<1>3. CASE /\ l \in hydrated
           /\ state = [cache[l] EXCEPT !.bid = desk[a].bid]
  <2>1. PICK s \in LotState : s = cache[l]
    BY <1>0, <1>t DEF TypeOK
  <2>2. state.max = s.max
    BY <1>3, <2>1 DEF LotState
  <2>3. FloorState(l, state)
    BY <1>3, <2>1, <2>2 DEF FloorInv, CacheFloor, FloorState
  <2> QED  BY <2>3, FloorStays
<1>4. ASSUME NEW count, CancelRead(a), l = desk[a].lot, state = [ZeroState EXCEPT !.count = count]
      PROVE  FloorState(l, state)'
  <2>1. Opened(l)
    BY <1>4 DEF CancelRead, FloorInv, CancelOpens
  <2>2. state.max = 0
    BY <1>4 DEF ZeroState
  <2>3. FloorState(l, state)
    BY <2>1, <2>2, Sums DEF FloorState
  <2> QED  BY <2>3, FloorStays
<1> QED  BY <1>1, <1>2, <1>3, <1>4, DeskOrigin DEF Writes

LEMMA FloorStep ==
  ASSUME NoOverflow, DeskInv, InFlightHydrated, Records, FloorInv, [DeskNext]_allVars PROVE FloorInv'
<1>t. TypeOK /\ DeskTypeOK
  BY DEF DeskInv
<1>1. CancelOpens'
  <2> SUFFICES ASSUME NEW a \in Admins, desk'[a].op \in {"cancelRead", "cancelWrite"},
                      NEW l, l = desk'[a].lot
               PROVE  Opened(l)'
    BY DEF CancelOpens, Opened
  <2>1. ASSUME desk[a].op \in {"cancelRead", "cancelWrite"}, l = desk[a].lot PROVE Opened(l)'
    BY <2>1, OpenedStays DEF FloorInv, CancelOpens
  <2>2. ASSUME NEW n \in 1 .. MaxBids, <<l, n>> \in cancelled' PROVE Opened(l)'
    BY <2>2 DEF Opened
  <2> QED  BY <2>1, <2>2, DeskOrigin DEF CancelRead
<1>2. SoldNamed'
  <2> SUFFICES ASSUME NEW l \in Lots, lotDoc'[l].status = "sold" PROVE lotDoc'[l].soldBid # 0
    BY DEF SoldNamed
  <2>1. CASE lotDoc'[l] = lotDoc[l]
    BY <2>1 DEF FloorInv, SoldNamed
  <2>2. ASSUME NEW n \in Nat, <<l, n>> \in mongo,
               lotDoc'[l] = [status |-> "sold", soldFor |-> bids[l][n].amount, soldBid |-> n]
        PROVE  lotDoc'[l].soldBid # 0
    <3>1. n # 0
      BY <2>2 DEF DeskInv, Filed, Placed
    <3> QED  BY <2>2, <3>1
  <2>3. ASSUME NEW a \in Admins, desk[a].op = "pullWrite",
               lotDoc'[l] = [desk[a].doc EXCEPT !.status = "pulled"]
        PROVE  FALSE
    <3>1. PICK doc \in LotDoc : doc = desk[a].doc
      BY <1>t, <2>3, DeskFields
    <3> QED  BY <2>3, <3>1 DEF LotDoc
  <2> QED  BY <2>1, <2>2, <2>3, DocOrigin
<1> QED  BY <1>1, <1>2, HeldStep, CacheFloorStep, SavedFloorStep, StoreFloorStep DEF FloorInv

LEMMA FloorInit == DeskInit => FloorInv
BY IdleStep DEF DeskInit, Init, FloorInv, FloorHeldUntilCancel, CacheFloor, SavedFloor, StoreFloor,
   CancelOpens, SoldNamed, NewLot, Writes

\* While no price wraps, no bid below the starting price and the step is taken
\* on a lot none of whose bids was cancelled, whatever was sold, pulled,
\* started again or restarted.
THEOREM FloorHeld == ASSUME NoOverflow PROVE DeskSpec => []FloorHeldUntilCancel
<1>1. DeskInv /\ InFlightHydrated /\ [DeskNext]_allVars => InFlightHydrated'
  BY InFlightStep
<1>2. DeskInv /\ InFlightHydrated /\ Records /\ FloorInv /\ [DeskNext]_allVars => FloorInv'
  BY FloorStep
<1>3. FloorInv => FloorHeldUntilCancel
  BY DEF FloorInv
<1> QED  BY <1>1, <1>2, <1>3, InFlightInit, FloorInit, RecordsInvariant, PTL DEF DeskSpec

-----------------------------------------------------------------------------
(***************************************************************************)
(* The maximal bid.  A sale's handler writes back the bid it sells, a      *)
(* cancellation's none; a second Start's handler, what it read.            *)
(***************************************************************************)
Saves(step) ==
  /\ step.op = "sellWrite" => step.saved.bid = step.bid
  /\ step.op = "cancelWrite" => step.saved.bid = 0
DeskSaves == \A a \in Admins : Saves(desk[a])

LEMMA DeskSavesStep ==
  ASSUME DeskInv, DeskSaves, [DeskNext]_allVars PROVE DeskSaves'
<1>t. TypeOK /\ DeskTypeOK
  BY DEF DeskInv
<1> SUFFICES ASSUME NEW a \in Admins
             PROVE  /\ desk'[a].op = "sellWrite" => desk'[a].saved.bid = desk'[a].bid
                    /\ desk'[a].op = "cancelWrite" => desk'[a].saved.bid = 0
  BY DEF DeskSaves, Saves
<1>1. desk'[a].op = "cancelWrite" => desk'[a].saved.bid = 0
  BY DeskOrigin DEF DeskSaves, Saves, ZeroState
<1>2. ASSUME desk'[a].op = "sellWrite" PROVE desk'[a].saved.bid = desk'[a].bid
  <2>1. CASE desk'[a] = desk[a]
    BY <1>2, <2>1 DEF DeskSaves, Saves
  <2>2. CASE /\ SellRead(a) /\ desk'[a].bid = desk[a].bid
             /\ desk'[a].saved = [cache[desk[a].lot] EXCEPT !.bid = desk[a].bid]
    <3>1. PICK s \in LotState : s = cache[desk[a].lot]
      BY <1>t, <2>2, DeskFields DEF SellRead, TypeOK
    <3> QED  BY <2>2, <3>1 DEF LotState
  <2> QED  BY <1>2, <2>1, <2>2, DeskOrigin
<1> QED  BY <1>1, <1>2

LEMMA ResurrectStep ==
  ASSUME DeskInv, DeskSaves, [DeskNext]_allVars,
         NEW b \in cancelled, cache[b[1]].bid # b[2], cache'[b[1]].bid = b[2]
  PROVE  \/ \E note \in congrats' : note.lot = b[1] /\ note.bid = b[2]
         \/ \E a \in Admins : WritesBack(a, b)
<1>t. TypeOK /\ DeskTypeOK
  BY DEF DeskInv
<1>1. b \in Lots \X Nat /\ b[1] \in Lots /\ b[2] \in 1 .. Len(bids[b[1]])
  BY <1>t DEF DeskInv, TypeOK, Filed, Placed
<1>2. b[2] # 0 /\ b[2] # Len(bids[b[1]]) + 1
  BY <1>t, <1>1 DEF TypeOK
<1>3. PICK a \in Admins : /\ HydrateWrite(a) \/ SellWrite(a) \/ CancelWrite(a)
                          /\ desk[a].op \in Writes /\ desk[a].lot = b[1]
                          /\ cache'[b[1]] = desk[a].saved
  BY <1>1, <1>2, CacheOrigin, FreshFields DEF ZeroState
<1>4. CASE SellWrite(a)
  <2>1. desk[a].op = "sellWrite" /\ desk[a].bid = b[2]
    BY <1>3, <1>4 DEF SellWrite, DeskSaves, Saves
  <2>2. [to |-> bids[b[1]][b[2]].chat, lot |-> b[1], bid |-> b[2]] \in congrats'
    BY <1>3, <1>4, <2>1 DEF SellWrite, Congratulate
  <2> QED  BY <2>2
<1>5. CASE HydrateWrite(a)
  <2>1. desk'[a].op = "hydrate"
    BY <1>t, <1>5, GotoDesk DEF HydrateWrite
  <2> QED  BY <1>3, <1>5, <2>1 DEF HydrateWrite, WritesBack
<1>6. CASE CancelWrite(a)
  BY <1>2, <1>3, <1>6 DEF CancelWrite, DeskSaves, Saves
<1> QED  BY <1>3, <1>4, <1>5, <1>6

\* A cancelled bid becomes the maximal one again only in a sale of that bid or
\* in the write-back of a Start that had read it, whoever bids, cancels, pulls
\* or restarts meanwhile.
THEOREM NoResurrection == DeskSpec => OnlyASaleResurrects
<1>1. DeskInit => DeskSaves
  BY IdleStep DEF DeskInit, DeskSaves, Saves
<1>2. DeskInv /\ DeskSaves /\ [DeskNext]_allVars => DeskSaves'
  BY DeskSavesStep
<1>3. DeskInv /\ DeskSaves /\ [DeskNext]_allVars
        => [\A b \in cancelled : cache[b[1]].bid # b[2] /\ cache'[b[1]].bid = b[2]
              => \/ \E note \in congrats' : note.lot = b[1] /\ note.bid = b[2]
                 \/ \E a \in Admins : WritesBack(a, b)]_allVars
  BY ResurrectStep
<1> QED  BY <1>1, <1>2, <1>3, DeskInvariant, PTL DEF DeskSpec, OnlyASaleResurrects

-----------------------------------------------------------------------------
(***************************************************************************)
(* The lock.  The desk takes none and a restart frees none; nothing but    *)
(* PlaceBid lets a chat into a section.                                    *)
(***************************************************************************)
LEMMA DeskHolderStep ==
  ASSUME Stalls = FALSE, DeskInv, HolderInside, [DeskNext]_allVars PROVE HolderInside'
<1>1. CASE BidNext
  BY <1>1, BidCases, HolderStep DEF DeskInv
<1>2. ASSUME NEW a \in Admins, Handler(a) PROVE HolderInside'
  BY <1>2, HandlerKeeps DEF HolderInside, InSection
<1>3. CASE Restart
  <2>1. \A c \in Chats : pc'[c] \notin Critical
    BY <1>3 DEF Restart, Critical
  <2> QED  BY <2>1 DEF HolderInside, InSection
<1>4. CASE UNCHANGED allVars
  BY <1>4 DEF allVars, vars, HolderInside, InSection
<1> QED  BY <1>1, <1>2, <1>3, <1>4 DEF DeskNext

\* While no section outlives its key, two chats never meet between Acquire and
\* Release of a lot, through crashes that leave their keys behind as well.
THEOREM RestartExcludes == ASSUME Stalls = FALSE PROVE DeskSpec => []MutualExclusion
<1>1. DeskInit => HolderInside
  BY DEF DeskInit, Init, HolderInside, InSection, Critical
<1>2. DeskInv /\ HolderInside /\ [DeskNext]_allVars => HolderInside'
  BY DeskHolderStep
<1>3. HolderInside => MutualExclusion
  BY DEF HolderInside, MutualExclusion
<1> QED  BY <1>1, <1>2, <1>3, DeskInvariant, PTL DEF DeskSpec

-----------------------------------------------------------------------------
(***************************************************************************)
(* Who is told.  A PlaceBid about to store has read a real leader, too: it *)
(* may have been cancelled since, but it did bid on that lot.              *)
(***************************************************************************)
SeenLeaders == \A c \in Chats : pc[c] = "store" => RealLeader(req[c].lot, seen[c])

LEMMA SeenStep ==
  ASSUME DeskInv, Leaders, SeenLeaders, [DeskNext]_allVars PROVE SeenLeaders'
<1>t. TypeOK /\ TypeOK'
  BY DeskInvStep DEF DeskInv
<1> SUFFICES ASSUME NEW c \in Chats, pc'[c] = "store",
                    NEW l, l = req'[c].lot, NEW state, state = seen'[c]
             PROVE  RealLeader(l, state)'
  BY DEF SeenLeaders, RealLeader
<1>0. l \in Lots
  BY <1>t DEF TypeOK, Request
<1>1. CASE pc[c] = "store" /\ req'[c] = req[c] /\ seen'[c] = seen[c]
  BY <1>0, <1>1, LeaderStays DEF SeenLeaders
<1>2. CASE l = req[c].lot /\ state = cache[l]
  BY <1>0, <1>2, LeaderStays DEF Leaders
<1>3. ASSUME NEW d \in Chats, Bidder(d)
      PROVE  \/ pc[c] = "store" /\ req'[c] = req[c] /\ seen'[c] = seen[c]
             \/ req'[c] = req[c] /\ seen'[c] = cache[req[c].lot]
  <2>1. CASE d = c
    BY <1>t, <1>3, <2>1 DEF Bidder, PlaceBid, TryLock, AcquireFails, Recheck, Store, Publish, Release,
                       ReleaseFails, Return, TypeOK
  <2>2. CASE d # c
    BY <1>t, <1>3, <2>2 DEF Bidder, PlaceBid, TryLock, AcquireFails, Recheck, Store, Publish, Release,
                       ReleaseFails, Return, TypeOK
  <2> QED  BY <2>1, <2>2
<1>4. \/ \E d \in Chats : Bidder(d)
      \/ UNCHANGED <<pc, req, seen>>
  BY HandlerKeeps DEF DeskNext, BidNext, Expire, Database, InsertDone, InsertFails, Restart, allVars, vars
<1> QED  BY <1>1, <1>2, <1>3, <1>4

LEMMA OutbidStays ==
  ASSUME DeskInv, [DeskNext]_allVars, NEW note, note.lot \in Lots, OutbidReal(note)
  PROVE  OutbidReal(note)'
<1> DEFINE l == note.lot
           n == note.bid
<1>1. n \in 1 .. Len(bids[l]) /\ bids[l][n].chat # note.to
  BY DEF OutbidReal
<1>2. PICK m \in 1 .. n - 1 : bids[l][m].chat = note.to
  BY DEF OutbidReal
<1>3. /\ Len(bids[l]) \in Nat /\ Len(bids'[l]) \in Nat /\ Len(bids[l]) <= Len(bids'[l])
      /\ \A k \in 1 .. Len(bids[l]) : bids'[l][k] = bids[l][k]
  BY BidsGrow DEF DeskInv
<1>4. n \in 1 .. Len(bids'[l]) /\ m \in 1 .. Len(bids[l])
  BY <1>1, <1>2, <1>3
<1> QED  BY <1>1, <1>2, <1>3, <1>4 DEF OutbidReal

\* The notices a Store sends.
LEMMA StoreNotices ==
  ASSUME DeskInv, Leaders, SeenLeaders, [DeskNext]_allVars, NEW c \in Chats, Store(c),
         NEW note \in notices' \ notices
  PROVE  OutbidReal(note)'
<1>t. TypeOK
  BY DEF DeskInv
<1>0. PICK l \in Lots : l = req[c].lot
  BY <1>t, StoreBids
<1>n. PICK n : n = Len(bids[l]) + 1
  OBVIOUS
<1>1. l = req[c].lot /\ n = Len(bids[l]) + 1
  BY <1>0, <1>n
<1>2. /\ note.to = seen[c].chat /\ note.lot = l /\ note.bid = n
      /\ seen[c].chat # NoChat /\ seen[c].chat # c
  BY <1>1 DEF Store, Displaced
<1>3. PICK m \in 1 .. Len(bids[l]) :
        bids[l][m] = [chat |-> seen[c].chat, amount |-> seen[c].max]
  BY <1>1, <1>2 DEF Store, SeenLeaders, RealLeader
<1>4. /\ bids[l] \in Seq(Bid)
      /\ bids'[l] = Append(bids[l], [chat |-> c, amount |-> req[c].amount])
  BY <1>t, <1>1, StoreBids
<1>5. /\ n \in 1 .. Len(bids'[l]) /\ bids'[l][n].chat = c
      /\ m \in 1 .. n - 1 /\ bids'[l][m].chat = seen[c].chat
  BY <1>1, <1>3, <1>4
<1> QED  BY <1>2, <1>5 DEF OutbidReal

LEMMA CongratsStep ==
  ASSUME DeskInv, NoticesReal, [DeskNext]_allVars, NEW note \in congrats'
  PROVE  <<note.lot, note.bid>> \in mongo' /\ note.to = bids'[note.lot][note.bid].chat
<1>1. /\ <<note.lot, note.bid>> \in mongo
      /\ note.to = bids[note.lot][note.bid].chat
  <2>1. CASE note \in congrats
    BY <2>1 DEF NoticesReal
  <2>2. ASSUME NEW a \in Admins, SellRead(a) \/ SellWrite(a), note \notin congrats
        PROVE  /\ <<note.lot, note.bid>> \in mongo
               /\ note.to = bids[note.lot][note.bid].chat
    <3>1. BidOf(desk[a]) \in mongo
      BY <2>2 DEF SellRead, SellWrite, DeskInv, Wanted
    <3>2. Congratulate(desk[a].lot, desk[a].bid)
      BY <2>2 DEF SellRead, SellWrite
    <3> QED  BY <2>2, <3>1, <3>2 DEF Congratulate, BidOf
  <2>3. ASSUME NEW a \in Admins, Handler(a), ~SellRead(a), ~SellWrite(a) PROVE UNCHANGED congrats
    BY <2>3 DEF Handler, Load, Start, Activate, HydrateRead, HydrateWrite, Sell, Cancel,
                CancelRead, CancelWrite, Pull, PullWrite, Click
  <2> QED  BY <2>1, <2>2, <2>3, BidCases DEF DeskNext, Restart, allVars, deskVars
<1>2. note.lot \in Lots /\ note.bid \in 1 .. Len(bids[note.lot])
  BY <1>1 DEF DeskInv, TypeOK, Filed, Placed
<1> QED  BY <1>1, <1>2, MongoGrows, BidsGrow DEF DeskInv

LEMMA NoticesStep ==
  ASSUME DeskInv, Leaders, SeenLeaders, NoticesReal, [DeskNext]_allVars PROVE NoticesReal'
<1>1. ASSUME NEW note \in notices' PROVE OutbidReal(note)'
  <2>1. CASE note \in notices
    <3>1. note.lot \in Lots
      BY <2>1 DEF DeskInv, TypeOK
    <3> QED  BY <2>1, <3>1, OutbidStays DEF NoticesReal
  <2>2. ASSUME UNCHANGED notices PROVE note \in notices
    BY <2>2
  <2>3. ASSUME NEW c \in Chats, Bidder(c), ~Store(c) PROVE UNCHANGED notices
    BY <2>3 DEF Bidder, PlaceBid, TryLock, AcquireFails, Recheck, Publish, Release, ReleaseFails
  <2>4. (\E c \in Chats : Store(c)) \/ UNCHANGED notices
    BY <2>3, HandlerKeeps
       DEF DeskNext, BidNext, Expire, Database, InsertDone, InsertFails, Restart, allVars, vars
  <2> QED  BY <2>1, <2>2, <2>4, StoreNotices
<1> QED  BY <1>1, CongratsStep DEF NoticesReal

\* Nobody is told they were outbid on a lot they never bid on, or by their own
\* bid, and nobody is congratulated on another chat's bid: not even when a
\* sale, a cancellation or a hydration wrote the entry back under PlaceBid.
THEOREM ToldRightly == DeskSpec => []NoticesReal
<1>1. DeskInit => SeenLeaders /\ NoticesReal
  BY DEF DeskInit, Init, SeenLeaders, NoticesReal
<1>2. DeskInv /\ Leaders /\ SeenLeaders /\ [DeskNext]_allVars => SeenLeaders'
  BY SeenStep
<1>3. DeskInv /\ Leaders /\ SeenLeaders /\ NoticesReal /\ [DeskNext]_allVars => NoticesReal'
  BY NoticesStep
<1> QED  BY <1>1, <1>2, <1>3, LeadersInvariant, PTL DEF DeskSpec

-----------------------------------------------------------------------------
(***************************************************************************)
(* What is announced.  The one chat inside a lot's section announces the   *)
(* lot's latest bid, and nothing as late was announced before.             *)
(***************************************************************************)
Announced(l) == \A i \in DOMAIN events[l] : events[l][i].bid \in 0 .. Len(bids[l])
Latest(c, l) ==
  /\ seen[c].bid = Len(bids[l])
  /\ \A i \in DOMAIN events[l] : events[l][i].bid < seen[c].bid

AnnounceInv ==
  /\ AnnouncedInOrder
  /\ \A l \in Lots : Announced(l)
  /\ \A c \in Chats : pc[c] = "publish" => Latest(c, req[c].lot)

\* A step of the core that neither stores nor announces a bid.
LEMMA QuietStep ==
  ASSUME TypeOK, BidNext, ~\E c \in Chats : Store(c) \/ Publish(c)
  PROVE  /\ UNCHANGED <<bids, events>>
         /\ \A c \in Chats : pc'[c] = "publish" =>
              pc[c] = "publish" /\ req'[c] = req[c] /\ seen'[c] = seen[c]
<1>t. /\ pc \in [Chats -> {"idle", "acquire"} \union Critical]
      /\ req \in [Chats -> Request \union {NoRequest}]
      /\ seen \in [Chats -> LotState]
  BY DEF TypeOK
<1>1. ASSUME NEW d \in Chats, Bidder(d), NEW c \in Chats, pc'[c] = "publish"
      PROVE  pc[c] = "publish" /\ req'[c] = req[c] /\ seen'[c] = seen[c]
  <2>1. CASE c = d
    BY <1>t, <1>1, <2>1 DEF Bidder, PlaceBid, TryLock, AcquireFails, Recheck, Release, ReleaseFails,
                       Return
  <2>2. CASE c # d
    BY <1>t, <1>1, <2>2 DEF Bidder, PlaceBid, TryLock, AcquireFails, Recheck, Release, ReleaseFails,
                       Return
  <2> QED  BY <2>1, <2>2
<1>2. ASSUME NEW d \in Chats, Bidder(d) PROVE UNCHANGED <<bids, events>>
  BY <1>2 DEF Bidder, PlaceBid, TryLock, AcquireFails, Recheck, Release, ReleaseFails
<1>3. ASSUME Database \/ \E l \in Lots : Expire(l) PROVE UNCHANGED <<bids, events, pc, req, seen>>
  BY <1>3 DEF Database, InsertDone, InsertFails, Expire
<1> QED  BY <1>1, <1>2, <1>3 DEF BidNext

LEMMA AnnounceStep ==
  ASSUME DeskInv, HolderInside, AnnounceInv, [DeskNext]_allVars PROVE AnnounceInv'
<1>t. TypeOK /\ TypeOK'
  BY DeskInvStep DEF DeskInv
<1>1. ASSUME NEW c \in Chats, Store(c) \/ Publish(c) PROVE AnnounceInv'
  <2>1. PICK l \in Lots : l = req[c].lot
    BY <1>t, <1>1, RequestTyped DEF Store, Publish
  <2>2. \A d \in Chats \ {c} : pc[d] = "publish" => req[d].lot # l
    BY <1>1, <2>1 DEF Store, Publish, HolderInside, InSection, Critical
  <2>3. /\ \A d \in Chats \ {c} : pc'[d] = pc[d] /\ seen'[d] = seen[d]
        /\ UNCHANGED req
        /\ \A k \in Lots \ {l} : bids'[k] = bids[k] /\ events'[k] = events[k]
    BY <1>t, <1>1, <2>1 DEF Store, Publish, TypeOK
  <2>4. /\ Announced(l)'
        /\ pc'[c] = "publish" => Latest(c, l)'
        /\ \A i, j \in DOMAIN events'[l] : i < j => events'[l][i].bid < events'[l][j].bid
    <3>1. CASE Store(c)
      <4>1. events'[l] = events[l] /\ seen'[c].bid = Len(bids[l]) + 1
        BY <1>t, <2>1, <3>1 DEF Store, TypeOK
      <4>2. Len(bids[l]) \in Nat /\ Len(bids'[l]) = Len(bids[l]) + 1
        <5>1. /\ bids[l] \in Seq(Bid)
              /\ bids'[l] = Append(bids[l], [chat |-> c, amount |-> req[c].amount])
          BY <1>t, <2>1, <3>1, StoreBids
        <5> QED  BY <5>1
      <4>3. \A i \in DOMAIN events[l] : events[l][i].bid \in 0 .. Len(bids[l])
        BY DEF AnnounceInv, Announced
      <4> QED  BY <4>1, <4>2, <4>3 DEF Announced, Latest, AnnounceInv, AnnouncedInOrder
    <3>2. CASE Publish(c)
      <4> DEFINE event == [bid |-> seen[c].bid, count |-> seen[c].count]
      <4>1. /\ bids'[l] = bids[l] /\ Len(bids[l]) \in Nat
            /\ events[l] \in Seq([bid : Nat, count : Nat])
            /\ events'[l] = Append(events[l], event) /\ event \in [bid : Nat, count : Nat]
            /\ pc'[c] # "publish"
        BY <1>t, <2>1, <3>2 DEF Publish, TypeOK, LotState
      <4>2. /\ event.bid = Len(bids[l])
            /\ \A i \in DOMAIN events[l] : events[l][i].bid < event.bid
        BY <2>1, <3>2 DEF Publish, AnnounceInv, Latest
      <4> HIDE DEF event
      <4>3. /\ DOMAIN events'[l] = DOMAIN events[l] \union {Len(events[l]) + 1}
            /\ DOMAIN events[l] = 1 .. Len(events[l]) /\ Len(events[l]) \in Nat
            /\ \A i \in DOMAIN events[l] : events'[l][i] = events[l][i]
            /\ events'[l][Len(events[l]) + 1] = event
        BY <4>1
      <4>4. \A i \in DOMAIN events[l] : events[l][i].bid \in 0 .. Len(bids[l])
        BY DEF AnnounceInv, Announced
      <4>5. \A i, j \in DOMAIN events[l] : i < j => events[l][i].bid < events[l][j].bid
        BY DEF AnnounceInv, AnnouncedInOrder
      <4>6. event.bid \in 0 .. Len(bids[l])
        BY <4>1, <4>2
      <4>7. Announced(l)'
        BY <4>1, <4>3, <4>4, <4>6 DEF Announced
      <4>8. \A i, j \in DOMAIN events'[l] : i < j => events'[l][i].bid < events'[l][j].bid
        BY <4>2, <4>3, <4>5
      <4> QED  BY <4>1, <4>7, <4>8
    <3> QED  BY <1>1, <3>1, <3>2
  <2>5. AnnouncedInOrder'
    BY <2>3, <2>4 DEF AnnounceInv, AnnouncedInOrder
  <2>6. \A k \in Lots : Announced(k)'
    BY <2>3, <2>4 DEF AnnounceInv, Announced
  <2>7. ASSUME NEW d \in Chats, pc'[d] = "publish" PROVE Latest(d, req[d].lot)'
    <3>1. CASE d = c
      BY <2>1, <2>3, <2>4, <2>7, <3>1 DEF Latest
    <3>2. CASE d # c
      <4>1. /\ pc[d] = "publish" /\ seen'[d] = seen[d] /\ req'[d] = req[d]
            /\ req[d].lot \in Lots \ {l}
        BY <1>t, <2>2, <2>3, <2>7, <3>2, RequestTyped
      <4> QED  BY <2>3, <4>1 DEF AnnounceInv, Latest
    <3> QED  BY <3>1, <3>2
  <2> QED  BY <2>5, <2>6, <2>7 DEF AnnounceInv
<1>2. ASSUME UNCHANGED <<bids, events>>,
             \A c \in Chats : pc'[c] = "publish" =>
               pc[c] = "publish" /\ req'[c] = req[c] /\ seen'[c] = seen[c]
      PROVE  AnnounceInv'
  BY <1>2 DEF AnnounceInv, AnnouncedInOrder, Announced, Latest
<1>3. CASE Restart
  <2>1. UNCHANGED <<bids, events>> /\ \A c \in Chats : pc'[c] = "idle"
    BY <1>3 DEF Restart
  <2> QED  BY <1>2, <2>1
<1>4. ASSUME NEW a \in Admins, Handler(a) PROVE AnnounceInv'
  BY <1>2, <1>4, HandlerKeeps
<1>5. CASE UNCHANGED allVars
  BY <1>2, <1>5 DEF allVars, vars
<1> QED  BY <1>t, <1>1, <1>2, <1>3, <1>4, <1>5, QuietStep DEF DeskNext

\* While no section outlives its key, a lot's bids are announced in the order
\* they were taken and none twice, whatever the desk writes back under
\* PlaceBid and however often the process dies with the key set.
THEOREM AnnouncedRightly == ASSUME Stalls = FALSE PROVE DeskSpec => []AnnouncedInOrder
<1>1. DeskInit => HolderInside /\ AnnounceInv
  BY DEF DeskInit, Init, HolderInside, InSection, Critical, AnnounceInv, AnnouncedInOrder, Announced
<1>2. DeskInv /\ HolderInside /\ [DeskNext]_allVars => HolderInside'
  BY DeskHolderStep
<1>3. DeskInv /\ HolderInside /\ AnnounceInv /\ [DeskNext]_allVars => AnnounceInv'
  BY AnnounceStep
<1>4. AnnounceInv => AnnouncedInOrder
  BY DEF AnnounceInv
<1> QED  BY <1>1, <1>2, <1>3, <1>4, DeskInvariant, PTL DEF DeskSpec
=============================================================================
