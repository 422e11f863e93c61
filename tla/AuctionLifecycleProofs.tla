----------------------- MODULE AuctionLifecycleProofs -----------------------
(***************************************************************************)
(* The theorems about auctions and their lots, for any number of auctions, *)
(* lots, admins and chats, any clicks and restarts, and calls that fail.   *)
(***************************************************************************)
EXTENDS AuctionLifecycle, TLAPS

USE DEF races, counts

-----------------------------------------------------------------------------
(***************************************************************************)
(* Types.                                                                  *)
(***************************************************************************)
LEMMA TaskFields ==
  ASSUME LifecycleTypeOK, NEW m \in Admins
  PROVE  /\ task[m] \in TaskState
         /\ task[m] # Idle => task[m].op # "idle"
         /\ task[m].op # "idle" => task[m].auction \in Auctions
         /\ task[m].op = "activate" =>
              task[m] = [op |-> "activate", auction |-> task[m].auction,
                         rest |-> task[m].rest] /\ task[m].rest \subseteq Auctions
         /\ task[m].op = "show" => task[m].lots \subseteq LotIds
         /\ task[m].op \in {"create", "hydrateLot"} => task[m].num \in Nums
         /\ task[m].op = "create" => task[m].active \in BOOLEAN
<1>1. task[m] \in TaskState
  BY DEF LifecycleTypeOK
<1>2. CASE task[m] = Idle
  BY <1>1, <1>2 DEF Idle
<1>3. CASE task[m] \in [op : {"list", "hydrate", "relist", "close"}, auction : Auctions]
  BY <1>1, <1>3
<1>4. CASE task[m] \in [op : {"activate"}, auction : Auctions, rest : SUBSET Auctions]
  BY <1>1, <1>4
<1>5. CASE task[m] \in [op : {"show"}, auction : Auctions, lots : SUBSET LotIds]
  BY <1>1, <1>5
<1>6. CASE task[m] \in [op : {"create"}, auction : Auctions, num : Nums, active : BOOLEAN]
  BY <1>1, <1>6
<1>7. CASE task[m] \in [op : {"hydrateLot"}, auction : Auctions, num : Nums]
  BY <1>1, <1>7
<1> QED  BY <1>1, <1>2, <1>3, <1>4, <1>5, <1>6, <1>7 DEF TaskState

LEMMA ChatFields ==
  ASSUME LifecycleTypeOK, NEW c \in Chats
  PROVE  /\ chat[c].op = "lot" => chat[c].auction \in Auctions
         /\ chat[c].op = "place" => chat[c].auction \in Auctions /\ chat[c].lot \in LotIds
BY DEF LifecycleTypeOK, ChatState, Idle

LEMMA GotoType ==
  ASSUME LifecycleTypeOK, NEW m \in Admins, NEW step \in TaskState, Goto(m, step)
  PROVE  task' \in [Admins -> TaskState]
BY DEF LifecycleTypeOK, Goto

LEMMA StepType ==
  ASSUME LifecycleTypeOK, NEW c \in Chats, NEW step \in ChatState, Step(c, step)
  PROVE  chat' \in [Chats -> ChatState]
BY DEF LifecycleTypeOK, Step

LEMMA LotsOfType ==
  ASSUME LifecycleTypeOK, NEW a \in Auctions PROVE LotsOf(a) \subseteq LotIds
BY DEF LifecycleTypeOK, LotsOf, LotIds

LEMMA IdleIsTask == Idle \in TaskState /\ Idle \in ChatState
BY DEF TaskState, ChatState

LEMMA LogType ==
  ASSUME LifecycleTypeOK, NEW a \in Auctions \union {NoAuction},
         NEW call \in {"end", "lots", "activate", "restore", "create"},
         Log(call, a)
  PROVE  logged' \subseteq [call : {"end", "lots", "activate", "restore", "create"},
                            auction : Auctions \union {NoAuction}]
BY DEF LifecycleTypeOK, Log

LEMMA KnownAuctions == LifecycleTypeOK => Known \subseteq Auctions /\ Active \subseteq Auctions
BY DEF LifecycleTypeOK, Known, Active

LEMMA InitType == Init => LifecycleTypeOK
BY IdleIsTask DEF Init, LifecycleTypeOK, NoHub

LEMMA StartType ==
  ASSUME LifecycleTypeOK, NEW m \in Admins,
         \/ \E a \in Auctions : Create(m, a) \/ Start(m, a)
         \/ Load(m) \/ List(m) \/ EndOther(m) \/ Activate(m)
  PROVE  LifecycleTypeOK'
<1> USE DEF KeepStore, KeepBot
<1>1. ASSUME NEW a \in Auctions, Create(m, a) PROVE LifecycleTypeOK'
  <2>1. created' \in Seq(Auctions)
    BY <1>1 DEF Create, LifecycleTypeOK
  <2>2. \A i, j \in DOMAIN created' : created'[i] = created'[j] => i = j
    BY <1>1 DEF Create, LifecycleTypeOK, Known
  <2> QED  BY <1>1, <2>1, <2>2 DEF Create, LifecycleTypeOK
<1>2. ASSUME NEW a \in Auctions, Start(m, a) PROVE LifecycleTypeOK'
  <2>1. task' \in [Admins -> TaskState]
    BY <1>2, GotoType DEF Start, TaskState
  <2> QED  BY <1>2, <2>1 DEF Start, Click, LifecycleTypeOK
<1>3. CASE Load(m)
  BY <1>3, KnownAuctions DEF Load, LifecycleTypeOK
<1>4. CASE List(m)
  <2>1. task[m].auction \in Auctions
    BY <1>4, TaskFields DEF List
  <2>2. task' \in [Admins -> TaskState]
    BY <1>4, <2>1, GotoType, IdleIsTask, KnownAuctions DEF List, Fail, TaskState
  <2>3. logged' \subseteq [call : {"end", "lots", "activate", "restore", "create"},
                           auction : Auctions \union {NoAuction}]
    BY <1>4, <2>1, LogType DEF List, Fail, LifecycleTypeOK
  <2> QED  BY <1>4, <2>2, <2>3 DEF List, LifecycleTypeOK
<1>5. CASE EndOther(m)
  <2>1. PICK o \in task[m].rest :
          /\ Goto(m, [task[m] EXCEPT !.rest = @ \ {o}])
          /\ \/ status' = [status EXCEPT ![o] = "ended"] /\ UNCHANGED logged
             \/ /\ UNCHANGED status \/ status' = [status EXCEPT ![o] = "ended"]
                /\ Log("end", o)
    BY <1>5 DEF EndOther
  <2>2. /\ task[m] = [op |-> "activate", auction |-> task[m].auction, rest |-> task[m].rest]
        /\ task[m].auction \in Auctions /\ task[m].rest \subseteq Auctions
    BY <1>5, TaskFields DEF EndOther
  <2>3. [task[m] EXCEPT !.rest = @ \ {o}] \in TaskState
    BY <2>2 DEF TaskState
  <2>4. task' \in [Admins -> TaskState]
    BY <2>1, <2>3, GotoType
  <2>5. status' \in [Auctions -> {"draft", "active", "ended"}]
    BY <2>1 DEF LifecycleTypeOK
  <2>6. logged' \subseteq [call : {"end", "lots", "activate", "restore", "create"},
                           auction : Auctions \union {NoAuction}]
    BY <2>1, <2>2, LogType DEF LifecycleTypeOK
  <2> QED  BY <1>5, <2>4, <2>5, <2>6 DEF EndOther, LifecycleTypeOK
<1>6. CASE Activate(m)
  <2>1. task[m].auction \in Auctions
    BY <1>6, TaskFields DEF Activate
  <2>2. task' \in [Admins -> TaskState]
    BY <1>6, <2>1, GotoType, IdleIsTask DEF Activate, Fail, TaskState
  <2>3. logged' \subseteq [call : {"end", "lots", "activate", "restore", "create"},
                           auction : Auctions \union {NoAuction}]
    BY <1>6, <2>1, LogType DEF Activate, Fail, LifecycleTypeOK
  <2>4. status' \in [Auctions -> {"draft", "active", "ended"}]
    BY <1>6 DEF Activate, MarkActive, LifecycleTypeOK
  <2>5. crossed' \subseteq SUBSET Auctions
    <3>1. \A n \in Overlapping(m) : task[n].auction \in Auctions
      BY TaskFields DEF Overlapping
    <3>2. {{task[m].auction, task[n].auction} : n \in Overlapping(m)} \subseteq SUBSET Auctions
      BY <2>1, <3>1
    <3>3. MarkActive(m) \/ UNCHANGED crossed
      BY <1>6 DEF Activate
    <3> QED  BY <3>2, <3>3 DEF MarkActive, LifecycleTypeOK
  <2> QED  BY <1>6, <2>2, <2>3, <2>4, <2>5 DEF Activate, LifecycleTypeOK
<1> QED  BY <1>1, <1>2, <1>3, <1>4, <1>5, <1>6

LEMMA ShowType ==
  ASSUME LifecycleTypeOK, NEW m \in Admins,
         Hydrate(m) \/ Relist(m) \/ Show(m) \/ Close(m)
  PROVE  LifecycleTypeOK'
<1> USE DEF KeepStore, KeepBot
<1> DEFINE a == task[m].auction
<1>1. a \in Auctions /\ LotsOf(a) \subseteq LotIds
  BY TaskFields, LotsOfType DEF Hydrate, Relist, Show, Close
<1>2. CASE Hydrate(m)
  <2>1. task' \in [Admins -> TaskState]
    BY <1>1, <1>2, GotoType DEF Hydrate, TaskState
  <2>2. logged' \subseteq [call : {"end", "lots", "activate", "restore", "create"},
                           auction : Auctions \union {NoAuction}]
    BY <1>1, <1>2, LogType DEF Hydrate, LifecycleTypeOK
  <2>3. entries' \subseteq Auctions \X LotIds
    BY <1>1, <1>2 DEF Hydrate, LifecycleTypeOK
  <2> QED  BY <1>2, <2>1, <2>2, <2>3 DEF Hydrate, LifecycleTypeOK
<1>3. CASE Relist(m)
  <2>1. task' \in [Admins -> TaskState]
    BY <1>1, <1>3, GotoType DEF Relist, TaskState
  <2> QED  BY <1>3, <2>1 DEF Relist, LifecycleTypeOK
<1>4. CASE Show(m)
  <2>1. task' \in [Admins -> TaskState]
    BY <1>4, GotoType, IdleIsTask DEF Show
  <2> QED  BY <1>1, <1>4, <2>1, TaskFields DEF Show, LifecycleTypeOK
<1>5. CASE Close(m)
  <2>1. task' \in [Admins -> TaskState]
    BY <1>5, GotoType, IdleIsTask DEF Close
  <2> QED  BY <1>1, <1>5, <2>1 DEF Close, LifecycleTypeOK
<1> QED  BY <1>2, <1>3, <1>4, <1>5

LEMMA LotType ==
  ASSUME LifecycleTypeOK, NEW m \in Admins,
         \/ \E a \in Auctions : End(m, a) \/ AddLot(m, a)
         \/ CreateLot(m) \/ HydrateLot(m)
  PROVE  LifecycleTypeOK'
<1> USE DEF KeepStore, KeepBot
<1>1. ASSUME NEW a \in Auctions, End(m, a) PROVE LifecycleTypeOK'
  <2>1. task' \in [Admins -> TaskState]
    BY <1>1, GotoType, IdleIsTask DEF End, TaskState
  <2>2. status' \in [Auctions -> {"draft", "active", "ended"}]
    BY <1>1 DEF End, LifecycleTypeOK
  <2> QED  BY <1>1, <2>1, <2>2 DEF End, Click, LifecycleTypeOK
<1>2. ASSUME NEW a \in Auctions, AddLot(m, a) PROVE LifecycleTypeOK'
  <2>1. task' \in [Admins -> TaskState]
    BY <1>2, GotoType DEF AddLot, NextNum, TaskState
  <2> QED  BY <1>2, <2>1 DEF AddLot, LifecycleTypeOK
<1>3. CASE CreateLot(m)
  <2>1. task[m].auction \in Auctions /\ task[m].num \in Nums
    BY <1>3, TaskFields DEF CreateLot
  <2>2. task' \in [Admins -> TaskState]
    <3>1. [op |-> "hydrateLot", auction |-> task[m].auction, num |-> task[m].num] \in TaskState
      BY <2>1 DEF TaskState
    <3> QED  BY <1>3, <3>1, GotoType, IdleIsTask DEF CreateLot, Fail
  <2>3. logged' \subseteq [call : {"end", "lots", "activate", "restore", "create"},
                           auction : Auctions \union {NoAuction}]
    BY <1>3, <2>1, LogType DEF CreateLot, Fail, LifecycleTypeOK
  <2>4. lots' \in [Auctions -> SUBSET Nums]
    BY <1>3, <2>1 DEF CreateLot, LifecycleTypeOK
  <2>5. late' \subseteq Auctions
    BY <1>3, <2>1 DEF CreateLot, LifecycleTypeOK
  <2> QED  BY <1>3, <2>2, <2>3, <2>4, <2>5 DEF CreateLot, LifecycleTypeOK
<1>4. CASE HydrateLot(m)
  <2>1. task[m].auction \in Auctions /\ task[m].num \in Nums
    BY <1>4, TaskFields DEF HydrateLot
  <2>2. task' \in [Admins -> TaskState]
    BY <1>4, <2>1, GotoType DEF HydrateLot, TaskState
  <2>3. entries' \subseteq Auctions \X LotIds
    BY <1>4, <2>1 DEF HydrateLot, LifecycleTypeOK, LotIds
  <2> QED  BY <1>4, <2>2, <2>3 DEF HydrateLot, LifecycleTypeOK
<1> QED  BY <1>1, <1>2, <1>3, <1>4

LEMMA BetType ==
  ASSUME LifecycleTypeOK, NEW c \in Chats, AddBet(c) PROVE LifecycleTypeOK'
<1> USE DEF KeepStore, KeepDesk
<1>1. CASE ReadAuction(c)
  <2>1. chat' \in [Chats -> ChatState]
    BY <1>1, StepType DEF ReadAuction, ChatState, LifecycleTypeOK
  <2> QED  BY <1>1, <2>1 DEF ReadAuction, LifecycleTypeOK
<1>2. ASSUME NEW n \in Nums, ReadLot(c, n) PROVE LifecycleTypeOK'
  <2>1. chat[c].auction \in Auctions /\ hub.lots \subseteq LotIds
    BY <1>2, ChatFields DEF ReadLot, LifecycleTypeOK
  <2>2. chat' \in [Chats -> ChatState]
    BY <1>2, <2>1, StepType, IdleIsTask DEF ReadLot, ChatState
  <2> QED  BY <1>2, <2>2 DEF ReadLot, LifecycleTypeOK
<1>3. CASE PlaceBid(c)
  <2>1. chat' \in [Chats -> ChatState]
    BY <1>3, StepType, IdleIsTask DEF PlaceBid
  <2> QED  BY <1>3, <2>1, ChatFields DEF PlaceBid, LifecycleTypeOK
<1> QED  BY <1>1, <1>2, <1>3 DEF AddBet

LEMMA RestartType == ASSUME LifecycleTypeOK, Restart PROVE LifecycleTypeOK'
<1>1. task' \in [Admins -> TaskState] /\ chat' \in [Chats -> ChatState]
  BY IdleIsTask DEF Restart
<1>2. /\ entries' \subseteq Auctions \X LotIds
      /\ hub' \in [auction : Auctions \union {NoAuction}, status : {"draft", "active", "ended"},
                   lots : SUBSET LotIds]
  BY LotsOfType DEF Restart, NoHub
<1>3. logged' \subseteq [call : {"end", "lots", "activate", "restore", "create"},
                         auction : Auctions \union {NoAuction}]
  BY LogType DEF Restart, LifecycleTypeOK
<1> QED  BY <1>1, <1>2, <1>3 DEF Restart, KeepStore, LifecycleTypeOK

LEMMA NextType == LifecycleTypeOK /\ [Next]_vars => LifecycleTypeOK'
<1> SUFFICES ASSUME LifecycleTypeOK, [Next]_vars PROVE LifecycleTypeOK'
  OBVIOUS
<1>1. ASSUME NEW m \in Admins, Handler(m) PROVE LifecycleTypeOK'
  BY <1>1, StartType, ShowType, LotType DEF Handler
<1>2. ASSUME NEW c \in Chats, AddBet(c) PROVE LifecycleTypeOK'
  BY <1>2, BetType
<1>3. CASE UNCHANGED vars
  BY <1>3 DEF vars, LifecycleTypeOK
<1> QED  BY <1>1, <1>2, <1>3, RestartType DEF Next

\* Documents, keys, pages and handlers keep their types, for any number of
\* auctions, lots, admins and chats.
THEOREM LifecycleTypeCorrect == Spec => []LifecycleTypeOK
BY InitType, NextType, PTL DEF Spec

-----------------------------------------------------------------------------
(***************************************************************************)
(* Where an entry of the cache comes from, and what never goes back.       *)
(***************************************************************************)
IsHydrated(e) ==
  \E m \in Admins :
    \/ task[m].op = "hydrate" /\ e \in {task[m].auction} \X LotsOf(task[m].auction)
    \/ task[m].op = "hydrateLot" /\ e = <<task[m].auction, <<task[m].auction, task[m].num>>>>
IsRestored(e) == \E a \in Active : e \in {a} \X LotsOf(a)

LEMMA EntryOrigin ==
  ASSUME [Next]_vars
  PROVE  \A e \in entries' : e \in entries \/ IsHydrated(e) \/ IsRestored(e)
<1> SUFFICES ASSUME NEW e \in entries', e \notin entries PROVE IsHydrated(e) \/ IsRestored(e)
  OBVIOUS
<1> USE DEF KeepBot, KeepDesk
<1>1. ASSUME NEW m \in Admins, Hydrate(m) PROVE IsHydrated(e)
  BY <1>1 DEF Hydrate, IsHydrated
<1>2. ASSUME NEW m \in Admins, HydrateLot(m) PROVE IsHydrated(e)
  BY <1>2 DEF HydrateLot, IsHydrated
<1>3. ASSUME NEW m \in Admins, Handler(m), ~Hydrate(m), ~HydrateLot(m) PROVE FALSE
  BY <1>3 DEF Handler, Create, Load, Start, Click, List, EndOther, Activate, Relist, Show,
              End, Close, AddLot, CreateLot
<1>4. ASSUME NEW c \in Chats, AddBet(c) PROVE FALSE
  BY <1>4 DEF AddBet, ReadAuction, ReadLot, PlaceBid
<1>5. CASE Restart
  BY <1>5 DEF Restart, IsNewest, IsRestored
<1>6. CASE UNCHANGED vars
  BY <1>6 DEF vars
<1> QED  BY <1>1, <1>2, <1>3, <1>4, <1>5, <1>6 DEF Next

\* A bid is accepted on an entry.
LEMMA BidOrigin ==
  ASSUME [Next]_vars PROVE \A b \in accepted' : b \in accepted \/ b \in entries
<1> USE DEF KeepBot
<1>1. ASSUME NEW m \in Admins, Handler(m) PROVE accepted' = accepted
  BY <1>1 DEF Handler, Create, Load, Start, Click, List, EndOther, Activate, Hydrate, Relist,
              Show, End, Close, AddLot, CreateLot, HydrateLot
<1>2. ASSUME NEW c \in Chats, AddBet(c)
      PROVE  \A b \in accepted' : b \in accepted \/ b \in entries
  BY <1>2 DEF AddBet, ReadAuction, ReadLot, PlaceBid
<1>3. CASE Restart \/ UNCHANGED vars
  BY <1>3 DEF Restart, vars
<1> QED  BY <1>1, <1>2, <1>3 DEF Next

LEMMA StatusGrows ==
  ASSUME LifecycleTypeOK, [Next]_vars
  PROVE  \A a \in Auctions : status'[a] = "draft" => status[a] = "draft"
<1> USE DEF KeepStore, LifecycleTypeOK
<1>1. ASSUME NEW m \in Admins, EndOther(m) \/ Activate(m) \/ \E a \in Auctions : End(m, a)
      PROVE  \A a \in Auctions : status'[a] = "draft" => status[a] = "draft"
  BY <1>1 DEF EndOther, Activate, MarkActive, End
<1>2. ASSUME NEW m \in Admins, Handler(m),
             ~(EndOther(m) \/ Activate(m) \/ \E a \in Auctions : End(m, a))
      PROVE  status' = status
  BY <1>2 DEF Handler, Create, Load, Start, Click, List, Hydrate, Relist, Show, Close, AddLot,
              CreateLot, HydrateLot
<1>3. ASSUME NEW c \in Chats, AddBet(c) PROVE status' = status
  BY <1>3 DEF AddBet, ReadAuction, ReadLot, PlaceBid
<1>4. CASE Restart \/ UNCHANGED vars
  BY <1>4 DEF Restart, vars
<1> QED  BY <1>1, <1>2, <1>3, <1>4 DEF Next

-----------------------------------------------------------------------------
(***************************************************************************)
(* Every entry of the cache files a lot under its own auction.             *)
(***************************************************************************)
EntriesOwn == \A e \in entries : e[2][1] = e[1]

LEMMA EntriesOwnStep == ASSUME EntriesOwn, [Next]_vars PROVE EntriesOwn'
<1> SUFFICES ASSUME NEW e \in entries' PROVE e[2][1] = e[1]
  BY DEF EntriesOwn
<1>1. CASE e \in entries
  BY <1>1 DEF EntriesOwn
<1>2. CASE IsHydrated(e) \/ IsRestored(e)
  BY <1>2 DEF IsHydrated, IsRestored, LotsOf
<1> QED  BY <1>1, <1>2, EntryOrigin

\* A bid is accepted only on a lot of the auction it names, however the hub
\* changes between addBet's two reads of it.
THEOREM OwnLot == Spec => []BidOnOwnLot
<1> DEFINE Inv == EntriesOwn /\ BidOnOwnLot
<1>1. Init => Inv
  BY DEF Init, EntriesOwn, BidOnOwnLot
<1>2. LifecycleTypeOK /\ Inv /\ [Next]_vars => Inv'
  <2> SUFFICES ASSUME LifecycleTypeOK, Inv, [Next]_vars PROVE Inv'
    OBVIOUS
  <2>1. EntriesOwn'
    BY EntriesOwnStep
  <2>2. BidOnOwnLot'
    BY BidOrigin DEF BidOnOwnLot, EntriesOwn
  <2> QED  BY <2>1, <2>2
<1> QED  BY <1>1, <1>2, LifecycleTypeCorrect, PTL DEF Spec

-----------------------------------------------------------------------------
(***************************************************************************)
(* Only lots of an auction that was started have entries, and a handler    *)
(* that will make one has seen its auction active.                         *)
(***************************************************************************)
WillHydrate(t) == t.op \in {"hydrate", "hydrateLot"} \/ (t.op = "create" /\ t.active)

Begun ==
  /\ \A e \in entries : status[e[1]] # "draft"
  /\ \A m \in Admins : WillHydrate(task[m]) => status[task[m].auction] # "draft"

\* How a handler comes to have an entry to make.
LEMMA WorkOrigin ==
  ASSUME LifecycleTypeOK, [Next]_vars, NEW m \in Admins, WillHydrate(task'[m])
  PROVE  \/ /\ WillHydrate(task[m])
            /\ task'[m].auction = task[m].auction /\ task[m].auction \in Auctions
         \/ /\ task'[m].auction \in Auctions
            /\ status'[task'[m].auction] = "active"
<1> DEFINE Came ==
      \/ /\ WillHydrate(task[m])
         /\ task'[m].auction = task[m].auction /\ task[m].auction \in Auctions
      \/ /\ task'[m].auction \in Auctions
         /\ status'[task'[m].auction] = "active"
<1>0. CASE task'[m] = task[m]
  <2>1. task[m].auction \in Auctions
    BY <1>0, TaskFields DEF WillHydrate
  <2> QED  BY <1>0, <2>1
<1> USE DEF KeepStore, LifecycleTypeOK, Goto, Idle, WillHydrate
<1>1. ASSUME NEW n \in Admins, Activate(n) PROVE Came
  BY <1>0, <1>1, TaskFields DEF Activate, MarkActive, Fail
<1>2. ASSUME NEW n \in Admins, NEW a \in Auctions, AddLot(n, a) PROVE Came
  <2> DEFINE new(k) == [op |-> "create", auction |-> a, num |-> k,
                        active |-> status[a] = "active"]
  <2>1. PICK k \in Nums : task' = [task EXCEPT ![n] = new(k)]
    BY <1>2 DEF AddLot, NextNum
  <2>2. CASE m = n
    <3>1. task'[m] = new(k)
      BY <2>1, <2>2
    <3>2. new(k).op = "create" /\ new(k).auction = a
      OBVIOUS
    <3>3. new(k).active <=> status[a] = "active"
      OBVIOUS
    <3>4. status[a] = "active" /\ status' = status
      BY <1>2, <3>1, <3>2, <3>3 DEF AddLot
    <3> QED  BY <3>1, <3>2, <3>4
  <2>3. CASE m # n
    BY <1>0, <2>1, <2>3
  <2> QED  BY <2>2, <2>3
<1>3. ASSUME NEW n \in Admins, CreateLot(n) PROVE Came
  BY <1>0, <1>3, TaskFields DEF CreateLot, Fail
<1>4. ASSUME NEW n \in Admins, EndOther(n) PROVE Came
  <2>1. PICK o \in task[n].rest : Goto(n, [task[n] EXCEPT !.rest = @ \ {o}])
    BY <1>4 DEF EndOther
  <2>2. task[n] = [op |-> "activate", auction |-> task[n].auction, rest |-> task[n].rest]
    BY <1>4, TaskFields DEF EndOther
  <2>3. [task[n] EXCEPT !.rest = @ \ {o}].op = "activate"
    BY <2>2
  <2> QED  BY <1>0, <2>1, <2>3
<1>5. ASSUME NEW n \in Admins, Handler(n), ~Activate(n), ~CreateLot(n), ~EndOther(n),
             \A a \in Auctions : ~AddLot(n, a)
      PROVE  Came
  BY <1>0, <1>5 DEF Handler, Create, Load, Start, Click, List, Hydrate, Relist, Show, End,
                    Close, HydrateLot, Fail
<1>6. ASSUME NEW c \in Chats, AddBet(c) PROVE Came
  BY <1>0, <1>6 DEF AddBet, ReadAuction, ReadLot, PlaceBid, KeepDesk
<1>7. CASE Restart
  BY <1>7 DEF Restart
<1>8. CASE UNCHANGED vars
  BY <1>0, <1>8 DEF vars
<1> QED  BY <1>1, <1>2, <1>3, <1>4, <1>5, <1>6, <1>7, <1>8 DEF Next

LEMMA BegunStep ==
  ASSUME LifecycleTypeOK, Begun, [Next]_vars PROVE Begun'
<1>1. ASSUME NEW e \in entries' PROVE status'[e[1]] # "draft"
  <2>1. LifecycleTypeOK'
    BY NextType
  <2>2. e[1] \in Auctions
    BY <2>1 DEF LifecycleTypeOK
  <2>3. CASE e \in entries
    BY <2>2, <2>3, StatusGrows DEF Begun
  <2>4. CASE IsHydrated(e)
    BY <2>2, <2>4, StatusGrows DEF Begun, IsHydrated, WillHydrate
  <2>5. CASE IsRestored(e)
    BY <2>2, <2>5, StatusGrows DEF IsRestored, Active
  <2> QED  BY <2>3, <2>4, <2>5, EntryOrigin
<1>2. ASSUME NEW m \in Admins, WillHydrate(task'[m]) PROVE status'[task'[m].auction] # "draft"
  <2>1. CASE /\ WillHydrate(task[m])
             /\ task'[m].auction = task[m].auction /\ task[m].auction \in Auctions
    BY <2>1, StatusGrows DEF Begun
  <2> QED  BY <1>2, <2>1, WorkOrigin
<1> QED  BY <1>1, <1>2 DEF Begun

\* No bid is accepted for an auction that was never started.
THEOREM NoDraftBid == Spec => []NoBidInDraft
<1> DEFINE Inv == Begun /\ NoBidInDraft
<1>1. Init => Inv
  BY DEF Init, Begun, NoBidInDraft, Idle, WillHydrate
<1>2. LifecycleTypeOK /\ Inv /\ [Next]_vars => Inv'
  <2> SUFFICES ASSUME LifecycleTypeOK, Inv, [Next]_vars PROVE Inv'
    OBVIOUS
  <2>1. \A b \in accepted \union entries : b[1] \in Auctions /\ status[b[1]] # "draft"
    BY DEF LifecycleTypeOK, Begun, NoBidInDraft
  <2>2. NoBidInDraft'
    BY <2>1, BidOrigin, StatusGrows DEF NoBidInDraft
  <2> QED  BY <2>2, BegunStep
<1> QED  BY <1>1, <1>2, LifecycleTypeCorrect, PTL DEF Spec

-----------------------------------------------------------------------------
(***************************************************************************)
(* Pages and handlers name auctions that were created, and only those are  *)
(* started or ended.                                                       *)
(***************************************************************************)
Filed ==
  /\ \A a \in Auctions : status[a] # "draft" => a \in Known
  /\ \A m \in Admins : /\ pages[m].start \subseteq Known /\ pages[m].end \subseteq Known
                       /\ task[m].op # "idle" => task[m].auction \in Known
                       /\ task[m].op = "activate" => task[m].rest \subseteq Known

LEMMA KnownGrows == LifecycleTypeOK /\ [Next]_vars => Known \subseteq Known'
<1> SUFFICES ASSUME LifecycleTypeOK, [Next]_vars PROVE Known \subseteq Known'
  OBVIOUS
<1> USE DEF KeepStore
<1>1. CASE UNCHANGED created
  BY <1>1 DEF Known
<1>2. ASSUME NEW m \in Admins, NEW a \in Auctions, Create(m, a) PROVE Known \subseteq Known'
  BY <1>2 DEF Create, Known, LifecycleTypeOK
<1>3. ASSUME NEW m \in Admins, Handler(m), \A a \in Auctions : ~Create(m, a)
      PROVE  UNCHANGED created
  BY <1>3 DEF Handler, Load, Start, Click, List, EndOther, Activate, Hydrate, Relist, Show,
              End, Close, AddLot, CreateLot, HydrateLot
<1>4. ASSUME NEW c \in Chats, AddBet(c) PROVE UNCHANGED created
  BY <1>4 DEF AddBet, ReadAuction, ReadLot, PlaceBid
<1>5. ASSUME Restart \/ UNCHANGED vars PROVE UNCHANGED created
  BY <1>5 DEF Restart, vars
<1> QED  BY <1>1, <1>2, <1>3, <1>4, <1>5 DEF Next

LEMMA FiledTask ==
  ASSUME LifecycleTypeOK, Filed, [Next]_vars, NEW m \in Admins, NEW step, Goto(m, step),
         step.op # "idle" => step.auction \in Known,
         step.op = "activate" => step.rest \subseteq Known,
         pages' = pages,
         \A a \in Auctions : status'[a] # "draft" => status[a] # "draft" \/ a \in Known
  PROVE  Filed'
<1>1. \A n \in Admins : task'[n] = IF n = m THEN step ELSE task[n]
  BY DEF Goto, LifecycleTypeOK
<1> QED  BY <1>1, KnownGrows DEF Filed

LEMMA FiledStep == ASSUME LifecycleTypeOK, Filed, [Next]_vars PROVE Filed'
<1> USE DEF KeepStore, KeepBot
<1>0. Known \subseteq Known' /\ Active \subseteq Known
  BY KnownGrows DEF Active
<1>i. Idle.op = "idle"
  BY DEF Idle
<1>1. CASE UNCHANGED <<status, pages, task>>
  BY <1>0, <1>1 DEF Filed
<1>2. ASSUME NEW m \in Admins, NEW a \in Auctions, Create(m, a) PROVE Filed'
  BY <1>1, <1>2 DEF Create
<1>3. ASSUME NEW m \in Admins, NEW a \in Auctions, Start(m, a) PROVE Filed'
  <2>1. a \in Known
    BY <1>3 DEF Start, Filed
  <2> QED  BY <1>3, <2>1, FiledTask DEF Start, Click
<1>4. ASSUME NEW m \in Admins, Load(m) PROVE Filed'
  BY <1>0, <1>4 DEF Load, Filed, LifecycleTypeOK
<1>5. ASSUME NEW m \in Admins, List(m) PROVE Filed'
  <2>1. task[m].auction \in Known
    BY <1>5 DEF List, Filed
  <2> DEFINE next == [op |-> "activate", auction |-> task[m].auction,
                      rest |-> Active \ {task[m].auction}]
  <2>2. next.auction \in Known /\ next.rest \subseteq Known
    BY <1>0, <2>1
  <2>3. Goto(m, next) \/ Goto(m, Idle)
    BY <1>5 DEF List, Fail
  <2>4. pages' = pages /\ status' = status
    BY <1>5 DEF List
  <2> HIDE DEF next
  <2> QED  BY <1>i, <2>2, <2>3, <2>4, FiledTask
<1>6. ASSUME NEW m \in Admins, EndOther(m) PROVE Filed'
  <2>1. PICK o \in task[m].rest :
          /\ Goto(m, [task[m] EXCEPT !.rest = @ \ {o}])
          /\ UNCHANGED status \/ status' = [status EXCEPT ![o] = "ended"]
    BY <1>6 DEF EndOther
  <2>2. task[m] = [op |-> "activate", auction |-> task[m].auction, rest |-> task[m].rest]
    BY <1>6, TaskFields DEF EndOther
  <2>3. [task[m] EXCEPT !.rest = @ \ {o}]
          = [op |-> "activate", auction |-> task[m].auction, rest |-> task[m].rest \ {o}]
    BY <2>2
  <2>4. o \in Known /\ task[m].auction \in Known /\ task[m].rest \subseteq Known
    BY <1>6, <2>1, <2>2 DEF EndOther, Filed
  <2>5. pages' = pages
    BY <1>6 DEF EndOther
  <2>6. \A a \in Auctions : status'[a] # "draft" => status[a] # "draft" \/ a \in Known
    BY <2>1, <2>4 DEF LifecycleTypeOK
  <2> DEFINE next == [op |-> "activate", auction |-> task[m].auction,
                      rest |-> task[m].rest \ {o}]
  <2>7. Goto(m, next) /\ next.auction \in Known /\ next.rest \subseteq Known
    BY <2>1, <2>3, <2>4
  <2> HIDE DEF next
  <2> QED  BY <2>5, <2>6, <2>7, FiledTask
<1>7. ASSUME NEW m \in Admins, Activate(m) PROVE Filed'
  <2>1. task[m].auction \in Known
    BY <1>7 DEF Activate, Filed
  <2>2. \A a \in Auctions : status'[a] # "draft" => status[a] # "draft" \/ a \in Known
    BY <1>7, <2>1 DEF Activate, MarkActive, LifecycleTypeOK
  <2>3. \/ Goto(m, [op |-> "hydrate", auction |-> task[m].auction]) \/ Goto(m, Idle)
    BY <1>7 DEF Activate, Fail
  <2>4. pages' = pages
    BY <1>7 DEF Activate
  <2> QED  BY <1>i, <2>1, <2>2, <2>3, <2>4, FiledTask
<1>8. ASSUME NEW m \in Admins, Hydrate(m) \/ HydrateLot(m) PROVE Filed'
  <2>1. task[m].auction \in Known
    BY <1>8 DEF Hydrate, HydrateLot, Filed
  <2> QED  BY <1>8, <2>1, FiledTask DEF Hydrate, HydrateLot
<1>9. ASSUME NEW m \in Admins, Relist(m) PROVE Filed'
  <2>1. task[m].auction \in Known
    BY <1>9 DEF Relist, Filed
  <2> QED  BY <1>9, <2>1, FiledTask DEF Relist
<1>10. ASSUME NEW m \in Admins, Show(m) \/ Close(m) PROVE Filed'
  <2>1. Goto(m, Idle) /\ pages' = pages /\ status' = status
    BY <1>10 DEF Show, Close
  <2> QED  BY <1>i, <2>1, FiledTask
<1>11. ASSUME NEW m \in Admins, NEW a \in Auctions, End(m, a) PROVE Filed'
  <2>1. a \in Known
    BY <1>11 DEF End, Filed
  <2>2. pages' = pages
    BY <1>11 DEF End, Click
  <2>3. \A b \in Auctions : status'[b] # "draft" => status[b] # "draft" \/ b \in Known
    BY <1>11, <2>1 DEF End, LifecycleTypeOK
  <2>4. Goto(m, [op |-> "close", auction |-> a]) \/ Goto(m, Idle)
    BY <1>11 DEF End
  <2> QED  BY <1>i, <2>1, <2>2, <2>3, <2>4, FiledTask
<1>12. ASSUME NEW m \in Admins, NEW a \in Auctions, AddLot(m, a) PROVE Filed'
  <2>1. PICK n \in Nums : Goto(m, [op |-> "create", auction |-> a, num |-> n,
                                   active |-> status[a] = "active"])
    BY <1>12 DEF AddLot, NextNum
  <2>2. a \in Known /\ pages' = pages /\ status' = status
    BY <1>12 DEF AddLot
  <2> DEFINE next == [op |-> "create", auction |-> a, num |-> n,
                      active |-> status[a] = "active"]
  <2>3. Goto(m, next) /\ next.op = "create" /\ next.auction = a
    BY <2>1
  <2> HIDE DEF next
  <2> QED  BY <2>2, <2>3, FiledTask
<1>13. ASSUME NEW m \in Admins, CreateLot(m) PROVE Filed'
  <2>1. task[m].auction \in Known
    BY <1>13 DEF CreateLot, Filed
  <2>2. \/ Goto(m, [op |-> "hydrateLot", auction |-> task[m].auction, num |-> task[m].num])
        \/ Goto(m, Idle)
    BY <1>13 DEF CreateLot, Fail
  <2>3. pages' = pages /\ status' = status
    BY <1>13 DEF CreateLot
  <2> QED  BY <1>i, <2>1, <2>2, <2>3, FiledTask
<1>14. ASSUME NEW c \in Chats, AddBet(c) PROVE Filed'
  BY <1>1, <1>14 DEF AddBet, ReadAuction, ReadLot, PlaceBid, KeepDesk
<1>15. CASE Restart
  BY <1>0, <1>i, <1>15 DEF Restart, Filed
<1>16. CASE UNCHANGED vars
  BY <1>1, <1>16 DEF vars
<1> QED  BY <1>2, <1>3, <1>4, <1>5, <1>6, <1>7, <1>8, <1>9, <1>10, <1>11, <1>12, <1>13, <1>14,
            <1>15, <1>16 DEF Next, Handler

LEMMA FiledInit == Init => Filed
BY DEF Init, Filed, Known, Idle

LEMMA FiledInvariant == Spec => [](LifecycleTypeOK /\ Filed)
BY InitType, NextType, FiledInit, FiledStep, PTL DEF Spec

-----------------------------------------------------------------------------
(***************************************************************************)
(* One active auction.  While a handler activates one, every other active  *)
(* auction is still on its list, or its end has failed, or its own Start   *)
(* was past its list at the same time.                                     *)
(***************************************************************************)
EndFailed(o) == [call |-> "end", auction |-> o] \in logged

Rivals ==
  \A m \in Admins : task[m].op = "activate" =>
    \A o \in Active \ {task[m].auction} :
      o \in task[m].rest \/ EndFailed(o) \/ {task[m].auction, o} \in crossed

LEMMA LoggedGrows == [Next]_vars => logged \subseteq logged'
<1> SUFFICES ASSUME [Next]_vars PROVE logged \subseteq logged'
  OBVIOUS
<1> USE DEF KeepStore, KeepBot, Fail, Log
<1>1. ASSUME NEW m \in Admins, Handler(m) PROVE logged \subseteq logged'
  BY <1>1 DEF Handler, Create, Load, Start, Click, List, EndOther, Activate, Hydrate, Relist,
              Show, End, Close, AddLot, CreateLot, HydrateLot
<1>2. ASSUME NEW c \in Chats, AddBet(c) PROVE logged \subseteq logged'
  BY <1>2 DEF AddBet, ReadAuction, ReadLot, PlaceBid, KeepDesk
<1>3. CASE Restart
  BY <1>3 DEF Restart
<1>4. CASE UNCHANGED vars
  BY <1>4 DEF vars
<1> QED  BY <1>1, <1>2, <1>3, <1>4 DEF Next

LEMMA RacesGrow == [Next]_vars => crossed \subseteq crossed' /\ late \subseteq late'
<1> SUFFICES ASSUME [Next]_vars PROVE crossed \subseteq crossed' /\ late \subseteq late'
  OBVIOUS
<1>1. ASSUME NEW m \in Admins, Activate(m) PROVE crossed \subseteq crossed' /\ late' = late
  BY <1>1 DEF Activate, MarkActive
<1>2. ASSUME NEW m \in Admins, CreateLot(m) PROVE late \subseteq late' /\ crossed' = crossed
  BY <1>2 DEF CreateLot
<1>3. ASSUME NEW m \in Admins, Handler(m), ~Activate(m), ~CreateLot(m) PROVE UNCHANGED races
  BY <1>3 DEF Handler, Create, Load, Start, Click, List, EndOther, Hydrate, Relist, Show, End,
              Close, AddLot, HydrateLot
<1>4. ASSUME NEW c \in Chats, AddBet(c) PROVE UNCHANGED races
  BY <1>4 DEF AddBet, ReadAuction, ReadLot, PlaceBid, KeepDesk
<1>5. CASE Restart \/ UNCHANGED vars
  BY <1>5 DEF Restart, vars
<1> QED  BY <1>1, <1>2, <1>3, <1>4, <1>5 DEF Next

\* Nothing but Activate makes an auction active.
LEMMA ActiveOrigin ==
  ASSUME LifecycleTypeOK, Filed, [Next]_vars
  PROVE  \A a \in Active' :
           \/ a \in Active
           \/ \E m \in Admins : Activate(m) /\ MarkActive(m) /\ a = task[m].auction
<1> USE DEF KeepStore, KeepBot
<1>0. CASE UNCHANGED <<created, status>>
  BY <1>0 DEF Active, Known
<1>t. Active \subseteq Auctions /\ Active' \subseteq Auctions
  <2>1. LifecycleTypeOK'
    BY NextType
  <2> QED  BY <2>1 DEF LifecycleTypeOK, Known, Active
<1>1. ASSUME NEW m \in Admins, NEW a \in Auctions, Create(m, a) PROVE Active' \subseteq Active
  BY <1>t, <1>1 DEF Create, Active, Filed
<1>2. ASSUME NEW m \in Admins, EndOther(m) \/ \E a \in Auctions : End(m, a)
      PROVE  Active' \subseteq Active
  <2>1. /\ created' = created
        /\ \A b \in Auctions : status'[b] = "active" => status[b] = "active"
    BY <1>2 DEF EndOther, End, Click, LifecycleTypeOK
  <2> QED  BY <1>t, <2>1 DEF Active, Known
<1>3. ASSUME NEW m \in Admins, Activate(m)
      PROVE  \A a \in Active' : a \in Active \/ (MarkActive(m) /\ a = task[m].auction)
  <2>1. created' = created
    BY <1>3 DEF Activate
  <2>2. CASE UNCHANGED status
    BY <2>1, <2>2 DEF Active, Known
  <2>3. CASE MarkActive(m)
    <3>1. \A b \in Auctions \ {task[m].auction} : status'[b] = status[b]
      BY <2>3 DEF MarkActive, LifecycleTypeOK
    <3> QED  BY <1>t, <2>1, <2>3, <3>1 DEF Active, Known
  <2> QED  BY <1>3, <2>2, <2>3 DEF Activate
<1>4. ASSUME NEW m \in Admins, Handler(m), ~Activate(m), ~EndOther(m),
             \A a \in Auctions : ~Create(m, a) /\ ~End(m, a)
      PROVE  UNCHANGED <<created, status>>
  BY <1>4 DEF Handler, Load, Start, Click, List, Hydrate, Relist, Show, Close, AddLot,
              CreateLot, HydrateLot
<1>5. ASSUME NEW c \in Chats, AddBet(c) PROVE UNCHANGED <<created, status>>
  BY <1>5 DEF AddBet, ReadAuction, ReadLot, PlaceBid
<1>6. ASSUME Restart \/ UNCHANGED vars PROVE UNCHANGED <<created, status>>
  BY <1>6 DEF Restart, vars
<1> QED  BY <1>0, <1>1, <1>2, <1>3, <1>4, <1>5, <1>6 DEF Next, Handler

\* How a handler comes to its list of rivals.
LEMMA ActivateOrigin ==
  ASSUME LifecycleTypeOK, [Next]_vars, NEW m \in Admins, task'[m].op = "activate"
  PROVE  \/ task'[m] = task[m]
         \/ /\ status' = status /\ created' = created
            /\ task'[m].rest = Active \ {task'[m].auction}
         \/ \E o \in task[m].rest :
              /\ task[m].op = "activate"
              /\ task'[m].auction = task[m].auction
              /\ task'[m].rest = task[m].rest \ {o}
              /\ created' = created
              /\ status'[o] = "ended" \/ EndFailed(o)'
<1> DEFINE Listed1 == /\ status' = status /\ created' = created
                      /\ task'[m].rest = Active \ {task'[m].auction}
           Ended1 == \E o \in task[m].rest :
                       /\ task[m].op = "activate"
                       /\ task'[m].auction = task[m].auction
                       /\ task'[m].rest = task[m].rest \ {o}
                       /\ created' = created
                       /\ status'[o] = "ended" \/ EndFailed(o)'
           Came == task'[m] = task[m] \/ Listed1 \/ Ended1
<1>t. task \in [Admins -> TaskState] /\ status \in [Auctions -> {"draft", "active", "ended"}]
  BY DEF LifecycleTypeOK
<1> USE DEF KeepStore, Goto, Idle
<1>1. ASSUME NEW n \in Admins, List(n) PROVE Came
  BY <1>1, <1>t DEF List, Fail
<1>2. ASSUME NEW n \in Admins, EndOther(n) PROVE Came
  <2>1. CASE n # m
    BY <1>2, <1>t, <2>1 DEF EndOther
  <2>2. CASE n = m
    <3>1. PICK o \in task[m].rest :
            /\ Goto(m, [task[m] EXCEPT !.rest = @ \ {o}])
            /\ \/ status' = [status EXCEPT ![o] = "ended"]
               \/ Log("end", o)
      BY <1>2, <2>2 DEF EndOther
    <3>2. /\ task[m].op = "activate"
          /\ task[m] = [op |-> "activate", auction |-> task[m].auction, rest |-> task[m].rest]
          /\ task[m].rest \subseteq Auctions
      BY <1>2, <2>2, TaskFields DEF EndOther
    <3>3. [task[m] EXCEPT !.rest = @ \ {o}]
            = [op |-> "activate", auction |-> task[m].auction, rest |-> task[m].rest \ {o}]
      BY <3>2
    <3>4. /\ task'[m].auction = task[m].auction
          /\ task'[m].rest = task[m].rest \ {o}
      BY <1>t, <3>1, <3>3
    <3>5. status'[o] = "ended" \/ EndFailed(o)'
      BY <1>t, <3>1, <3>2 DEF Log, EndFailed
    <3>6. created' = created
      BY <1>2 DEF EndOther
    <3> QED  BY <3>2, <3>4, <3>5, <3>6
  <2> QED  BY <2>1, <2>2
<1>3. ASSUME NEW n \in Admins, Handler(n), ~List(n), ~EndOther(n) PROVE Came
  BY <1>3, <1>t DEF Handler, Create, Load, Start, Click, Activate, Hydrate, Relist, Show, End,
                    Close, AddLot, CreateLot, HydrateLot, Fail
<1>4. ASSUME NEW c \in Chats, AddBet(c) PROVE Came
  BY <1>4 DEF AddBet, ReadAuction, ReadLot, PlaceBid, KeepDesk
<1>5. CASE Restart
  BY <1>5 DEF Restart
<1>6. CASE UNCHANGED vars
  BY <1>6 DEF vars
<1> QED  BY <1>1, <1>2, <1>3, <1>4, <1>5, <1>6 DEF Next

\* An Activate is over in one step, and leaves the other handlers alone.
LEMMA ActivateLeaves ==
  ASSUME LifecycleTypeOK, NEW m \in Admins, Activate(m)
  PROVE  task'[m].op # "activate" /\ \A n \in Admins \ {m} : task'[n] = task[n]
BY DEF Activate, Fail, Goto, Idle, LifecycleTypeOK

LEMMA RivalsStep ==
  ASSUME LifecycleTypeOK, Filed, Rivals, [Next]_vars PROVE Rivals'
<1> SUFFICES ASSUME NEW m \in Admins, task'[m].op = "activate",
                    NEW o \in Active' \ {task'[m].auction}
             PROVE  o \in task'[m].rest \/ EndFailed(o)' \/ {task'[m].auction, o} \in crossed'
  BY DEF Rivals
<1>0. (EndFailed(o) => EndFailed(o)') /\ crossed \subseteq crossed'
  BY LoggedGrows, RacesGrow DEF EndFailed
<1>1. ASSUME NEW n \in Admins, Activate(n), MarkActive(n), o = task[n].auction
      PROVE  {task'[m].auction, o} \in crossed'
  <2>1. n # m /\ task'[m] = task[m]
    BY <1>1, ActivateLeaves
  <2>2. m \in Overlapping(n)
    BY <1>1, <2>1 DEF Overlapping
  <2>3. {task[n].auction, task[m].auction} \in crossed'
    BY <1>1, <2>2 DEF MarkActive
  <2> QED  BY <1>1, <2>1, <2>3
<1>2. CASE o \in Active
  <2>1. CASE task'[m] = task[m]
    BY <1>0, <1>2, <2>1 DEF Rivals
  <2>2. CASE task'[m].rest = Active \ {task'[m].auction}
    BY <1>2, <2>2
  <2>3. ASSUME NEW e \in task[m].rest, task[m].op = "activate",
               task'[m].auction = task[m].auction,
               task'[m].rest = task[m].rest \ {e},
               status'[e] = "ended" \/ EndFailed(e)'
        PROVE  o \in task'[m].rest \/ EndFailed(o)' \/ {task'[m].auction, o} \in crossed'
    <3>1. CASE o = e
      BY <2>3, <3>1 DEF Active
    <3>2. CASE o # e
      BY <1>0, <1>2, <2>3, <3>2 DEF Rivals
    <3> QED  BY <3>1, <3>2
  <2> QED  BY <2>1, <2>2, <2>3, ActivateOrigin
<1> QED  BY <1>1, <1>2, ActiveOrigin

LEMMA OneActiveStep ==
  ASSUME LifecycleTypeOK, Filed, Rivals, AtMostOneActive, [Next]_vars
  PROVE  AtMostOneActive'
<1> DEFINE Allowed(a, b) == EndFailed(a)' \/ EndFailed(b)' \/ {a, b} \in crossed'
<1>0. (\A o : EndFailed(o) => EndFailed(o)') /\ crossed \subseteq crossed'
  BY LoggedGrows, RacesGrow DEF EndFailed
<1>1. ASSUME NEW a \in Active, NEW b \in Active, a # b PROVE Allowed(a, b)
  BY <1>0, <1>1 DEF AtMostOneActive, EndFailed
<1>2. ASSUME NEW m \in Admins, Activate(m), NEW o \in Active, o # task[m].auction
      PROVE  Allowed(task[m].auction, o) /\ Allowed(o, task[m].auction)
  <2>1. task[m].op = "activate" /\ task[m].rest = {}
    BY <1>2 DEF Activate
  <2>2. EndFailed(o) \/ {task[m].auction, o} \in crossed
    BY <1>2, <2>1 DEF Rivals
  <2>3. {task[m].auction, o} = {o, task[m].auction}
    OBVIOUS
  <2> QED  BY <1>0, <2>2, <2>3
<1>3. ASSUME NEW m \in Admins, NEW n \in Admins, Activate(m), Activate(n) PROVE m = n
  BY <1>3, ActivateLeaves DEF Activate
<1> HIDE DEF Allowed
<1>4. ASSUME NEW a \in Active', NEW b \in Active', a # b PROVE Allowed(a, b)
  <2>1. CASE a \in Active /\ b \in Active
    BY <1>1, <1>4, <2>1
  <2>2. ASSUME NEW m \in Admins, Activate(m), a = task[m].auction, b \in Active
        PROVE  Allowed(a, b)
    BY <1>2, <1>4, <2>2
  <2>3. ASSUME NEW m \in Admins, Activate(m), b = task[m].auction, a \in Active
        PROVE  Allowed(a, b)
    BY <1>2, <1>4, <2>3
  <2> QED  BY <1>3, <1>4, <2>1, <2>2, <2>3, ActiveOrigin
<1> QED  BY <1>4 DEF Allowed, AtMostOneActive, EndFailed

LEMMA OneActiveInvariant ==
  Spec => [](LifecycleTypeOK /\ Filed /\ Rivals /\ AtMostOneActive)
<1>1. Init => Rivals /\ AtMostOneActive
  BY DEF Init, Rivals, AtMostOneActive, Active, Known, Idle
<1>2. LifecycleTypeOK /\ Filed /\ Rivals /\ AtMostOneActive /\ [Next]_vars
        => Rivals' /\ AtMostOneActive'
  BY RivalsStep, OneActiveStep
<1> QED  BY <1>1, <1>2, FiledInvariant, PTL DEF Spec

\* However many admins start and end auctions at once, from whatever pages, at
\* most one auction is active, but for a pair of which one could not be ended,
\* which was logged, or whose Starts were past their lists at the same time.
THEOREM OneActive == Spec => []AtMostOneActive
BY OneActiveInvariant, PTL

-----------------------------------------------------------------------------
(***************************************************************************)
(* Lots that can be bid on.  The lots of an auction that runs have entries *)
(* or get them, and so have those a handler has listed to show, unless a   *)
(* failure or a race excuses it; then the lots the hub shows have.         *)
(***************************************************************************)
Offered(a, L) == L \subseteq LotsOf(a) /\ Biddable(a, L)

Covered ==
  /\ hub.status = "active" => hub.auction \in Auctions /\ Offered(hub.auction, hub.lots)
  /\ \A m \in Admins : task[m].op = "show" => Offered(task[m].auction, task[m].lots)
  /\ \A a \in Auctions : Running(a) => Biddable(a, LotsOf(a))

\* A number is filed by a handler that took it.
LEMMA LotOrigin ==
  ASSUME LifecycleTypeOK, [Next]_vars
  PROVE  \/ lots' = lots
         \/ \E m \in Admins :
              /\ CreateLot(m)
              /\ task[m].auction \in Auctions /\ task[m].num \in Nums
              /\ task[m].num \notin lots[task[m].auction]
              /\ lots' = [lots EXCEPT ![task[m].auction] = @ \union {task[m].num}]
<1> USE DEF KeepStore
<1>1. ASSUME NEW m \in Admins, CreateLot(m), lots' # lots
      PROVE  /\ task[m].auction \in Auctions /\ task[m].num \in Nums
             /\ task[m].num \notin lots[task[m].auction]
             /\ lots' = [lots EXCEPT ![task[m].auction] = @ \union {task[m].num}]
  BY <1>1, TaskFields DEF CreateLot
<1>2. ASSUME NEW m \in Admins, Handler(m), ~CreateLot(m) PROVE lots' = lots
  BY <1>2 DEF Handler, Create, Load, Start, Click, List, EndOther, Activate, Hydrate, Relist,
              Show, End, Close, AddLot, HydrateLot
<1>3. ASSUME NEW c \in Chats, AddBet(c) PROVE lots' = lots
  BY <1>3 DEF AddBet, ReadAuction, ReadLot, PlaceBid
<1>4. CASE Restart \/ UNCHANGED vars
  BY <1>4 DEF Restart, vars
<1> QED  BY <1>1, <1>2, <1>3, <1>4 DEF Next

LEMMA LotsGrow ==
  ASSUME LifecycleTypeOK, [Next]_vars PROVE \A a \in Auctions : lots[a] \subseteq lots'[a]
BY LotOrigin DEF LifecycleTypeOK

LEMMA FailureExcuses ==
  ASSUME NEW a, NEW call \in {"lots", "activate", "create"}, Log(call, a) PROVE Excused(a)'
BY DEF Log, Excused

LEMMA ExcuseStays == ASSUME [Next]_vars, NEW a, Excused(a) PROVE Excused(a)'
BY LoggedGrows, RacesGrow DEF Excused

\* Only a restart takes an entry away.
LEMMA EntriesGrow == ASSUME [Next]_vars, ~Restart PROVE entries \subseteq entries'
<1> USE DEF KeepBot, KeepDesk
<1>1. ASSUME NEW m \in Admins, Hydrate(m) \/ HydrateLot(m) PROVE entries \subseteq entries'
  BY <1>1 DEF Hydrate, HydrateLot
<1>2. ASSUME NEW m \in Admins, Handler(m), ~Hydrate(m), ~HydrateLot(m)
      PROVE  entries' = entries
  BY <1>2 DEF Handler, Create, Load, Start, Click, List, EndOther, Activate, Relist, Show,
              End, Close, AddLot, CreateLot
<1>3. ASSUME NEW c \in Chats, AddBet(c) PROVE entries' = entries
  BY <1>3 DEF AddBet, ReadAuction, ReadLot, PlaceBid
<1>4. CASE UNCHANGED vars
  BY <1>4 DEF vars
<1> QED  BY <1>1, <1>2, <1>3, <1>4 DEF Next

\* A handler that is to make entries makes them next.
LEMMA HydratorStays ==
  ASSUME LifecycleTypeOK, [Next]_vars, ~Restart, NEW m \in Admins,
         task[m].op \in {"hydrate", "hydrateLot"}
  PROVE  task'[m] = task[m] \/ Hydrate(m) \/ HydrateLot(m)
<1> USE DEF Goto, Fail
<1>t. task \in [Admins -> TaskState] /\ Idle.op = "idle"
  BY DEF LifecycleTypeOK, Idle
<1>1. ASSUME NEW n \in Admins, Handler(n), n # m PROVE task'[m] = task[m]
  BY <1>1, <1>t DEF Handler, Create, Load, Start, Click, List, EndOther, Activate, Hydrate,
                    Relist, Show, End, Close, AddLot, CreateLot, HydrateLot
<1>2. ASSUME Handler(m), ~Hydrate(m), ~HydrateLot(m) PROVE FALSE
  BY <1>2, <1>t DEF Handler, Create, Load, Start, Click, List, EndOther, Activate, Relist, Show,
                    End, Close, AddLot, CreateLot
<1>3. ASSUME NEW c \in Chats, AddBet(c) PROVE task' = task
  BY <1>3 DEF AddBet, ReadAuction, ReadLot, PlaceBid, KeepDesk
<1>4. CASE UNCHANGED vars
  BY <1>4 DEF vars
<1> QED  BY <1>1, <1>2, <1>3, <1>4 DEF Next

\* Lots that can be bid on stay so until a restart.
LEMMA BiddableStays ==
  ASSUME LifecycleTypeOK, [Next]_vars, ~Restart,
         NEW a \in Auctions, NEW L, L \subseteq LotsOf(a), Biddable(a, L)
  PROVE  Biddable(a, L)'
<1>1. CASE Excused(a)
  BY <1>1, ExcuseStays DEF Biddable
<1>2. CASE BeingHydrated(a)
  <2>1. PICK m \in Admins : task[m].op = "hydrate" /\ task[m].auction = a
    BY <1>2 DEF BeingHydrated
  <2>2. CASE task'[m] = task[m]
    <3>1. BeingHydrated(a)'
      BY <2>1, <2>2 DEF BeingHydrated
    <3> QED  BY <3>1 DEF Biddable
  <2>3. CASE Hydrate(m)
    <3>1. CASE entries' = entries \union ({a} \X LotsOf(a))
      <4>1. {a} \X L \subseteq entries'
        BY <3>1
      <4> QED  BY <4>1 DEF Biddable
    <3>2. CASE Log("lots", a)
      BY <3>2, FailureExcuses DEF Biddable
    <3> QED  BY <2>1, <2>3, <3>1, <3>2 DEF Hydrate
  <2>4. ~HydrateLot(m)
    BY <2>1 DEF HydrateLot
  <2> QED  BY <2>1, <2>2, <2>3, <2>4, HydratorStays
<1>3. CASE {a} \X L \subseteq entries \union Coming
  <2>1. entries \subseteq entries'
    BY EntriesGrow
  <2>2. ASSUME NEW e \in Coming PROVE e \in entries' \/ e \in Coming'
    <3>1. PICK m \in Admins : /\ task[m].op = "hydrateLot"
                              /\ e = <<task[m].auction, <<task[m].auction, task[m].num>>>>
      BY <2>2 DEF Coming
    <3>2. CASE task'[m] = task[m]
      <4>1. /\ task'[m].op = "hydrateLot"
            /\ e = <<task'[m].auction, <<task'[m].auction, task'[m].num>>>>
        BY <3>1, <3>2
      <4> QED  BY <4>1 DEF Coming
    <3>3. CASE HydrateLot(m)
      BY <3>1, <3>3 DEF HydrateLot
    <3>4. ~Hydrate(m)
      BY <3>1 DEF Hydrate
    <3> QED  BY <3>1, <3>2, <3>3, <3>4, HydratorStays
  <2>3. {a} \X L \subseteq entries' \union Coming'
    BY <1>3, <2>1, <2>2
  <2> QED  BY <2>3 DEF Biddable
<1> QED  BY <1>1, <1>2, <1>3 DEF Biddable

\* How an auction comes to run.
LEMMA RunningOrigin ==
  ASSUME LifecycleTypeOK, Filed, [Next]_vars, NEW a \in Auctions, Running(a)'
  PROVE  \/ Running(a)
         \/ \E m \in Admins : /\ a = task[m].auction
                              /\ (Activate(m) /\ MarkActive(m)) \/ Hydrate(m)
<1> DEFINE Came == \/ Running(a)
                   \/ \E m \in Admins : /\ a = task[m].auction
                                        /\ (Activate(m) /\ MarkActive(m)) \/ Hydrate(m)
<1>1. CASE status'[a] = "active"
  <2>1. a \in Active'
    <3>1. LifecycleTypeOK' /\ Filed'
      BY NextType, FiledStep
    <3> QED  BY <1>1, <3>1 DEF Filed, Active
  <2>2. a \in Active => Running(a)
    BY DEF Active, Running
  <2> QED  BY <2>1, <2>2, ActiveOrigin
<1>2. ASSUME NEW n \in Admins, FoundActive(task'[n]), task'[n].auction = a PROVE Came
  <2>0. CASE task'[n] = task[n]
    <3>1. FoundActive(task[n]) /\ task[n].auction = a
      BY <1>2, <2>0
    <3> QED  BY <3>1 DEF Running
  <2>i. ~FoundActive(Idle)
    BY DEF FoundActive, Idle
  <2>t. task \in [Admins -> TaskState]
    BY DEF LifecycleTypeOK
  <2>1. ASSUME NEW m \in Admins, NEW b \in Auctions, Start(m, b) PROVE Came
    <3>1. CASE status[b] = "active"
      <4>1. Goto(m, [op |-> "relist", auction |-> b])
        BY <2>1, <3>1 DEF Start
      <4>2. task'[n] = task[n] \/ task'[n].auction = b
        BY <2>t, <4>1 DEF Goto
      <4> QED  BY <1>2, <2>0, <3>1, <4>2 DEF Running
    <3>2. CASE status[b] # "active"
      <4>1. Goto(m, [op |-> "list", auction |-> b])
        BY <2>1, <3>2 DEF Start
      <4>2. task'[n] = task[n] \/ task'[n].op = "list"
        BY <2>t, <4>1 DEF Goto
      <4> QED  BY <1>2, <2>0, <4>2 DEF FoundActive
    <3> QED  BY <3>1, <3>2
  <2>2. ASSUME NEW m \in Admins, NEW b \in Auctions, AddLot(m, b) PROVE Came
    <3> DEFINE new(k) == [op |-> "create", auction |-> b, num |-> k,
                          active |-> status[b] = "active"]
    <3>1. PICK k : Goto(m, new(k))
      BY <2>2 DEF AddLot
    <3>2. /\ new(k).op = "create" /\ new(k).auction = b
          /\ new(k).active = (status[b] = "active")
      OBVIOUS
    <3> HIDE DEF new
    <3>3. task'[n] = task[n] \/ task'[n] = new(k)
      BY <2>t, <3>1 DEF Goto
    <3>4. task'[n] = new(k) => a = b /\ status[b] = "active"
      BY <1>2, <3>2 DEF FoundActive
    <3> QED  BY <2>0, <3>3, <3>4 DEF Running
  <2>3. ASSUME NEW m \in Admins, CreateLot(m) PROVE Came
    <3> DEFINE next == [op |-> "hydrateLot", auction |-> task[m].auction, num |-> task[m].num]
    <3>1. next.auction = task[m].auction
      OBVIOUS
    <3>2. Goto(m, Idle) \/ (task[m].active /\ task[m].op = "create" /\ Goto(m, next))
      BY <2>3 DEF CreateLot, Fail
    <3> HIDE DEF next
    <3>3. CASE task[m].active /\ task[m].op = "create" /\ Goto(m, next)
      <4>1. task'[n] = task[n] \/ task'[n] = next
        BY <2>t, <3>3 DEF Goto
      <4>2. FoundActive(task[m])
        BY <3>3 DEF FoundActive
      <4> QED  BY <1>2, <2>0, <3>1, <4>1, <4>2 DEF Running
    <3>4. CASE Goto(m, Idle)
      BY <1>2, <2>0, <2>i, <2>t, <3>4 DEF Goto
    <3> QED  BY <3>2, <3>3, <3>4
  <2>4. ASSUME NEW m \in Admins, Hydrate(m) \/ HydrateLot(m) PROVE Came
    <3>1. Goto(m, [op |-> "relist", auction |-> task[m].auction])
      BY <2>4 DEF Hydrate, HydrateLot
    <3>2. task'[n] = task[n] \/ task'[n].auction = task[m].auction
      BY <2>t, <3>1 DEF Goto
    <3>3. HydrateLot(m) => FoundActive(task[m])
      BY DEF HydrateLot, FoundActive
    <3> QED  BY <1>2, <2>0, <2>4, <3>2, <3>3 DEF Running
  <2>5. ASSUME NEW m \in Admins, EndOther(m) PROVE Came
    <3>1. PICK o \in task[m].rest : Goto(m, [task[m] EXCEPT !.rest = @ \ {o}])
      BY <2>5 DEF EndOther
    <3>2. task[m] = [op |-> "activate", auction |-> task[m].auction, rest |-> task[m].rest]
      BY <2>5, TaskFields DEF EndOther
    <3>3. [task[m] EXCEPT !.rest = @ \ {o}].op = "activate"
      BY <3>2
    <3>4. task'[n] = task[n] \/ task'[n].op = "activate"
      BY <2>t, <3>1, <3>3 DEF Goto
    <3> QED  BY <1>2, <2>0, <3>4 DEF FoundActive
  <2>6. ASSUME NEW m \in Admins, Handler(m), ~CreateLot(m), ~Hydrate(m), ~HydrateLot(m),
               ~EndOther(m), \A b \in Auctions : ~Start(m, b) /\ ~AddLot(m, b)
        PROVE  task'[n] = task[n] \/ ~FoundActive(task'[n])
    BY <2>6, <2>t DEF Handler, Create, Load, Click, List, Activate, Relist, Show, End, Close,
                      Fail, Goto, KeepStore, FoundActive, Idle
  <2>7. ASSUME NEW c \in Chats, AddBet(c) PROVE task' = task
    BY <2>7 DEF AddBet, ReadAuction, ReadLot, PlaceBid, KeepDesk
  <2>8. CASE Restart
    BY <1>2, <2>i, <2>8 DEF Restart
  <2>9. CASE UNCHANGED vars
    BY <2>9, <2>0 DEF vars
  <2> QED  BY <1>2, <2>0, <2>1, <2>2, <2>3, <2>4, <2>5, <2>6, <2>7, <2>8, <2>9
           DEF Next, Handler
<1> QED  BY <1>1, <1>2 DEF Running




\* The lots of a running auction, the one just filed included.
LEMMA RunningOffered ==
  ASSUME LifecycleTypeOK, Filed, Covered, [Next]_vars, ~Restart,
         NEW a \in Auctions, Running(a)'
  PROVE  Biddable(a, LotsOf(a))'
<1>1. PICK L : L = LotsOf(a)
  OBVIOUS
<1>2. Running(a) => Biddable(a, L)'
  BY <1>1, BiddableStays DEF Covered
<1>3. CASE lots'[a] = lots[a]
  <2>1. L = LotsOf(a)'
    BY <1>1, <1>3 DEF LotsOf
  <2>2. Biddable(a, L)' => Biddable(a, LotsOf(a))'
    BY <2>1
  <2>3. ASSUME NEW m \in Admins, a = task[m].auction, Activate(m) PROVE Biddable(a, L)'
    <3>1. CASE Goto(m, [op |-> "hydrate", auction |-> a])
      <4>1. task'[m] = [op |-> "hydrate", auction |-> a]
        BY <3>1 DEF Goto, LifecycleTypeOK
      <4>2. BeingHydrated(a)'
        BY <4>1 DEF BeingHydrated
      <4> QED  BY <4>2 DEF Biddable
    <3>2. CASE Log("activate", a)
      BY <3>2, FailureExcuses DEF Biddable
    <3> QED  BY <2>3, <3>1, <3>2 DEF Activate, Fail
  <2>4. ASSUME NEW m \in Admins, a = task[m].auction, Hydrate(m) PROVE Biddable(a, L)'
    <3>1. CASE entries' = entries \union ({a} \X L)
      BY <3>1 DEF Biddable
    <3>2. CASE Log("lots", a)
      BY <3>2, FailureExcuses DEF Biddable
    <3> QED  BY <1>1, <2>4, <3>1, <3>2 DEF Hydrate
  <2> QED  BY <1>2, <2>2, <2>3, <2>4, RunningOrigin
<1>4. CASE lots'[a] # lots[a]
  <2>1. PICK m \in Admins :
          /\ CreateLot(m) /\ task[m].auction = a /\ task[m].num \notin lots[a]
          /\ lots' = [lots EXCEPT ![a] = @ \union {task[m].num}]
    BY <1>4, LotOrigin DEF LifecycleTypeOK
  <2>2. Running(a)
    BY <1>4, RunningOrigin DEF Activate, Hydrate, KeepStore
  <2>3. LotsOf(a)' = L \union {<<a, task[m].num>>}
    BY <1>1, <2>1 DEF LotsOf, LifecycleTypeOK
  <2>4. CASE Excused(a)'
    BY <2>4 DEF Biddable
  <2>5. CASE Goto(m, [op |-> "hydrateLot", auction |-> a, num |-> task[m].num])
    <3>1. task'[m] = [op |-> "hydrateLot", auction |-> a, num |-> task[m].num]
      BY <2>5 DEF Goto, LifecycleTypeOK
    <3>2. <<a, <<a, task[m].num>>>> \in Coming'
      <4>1. task'[m].op = "hydrateLot" /\ task'[m].auction = a /\ task'[m].num = task[m].num
        BY <3>1
      <4> QED  BY <4>1 DEF Coming
    <3>3. CASE {a} \X L \subseteq entries' \union Coming'
      <4>1. {a} \X LotsOf(a)' \subseteq entries' \union Coming'
        BY <2>3, <3>2, <3>3
      <4> QED  BY <4>1 DEF Biddable
    <3>4. CASE BeingHydrated(a)'
      BY <3>4 DEF Biddable
    <3> QED  BY <1>2, <2>2, <2>4, <3>3, <3>4 DEF Biddable
  <2>6. CASE ~task[m].active
    <3>1. a \in late'
      BY <2>1, <2>2, <2>6 DEF CreateLot
    <3> QED  BY <2>4, <3>1 DEF Excused
  <2>7. CASE Log("create", a)
    BY <2>4, <2>7, FailureExcuses
  <2> QED  BY <2>1, <2>5, <2>6, <2>7 DEF CreateLot, Fail
<1> QED  BY <1>3, <1>4

LEMMA OfferedStays ==
  ASSUME LifecycleTypeOK, [Next]_vars, ~Restart,
         NEW a \in Auctions, NEW L, Offered(a, L)
  PROVE  Offered(a, L)'
<1>1. LotsOf(a) \subseteq LotsOf(a)'
  BY LotsGrow DEF LotsOf
<1>2. L \subseteq LotsOf(a) /\ Biddable(a, L)
  BY DEF Offered
<1>3. Biddable(a, L)'
  BY <1>2, BiddableStays
<1> QED  BY <1>1, <1>2, <1>3 DEF Offered

\* How a handler comes to show lots.
LEMMA ShowOrigin ==
  ASSUME LifecycleTypeOK, [Next]_vars, NEW m \in Admins, task'[m].op = "show"
  PROVE  task'[m] = task[m] \/ Relist(m)
<1>t. task \in [Admins -> TaskState] /\ Idle.op = "idle"
  BY DEF LifecycleTypeOK, Idle
<1> USE DEF Goto, Fail
<1>1. ASSUME NEW n \in Admins, EndOther(n) PROVE task'[m] = task[m]
  <2>1. PICK o \in task[n].rest : Goto(n, [task[n] EXCEPT !.rest = @ \ {o}])
    BY <1>1 DEF EndOther
  <2>2. task[n] = [op |-> "activate", auction |-> task[n].auction, rest |-> task[n].rest]
    BY <1>1, TaskFields DEF EndOther
  <2>3. [task[n] EXCEPT !.rest = @ \ {o}].op = "activate"
    BY <2>2
  <2> QED  BY <1>t, <2>1, <2>3
<1>2. ASSUME NEW n \in Admins, Handler(n), ~EndOther(n), ~Relist(m)
      PROVE  task'[m] = task[m]
  BY <1>2, <1>t DEF Handler, Create, Load, Start, Click, List, Activate, Hydrate, Relist, Show,
                    End, Close, AddLot, CreateLot, HydrateLot
<1>3. ASSUME NEW c \in Chats, AddBet(c) PROVE task' = task
  BY <1>3 DEF AddBet, ReadAuction, ReadLot, PlaceBid, KeepDesk
<1>4. CASE Restart \/ UNCHANGED vars
  BY <1>4, <1>t DEF Restart, vars
<1> QED  BY <1>1, <1>2, <1>3, <1>4 DEF Next

LEMMA RelistOffers ==
  ASSUME LifecycleTypeOK, Covered, [Next]_vars, NEW m \in Admins, Relist(m)
  PROVE  task'[m].auction \in Auctions /\ Offered(task[m].auction, task[m].lots)'
<1>1. PICK a \in Auctions : a = task[m].auction
  BY TaskFields DEF Relist
<1>2. PICK list \in SUBSET LotsOf(a) :
        Goto(m, [op |-> "show", auction |-> a, lots |-> list])
  BY <1>1 DEF Relist
<1>3. task'[m] = [op |-> "show", auction |-> a, lots |-> list]
  BY <1>2 DEF Goto, LifecycleTypeOK
<1>4. Running(a)
  BY <1>1 DEF Relist, FoundActive, Running
<1>5. Biddable(a, LotsOf(a))
  BY <1>4 DEF Covered
<1>6. Offered(a, list)
  <2>1. {a} \X list \subseteq {a} \X LotsOf(a)
    OBVIOUS
  <2> QED  BY <1>5, <2>1 DEF Biddable, Offered
<1>7. ~Restart
  BY <1>3 DEF Restart, Idle
<1>8. Offered(a, list)'
  BY <1>6, <1>7, OfferedStays
<1>9. task'[m].auction = a /\ task'[m].lots = list
  BY <1>3
<1> QED  BY <1>8, <1>9

\* How the hub comes to show an active auction.
LEMMA HubOrigin ==
  ASSUME [Next]_vars, ~Restart, hub'.status = "active"
  PROVE  \/ UNCHANGED hub
         \/ \E m \in Admins : /\ task[m].op = "show"
                              /\ hub'.auction = task[m].auction /\ hub'.lots = task[m].lots
<1> USE DEF KeepBot
<1>1. ASSUME NEW m \in Admins, Handler(m), ~Show(m), ~Close(m) PROVE UNCHANGED hub
  BY <1>1 DEF Handler, Create, Load, Start, Click, List, EndOther, Activate, Hydrate, Relist,
              End, AddLot, CreateLot, HydrateLot
<1>2. ASSUME NEW m \in Admins, Show(m)
      PROVE  /\ task[m].op = "show"
             /\ hub'.auction = task[m].auction /\ hub'.lots = task[m].lots
  BY <1>2 DEF Show
<1>3. ASSUME NEW m \in Admins, Close(m) PROVE FALSE
  BY <1>3 DEF Close
<1>4. ASSUME NEW c \in Chats, AddBet(c) PROVE UNCHANGED hub
  BY <1>4 DEF AddBet, ReadAuction, ReadLot, PlaceBid, KeepDesk
<1>5. CASE UNCHANGED vars
  BY <1>5 DEF vars
<1> QED  BY <1>1, <1>2, <1>3, <1>4, <1>5 DEF Next

\* main.go restores the newest active auction: another active one has no
\* entries, and is there for a failure or a race.
LEMMA RestartCovered ==
  ASSUME LifecycleTypeOK, Filed, AtMostOneActive, [Next]_vars, Restart PROVE Covered'
<1>1. /\ \A m \in Admins : task'[m] = Idle
      /\ UNCHANGED <<created, status, lots, races>>
  BY DEF Restart, KeepStore
<1>2. \A m \in Admins : task'[m].op # "show" /\ ~FoundActive(task'[m])
  BY <1>1 DEF Idle, FoundActive
<1>3. \A a : LotsOf(a)' = LotsOf(a)
  BY <1>1 DEF LotsOf
<1>4. ASSUME NEW a \in Auctions, Running(a)' PROVE a \in Active
  BY <1>1, <1>2, <1>4 DEF Running, Active, Filed
<1>5. ASSUME NEW b \in Auctions, NEW list \in SUBSET LotsOf(b), IsNewest(b),
             entries' = {b} \X list,
             hub' = [auction |-> b, status |-> "active", lots |-> list],
             list = LotsOf(b) \/ Log("lots", b)
      PROVE  Covered'
  <2>1. b \in Active
    BY <1>5 DEF IsNewest
  <2>2. Offered(b, list)'
    <3>1. {b} \X list \subseteq entries' \union Coming'
      BY <1>5
    <3> QED  BY <1>3, <3>1 DEF Offered, Biddable
  <2>3. hub'.auction = b /\ hub'.lots = list
    BY <1>5
  <2>4. ASSUME NEW a \in Auctions, Running(a)' PROVE Biddable(a, LotsOf(a))'
    <3>1. a \in Active
      BY <1>4, <2>4
    <3>2. CASE Excused(a)'
      BY <3>2 DEF Biddable
    <3>3. CASE a = b
      <4>1. CASE list = LotsOf(b)
        <5>1. {a} \X LotsOf(a)' \subseteq entries' \union Coming'
          BY <1>3, <1>5, <3>3, <4>1
        <5> QED  BY <5>1 DEF Biddable
      <4>2. CASE Log("lots", b)
        BY <3>2, <3>3, <4>2, FailureExcuses
      <4> QED  BY <1>5, <4>1, <4>2
    <3>4. CASE a # b
      <4>1. \/ \E o \in {a, b} : [call |-> "end", auction |-> o] \in logged
            \/ {a, b} \in crossed
        BY <2>1, <3>1, <3>4 DEF AtMostOneActive
      <4>2. Excused(a)
        BY <4>1 DEF Excused
      <4> QED  BY <3>2, <4>2, ExcuseStays
    <3> QED  BY <3>3, <3>4
  <2> QED  BY <1>2, <2>2, <2>3, <2>4 DEF Covered
<1>6. ASSUME Active = {} \/ Log("restore", NoAuction), hub' = NoHub PROVE Covered'
  <2>1. hub'.status # "active"
    BY <1>6 DEF NoHub
  <2>2. ASSUME NEW a \in Auctions, Running(a)' PROVE Biddable(a, LotsOf(a))'
    <3>1. Log("restore", NoAuction)
      BY <1>4, <1>6, <2>2
    <3>2. Excused(a)'
      BY <3>1 DEF Log, Excused
    <3> QED  BY <3>2 DEF Biddable
  <2> QED  BY <1>2, <2>1, <2>2 DEF Covered
<1> QED  BY <1>5, <1>6 DEF Restart

LEMMA CoveredStep ==
  ASSUME LifecycleTypeOK, Filed, AtMostOneActive, Covered, [Next]_vars PROVE Covered'
<1>1. CASE Restart
  BY <1>1, RestartCovered
<1>2. CASE ~Restart
  <2>1. ASSUME hub'.status = "active"
        PROVE  hub'.auction \in Auctions /\ Offered(hub.auction, hub.lots)'
    <3>1. PICK a, L : a = hub'.auction /\ L = hub'.lots
      OBVIOUS
    <3>2. a \in Auctions /\ Offered(a, L)
      <4>1. CASE UNCHANGED hub
        BY <2>1, <3>1, <4>1 DEF Covered
      <4>2. ASSUME NEW m \in Admins, task[m].op = "show", a = task[m].auction, L = task[m].lots
            PROVE  a \in Auctions /\ Offered(a, L)
        BY <4>2, TaskFields DEF Covered
      <4> QED  BY <1>2, <2>1, <3>1, <4>1, <4>2, HubOrigin
    <3>3. Offered(a, L)'
      BY <1>2, <3>2, OfferedStays
    <3> QED  BY <3>1, <3>2, <3>3
  <2>2. ASSUME NEW m \in Admins, task'[m].op = "show"
        PROVE  Offered(task[m].auction, task[m].lots)'
    <3>1. CASE task'[m] = task[m]
      <4>1. PICK a \in Auctions : a = task[m].auction
        BY <2>2, <3>1, TaskFields
      <4>2. PICK L : L = task[m].lots
        OBVIOUS
      <4>3. Offered(a, L)'
        BY <1>2, <2>2, <3>1, <4>1, <4>2, OfferedStays DEF Covered
      <4> QED  BY <3>1, <4>1, <4>2, <4>3
    <3> QED  BY <2>2, <3>1, ShowOrigin, RelistOffers
  <2>3. \A a \in Auctions : Running(a)' => Biddable(a, LotsOf(a))'
    BY <1>2, RunningOffered
  <2> QED  BY <2>1, <2>2, <2>3 DEF Covered
<1> QED  BY <1>1, <1>2

\* For any number of admins and any calls that fail or cross, a lot the bot
\* offers has a cache entry or is about to get one, unless a failed call was
\* logged or shown, or the auction was started in a race with another's Start
\* or with an AddLot.
THEOREM OfferedBiddable == Spec => []ShownLotsBiddable
<1>1. Init => Covered
  BY DEF Init, Covered, NoHub, Idle, Running, FoundActive
<1>2. /\ LifecycleTypeOK /\ Filed /\ Rivals /\ AtMostOneActive
      /\ Covered /\ [Next]_vars
      => Covered'
  BY CoveredStep
<1>3. Covered => ShownLotsBiddable
  BY DEF Covered, Offered, ShownLotsBiddable
<1> QED  BY <1>1, <1>2, <1>3, OneActiveInvariant, PTL DEF Spec

-----------------------------------------------------------------------------
(***************************************************************************)
(* The refinement of AuctionHouse: lots are numbered without a gap because *)
(* the number taken follows one that is filed, even of a partial list, and *)
(* the unique index refuses it the second time; and only auctions that     *)
(* were started are ever offered to be ended.                              *)
(***************************************************************************)
Numbered ==
  /\ \A a \in Auctions : \A n \in lots[a] : 1 .. n - 1 \subseteq lots[a]
  /\ \A e \in entries : e[2][2] \in lots[e[1]]
  /\ \A m \in Admins :
       /\ task[m].op = "create" => 1 .. task[m].num - 1 \subseteq lots[task[m].auction]
       /\ task[m].op = "hydrateLot" => task[m].num \in lots[task[m].auction]

Endable ==
  \A m \in Admins :
    /\ \A a \in pages[m].end : status[a] # "draft"
    /\ task[m].op = "activate" => \A o \in task[m].rest : status[o] # "draft"

\* How a handler comes to have a number to file, or a lot to hydrate.
LEMMA NumberOrigin ==
  ASSUME LifecycleTypeOK, [Next]_vars, NEW m \in Admins
  PROVE  \/ task'[m] = task[m]
         \/ task'[m].op \notin {"create", "hydrateLot"}
         \/ /\ task'[m].op = "create" /\ task'[m].auction \in Auctions
            /\ task'[m].num \in Nums
            /\ task'[m].num = 1 \/ task'[m].num - 1 \in lots[task'[m].auction]
         \/ /\ task'[m].op = "hydrateLot" /\ task'[m].auction \in Auctions
            /\ task'[m].num \in lots'[task'[m].auction]
<1> DEFINE Came ==
      \/ task'[m] = task[m]
      \/ task'[m].op \notin {"create", "hydrateLot"}
      \/ /\ task'[m].op = "create" /\ task'[m].auction \in Auctions
         /\ task'[m].num \in Nums
         /\ task'[m].num = 1 \/ task'[m].num - 1 \in lots[task'[m].auction]
      \/ /\ task'[m].op = "hydrateLot" /\ task'[m].auction \in Auctions
         /\ task'[m].num \in lots'[task'[m].auction]
<1> USE DEF KeepStore, LifecycleTypeOK, Goto, Idle
<1>1. ASSUME NEW n \in Admins, NEW a \in Auctions, AddLot(n, a) PROVE Came
  <2>0. PICK list \in Listed(a) : \E k \in NextNum(list) :
          task' = [task EXCEPT ![n] = [op |-> "create", auction |-> a, num |-> k,
                                       active |-> status[a] = "active"]]
    BY <1>1 DEF AddLot
  <2>1. PICK k \in NextNum(list) :
          task' = [task EXCEPT ![n] = [op |-> "create", auction |-> a, num |-> k,
                                       active |-> status[a] = "active"]]
    BY <2>0
  <2>2. list \subseteq lots[a] /\ k \in Nums /\ (k = 1 \/ k - 1 \in list)
    BY <2>1 DEF Listed, NextNum
  <2>3. CASE m = n
    <3>1. task'[m] = [op |-> "create", auction |-> a, num |-> k, active |-> status[a] = "active"]
      BY <2>1, <2>3
    <3>2. task'[m].op = "create" /\ task'[m].auction = a /\ task'[m].num = k
      BY <3>1
    <3> QED  BY <2>2, <3>2
  <2>4. CASE m # n
    BY <2>1, <2>4
  <2> QED  BY <2>3, <2>4
<1>2. ASSUME NEW n \in Admins, CreateLot(n) PROVE Came
  <2>1. \/ /\ lots' = [lots EXCEPT ![task[n].auction] = @ \union {task[n].num}]
           /\ task' = [task EXCEPT ![n] = [op |-> "hydrateLot", auction |-> task[n].auction,
                                           num |-> task[n].num]]
        \/ task' = [task EXCEPT ![n] = Idle]
    BY <1>2 DEF CreateLot, Fail
  <2>2. task[n].auction \in Auctions
    BY <1>2, TaskFields DEF CreateLot
  <2> QED  BY <2>1, <2>2
<1>3. ASSUME NEW n \in Admins, EndOther(n) PROVE Came
  <2>1. PICK o \in task[n].rest : Goto(n, [task[n] EXCEPT !.rest = @ \ {o}])
    BY <1>3 DEF EndOther
  <2>2. task[n] = [op |-> "activate", auction |-> task[n].auction, rest |-> task[n].rest]
    BY <1>3, TaskFields DEF EndOther
  <2>3. [task[n] EXCEPT !.rest = @ \ {o}].op = "activate"
    BY <2>2
  <2> QED  BY <2>1, <2>3
<1>4. ASSUME NEW n \in Admins, Handler(n), ~CreateLot(n), ~EndOther(n),
             \A a \in Auctions : ~AddLot(n, a)
      PROVE  Came
  BY <1>4 DEF Handler, Create, Load, Start, Click, List, Activate, Hydrate, Relist, Show, End,
              Close, HydrateLot, Fail
<1>5. ASSUME NEW c \in Chats, AddBet(c) PROVE Came
  BY <1>5 DEF AddBet, ReadAuction, ReadLot, PlaceBid, KeepDesk
<1>6. CASE Restart
  BY <1>6 DEF Restart
<1>7. CASE UNCHANGED vars
  BY <1>7 DEF vars
<1> QED  BY <1>1, <1>2, <1>3, <1>4, <1>5, <1>6, <1>7 DEF Next

LEMMA NumberedStep ==
  ASSUME LifecycleTypeOK, EntriesOwn, Numbered, [Next]_vars PROVE Numbered'
<1>g. \A a \in Auctions : lots[a] \subseteq lots'[a] /\ lots[a] \subseteq Nums
  BY LotsGrow DEF LifecycleTypeOK
<1>1. ASSUME NEW a \in Auctions, NEW n \in lots'[a] PROVE 1 .. n - 1 \subseteq lots'[a]
  <2>1. CASE n \in lots[a]
    BY <1>g, <2>1 DEF Numbered
  <2>2. CASE n \notin lots[a]
    <3>1. PICK m \in Admins : /\ CreateLot(m) /\ task[m].auction = a /\ task[m].num = n
      BY <2>2, LotOrigin DEF LifecycleTypeOK
    <3> QED  BY <1>g, <3>1 DEF CreateLot, Numbered
  <2> QED  BY <2>1, <2>2
<1>2. ASSUME NEW e \in entries' PROVE e[2][2] \in lots'[e[1]]
  <2>1. LifecycleTypeOK'
    BY NextType
  <2>2. e[1] \in Auctions
    BY <2>1 DEF LifecycleTypeOK
  <2>3. CASE e \in entries
    BY <1>g, <2>2, <2>3 DEF Numbered
  <2>4. CASE IsRestored(e)
    BY <1>g, <2>2, <2>4 DEF IsRestored, LotsOf
  <2>5. CASE IsHydrated(e)
    BY <1>g, <2>2, <2>5 DEF IsHydrated, LotsOf, Numbered
  <2> QED  BY <2>3, <2>4, <2>5, EntryOrigin
<1>3. ASSUME NEW m \in Admins
      PROVE  /\ task'[m].op = "create" => 1 .. task'[m].num - 1 \subseteq lots'[task'[m].auction]
             /\ task'[m].op = "hydrateLot" => task'[m].num \in lots'[task'[m].auction]
  <2>1. CASE task'[m] = task[m]
    <3>1. task[m].op \in {"create", "hydrateLot"} => task[m].auction \in Auctions
      BY TaskFields
    <3> QED  BY <1>g, <2>1, <3>1 DEF Numbered
  <2>2. ASSUME task'[m].op = "create", task'[m].auction \in Auctions, task'[m].num \in Nums,
               task'[m].num = 1 \/ task'[m].num - 1 \in lots[task'[m].auction]
        PROVE  1 .. task'[m].num - 1 \subseteq lots'[task'[m].auction]
    <3>1. PICK k \in Nums : k = task'[m].num
      BY <2>2
    <3>2. CASE k = 1
      BY <3>1, <3>2
    <3>3. ASSUME k - 1 \in lots[task'[m].auction]
          PROVE  1 .. k - 1 \subseteq lots[task'[m].auction]
      <4>1. 1 .. k - 1 - 1 \subseteq lots[task'[m].auction]
        BY <2>2, <3>3 DEF Numbered
      <4>2. \A i \in 1 .. k - 1 : i = k - 1 \/ i \in 1 .. k - 1 - 1
        BY DEF Nums
      <4> QED  BY <3>3, <4>1, <4>2
    <3> QED  BY <1>g, <2>2, <3>1, <3>2, <3>3
  <2> QED  BY <2>1, <2>2, NumberOrigin
<1> QED  BY <1>1, <1>2, <1>3 DEF Numbered

LEMMA EndableStep ==
  ASSUME LifecycleTypeOK, Filed, Endable, [Next]_vars PROVE Endable'
<1>a. Active \subseteq Auctions /\ \A a \in Active : status[a] # "draft"
  BY KnownAuctions DEF Active
<1>1. ASSUME NEW m \in Admins
      PROVE  \A a \in pages'[m].end : a \in Auctions /\ status[a] # "draft"
  <2>1. CASE pages' = pages
    BY <2>1 DEF Endable, LifecycleTypeOK
  <2>2. ASSUME NEW n \in Admins, Load(n)
        PROVE  \A a \in pages'[m].end : a \in Auctions /\ status[a] # "draft"
    <3>1. pages'[m].end = Active \/ pages'[m] = pages[m]
      BY <2>2 DEF Load, LifecycleTypeOK
    <3> QED  BY <1>a, <3>1 DEF Endable, LifecycleTypeOK
  <2>3. ASSUME NEW n \in Admins, Handler(n), ~Load(n) PROVE pages' = pages
    BY <2>3 DEF Handler, Create, Start, Click, List, EndOther, Activate, Hydrate, Relist, Show,
                End, Close, AddLot, CreateLot, HydrateLot
  <2>4. ASSUME NEW c \in Chats, AddBet(c) PROVE pages' = pages
    BY <2>4 DEF AddBet, ReadAuction, ReadLot, PlaceBid, KeepDesk
  <2>5. Restart \/ UNCHANGED vars => pages' = pages
    BY DEF Restart, vars
  <2> QED  BY <2>1, <2>2, <2>3, <2>4, <2>5 DEF Next
<1>2. ASSUME NEW m \in Admins, task'[m].op = "activate"
      PROVE  \A o \in task'[m].rest : o \in Auctions /\ status[o] # "draft"
  <2>1. task[m].op = "activate" =>
          \A o \in task[m].rest : o \in Auctions /\ status[o] # "draft"
    BY TaskFields DEF Endable
  <2> QED  BY <1>a, <1>2, <2>1, ActivateOrigin
<1> QED  BY <1>1, <1>2, StatusGrows DEF Endable

HouseInv ==
  /\ LifecycleTypeOK /\ Filed
  /\ EntriesOwn /\ Begun /\ Numbered /\ Endable

LEMMA HouseInvariant == Spec => []HouseInv
<1>1. Init => HouseInv
  <2> SUFFICES ASSUME Init PROVE HouseInv
    OBVIOUS
  <2>1. LifecycleTypeOK /\ Filed
    BY InitType, FiledInit
  <2>2. EntriesOwn /\ Begun /\ Numbered /\ Endable
    BY DEF Init, EntriesOwn, Begun, Numbered, Endable, Idle, WillHydrate
  <2> QED  BY <2>1, <2>2 DEF HouseInv
<1>2. HouseInv /\ [Next]_vars => HouseInv'
  BY NextType, FiledStep, EntriesOwnStep, BegunStep, NumberedStep, EndableStep DEF HouseInv
<1> QED  BY <1>1, <1>2, PTL DEF Spec

\* An auction that is ended was started: it ends, or had ended already.
LEMMA EndingEnds ==
  ASSUME LifecycleTypeOK, NEW o \in Auctions, status[o] # "draft",
         UNCHANGED <<created, lots, accepted>>,
         status' = [status EXCEPT ![o] = "ended"] \/ status' = status
  PROVE  House!End(o) \/ UNCHANGED House!vars
<1>1. Known' = Known
  BY DEF Known
<1>2. CASE status' = status
  BY <1>1, <1>2 DEF House!vars
<1>3. CASE status' = [status EXCEPT ![o] = "ended"] /\ status[o] = "active"
  BY <1>1, <1>3 DEF House!End
<1>4. CASE status' = [status EXCEPT ![o] = "ended"] /\ status[o] = "ended"
  <2>1. status' = status
    BY <1>4 DEF LifecycleTypeOK
  <2> QED  BY <1>1, <2>1 DEF House!vars
<1> QED  BY <1>2, <1>3, <1>4 DEF LifecycleTypeOK

LEMMA ActivatingStarts ==
  ASSUME HouseInv, NEW m \in Admins, Activate(m)
  PROVE  House!Next \/ UNCHANGED House!vars
<1>1. PICK a : a = task[m].auction
  OBVIOUS
<1>2. /\ a \in Auctions /\ a \in Known
      /\ UNCHANGED <<created, lots, accepted>>
      /\ status' = [status EXCEPT ![a] = "active"] \/ status' = status
      /\ status \in [Auctions -> {"draft", "active", "ended"}]
  BY <1>1, TaskFields DEF Activate, MarkActive, HouseInv, Filed, KeepBot, LifecycleTypeOK
<1>3. Known' = Known
  BY <1>2 DEF Known
<1>4. CASE status' = status \/ status[a] = "active"
  <2>1. status' = status
    BY <1>2, <1>4
  <2> QED  BY <1>2, <1>3, <2>1 DEF House!vars
<1>5. CASE status' = [status EXCEPT ![a] = "active"] /\ status[a] # "active"
  BY <1>2, <1>3, <1>5 DEF House!Start, House!Next
<1> QED  BY <1>2, <1>4, <1>5

\* The number a handler took is the next one, or was taken meanwhile.
LEMMA CreatingAdds ==
  ASSUME HouseInv, NEW m \in Admins, CreateLot(m)
  PROVE  House!Next \/ UNCHANGED House!vars
<1>1. PICK a : a = task[m].auction
  OBVIOUS
<1>2. PICK n : n = task[m].num
  OBVIOUS
<1>3. /\ a \in Auctions /\ a \in Known /\ n \in Nums /\ lots[a] \subseteq Nums
      /\ 1 .. n - 1 \subseteq lots[a] /\ \A k \in lots[a] : 1 .. k - 1 \subseteq lots[a]
      /\ UNCHANGED <<created, status, accepted>>
      /\ Known' = Known
  BY <1>1, <1>2, TaskFields
     DEF CreateLot, HouseInv, Filed, Numbered, KeepBot, LifecycleTypeOK, Known
<1>4. CASE lots' = lots
  BY <1>3, <1>4 DEF House!vars
<1>5. CASE n \notin lots[a] /\ lots' = [lots EXCEPT ![a] = @ \union {n}]
  <2>1. \A k \in lots[a] : k \in 1 .. n - 1
    <3> SUFFICES ASSUME NEW k \in lots[a], ~(k <= n - 1) PROVE FALSE
      BY <1>3 DEF Nums
    <3>1. k \in Nat /\ n \in Nat \ {0} /\ k # n
      BY <1>3, <1>5 DEF Nums
    <3>2. n \in 1 .. k - 1
      BY <3>1
    <3> QED  BY <1>3, <1>5, <3>2
  <2>2. lots[a] = 1 .. n - 1
    BY <1>3, <2>1
  <2>3. lots[a] \union {n} = 1 .. n
    BY <1>3, <2>2 DEF Nums
  <2>4. lots' = [lots EXCEPT ![a] = 1 .. n]
    BY <1>5, <2>3
  <2>5. n \in 1 .. MaxLots
    BY <1>3 DEF Nums
  <2>6. House!AddLot(a, n)
    BY <1>3, <2>2, <2>4 DEF House!AddLot
  <2> QED  BY <1>3, <2>5, <2>6 DEF House!Next
<1> QED  BY <1>1, <1>2, <1>4, <1>5 DEF CreateLot

LEMMA PlacingBids ==
  ASSUME HouseInv, NEW c \in Chats, PlaceBid(c)
  PROVE  House!Next \/ UNCHANGED House!vars
<1>1. UNCHANGED <<created, status, lots>> /\ Known' = Known
  BY DEF PlaceBid, KeepStore, Known
<1>2. CASE accepted' = accepted
  BY <1>1, <1>2 DEF House!vars
<1>3. ASSUME NEW e \in entries, accepted' = accepted \union {e} PROVE House!Next
  <2>1. PICK a \in Auctions, l \in LotIds : e = <<a, l>>
    BY DEF HouseInv, LifecycleTypeOK
  <2>2. PICK n \in Nums : l = <<l[1], n>>
    BY DEF LotIds
  <2>3. e = <<a, <<a, n>>>> /\ n \in lots[a] /\ status[a] # "draft"
    BY <2>1, <2>2 DEF HouseInv, EntriesOwn, Numbered, Begun
  <2>4. House!Bid(a, n)
    BY <1>1, <1>3, <2>3 DEF House!Bid
  <2> QED  BY <2>4 DEF House!Next, Nums
<1> QED  BY <1>2, <1>3 DEF PlaceBid

LEMMA HouseStep == HouseInv /\ [Next]_vars => [House!Next]_(House!vars)
<1> SUFFICES ASSUME HouseInv, [Next]_vars PROVE House!Next \/ UNCHANGED House!vars
  OBVIOUS
<1> USE DEF KeepStore, KeepBot
<1>1. ASSUME UNCHANGED <<created, status, lots, accepted>> PROVE UNCHANGED House!vars
  BY <1>1 DEF House!vars, Known
<1>2. ASSUME NEW m \in Admins, NEW a \in Auctions, Create(m, a) PROVE House!Next
  <2>1. a \notin Known /\ created' = Append(created, a) /\ UNCHANGED <<status, lots, accepted>>
    BY <1>2 DEF Create
  <2>2. /\ DOMAIN created' = DOMAIN created \union {Len(created) + 1}
        /\ created'[Len(created) + 1] = a
        /\ \A i \in DOMAIN created : created'[i] = created[i]
    BY <2>1 DEF HouseInv, LifecycleTypeOK
  <2>3. Known' = Known \union {a}
    BY <2>2 DEF Known
  <2> QED  BY <2>1, <2>3 DEF House!Create, House!Next
<1>3. ASSUME NEW m \in Admins, NEW a \in Auctions, End(m, a)
      PROVE  House!Next \/ UNCHANGED House!vars
  <2>1. /\ status[a] # "draft" /\ UNCHANGED <<created, lots, accepted>>
        /\ status' = [status EXCEPT ![a] = "ended"] \/ status' = status
    BY <1>3 DEF End, Click, HouseInv, Endable
  <2> QED  BY <2>1, EndingEnds DEF HouseInv, House!Next
<1>4. ASSUME NEW m \in Admins, EndOther(m) PROVE House!Next \/ UNCHANGED House!vars
  <2>1. PICK o \in task[m].rest : status' = [status EXCEPT ![o] = "ended"] \/ status' = status
    BY <1>4 DEF EndOther
  <2>2. o \in Auctions /\ status[o] # "draft" /\ UNCHANGED <<created, lots, accepted>>
    BY <1>4, TaskFields DEF EndOther, HouseInv, Endable
  <2> QED  BY <2>1, <2>2, EndingEnds DEF HouseInv, House!Next
<1>5. ASSUME NEW m \in Admins, Handler(m), ~EndOther(m), ~Activate(m), ~CreateLot(m),
             \A a \in Auctions : ~Create(m, a) /\ ~End(m, a)
      PROVE  UNCHANGED House!vars
  BY <1>1, <1>5 DEF Handler, Load, Start, Click, List, Hydrate, Relist, Show, Close, AddLot,
                    HydrateLot
<1>6. ASSUME NEW c \in Chats, AddBet(c), ~PlaceBid(c) PROVE UNCHANGED House!vars
  BY <1>1, <1>6 DEF AddBet, ReadAuction, ReadLot
<1>7. CASE Restart \/ UNCHANGED vars
  BY <1>1, <1>7 DEF Restart, vars
<1> QED  BY <1>2, <1>3, <1>4, <1>5, <1>6, <1>7, ActivatingStarts, CreatingAdds, PlacingBids
         DEF Next, Handler, AddBet

\* An auction that was started is never a draft again, its lots are numbered
\* without a gap, and a bid is on a lot of its own started auction: the
\* handlers implement the house, however many admins start, end and add at
\* once from stale pages, whatever fails and whenever the process restarts.
THEOREM HouseKept == Spec => ImplementsAuctionHouse
<1>1. Init => House!Init
  BY DEF Init, House!Init, Known
<1> QED  BY <1>1, HouseInvariant, HouseStep, PTL DEF Spec, ImplementsAuctionHouse, House!Spec
=============================================================================
