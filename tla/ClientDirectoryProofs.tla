------------------------ MODULE ClientDirectoryProofs ------------------------
(***************************************************************************)
(* Proofs about ClientDirectory, for any number of chats, phones, admins,  *)
(* IDs and restarts, whatever calls of MongoDB fail.                       *)
(***************************************************************************)
EXTENDS ClientDirectory, TLAPS

-----------------------------------------------------------------------------
(***************************************************************************)
(* Type correctness.                                                       *)
(***************************************************************************)
LEMMA InitType == Init => DirectoryTypeOK
  BY DirectoryAssumption
  DEF Init, DirectoryTypeOK, MaybeRecord, Away, Idle, Unloaded, ChatState, AdminState, Looking, Seeking

\* Set keeps the maps typed, each record under its own keys, and forgets
\* nobody.
LEMMA SetType ==
  ASSUME DirectoryTypeOK, NEW r \in Record, Set(r)
  PROVE  /\ byPhone' \in [Phones -> MaybeRecord]
         /\ byTg' \in [Chats -> MaybeRecord]
         /\ \A p \in Phones : byPhone'[p] # None => byPhone'[p].phone = p
         /\ \A c \in Chats : byTg'[c] # None => byTg'[c].tg = c
         /\ \A c \in Chats : byTg[c] # None => byTg'[c] # None
         /\ byTg'[r.tg] = r
  BY DirectoryAssumption DEF Set, DirectoryTypeOK, MaybeRecord, Record

\* What a chat holds in each of its states.
LEMMA HeldByChat ==
  ASSUME DirectoryTypeOK, NEW c \in Chats
  PROVE  /\ chat[c] \in ChatState
         /\ chat[c].at \in Seeking => chat[c].phone \in Phones /\ chat[c].rec = None
         /\ chat[c].at \in Holding => chat[c].rec \in Record
         /\ chat[c].rec # None => chat[c].at \in Holding
<1>1. chat[c] \in ChatState
  BY DEF DirectoryTypeOK
<1> QED  BY <1>1, DirectoryAssumption DEF ChatState, Looking, Seeking, Holding

LEMMA HeldByAdmin ==
  ASSUME DirectoryTypeOK, NEW a \in Admins
  PROVE  /\ admin[a] \in AdminState
         /\ admin[a].at \in {"viewing", "updating", "blocking"} => admin[a].phone \in Phones
         /\ admin[a].at \in {"filling", "blocking"} => admin[a].rec \in Record
<1>1. admin[a] \in AdminState
  BY DEF DirectoryTypeOK
<1> QED  BY <1>1, DirectoryAssumption DEF AdminState

\* A chat's move, and what it takes for the chats to stay typed.
LEMMA MovesType ==
  ASSUME DirectoryTypeOK, NEW c \in Chats, NEW at, NEW phone, NEW rec,
         Moves(c, at, phone, rec),
         [at |-> at, phone |-> phone, rec |-> rec] \in ChatState,
         \A d \in Chats : byTg[d] # None => byTg'[d] # None,
         at \in {"in", "bidding"} => byTg'[c] # None,
         at \in {"filling", "registering"} => rec.tg = c
  PROVE  /\ chat' \in [Chats -> ChatState]
         /\ \A d \in Chats : chat'[d].at \in {"filling", "registering"} => chat'[d].rec.tg = d
         /\ \A d \in Chats : chat'[d].at \in {"in", "bidding"} => byTg'[d] # None
  BY DEF Moves, DirectoryTypeOK

\* The states a chat moves to.
LEMMA Cells ==
  /\ \A at \in {"in", "finding", "asking"} :
       [at |-> at, phone |-> None, rec |-> None] \in ChatState
  /\ \A at \in Seeking, p \in Phones : [at |-> at, phone |-> p, rec |-> None] \in ChatState
  /\ \A at \in Holding, r \in Record : [at |-> at, phone |-> None, rec |-> r] \in ChatState
  BY DEF ChatState, Looking, Seeking

LEMMA AdoptedType ==
  ASSUME NEW r \in Record, NEW c \in Chats
  PROVE  Adopted(r, c) \in Record /\ Adopted(r, c).tg = c
  BY DEF Record, Adopted
LEMMA FreshType ==
  ASSUME NEW p \in Phones, NEW c \in Chats
  PROVE  Fresh(p, c) \in Record /\ Fresh(p, c).tg = c
  BY DirectoryAssumption DEF Record, Fresh
LEMMA BlockedType ==
  ASSUME NEW r \in Record PROVE [r EXCEPT !.blocked = TRUE] \in Record
  BY DEF Record

\* Register: the record it sets and hands to the goroutine.
LEMMA RegisterRecord ==
  ASSUME DirectoryTypeOK, NEW c \in Chats, Register(c)
  PROVE  \E r \in Record :
           /\ Set(r) /\ upsert' = [upsert EXCEPT ![c] = r] /\ r.id # 0
           /\ \/ r = chat[c].rec /\ ids' = ids
              \/ chat[c].rec.id = 0 /\ r = [chat[c].rec EXCEPT !.id = ids'] /\ ids' = ids + 1 /\ ids < MaxIds
           /\ r.phone = chat[c].rec.phone /\ r.tg = chat[c].rec.tg
<1>1. chat[c].rec \in Record /\ ids \in Nat
  BY HeldByChat, DirectoryAssumption DEF Register, Holding, DirectoryTypeOK
<1>2. PICK r \in Record :
        /\ \/ chat[c].rec.id # 0 /\ r = chat[c].rec /\ ids' = ids
           \/ chat[c].rec.id = 0 /\ ids < MaxIds /\ ids' = ids + 1 /\ r = [chat[c].rec EXCEPT !.id = ids']
        /\ Set(r) /\ upsert' = [upsert EXCEPT ![c] = r]
  BY DEF Register
<1>3. CASE r = chat[c].rec /\ chat[c].rec.id # 0 /\ ids' = ids
  BY <1>2, <1>3
<1>4. CASE chat[c].rec.id = 0 /\ ids < MaxIds /\ ids' = ids + 1 /\ r = [chat[c].rec EXCEPT !.id = ids']
  <2>1. r.id = ids' /\ r.id # 0 /\ r.phone = chat[c].rec.phone /\ r.tg = chat[c].rec.tg
    BY <1>1, <1>4 DEF Record
  <2> QED  BY <1>2, <1>4, <2>1
<1> QED  BY <1>2, <1>3, <1>4

LEMMA RecordOrNone ==
  ASSUME DirectoryTypeOK
  PROVE  /\ \A p \in Phones : byPhone[p] # None => byPhone[p] \in Record
         /\ \A p \in Phones : mongo[p] # None => mongo[p] \in Record
         /\ \A c \in Chats : byTg[c] # None => byTg[c] \in Record
         /\ \A c \in Chats : upsert[c] # None => upsert[c] \in Record
         /\ Docs \subseteq Record
  BY DEF DirectoryTypeOK, MaybeRecord, Docs

\* The steps of a chat that leave the maps alone.
LEMMA LookupType ==
  ASSUME DirectoryTypeOK, NEW c \in Chats,
         Hello(c) \/ Find(c) \/ Look(c) \/ \E p \in Phones : Share(c, p)
  PROVE  DirectoryTypeOK'
<1> DEFINE ChatOK ==
      /\ chat' \in [Chats -> ChatState]
      /\ \A d \in Chats : chat'[d].at \in {"filling", "registering"} => chat'[d].rec.tg = d
      /\ \A d \in Chats : chat'[d].at \in {"in", "bidding"} => byTg'[d] # None
<1>1. UNCHANGED <<byPhone, byTg>>
  BY DEF Hello, Find, Look, Share, KeepCache
<1>2. shared' \in [Chats -> SUBSET Phones]
  BY DEF Hello, Find, Look, Share, DirectoryTypeOK
<1>3. CASE Hello(c)
  <2>1. CASE byTg[c] # None /\ Moves(c, "in", None, None)
    <3>1. ChatOK
      BY <1>1, <2>1, MovesType, Cells
    <3> QED  BY <1>1, <1>2, <1>3, <3>1 DEF Hello, KeepOthers, DirectoryTypeOK
  <2>2. CASE Moves(c, "finding", None, None)
    <3>1. ChatOK
      BY <1>1, <2>2, MovesType, Cells
    <3> QED  BY <1>1, <1>2, <1>3, <3>1 DEF Hello, KeepOthers, DirectoryTypeOK
  <2> QED  BY <1>3, <2>1, <2>2 DEF Hello
<1>4. CASE Find(c)
  <2>1. ChatOK
    <3>1. CASE \E r \in Docs : r.tg = c /\ Moves(c, "filling", None, r)
      <4>1. PICK r \in Docs : r.tg = c /\ Moves(c, "filling", None, r)
        BY <3>1
      <4>2. [at |-> "filling", phone |-> None, rec |-> r] \in ChatState
        BY Cells, RecordOrNone DEF Holding
      <4> QED  BY <1>1, <4>1, <4>2, MovesType
    <3>2. CASE Moves(c, "asking", None, None)
      BY <1>1, <3>2, MovesType, Cells
    <3> QED  BY <1>4, <3>1, <3>2 DEF Find
  <2> QED  BY <1>1, <1>2, <1>4, <2>1 DEF Find, KeepOthers, DirectoryTypeOK
<1>5. CASE Look(c)
  <2>1. chat[c].phone \in Phones
    BY <1>5, HeldByChat DEF Look, Seeking
  <2>2. ChatOK
    <3>1. CASE mongo[chat[c].phone] # None /\ Moves(c, "merging", None, mongo[chat[c].phone])
      <4>1. [at |-> "merging", phone |-> None, rec |-> mongo[chat[c].phone]] \in ChatState
        BY <2>1, <3>1, Cells, RecordOrNone DEF Holding
      <4> QED  BY <1>1, <3>1, <4>1, MovesType
    <3>2. CASE Moves(c, "registering", None, Fresh(chat[c].phone, c))
      <4>1. [at |-> "registering", phone |-> None, rec |-> Fresh(chat[c].phone, c)] \in ChatState
        BY <2>1, Cells, FreshType DEF Holding
      <4> QED  BY <1>1, <2>1, <3>2, <4>1, MovesType, FreshType
    <3> QED  BY <1>5, <3>1, <3>2 DEF Look
  <2> QED  BY <1>1, <1>2, <1>5, <2>2 DEF Look, KeepOthers, DirectoryTypeOK
<1>6. ASSUME NEW p \in Phones, Share(c, p) PROVE DirectoryTypeOK'
  <2>1. ChatOK
    <3>1. CASE byPhone[p] # None /\ Moves(c, "registering", None, Adopted(byPhone[p], c))
      <4>1. byPhone[p] \in Record
        BY <3>1, RecordOrNone
      <4>2. [at |-> "registering", phone |-> None, rec |-> Adopted(byPhone[p], c)] \in ChatState
        BY <4>1, Cells, AdoptedType DEF Holding
      <4> QED  BY <1>1, <3>1, <4>1, <4>2, MovesType, AdoptedType
    <3>2. CASE Moves(c, "looking", p, None)
      <4>1. [at |-> "looking", phone |-> p, rec |-> None] \in ChatState
        BY Cells DEF Seeking
      <4> QED  BY <1>1, <3>2, <4>1, MovesType
    <3> QED  BY <1>6, <3>1, <3>2 DEF Share
  <2> QED  BY <1>1, <1>2, <1>6, <2>1 DEF Share, KeepOthers, DirectoryTypeOK
<1> QED  BY <1>3, <1>4, <1>5, <1>6

\* The steps of a chat that write the maps, and a step that does neither.
LEMMA SetterType ==
  ASSUME DirectoryTypeOK, NEW c \in Chats, Fill(c) \/ Merge(c) \/ Register(c)
  PROVE  DirectoryTypeOK'
<1> DEFINE ChatOK ==
      /\ chat' \in [Chats -> ChatState]
      /\ \A d \in Chats : chat'[d].at \in {"filling", "registering"} => chat'[d].rec.tg = d
      /\ \A d \in Chats : chat'[d].at \in {"in", "bidding"} => byTg'[d] # None
<1>1. chat[c].rec \in Record /\ chat[c].rec # None
  BY HeldByChat, DirectoryAssumption DEF Fill, Merge, Register, Holding
<1>2. CASE Fill(c)
  <2>1. Set(chat[c].rec) /\ Moves(c, "in", None, None) /\ chat[c].rec.tg = c
    BY <1>2 DEF Fill, DirectoryTypeOK
  <2>2. byTg'[c] # None
    BY <1>1, <2>1, SetType
  <2>3. ChatOK
    BY <1>1, <2>1, <2>2, SetType, MovesType, Cells
  <2> QED  BY <1>1, <1>2, <2>1, <2>3, SetType DEF Fill, KeepOthers, DirectoryTypeOK
<1>3. CASE Merge(c)
  <2>1. Set(chat[c].rec) /\ Moves(c, "registering", None, Adopted(chat[c].rec, c))
    BY <1>3 DEF Merge
  <2>2. [at |-> "registering", phone |-> None, rec |-> Adopted(chat[c].rec, c)] \in ChatState
    BY <1>1, AdoptedType, Cells DEF Holding
  <2>3. ChatOK
    BY <1>1, <2>1, <2>2, SetType, MovesType, AdoptedType
  <2> QED  BY <1>1, <1>3, <2>1, <2>3, SetType DEF Merge, KeepOthers, DirectoryTypeOK
<1>4. CASE Register(c)
  <2>1. PICK r \in Record :
          /\ Set(r) /\ upsert' = [upsert EXCEPT ![c] = r]
          /\ ids' = ids \/ (ids' = ids + 1 /\ ids < MaxIds)
          /\ r.tg = chat[c].rec.tg
    BY <1>4, RegisterRecord
  <2>2. r.tg = c /\ r # None
    BY <1>4, <2>1, DirectoryAssumption DEF Register, DirectoryTypeOK
  <2>3. byTg'[c] # None
    BY <2>1, <2>2, SetType
  <2>4. ChatOK
    BY <1>4, <2>1, <2>3, SetType, MovesType, Cells DEF Register
  <2>5. upsert' \in [Chats -> MaybeRecord] /\ ids' \in 0 .. MaxIds
    BY <2>1, DirectoryAssumption DEF DirectoryTypeOK, MaybeRecord
  <2> QED  BY <1>4, <2>1, <2>4, <2>5, SetType DEF Register, DirectoryTypeOK
<1> QED  BY <1>2, <1>3, <1>4

LEMMA UpsertType ==
  ASSUME DirectoryTypeOK, NEW c \in Chats, Upsert(c) PROVE DirectoryTypeOK'
<1>1. upsert[c] \in Record
  BY RecordOrNone DEF Upsert
<1>2. /\ mongo' \in [Phones -> MaybeRecord]
      /\ \A p \in Phones : mongo'[p] # None => mongo'[p].phone = p
  BY <1>1 DEF Upsert, DirectoryTypeOK, MaybeRecord, Record
<1>3. upsert' \in [Chats -> MaybeRecord]
  BY DEF Upsert, DirectoryTypeOK, MaybeRecord
<1> QED  BY <1>2, <1>3 DEF Upsert, KeepCache, DirectoryTypeOK

LEMMA BidType ==
  ASSUME DirectoryTypeOK, NEW c \in Chats, Judge(c) \/ Bid(c) PROVE DirectoryTypeOK'
<1>1. UNCHANGED <<byPhone, byTg>> /\ byTg[c] # None
  BY DEF Judge, Bid, KeepCache, DirectoryTypeOK
<1> DEFINE ChatOK ==
      /\ chat' \in [Chats -> ChatState]
      /\ \A d \in Chats : chat'[d].at \in {"filling", "registering"} => chat'[d].rec.tg = d
      /\ \A d \in Chats : chat'[d].at \in {"in", "bidding"} => byTg'[d] # None
<1>2. CASE Judge(c)
  <2>1. byTg[c].phone \in Phones
    BY <1>1, RecordOrNone DEF Record
  <2>2. [at |-> "bidding", phone |-> byTg[c].phone, rec |-> None] \in ChatState
    BY <2>1, Cells DEF Seeking
  <2>3. ChatOK
    BY <1>1, <1>2, <2>2, MovesType DEF Judge
  <2> QED  BY <1>1, <1>2, <2>3 DEF Judge, KeepOthers, DirectoryTypeOK
<1>3. CASE Bid(c)
  <2>1. ChatOK
    BY <1>1, <1>3, MovesType, Cells DEF Bid
  <2>2. [chat |-> c, phone |-> chat[c].phone] \in [chat : Chats, phone : Phones]
    BY <1>3, HeldByChat DEF Bid, Seeking
  <2> QED  BY <1>1, <1>3, <2>1, <2>2 DEF Bid, DirectoryTypeOK
<1> QED  BY <1>2, <1>3

LEMMA AdminType ==
  ASSUME DirectoryTypeOK, NEW a \in Admins, AdminStep(a) PROVE DirectoryTypeOK'
<1> USE DEF KeepCache, KeepRest
<1>1. ASSUME NEW at, NEW phone, NEW rec, AdminMoves(a, at, phone, rec),
             [at |-> at, phone |-> phone, rec |-> rec] \in AdminState
      PROVE  admin' \in [Admins -> AdminState]
  BY <1>1 DEF AdminMoves, DirectoryTypeOK
<1>2. /\ [at |-> "idle", phone |-> None, rec |-> None] \in AdminState
      /\ \A p \in Phones, at \in {"viewing", "updating"} :
           [at |-> at, phone |-> p, rec |-> None] \in AdminState
      /\ \A r \in Record : [at |-> "filling", phone |-> None, rec |-> r] \in AdminState
      /\ \A p \in Phones, r \in Record :
           [at |-> "blocking", phone |-> p, rec |-> r] \in AdminState
  BY DEF AdminState
<1>3. ASSUME NEW p \in Phones, View(a, p) PROVE DirectoryTypeOK'
  <2>1. admin' \in [Admins -> AdminState]
    BY <1>1, <1>2, <1>3 DEF View
  <2> QED  BY <1>3, <2>1 DEF View, DirectoryTypeOK
<1>4. ASSUME NEW p \in Phones, Block(a, p) PROVE DirectoryTypeOK'
  <2>1. admin' \in [Admins -> AdminState]
    <3>1. CASE byPhone[p] # None
               /\ AdminMoves(a, "blocking", p, [byPhone[p] EXCEPT !.blocked = TRUE])
      BY <1>1, <1>2, <3>1, RecordOrNone, BlockedType
    <3>2. CASE AdminMoves(a, "updating", p, None)
      BY <1>1, <1>2, <3>2
    <3> QED  BY <1>4, <3>1, <3>2 DEF Block
  <2> QED  BY <1>4, <2>1 DEF Block, DirectoryTypeOK
<1>5. CASE ViewRead(a)
  <2>1. admin' \in [Admins -> AdminState]
    <3>1. CASE mongo[admin[a].phone] # None
               /\ AdminMoves(a, "filling", None, mongo[admin[a].phone])
      <4>1. admin[a].phone \in Phones
        BY <1>5, HeldByAdmin DEF ViewRead
      <4> QED  BY <1>1, <1>2, <3>1, <4>1, RecordOrNone
    <3>2. CASE AdminMoves(a, "idle", None, None)
      BY <1>1, <1>2, <3>2
    <3> QED  BY <1>5, <3>1, <3>2 DEF ViewRead
  <2> QED  BY <1>5, <2>1 DEF ViewRead, DirectoryTypeOK
<1>6. CASE ViewFill(a) \/ BlockSet(a)
  <2>1. admin[a].rec \in Record /\ Set(admin[a].rec)
    BY <1>6, HeldByAdmin DEF ViewFill, BlockSet
  <2>2. admin' \in [Admins -> AdminState]
    BY <1>1, <1>2, <1>6, HeldByAdmin DEF ViewFill, BlockSet
  <2>3. UNCHANGED <<mongo, chat, upsert, loading, ids, restarts, shared, bids>>
    BY <1>6 DEF ViewFill, BlockSet
  <2> QED  BY <2>1, <2>2, <2>3, SetType DEF DirectoryTypeOK
<1>7. CASE BlockUpdate(a)
  <2>1. admin[a].phone \in Phones /\ admin' \in [Admins -> AdminState]
    BY <1>1, <1>2, <1>7, HeldByAdmin DEF BlockUpdate
  <2>2. /\ mongo' \in [Phones -> MaybeRecord]
        /\ \A p \in Phones : mongo'[p] # None => mongo'[p].phone = p
    <3>1. CASE mongo[admin[a].phone] # None
               /\ mongo' = [mongo EXCEPT ![admin[a].phone] = [@ EXCEPT !.blocked = TRUE]]
      <4>1. mongo[admin[a].phone] \in Record
        BY <2>1, <3>1, RecordOrNone
      <4> DEFINE r == [mongo[admin[a].phone] EXCEPT !.blocked = TRUE]
      <4>2. r \in Record /\ r.phone = mongo[admin[a].phone].phone
        BY <4>1 DEF Record
      <4>3. mongo' = [mongo EXCEPT ![admin[a].phone] = r]
        BY <3>1
      <4> HIDE DEF r
      <4> QED  BY <2>1, <3>1, <4>2, <4>3 DEF DirectoryTypeOK, MaybeRecord
    <3>2. CASE UNCHANGED mongo
      BY <3>2 DEF DirectoryTypeOK
    <3> QED  BY <1>7, <3>1, <3>2 DEF BlockUpdate
  <2> QED  BY <1>7, <2>1, <2>2 DEF BlockUpdate, DirectoryTypeOK
<1> QED  BY <1>3, <1>4, <1>5, <1>6, <1>7 DEF AdminStep

LEMMA LoaderType ==
  ASSUME DirectoryTypeOK, List \/ LoadSet \/ LoadEnds PROVE DirectoryTypeOK'
<1> USE DEF KeepCache, KeepClients
<1>1. CASE List
  <2>1. loading' \in [at : {"list", "set", "done"}, left : SUBSET Record]
    BY <1>1, RecordOrNone DEF List, Loaded
  <2> QED  BY <1>1, <2>1 DEF List, DirectoryTypeOK
<1>2. CASE LoadSet
  <2>1. loading \in [at : {"list", "set", "done"}, left : SUBSET Record]
    BY DEF DirectoryTypeOK
  <2>2. PICK r \in loading.left : Set(r) /\ loading' = [loading EXCEPT !.left = @ \ {r}]
    BY <1>2 DEF LoadSet
  <2>3. r \in Record /\ loading' \in [at : {"list", "set", "done"}, left : SUBSET Record]
    BY <2>1, <2>2
  <2> QED  BY <1>2, <2>2, <2>3, SetType DEF LoadSet, DirectoryTypeOK
<1>3. CASE LoadEnds
  BY <1>3 DEF LoadEnds, Loaded, DirectoryTypeOK
<1> QED  BY <1>1, <1>2, <1>3

LEMMA RestartType ==
  ASSUME DirectoryTypeOK, Restart PROVE DirectoryTypeOK'
<1>1. restarts' \in 0 .. MaxRestarts
  BY DirectoryAssumption DEF Restart, DirectoryTypeOK
<1>2. Away \in ChatState /\ Idle \in AdminState
  BY DEF Away, Idle, ChatState, AdminState, Looking, Seeking
<1> QED  BY <1>1, <1>2, DirectoryAssumption
         DEF Restart, DirectoryTypeOK, MaybeRecord, Away, Unloaded

LEMMA NextType ==
  ASSUME DirectoryTypeOK, [Next]_vars PROVE DirectoryTypeOK'
<1>1. ASSUME NEW c \in Chats, ChatStep(c) PROVE DirectoryTypeOK'
  BY <1>1, LookupType, SetterType, UpsertType, BidType DEF ChatStep
<1>2. CASE UNCHANGED vars
  BY <1>2 DEF vars, memory, DirectoryTypeOK
<1> QED  BY <1>1, <1>2, AdminType, LoaderType, RestartType DEF Next

\* Every map files a record under its own keys, and a chat that is in finds
\* its client in the cache.
THEOREM DirectoryTypeCorrect == Spec => []DirectoryTypeOK
  BY InitType, NextType, PTL DEF Spec

-----------------------------------------------------------------------------
(***************************************************************************)
(* Where a record comes from: every copy after a step was there before it, *)
(* or is made from one that was, or is the new client of a contact that    *)
(* was looked up and not found.                                            *)
(***************************************************************************)
IsAdopted(r) ==
  \E s \in Copies, c \in Chats :
    /\ r = Adopted(s, c)
    /\ s.phone \in shared'[c] \/ (chat[c].at = "merging" /\ s = chat[c].rec)
IsBlocked(r) == \E s \in Copies : r = [s EXCEPT !.blocked = TRUE]
IsNumbered(r) == \E s \in Copies : s.id = 0 /\ r = [s EXCEPT !.id = ids']
IsFresh(r) ==
  \E c \in Chats :
    /\ chat[c].at = "looking" /\ chat'[c].at = "registering"
    /\ r = Fresh(chat[c].phone, c)
Origin(r) == r \in Copies \/ IsAdopted(r) \/ IsBlocked(r) \/ IsNumbered(r) \/ IsFresh(r)

LEMMA CopiesAre ==
  /\ \A p \in Phones : byPhone[p] # None => byPhone[p] \in Copies
  /\ \A c \in Chats : byTg[c] # None => byTg[c] \in Copies
  /\ \A p \in Phones : mongo[p] # None => mongo[p] \in Copies
  /\ \A c \in Chats : chat[c].rec # None => chat[c].rec \in Copies
  /\ \A c \in Chats : upsert[c] # None => upsert[c] \in Copies
  /\ \A a \in Admins : admin[a].rec # None => admin[a].rec \in Copies
  /\ \A r \in loading.left : r # None => r \in Copies
  /\ \A r \in Docs : r \in Copies
  BY DEF Copies, Docs

LEMMA CopiesTyped == DirectoryTypeOK => Copies \subseteq Record /\ None \notin Copies
<1> SUFFICES ASSUME DirectoryTypeOK, NEW r \in Copies PROVE r \in Record
  BY DEF Copies
<1>1. \A c \in Chats : chat[c].rec # None => chat[c].rec \in Record
  BY HeldByChat
<1>2. \A a \in Admins : admin[a].rec # None => admin[a].rec \in Record
  <2>1. SUFFICES ASSUME NEW a \in Admins PROVE admin[a].rec # None => admin[a].rec \in Record
    OBVIOUS
  <2> QED  BY HeldByAdmin DEF AdminState
<1>3. loading.left \subseteq Record
  BY DEF DirectoryTypeOK
<1> QED  BY <1>1, <1>2, <1>3, RecordOrNone DEF Copies

\* A copy after a step that only sets one record in the maps.
LEMMA SetCopies ==
  ASSUME DirectoryTypeOK, NEW q \in Record, Set(q), NEW r \in Copies',
         mongo' = mongo, upsert' = upsert,
         \A c \in Chats : chat'[c].rec \in {chat[c].rec, None, q},
         \A a \in Admins : admin'[a].rec \in {admin[a].rec, None},
         loading'.left \subseteq loading.left
  PROVE  r = q \/ r \in Copies
<1>1. /\ \A p \in Phones : byPhone'[p] \in {byPhone[p], q}
      /\ \A c \in Chats : byTg'[c] \in {byTg[c], q}
  BY DEF Set, DirectoryTypeOK
<1> QED  BY <1>1 DEF Copies

LEMMA ChatOrigin ==
  ASSUME DirectoryTypeOK, NEW c \in Chats, ChatStep(c), NEW r \in Copies'
  PROVE  Origin(r)
<1> USE DEF Origin
<1>1. r # None
  BY DEF Copies
<1>2. ASSUME NEW at, NEW phone, NEW rec, Moves(c, at, phone, rec)
      PROVE  \A d \in Chats : chat'[d].rec = chat[d].rec \/ (d = c /\ chat'[d].rec = rec)
  BY <1>2 DEF Moves, DirectoryTypeOK
<1>3. ASSUME NEW at, NEW phone, NEW rec, Moves(c, at, phone, rec),
             KeepCache, KeepOthers
      PROVE  r \in Copies \/ r = rec
  BY <1>1, <1>2, <1>3 DEF KeepCache, KeepOthers, Copies
<1>4. CASE Hello(c)
  BY <1>1, <1>3, <1>4 DEF Hello
<1>5. CASE Find(c)
  BY <1>1, <1>3, <1>5, CopiesAre DEF Find
<1>6. ASSUME NEW p \in Phones, Share(c, p) PROVE Origin(r)
  <2>1. CASE byPhone[p] # None /\ Moves(c, "registering", None, Adopted(byPhone[p], c))
    <3>1. byPhone[p] \in Copies /\ byPhone[p].phone \in shared'[c]
      BY <1>6, <2>1, CopiesAre DEF Share, DirectoryTypeOK
    <3> QED  BY <1>3, <1>6, <2>1, <3>1 DEF Share, IsAdopted
  <2>2. CASE Moves(c, "looking", p, None)
    BY <1>1, <1>3, <1>6, <2>2 DEF Share
  <2> QED  BY <1>6, <2>1, <2>2 DEF Share
<1>7. CASE Look(c)
  <2>1. CASE mongo[chat[c].phone] # None /\ Moves(c, "merging", None, mongo[chat[c].phone])
    BY <1>3, <1>7, <2>1, CopiesAre, HeldByChat DEF Look, Seeking
  <2>2. CASE Moves(c, "registering", None, Fresh(chat[c].phone, c))
    <3>1. chat'[c].at = "registering"
      BY <2>2 DEF Moves, DirectoryTypeOK
    <3> QED  BY <1>3, <1>7, <2>2, <3>1 DEF Look, IsFresh
  <2> QED  BY <1>7, <2>1, <2>2 DEF Look
<1>8. CASE Fill(c)
  <2>1. chat[c].rec \in Record /\ chat[c].rec \in Copies
    BY <1>8, HeldByChat, CopiesAre, DirectoryAssumption DEF Fill, Holding
  <2> QED  BY <1>1, <1>2, <1>8, <2>1, SetCopies DEF Fill, KeepOthers
<1>9. CASE Merge(c)
  <2>1. chat[c].rec \in Record /\ chat[c].rec \in Copies
    BY <1>9, HeldByChat, CopiesAre, DirectoryAssumption DEF Merge, Holding
  <2>2. IsAdopted(Adopted(chat[c].rec, c))
    BY <1>9, <2>1 DEF Merge, IsAdopted
  <2>3. \A p \in Phones : byPhone'[p] \in {byPhone[p], chat[c].rec}
    BY <1>9 DEF Merge, Set, DirectoryTypeOK
  <2>4. \A d \in Chats : byTg'[d] \in {byTg[d], chat[c].rec}
    BY <1>9 DEF Merge, Set, DirectoryTypeOK
  <2>5. \A d \in Chats : chat'[d].rec \in {chat[d].rec, Adopted(chat[c].rec, c)}
    BY <1>2, <1>9 DEF Merge
  <2>6. r \in Copies \/ r = chat[c].rec \/ r = Adopted(chat[c].rec, c)
    BY <1>9, <2>3, <2>4, <2>5 DEF Merge, KeepOthers, Copies
  <2> QED  BY <2>1, <2>2, <2>6
<1>10. CASE Register(c)
  <2>1. chat[c].rec \in Record /\ chat[c].rec \in Copies
    BY <1>10, HeldByChat, CopiesAre, DirectoryAssumption DEF Register, Holding
  <2>2. PICK q \in Record :
          /\ Set(q) /\ upsert' = [upsert EXCEPT ![c] = q]
          /\ \/ q = chat[c].rec
             \/ chat[c].rec.id = 0 /\ q = [chat[c].rec EXCEPT !.id = ids']
    BY <1>10, RegisterRecord
  <2>3. q \in Copies \/ IsNumbered(q)
    BY <2>1, <2>2 DEF IsNumbered
  <2>4. \A p \in Phones : byPhone'[p] \in {byPhone[p], q}
    BY <2>2 DEF Set, DirectoryTypeOK
  <2>5. \A d \in Chats : byTg'[d] \in {byTg[d], q}
    BY <2>2 DEF Set, DirectoryTypeOK
  <2>6. \A d \in Chats : upsert'[d] \in {upsert[d], q}
    BY <2>2 DEF DirectoryTypeOK
  <2>7. \A d \in Chats : chat'[d].rec \in {chat[d].rec, None}
    BY <1>2, <1>10 DEF Register
  <2>8. UNCHANGED <<admin, loading, mongo>>
    BY <1>10 DEF Register
  <2>9. r \in Copies \/ r = q
    BY <1>1, <2>4, <2>5, <2>6, <2>7, <2>8 DEF Copies
  <2> QED  BY <2>3, <2>9
<1>11. CASE Upsert(c)
  <2>1. upsert[c] \in Copies
    BY <1>11, CopiesAre DEF Upsert
  <2>2. \A p \in Phones : mongo'[p] \in {mongo[p], upsert[c]}
    BY <1>11 DEF Upsert, DirectoryTypeOK
  <2>3. \A d \in Chats : upsert'[d] \in {upsert[d], None}
    BY <1>11 DEF Upsert, DirectoryTypeOK
  <2>4. UNCHANGED <<byPhone, byTg, chat, admin, loading>>
    BY <1>11 DEF Upsert, KeepCache
  <2> QED  BY <1>1, <2>1, <2>2, <2>3, <2>4 DEF Copies
<1>12. CASE Judge(c)
  BY <1>1, <1>3, <1>12 DEF Judge
<1>13. CASE Bid(c)
  <2>1. \A d \in Chats : chat'[d].rec \in {chat[d].rec, None}
    BY <1>2, <1>13 DEF Bid
  <2> QED  BY <1>1, <1>13, <2>1 DEF Bid, KeepCache, Copies
<1> QED  BY <1>4, <1>5, <1>6, <1>7, <1>8, <1>9, <1>10, <1>11, <1>12, <1>13
     DEF ChatStep

LEMMA AdminOrigin ==
  ASSUME DirectoryTypeOK, NEW a \in Admins, AdminStep(a), NEW r \in Copies'
  PROVE  Origin(r)
<1> USE DEF Origin
<1>1. r # None
  BY DEF Copies
<1>2. ASSUME NEW at, NEW phone, NEW rec, AdminMoves(a, at, phone, rec)
      PROVE  \A b \in Admins : admin'[b].rec \in {admin[b].rec, rec}
  BY <1>2 DEF AdminMoves, DirectoryTypeOK
<1>3. ASSUME NEW at, NEW phone, NEW rec, AdminMoves(a, at, phone, rec),
             KeepCache, KeepRest, UNCHANGED mongo
      PROVE  r \in Copies \/ r = rec
  BY <1>1, <1>2, <1>3 DEF KeepCache, KeepRest, Copies
<1>4. ASSUME NEW p \in Phones, View(a, p) PROVE Origin(r)
  BY <1>1, <1>3, <1>4 DEF View
<1>5. ASSUME NEW p \in Phones, Block(a, p) PROVE Origin(r)
  <2>1. CASE byPhone[p] # None
             /\ AdminMoves(a, "blocking", p, [byPhone[p] EXCEPT !.blocked = TRUE])
    BY <1>3, <1>5, <2>1, CopiesAre DEF Block, IsBlocked
  <2>2. CASE AdminMoves(a, "updating", p, None)
    BY <1>1, <1>3, <1>5, <2>2 DEF Block
  <2> QED  BY <1>5, <2>1, <2>2 DEF Block
<1>6. CASE ViewRead(a)
  <2>1. admin[a].phone \in Phones
    BY <1>6, HeldByAdmin DEF ViewRead
  <2>2. CASE mongo[admin[a].phone] # None
             /\ AdminMoves(a, "filling", None, mongo[admin[a].phone])
    BY <1>3, <1>6, <2>1, <2>2, CopiesAre DEF ViewRead
  <2>3. CASE AdminMoves(a, "idle", None, None)
    BY <1>1, <1>3, <1>6, <2>3 DEF ViewRead
  <2> QED  BY <1>6, <2>2, <2>3 DEF ViewRead
<1>7. CASE ViewFill(a) \/ BlockSet(a)
  <2>1. admin[a].rec \in Record /\ admin[a].rec \in Copies /\ Set(admin[a].rec)
    BY <1>7, HeldByAdmin, CopiesAre, DirectoryAssumption DEF ViewFill, BlockSet
  <2>2. UNCHANGED <<mongo, chat, upsert, loading>>
    BY <1>7 DEF ViewFill, BlockSet, KeepRest
  <2>3. \A b \in Admins : admin'[b].rec \in {admin[b].rec, None}
    BY <1>2, <1>7 DEF ViewFill, BlockSet
  <2> QED  BY <2>1, <2>2, <2>3, SetCopies
<1>8. CASE BlockUpdate(a)
  <2>1. admin[a].phone \in Phones
    BY <1>8, HeldByAdmin DEF BlockUpdate
  <2>2. UNCHANGED <<byPhone, byTg, chat, upsert, loading>>
    BY <1>8 DEF BlockUpdate, KeepCache, KeepRest
  <2>3. \A b \in Admins : admin'[b].rec \in {admin[b].rec, None}
    BY <1>2, <1>8 DEF BlockUpdate
  <2>4. CASE mongo[admin[a].phone] # None
             /\ mongo' = [mongo EXCEPT ![admin[a].phone] = [@ EXCEPT !.blocked = TRUE]]
    <3> DEFINE q == [mongo[admin[a].phone] EXCEPT !.blocked = TRUE]
    <3>1. IsBlocked(q)
      BY <2>1, <2>4, CopiesAre DEF IsBlocked
    <3>2. \A p \in Phones : mongo'[p] = mongo[p] \/ mongo'[p] = q
      BY <2>1, <2>4 DEF DirectoryTypeOK
    <3> HIDE DEF q
    <3>3. r \in Copies \/ r = q
      BY <1>1, <2>2, <2>3, <3>2 DEF Copies
    <3> QED  BY <3>1, <3>3
  <2>5. CASE UNCHANGED mongo
    BY <1>1, <2>2, <2>3, <2>5 DEF Copies
  <2> QED  BY <1>8, <2>4, <2>5 DEF BlockUpdate
<1> QED  BY <1>4, <1>5, <1>6, <1>7, <1>8 DEF AdminStep

LEMMA CopyOrigin ==
  ASSUME DirectoryTypeOK, [Next]_vars, NEW r \in Copies' PROVE Origin(r)
<1>1. r # None
  BY DEF Copies
<1>2. CASE List
  <2>1. loading'.left \subseteq Docs
    BY <1>2 DEF List, Loaded
  <2>2. UNCHANGED <<byPhone, byTg, mongo, chat, upsert, admin>>
    BY <1>2 DEF List, KeepCache, KeepClients
  <2> QED  BY <1>1, <2>1, <2>2 DEF Origin, Copies, Docs
<1>3. CASE LoadSet
  <2>1. loading \in [at : {"list", "set", "done"}, left : SUBSET Record]
    BY DEF DirectoryTypeOK
  <2>2. PICK q \in loading.left : Set(q) /\ loading' = [loading EXCEPT !.left = @ \ {q}]
    BY <1>3 DEF LoadSet
  <2>3. q \in Record /\ q \in Copies /\ loading'.left \subseteq loading.left
    BY <2>1, <2>2, CopiesAre, DirectoryAssumption
  <2>4. UNCHANGED <<mongo, chat, upsert, admin>>
    BY <1>3 DEF LoadSet, KeepClients
  <2> QED  BY <2>2, <2>3, <2>4, SetCopies DEF Origin
<1>4. CASE LoadEnds
  <2>1. loading'.left = {} /\ UNCHANGED <<byPhone, byTg, mongo, chat, upsert, admin>>
    BY <1>4 DEF LoadEnds, Loaded, KeepCache, KeepClients
  <2> QED  BY <2>1 DEF Origin, Copies
<1>5. CASE Restart
  <2>1. /\ \A p \in Phones : byPhone'[p] = None
        /\ \A c \in Chats : byTg'[c] = None /\ upsert'[c] = None /\ chat'[c].rec = None
        /\ \A a \in Admins : admin'[a].rec = None
        /\ loading'.left = {} /\ mongo' = mongo
    BY <1>5 DEF Restart, Away, Idle, Unloaded
  <2> QED  BY <1>1, <2>1 DEF Origin, Copies
<1>6. CASE UNCHANGED vars
  BY <1>6 DEF Origin, Copies, vars, memory
<1> QED  BY <1>2, <1>3, <1>4, <1>5, <1>6, ChatOrigin, AdminOrigin DEF Next

-----------------------------------------------------------------------------
(***************************************************************************)
(* Whose number a bid goes out under.                                      *)
(***************************************************************************)

\* Every copy of a client names a chat that has shared its phone, and so do
\* the lookups under way.
OwnCopies ==
  /\ \A r \in Copies : r.phone \in shared[r.tg]
  /\ \A c \in Chats : chat[c].at \in Seeking => chat[c].phone \in shared[c]
  /\ \A c \in Chats : chat[c].at = "merging" => chat[c].rec.phone \in shared[c]

LEMMA SharedGrows ==
  ASSUME DirectoryTypeOK, [Next]_vars
  PROVE  \A c \in Chats : shared[c] \subseteq shared'[c]
<1> USE DEF KeepOthers
<1>1. ASSUME NEW c \in Chats, NEW p \in Phones, Share(c, p)
      PROVE  \A d \in Chats : shared[d] \subseteq shared'[d]
  BY <1>1 DEF Share, DirectoryTypeOK
<1>2. ASSUME NEW c \in Chats,
             Hello(c) \/ Find(c) \/ Fill(c) \/ Look(c) \/ Merge(c) \/ Register(c)
               \/ Upsert(c) \/ Judge(c) \/ Bid(c)
      PROVE  shared' = shared
  BY <1>2 DEF Hello, Find, Fill, Look, Merge, Register, Upsert, Judge, Bid
<1>3. ASSUME NEW a \in Admins, AdminStep(a) PROVE shared' = shared
  BY <1>3 DEF AdminStep, View, ViewRead, ViewFill, Block, BlockSet, BlockUpdate, KeepRest
<1>4. CASE List \/ LoadSet \/ LoadEnds \/ Restart \/ UNCHANGED vars
  BY <1>4 DEF List, LoadSet, LoadEnds, KeepClients, Restart, vars
<1> QED  BY <1>1, <1>2, <1>3, <1>4 DEF Next, ChatStep

\* How a chat comes to look a phone up, to bid under one, and to merge what it
\* found.
LEMMA LookingFor ==
  ASSUME DirectoryTypeOK, [Next]_vars, NEW c \in Chats
  PROVE  /\ chat'[c].at \in Seeking =>
              \/ chat'[c].phone \in shared'[c]
              \/ chat'[c] = chat[c]
              \/ byTg[c] # None /\ chat'[c].phone = byTg[c].phone
         /\ chat'[c].at = "merging" =>
              \/ chat'[c] = chat[c]
              \/ /\ chat[c].at = "looking" /\ mongo[chat[c].phone] # None
                 /\ chat'[c].rec = mongo[chat[c].phone]
<1> USE DEF Moves, KeepOthers, DirectoryTypeOK, Seeking
<1>1. ASSUME NEW d \in Chats, NEW p \in Phones, Share(d, p)
      PROVE  /\ chat'[c].at \in Seeking =>
                  chat'[c].phone \in shared'[c] \/ chat'[c] = chat[c]
             /\ chat'[c].at = "merging" => chat'[c] = chat[c]
  BY <1>1 DEF Share
<1>2. ASSUME NEW d \in Chats, Look(d)
      PROVE  /\ chat'[c].at \in Seeking => chat'[c] = chat[c]
             /\ chat'[c].at = "merging" =>
                  \/ chat'[c] = chat[c]
                  \/ /\ chat[c].at = "looking" /\ mongo[chat[c].phone] # None
                     /\ chat'[c].rec = mongo[chat[c].phone]
  BY <1>2 DEF Look
<1>3. ASSUME NEW d \in Chats,
             Hello(d) \/ Find(d) \/ Fill(d) \/ Merge(d) \/ Register(d) \/ Bid(d)
      PROVE  chat'[c].at \in Seeking \union {"merging"} => chat'[c] = chat[c]
  BY <1>3 DEF Hello, Find, Fill, Merge, Register, Bid
<1>4. ASSUME NEW d \in Chats, Judge(d)
      PROVE  /\ chat'[c].at \in Seeking =>
                  \/ chat'[c] = chat[c]
                  \/ byTg[c] # None /\ chat'[c].phone = byTg[c].phone
             /\ chat'[c].at = "merging" => chat'[c] = chat[c]
  BY <1>4 DEF Judge
<1>5. ASSUME NEW d \in Chats, Upsert(d) PROVE chat' = chat
  BY <1>5 DEF Upsert
<1>6. ASSUME NEW a \in Admins, AdminStep(a) PROVE chat' = chat
  BY <1>6 DEF AdminStep, View, ViewRead, ViewFill, Block, BlockSet, BlockUpdate, KeepRest
<1>7. CASE Restart
  BY <1>7 DEF Restart, Away
<1>8. CASE List \/ LoadSet \/ LoadEnds \/ UNCHANGED vars
  BY <1>8 DEF List, LoadSet, LoadEnds, KeepClients, vars, memory
<1> HIDE DEF Moves, KeepOthers, DirectoryTypeOK, Seeking
<1> QED  BY <1>1, <1>2, <1>3, <1>4, <1>5, <1>6, <1>7, <1>8 DEF Next, ChatStep

LEMMA OwnCopiesStep ==
  ASSUME DirectoryTypeOK, OwnCopies, [Next]_vars PROVE OwnCopies'
<1>1. ASSUME NEW c \in Chats, chat'[c].at \in Seeking PROVE chat'[c].phone \in shared'[c]
  <2>1. byTg[c] # None => byTg[c] \in Copies /\ byTg[c].tg = c
    BY CopiesAre DEF DirectoryTypeOK
  <2>2. byTg[c] # None => byTg[c].phone \in shared[c]
    BY <2>1 DEF OwnCopies
  <2> QED  BY <1>1, <2>2, LookingFor, SharedGrows DEF OwnCopies
<1>2. ASSUME NEW c \in Chats, chat'[c].at = "merging"
      PROVE  chat'[c].rec.phone \in shared'[c]
  <2>1. CASE chat'[c] = chat[c]
    BY <1>2, <2>1, SharedGrows DEF OwnCopies
  <2>2. CASE /\ chat[c].at = "looking" /\ mongo[chat[c].phone] # None
             /\ chat'[c].rec = mongo[chat[c].phone]
    <3>1. chat[c].phone \in Phones
      BY <2>2, HeldByChat DEF Seeking
    <3>2. mongo[chat[c].phone].phone = chat[c].phone
      BY <2>2, <3>1 DEF DirectoryTypeOK
    <3> QED  BY <2>2, <3>2, SharedGrows DEF OwnCopies, Seeking
  <2> QED  BY <1>2, <2>1, <2>2, LookingFor
<1>3. ASSUME NEW r \in Copies' PROVE r.phone \in shared'[r.tg]
  <2>1. \A s \in Copies : s \in Record /\ s.tg \in Chats /\ s.phone \in shared[s.tg]
                            /\ s.phone \in shared'[s.tg]
    BY CopiesTyped, SharedGrows DEF OwnCopies, Record
  <2>2. CASE IsAdopted(r)
    <3>1. PICK s \in Copies, c \in Chats :
            /\ r = Adopted(s, c)
            /\ s.phone \in shared'[c] \/ (chat[c].at = "merging" /\ s = chat[c].rec)
      BY <2>2 DEF IsAdopted
    <3>2. r.phone = s.phone /\ r.tg = c
      BY <2>1, <3>1 DEF Adopted, Record
    <3> QED  BY <3>1, <3>2, SharedGrows DEF OwnCopies
  <2>3. CASE IsBlocked(r)
    BY <2>1, <2>3 DEF IsBlocked, Record
  <2>4. CASE IsNumbered(r)
    BY <2>1, <2>4 DEF IsNumbered, Record
  <2>5. CASE IsFresh(r)
    BY <2>5, SharedGrows DEF IsFresh, Fresh, OwnCopies, Seeking
  <2> QED  BY <2>1, <2>2, <2>3, <2>4, <2>5, CopyOrigin DEF Origin
<1> QED  BY <1>1, <1>2, <1>3 DEF OwnCopies

\* Every bid goes out under a phone that its own chat has shared.
THEOREM OwnName == Spec => []BidsInOwnName
<1> DEFINE Inv == OwnCopies /\ BidsInOwnName
<1>1. Init => Inv
  BY DEF Init, OwnCopies, BidsInOwnName, Copies, Away, Idle, Unloaded, Seeking
<1>2. ASSUME DirectoryTypeOK, Inv, [Next]_vars PROVE Inv'
  <2>1. \A c \in Chats : shared[c] \subseteq shared'[c]
    BY <1>2, SharedGrows
  <2>2. ASSUME NEW c \in Chats, Bid(c) PROVE BidsInOwnName'
    <3>1. chat[c].phone \in shared[c]
      BY <1>2, <2>2 DEF Bid, OwnCopies, Seeking
    <3>2. bids' = bids \union {[chat |-> c, phone |-> chat[c].phone]} /\ shared' = shared
      BY <2>2 DEF Bid
    <3> QED  BY <1>2, <3>1, <3>2 DEF BidsInOwnName
  <2>3. ASSUME bids' = bids PROVE BidsInOwnName'
    <3>1. \A b \in bids : b.chat \in Chats
      BY <1>2 DEF DirectoryTypeOK
    <3> QED  BY <1>2, <2>1, <2>3, <3>1 DEF BidsInOwnName
  <2>4. ASSUME NEW c \in Chats, ChatStep(c), ~Bid(c) PROVE bids' = bids
    BY <2>4 DEF ChatStep, Hello, Find, Fill, Share, Look, Merge, Register, Upsert, Judge,
                 KeepOthers
  <2>5. ASSUME NEW a \in Admins, AdminStep(a) PROVE bids' = bids
    BY <2>5 DEF AdminStep, View, ViewRead, ViewFill, Block, BlockSet, BlockUpdate, KeepRest
  <2>6. ASSUME List \/ LoadSet \/ LoadEnds \/ Restart \/ UNCHANGED vars PROVE bids' = bids
    BY <2>6 DEF List, LoadSet, LoadEnds, KeepClients, Restart, vars
  <2> QED  BY <1>2, <2>2, <2>3, <2>4, <2>5, <2>6, OwnCopiesStep DEF Next
<1> QED  BY DirectoryTypeCorrect, <1>1, <1>2, PTL DEF Spec

-----------------------------------------------------------------------------
(***************************************************************************)
(* The two maps.                                                           *)
(***************************************************************************)
LEMMA SetAgrees ==
  ASSUME DirectoryTypeOK, MapsAgree, NEW q \in Record, Set(q) PROVE MapsAgree'
<1> SUFFICES ASSUME NEW p \in Phones, byPhone'[p] # None
             PROVE  LET mine == byTg'[byPhone'[p].tg] IN
                      mine # None /\ (mine.phone = p => mine = byPhone'[p])
  BY DEF MapsAgree
<1>1. q # None /\ q.tg \in Chats /\ q.phone \in Phones
  BY DirectoryAssumption DEF Record
<1>2. \A c \in Chats : byTg'[c] = IF c = q.tg THEN q ELSE byTg[c]
  BY DEF Set, DirectoryTypeOK
<1>3. CASE p = q.phone
  <2>1. byPhone'[p] = q
    BY <1>3 DEF Set, DirectoryTypeOK
  <2> QED  BY <1>1, <1>2, <2>1
<1>4. CASE p # q.phone
  <2>1. byPhone'[p] = byPhone[p]
    BY <1>4 DEF Set, DirectoryTypeOK
  <2>2. byPhone[p].tg \in Chats
    BY <2>1, RecordOrNone DEF Record
  <2> QED  BY <1>1, <1>2, <1>4, <2>1, <2>2 DEF MapsAgree
<1> QED  BY <1>3, <1>4

\* Each step sets one record, clears both maps or touches neither.
LEMMA MapSteps ==
  ASSUME DirectoryTypeOK, [Next]_vars
  PROVE  \/ \E q \in Record : Set(q)
         \/ UNCHANGED <<byPhone, byTg>>
         \/ \A p \in Phones : byPhone'[p] = None
<1> USE DEF KeepCache
<1>1. ASSUME NEW c \in Chats, Fill(c) \/ Merge(c) PROVE \E q \in Record : Set(q)
  BY <1>1, HeldByChat DEF Fill, Merge, Holding
<1>2. ASSUME NEW c \in Chats, Register(c) PROVE \E q \in Record : Set(q)
  BY <1>2, RegisterRecord
<1>3. ASSUME NEW c \in Chats,
             Hello(c) \/ Find(c) \/ Look(c) \/ Upsert(c) \/ Judge(c) \/ Bid(c)
               \/ \E p \in Phones : Share(c, p)
      PROVE  UNCHANGED <<byPhone, byTg>>
  BY <1>3 DEF Hello, Find, Look, Upsert, Judge, Bid, Share
<1>4. ASSUME NEW a \in Admins, ViewFill(a) \/ BlockSet(a) PROVE \E q \in Record : Set(q)
  BY <1>4, HeldByAdmin DEF ViewFill, BlockSet
<1>5. ASSUME NEW a \in Admins,
             ViewRead(a) \/ BlockUpdate(a) \/ \E p \in Phones : View(a, p) \/ Block(a, p)
      PROVE  UNCHANGED <<byPhone, byTg>>
  BY <1>5 DEF ViewRead, BlockUpdate, View, Block
<1>6. ASSUME LoadSet PROVE \E q \in Record : Set(q)
  <2>1. loading \in [at : {"list", "set", "done"}, left : SUBSET Record]
    BY DEF DirectoryTypeOK
  <2> QED  BY <1>6, <2>1 DEF LoadSet
<1>7. CASE List \/ LoadEnds \/ UNCHANGED vars
  BY <1>7 DEF List, LoadEnds, vars, memory
<1>8. CASE Restart
  BY <1>8 DEF Restart
<1> QED  BY <1>1, <1>2, <1>3, <1>4, <1>5, <1>6, <1>7, <1>8 DEF Next, ChatStep, AdminStep

\* The maps never hold two versions of a client.
THEOREM OneVersion == Spec => []MapsAgree
<1>1. Init => MapsAgree
  BY DEF Init, MapsAgree
<1>2. ASSUME DirectoryTypeOK, MapsAgree, [Next]_vars PROVE MapsAgree'
  <2>1. CASE UNCHANGED <<byPhone, byTg>>
    BY <1>2, <2>1 DEF MapsAgree
  <2>2. CASE \A p \in Phones : byPhone'[p] = None
    BY <2>2 DEF MapsAgree
  <2> QED  BY <1>2, <2>1, <2>2, MapSteps, SetAgrees
<1> QED  BY DirectoryTypeCorrect, <1>1, <1>2, PTL DEF Spec

-----------------------------------------------------------------------------
(***************************************************************************)
(* What is firm stays.                                                     *)
(***************************************************************************)

\* A document and a record on its way to one have drawn their ID.
Numbered ==
  /\ \A p \in Phones : mongo[p] # None => mongo[p].id # 0
  /\ \A c \in Chats : upsert[c] # None => upsert[c].id # 0

\* A document is replaced under its ID, or blocked, and never removed.
LEMMA DocsStay ==
  ASSUME DirectoryTypeOK, [Next]_vars
  PROVE  /\ \A p \in Phones :
              mongo[p] # None => mongo'[p] # None /\ mongo'[p].id = mongo[p].id
         /\ \A p \in Phones :
              mongo'[p] # None =>
                \/ mongo[p] # None
                \/ \E c \in Chats : upsert[c] # None /\ mongo'[p] = upsert[c]
<1> DEFINE Stays ==
      /\ \A p \in Phones :
           mongo[p] # None => mongo'[p] # None /\ mongo'[p].id = mongo[p].id
      /\ \A p \in Phones :
           mongo'[p] # None =>
             \/ mongo[p] # None
             \/ \E c \in Chats : upsert[c] # None /\ mongo'[p] = upsert[c]
<1>1. CASE UNCHANGED mongo
  BY <1>1
<1>2. ASSUME NEW c \in Chats, Upsert(c) PROVE Stays
  <2>1. upsert[c] \in Record /\ upsert[c] # None
    BY <1>2, RecordOrNone DEF Upsert
  <2>2. CASE Accepted(upsert[c]) /\ mongo' = [mongo EXCEPT ![upsert[c].phone] = upsert[c]]
    BY <2>1, <2>2 DEF Accepted, DirectoryTypeOK
  <2> QED  BY <1>1, <1>2, <2>2 DEF Upsert
<1>3. ASSUME NEW a \in Admins, BlockUpdate(a) PROVE Stays
  <2>1. CASE mongo[admin[a].phone] # None
             /\ mongo' = [mongo EXCEPT ![admin[a].phone] = [@ EXCEPT !.blocked = TRUE]]
    <3>1. admin[a].phone \in Phones
      BY <1>3, HeldByAdmin DEF BlockUpdate
    <3> DEFINE q == [mongo[admin[a].phone] EXCEPT !.blocked = TRUE]
    <3>2. q \in Record /\ q.id = mongo[admin[a].phone].id /\ q # None
      <4>1. mongo[admin[a].phone] \in Record
        BY <2>1, <3>1, RecordOrNone
      <4>2. q \in Record /\ q.id = mongo[admin[a].phone].id
        BY <4>1 DEF Record
      <4> QED  BY <4>2, DirectoryAssumption
    <3>3. mongo' = [mongo EXCEPT ![admin[a].phone] = q]
      BY <2>1
    <3> HIDE DEF q
    <3> QED  BY <2>1, <3>1, <3>2, <3>3 DEF DirectoryTypeOK
  <2> QED  BY <1>1, <1>3, <2>1 DEF BlockUpdate
<1>4. ASSUME NEW c \in Chats, ChatStep(c), ~Upsert(c) PROVE mongo' = mongo
  BY <1>4 DEF ChatStep, Hello, Find, Fill, Share, Look, Merge, Register, Judge, Bid, KeepOthers
<1>5. ASSUME NEW a \in Admins, AdminStep(a), ~BlockUpdate(a) PROVE mongo' = mongo
  BY <1>5 DEF AdminStep, View, ViewRead, ViewFill, Block, BlockSet, KeepRest
<1>6. ASSUME List \/ LoadSet \/ LoadEnds \/ Restart \/ UNCHANGED vars PROVE mongo' = mongo
  BY <1>6 DEF List, LoadSet, LoadEnds, KeepClients, Restart, vars
<1> QED  BY <1>1, <1>2, <1>3, <1>4, <1>5, <1>6 DEF Next

LEMMA NumberedStep ==
  ASSUME DirectoryTypeOK, Numbered, [Next]_vars PROVE Numbered'
<1>1. ASSUME NEW c \in Chats, Register(c)
      PROVE  \A d \in Chats : upsert'[d] # None => upsert'[d].id # 0
  BY <1>1, RegisterRecord DEF Numbered, DirectoryTypeOK
<1>2. ASSUME NEW c \in Chats, ChatStep(c), ~Register(c)
      PROVE  \A d \in Chats : upsert'[d] \in {upsert[d], None}
  BY <1>2 DEF ChatStep, Hello, Find, Fill, Share, Look, Merge, Upsert, Judge, Bid, KeepOthers,
              DirectoryTypeOK
<1>3. ASSUME NEW a \in Admins, AdminStep(a) PROVE upsert' = upsert
  BY <1>3 DEF AdminStep, View, ViewRead, ViewFill, Block, BlockSet, BlockUpdate, KeepRest
<1>4. ASSUME List \/ LoadSet \/ LoadEnds \/ UNCHANGED vars PROVE upsert' = upsert
  BY <1>4 DEF List, LoadSet, LoadEnds, KeepClients, vars, memory
<1>5. ASSUME Restart PROVE \A d \in Chats : upsert'[d] = None
  BY <1>5 DEF Restart
<1>6. \A d \in Chats : upsert'[d] # None => upsert'[d].id # 0
  BY <1>1, <1>2, <1>3, <1>4, <1>5 DEF Next, Numbered
<1>7. \A p \in Phones : mongo'[p] # None => mongo'[p].id # 0
  BY DocsStay DEF Numbered
<1> QED  BY <1>6, <1>7 DEF Numbered

\* A new client for a number that has a document was misread.
LEMMA FreshIsMisread ==
  ASSUME DirectoryTypeOK, NEW r, IsFresh(r), mongo[r.phone] # None
  PROVE  \E c \in Chats : Misread(c, r.phone)
  BY DEF IsFresh, Misread, Fresh

LEMMA BlockStays ==
  ASSUME DirectoryTypeOK, [Next]_vars, NEW p \in Phones, BlockedFirmly(p),
         ~ \E c \in Chats : Misread(c, p)
  PROVE  BlockedFirmly(p)'
<1>1. mongo'[p] # None
  BY DocsStay DEF BlockedFirmly
<1>2. ASSUME NEW r \in Copies', r.phone = p PROVE r.blocked
  <2>1. \A s \in Copies : s \in Record /\ (s.phone = p => s.blocked)
    BY CopiesTyped DEF BlockedFirmly, CopiesOf
  <2>2. CASE IsAdopted(r)
    BY <1>2, <2>1, <2>2 DEF IsAdopted, Adopted, Record
  <2>3. CASE IsBlocked(r)
    BY <2>1, <2>3 DEF IsBlocked, Record
  <2>4. CASE IsNumbered(r)
    BY <1>2, <2>1, <2>4 DEF IsNumbered, Record
  <2>5. CASE IsFresh(r)
    BY <1>2, <2>5, FreshIsMisread DEF BlockedFirmly
  <2> QED  BY <1>2, <2>1, <2>2, <2>3, <2>4, <2>5, CopyOrigin DEF Origin
<1> QED  BY <1>1, <1>2 DEF BlockedFirmly, CopiesOf

\* Only the chat's own judgement of an unblocked client starts a bid, and only
\* a bid that was started goes out.
LEMMA BidsBegin ==
  ASSUME DirectoryTypeOK, [Next]_vars, NEW p \in Phones, BlockedFirmly(p)
  PROVE  /\ \A c \in Chats : Bidding(c, p)' => Bidding(c, p)
         /\ \A b \in bids' \ bids : b.phone = p => Bidding(b.chat, p)
<1> DEFINE Begins ==
      /\ \A c \in Chats : Bidding(c, p)' => Bidding(c, p)
      /\ \A b \in bids' \ bids : b.phone = p => Bidding(b.chat, p)
<1>1. ASSUME NEW d \in Chats, Judge(d) PROVE Begins
  <2>1. byTg[d] \in Copies /\ ~byTg[d].blocked
    BY <1>1, CopiesAre DEF Judge
  <2>2. byTg[d].phone # p
    BY <2>1 DEF BlockedFirmly, CopiesOf
  <2> QED  BY <1>1, <2>2 DEF Judge, Moves, KeepOthers, Bidding, DirectoryTypeOK
<1>2. ASSUME NEW d \in Chats, Bid(d) PROVE Begins
  <2>1. \A c \in Chats : Bidding(c, p)' => Bidding(c, p)
    BY <1>2 DEF Bid, Moves, Bidding, DirectoryTypeOK
  <2>2. \A b \in bids' \ bids : b.chat = d /\ b.phone = chat[d].phone
    BY <1>2 DEF Bid
  <2> QED  BY <1>2, <2>1, <2>2 DEF Bid, Bidding
<1>3. ASSUME NEW d \in Chats,
             Hello(d) \/ Find(d) \/ Fill(d) \/ Look(d) \/ Merge(d) \/ Register(d)
               \/ \E q \in Phones : Share(d, q)
      PROVE  Begins
  BY <1>3 DEF Hello, Find, Fill, Look, Merge, Register, Share, Moves, KeepOthers, Bidding,
              DirectoryTypeOK
<1>4. ASSUME NEW d \in Chats, Upsert(d) PROVE Begins
  BY <1>4 DEF Upsert, Bidding
<1>5. ASSUME NEW a \in Admins, AdminStep(a) PROVE Begins
  BY <1>5 DEF AdminStep, View, ViewRead, ViewFill, Block, BlockSet, BlockUpdate, KeepRest, Bidding
<1>6. ASSUME List \/ LoadSet \/ LoadEnds \/ UNCHANGED vars PROVE Begins
  BY <1>6 DEF List, LoadSet, LoadEnds, KeepClients, vars, memory, Bidding
<1>7. ASSUME Restart PROVE Begins
  BY <1>7 DEF Restart, Away, Bidding
<1> HIDE DEF Begins
<1>8. Begins
  BY <1>1, <1>2, <1>3, <1>4, <1>5, <1>6, <1>7 DEF Next, ChatStep
<1> QED  BY <1>8 DEF Begins

\* A client all of whose copies are blocked stays blocked, through restarts and
\* registrations, unless it is misread, and no chat begins a bid under its
\* phone: only a bid begun before still goes out.
THEOREM BlockFirm == Spec => BlockIsFirm
<1>1. ASSUME DirectoryTypeOK, [Next]_vars
      PROVE  \A p \in Phones : BlockedFirmly(p) =>
                /\ BlockedFirmly(p)' \/ \E c \in Chats : Misread(c, p)
                /\ \A c \in Chats : Bidding(c, p)' => Bidding(c, p)
                /\ \A b \in bids' \ bids : b.phone = p => Bidding(b.chat, p)
  BY <1>1, BidsBegin, BlockStays
<1> QED  BY DirectoryTypeCorrect, <1>1, PTL DEF Spec, BlockIsFirm

LEMMA IdStays ==
  ASSUME DirectoryTypeOK, Numbered, [Next]_vars, NEW p \in Phones, OneId(p),
         ~ \E c \in Chats : Misread(c, p)
  PROVE  OneId(p)' /\ mongo'[p].id = mongo[p].id
<1>1. mongo'[p] # None /\ mongo'[p].id = mongo[p].id /\ mongo[p].id # 0
  BY DocsStay DEF OneId, Numbered
<1>2. ASSUME NEW r \in Copies', r.phone = p PROVE r.id = mongo[p].id
  <2>1. \A s \in Copies : s \in Record /\ (s.phone = p => s.id = mongo[p].id)
    BY CopiesTyped DEF OneId, CopiesOf
  <2>2. CASE IsAdopted(r)
    BY <1>2, <2>1, <2>2 DEF IsAdopted, Adopted, Record
  <2>3. CASE IsBlocked(r)
    BY <1>2, <2>1, <2>3 DEF IsBlocked, Record
  <2>4. CASE IsNumbered(r)
    BY <1>1, <1>2, <2>1, <2>4 DEF IsNumbered, Record
  <2>5. CASE IsFresh(r)
    BY <1>2, <2>5, FreshIsMisread DEF OneId
  <2> QED  BY <1>2, <2>1, <2>2, <2>3, <2>4, <2>5, CopyOrigin DEF Origin
<1> QED  BY <1>1, <1>2 DEF OneId, CopiesOf

\* A client all of whose copies have one ID keeps it unless it is misread.
THEOREM IdFirm == Spec => IdIsFirm
<1>1. Init => Numbered
  BY DEF Init, Numbered
<1>2. DirectoryTypeOK /\ Numbered /\ [Next]_vars => Numbered'
  BY NumberedStep
<1>3. ASSUME DirectoryTypeOK, Numbered, [Next]_vars
      PROVE  \A p \in Phones : OneId(p) =>
                \/ OneId(p)' /\ mongo'[p].id = mongo[p].id
                \/ \E c \in Chats : Misread(c, p)
  BY <1>3, IdStays
<1> QED  BY DirectoryTypeCorrect, <1>1, <1>2, <1>3, PTL DEF Spec, IdIsFirm
=============================================================================
