--------------------------- MODULE ClientDirectory ---------------------------
(***************************************************************************)
(* The clients: the service's two cache maps, the collection in MongoDB,   *)
(* the upserts that run in goroutines of their own, the lookups that fill  *)
(* the cache on a miss, a chat's way from its first update to its bids,    *)
(* the admin's Block, and the loading of all clients at the start, which a *)
(* bot connected from the environment does not wait for.                   *)
(*                                                                         *)
(* A lookup, a registration, a Block and a bid are cut at each access to a *)
(* map or to the collection: nothing is held from one access to the next.  *)
(***************************************************************************)
EXTENDS Naturals

CONSTANTS Chats,       \* Telegram chats: Client.TgUserID
          Phones,      \* phone numbers, as handlePhone normalises them
          Admins,      \* admin requests that run at the same time
          None,        \* no record: a missing map key, a missing document
          EarlyBot,    \* is the bot connected from the environment?
          Faults,      \* the calls of MongoDB that may fail: "read", "write"
          MaxIds,      \* bound: client IDs drawn
          MaxRestarts  \* bound: restarts

\* domain.Client; an ID of 0 is the empty string.
Record == [phone : Phones, tg : Chats, id : 0 .. MaxIds, blocked : BOOLEAN]

ASSUME DirectoryAssumption ==
  /\ None \notin Record /\ None \notin Phones
  /\ EarlyBot \in BOOLEAN
  /\ Faults \subseteq {"read", "write"}
  /\ MaxIds \in Nat
  /\ MaxRestarts \in Nat

VARIABLES byPhone,   \* ClientCache.byPhone
          byTg,      \* ClientCache.byTgID
          mongo,     \* the clients collection, by its unique phone
          chat,      \* per chat: where its Run is, the phone it looks up or bids under,
                     \* its local record
          upsert,    \* per chat: the record its registration's goroutine stores
          admin,     \* per admin: where the handler is, its phone, its local record
          loading,   \* LoadAll: where it is and the records it has yet to set
          ids,       \* client IDs drawn so far
          restarts,  \* restarts so far
          shared,    \* history: the contacts a chat has shared
          bids       \* history: chat and phone of the bids placed

memory == <<byPhone, byTg, chat, upsert, admin, loading>>
vars == <<memory, mongo, ids, restarts, shared, bids>>

Away == [at |-> "away", phone |-> None, rec |-> None]
Idle == [at |-> "idle", phone |-> None, rec |-> None]
Unloaded == [at |-> "list", left |-> {}]
Loaded == [at |-> "done", left |-> {}]

Init ==
  /\ byPhone = [p \in Phones |-> None]
  /\ byTg = [c \in Chats |-> None]
  /\ mongo = [p \in Phones |-> None]
  /\ chat = [c \in Chats |-> Away]
  /\ upsert = [c \in Chats |-> None]
  /\ admin = [a \in Admins |-> Idle]
  /\ loading = Unloaded
  /\ ids = 0
  /\ restarts = 0
  /\ shared = [c \in Chats |-> {}]
  /\ bids = {}

-----------------------------------------------------------------------------
Docs == {mongo[p] : p \in Phones} \ {None}
Serving == EarlyBot \/ loading.at = "done"   \* may updates reach the chats?

\* Faulty variant: the record is filed under its phone only.
SetByPhoneOnly(r) ==
  /\ byPhone' = [byPhone EXCEPT ![r.phone] = r]
  /\ UNCHANGED byTg

\* ClientCache.Set: one copy for both maps, under the mutex.
Set(r) ==
  /\ byPhone' = [byPhone EXCEPT ![r.phone] = r]
  /\ byTg' = [byTg EXCEPT ![r.tg] = r]

KeepCache == UNCHANGED <<byPhone, byTg>>

-----------------------------------------------------------------------------
(***************************************************************************)
(* A chat.  Hello, Find and Fill are the GetByTgID at the head of Run;     *)
(* Share, Look and Merge the GetByPhone of a shared contact and what the   *)
(* chat makes of it; Register is RegisterOrUpdate.                         *)
(***************************************************************************)
Moves(c, at, phone, rec) ==
  chat' = [chat EXCEPT ![c] = [at |-> at, phone |-> phone, rec |-> rec]]
KeepOthers == UNCHANGED <<upsert, admin, loading, mongo, ids, restarts, bids>>

Hello(c) ==
  /\ Serving
  /\ chat[c].at = "away"
  /\ \/ byTg[c] # None /\ Moves(c, "in", None, None)
     \/ byTg[c] = None /\ Moves(c, "finding", None, None)
  /\ KeepCache
  /\ UNCHANGED shared
  /\ KeepOthers

\* Faulty variant: the query has lost its filter.
FindAny(c) ==
  /\ chat[c].at = "finding"
  /\ \/ \E r \in Docs : Moves(c, "filling", None, [r EXCEPT !.tg = c])
     \/ "read" \in Faults /\ Moves(c, "asking", None, None)
  /\ KeepCache
  /\ UNCHANGED shared
  /\ KeepOthers

\* An error of the read is taken for "not found".
Find(c) ==
  /\ chat[c].at = "finding"
  /\ \/ \E r \in Docs : r.tg = c /\ Moves(c, "filling", None, r)
     \/ /\ "read" \in Faults \/ \A r \in Docs : r.tg # c
        /\ Moves(c, "asking", None, None)
  /\ KeepCache
  /\ UNCHANGED shared
  /\ KeepOthers

Fill(c) ==
  /\ chat[c].at = "filling"
  /\ Set(chat[c].rec)
  /\ Moves(c, "in", None, None)
  /\ UNCHANGED shared
  /\ KeepOthers

\* Faulty variant: of the record found only the ID is kept.
AdoptedById(r, c) == [phone |-> r.phone, tg |-> c, id |-> r.id, blocked |-> FALSE]

\* The record found, with the chat that shares the contact as its owner.
Adopted(r, c) == [r EXCEPT !.tg = c]
Fresh(p, c) == [phone |-> p, tg |-> c, id |-> 0, blocked |-> FALSE]

Share(c, p) ==
  /\ chat[c].at = "asking"
  /\ shared' = [shared EXCEPT ![c] = @ \union {p}]
  /\ \/ byPhone[p] # None /\ Moves(c, "registering", None, Adopted(byPhone[p], c))
     \/ byPhone[p] = None /\ Moves(c, "looking", p, None)
  /\ KeepCache
  /\ KeepOthers

Look(c) ==
  /\ chat[c].at = "looking"
  /\ LET p == chat[c].phone IN
       \/ mongo[p] # None /\ Moves(c, "merging", None, mongo[p])
       \/ /\ mongo[p] = None \/ "read" \in Faults
          /\ Moves(c, "registering", None, Fresh(p, c))
  /\ KeepCache
  /\ UNCHANGED shared
  /\ KeepOthers

Merge(c) ==
  /\ chat[c].at = "merging"
  /\ Set(chat[c].rec)
  /\ Moves(c, "registering", None, Adopted(chat[c].rec, c))
  /\ UNCHANGED shared
  /\ KeepOthers

\* Faulty variant: every registration draws a new ID.
RegisterAnew(c) ==
  /\ chat[c].at = "registering"
  /\ ids < MaxIds
  /\ LET r == [chat[c].rec EXCEPT !.id = ids + 1] IN
       /\ Set(r)
       /\ upsert' = [upsert EXCEPT ![c] = r]
  /\ ids' = ids + 1
  /\ Moves(c, "in", None, None)
  /\ UNCHANGED <<admin, loading, mongo, restarts, shared, bids>>

\* A record without an ID draws one.  The goroutine is started with the
\* record as it is now; the chat does not change it later.
Register(c) ==
  /\ chat[c].at = "registering"
  /\ \E r \in Record :
       /\ \/ chat[c].rec.id # 0 /\ r = chat[c].rec /\ ids' = ids
          \/ /\ chat[c].rec.id = 0
             /\ ids < MaxIds                                   \* bound
             /\ ids' = ids + 1
             /\ r = [chat[c].rec EXCEPT !.id = ids']
       /\ Set(r)
       /\ upsert' = [upsert EXCEPT ![c] = r]
  /\ Moves(c, "in", None, None)
  /\ UNCHANGED <<admin, loading, mongo, restarts, shared, bids>>

\* A sum from a chat that is in: its client is read again into a copy of the
\* chat's own, which is judged; of an unblocked one the phone goes on to the
\* bid.  The read cannot miss: byTg[c] is set before the chat is in, and
\* nothing is ever removed from the maps (DirectoryTypeOK).
Judge(c) ==
  /\ chat[c].at = "in"
  /\ byTg[c] # None
  /\ ~byTg[c].blocked
  /\ Moves(c, "bidding", byTg[c].phone, None)
  /\ KeepCache
  /\ UNCHANGED shared
  /\ KeepOthers

\* PlaceBid goes out, after the hub was asked and whatever has become of the
\* client meanwhile: the copy was judged, and is not judged again.
Bid(c) ==
  /\ chat[c].at = "bidding"
  /\ bids' = bids \union {[chat |-> c, phone |-> chat[c].phone]}
  /\ Moves(c, "in", None, None)
  /\ KeepCache
  /\ UNCHANGED <<upsert, admin, loading, mongo, ids, restarts, shared>>

-----------------------------------------------------------------------------
(***************************************************************************)
(* The goroutine of a registration.  ReplaceOne with upsert: by the phone, *)
(* refused if the document has another _id, which cannot be changed, or if *)
(* another document has the chat, which is unique.                         *)
(***************************************************************************)
Accepted(r) ==
  /\ mongo[r.phone] # None => mongo[r.phone].id = r.id
  /\ \A p \in Phones : mongo[p] # None /\ mongo[p].tg = r.tg => p = r.phone

Upsert(c) ==
  /\ upsert[c] # None
  /\ \/ /\ Accepted(upsert[c])
        /\ mongo' = [mongo EXCEPT ![upsert[c].phone] = upsert[c]]
     \/ /\ ~Accepted(upsert[c]) \/ "write" \in Faults
        /\ UNCHANGED mongo
  /\ upsert' = [upsert EXCEPT ![c] = None]
  /\ KeepCache
  /\ UNCHANGED <<chat, admin, loading, ids, restarts, shared, bids>>

-----------------------------------------------------------------------------
(***************************************************************************)
(* The admin.  The server starts after LoadAll; the pages are those of     *)
(* phones some chat has shared.                                            *)
(***************************************************************************)
AdminMoves(a, at, phone, rec) ==
  admin' = [admin EXCEPT ![a] = [at |-> at, phone |-> phone, rec |-> rec]]
KeepRest == UNCHANGED <<chat, upsert, loading, ids, restarts, shared, bids>>
HasPage(p) == \E c \in Chats : p \in shared[c]

\* Detail: GetByPhone, which on a miss reads the collection and sets what it
\* read, however old it is by then.
View(a, p) ==
  /\ loading.at = "done"
  /\ admin[a].at = "idle"
  /\ HasPage(p)
  /\ byPhone[p] = None
  /\ AdminMoves(a, "viewing", p, None)
  /\ KeepCache
  /\ UNCHANGED mongo
  /\ KeepRest

ViewRead(a) ==
  /\ admin[a].at = "viewing"
  /\ LET p == admin[a].phone IN
       \/ mongo[p] # None /\ AdminMoves(a, "filling", None, mongo[p])
       \/ /\ mongo[p] = None \/ "read" \in Faults
          /\ AdminMoves(a, "idle", None, None)
  /\ KeepCache
  /\ UNCHANGED mongo
  /\ KeepRest

ViewFill(a) ==
  /\ admin[a].at = "filling"
  /\ Set(admin[a].rec)
  /\ AdminMoves(a, "idle", None, None)
  /\ UNCHANGED mongo
  /\ KeepRest

\* Block: the cached record if there is one, marked and set again, then the
\* document, if there is one.
Block(a, p) ==
  /\ loading.at = "done"
  /\ admin[a].at = "idle"
  /\ HasPage(p)
  /\ \/ /\ byPhone[p] # None
        /\ AdminMoves(a, "blocking", p, [byPhone[p] EXCEPT !.blocked = TRUE])
     \/ byPhone[p] = None /\ AdminMoves(a, "updating", p, None)
  /\ KeepCache
  /\ UNCHANGED mongo
  /\ KeepRest

BlockSet(a) ==
  /\ admin[a].at = "blocking"
  /\ Set(admin[a].rec)
  /\ AdminMoves(a, "updating", admin[a].phone, None)
  /\ UNCHANGED mongo
  /\ KeepRest

BlockUpdate(a) ==
  /\ admin[a].at = "updating"
  /\ LET p == admin[a].phone IN
       \/ /\ mongo[p] # None
          /\ mongo' = [mongo EXCEPT ![p] = [@ EXCEPT !.blocked = TRUE]]
       \/ /\ mongo[p] = None \/ "write" \in Faults
          /\ UNCHANGED mongo
  /\ AdminMoves(a, "idle", None, None)
  /\ KeepCache
  /\ KeepRest

-----------------------------------------------------------------------------
KeepClients == UNCHANGED <<chat, upsert, admin, mongo, ids, restarts, shared, bids>>

\* LoadAll: the collection is read, then set in the cache one by one.
List ==
  /\ loading.at = "list"
  /\ \/ loading' = [at |-> "set", left |-> Docs]
     \/ "read" \in Faults /\ loading' = Loaded
  /\ KeepCache
  /\ KeepClients

LoadSet ==
  /\ loading.at = "set"
  /\ \E r \in loading.left :
       /\ Set(r)
       /\ loading' = [loading EXCEPT !.left = @ \ {r}]
  /\ KeepClients

LoadEnds ==
  /\ loading.at = "set"
  /\ loading.left = {}
  /\ loading' = Loaded
  /\ KeepCache
  /\ KeepClients

\* Everything in memory is lost, the goroutines with it.
Restart ==
  /\ restarts < MaxRestarts                                    \* bound
  /\ restarts' = restarts + 1
  /\ byPhone' = [p \in Phones |-> None]
  /\ byTg' = [c \in Chats |-> None]
  /\ chat' = [c \in Chats |-> Away]
  /\ upsert' = [c \in Chats |-> None]
  /\ admin' = [a \in Admins |-> Idle]
  /\ loading' = Unloaded
  /\ UNCHANGED <<mongo, ids, shared, bids>>

ChatStep(c) ==
  \/ Hello(c) \/ Find(c) \/ Fill(c)
  \/ \E p \in Phones : Share(c, p)
  \/ Look(c) \/ Merge(c) \/ Register(c) \/ Upsert(c)
  \/ Judge(c) \/ Bid(c)

AdminStep(a) ==
  \/ \E p \in Phones : View(a, p) \/ Block(a, p)
  \/ ViewRead(a) \/ ViewFill(a) \/ BlockSet(a) \/ BlockUpdate(a)

Next ==
  \/ \E c \in Chats : ChatStep(c)
  \/ \E a \in Admins : AdminStep(a)
  \/ List \/ LoadSet \/ LoadEnds \/ Restart

Spec == Init /\ [][Next]_vars

-----------------------------------------------------------------------------
(***************************************************************************)
(* Properties                                                              *)
(***************************************************************************)
MaybeRecord == Record \union {None}
MaybePhone == Phones \union {None}
Seeking == {"looking", "bidding"}
Looking == {"away", "finding", "asking", "in"}
Holding == {"filling", "merging", "registering"}
ChatState ==
  [at : Seeking, phone : Phones, rec : {None}]
    \union [at : Looking, phone : {None}, rec : {None}]
    \union [at : Holding, phone : {None}, rec : Record]
AdminState ==
  [at : {"idle"}, phone : {None}, rec : {None}]
    \union [at : {"viewing", "updating"}, phone : Phones, rec : {None}]
    \union [at : {"filling"}, phone : {None}, rec : Record]
    \union [at : {"blocking"}, phone : Phones, rec : Record]

\* Types, maps that file a record under its own keys, chats that sign in with
\* a record of their own, and that a chat that is in is in the cache, so that
\* the lookup before a bid never misses (hub/chat.go:157).
DirectoryTypeOK ==
  /\ byPhone \in [Phones -> MaybeRecord]
  /\ byTg \in [Chats -> MaybeRecord]
  /\ mongo \in [Phones -> MaybeRecord]
  /\ chat \in [Chats -> ChatState]
  /\ upsert \in [Chats -> MaybeRecord]
  /\ admin \in [Admins -> AdminState]
  /\ loading \in [at : {"list", "set", "done"}, left : SUBSET Record]
  /\ ids \in 0 .. MaxIds
  /\ restarts \in 0 .. MaxRestarts
  /\ shared \in [Chats -> SUBSET Phones]
  /\ bids \subseteq [chat : Chats, phone : Phones]
  /\ \A p \in Phones : byPhone[p] # None => byPhone[p].phone = p
  /\ \A p \in Phones : mongo[p] # None => mongo[p].phone = p
  /\ \A c \in Chats : byTg[c] # None => byTg[c].tg = c
  /\ \A c \in Chats : chat[c].at \in {"filling", "registering"} => chat[c].rec.tg = c
  /\ \A c \in Chats : chat[c].at \in {"in", "bidding"} => byTg[c] # None

\* The records that are, or may yet be, written to a map or the collection.
Copies ==
  ({byPhone[p] : p \in Phones} \union {byTg[c] : c \in Chats}
     \union {mongo[p] : p \in Phones} \union {chat[c].rec : c \in Chats}
     \union {upsert[c] : c \in Chats} \union {admin[a].rec : a \in Admins}
     \union loading.left) \ {None}
CopiesOf(p) == {r \in Copies : r.phone = p}

\* A failed read of the collection turns the client p into a new one.
Misread(c, p) ==
  /\ chat[c].at = "looking" /\ chat[c].phone = p /\ mongo[p] # None
  /\ chat'[c].at = "registering"

BlockedFirmly(p) == mongo[p] # None /\ \A r \in CopiesOf(p) : r.blocked
OneId(p) == mongo[p] # None /\ \A r \in CopiesOf(p) : r.id = mongo[p].id

Bidding(c, p) == chat[c].at = "bidding" /\ chat[c].phone = p

\* Once every copy of a client is blocked, in the maps, in MongoDB and with
\* whoever may still write one, it stays blocked and no chat begins a bid
\* under its phone: through restarts, registrations from any chat, fills and
\* loading.  What still goes out is the bid a chat had begun before, judged
\* by an older copy (hub/chat.go:157, 169).  Only a read that fails while the
\* contact is looked up makes it a new client (service/client/service.go:48).
BlockIsFirm ==
  [][\A p \in Phones : BlockedFirmly(p) =>
        /\ BlockedFirmly(p)' \/ \E c \in Chats : Misread(c, p)
        /\ \A c \in Chats : Bidding(c, p)' => Bidding(c, p)
        /\ \A b \in bids' \ bids : b.phone = p => Bidding(b.chat, p)]_vars

\* Once every copy of a client has the ID of its document it keeps that ID,
\* under which its bids are stored, through re-registration from another
\* chat, fills, loading and restarts; again only a failed read makes it a new
\* client.
IdIsFirm ==
  [][\A p \in Phones : OneId(p) =>
        \/ OneId(p)' /\ mongo'[p].id = mongo[p].id
        \/ \E c \in Chats : Misread(c, p)]_vars

\* Every bid goes out under a phone that its own chat has shared, whichever
\* of the lookups, fills and overwrites came last.
BidsInOwnName == \A b \in bids : b.phone \in shared[b.chat]

\* The two maps hold one version of a client: the record filed under its
\* phone is the one its chat's bids are judged by (hub/chat.go:157), so that
\* a Block by phone reaches the chat that owns the phone.
MapsAgree ==
  \A p \in Phones :
    byPhone[p] # None =>
      LET mine == byTg[byPhone[p].tg] IN
        mine # None /\ (mine.phone = p => mine = byPhone[p])
=============================================================================
