------------------------- MODULE BidPlacementProofs -------------------------
(***************************************************************************)
(* Proofs about BidPlacement, for every set of chats and lots and every    *)
(* price, step and bound.                                                  *)
(***************************************************************************)
EXTENDS BidPlacement, TLAPS

Replies == {"none", "pending", "accepted", "tooLow", "busy", "noAuction"}

\* A PlaceBid that returns leaves its four locals typed.
LEMMA ReturnType ==
  ASSUME TypeOK, NEW c \in Chats, NEW r \in Replies, Return(c, r)
  PROVE  /\ pc' \in [Chats -> {"idle", "acquire"} \union Critical]
         /\ req' \in [Chats -> Request \union {NoRequest}]
         /\ \A d \in Chats : pc'[d] # "idle" => req'[d] \in Request
         /\ seen' \in [Chats -> LotState]
         /\ reply' \in [Chats -> Replies]
  BY BidAssumption DEF TypeOK, Return, LotState, ZeroState, Critical, Replies

-----------------------------------------------------------------------------
(***************************************************************************)
(* Type correctness.                                                       *)
(***************************************************************************)
LEMMA InitType == Init => TypeOK
  BY BidAssumption DEF Init, TypeOK, LotState, ZeroState, Free, Critical

LEMMA StoreType == ASSUME TypeOK, NEW c \in Chats, Store(c) PROVE TypeOK'
<1> DEFINE l == req[c].lot
           n == Len(bids[l]) + 1
           bid == [chat |-> c, amount |-> req[c].amount]
           state == [max |-> req[c].amount, bid |-> n, chat |-> c,
                     count |-> seen[c].count + 1]
<1>1. l \in Lots /\ req[c].amount \in Amounts /\ req[c].amount \in 0 .. MaxInt
  <2>1. pc[c] = "store"
    BY DEF Store
  <2>2. req[c] \in Request
    BY <2>1 DEF TypeOK
  <2>3. req[c].lot \in Lots /\ req[c].amount \in Amounts
    BY <2>2 DEF Request
  <2>4. \A a \in Amounts : a \in 0 .. MaxInt
    BY BidAssumption
  <2> QED  BY <2>3, <2>4
<1>2. bids[l] \in Seq(Bid) /\ n \in Nat
  BY <1>1 DEF TypeOK
<1>3. bid \in Bid
  BY <1>1 DEF Bid
<1>4. state \in LotState
  BY <1>1, <1>2 DEF TypeOK, LotState
<1>5. Append(bids[l], bid) \in Seq(Bid)
  BY <1>2, <1>3
<1>6. bids' \in [Lots -> Seq(Bid)]
  BY <1>1, <1>5 DEF Store, TypeOK
<1>7. cache' \in [Lots -> LotState] /\ seen' \in [Chats -> LotState]
  BY <1>1, <1>4 DEF Store, TypeOK
<1>8. notices' \subseteq [to : Chats, lot : Lots, bid : Nat]
  <2>1. seen[c].chat \in Chats \union {NoChat}
    BY DEF TypeOK, LotState
  <2>2. Displaced(c, l, n, seen[c]) \subseteq [to : Chats, lot : Lots, bid : Nat]
    BY <1>1, <1>2, <2>1 DEF Displaced
  <2> QED  BY <2>2 DEF Store, TypeOK
<1>9. inserting' \subseteq Lots \X Nat
  BY <1>1, <1>2 DEF Store, TypeOK
<1> QED  BY <1>6, <1>7, <1>8, <1>9 DEF Store, TypeOK, Critical

LEMMA NextType == TypeOK /\ [Next]_vars => TypeOK'
<1> SUFFICES ASSUME TypeOK, [Next]_vars PROVE TypeOK'
  OBVIOUS
<1>1. ASSUME NEW l \in Lots, Hydrate(l) PROVE TypeOK'
  <2>1. [max |-> StartPrice, bid |-> 0, chat |-> NoChat, count |-> 0] \in LotState
    BY BidAssumption DEF LotState
  <2> QED  BY <1>1, <2>1 DEF Hydrate, HydrateWith, TypeOK
<1>2. ASSUME NEW l \in Lots, Expire(l) PROVE TypeOK'
  BY <1>2 DEF Expire, TypeOK
<1>3. ASSUME NEW c \in Chats, NEW l \in Lots, NEW a \in Amounts, PlaceBid(c, l, a)
      PROVE  TypeOK'
  <2>1. CASE Return(c, "noAuction")
    BY <1>3, <2>1, ReturnType DEF PlaceBid, TypeOK, Replies
  <2>2. CASE Return(c, "tooLow")
    BY <1>3, <2>2, ReturnType DEF PlaceBid, TypeOK, Replies
  <2>3. CASE /\ pc' = [pc EXCEPT ![c] = "acquire"]
             /\ req' = [req EXCEPT ![c] = [lot |-> l, amount |-> a]]
             /\ reply' = [reply EXCEPT ![c] = "pending"]
             /\ UNCHANGED seen
    <3>1. [lot |-> l, amount |-> a] \in Request
      BY DEF Request
    <3> QED  BY <1>3, <2>3, <3>1 DEF PlaceBid, TypeOK
  <2> QED  BY <1>3, <2>1, <2>2, <2>3 DEF PlaceBid
<1>4. ASSUME NEW c \in Chats, TryLock(c) PROVE TypeOK'
  <2>1. CASE lock[req[c].lot] = Free
    <3>1. /\ lock' = [lock EXCEPT ![req[c].lot] = c]
          /\ pc' = [pc EXCEPT ![c] = "recheck"]
          /\ pc[c] # "idle"
          /\ UNCHANGED <<req, seen, reply, hydrated, cache, bids, inserting, mongo, notices, events>>
      BY <1>4, <2>1 DEF TryLock
    <3>2. lock' \in [Lots -> Chats \union {Free}]
      BY <3>1 DEF TypeOK
    <3>3. pc' \in [Chats -> {"idle", "acquire"} \union Critical]
      BY <3>1 DEF TypeOK, Critical
    <3>4. \A d \in Chats : pc'[d] # "idle" => req'[d] \in Request
      BY <3>1 DEF TypeOK
    <3> QED  BY <3>1, <3>2, <3>3, <3>4 DEF TypeOK
  <2>2. CASE Return(c, "busy") /\ UNCHANGED lock
    BY <1>4, <2>2, ReturnType DEF TryLock, TypeOK, Replies
  <2> QED  BY <1>4, <2>1, <2>2 DEF TryLock
<1>5. ASSUME NEW c \in Chats, AcquireFails(c) PROVE TypeOK'
  BY <1>5, ReturnType DEF AcquireFails, TypeOK, Replies
<1>6. ASSUME NEW c \in Chats, Recheck(c) PROVE TypeOK'
  <2>1. req[c].lot \in Lots
    BY <1>6 DEF Recheck, TypeOK, Request
  <2> QED  BY <1>6, <2>1 DEF Recheck, TypeOK, Critical
<1>7. ASSUME NEW c \in Chats, Store(c) PROVE TypeOK'
  BY <1>7, StoreType
<1>8. ASSUME NEW c \in Chats, Publish(c) PROVE TypeOK'
  <2>1. /\ req[c].lot \in Lots
        /\ seen[c].bid \in Nat /\ seen[c].count \in Nat
    BY <1>8 DEF Publish, TypeOK, Request, LotState
  <2> QED  BY <1>8, <2>1 DEF Publish, TypeOK, Critical
<1>9. ASSUME NEW c \in Chats, Release(c) PROVE TypeOK'
  <2>1. reply[c] \in Replies
    BY DEF TypeOK, Replies
  <2> QED  BY <1>9, <2>1, ReturnType DEF Release, TypeOK, Replies, Free
<1>10. ASSUME NEW c \in Chats, ReleaseFails(c) PROVE TypeOK'
  <2>1. reply[c] \in Replies
    BY DEF TypeOK, Replies
  <2> QED  BY <1>10, <2>1, ReturnType DEF ReleaseFails, TypeOK, Replies
<1>11. ASSUME NEW l \in Lots, NEW n \in 1 .. MaxBids, InsertDone(l, n) \/ InsertFails(l, n)
       PROVE  TypeOK'
  BY <1>11 DEF InsertDone, InsertFails, TypeOK
<1>12. CASE UNCHANGED vars
  BY <1>12 DEF vars, TypeOK
<1> QED  BY <1>1, <1>2, <1>3, <1>4, <1>5, <1>6, <1>7, <1>8, <1>9, <1>10, <1>11, <1>12
         DEF Next, Bidder, Database

\* Every variable keeps its type, through failures, stalls and overflow.
THEOREM TypeCorrect == Spec => []TypeOK
<1>1. Init => TypeOK
  BY InitType
<1>2. TypeOK /\ [Next]_vars => TypeOK'
  BY NextType
<1> QED  BY <1>1, <1>2, PTL DEF Spec
-----------------------------------------------------------------------------
(***************************************************************************)
(* The lock.                                                               *)
(***************************************************************************)
\* Who is between Acquire and Release after a step of chat c.
LEMMA ReturnSection ==
  ASSUME TypeOK, NEW c \in Chats, NEW r, Return(c, r)
  PROVE  \A d \in Chats, l \in Lots : InSection(d, l)' <=> d # c /\ InSection(d, l)
  BY DEF Return, TypeOK, InSection, Critical

LEMMA EnterSection ==
  ASSUME TypeOK, NEW c \in Chats, pc' = [pc EXCEPT ![c] = "recheck"], UNCHANGED req
  PROVE  \A d \in Chats, l \in Lots :
           InSection(d, l)' <=> (InSection(d, l) \/ (d = c /\ req[c].lot = l))
<1> SUFFICES ASSUME NEW d \in Chats, NEW l \in Lots
             PROVE  InSection(d, l)' <=> (InSection(d, l) \/ (d = c /\ req[c].lot = l))
  OBVIOUS
<1>1. CASE d = c
  BY <1>1 DEF TypeOK, InSection, Critical
<1>2. CASE d # c
  BY <1>2 DEF TypeOK, InSection, Critical
<1> QED  BY <1>1, <1>2

LEMMA StaySection ==
  ASSUME TypeOK, NEW c \in Chats, pc[c] \in Critical, NEW p \in Critical,
         pc' = [pc EXCEPT ![c] = p], UNCHANGED req
  PROVE  \A d \in Chats, l \in Lots : InSection(d, l)' <=> InSection(d, l)
  BY DEF TypeOK, InSection, Critical

LEMMA RequestTyped ==
  ASSUME TypeOK, NEW c \in Chats, pc[c] # "idle"
  PROVE  req[c].lot \in Lots /\ req[c].amount \in Amounts
  BY DEF TypeOK, Request

\* Outside its section, PlaceBid leaves everybody inside where they are.
LEMMA PlaceBidSection ==
  ASSUME TypeOK, NEW c \in Chats, NEW k \in Lots, NEW a \in Amounts, PlaceBid(c, k, a)
  PROVE  \A d \in Chats, l \in Lots : InSection(d, l)' <=> InSection(d, l)
<1>1. CASE Return(c, "noAuction") \/ Return(c, "tooLow")
  BY <1>1, ReturnSection DEF PlaceBid, InSection, Critical
<1>2. CASE /\ pc' = [pc EXCEPT ![c] = "acquire"]
           /\ req' = [req EXCEPT ![c] = [lot |-> k, amount |-> a]]
  BY <1>2 DEF PlaceBid, TypeOK, InSection, Critical
<1> QED  BY <1>1, <1>2 DEF PlaceBid

LEMMA RecheckSection ==
  ASSUME TypeOK, NEW c \in Chats, Recheck(c) \/ Store(c) \/ Publish(c)
  PROVE  \A d \in Chats, l \in Lots : InSection(d, l)' <=> InSection(d, l)
  BY StaySection DEF Recheck, Store, Publish, Critical

LEMMA TryLockCases ==
  ASSUME TypeOK, NEW c \in Chats, NEW k, k = req[c].lot, TryLock(c)
  PROVE  /\ k \in Lots
         /\ \/ /\ lock[k] = Free /\ lock' = [lock EXCEPT ![k] = c]
               /\ \A d \in Chats, l \in Lots :
                    InSection(d, l)' <=> (InSection(d, l) \/ (d = c /\ k = l))
            \/ /\ UNCHANGED lock
               /\ \A d \in Chats, l \in Lots : InSection(d, l)' <=> InSection(d, l)
<1>1. k \in Lots
  BY RequestTyped DEF TryLock
<1>2. CASE /\ lock[k] = Free
           /\ lock' = [lock EXCEPT ![k] = c]
           /\ pc' = [pc EXCEPT ![c] = "recheck"]
           /\ UNCHANGED req
  BY <1>1, <1>2, EnterSection
<1>3. CASE Return(c, "busy") /\ UNCHANGED lock
  BY <1>1, <1>3, ReturnSection DEF TryLock, InSection, Critical
<1> QED  BY <1>2, <1>3 DEF TryLock

LEMMA HolderStep ==
  ASSUME TypeOK, HolderInside, Stalls = FALSE, [Next]_vars
  PROVE  HolderInside'
<1>1. ASSUME NEW l \in Lots, Hydrate(l) PROVE HolderInside'
  BY <1>1 DEF Hydrate, HydrateWith, HolderInside, InSection
<1>2. ASSUME NEW l \in Lots, Expire(l) PROVE HolderInside'
  BY <1>2 DEF Expire, TypeOK, HolderInside, InSection
<1>3. ASSUME NEW c \in Chats, NEW l \in Lots, NEW a \in Amounts, PlaceBid(c, l, a)
      PROVE  HolderInside'
  BY <1>3, PlaceBidSection DEF PlaceBid, HolderInside
<1>4. ASSUME NEW c \in Chats, TryLock(c) PROVE HolderInside'
  <2> DEFINE k == req[c].lot
  <2>1. CASE /\ k \in Lots /\ lock[k] = Free /\ lock' = [lock EXCEPT ![k] = c]
             /\ \A d \in Chats, l \in Lots :
                  InSection(d, l)' <=> (InSection(d, l) \/ (d = c /\ k = l))
    BY <2>1, BidAssumption DEF HolderInside, TypeOK, Free
  <2>2. CASE /\ UNCHANGED lock
             /\ \A d \in Chats, l \in Lots : InSection(d, l)' <=> InSection(d, l)
    BY <2>2 DEF HolderInside
  <2> QED  BY <1>4, <2>1, <2>2, TryLockCases
<1>5. ASSUME NEW c \in Chats, AcquireFails(c) PROVE HolderInside'
  <2>1. req[c].lot \in Lots /\ Return(c, "busy")
    BY <1>5, RequestTyped DEF AcquireFails
  <2>2. \A d \in Chats, l \in Lots : InSection(d, l)' => InSection(d, l)
    BY <2>1, ReturnSection
  <2> QED  BY <1>5, <2>1, <2>2, BidAssumption DEF AcquireFails, HolderInside, TypeOK, Free
<1>6. ASSUME NEW c \in Chats, Recheck(c) \/ Store(c) \/ Publish(c) PROVE HolderInside'
  BY <1>6, RecheckSection DEF Recheck, Store, Publish, HolderInside
<1>7. ASSUME NEW c \in Chats, Release(c) PROVE HolderInside'
  <2>1. req[c].lot \in Lots /\ Return(c, reply[c])
    BY <1>7, RequestTyped DEF Release
  <2>2. \A d \in Chats, l \in Lots : InSection(d, l)' => d # c /\ InSection(d, l)
    BY <2>1, ReturnSection
  <2> QED  BY <1>7, <2>1, <2>2 DEF Release, HolderInside, TypeOK
<1>8. ASSUME NEW c \in Chats, ReleaseFails(c) PROVE HolderInside'
  BY <1>8, ReturnSection DEF ReleaseFails, HolderInside
<1>9. ASSUME NEW l \in Lots, NEW n \in 1 .. MaxBids, InsertDone(l, n) \/ InsertFails(l, n)
      PROVE  HolderInside'
  BY <1>9 DEF InsertDone, InsertFails, HolderInside, InSection
<1>10. CASE UNCHANGED vars
  BY <1>10 DEF vars, HolderInside, InSection
<1> QED  BY <1>1, <1>2, <1>3, <1>4, <1>5, <1>6, <1>7, <1>8, <1>9, <1>10
         DEF Next, Bidder, Database

\* While no section outlives its key, two chats are never between Acquire and
\* Release of the same lot, whatever calls fail.
THEOREM LockExcludes == ASSUME Stalls = FALSE PROVE Spec => []MutualExclusion
<1>1. Init => TypeOK /\ HolderInside
  BY InitType DEF Init, HolderInside, InSection, Critical
<1>2. TypeOK /\ HolderInside /\ [Next]_vars => (TypeOK /\ HolderInside)'
  BY NextType, HolderStep
<1>3. HolderInside => MutualExclusion
  BY DEF HolderInside, MutualExclusion
<1> QED  BY <1>1, <1>2, <1>3, PTL DEF Spec

\* With no failed call no lot is left locked by a PlaceBid that has returned,
\* even when sections outlive their keys.
THEOREM LockNotLeaked == ASSUME Faults = FALSE PROVE Spec => []NoLockLeak
<1>1. Init => TypeOK /\ NoLockLeak
  BY InitType DEF Init, NoLockLeak
<1>2. TypeOK /\ NoLockLeak /\ [Next]_vars => (TypeOK /\ NoLockLeak)'
  <2> SUFFICES ASSUME TypeOK, NoLockLeak, [Next]_vars PROVE NoLockLeak'
    BY NextType
  <2>1. ASSUME NEW l \in Lots, Hydrate(l) PROVE NoLockLeak'
    BY <2>1 DEF Hydrate, HydrateWith, NoLockLeak, InSection
  <2>2. ASSUME NEW l \in Lots, Expire(l) PROVE NoLockLeak'
    BY <2>2 DEF Expire, TypeOK, NoLockLeak, InSection
  <2>3. ASSUME NEW c \in Chats, NEW l \in Lots, NEW a \in Amounts, PlaceBid(c, l, a)
        PROVE  NoLockLeak'
    BY <2>3, PlaceBidSection DEF PlaceBid, NoLockLeak, TypeOK, Free
  <2>4. ASSUME NEW c \in Chats, TryLock(c) PROVE NoLockLeak'
    <3> DEFINE k == req[c].lot
    <3>1. CASE /\ k \in Lots /\ lock[k] = Free /\ lock' = [lock EXCEPT ![k] = c]
               /\ \A d \in Chats, l \in Lots :
                    InSection(d, l)' <=> (InSection(d, l) \/ (d = c /\ k = l))
      BY <3>1 DEF NoLockLeak, TypeOK, Free
    <3>2. CASE /\ UNCHANGED lock
               /\ \A d \in Chats, l \in Lots : InSection(d, l)' <=> InSection(d, l)
      BY <3>2 DEF NoLockLeak, TypeOK, Free
    <3> QED  BY <2>4, <3>1, <3>2, TryLockCases
  <2>5. ASSUME NEW c \in Chats, Recheck(c) \/ Store(c) \/ Publish(c) PROVE NoLockLeak'
    BY <2>5, RecheckSection DEF Recheck, Store, Publish, NoLockLeak, TypeOK, Free
  <2>6. ASSUME NEW c \in Chats, Release(c) PROVE NoLockLeak'
    <3>1. /\ req[c].lot \in Lots /\ pc[c] = "release" /\ Return(c, reply[c])
          /\ lock' = IF lock[req[c].lot] = c THEN [lock EXCEPT ![req[c].lot] = Free] ELSE lock
      BY <2>6, RequestTyped DEF Release
    <3>2. \A d \in Chats, l \in Lots : d # c /\ InSection(d, l) => InSection(d, l)'
      BY <3>1, ReturnSection
    <3>3. \A l \in Lots : lock[l] = c => l = req[c].lot
      BY BidAssumption DEF NoLockLeak, InSection, Free
    <3> QED  BY <3>1, <3>2, <3>3 DEF NoLockLeak, TypeOK, Free
  <2>7. ASSUME NEW l \in Lots, NEW n \in 1 .. MaxBids, InsertDone(l, n) \/ InsertFails(l, n)
        PROVE  NoLockLeak'
    BY <2>7 DEF InsertDone, InsertFails, NoLockLeak, InSection
  <2>8. CASE UNCHANGED vars
    BY <2>8 DEF vars, NoLockLeak, InSection
  <2> QED  BY <2>1, <2>2, <2>3, <2>4, <2>5, <2>6, <2>7, <2>8
           DEF Next, Bidder, Database, AcquireFails, ReleaseFails
<1> QED  BY <1>1, <1>2, PTL DEF Spec

\* With no failed call, only a bidder who meets another inside the section of
\* the same lot is told to try again.
THEOREM BusyJustified ==
  ASSUME Faults = FALSE
  PROVE  Spec => BusyMeansContended
<1>1. TypeOK /\ NoLockLeak /\ [Next]_vars => BusyRightly
  <2> SUFFICES ASSUME TypeOK, NoLockLeak, [Next]_vars, NEW c \in Chats,
                      pc[c] = "acquire", pc'[c] = "idle"
               PROVE  \E d \in Chats \ {c} : InSection(d, req[c].lot)
    BY DEF BusyRightly
  <2>1. TryLock(c)
    <3>1. ASSUME NEW l \in Lots, Hydrate(l) \/ Expire(l) PROVE pc' = pc
      BY <3>1 DEF Hydrate, HydrateWith, Expire
    <3>2. ASSUME NEW d \in Chats, Bidder(d) PROVE d = c
      BY <3>2 DEF Bidder, PlaceBid, TryLock, AcquireFails, Recheck, Store, Publish, Release,
                  ReleaseFails, Return, TypeOK
    <3>3. ASSUME Database \/ UNCHANGED vars PROVE pc' = pc
      BY <3>3 DEF Database, InsertDone, InsertFails, vars
    <3>4. Bidder(c)
      BY <3>1, <3>2, <3>3 DEF Next
    <3> QED  BY <3>4 DEF Bidder, PlaceBid, AcquireFails, Recheck, Store, Publish, Release,
                         ReleaseFails
  <2>2. lock[req[c].lot] # Free
    BY <2>1 DEF TryLock, TypeOK
  <2>3. req[c].lot \in Lots
    BY RequestTyped
  <2>4. lock[req[c].lot] \in Chats /\ InSection(lock[req[c].lot], req[c].lot)
    BY <2>2, <2>3 DEF NoLockLeak, TypeOK
  <2> QED  BY <2>4 DEF InSection, Critical
<1> QED  BY <1>1, TypeCorrect, LockNotLeaked, PTL DEF Spec, BusyMeansContended

\* Whatever stalls and fails, a key leaves Redis only in the Release of the
\* chat that set it, or by its TTL.
THEOREM ReleaseIsOwn == Spec => NoForeignRelease
<1>1. TypeOK /\ [Next]_vars => KeyLeavesRightly
  <2> DEFINE Rightly(k) == \/ /\ InSection(lock[k], k)
                              /\ pc[lock[k]] = "release"
                              /\ pc'[lock[k]] = "idle"
                           \/ UNCHANGED <<pc, cache>>
  <2> SUFFICES ASSUME TypeOK, [Next]_vars, NEW k \in Lots,
                      lock[k] # Free, lock'[k] # lock[k]
               PROVE  Rightly(k)
    BY DEF KeyLeavesRightly
  <2> USE DEF InSection, Critical
  <2>1. ASSUME NEW l \in Lots, Hydrate(l) \/ Expire(l) PROVE Rightly(k)
    BY <2>1 DEF Hydrate, HydrateWith, Expire
  <2>2. ASSUME NEW c \in Chats, Bidder(c) PROVE Rightly(k)
    <3>1. CASE Release(c)
      BY <3>1 DEF Release, Return, TypeOK
    <3>2. CASE TryLock(c) \/ AcquireFails(c)
      BY <3>2 DEF TryLock, AcquireFails, TypeOK
    <3> QED  BY <2>2, <3>1, <3>2 DEF Bidder, PlaceBid, Recheck, Store, Publish, ReleaseFails
  <2>3. CASE Database
    BY <2>3 DEF Database, InsertDone, InsertFails
  <2> QED  BY <2>1, <2>2, <2>3 DEF Next, vars
<1> QED  BY <1>1, TypeCorrect, PTL DEF Spec, NoForeignRelease
-----------------------------------------------------------------------------
(***************************************************************************)
(* The price.                                                              *)
(***************************************************************************)
LEMMA NoWrap ==
  ASSUME NoOverflow, NEW s \in LotState, s.max \in Amounts \union {StartPrice}, NEW a \in Int
  PROVE  TooLow(a, s) <=> a < s.max + BidStep
<1>1. s.max \in Int /\ BidStep \in Int /\ MaxInt \in Int /\ s.max + BidStep <= MaxInt
  BY BidAssumption DEF NoOverflow, LotState
<1> QED  BY <1>1 DEF TooLow, Plus

\* The last bid of a lot is its highest, so a bid above the cached price tops
\* every earlier one.
LEMMA AppendedTops ==
  ASSUME TypeOK, OneWinnerPerPrice, NoLostUpdate, NEW l \in hydrated, NEW bid \in Bid,
         bid.amount >= cache[l].max + BidStep
  PROVE  \A i \in 1 .. Len(bids[l]) : bid.amount >= bids[l][i].amount + BidStep
<1> SUFFICES ASSUME NEW i \in 1 .. Len(bids[l])
             PROVE  bid.amount >= bids[l][i].amount + BidStep
  OBVIOUS
<1> DEFINE m == Len(bids[l])
<1>1. l \in Lots /\ bids[l] \in Seq(Bid) /\ m \in Nat /\ m \in 1 .. m
  BY DEF TypeOK
<1>2. bids[l][i].amount \in Int /\ bids[l][m].amount \in Int /\ bid.amount \in Int
      /\ BidStep \in Nat
  <2>1. bids[l][i] \in Bid /\ bids[l][m] \in Bid
    BY <1>1
  <2>2. \A a \in Amounts : a \in Int
    BY BidAssumption
  <2>3. /\ bids[l][i].amount \in Amounts
        /\ bids[l][m].amount \in Amounts
        /\ bid.amount \in Amounts
    BY <2>1 DEF Bid
  <2>4. BidStep \in Nat
    BY BidAssumption
  <2> QED  BY <2>2, <2>3, <2>4
<1>3. cache[l].max = bids[l][m].amount
  <2>1. bids[l] # <<>>
    BY <1>1
  <2> QED  BY <2>1 DEF NoLostUpdate
<1>4. bids[l][m].amount >= bids[l][i].amount
  <2>1. CASE i = m
    BY <2>1, <1>2
  <2>2. CASE i < m
    <3>1. bids[l][m].amount >= bids[l][i].amount + BidStep
      BY <2>2, <1>1 DEF OneWinnerPerPrice
    <3> QED  BY <3>1, <1>2
  <2> QED  BY <2>1, <2>2, <1>1
<1> QED  BY <1>2, <1>3, <1>4

LEMMA StorePrice ==
  ASSUME TypeOK, PriceInv, NEW c \in Chats, Store(c), HolderInside'
  PROVE  PriceInv'
<1> DEFINE l == req[c].lot
           n == Len(bids[l]) + 1
           bid == [chat |-> c, amount |-> req[c].amount]
           state == [max |-> req[c].amount, bid |-> n, chat |-> c,
                     count |-> seen[c].count + 1]
<1>1. /\ pc[c] = "store" /\ l \in Lots /\ l \in hydrated /\ req[c].amount \in Amounts
      /\ bid \in Bid /\ bids[l] \in Seq(Bid) /\ Len(bids[l]) \in Nat
      /\ UNCHANGED <<hydrated, req>>
      /\ InSection(c, l)
  <2>1. pc[c] = "store" /\ UNCHANGED <<hydrated, req>>
    BY DEF Store
  <2>2. l \in Lots /\ req[c].amount \in Amounts
    BY <2>1, RequestTyped
  <2>3. l \in hydrated
    BY <2>1 DEF PriceInv, InFlightHydrated
  <2>4. bid \in Bid
    BY <2>2 DEF Bid
  <2>5. bids[l] \in Seq(Bid) /\ Len(bids[l]) \in Nat
    BY <2>2 DEF TypeOK
  <2>6. InSection(c, l)
    BY <2>1 DEF InSection, Critical
  <2> QED  BY <2>1, <2>2, <2>3, <2>4, <2>5, <2>6
<1>2. /\ bids' = [bids EXCEPT ![l] = Append(bids[l], bid)]
      /\ cache' = [cache EXCEPT ![l] = state]
      /\ seen' = [seen EXCEPT ![c] = state]
      /\ pc' = [pc EXCEPT ![c] = "publish"]
  BY DEF Store
<1>3. /\ bids'[l] = Append(bids[l], bid) /\ cache'[l] = state
      /\ \A k \in Lots \ {l} : bids'[k] = bids[k] /\ cache'[k] = cache[k]
      /\ pc'[c] = "publish" /\ seen'[c] = state
      /\ \A d \in Chats \ {c} : pc'[d] = pc[d] /\ seen'[d] = seen[d]
  BY <1>1, <1>2 DEF TypeOK
<1>4. /\ Len(bids'[l]) = n /\ bids'[l][n] = bid /\ bids'[l] # <<>>
      /\ \A i \in 1 .. Len(bids[l]) : bids'[l][i] = bids[l][i]
  BY <1>1, <1>3
<1>5. \A d \in Chats \ {c} : pc[d] \in Critical => req[d].lot # l
  <2> SUFFICES ASSUME NEW d \in Chats \ {c}, pc[d] \in Critical, req[d].lot = l PROVE FALSE
    OBVIOUS
  <2>1. InSection(d, l)
    BY DEF InSection
  <2> QED  BY <2>1, <1>1 DEF PriceInv, HolderInside
<1>6. \A d \in Chats \ {c} : pc[d] # "idle" => req[d].lot \in Lots
  BY RequestTyped
<1>7. OneWinnerPerPrice'
  <2>1. \A i \in 1 .. Len(bids[l]) : bid.amount >= bids[l][i].amount + BidStep
    <3>1. bid.amount >= cache[l].max + BidStep
      BY <1>1 DEF PriceInv, StoreTopsPrice
    <3> QED  BY <3>1, <1>1, AppendedTops DEF PriceInv
  <2> SUFFICES ASSUME NEW k \in Lots, NEW i \in 1 .. Len(bids'[k]), NEW j \in 1 .. Len(bids'[k]),
                      i < j
               PROVE  bids'[k][j].amount >= bids'[k][i].amount + BidStep
    BY DEF OneWinnerPerPrice
  <2>2. CASE k # l
    BY <2>2, <1>3 DEF PriceInv, OneWinnerPerPrice
  <2>3. CASE k = l /\ j = n
    <3>1. i \in 1 .. Len(bids[l])
      BY <2>3, <1>1, <1>4
    <3> QED  BY <3>1, <2>1, <2>3, <1>4
  <2>4. CASE k = l /\ j # n
    <3>1. i \in 1 .. Len(bids[l]) /\ j \in 1 .. Len(bids[l])
      BY <2>4, <1>1, <1>4
    <3> QED  BY <3>1, <2>4, <1>1, <1>4 DEF PriceInv, OneWinnerPerPrice
  <2> QED  BY <2>2, <2>3, <2>4
<1>8. NoLostUpdate'
  <2>1. seen[c].count = Len(bids[l])
    BY <1>1 DEF PriceInv, SeenIsFresh, NoLostUpdate
  <2> SUFFICES ASSUME NEW k \in hydrated
               PROVE  /\ cache'[k].count = Len(bids'[k])
                      /\ cache'[k].bid = Len(bids'[k])
                      /\ bids'[k] = <<>> => cache'[k].max = StartPrice /\ cache'[k].chat = NoChat
                      /\ bids'[k] # <<>> => /\ cache'[k].max = bids'[k][Len(bids'[k])].amount
                                            /\ cache'[k].chat = bids'[k][Len(bids'[k])].chat
    BY <1>1 DEF NoLostUpdate
  <2>2. CASE k = l
    BY <2>1, <2>2, <1>3, <1>4
  <2>3. CASE k # l
    <3>1. k \in Lots
      BY DEF TypeOK
    <3> QED  BY <2>3, <3>1, <1>3 DEF PriceInv, NoLostUpdate
  <2> QED  BY <2>2, <2>3
<1>9. SeenIsFresh' /\ StoreTopsPrice'
  BY <1>1, <1>3, <1>5, <1>6 DEF PriceInv, SeenIsFresh, StoreTopsPrice, Critical
<1>10. ClosedUntouched' /\ InFlightHydrated'
  BY <1>1, <1>3 DEF PriceInv, ClosedUntouched, InFlightHydrated
<1>11. PriceKnown'
  <2> SUFFICES ASSUME NEW k \in hydrated PROVE cache'[k].max \in Amounts \union {StartPrice}
    BY <1>1 DEF PriceKnown
  <2>1. CASE k = l
    BY <2>1, <1>1, <1>3
  <2>2. CASE k # l
    <3>1. k \in Lots
      BY DEF TypeOK
    <3> QED  BY <2>2, <3>1, <1>3 DEF PriceInv, PriceKnown
  <2> QED  BY <2>1, <2>2
<1> QED  BY <1>7, <1>8, <1>9, <1>10, <1>11 DEF PriceInv

LEMMA HydratePrice ==
  ASSUME TypeOK, PriceInv, NEW l \in Lots, Hydrate(l), HolderInside'
  PROVE  PriceInv'
<1>1. /\ l \notin hydrated /\ hydrated' = hydrated \union {l}
      /\ UNCHANGED <<bids, pc, req, seen>>
      /\ bids[l] = <<>> /\ cache[l] = ZeroState
      /\ cache'[l].max = StartPrice /\ cache'[l].bid = 0 /\ cache'[l].chat = NoChat
      /\ cache'[l].count = 0
      /\ \A k \in Lots \ {l} : cache'[k] = cache[k]
  BY DEF Hydrate, HydrateWith, TypeOK, PriceInv, ClosedUntouched, ZeroState
<1>2. OneWinnerPerPrice'
  BY <1>1 DEF PriceInv, OneWinnerPerPrice
<1>3. NoLostUpdate'
  <2>1. Len(bids[l]) = 0
    BY <1>1
  <2> QED  BY <1>1, <2>1 DEF PriceInv, NoLostUpdate, TypeOK
<1>4. SeenIsFresh' /\ StoreTopsPrice'
  <2>1. \A c \in Chats : pc[c] # "idle" => req[c].lot # l /\ req[c].lot \in Lots
    BY <1>1, RequestTyped DEF PriceInv, InFlightHydrated
  <2> QED  BY <1>1, <2>1 DEF PriceInv, SeenIsFresh, StoreTopsPrice
<1>5. ClosedUntouched' /\ InFlightHydrated' /\ PriceKnown'
  BY <1>1 DEF PriceInv, ClosedUntouched, InFlightHydrated, PriceKnown, TypeOK
<1> QED  BY <1>2, <1>3, <1>4, <1>5 DEF PriceInv

\* A step that leaves the cache and the bids alone, and lets no chat reach
\* "store" or "publish", keeps the price invariant.
LEMMA QuietPrice ==
  ASSUME TypeOK, PriceInv, HolderInside', UNCHANGED <<hydrated, cache, bids>>,
         \A c \in Chats : pc'[c] \in {"store", "publish"} =>
            pc'[c] = pc[c] /\ req'[c] = req[c] /\ seen'[c] = seen[c],
         \A c \in Chats : pc'[c] # "idle" => req'[c].lot \in hydrated
  PROVE  PriceInv'
  BY DEF PriceInv, OneWinnerPerPrice, NoLostUpdate, SeenIsFresh, StoreTopsPrice,
         ClosedUntouched, InFlightHydrated, PriceKnown

LEMMA PriceStep ==
  ASSUME NoOverflow, Stalls = FALSE, TypeOK, PriceInv, [Next]_vars
  PROVE  PriceInv'
<1>1. HolderInside'
  BY HolderStep DEF PriceInv
<1>2. ASSUME NEW l \in Lots, Hydrate(l) PROVE PriceInv'
  BY <1>1, <1>2, HydratePrice
<1>3. ASSUME NEW c \in Chats, NEW l \in Lots, NEW a \in Amounts, PlaceBid(c, l, a)
      PROVE  PriceInv'
  <2>1. CASE Return(c, "noAuction") \/ Return(c, "tooLow")
    BY <1>1, <1>3, <2>1, QuietPrice DEF PlaceBid, Return, TypeOK, PriceInv, InFlightHydrated
  <2>2. CASE /\ l \in hydrated
             /\ pc' = [pc EXCEPT ![c] = "acquire"]
             /\ req' = [req EXCEPT ![c] = [lot |-> l, amount |-> a]]
             /\ UNCHANGED seen
    BY <1>1, <1>3, <2>2, QuietPrice DEF PlaceBid, TypeOK, PriceInv, InFlightHydrated
  <2> QED  BY <1>3, <2>1, <2>2 DEF PlaceBid
<1>4. ASSUME NEW c \in Chats, TryLock(c) \/ AcquireFails(c) PROVE PriceInv'
  <2>1. pc[c] = "acquire" /\ UNCHANGED <<hydrated, cache, bids>>
    BY <1>4 DEF TryLock, AcquireFails
  <2>2. CASE Return(c, "busy")
    BY <1>1, <2>1, <2>2, QuietPrice DEF Return, TypeOK, PriceInv, InFlightHydrated
  <2>3. CASE pc' = [pc EXCEPT ![c] = "recheck"] /\ UNCHANGED <<req, seen>>
    BY <1>1, <2>1, <2>3, QuietPrice DEF TypeOK, PriceInv, InFlightHydrated
  <2> QED  BY <1>4, <2>2, <2>3 DEF TryLock, AcquireFails
<1>5. ASSUME NEW c \in Chats, Recheck(c) PROVE PriceInv'
  <2> DEFINE l == req[c].lot
  <2>1. /\ pc[c] = "recheck" /\ UNCHANGED <<hydrated, cache, bids, req>>
        /\ l \in Lots /\ l \in hydrated /\ req[c].amount \in Int
    <3>1. \A a \in Amounts : a \in Int
      BY BidAssumption
    <3> QED  BY <1>5, <3>1, RequestTyped DEF Recheck, PriceInv, InFlightHydrated
  <2>2. CASE pc' = [pc EXCEPT ![c] = "release"] /\ UNCHANGED seen
    BY <1>1, <2>1, <2>2, QuietPrice DEF TypeOK, PriceInv, InFlightHydrated
  <2>3. CASE /\ ~TooLow(req[c].amount, cache[l])
             /\ pc' = [pc EXCEPT ![c] = "store"]
             /\ seen' = [seen EXCEPT ![c] = cache[l]]
    <3>1. cache[l] \in LotState /\ cache[l].max \in Amounts \union {StartPrice}
      BY <2>1 DEF TypeOK, PriceInv, PriceKnown
    <3>2. ~(req[c].amount < cache[l].max + BidStep)
      BY <2>1, <2>3, <3>1, NoWrap
    <3>3. cache[l].max \in Int /\ BidStep \in Int
      BY <3>1, BidAssumption DEF LotState
    <3>4. req[c].amount >= cache[l].max + BidStep
      BY <2>1, <3>2, <3>3
    <3> QED  BY <1>1, <2>1, <2>3, <3>4
             DEF TypeOK, PriceInv, OneWinnerPerPrice, NoLostUpdate, SeenIsFresh,
                 StoreTopsPrice, ClosedUntouched, InFlightHydrated, PriceKnown
  <2> QED  BY <1>5, <2>2, <2>3 DEF Recheck
<1>6. ASSUME NEW c \in Chats, Store(c) PROVE PriceInv'
  BY <1>1, <1>6, StorePrice
<1>7. ASSUME NEW c \in Chats, Publish(c) PROVE PriceInv'
  BY <1>1, <1>7, QuietPrice DEF Publish, TypeOK, PriceInv, InFlightHydrated
<1>8. ASSUME NEW c \in Chats, Release(c) \/ ReleaseFails(c) PROVE PriceInv'
  <2>1. Return(c, reply[c]) /\ UNCHANGED <<hydrated, cache, bids>>
    BY <1>8 DEF Release, ReleaseFails
  <2> QED  BY <1>1, <2>1, QuietPrice DEF Return, TypeOK, PriceInv, InFlightHydrated
<1>9. CASE \/ \E l \in Lots : Expire(l)
           \/ Database
           \/ UNCHANGED vars
  <2>1. UNCHANGED <<hydrated, cache, bids, pc, req, seen>>
    BY <1>9 DEF Expire, Database, InsertDone, InsertFails, vars
  <2> QED  BY <1>1, <2>1, QuietPrice DEF PriceInv, InFlightHydrated
<1> QED  BY <1>2, <1>3, <1>4, <1>5, <1>6, <1>7, <1>8, <1>9 DEF Next, Bidder

LEMMA PriceInit == Init => TypeOK /\ PriceInv
  BY InitType DEF Init, PriceInv, HolderInside, OneWinnerPerPrice, NoLostUpdate, SeenIsFresh,
     StoreTopsPrice, ClosedUntouched, InFlightHydrated, PriceKnown, InSection, Critical

LEMMA PriceInvariant ==
  ASSUME Stalls = FALSE, NoOverflow
  PROVE  Spec => [](TypeOK /\ PriceInv)
<1>1. Init => TypeOK /\ PriceInv
  BY PriceInit
<1>2. TypeOK /\ PriceInv /\ [Next]_vars => (TypeOK /\ PriceInv)'
  BY NextType, PriceStep
<1> QED  BY <1>1, <1>2, PTL DEF Spec

\* While no section outlives its key and no price wraps, every accepted bid
\* tops all earlier ones by the step.
THEOREM PriceCorrect ==
  ASSUME Stalls = FALSE, NoOverflow
  PROVE  Spec => []OneWinnerPerPrice
<1>1. PriceInv => OneWinnerPerPrice
  BY DEF PriceInv
<1> QED  BY <1>1, PriceInvariant, PTL

\* Under the same conditions the cache is the last accepted bid and counts all
\* of them.
THEOREM NothingLost ==
  ASSUME Stalls = FALSE, NoOverflow
  PROVE  Spec => []NoLostUpdate
<1>1. PriceInv => NoLostUpdate
  BY DEF PriceInv
<1> QED  BY <1>1, PriceInvariant, PTL

-----------------------------------------------------------------------------
(***************************************************************************)
(* The events and the notices.                                             *)
(***************************************************************************)
LEMMA AloneInSection ==
  ASSUME HolderInside, NEW l \in Lots, NEW c \in Chats, NEW d \in Chats,
         InSection(c, l), InSection(d, l)
  PROVE  c = d
  BY DEF HolderInside

LEMMA QuietEvents ==
  ASSUME EventsInOrder, UNCHANGED <<bids, events>>,
         \A c \in Chats : /\ pc'[c] = "publish" <=> pc[c] = "publish"
                          /\ pc[c] = "publish" => req'[c] = req[c]
  PROVE  EventsInOrder'
<1>1. \A l \in Lots : Publishing(l)' <=> Publishing(l)
  BY DEF Publishing
<1> QED  BY <1>1 DEF EventsInOrder

LEMMA StoreEvents ==
  ASSUME TypeOK, PriceInv, EventsInOrder, NEW c \in Chats, Store(c)
  PROVE  EventsInOrder'
<1>0. PICK l \in Lots : l = req[c].lot
  BY RequestTyped DEF Store, Request
<1> DEFINE bid == [chat |-> c, amount |-> req[c].amount]
<1>1. /\ pc[c] = "store" /\ pc' = [pc EXCEPT ![c] = "publish"]
      /\ bids' = [bids EXCEPT ![l] = Append(@, bid)]
      /\ req' = req /\ events' = events /\ req[c].lot = l
      /\ bid \in Bid
  BY <1>0, RequestTyped DEF Store, Request, Bid
<1>2. pc'[c] = "publish" /\ \A d \in Chats \ {c} : pc'[d] = pc[d]
  BY <1>1 DEF TypeOK
<1>3. ~Publishing(l)
  <2>1. \A d \in Chats : InSection(d, l) => d = c
    BY <1>1, AloneInSection DEF PriceInv, InSection, Critical
  <2> QED  BY <1>1, <2>1 DEF Publishing, InSection, Critical
<1>4. Publishing(l)'
  BY <1>1, <1>2 DEF Publishing
<1>5. \A k \in Lots \ {l} : Publishing(k)' <=> Publishing(k)
  BY <1>1, <1>2 DEF Publishing
<1> HIDE DEF bid
<1>6. /\ bids[l] \in Seq(Bid) /\ Len(Append(bids[l], bid)) = Len(bids[l]) + 1
      /\ Len(bids[l]) \in Nat
      /\ bids'[l] = Append(bids[l], bid)
      /\ \A k \in Lots \ {l} : bids'[k] = bids[k]
  BY <1>1 DEF TypeOK
<1>7. Len(events[l]) = Len(bids'[l]) - 1
  BY <1>1, <1>3, <1>6 DEF EventsInOrder
<1> QED  BY <1>1, <1>4, <1>5, <1>6, <1>7 DEF EventsInOrder

LEMMA PublishEvents ==
  ASSUME TypeOK, PriceInv, EventsInOrder, NEW c \in Chats, Publish(c)
  PROVE  EventsInOrder'
<1>0. PICK l \in Lots : l = req[c].lot
  BY RequestTyped DEF Publish, Request
<1> DEFINE e == [bid |-> seen[c].bid, count |-> seen[c].count]
           n == Len(bids[l])
<1>1. /\ pc[c] = "publish" /\ pc' = [pc EXCEPT ![c] = "release"]
      /\ events' = [events EXCEPT ![l] = Append(@, e)]
      /\ req' = req /\ bids' = bids /\ req[c].lot = l
  BY <1>0 DEF Publish
<1>2. pc'[c] = "release" /\ \A d \in Chats \ {c} : pc'[d] = pc[d]
  BY <1>1 DEF TypeOK
<1>3. Publishing(l)
  BY <1>1 DEF Publishing
<1>4. ~Publishing(l)'
  <2>1. \A d \in Chats : InSection(d, l) => d = c
    BY <1>1, AloneInSection DEF PriceInv, InSection, Critical
  <2> QED  BY <1>1, <1>2, <2>1 DEF Publishing, InSection, Critical
<1>5. \A k \in Lots \ {l} : Publishing(k)' <=> Publishing(k)
  BY <1>1, <1>2 DEF Publishing
<1>6. n \in Nat /\ events[l] \in Seq([bid : Nat, count : Nat])
  BY <1>1 DEF TypeOK
<1>7. e = [bid |-> n, count |-> n]
  <2>1. seen[c] = cache[l] /\ l \in hydrated
    BY <1>1 DEF PriceInv, SeenIsFresh, InFlightHydrated
  <2> QED  BY <2>1 DEF PriceInv, NoLostUpdate
<1>8. e \in [bid : Nat, count : Nat]
  BY <1>6, <1>7
<1>9. Len(events[l]) = n - 1
  BY <1>1, <1>3 DEF EventsInOrder
<1> HIDE DEF n, e
<1>10. /\ events'[l] = Append(events[l], e)
       /\ \A k \in Lots \ {l} : events'[k] = events[k]
  BY <1>1 DEF TypeOK
<1>11. /\ Len(events'[l]) = n
       /\ events'[l][n] = e
       /\ \A i \in 1 .. n - 1 : events'[l][i] = events[l][i]
  BY <1>6, <1>8, <1>9, <1>10
<1>12. \A i \in 1 .. n : events'[l][i] = [bid |-> i, count |-> i]
  <2> TAKE i \in 1 .. n
  <2>1. CASE i = n
    BY <2>1, <1>7, <1>11
  <2>2. CASE i # n
    <3>1. i \in 1 .. n - 1
      BY <2>2, <1>6
    <3> QED  BY <3>1, <1>1, <1>9, <1>11 DEF EventsInOrder
  <2> QED  BY <2>1, <2>2
<1>13. n = Len(bids'[l]) /\ \A k \in Lots \ {l} : Len(bids'[k]) = Len(bids[k])
  BY <1>1 DEF n
<1> QED  BY <1>1, <1>4, <1>5, <1>10, <1>11, <1>12, <1>13 DEF EventsInOrder

\* While no section outlives its key and no price wraps, the events of a lot
\* are published in the order of its bids, none missing, each with its count.
THEOREM EventsOrdered ==
  ASSUME Stalls = FALSE, NoOverflow
  PROVE  Spec => []EventsInOrder
<1>1. Init => EventsInOrder
  BY DEF Init, EventsInOrder, Publishing
<1>2. TypeOK /\ PriceInv /\ EventsInOrder /\ [Next]_vars => EventsInOrder'
  <2> SUFFICES ASSUME TypeOK, PriceInv, EventsInOrder, [Next]_vars PROVE EventsInOrder'
    OBVIOUS
  <2>1. ASSUME NEW c \in Chats, NEW l \in Lots, NEW a \in Amounts, PlaceBid(c, l, a)
        PROVE  EventsInOrder'
    BY <2>1, QuietEvents DEF PlaceBid, Return, TypeOK
  <2>2. ASSUME NEW c \in Chats, TryLock(c) \/ AcquireFails(c) PROVE EventsInOrder'
    BY <2>2, QuietEvents DEF TryLock, AcquireFails, Return, TypeOK
  <2>3. ASSUME NEW c \in Chats, Recheck(c) PROVE EventsInOrder'
    BY <2>3, QuietEvents DEF Recheck, TypeOK
  <2>4. ASSUME NEW c \in Chats, Store(c) PROVE EventsInOrder'
    BY <2>4, StoreEvents
  <2>5. ASSUME NEW c \in Chats, Publish(c) PROVE EventsInOrder'
    BY <2>5, PublishEvents
  <2>6. ASSUME NEW c \in Chats, Release(c) \/ ReleaseFails(c) PROVE EventsInOrder'
    BY <2>6, QuietEvents DEF Release, ReleaseFails, Return, TypeOK
  <2>7. CASE \/ \E l \in Lots : Hydrate(l) \/ Expire(l)
             \/ Database
             \/ UNCHANGED vars
    <3>1. UNCHANGED <<bids, events, pc, req>>
      BY <2>7 DEF Hydrate, HydrateWith, Expire, Database, InsertDone, InsertFails, vars
    <3> QED  BY <3>1, QuietEvents
  <2> QED  BY <2>1, <2>2, <2>3, <2>4, <2>5, <2>6, <2>7 DEF Next, Bidder
<1> QED  BY <1>1, <1>2, PriceInvariant, PTL DEF Spec

LEMMA StoreTells ==
  ASSUME TypeOK, PriceInv, OutbidTold, NEW c \in Chats, Store(c)
  PROVE  OutbidTold'
<1>0. PICK l \in Lots : l = req[c].lot
  BY RequestTyped DEF Store, Request
<1> DEFINE n == Len(bids[l]) + 1
           bid == [chat |-> c, amount |-> req[c].amount]
<1>1. /\ pc[c] = "store" /\ l \in hydrated /\ bid \in Bid
      /\ bids' = [bids EXCEPT ![l] = Append(@, bid)]
      /\ notices' = notices \union Displaced(c, l, n, cache[l])
  <2>1. pc[c] = "store" /\ l \in hydrated /\ seen[c] = cache[l]
    BY <1>0, RequestTyped DEF Store, Request, PriceInv, SeenIsFresh, InFlightHydrated
  <2> QED  BY <1>0, <2>1, RequestTyped DEF Store, Request, Bid
<1>4. bid.chat = c
  OBVIOUS
<1> HIDE DEF bid
<1>2. /\ bids[l] \in Seq(Bid) /\ Len(bids[l]) \in Nat
      /\ bids'[l] = Append(bids[l], bid) /\ Len(bids'[l]) = n
      /\ bids'[l][n] = bid
      /\ \A i \in 1 .. Len(bids[l]) : bids'[l][i] = bids[l][i]
      /\ \A k \in Lots \ {l} : bids'[k] = bids[k]
  BY <1>1 DEF TypeOK
<1>3. Displaced(c, l, n, cache[l]) =
        {note \in [to : Chats, lot : {l}, bid : {n}] :
           n >= 2 /\ note.to = bids[l][n - 1].chat /\ note.to # c}
  <2>1. CASE bids[l] = <<>>
    <3>1. cache[l].chat = NoChat /\ n = 1
      BY <2>1, <1>1 DEF PriceInv, NoLostUpdate
    <3> QED  BY <3>1 DEF Displaced
  <2>2. CASE bids[l] # <<>>
    <3>1. n >= 2 /\ n - 1 = Len(bids[l]) /\ n - 1 \in 1 .. Len(bids[l])
      BY <2>2, <1>2
    <3>2. cache[l].chat = bids[l][n - 1].chat /\ cache[l].bid = n - 1 /\ cache[l].bid # 0
      BY <2>2, <3>1, <1>1 DEF PriceInv, NoLostUpdate
    <3>3. bids[l][n - 1].chat \in Chats /\ NoChat \notin Chats
      <4>1. bids[l][n - 1] \in Bid
        <5> HIDE DEF n
        <5> QED  BY <1>2, <3>1
      <4> QED  BY <4>1, BidAssumption DEF Bid
    <3>4. ASSUME NEW note
          PROVE  note \in Displaced(c, l, n, cache[l]) <=>
                   /\ note \in [to : Chats, lot : {l}, bid : {n}]
                   /\ note.to = bids[l][n - 1].chat /\ note.to # c
      <4> DEFINE x == bids[l][n - 1].chat
      <4>1. note \in Displaced(c, l, n, cache[l]) <=> note \in [to : {x}, lot : {l}, bid : {n}] /\ x # c
        BY <3>2, <3>3 DEF Displaced
      <4> HIDE DEF x, n
      <4>2. x \in Chats
        BY <3>3 DEF x
      <4>3. note \in [to : {x}, lot : {l}, bid : {n}] <=>
              note \in [to : Chats, lot : {l}, bid : {n}] /\ note.to = x
        BY <4>2
      <4> QED  BY <4>1, <4>3 DEF x
    <3> QED  BY <3>1, <3>4
  <2> QED  BY <2>1, <2>2
<1> DEFINE Told(k) == {note \in [to : Chats, lot : {k}, bid : 2 .. Len(bids[k])] :
                         /\ note.to = bids[k][note.bid - 1].chat
                         /\ note.to # bids[k][note.bid].chat}
           Now(k) == {note \in [to : Chats, lot : {k}, bid : 2 .. Len(bids'[k])] :
                         /\ note.to = bids'[k][note.bid - 1].chat
                         /\ note.to # bids'[k][note.bid].chat}
<1>5. \A k \in Lots : {note \in notices : note.lot = k} = Told(k)
  BY DEF OutbidTold
<1>6. \A k \in Lots \ {l} : {note \in notices' : note.lot = k} = Told(k) /\ Now(k) = Told(k)
  <2>1. \A note \in Displaced(c, l, n, cache[l]) : note.lot = l
    BY DEF Displaced
  <2> QED  BY <1>1, <1>2, <1>5, <2>1
<1>7. {note \in notices' : note.lot = l} = Now(l)
  <2>1. {note \in notices' : note.lot = l} = Told(l) \union Displaced(c, l, n, cache[l])
    BY <1>1, <1>5 DEF Displaced
  <2>2. Now(l) \subseteq Told(l) \union Displaced(c, l, n, cache[l])
    <3> SUFFICES ASSUME NEW note \in Now(l) PROVE note \in Told(l) \/ note \in Displaced(c, l, n, cache[l])
      OBVIOUS
    <3>1. /\ note \in [to : Chats, lot : {l}, bid : 2 .. n]
          /\ note.to = bids'[l][note.bid - 1].chat
          /\ note.to # bids'[l][note.bid].chat
      BY <1>2
    <3>2. CASE note.bid = n
      <4>1. n - 1 \in 1 .. Len(bids[l]) /\ n >= 2
        BY <3>1, <3>2, <1>2
      <4> QED  BY <3>1, <3>2, <4>1, <1>2, <1>3, <1>4
    <3>3. CASE note.bid # n
      <4>1. /\ note.bid \in 2 .. Len(bids[l])
            /\ note.bid \in 1 .. Len(bids[l]) /\ note.bid - 1 \in 1 .. Len(bids[l])
        BY <3>1, <3>3, <1>2
      <4>2. note \in [to : Chats, lot : {l}, bid : 2 .. Len(bids[l])]
        BY <3>1, <4>1
      <4> QED  BY <3>1, <4>1, <4>2, <1>2
    <3> QED  BY <3>2, <3>3
  <2>3. Told(l) \subseteq Now(l)
    <3> SUFFICES ASSUME NEW note \in Told(l) PROVE note \in Now(l)
      OBVIOUS
    <3>1. /\ note.bid \in 1 .. Len(bids[l]) /\ note.bid - 1 \in 1 .. Len(bids[l])
          /\ note.bid \in 2 .. n
      BY <1>2
    <3> QED  BY <3>1, <1>1, <1>2
  <2>4. Displaced(c, l, n, cache[l]) \subseteq Now(l)
    <3> SUFFICES ASSUME NEW note \in Displaced(c, l, n, cache[l]) PROVE note \in Now(l)
      OBVIOUS
    <3>1. n >= 2 /\ note \in [to : Chats, lot : {l}, bid : {n}]
          /\ note.to = bids[l][n - 1].chat /\ note.to # c
      BY <1>3
    <3>2. n - 1 \in 1 .. Len(bids[l]) /\ note.bid = n /\ n \in 2 .. n
      BY <3>1, <1>2
    <3>3. note \in [to : Chats, lot : {l}, bid : 2 .. n]
      BY <3>1, <3>2
    <3>4. note.to = bids'[l][note.bid - 1].chat /\ note.to # bids'[l][note.bid].chat
      <4>1. bids'[l][n - 1] = bids[l][n - 1] /\ bids'[l][n].chat = c
        BY <3>2, <1>2, <1>4
      <4> HIDE DEF n
      <4> QED  BY <3>1, <3>2, <4>1
    <3> HIDE DEF n
    <3> QED  BY <3>3, <3>4, <1>2
  <2> QED  BY <2>1, <2>2, <2>3, <2>4
<1>8. \A k \in Lots : {note \in notices' : note.lot = k} = Now(k)
  <2> HIDE DEF Told, Now
  <2> QED  BY <1>6, <1>7
<1> QED  BY <1>8 DEF OutbidTold

\* Under the same conditions every displaced bidder is told, and nobody else.
THEOREM DisplacedTold ==
  ASSUME Stalls = FALSE, NoOverflow
  PROVE  Spec => []OutbidTold
<1>1. Init => OutbidTold
  BY DEF Init, OutbidTold
<1>2. TypeOK /\ PriceInv /\ OutbidTold /\ [Next]_vars => OutbidTold'
  <2> SUFFICES ASSUME TypeOK, PriceInv, OutbidTold, [Next]_vars PROVE OutbidTold'
    OBVIOUS
  <2>1. CASE UNCHANGED <<bids, notices>>
    BY <2>1 DEF OutbidTold
  <2>2. ASSUME NEW c \in Chats, Store(c) PROVE OutbidTold'
    BY <2>2, StoreTells
  <2>3. ASSUME NEW c \in Chats, Bidder(c), ~Store(c) PROVE UNCHANGED <<bids, notices>>
    BY <2>3 DEF Bidder, PlaceBid, TryLock, AcquireFails, Recheck, Publish, Release, ReleaseFails
  <2>4. CASE \/ \E l \in Lots : Hydrate(l) \/ Expire(l)
             \/ Database
             \/ UNCHANGED vars
    BY <2>1, <2>4 DEF Hydrate, HydrateWith, Expire, Database, InsertDone, InsertFails, vars
  <2> QED  BY <2>1, <2>2, <2>3, <2>4 DEF Next
<1> QED  BY <1>1, <1>2, PriceInvariant, PTL DEF Spec

-----------------------------------------------------------------------------
(***************************************************************************)
(* The refinement of LotAuction.                                           *)
(***************************************************************************)

\* The step that raises the price, in the abstract auction's terms.
LEMMA StoreRaises ==
  ASSUME TypeOK, PriceInv, NEW c \in Chats, Store(c),
         NEW l \in Lots, NEW a \in Amounts, req[c].lot = l, req[c].amount = a
  PROVE  Auction!Raise(l, c, a)
<1> DEFINE n == Len(bids[l]) + 1
           state == [max |-> a, bid |-> n, chat |-> c,
                     count |-> seen[c].count + 1]
<1>1. /\ pc[c] = "store" /\ l \in hydrated /\ UNCHANGED hydrated
  BY DEF Store, PriceInv, InFlightHydrated
<1>2. a >= cache[l].max + BidStep
  BY <1>1 DEF PriceInv, StoreTopsPrice
<1>3. seen[c] = cache[l] /\ cache[l].count = Len(bids[l]) /\ cache[l].bid = Len(bids[l])
  BY <1>1 DEF PriceInv, SeenIsFresh, NoLostUpdate
<1>4. cache' = [cache EXCEPT ![l] = state] /\ hydrated' = hydrated
  BY DEF Store
<1>5. /\ [k \in Lots |-> cache'[k].max] = [[k \in Lots |-> cache[k].max] EXCEPT ![l] = a]
      /\ [k \in Lots |-> cache'[k].chat] = [[k \in Lots |-> cache[k].chat] EXCEPT ![l] = c]
      /\ [k \in Lots |-> cache'[k].count]
           = [[k \in Lots |-> cache[k].count] EXCEPT ![l] = cache[l].count + 1]
  BY <1>1, <1>3, <1>4 DEF TypeOK
<1>6. notices' = notices \union
        {note \in [to : {cache[l].chat}, lot : {l}, bid : {n}] : note.to \notin {NoChat, c}}
  <2>1. notices' = notices \union Displaced(c, l, n, cache[l])
    BY <1>3 DEF Store
  <2>2. cache[l].chat # NoChat => cache[l].bid # 0
    <3>1. bids[l] \in Seq(Bid)
      BY <1>1 DEF TypeOK
    <3>2. cache[l].chat # NoChat => bids[l] # <<>>
      BY <1>1 DEF PriceInv, NoLostUpdate
    <3> QED  BY <3>1, <3>2, <1>3
  <2>3. \A note \in [to : {cache[l].chat}, lot : {l}, bid : {n}] : note.to = cache[l].chat
    OBVIOUS
  <2>4. Displaced(c, l, n, cache[l])
          = {note \in [to : {cache[l].chat}, lot : {l}, bid : {n}] : note.to \notin {NoChat, c}}
    BY <2>2, <2>3 DEF Displaced
  <2> QED  BY <2>1, <2>4
<1>7. [k \in Lots |-> cache'[k].count][l] = n
  BY <1>1, <1>3, <1>4 DEF TypeOK
<1> QED  BY <1>1, <1>2, <1>4, <1>5, <1>6, <1>7 DEF Auction!Raise

LEMMA HydrateOpens ==
  ASSUME TypeOK, PriceInv, NEW l \in Lots, Hydrate(l)
  PROVE  Auction!Open(l)
<1>1. cache' = [cache EXCEPT ![l] = [max |-> StartPrice, bid |-> 0, chat |-> NoChat, count |-> 0]]
  BY DEF Hydrate, HydrateWith
<1>2. cache[l].chat = NoChat /\ cache[l].count = 0
  BY DEF PriceInv, ClosedUntouched, Hydrate, HydrateWith, ZeroState
<1>3. /\ [k \in Lots |-> cache'[k].max] = [[k \in Lots |-> cache[k].max] EXCEPT ![l] = StartPrice]
      /\ [k \in Lots |-> cache'[k].chat] = [k \in Lots |-> cache[k].chat]
      /\ [k \in Lots |-> cache'[k].count] = [k \in Lots |-> cache[k].count]
  BY <1>1, <1>2 DEF TypeOK
<1> QED  BY <1>3 DEF Auction!Open, Hydrate, HydrateWith

\* While no section outlives its key and no price wraps, the service is the
\* auction of LotAuction: a bid takes effect in Store, at once.
THEOREM Refinement ==
  ASSUME Stalls = FALSE, NoOverflow
  PROVE  Spec => ImplementsLotAuction
<1>1. Init => Auction!Init
  BY DEF Init, Auction!Init, ZeroState
<1>2. TypeOK /\ PriceInv /\ [Next]_vars => [Auction!Next]_(Auction!vars)
  <2> SUFFICES ASSUME TypeOK, PriceInv, [Next]_vars PROVE Auction!Next \/ UNCHANGED Auction!vars
    OBVIOUS
  <2>1. ASSUME NEW l \in Lots, Hydrate(l) PROVE Auction!Next
    BY <2>1, HydrateOpens DEF Auction!Next
  <2>2. ASSUME NEW c \in Chats, Store(c) PROVE Auction!Next
    <3>1. PICK l \in Lots, a \in Amounts : req[c].lot = l /\ req[c].amount = a
      BY <2>2, RequestTyped DEF Store
    <3>2. Auction!Raise(l, c, a)
      BY <2>2, <3>1, StoreRaises
    <3> QED  BY <3>2 DEF Auction!Next
  <2>3. CASE UNCHANGED <<hydrated, cache, notices>>
    BY <2>3 DEF Auction!vars
  <2>4. ASSUME NEW c \in Chats, Bidder(c), ~Store(c) PROVE UNCHANGED <<hydrated, cache, notices>>
    BY <2>4 DEF Bidder, PlaceBid, TryLock, AcquireFails, Recheck, Publish, Release, ReleaseFails
  <2>5. CASE Database \/ (\E l \in Lots : Expire(l)) \/ UNCHANGED vars
    BY <2>5, <2>3 DEF Database, InsertDone, InsertFails, Expire, vars
  <2> QED  BY <2>1, <2>2, <2>3, <2>4, <2>5 DEF Next
<1> QED  BY <1>1, <1>2, PriceInvariant, PTL DEF Spec, ImplementsLotAuction, Auction!Spec
=============================================================================
