----------------------------- MODULE AuctionHouse -----------------------------
(***************************************************************************)
(* What the auctions and their lots promise, with no handler, page, cache, *)
(* hub or crash: an auction that was started is never a draft again, its   *)
(* lots are numbered 1, 2, 3 with no gap, and a bid is on a lot, of that   *)
(* very auction, once it was started.  AuctionLifecycle is shown to        *)
(* implement it, for any number of admins on stale pages.                  *)
(***************************************************************************)
EXTENDS Naturals

CONSTANTS Auctions, MaxLots

VARIABLES known,    \* the auctions created
          status,   \* per auction: draft, active or ended
          lots,     \* per auction: the numbers of its lots
          accepted  \* the bids accepted: auction and lot, a lot with its auction

vars == <<known, status, lots, accepted>>

Init == /\ known = {}
        /\ status = [a \in Auctions |-> "draft"]
        /\ lots = [a \in Auctions |-> {}]
        /\ accepted = {}

Create(a) == /\ a \notin known
             /\ known' = known \union {a}
             /\ UNCHANGED <<status, lots, accepted>>

\* A page may be as old as the draft: an auction that has ended starts again.
Start(a) == /\ a \in known
            /\ status[a] # "active"
            /\ status' = [status EXCEPT ![a] = "active"]
            /\ UNCHANGED <<known, lots, accepted>>

End(a) == /\ status[a] = "active"
          /\ status' = [status EXCEPT ![a] = "ended"]
          /\ UNCHANGED <<known, lots, accepted>>

AddLot(a, n) == /\ a \in known
                /\ lots[a] = 1 .. n - 1
                /\ lots' = [lots EXCEPT ![a] = 1 .. n]
                /\ UNCHANGED <<known, status, accepted>>

Bid(a, n) == /\ status[a] # "draft"
             /\ n \in lots[a]
             /\ accepted' = accepted \union {<<a, <<a, n>>>>}
             /\ UNCHANGED <<known, status, lots>>

Next == \E a \in Auctions : \/ Create(a) \/ Start(a) \/ End(a)
                            \/ \E n \in 1 .. MaxLots : AddLot(a, n) \/ Bid(a, n)

Spec == Init /\ [][Next]_vars
=============================================================================
