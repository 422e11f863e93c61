----------------------------- MODULE Conversation -----------------------------
(***************************************************************************)
(* What a user's talk with the bot promises, with no channel, no goroutine *)
(* and no bot: whatever a user writes is answered once at the most and by  *)
(* that user's chat; it is ignored only by a chat that has not come to its *)
(* menu, and lost only to a bot that was replaced; a choice alone changes  *)
(* the number, and a bid is on the lot of that number in the auction on    *)
(* offer.  ChatSession is shown to implement it.                           *)
(***************************************************************************)
EXTENDS Naturals

CONSTANTS Chats, Auctions, Lots, Kinds, MaxUpdates, NoAuction

VARIABLES wrote,     \* updates written so far
          due,       \* per user: the updates that are yet to be answered
          talking,   \* the users whose chat has come to its menu
          lot,       \* per user: the lot the chat is about, 0 when none
          auction,   \* the auction on offer, or the last that was
          open,      \* the numbers of its lots
          replaced,  \* was a bot ever replaced or disconnected?
          bids       \* each bid's number and auction, and the number the user meant

vars == <<wrote, due, talking, lot, auction, open, replaced, bids>>

NoLot == 0

Init == /\ wrote = 0
        /\ due = [c \in Chats |-> {}]
        /\ talking = {}
        /\ lot = [c \in Chats |-> NoLot]
        /\ auction \in Auctions \union {NoAuction}
        /\ open \subseteq Lots
        /\ replaced = FALSE
        /\ bids = {}

Write(c, k, n) ==
  /\ wrote < MaxUpdates
  /\ wrote' = wrote + 1
  /\ due' = [due EXCEPT ![c] = @ \union {[id |-> wrote', chat |-> c, kind |-> k, lot |-> n]}]
  /\ UNCHANGED <<talking, lot, auction, open, replaced, bids>>

Settle(c, u) == /\ u \in due[c]
                /\ due' = [due EXCEPT ![c] = @ \ {u}]
                /\ UNCHANGED <<wrote, talking, auction, open, replaced>>

Choose(c, u) == /\ c \in talking
                /\ u.kind \in {"lot", "back", "/start"}
                /\ Settle(c, u)
                /\ lot' = [lot EXCEPT ![c] = IF u.kind = "lot" THEN u.lot ELSE NoLot]
                /\ UNCHANGED bids

Bid(c, u) == /\ c \in talking
             /\ u.kind \in {"quick", "sum"}
             /\ lot[c] \in open
             /\ Settle(c, u)
             /\ bids' = bids \union {[lot |-> lot[c], auction |-> auction, meant |-> lot[c]]}
             /\ UNCHANGED lot

\* A bid that is refused or not recorded, and whatever is neither a choice
\* nor a bid.
Remark(c, u) == /\ c \in talking
                /\ u.kind \notin {"lot", "back", "/start"}
                /\ Settle(c, u)
                /\ UNCHANGED <<lot, bids>>

Ignore(c, u) == /\ c \notin talking
                /\ Settle(c, u)
                /\ UNCHANGED <<lot, bids>>

Lose(c, u) == /\ replaced
              /\ Settle(c, u)
              /\ UNCHANGED <<lot, bids>>

Enter(c) == /\ c \notin talking
            /\ talking' = talking \union {c}
            /\ UNCHANGED <<wrote, due, lot, auction, open, replaced, bids>>

Replace == /\ ~replaced
           /\ replaced' = TRUE
           /\ UNCHANGED <<wrote, due, talking, lot, auction, open, bids>>

Offer(a, L) == /\ auction' = a
               /\ open' = L
               /\ UNCHANGED <<wrote, due, talking, lot, replaced, bids>>

Next == \/ \E c \in Chats, k \in Kinds, n \in Lots \union {NoLot} : Write(c, k, n)
        \/ \E c \in Chats :
             \/ Enter(c)
             \/ \E u \in due[c] : \/ Choose(c, u) \/ Bid(c, u) \/ Remark(c, u)
                                  \/ Ignore(c, u) \/ Lose(c, u)
        \/ Replace
        \/ \E a \in Auctions \union {NoAuction}, L \in SUBSET Lots : Offer(a, L)

Spec == Init /\ [][Next]_vars
=============================================================================
