----------------------------- MODULE LotAuction -----------------------------
(***************************************************************************)
(* What one lot's bidding promises, with no cache, no lock and no          *)
(* concurrency: an open lot has a price and a leader, and a raise changes  *)
(* both, counts the round and tells the displaced leader in one step.      *)
(* BidPlacement is shown to implement it.                                  *)
(***************************************************************************)
EXTENDS Naturals

CONSTANTS Chats, Lots, StartPrice, BidStep, Amounts, NoChat

VARIABLES open,    \* the lots that take bids
          price,   \* the price to beat, per lot
          leader,  \* the chat that made it, per lot
          round,   \* how many bids the lot has accepted
          told     \* who was told which round displaced them

vars == <<open, price, leader, round, told>>

Init == /\ open = {}
        /\ price = [l \in Lots |-> 0]
        /\ leader = [l \in Lots |-> NoChat]
        /\ round = [l \in Lots |-> 0]
        /\ told = {}

Open(l) == /\ l \notin open
           /\ open' = open \union {l}
           /\ price' = [price EXCEPT ![l] = StartPrice]
           /\ UNCHANGED <<leader, round, told>>

Raise(l, c, a) ==
  /\ l \in open
  /\ a >= price[l] + BidStep
  /\ price' = [price EXCEPT ![l] = a]
  /\ leader' = [leader EXCEPT ![l] = c]
  /\ round' = [round EXCEPT ![l] = @ + 1]
  /\ told' = told \union {n \in [to : {leader[l]}, lot : {l}, bid : {round'[l]}] :
                            n.to \notin {NoChat, c}}
  /\ UNCHANGED open

Next == \E l \in Lots : \/ Open(l)
                        \/ \E c \in Chats, a \in Amounts : Raise(l, c, a)

Spec == Init /\ [][Next]_vars
=============================================================================
