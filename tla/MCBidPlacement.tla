--------------------------- MODULE MCBidPlacement ---------------------------
(***************************************************************************)
(* Small instances of BidPlacement for TLC.                                *)
(***************************************************************************)
EXTENDS BidPlacement, TLC

Bidders == Permutations(Chats)
=============================================================================
