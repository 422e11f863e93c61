------------------------- MODULE MCAuctionLifecycle -------------------------
(***************************************************************************)
(* Small instances of AuctionLifecycle for TLC.                            *)
(***************************************************************************)
EXTENDS AuctionLifecycle, TLC

\* The auctions are alike, and so are the admins.
Alike == Permutations(Auctions) \union Permutations(Admins)
=============================================================================
