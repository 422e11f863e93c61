---------------------------- MODULE MCChatSession ----------------------------
(***************************************************************************)
(* Instances of ChatSession for TLC.                                       *)
(***************************************************************************)
EXTENDS ChatSession, TLC

\* The auctions are alike.
Alike == Permutations(Auctions)
=============================================================================
