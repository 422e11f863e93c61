----------------------------- MODULE MCLotDesk ------------------------------
(***************************************************************************)
(* Small instances of LotDesk for TLC.                                     *)
(***************************************************************************)
EXTENDS LotDesk, TLC

Bidders == Permutations(Chats)
=============================================================================
