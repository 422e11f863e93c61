----------------------------- MODULE MCDelivery -----------------------------
(***************************************************************************)
(* Small instances of Delivery for TLC.                                    *)
(***************************************************************************)
EXTENDS Delivery, TLC

PartsAlike == Permutations(Chats) \union Permutations(Workers)
=============================================================================
