-------------------------- MODULE MCClientDirectory --------------------------
(***************************************************************************)
(* Instances of ClientDirectory for TLC.                                   *)
(***************************************************************************)
EXTENDS ClientDirectory, TLC

Symmetry == Permutations(Chats) \union Permutations(Phones)
=============================================================================
