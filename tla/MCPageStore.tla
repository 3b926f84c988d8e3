---------------------------- MODULE MCPageStore ----------------------------
(* One page; the limits are scaled down and keep their order. *)
EXTENDS PageStore, TLC

TurnSymmetry == Permutations(Turns)
=============================================================================
