-------------------------------- MODULE MCHands --------------------------------
(* Things and players are interchangeable. *)
EXTENDS Hands, TLC

HandsSymmetry ==
  Permutations(Items) \cup Permutations(Players) \cup Permutations(Trades)

(* What nobody weighs more than: what is added and never taken off again   *)
(* adds up without end.                                                    *)
WeightBound == \A p \in Players : weight[p] <= 2
=============================================================================
