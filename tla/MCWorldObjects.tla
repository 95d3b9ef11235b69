---------------------------- MODULE MCWorldObjects ----------------------------
(* A small world, whose items are interchangeable. *)
EXTENDS WorldObjects, TLC

ItemSymmetry == Permutations(Items)
=============================================================================
