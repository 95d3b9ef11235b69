------------------------------- MODULE MCEffects -------------------------------
EXTENDS Effects, TLC
TargetSymmetry == Permutations(Targets)
=============================================================================
