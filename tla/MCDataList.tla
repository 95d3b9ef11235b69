----------------------------- MODULE MCDataList -----------------------------
(***************************************************************************)
(* The list with a few interchangeable elements and nested loops, and what *)
(* regions and spawners keep in lists of that kind.  The two share nothing *)
(* here: each moves while the other is as it begins.                       *)
(***************************************************************************)
EXTENDS DataList, Spawns, TLC

ElementSymmetry == Permutations(Elements) \cup Permutations(Beasts)

ListsInit == Init /\ SpawnInit

ListsNext ==
  \/ SpawnInit /\ Next /\ UNCHANGED spawnVars
  \/ Init /\ SpawnNext /\ UNCHANGED vars

ListsSpec == ListsInit /\ [][ListsNext]_<<vars, spawnVars>>
=============================================================================
