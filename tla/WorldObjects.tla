----------------------------- MODULE WorldObjects -----------------------------
(***************************************************************************)
(* The life of the objects of the world (CItem and CChar): where an object *)
(* is, which of the server's lists hold a pointer to it, and when its      *)
(* memory goes.                                                            *)
(*                                                                         *)
(*  - an item lies on the ground, inside another item or on a character    *)
(*    (CItem::SetCont, RemoveSelfFromCont, CChar::WearItem, TakeOffItem);  *)
(*  - each map cell lists the objects that stand in it (CMapHandler);      *)
(*  - a changed object joins cwmWorldState->refreshQueue, which the main   *)
(*    loop empties;                                                        *)
(*  - Delete cleans an object up, flags it and puts it on the              *)
(*    deletionQueue; CollectGarbage frees the memory, at the end of a      *)
(*    world save or on the administrators' command.                        *)
(*                                                                         *)
(* An object holds its coordinates, of which the model keeps the map cell  *)
(* they fall in; Overflow is the handler's cell for coordinates off the    *)
(* map, where CBaseObject::Cleanup sends a deleted object.  The modelled   *)
(* layers are those whose items weigh on their wearer; hair and beards,    *)
(* and the layerless trade windows, are left out.                          *)
(***************************************************************************)
EXTENDS Naturals, FiniteSets

CONSTANTS Items, Chars,   (* the objects                                     *)
          None,           (* the null pointer                                *)
          Cells,          (* the cells of the map                            *)
          Origin,         (* the cell of a new object's default coordinates  *)
          Overflow,       (* the handler's overFlow cell                     *)
          Layers,         (* what a character can wear an item on            *)
          DebugRegions,   (* DEBUG_REGIONS is defined when the code is built *)
          Commands,       (* administrators ask for garbage collections      *)
          Tweaks          (* the tweak menu and scripts relayer worn items   *)

Objects == Items \cup Chars
AllCells == Cells \cup {Overflow}

ASSUME ObjectsAssumption ==
  /\ Items \cap Chars = {}
  /\ None \notin Objects
  /\ IsFiniteSet(Objects)

ASSUME CellsAssumption == Origin \in Cells /\ Overflow \notin Cells

ASSUME BuildAssumption == {DebugRegions, Commands, Tweaks} \subseteq BOOLEAN

VARIABLES mem,            (* what the object's memory holds                  *)
          place,          (* the cell of the object's coordinates            *)
          cont,           (* an item's contObj                               *)
          contains,       (* an item's Contains list                         *)
          wears,          (* a character's itemLayers                        *)
          layer,          (* an item's layer                                 *)
          lists,          (* the item and character lists of the cells       *)
          refreshQueue,   (* objects to be sent to the clients again         *)
          deletionQueue   (* objects to be freed                             *)

vars == <<mem, place, cont, contains, wears, layer, lists,
          refreshQueue, deletionQueue>>

Live(o) == mem[o] = "live"
OnGround(o) == o \in Items => cont[o] = None

(* The world as the loader leaves it: some objects, listed where they are. *)
Init ==
  /\ mem \in [Objects -> {"unborn", "live"}]
  /\ place \in [Objects -> AllCells]
  /\ \A o \in Objects : mem[o] = "unborn" => place[o] = Origin
  /\ cont = [i \in Items |-> None]
  /\ contains = [i \in Items |-> {}]
  /\ wears = [n \in Chars |-> [l \in Layers |-> None]]
  /\ layer \in [Items -> Layers]
  /\ lists = [c \in AllCells |-> {o \in Objects : Live(o) /\ place[o] = c}]
  /\ refreshQueue = {}
  /\ deletionQueue = {}

-----------------------------------------------------------------------------
(* What holds what.                                                        *)

Held(o) == IF o \in Items THEN contains[o]
           ELSE {wears[o][l] : l \in Layers} \ {None}

(* What o holds, directly or not: the least set that has what o holds and, *)
(* with an item, what that item contains.                                  *)
Inside(o) ==
  {i \in Items :
     \A S \in SUBSET Items :
       Held(o) \subseteq S /\ (\A j \in S : contains[j] \subseteq S) => i \in S}

(* Item i and the items around it, up to the first that is deleted.        *)
Around(i) ==
  {k \in Items :
     \A S \in SUBSET Items :
       i \in S /\ (\A j \in S : cont[j] \in Items /\ Live(cont[j]) => cont[j] \in S)
       => k \in S}

(* The characters whose weight counts item i, which subtractItemWeight and *)
(* addItemWeight reach by going up from i: a new weight makes them dirty.  *)
Carriers(i) == {n \in Chars : Live(n) /\ \E k \in Around(i) : cont[k] = n}

-----------------------------------------------------------------------------
(* Pieces of the operations.                                               *)

(* Faults, which the properties must tell from the code: a change of cell  *)
(* that leaves the object in the old one's list, or that adds and then     *)
(* removes although the cell may be the same.                              *)
ListsAfterMoveKeepingOld(o, c) ==
  IF DebugRegions THEN [lists EXCEPT ![c] = @ \cup {o}] ELSE lists

ListsAfterMoveSwapped(o, c) ==
  LET added == [lists EXCEPT ![c] = @ \cup {o}]
  IN IF DebugRegions THEN [added EXCEPT ![place[o]] = @ \ {o}] ELSE lists

(* MapRegion->ChangeRegion, for an object on the ground going to cell c.   *)
ListsAfterMove(o, c) ==
  IF DebugRegions /\ c # place[o]
  THEN [lists EXCEPT ![place[o]] = @ \ {o}, ![c] = @ \cup {o}]
  ELSE lists

(* RemoveSelfFromCont, on each of the three places an item can be.         *)
ListsWithout(i) ==
  IF cont[i] = None THEN [lists EXCEPT ![place[i]] = @ \ {i}] ELSE lists

ContainsWithout(i) ==
  [k \in Items |->
     IF cont[i] = k /\ Live(k) THEN contains[k] \ {i} ELSE contains[k]]

WearsWithout(i) ==
  [n \in Chars |-> [l \in Layers |->
     IF cont[i] = n /\ Live(n) /\ layer[i] = l THEN None ELSE wears[n][l]]]

(* Delete: the object and everything in it.  Each one's coordinates leave  *)
(* the map, it leaves the refresh queue and then its container.            *)
Doomed(o) == {o} \cup {i \in Inside(o) : Live(i)}

(* Faults: the refresh queue, the container's list and the paperdoll not   *)
(* cleaned.                                                                *)
RefreshAfterDeleteKept(o) ==
  refreshQueue \cup UNION {Carriers(i) : i \in Doomed(o) \cap Items}

ContainsAfterDeleteKept(o) == contains

WearsAfterDeleteKept(o) == wears

(* A character leaves its cell's list before its coordinates change, an    *)
(* item after.                                                             *)
ListsAfterDelete(o) ==
  IF o \in Chars THEN [lists EXCEPT ![place[o]] = @ \ {o}]
  ELSE IF cont[o] = None THEN [lists EXCEPT ![Overflow] = @ \ {o}]
  ELSE lists

(* Leaving a container makes its carriers dirty, a character that is being *)
(* deleted and still wears something among them.                           *)
RefreshAfterDelete(o) ==
  (refreshQueue \ Doomed(o))
    \cup UNION {Carriers(i) : i \in Doomed(o) \cap Items}

ContainsAfterDelete(o) ==
  [k \in Items |->
     {i \in contains[k] : ~(i \in Doomed(o) /\ cont[i] = k /\ Live(k))}]

WearsAfterDelete(o) ==
  [n \in Chars |-> [l \in Layers |->
     IF Live(n) /\ \E i \in Doomed(o) \cap Items : cont[i] = n /\ layer[i] = l
     THEN None ELSE wears[n][l]]]

(* Where SetCont(NULL) and then SetLocation(c) list an item.               *)
Landing(i, c) == IF DebugRegions THEN c ELSE place[i]

-----------------------------------------------------------------------------
(* The operations.                                                         *)

(* CreateBaseItem or CNPC creation, then SetLocation.                      *)
Create(o, c) ==
  /\ mem[o] = "unborn"
  /\ mem' = [mem EXCEPT ![o] = "live"]
  /\ place' = [place EXCEPT ![o] = c]
  /\ lists' = ListsAfterMove(o, c)
  /\ refreshQueue' = refreshQueue \cup {o}
  /\ UNCHANGED <<cont, contains, wears, layer, deletionQueue>>

(* SetLocation of an object on the ground.                                 *)
Move(o, c) ==
  /\ Live(o)
  /\ OnGround(o)
  /\ place' = [place EXCEPT ![o] = c]
  /\ lists' = ListsAfterMove(o, c)
  /\ refreshQueue' = refreshQueue \cup {o}
  /\ UNCHANGED <<mem, cont, contains, wears, layer, deletionQueue>>

(* SetCont(NULL), then SetLocation.                                        *)
Drop(i, c) ==
  /\ Live(i)
  /\ cont' = [cont EXCEPT ![i] = None]
  /\ contains' = ContainsWithout(i)
  /\ wears' = WearsWithout(i)
  /\ lists' = [ListsWithout(i) EXCEPT ![Landing(i, c)] = @ \cup {i}]
  /\ place' = [place EXCEPT ![i] = c]
  /\ refreshQueue' = refreshQueue \cup {i} \cup Carriers(i)
  /\ UNCHANGED <<mem, layer, deletionQueue>>

(* SetCont of an item, then PlaceInPack, whose coordinates, those of the   *)
(* gump, fall in cell c.  Callers never put an item inside itself.         *)
Put(i, k, c) ==
  /\ Live(i) /\ Live(k)
  /\ k # i /\ k \notin Inside(i)
  /\ cont' = [cont EXCEPT ![i] = k]
  /\ contains' = [ContainsWithout(i) EXCEPT ![k] = @ \cup {i}]
  /\ wears' = WearsWithout(i)
  /\ lists' = ListsWithout(i)
  /\ place' = [place EXCEPT ![i] = c]
  /\ refreshQueue' = refreshQueue \cup {i} \cup Carriers(i) \cup Carriers(k)
  /\ UNCHANGED <<mem, layer, deletionQueue>>

(* SetCont of a character: WearItem takes the item if its layer is free ... *)
Wear(i, n) ==
  /\ Live(i) /\ Live(n)
  /\ WearsWithout(i)[n][layer[i]] = None
  /\ cont' = [cont EXCEPT ![i] = n]
  /\ contains' = ContainsWithout(i)
  /\ wears' = [WearsWithout(i) EXCEPT ![n][layer[i]] = i]
  /\ lists' = ListsWithout(i)
  /\ refreshQueue' = refreshQueue \cup {i, n} \cup Carriers(i)
  /\ UNCHANGED <<mem, place, layer, deletionQueue>>

(* ... and the item falls to the ground if it is not.                      *)
WearRefused(i, n) ==
  /\ Live(i) /\ Live(n)
  /\ WearsWithout(i)[n][layer[i]] # None
  /\ cont' = [cont EXCEPT ![i] = None]
  /\ contains' = ContainsWithout(i)
  /\ wears' = WearsWithout(i)
  /\ lists' = [ListsWithout(i) EXCEPT ![place[i]] = @ \cup {i}]
  /\ refreshQueue' = refreshQueue \cup {i} \cup Carriers(i)
  /\ UNCHANGED <<mem, place, layer, deletionQueue>>

(* SetLayer of an item on a character: what its old layer holds comes off, *)
(* and WearItem takes the item only if the new layer is free.              *)
Relayer(i, l) ==
  /\ Tweaks
  /\ Live(i)
  /\ cont[i] \in Chars
  /\ Live(cont[i])
  /\ layer' = [layer EXCEPT ![i] = l]
  /\ wears' = IF WearsWithout(i)[cont[i]][l] = None
              THEN [WearsWithout(i) EXCEPT ![cont[i]][l] = i]
              ELSE WearsWithout(i)
  /\ refreshQueue' = refreshQueue \cup {cont[i]}
  /\ UNCHANGED <<mem, place, cont, contains, lists, deletionQueue>>

Delete(o) ==
  /\ Live(o)
  /\ mem' = [x \in Objects |-> IF x \in Doomed(o) THEN "deleted" ELSE mem[x]]
  /\ place' = [x \in Objects |-> IF x \in Doomed(o) THEN Overflow ELSE place[x]]
  /\ lists' = ListsAfterDelete(o)
  /\ contains' = ContainsAfterDelete(o)
  /\ wears' = WearsAfterDelete(o)
  /\ refreshQueue' = RefreshAfterDelete(o)
  /\ deletionQueue' = deletionQueue \cup Doomed(o)
  /\ UNCHANGED <<cont, layer>>

(* DecayItem of a container on the ground: its contents fall where it lies *)
(* and it is deleted.  (A corpse whose loot decays with it is Delete.)     *)
Decay(k) ==
  /\ Live(k)
  /\ cont[k] = None
  /\ contains[k] # {}
  /\ cont' = [i \in Items |-> IF i \in contains[k] THEN None ELSE cont[i]]
  /\ contains' = [contains EXCEPT ![k] = {}]
  /\ lists' = [c \in AllCells |->
                 (lists[c] \cup {i \in contains[k] : Landing(i, place[k]) = c})
                   \ (IF c = Overflow THEN {k} ELSE {})]
  /\ place' = [x \in Objects |-> IF x = k THEN Overflow
                                 ELSE IF x \in contains[k] THEN place[k]
                                 ELSE place[x]]
  /\ mem' = [mem EXCEPT ![k] = "deleted"]
  /\ refreshQueue' = (refreshQueue \cup contains[k]) \ {k}
  /\ deletionQueue' = deletionQueue \cup {k}
  /\ UNCHANGED <<wears, layer>>

(* The end of CheckAutoTimers sends the queued objects and forgets them.   *)
Refresh ==
  /\ refreshQueue # {}
  /\ refreshQueue' = {}
  /\ UNCHANGED <<mem, place, cont, contains, wears, layer, lists, deletionQueue>>

(* CollectGarbage: the memory of every queued object goes, and with it the *)
(* pointers the object held.                                               *)
Collected ==
  /\ mem' = [o \in Objects |-> IF o \in deletionQueue THEN "freed" ELSE mem[o]]
  /\ cont' = [i \in Items |-> IF i \in deletionQueue THEN None ELSE cont[i]]
  /\ contains' = [k \in Items |->
                    IF k \in deletionQueue THEN {} ELSE contains[k]]
  /\ wears' = [n \in Chars |-> [l \in Layers |->
                 IF n \in deletionQueue THEN None ELSE wears[n][l]]]
  /\ deletionQueue' = {}
  /\ UNCHANGED <<place, layer, refreshQueue>>

(* Fault: SaveToDB skips what is deleted and leaves it listed.             *)
SaveUnpurged == Collected /\ UNCHANGED lists

(* SaveNewWorld: SaveToDB drops from each cell's lists what is deleted,    *)
(* the world is written, and garbage is collected.                         *)
SaveNewWorld ==
  /\ lists' = [c \in AllCells |-> {o \in lists[c] : Live(o)}]
  /\ Collected

(* The administrators' garbage collection does not go through the cells.   *)
CollectCommand ==
  /\ Commands
  /\ Collected
  /\ UNCHANGED lists

Next ==
  \/ \E o \in Objects :
       \/ Delete(o)
       \/ \E c \in AllCells : Create(o, c) \/ Move(o, c)
  \/ \E i \in Items :
       \/ \E c \in AllCells : Drop(i, c) \/ \E k \in Items : Put(i, k, c)
       \/ \E n \in Chars : Wear(i, n) \/ WearRefused(i, n)
       \/ \E l \in Layers : Relayer(i, l)
       \/ Decay(i)
  \/ Refresh
  \/ SaveNewWorld
  \/ CollectCommand

Spec == Init /\ [][Next]_vars

-----------------------------------------------------------------------------
(* Properties.                                                             *)

TypeOK ==
  /\ mem \in [Objects -> {"unborn", "live", "deleted", "freed"}]
  /\ place \in [Objects -> AllCells]
  /\ cont \in [Items -> Objects \cup {None}]
  /\ \A i \in Items : cont[i] # i
  /\ contains \in [Items -> SUBSET Items]
  /\ wears \in [Chars -> [Layers -> Items \cup {None}]]
  /\ layer \in [Items -> Layers]
  /\ lists \in [AllCells -> SUBSET Objects]
  /\ refreshQueue \subseteq Objects
  /\ deletionQueue \subseteq Objects

(* CollectGarbage frees exactly what Delete flagged: nothing flagged is    *)
(* forgotten, however the deletion of one object reaches another, and      *)
(* nothing in use is freed.                                                *)
QueueIsTheDeleted == deletionQueue = {o \in Objects : mem[o] = "deleted"}

(* A container's list and the contObj of what it lists agree, and nothing  *)
(* in either is deleted.                                                   *)
ContentsAgree ==
  /\ \A k, i \in Items : i \in contains[k] => Live(k) /\ Live(i) /\ cont[i] = k
  /\ \A i \in Items : Live(i) /\ cont[i] \in Items => i \in contains[cont[i]]

(* What a character's layer holds is alive, on it, and of that layer.      *)
PaperdollSound ==
  \A n \in Chars : \A l \in Layers :
    wears[n][l] # None =>
      LET i == wears[n][l]
      IN Live(n) /\ Live(i) /\ cont[i] = n /\ layer[i] = l

(* Unless worn items are relayered, an item on a character is in its       *)
(* paperdoll, so that deleting the character deletes it.                   *)
PaperdollComplete ==
  \A i \in Items :
    Live(i) /\ cont[i] \in Chars => wears[cont[i]][layer[i]] = i

(* Where worn items are not relayered, the paperdolls hold exactly what is *)
(* on the characters.                                                      *)
PaperdollAgrees == PaperdollSound /\ PaperdollComplete

(* The main loop never sends, and a save never leaves in the queue, an     *)
(* item that was deleted: after Cleanup nothing puts it back.              *)
NoDeletedItemQueued == \A i \in refreshQueue \cap Items : Live(i)

(* Built with DEBUG_REGIONS: an object listed by a cell and not deleted    *)
(* stands in that cell, on the ground ...                                  *)
ListedWhereItStands ==
  \A c \in AllCells : \A o \in lists[c] :
    Live(o) => OnGround(o) /\ place[o] = c

(* ... and every object on the ground that has left its default            *)
(* coordinates is listed.                                                  *)
StandingIsListed ==
  \A o \in Objects :
    Live(o) /\ OnGround(o) /\ place[o] # Origin => o \in lists[place[o]]

(* A deleted character is in no cell's list.                               *)
DeletedCharsUnlisted ==
  \A c \in AllCells : \A n \in lists[c] \cap Chars : Live(n)

(* The same of items, what the comment of RemoveItem asks for: "Do this    *)
(* before adjusting the location".                                         *)
DeletedItemsUnlisted ==
  \A c \in AllCells : \A i \in lists[c] \cap Items : Live(i)

(* Without garbage collections on command, a cell's list never holds freed *)
(* memory: what deletion leaves there, the next save takes away first.     *)
CellsNeverHoldFreed ==
  \A c \in AllCells : \A o \in lists[c] : mem[o] # "freed"

(* What DestroyObject says of the objects it frees, "the object has been   *)
(* deleted, and is no longer part of the world": the refresh queue does    *)
(* not hold them.                                                          *)
RefreshNeverHoldsFreed == \A o \in refreshQueue : mem[o] # "freed"
=============================================================================
