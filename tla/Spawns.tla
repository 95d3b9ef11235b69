-------------------------------- MODULE Spawns --------------------------------
(***************************************************************************)
(* What regions and spawners put into the world, and to whom it goes       *)
(* (src/src/system/BaseObjects/cSpawnRegion.cpp, cBaseobject.cpp,          *)
(* cChar.cpp, cItem.cpp).  Every tie is written down at both ends: a beast *)
(* has an owner, and the owner a list of pets; a thing has the serial of   *)
(* its spawner, and the spawner a list of things; what a region spawned is *)
(* in the region's list and is not to be saved, until a save finds that it *)
(* belongs to somebody by then.                                            *)
(*                                                                         *)
(* A deleted object is freed at the end of the pass, and nothing here      *)
(* looks at it again before that but to see that it is deleted: it is      *)
(* gone at once.  Serials are not used again while the process runs.       *)
(***************************************************************************)
EXTENDS Naturals, FiniteSets

CONSTANTS Masters,     (* players                                          *)
          Beasts,      (* creatures                                        *)
          Goods,       (* items                                            *)
          Bags,        (* the goods that hold others; no bag holds bags    *)
          Spawners,
          Regions,     (* spawn regions                                    *)
          Ground,
          NoTie,       (* INVALIDSERIAL                                    *)
          MaxSpawned,  (* what regions and spawners are set to             *)
          MaxThings    (* bound: creatures and items at a time             *)

ASSUME SpawnAssumption ==
  /\ Bags \subseteq Goods
  /\ Masters \cap Beasts = {} /\ (Masters \cup Beasts) \cap Goods = {}
  /\ Spawners \cap (Masters \cup Beasts \cup Goods) = {}
  /\ Regions \cap (Masters \cup Beasts \cup Goods \cup Spawners) = {}
  /\ NoTie \notin Masters \cup Beasts \cup Goods \cup Spawners \cup Regions
  /\ Ground \notin Masters \cup Beasts \cup Goods \cup Spawners

Owners  == Masters \cup Beasts
Spawn   == Beasts \cup Goods
Beings  == Masters \cup Spawn \cup Spawners
Holders == Owners \cup Spawners \cup Bags

VARIABLES live,            (* objects that are there and not deleted       *)
          shouldSave,      (* those that are saved                         *)
          spawned,         (* spawnedChars and spawnedItems of a region    *)
          spawnserial,
          spawnedList,     (* of a spawner                                 *)
          owner,
          petsControlled,  (* of an owner                                  *)
          stabled,
          cont

spawnVars == <<live, shouldSave, spawned, spawnserial, spawnedList, owner,
               petsControlled, stabled, cont>>

SpawnInit ==
  /\ live = Masters \cup Spawners /\ shouldSave = live
  /\ spawned = [r \in Regions |-> {}]
  /\ spawnserial = [o \in Spawn |-> NoTie]
  /\ spawnedList = [s \in Spawners |-> {}]
  /\ owner = [c \in Beasts |-> NoTie]
  /\ petsControlled = [k \in Owners |-> {}]
  /\ stabled = {}
  /\ cont = [g \in Goods |-> Ground]

-----------------------------------------------------------------------------
(* Names for new objects: nothing refers to what had them.                 *)
Unused(N) ==
  /\ N \subseteq Spawn \ live /\ \A c \in Beasts : owner[c] \notin N
  /\ Cardinality((live \cap Spawn) \cup N) <= MaxThings

(* CreateObject and SetSpawn, for an object that is saved.                 *)
Made(o, s) ==
  /\ Unused({o})
  /\ live' = live \cup {o} /\ shouldSave' = shouldSave \cup {o}
  /\ spawnserial' = [spawnserial EXCEPT ![o] = s]
  /\ spawnedList' = IF s \in live
                    THEN [spawnedList EXCEPT ![s] = @ \cup {o}] ELSE spawnedList
  /\ UNCHANGED <<spawned, stabled>>

(* Fault: a creature's former owner keeps it in the list of pets.          *)
PetsKept(c, k) ==
  IF k \in live THEN [petsControlled EXCEPT ![k] = @ \cup {c}] ELSE petsControlled

(* RemoveSelfFromOwner and AddSelfToOwner of a creature.                   *)
PetsAfter(c, k) ==
  LET left == IF owner[c] \in live
              THEN [petsControlled EXCEPT ![owner[c]] = @ \ {c}]
              ELSE petsControlled
  IN IF k \in live THEN [left EXCEPT ![k] = @ \cup {c}] ELSE left

(* What is in something, and what deleting it takes along.                 *)
Contents(h) == {g \in Goods \cap live : cont[g] = h}
Doomed(o)   == {o} \cup Contents(o) \cup UNION {Contents(g) : g \in Contents(o)}

(* Cleanup of all of them.                                                 *)
CleanedUp(D) ==
  /\ live' = live \ D /\ shouldSave' = shouldSave \ D
  /\ spawned' = [r \in Regions |-> spawned[r] \ {o \in D \cap Spawn : spawnserial[o] = r}]
  /\ spawnserial' = [o \in Spawn |->
       IF o \in D \/ \E s \in D \cap Spawners : o \in spawnedList[s]
       THEN NoTie ELSE spawnserial[o]]
  /\ spawnedList' = [s \in Spawners |-> IF s \in D THEN {} ELSE
       spawnedList[s] \ {o \in D \cap Spawn : spawnserial[o] = s}]
  /\ owner' = [c \in Beasts |->
       IF c \in D \/ \E k \in D \cap Owners : c \in petsControlled[k]
       THEN NoTie ELSE owner[c]]
  /\ petsControlled' = [k \in Owners |-> IF k \in D THEN {} ELSE
       petsControlled[k] \ {c \in D \cap Beasts : owner[c] = k}]
  /\ stabled' = stabled \ D
  /\ cont' = [g \in Goods |-> IF g \in D THEN Ground ELSE cont[g]]

-----------------------------------------------------------------------------
(* doRegionSpawn: as many as are called for, up to what the region may     *)
(* have in its lists.                                                      *)
DoRegionSpawn(r, N) ==
  /\ N # {} /\ Unused(N)
  /\ \A kind \in {Beasts, Goods} : N \cap kind # {} =>
       Cardinality((spawned[r] \cup N) \cap kind) <= MaxSpawned
  /\ live' = live \cup N
  /\ spawned' = [spawned EXCEPT ![r] = @ \cup N]
  /\ spawnserial' = [o \in Spawn |-> IF o \in N THEN r ELSE spawnserial[o]]
  /\ UNCHANGED <<shouldSave, spawnedList, owner, petsControlled, stabled, cont>>

(* The spawner's turn.  Whether the last thing still lies on an item       *)
(* spawner is left open.                                                   *)
CreateNPC(s, c) ==
  /\ s \in live
  /\ Cardinality(spawnedList[s]) < MaxSpawned
  /\ Made(c, s)
  /\ UNCHANGED <<owner, petsControlled, cont>>

AddRespawnItem(s, g, inCont) ==
  /\ s \in live
  /\ inCont => Cardinality(Contents(s)) < MaxSpawned
  /\ Made(g, s)
  /\ cont' = [cont EXCEPT ![g] = IF inCont THEN s ELSE Ground]
  /\ UNCHANGED <<owner, petsControlled>>

(* Everything else that makes a creature or an item.                       *)
CreateObject(o) ==
  /\ Made(o, NoTie)
  /\ UNCHANGED <<owner, petsControlled, cont>>

(* Dupe: a creature that splits, a stack that is divided.  The copy has    *)
(* the spawner's serial and is saved, whatever spawned the original.       *)
DupeChar(d, c) ==
  /\ d \in live
  /\ Made(c, spawnserial[d])
  /\ owner' = [owner EXCEPT ![c] = IF owner[d] \in live THEN owner[d] ELSE NoTie]
  /\ petsControlled' = PetsAfter(c, owner[d])
  /\ UNCHANGED cont

DupeItem(g, h) ==
  /\ g \in live /\ (g \in Bags <=> h \in Bags)
  /\ Made(h, spawnserial[g])
  /\ cont' = [cont EXCEPT ![h] = cont[g]]
  /\ UNCHANGED <<owner, petsControlled>>

SetOwner(c, k) ==
  /\ c \in live /\ k \in live \cup {NoTie}
  /\ owner' = [owner EXCEPT ![c] = k]
  /\ petsControlled' = PetsAfter(c, k)
  /\ UNCHANGED <<live, shouldSave, spawned, spawnserial, spawnedList, stabled, cont>>

(* A stabled pet is not in its owner's list, and is when it comes out.     *)
SetStabled(c, in) ==
  /\ c \in live
  /\ stabled' = IF in THEN stabled \cup {c} ELSE stabled \ {c}
  /\ petsControlled' =
       IF owner[c] \notin live THEN petsControlled
       ELSE [petsControlled EXCEPT ![owner[c]] = IF in THEN @ \ {c} ELSE @ \cup {c}]
  /\ UNCHANGED <<live, shouldSave, spawned, spawnserial, spawnedList, owner, cont>>

(* SetCont. *)
Carry(g, h) ==
  /\ g \in live /\ h \in live \cup {Ground}
  /\ g \in Bags => h \notin Bags
  /\ cont' = [cont EXCEPT ![g] = h]
  /\ UNCHANGED <<live, shouldSave, spawned, spawnserial, spawnedList, owner,
                 petsControlled, stabled>>

Delete(o) == o \in live /\ CleanedUp(Doomed(o))

(* The command: every creature in the region's list, tame by now or not.   *)
SpawnKill(r) ==
  /\ spawned[r] \cap Beasts # {}
  /\ CleanedUp(UNION {Doomed(c) : c \in spawned[r] \cap Beasts})

-----------------------------------------------------------------------------
(* Fault: a save lets go only of what a player carries itself.             *)
ReleasedFromPacks ==
  {o \in UNION {spawned[r] : r \in Regions} :
     \/ o \in Beasts /\ owner[o] \in live
     \/ o \in Goods /\ cont[o] \in Masters}

(* checkSpawned: what the regions let go before a save.                    *)
Released ==
  {o \in UNION {spawned[r] : r \in Regions} :
     \/ o \in Beasts /\ owner[o] \in live
     \/ o \in Goods /\ cont[o] \in live}

WorldSave ==
  /\ spawned' = [r \in Regions |-> spawned[r] \ Released]
  /\ shouldSave' = shouldSave \cup Released
  /\ UNCHANGED <<live, spawnserial, spawnedList, owner, petsControlled, stabled, cont>>

(* Saving goes through what it finds outside of anything to what that      *)
(* holds, and leaves out with a thing all that is in it.                   *)
Around(g) ==
  (IF cont[g] \in Goods THEN {cont[g], cont[cont[g]]} ELSE {cont[g]}) \ {Ground}

SavedIn(S) == {o \in S : o \in Goods => Around(o) \subseteq S}

(* The process ends sooner or later after a save, and what was done since  *)
(* is lost: it leads where an end right after the save does.  Loading puts *)
(* the pets of owners that are there into their lists, stabled or not.     *)
SaveThenRestart ==
  LET saved == SavedIn(shouldSave \cup Released) IN
  /\ live' = saved /\ shouldSave' = saved
  /\ spawned' = [r \in Regions |-> {}]
  /\ spawnserial' = [o \in Spawn |-> IF o \in saved THEN spawnserial[o] ELSE NoTie]
  /\ spawnedList' = [s \in Spawners |-> {o \in saved \cap Spawn : spawnserial[o] = s}]
  /\ owner' = [c \in Beasts |->
       IF c \in saved /\ owner[c] \in saved THEN owner[c] ELSE NoTie]
  /\ petsControlled' = [k \in Owners |->
       {c \in saved \cap Beasts : k \in saved /\ owner[c] = k}]
  /\ stabled' = stabled \cap saved
  /\ cont' = [g \in Goods |-> IF g \in saved THEN cont[g] ELSE Ground]

SpawnNext ==
  \/ \E r \in Regions, N \in SUBSET Spawn : DoRegionSpawn(r, N)
  \/ \E r \in Regions : SpawnKill(r)
  \/ \E s \in Spawners, c \in Beasts : CreateNPC(s, c)
  \/ \E s \in Spawners, g \in Goods, inCont \in BOOLEAN : AddRespawnItem(s, g, inCont)
  \/ \E o \in Spawn : CreateObject(o)
  \/ \E d, c \in Beasts : DupeChar(d, c)
  \/ \E g, h \in Goods : DupeItem(g, h)
  \/ \E c \in Beasts, k \in Owners \cup {NoTie} : SetOwner(c, k)
  \/ \E c \in Beasts, in \in BOOLEAN : SetStabled(c, in)
  \/ \E g \in Goods, h \in Holders \cup {Ground} : Carry(g, h)
  \/ \E o \in Beings : Delete(o)
  \/ WorldSave
  \/ SaveThenRestart

SpawnSpec == SpawnInit /\ [][SpawnNext]_spawnVars

-----------------------------------------------------------------------------
(* Type invariant. *)
SpawnTypeOK ==
  /\ live \subseteq Beings /\ shouldSave \subseteq live
  /\ spawned \in [Regions -> SUBSET Spawn]
  /\ spawnserial \in [Spawn -> Spawners \cup Regions \cup {NoTie}]
  /\ spawnedList \in [Spawners -> SUBSET Spawn]
  /\ owner \in [Beasts -> Owners \cup {NoTie}]
  /\ petsControlled \in [Owners -> SUBSET Beasts]
  /\ stabled \subseteq live \cap Beasts
  /\ cont \in [Goods -> Holders \cup {Ground}]

(* Both ends of a tie agree, however it was made, changed, copied, saved,  *)
(* loaded and broken by the end of either: a list of pets holds creatures  *)
(* that are there and are the owner's, and all but stabled ones; a         *)
(* spawner's list holds just the things with its serial; a region's list   *)
(* holds just the things that are not to be saved, with its number.        *)
PetsAgree ==
  /\ \A k \in Owners : \A c \in petsControlled[k] : c \in live /\ owner[c] = k
  /\ \A c \in Beasts : owner[c] \in live =>
       c \in stabled \/ c \in petsControlled[owner[c]]
SpawnersAgree == \A s \in Spawners :
  spawnedList[s] = {o \in Spawn \cap live : spawnserial[o] = s}
RegionsAgree ==
  /\ \A r \in Regions : \A o \in spawned[r] : o \in live \ shouldSave /\ spawnserial[o] = r
  /\ live \ shouldSave \subseteq UNION {spawned[r] : r \in Regions}
TiesAgree == PetsAgree /\ SpawnersAgree /\ RegionsAgree

(* What players own is never lost: a creature whose owner is there, and    *)
(* anything that such a creature or a player carries, in a bag or not,     *)
(* comes back after the end that follows a save, though a region spawned   *)
(* it or the bag; and so does the tie of a pet whose owner comes back.     *)
Safe(c) == c \in live /\ (c \in Masters \/ (c \in Beasts /\ owner[c] \in live))
Kept(o) == Safe(o) \/ (o \in Goods \cap live /\ \E c \in Around(o) : Safe(c))
OwnedSurvive == [][
  /\ \A o \in live \ live' : SaveThenRestart => ~Kept(o)
  /\ \A c \in Beasts : owner'[c] # owner[c] /\ SaveThenRestart =>
       ~(Safe(c) /\ Safe(owner[c]))]_spawnVars
=============================================================================
