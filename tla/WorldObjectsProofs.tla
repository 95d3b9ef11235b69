------------------------- MODULE WorldObjectsProofs -------------------------
(***************************************************************************)
(* Theorems about WorldObjects, for any number of objects, cells and       *)
(* layers.  The inductive invariant is what its runs check, and that an    *)
(* object not yet created is nowhere.                                      *)
(***************************************************************************)
EXTENDS WorldObjects, TLAPS

UnbornNowhere ==
  /\ \A i \in Items : mem[i] = "unborn" => cont[i] = None
  /\ \A o \in Objects : mem[o] = "unborn" =>
       place[o] = Origin /\ \A c \in AllCells : o \notin lists[c]

WorldInv ==
  /\ TypeOK
  /\ UnbornNowhere
  /\ QueueIsTheDeleted
  /\ ContentsAgree
  /\ PaperdollSound
  /\ NoDeletedItemQueued

-----------------------------------------------------------------------------
(* What is inside an object is closed under what it contains.              *)
LEMMA InsideCloses ==
  ASSUME TypeOK, NEW o \in Objects
  PROVE  /\ Inside(o) \subseteq Items
         /\ Held(o) \subseteq Inside(o)
         /\ \A j \in Inside(o) : contains[j] \subseteq Inside(o)
<1>1. Inside(o) \subseteq Items
  BY DEF Inside
<1>2. Held(o) \subseteq Items
  <2>1. CASE o \in Items
    BY <2>1 DEF Held, TypeOK
  <2>2. CASE o \notin Items
    <3>1. o \in Chars
      BY <2>2 DEF Objects
    <3>2. \A l \in Layers : wears[o][l] \in Items \cup {None}
      BY <3>1 DEF TypeOK
    <3> QED BY <2>2, <3>2 DEF Held
  <2> QED BY <2>1, <2>2
<1>3. Held(o) \subseteq Inside(o)
  BY <1>2 DEF Inside
<1>4. ASSUME NEW j \in Inside(o), NEW i \in contains[j]
      PROVE  i \in Inside(o)
  <2>1. i \in Items
    BY <1>1, <1>4 DEF TypeOK
  <2>2. ASSUME NEW S \in SUBSET Items, Held(o) \subseteq S,
               \A k \in S : contains[k] \subseteq S
        PROVE  i \in S
    <3>1. j \in S
      BY <1>4, <2>2 DEF Inside
    <3> QED BY <3>1, <2>2, <1>4
  <2> QED BY <2>1, <2>2 DEF Inside
<1> QED BY <1>1, <1>3, <1>4

(* A deletion reaches whatever the objects it reaches hold.                *)
LEMMA DoomedFacts ==
  ASSUME TypeOK, ContentsAgree, PaperdollSound, NEW o \in Objects, Live(o)
  PROVE  /\ o \in Doomed(o)
         /\ Doomed(o) \subseteq Objects
         /\ \A x \in Doomed(o) : Live(x)
         /\ \A x \in Doomed(o) : x # o => x \in Items
         /\ \A k \in Doomed(o) \cap Items : contains[k] \subseteq Doomed(o)
         /\ \A n \in Doomed(o) \cap Chars : \A l \in Layers :
              wears[n][l] # None => wears[n][l] \in Doomed(o)
<1>1. /\ Inside(o) \subseteq Items
      /\ Held(o) \subseteq Inside(o)
      /\ \A j \in Inside(o) : contains[j] \subseteq Inside(o)
  BY InsideCloses
<1>2. /\ o \in Doomed(o)
      /\ Doomed(o) \subseteq Objects
      /\ \A x \in Doomed(o) : Live(x)
      /\ \A x \in Doomed(o) : x # o => x \in Items
  BY <1>1 DEF Doomed, Objects
<1>3. ASSUME NEW k \in Doomed(o) \cap Items, NEW i \in contains[k]
      PROVE  i \in Doomed(o)
  <2>1. contains[k] \subseteq Inside(o)
    <3>1. CASE k = o
      BY <1>1, <3>1 DEF Held
    <3>2. CASE k # o
      BY <1>1, <3>2 DEF Doomed
    <3> QED BY <3>1, <3>2
  <2>2. i \in Items /\ Live(i)
    BY <1>1, <2>1 DEF ContentsAgree
  <2> QED BY <2>1, <2>2 DEF Doomed
<1>4. ASSUME NEW n \in Doomed(o) \cap Chars, NEW l \in Layers,
             wears[n][l] # None
      PROVE  wears[n][l] \in Doomed(o)
  <2>1. n = o /\ o \notin Items
    BY <1>2, <1>4, ObjectsAssumption
  <2>2. wears[n][l] \in Held(o)
    BY <2>1, <1>4 DEF Held
  <2>3. Live(wears[n][l])
    BY <1>4 DEF PaperdollSound
  <2> QED BY <1>1, <2>2, <2>3 DEF Doomed
<1> QED BY <1>2, <1>3, <1>4

(* RemoveSelfFromCont takes an item, and nothing else, out of where it is. *)
LEMMA WithoutFacts ==
  ASSUME TypeOK, ContentsAgree, PaperdollSound, NEW i \in Items
  PROVE  /\ ContainsWithout(i) \in [Items -> SUBSET Items]
         /\ WearsWithout(i) \in [Chars -> [Layers -> Items \cup {None}]]
         /\ ListsWithout(i) \in [AllCells -> SUBSET Objects]
         /\ \A k, j \in Items :
              j \in ContainsWithout(i)[k] <=> j # i /\ j \in contains[k]
         /\ \A n \in Chars : \A l \in Layers :
              WearsWithout(i)[n][l] # None =>
                /\ WearsWithout(i)[n][l] = wears[n][l]
                /\ wears[n][l] # i
         /\ \A c \in AllCells : ListsWithout(i)[c] \subseteq lists[c]
<1>1. ContainsWithout(i) \in [Items -> SUBSET Items]
  BY DEF ContainsWithout, TypeOK
<1>2. WearsWithout(i) \in [Chars -> [Layers -> Items \cup {None}]]
  BY DEF WearsWithout, TypeOK
<1>3. /\ ListsWithout(i) \in [AllCells -> SUBSET Objects]
      /\ \A c \in AllCells : ListsWithout(i)[c] \subseteq lists[c]
  BY DEF ListsWithout, TypeOK
<1>4. ASSUME NEW k \in Items, NEW j \in Items
      PROVE  j \in ContainsWithout(i)[k] <=> j # i /\ j \in contains[k]
  BY DEF ContainsWithout, ContentsAgree
<1>5. ASSUME NEW n \in Chars, NEW l \in Layers, WearsWithout(i)[n][l] # None
      PROVE  WearsWithout(i)[n][l] = wears[n][l] /\ wears[n][l] # i
  BY <1>5 DEF WearsWithout, PaperdollSound
<1> QED BY <1>1, <1>2, <1>3, <1>4, <1>5

LEMMA CarriersFacts ==
  ASSUME NEW i
  PROVE  /\ Carriers(i) \subseteq Chars
         /\ \A n \in Carriers(i) : Live(n)
BY DEF Carriers
-----------------------------------------------------------------------------
(* The steps, one invariant at a time.                                     *)

LEMMA TypeStep ==
  ASSUME TypeOK, UnbornNowhere, ContentsAgree, PaperdollSound, [Next]_vars
  PROVE  TypeOK'
<1>1. ASSUME NEW o \in Objects, Delete(o)
      PROVE  TypeOK'
  <2>1. /\ Doomed(o) \subseteq Objects
        /\ RefreshAfterDelete(o) \subseteq Objects
    BY <1>1, DoomedFacts, CarriersFacts DEF Delete, RefreshAfterDelete, TypeOK, Objects
  <2>2. ListsAfterDelete(o) \in [AllCells -> SUBSET Objects]
    BY DEF ListsAfterDelete, TypeOK
  <2>3. ContainsAfterDelete(o) \in [Items -> SUBSET Items]
    BY DEF ContainsAfterDelete, TypeOK
  <2>4. WearsAfterDelete(o) \in [Chars -> [Layers -> Items \cup {None}]]
    BY DEF WearsAfterDelete, TypeOK
  <2>5. /\ mem' \in [Objects -> {"unborn", "live", "deleted", "freed"}]
        /\ place' \in [Objects -> AllCells]
    BY <1>1 DEF Delete, TypeOK, AllCells
  <2> QED BY <1>1, <2>1, <2>2, <2>3, <2>4, <2>5 DEF Delete, TypeOK
<1>2. ASSUME NEW o \in Objects, NEW c \in AllCells, Create(o, c)
      PROVE  TypeOK'
  BY <1>2 DEF Create, ListsAfterMove, TypeOK, Objects
<1>3. ASSUME NEW o \in Objects, NEW c \in AllCells, Move(o, c)
      PROVE  TypeOK'
  BY <1>3 DEF Move, ListsAfterMove, TypeOK, Objects
<1>4. ASSUME NEW i \in Items, NEW c \in AllCells, Drop(i, c)
      PROVE  TypeOK'
  <2>1. Landing(i, c) \in AllCells
    BY <1>4 DEF Landing, TypeOK, Objects
  <2> QED BY <1>4, <2>1, WithoutFacts, CarriersFacts, ObjectsAssumption
          DEF Drop, TypeOK, Objects
<1>5. ASSUME NEW i \in Items, NEW k \in Items, NEW c \in AllCells, Put(i, k, c)
      PROVE  TypeOK'
  BY <1>5, WithoutFacts, CarriersFacts DEF Put, TypeOK, Objects
<1>6. ASSUME NEW i \in Items, NEW n \in Chars, Wear(i, n)
      PROVE  TypeOK'
  BY <1>6, WithoutFacts, CarriersFacts, ObjectsAssumption DEF Wear, TypeOK, Objects
<1>7. ASSUME NEW i \in Items, NEW n \in Chars, WearRefused(i, n)
      PROVE  TypeOK'
  BY <1>7, WithoutFacts, CarriersFacts, ObjectsAssumption
  DEF WearRefused, TypeOK, Objects
<1>8. ASSUME NEW i \in Items, NEW l \in Layers, Relayer(i, l)
      PROVE  TypeOK'
  BY <1>8, WithoutFacts DEF Relayer, TypeOK, Objects
<1>9. ASSUME NEW k \in Items, Decay(k)
      PROVE  TypeOK'
  <2>1. /\ contains[k] \subseteq Items
        /\ k \in Objects
        /\ place[k] \in AllCells
    BY <1>9 DEF TypeOK, Objects
  <2>2. cont' \in [Items -> Objects \cup {None}] /\ \A i \in Items : cont'[i] # i
    BY <1>9, ObjectsAssumption DEF Decay, TypeOK, Objects
  <2>3. /\ lists' \in [AllCells -> SUBSET Objects]
        /\ place' \in [Objects -> AllCells]
    BY <1>9, <2>1 DEF Decay, TypeOK, Objects, AllCells
  <2>4. /\ mem' \in [Objects -> {"unborn", "live", "deleted", "freed"}]
        /\ contains' \in [Items -> SUBSET Items]
        /\ refreshQueue' \subseteq Objects
        /\ deletionQueue' \subseteq Objects
    BY <1>9, <2>1 DEF Decay, TypeOK, Objects
  <2> QED BY <1>9, <2>2, <2>3, <2>4 DEF Decay, TypeOK
<1>10. CASE Refresh
  BY <1>10 DEF Refresh, TypeOK
<1>11. CASE SaveNewWorld
  BY <1>11, ObjectsAssumption DEF SaveNewWorld, Collected, TypeOK, Objects
<1>12. CASE CollectCommand
  BY <1>12, ObjectsAssumption DEF CollectCommand, Collected, TypeOK, Objects
<1>13. CASE UNCHANGED vars
  BY <1>13 DEF vars, TypeOK
<1> QED BY <1>1, <1>2, <1>3, <1>4, <1>5, <1>6, <1>7, <1>8, <1>9, <1>10, <1>11, <1>12, <1>13 DEF Next

(* Changing cells moves the object, and only it, between two lists.        *)
LEMMA MoveFacts ==
  ASSUME TypeOK, NEW o \in Objects, NEW c \in AllCells
  PROVE  /\ ListsAfterMove(o, c) \in [AllCells -> SUBSET Objects]
         /\ \A d \in AllCells : \A x \in Objects :
              x \in ListsAfterMove(o, c)[d] => x \in lists[d] \/ x = o
         /\ DebugRegions =>
              \A d \in AllCells : \A x \in Objects :
                x \in ListsAfterMove(o, c)[d] <=>
                  IF x = o /\ c # place[o]
                  THEN d = c \/ (d # place[o] /\ x \in lists[d])
                  ELSE x \in lists[d]
<1>1. place[o] \in AllCells
  BY DEF TypeOK
<1>2. CASE DebugRegions /\ c # place[o]
  BY <1>1, <1>2 DEF ListsAfterMove, TypeOK
<1>3. CASE ~(DebugRegions /\ c # place[o])
  BY <1>3 DEF ListsAfterMove, TypeOK
<1> QED BY <1>2, <1>3

LEMMA UnbornStep ==
  ASSUME TypeOK, UnbornNowhere, ContentsAgree, PaperdollSound, [Next]_vars
  PROVE  UnbornNowhere'
<1>1. ASSUME NEW o \in Objects, Delete(o)
      PROVE  UnbornNowhere'
  <2>1. /\ \A x \in Doomed(o) : Live(x)
        /\ \A c \in AllCells : ListsAfterDelete(o)[c] \subseteq lists[c]
    BY <1>1, DoomedFacts DEF ListsAfterDelete, TypeOK, Delete
  <2> QED BY <1>1, <2>1 DEF Delete, UnbornNowhere, TypeOK, Live, Objects
<1>2. ASSUME NEW o \in Objects, NEW c \in AllCells, Create(o, c)
      PROVE  UnbornNowhere'
  BY <1>2, MoveFacts DEF Create, UnbornNowhere, TypeOK, Live, OnGround, Objects
<1>3. ASSUME NEW o \in Objects, NEW c \in AllCells, Move(o, c)
      PROVE  UnbornNowhere'
  BY <1>3, MoveFacts DEF Move, UnbornNowhere, TypeOK, Live, OnGround, Objects
<1>4. ASSUME NEW i \in Items, NEW c \in AllCells, Drop(i, c)
      PROVE  UnbornNowhere'
  BY <1>4, WithoutFacts DEF Drop, UnbornNowhere, TypeOK, Live, Objects, Landing,
                           ListsAfterMove
<1>5. ASSUME NEW i \in Items, NEW k \in Items, NEW c \in AllCells, Put(i, k, c)
      PROVE  UnbornNowhere'
  BY <1>5, WithoutFacts DEF Put, UnbornNowhere, TypeOK, Live, Objects, Landing,
                           ListsAfterMove
<1>6. ASSUME NEW i \in Items, NEW n \in Chars, Wear(i, n)
      PROVE  UnbornNowhere'
  BY <1>6, WithoutFacts DEF Wear, UnbornNowhere, TypeOK, Live, Objects, Landing,
                           ListsAfterMove
<1>7. ASSUME NEW i \in Items, NEW n \in Chars, WearRefused(i, n)
      PROVE  UnbornNowhere'
  BY <1>7, WithoutFacts DEF WearRefused, UnbornNowhere, TypeOK, Live, Objects, Landing,
                           ListsAfterMove
<1>8. ASSUME NEW i \in Items, NEW l \in Layers, Relayer(i, l)
      PROVE  UnbornNowhere'
  BY <1>8, WithoutFacts DEF Relayer, UnbornNowhere, TypeOK, Live, Objects, Landing,
                           ListsAfterMove
<1>9. ASSUME NEW k \in Items, Decay(k)
      PROVE  UnbornNowhere'
  <2>1. \A i \in contains[k] : i \in Items /\ Live(i)
    BY <1>9 DEF ContentsAgree, TypeOK
  <2> QED BY <1>9, <2>1 DEF Decay, UnbornNowhere, TypeOK, Live, Objects
<1>10. CASE Refresh
  BY <1>10, WithoutFacts DEF Refresh, UnbornNowhere, TypeOK, Live, Objects, Landing,
                           ListsAfterMove
<1>11. CASE SaveNewWorld
  BY <1>11, WithoutFacts DEF SaveNewWorld, Collected, UnbornNowhere, TypeOK, Live, Objects, Landing,
                           ListsAfterMove
<1>12. CASE CollectCommand
  BY <1>12, WithoutFacts DEF CollectCommand, Collected, UnbornNowhere, TypeOK, Live, Objects, Landing,
                           ListsAfterMove
<1>13. CASE UNCHANGED vars
  BY <1>13, WithoutFacts DEF vars, UnbornNowhere, TypeOK, Live, Objects, Landing,
                           ListsAfterMove
<1> QED BY <1>1, <1>2, <1>3, <1>4, <1>5, <1>6, <1>7,
          <1>8, <1>9, <1>10, <1>11, <1>12, <1>13 DEF Next

LEMMA QueueStep ==
  ASSUME TypeOK, UnbornNowhere, ContentsAgree, PaperdollSound, QueueIsTheDeleted, [Next]_vars
  PROVE  QueueIsTheDeleted'
<1>1. ASSUME NEW o \in Objects, Delete(o)
      PROVE  QueueIsTheDeleted'
  BY <1>1, DoomedFacts DEF Delete, QueueIsTheDeleted, TypeOK, Live
<1>2. ASSUME NEW o \in Objects, NEW c \in AllCells, Create(o, c)
      PROVE  QueueIsTheDeleted'
  BY <1>2 DEF Create, QueueIsTheDeleted, TypeOK, Live, Objects
<1>3. ASSUME NEW o \in Objects, NEW c \in AllCells, Move(o, c)
      PROVE  QueueIsTheDeleted'
  BY <1>3 DEF Move, QueueIsTheDeleted, TypeOK, Live, Objects
<1>4. ASSUME NEW i \in Items, NEW c \in AllCells, Drop(i, c)
      PROVE  QueueIsTheDeleted'
  BY <1>4 DEF Drop, QueueIsTheDeleted, TypeOK, Live, Objects
<1>5. ASSUME NEW i \in Items, NEW k \in Items, NEW c \in AllCells, Put(i, k, c)
      PROVE  QueueIsTheDeleted'
  BY <1>5 DEF Put, QueueIsTheDeleted, TypeOK, Live, Objects
<1>6. ASSUME NEW i \in Items, NEW n \in Chars, Wear(i, n)
      PROVE  QueueIsTheDeleted'
  BY <1>6 DEF Wear, QueueIsTheDeleted, TypeOK, Live, Objects
<1>7. ASSUME NEW i \in Items, NEW n \in Chars, WearRefused(i, n)
      PROVE  QueueIsTheDeleted'
  BY <1>7 DEF WearRefused, QueueIsTheDeleted, TypeOK, Live, Objects
<1>8. ASSUME NEW i \in Items, NEW l \in Layers, Relayer(i, l)
      PROVE  QueueIsTheDeleted'
  BY <1>8 DEF Relayer, QueueIsTheDeleted, TypeOK, Live, Objects
<1>9. ASSUME NEW k \in Items, Decay(k)
      PROVE  QueueIsTheDeleted'
  BY <1>9 DEF Decay, QueueIsTheDeleted, TypeOK, Live, Objects
<1>10. CASE Refresh
  BY <1>10 DEF Refresh, QueueIsTheDeleted, TypeOK, Live, Objects
<1>11. CASE SaveNewWorld
  BY <1>11 DEF SaveNewWorld, Collected, QueueIsTheDeleted, TypeOK, Live, Objects
<1>12. CASE CollectCommand
  BY <1>12 DEF CollectCommand, Collected, QueueIsTheDeleted, TypeOK, Live, Objects
<1>13. CASE UNCHANGED vars
  BY <1>13 DEF vars, QueueIsTheDeleted, TypeOK, Live, Objects
<1> QED BY <1>1, <1>2, <1>3, <1>4, <1>5, <1>6, <1>7,
          <1>8, <1>9, <1>10, <1>11, <1>12, <1>13 DEF Next

LEMMA ContentsStep ==
  ASSUME TypeOK, UnbornNowhere, ContentsAgree, PaperdollSound, QueueIsTheDeleted, [Next]_vars
  PROVE  ContentsAgree'
<1>1. ASSUME NEW o \in Objects, Delete(o)
      PROVE  ContentsAgree'
  <2>1. /\ \A k \in Doomed(o) \cap Items : contains[k] \subseteq Doomed(o)
        /\ \A x \in Doomed(o) : Live(x)
    BY <1>1, DoomedFacts DEF Delete
  <2>2. ASSUME NEW k \in Items, NEW i \in Items, i \in contains'[k]
        PROVE  Live(k)' /\ Live(i)' /\ cont'[i] = k
    <3>1. /\ i \in contains[k]
          /\ Live(k) /\ Live(i) /\ cont[i] = k
          /\ i \notin Doomed(o)
      BY <1>1, <2>2 DEF Delete, ContainsAfterDelete, ContentsAgree
    <3>2. k \notin Doomed(o)
      BY <2>1, <3>1
    <3> QED BY <1>1, <3>1, <3>2 DEF Delete, Live, Objects
  <2>3. ASSUME NEW i \in Items, Live(i)', cont'[i] \in Items
        PROVE  i \in contains'[cont'[i]]
    <3>1. i \notin Doomed(o) /\ Live(i) /\ cont'[i] = cont[i]
      BY <1>1, <2>3 DEF Delete, Live, Objects
    <3> QED BY <1>1, <2>3, <3>1 DEF Delete, ContainsAfterDelete, ContentsAgree
  <2> QED BY <2>2, <2>3 DEF ContentsAgree
<1>2. ASSUME NEW o \in Objects, NEW c \in AllCells, Create(o, c)
      PROVE  ContentsAgree'
  BY <1>2, WithoutFacts, ObjectsAssumption
  DEF Create, ContentsAgree, TypeOK, Live, Objects, QueueIsTheDeleted, UnbornNowhere
<1>3. ASSUME NEW o \in Objects, NEW c \in AllCells, Move(o, c)
      PROVE  ContentsAgree'
  BY <1>3, WithoutFacts, ObjectsAssumption
  DEF Move, ContentsAgree, TypeOK, Live, Objects, QueueIsTheDeleted, UnbornNowhere
<1>4. ASSUME NEW i \in Items, NEW c \in AllCells, Drop(i, c)
      PROVE  ContentsAgree'
  BY <1>4, WithoutFacts, ObjectsAssumption
  DEF Drop, ContentsAgree, TypeOK, Live, Objects, QueueIsTheDeleted, UnbornNowhere
<1>5. ASSUME NEW i \in Items, NEW k \in Items, NEW c \in AllCells, Put(i, k, c)
      PROVE  ContentsAgree'
  BY <1>5, WithoutFacts, ObjectsAssumption
  DEF Put, ContentsAgree, TypeOK, Live, Objects, QueueIsTheDeleted, UnbornNowhere
<1>6. ASSUME NEW i \in Items, NEW n \in Chars, Wear(i, n)
      PROVE  ContentsAgree'
  BY <1>6, WithoutFacts, ObjectsAssumption
  DEF Wear, ContentsAgree, TypeOK, Live, Objects, QueueIsTheDeleted, UnbornNowhere
<1>7. ASSUME NEW i \in Items, NEW n \in Chars, WearRefused(i, n)
      PROVE  ContentsAgree'
  BY <1>7, WithoutFacts, ObjectsAssumption
  DEF WearRefused, ContentsAgree, TypeOK, Live, Objects, QueueIsTheDeleted, UnbornNowhere
<1>8. ASSUME NEW i \in Items, NEW l \in Layers, Relayer(i, l)
      PROVE  ContentsAgree'
  BY <1>8, WithoutFacts, ObjectsAssumption
  DEF Relayer, ContentsAgree, TypeOK, Live, Objects, QueueIsTheDeleted, UnbornNowhere
<1>9. ASSUME NEW k \in Items, Decay(k)
      PROVE  ContentsAgree'
  <2>1. ASSUME NEW h \in Items, NEW i \in Items, i \in contains'[h]
        PROVE  Live(h)' /\ Live(i)' /\ cont'[i] = h
    <3>1. h # k /\ i \in contains[h] /\ Live(h) /\ Live(i) /\ cont[i] = h
      BY <1>9, <2>1 DEF Decay, ContentsAgree, TypeOK
    <3>2. i # k /\ i \notin contains[k]
      BY <1>9, <3>1, ObjectsAssumption DEF Decay, ContentsAgree, Objects
    <3> QED BY <1>9, <3>1, <3>2 DEF Decay, Live, TypeOK, Objects
  <2>2. ASSUME NEW i \in Items, Live(i)', cont'[i] \in Items
        PROVE  i \in contains'[cont'[i]]
    <3>1. i \notin contains[k] /\ cont'[i] = cont[i]
      BY <1>9, <2>2, ObjectsAssumption DEF Decay, Objects
    <3>2. Live(i)
      BY <1>9, <2>2 DEF Decay, Live, TypeOK, Objects
    <3> QED BY <1>9, <2>2, <3>1, <3>2 DEF Decay, ContentsAgree, TypeOK
  <2> QED BY <2>1, <2>2 DEF ContentsAgree
<1>10. CASE Refresh
  BY <1>10, WithoutFacts, ObjectsAssumption
  DEF Refresh, ContentsAgree, TypeOK, Live, Objects, QueueIsTheDeleted, UnbornNowhere
<1>11. CASE SaveNewWorld
  BY <1>11, WithoutFacts, ObjectsAssumption
  DEF SaveNewWorld, Collected, ContentsAgree, TypeOK, Live, Objects, QueueIsTheDeleted, UnbornNowhere
<1>12. CASE CollectCommand
  BY <1>12, WithoutFacts, ObjectsAssumption
  DEF CollectCommand, Collected, ContentsAgree, TypeOK, Live, Objects, QueueIsTheDeleted, UnbornNowhere
<1>13. CASE UNCHANGED vars
  BY <1>13, WithoutFacts, ObjectsAssumption
  DEF vars, ContentsAgree, TypeOK, Live, Objects, QueueIsTheDeleted, UnbornNowhere
<1> QED BY <1>1, <1>2, <1>3, <1>4, <1>5, <1>6, <1>7,
          <1>8, <1>9, <1>10, <1>11, <1>12, <1>13 DEF Next

LEMMA PaperdollStep ==
  ASSUME TypeOK, UnbornNowhere, ContentsAgree, PaperdollSound, QueueIsTheDeleted, [Next]_vars
  PROVE  PaperdollSound'
<1>1. ASSUME NEW o \in Objects, Delete(o)
      PROVE  PaperdollSound'
  <2>1. /\ \A m \in Doomed(o) \cap Chars : \A l \in Layers :
             wears[m][l] # None => wears[m][l] \in Doomed(o)
        /\ \A x \in Doomed(o) : Live(x)
    BY <1>1, DoomedFacts DEF Delete
  <2>2. ASSUME NEW m \in Chars, NEW l \in Layers, wears'[m][l] # None
        PROVE  (LET i == wears[m][l]
                IN  Live(m) /\ Live(i) /\ cont[i] = m /\ layer[i] = l)'
    <3>1. wears'[m][l] = wears[m][l]
      BY <1>1, <2>2 DEF Delete, WearsAfterDelete
    <3>2. PICK w \in Items : /\ w = wears[m][l] /\ Live(m) /\ Live(w)
                            /\ cont[w] = m /\ layer[w] = l
      BY <2>2, <3>1 DEF PaperdollSound, TypeOK
    <3>3. w \notin Doomed(o)
      BY <1>1, <2>2, <3>2 DEF Delete, WearsAfterDelete
    <3>4. m \notin Doomed(o)
      BY <2>1, <2>2, <3>1, <3>2, <3>3
    <3>5. Live(m)' /\ Live(w)'
      BY <1>1, <3>2, <3>3, <3>4 DEF Delete, Live, Objects
    <3> QED BY <1>1, <3>1, <3>2, <3>5 DEF Delete, Live
  <2> QED BY <2>2 DEF PaperdollSound
<1>2. ASSUME NEW o \in Objects, NEW c \in AllCells, Create(o, c)
      PROVE  PaperdollSound'
  BY <1>2, WithoutFacts, ObjectsAssumption
  DEF Create, PaperdollSound, TypeOK, Live, Objects, QueueIsTheDeleted
<1>3. ASSUME NEW o \in Objects, NEW c \in AllCells, Move(o, c)
      PROVE  PaperdollSound'
  BY <1>3, WithoutFacts, ObjectsAssumption
  DEF Move, PaperdollSound, TypeOK, Live, Objects, QueueIsTheDeleted
<1>4. ASSUME NEW i \in Items, NEW c \in AllCells, Drop(i, c)
      PROVE  PaperdollSound'
  BY <1>4, WithoutFacts, ObjectsAssumption
  DEF Drop, PaperdollSound, TypeOK, Live, Objects, QueueIsTheDeleted
<1>5. ASSUME NEW i \in Items, NEW k \in Items, NEW c \in AllCells, Put(i, k, c)
      PROVE  PaperdollSound'
  BY <1>5, WithoutFacts, ObjectsAssumption
  DEF Put, PaperdollSound, TypeOK, Live, Objects, QueueIsTheDeleted
<1>6. ASSUME NEW i \in Items, NEW n \in Chars, Wear(i, n)
      PROVE  PaperdollSound'
  BY <1>6, WithoutFacts, ObjectsAssumption
  DEF Wear, PaperdollSound, TypeOK, Live, Objects, QueueIsTheDeleted
<1>7. ASSUME NEW i \in Items, NEW n \in Chars, WearRefused(i, n)
      PROVE  PaperdollSound'
  BY <1>7, WithoutFacts, ObjectsAssumption
  DEF WearRefused, PaperdollSound, TypeOK, Live, Objects, QueueIsTheDeleted
<1>8. ASSUME NEW i \in Items, NEW l \in Layers, Relayer(i, l)
      PROVE  PaperdollSound'
  BY <1>8, WithoutFacts, ObjectsAssumption
  DEF Relayer, PaperdollSound, TypeOK, Live, Objects, QueueIsTheDeleted
<1>9. ASSUME NEW k \in Items, Decay(k)
      PROVE  PaperdollSound'
  <2>1. ASSUME NEW m \in Chars, NEW l \in Layers, wears'[m][l] # None
        PROVE  (LET i == wears[m][l]
                IN  Live(m) /\ Live(i) /\ cont[i] = m /\ layer[i] = l)'
    <3>1. wears'[m][l] = wears[m][l]
      BY <1>9 DEF Decay
    <3>2. PICK w \in Items : /\ w = wears[m][l] /\ Live(m) /\ Live(w)
                            /\ cont[w] = m /\ layer[w] = l
      BY <2>1, <3>1 DEF PaperdollSound, TypeOK
    <3>3. w # k /\ m # k
      BY <1>9, <3>2, ObjectsAssumption DEF Decay, Objects
    <3>4. w \notin contains[k]
      BY <1>9, <3>2, <3>3, ObjectsAssumption DEF ContentsAgree
    <3>5. Live(m)' /\ Live(w)'
      BY <1>9, <3>2, <3>3 DEF Decay, Live, TypeOK, Objects
    <3> QED BY <1>9, <3>1, <3>2, <3>4, <3>5 DEF Decay, Live
  <2> QED BY <2>1 DEF PaperdollSound
<1>10. CASE Refresh
  BY <1>10, WithoutFacts, ObjectsAssumption
  DEF Refresh, PaperdollSound, TypeOK, Live, Objects, QueueIsTheDeleted
<1>11. CASE SaveNewWorld
  BY <1>11, WithoutFacts, ObjectsAssumption
  DEF SaveNewWorld, Collected, PaperdollSound, TypeOK, Live, Objects, QueueIsTheDeleted
<1>12. CASE CollectCommand
  BY <1>12, WithoutFacts, ObjectsAssumption
  DEF CollectCommand, Collected, PaperdollSound, TypeOK, Live, Objects, QueueIsTheDeleted
<1>13. CASE UNCHANGED vars
  BY <1>13, WithoutFacts, ObjectsAssumption
  DEF vars, PaperdollSound, TypeOK, Live, Objects, QueueIsTheDeleted
<1> QED BY <1>1, <1>2, <1>3, <1>4, <1>5, <1>6, <1>7,
          <1>8, <1>9, <1>10, <1>11, <1>12, <1>13 DEF Next

LEMMA QueuedStep ==
  ASSUME TypeOK, UnbornNowhere, ContentsAgree, PaperdollSound, QueueIsTheDeleted, NoDeletedItemQueued, [Next]_vars
  PROVE  NoDeletedItemQueued'
<1>1. ASSUME NEW o \in Objects, Delete(o)
      PROVE  NoDeletedItemQueued'
  BY <1>1, DoomedFacts, CarriersFacts, ObjectsAssumption
  DEF Delete, RefreshAfterDelete, NoDeletedItemQueued, TypeOK, Live, Objects
<1>2. ASSUME NEW o \in Objects, NEW c \in AllCells, Create(o, c)
      PROVE  NoDeletedItemQueued'
  BY <1>2, CarriersFacts, ObjectsAssumption
  DEF Create, NoDeletedItemQueued, TypeOK, Live, Objects, QueueIsTheDeleted
<1>3. ASSUME NEW o \in Objects, NEW c \in AllCells, Move(o, c)
      PROVE  NoDeletedItemQueued'
  BY <1>3, CarriersFacts, ObjectsAssumption
  DEF Move, NoDeletedItemQueued, TypeOK, Live, Objects, QueueIsTheDeleted
<1>4. ASSUME NEW i \in Items, NEW c \in AllCells, Drop(i, c)
      PROVE  NoDeletedItemQueued'
  BY <1>4, CarriersFacts, ObjectsAssumption
  DEF Drop, NoDeletedItemQueued, TypeOK, Live, Objects, QueueIsTheDeleted
<1>5. ASSUME NEW i \in Items, NEW k \in Items, NEW c \in AllCells, Put(i, k, c)
      PROVE  NoDeletedItemQueued'
  BY <1>5, CarriersFacts, ObjectsAssumption
  DEF Put, NoDeletedItemQueued, TypeOK, Live, Objects, QueueIsTheDeleted
<1>6. ASSUME NEW i \in Items, NEW n \in Chars, Wear(i, n)
      PROVE  NoDeletedItemQueued'
  BY <1>6, CarriersFacts, ObjectsAssumption
  DEF Wear, NoDeletedItemQueued, TypeOK, Live, Objects, QueueIsTheDeleted
<1>7. ASSUME NEW i \in Items, NEW n \in Chars, WearRefused(i, n)
      PROVE  NoDeletedItemQueued'
  BY <1>7, CarriersFacts, ObjectsAssumption
  DEF WearRefused, NoDeletedItemQueued, TypeOK, Live, Objects, QueueIsTheDeleted
<1>8. ASSUME NEW i \in Items, NEW l \in Layers, Relayer(i, l)
      PROVE  NoDeletedItemQueued'
  BY <1>8, CarriersFacts, ObjectsAssumption
  DEF Relayer, NoDeletedItemQueued, TypeOK, Live, Objects, QueueIsTheDeleted
<1>9. ASSUME NEW k \in Items, Decay(k)
      PROVE  NoDeletedItemQueued'
  <2>1. \A i \in contains[k] : i \in Items /\ Live(i) /\ i # k
    BY <1>9, ObjectsAssumption DEF Decay, ContentsAgree, TypeOK, Objects
  <2> QED BY <1>9, <2>1 DEF Decay, NoDeletedItemQueued, TypeOK, Live, Objects
<1>10. CASE Refresh
  BY <1>10, CarriersFacts, ObjectsAssumption
  DEF Refresh, NoDeletedItemQueued, TypeOK, Live, Objects, QueueIsTheDeleted
<1>11. CASE SaveNewWorld
  BY <1>11, CarriersFacts, ObjectsAssumption
  DEF SaveNewWorld, Collected, NoDeletedItemQueued, TypeOK, Live, Objects, QueueIsTheDeleted
<1>12. CASE CollectCommand
  BY <1>12, CarriersFacts, ObjectsAssumption
  DEF CollectCommand, Collected, NoDeletedItemQueued, TypeOK, Live, Objects, QueueIsTheDeleted
<1>13. CASE UNCHANGED vars
  BY <1>13, CarriersFacts, ObjectsAssumption
  DEF vars, NoDeletedItemQueued, TypeOK, Live, Objects, QueueIsTheDeleted
<1> QED BY <1>1, <1>2, <1>3, <1>4, <1>5, <1>6, <1>7,
          <1>8, <1>9, <1>10, <1>11, <1>12, <1>13 DEF Next

(* Where every worn item is in its paperdoll, taking one item off leaves   *)
(* the others in theirs.                                                   *)
LEMMA OthersStayWorn ==
  ASSUME WorldInv, PaperdollComplete, NEW i \in Items, Live(i),
         NEW j \in Items, j # i, Live(j), cont[j] \in Chars
  PROVE  WearsWithout(i)[cont[j]][layer[j]] = j
<1>1. wears[cont[j]][layer[j]] = j /\ layer[j] \in Layers
  BY DEF PaperdollComplete, WorldInv, TypeOK
<1>2. cont[i] = cont[j] => wears[cont[j]][layer[i]] = i
  BY DEF PaperdollComplete
<1> QED BY <1>1, <1>2 DEF WearsWithout

LEMMA CompleteStep ==
  ASSUME WorldInv, ~Tweaks, PaperdollComplete, [Next]_vars
  PROVE  PaperdollComplete'
<1>1. ASSUME NEW o \in Objects, Delete(o)
      PROVE  PaperdollComplete'
  <2>1. /\ \A x \in Doomed(o) : Live(x)
        /\ \A x \in Doomed(o) : x # o => x \in Items
    BY <1>1, DoomedFacts DEF Delete, WorldInv
  <2>2. ASSUME NEW i \in Items, Live(i)', cont'[i] \in Chars
        PROVE  wears'[cont'[i]][layer'[i]] = i
    <3>1. /\ i \notin Doomed(o) /\ Live(i)
          /\ cont'[i] = cont[i] /\ layer'[i] = layer[i]
      BY <1>1, <2>2 DEF Delete, Live, Objects
    <3>2. wears[cont[i]][layer[i]] = i
      BY <2>2, <3>1 DEF PaperdollComplete
    <3>3. ASSUME NEW j \in Doomed(o) \cap Items,
                 cont[j] = cont[i], layer[j] = layer[i]
          PROVE  FALSE
      <4>1. wears[cont[j]][layer[j]] = j
        BY <2>1, <2>2, <3>1, <3>3 DEF PaperdollComplete
      <4> QED BY <3>1, <3>2, <3>3, <4>1
    <3>4. layer[i] \in Layers
      BY DEF WorldInv, TypeOK
    <3> QED BY <1>1, <2>2, <3>1, <3>2, <3>3, <3>4 DEF Delete, WearsAfterDelete
  <2> QED BY <2>2 DEF PaperdollComplete
<1>2. ASSUME NEW o \in Objects, NEW c \in AllCells, Create(o, c)
      PROVE  PaperdollComplete'
  BY <1>2, WithoutFacts, ObjectsAssumption
  DEF Create, WorldInv, PaperdollComplete, PaperdollSound, TypeOK, Live, Objects,
      QueueIsTheDeleted, UnbornNowhere
<1>3. ASSUME NEW o \in Objects, NEW c \in AllCells, Move(o, c)
      PROVE  PaperdollComplete'
  BY <1>3, WithoutFacts, ObjectsAssumption
  DEF Move, WorldInv, PaperdollComplete, PaperdollSound, TypeOK, Live, Objects,
      QueueIsTheDeleted, UnbornNowhere
<1>4. ASSUME NEW i \in Items, NEW c \in AllCells, Drop(i, c)
      PROVE  PaperdollComplete'
  <2>1. Live(i) /\ WearsWithout(i) \in [Chars -> [Layers -> Items \cup {None}]]
    BY <1>4, WithoutFacts DEF Drop, WorldInv
  <2>2. ASSUME NEW j \in Items, Live(j)', cont'[j] \in Chars
        PROVE  wears'[cont'[j]][layer'[j]] = j
    <3>1. j # i /\ Live(j) /\ cont'[j] = cont[j] /\ layer'[j] = layer[j]
      BY <1>4, <2>2, ObjectsAssumption DEF Drop, Live, WorldInv, TypeOK, Objects
    <3>2. WearsWithout(i)[cont[j]][layer[j]] = j
      BY <2>1, <2>2, <3>1, OthersStayWorn
    <3> QED BY <1>4, <3>1, <3>2 DEF Drop
  <2> QED BY <2>2 DEF PaperdollComplete
<1>5. ASSUME NEW i \in Items, NEW k \in Items, NEW c \in AllCells, Put(i, k, c)
      PROVE  PaperdollComplete'
  <2>1. Live(i) /\ WearsWithout(i) \in [Chars -> [Layers -> Items \cup {None}]]
    BY <1>5, WithoutFacts DEF Put, WorldInv
  <2>2. ASSUME NEW j \in Items, Live(j)', cont'[j] \in Chars
        PROVE  wears'[cont'[j]][layer'[j]] = j
    <3>1. j # i /\ Live(j) /\ cont'[j] = cont[j] /\ layer'[j] = layer[j]
      BY <1>5, <2>2, ObjectsAssumption DEF Put, Live, WorldInv, TypeOK, Objects
    <3>2. WearsWithout(i)[cont[j]][layer[j]] = j
      BY <2>1, <2>2, <3>1, OthersStayWorn
    <3> QED BY <1>5, <3>1, <3>2 DEF Put
  <2> QED BY <2>2 DEF PaperdollComplete
<1>6. ASSUME NEW i \in Items, NEW n \in Chars, Wear(i, n)
      PROVE  PaperdollComplete'
  <2>1. Live(i) /\ WearsWithout(i) \in [Chars -> [Layers -> Items \cup {None}]]
    BY <1>6, WithoutFacts DEF Wear, WorldInv
  <2>2. ASSUME NEW j \in Items, Live(j)', cont'[j] \in Chars
        PROVE  wears'[cont'[j]][layer'[j]] = j
    <3>1. CASE j = i
      BY <1>6, <2>1, <3>1 DEF Wear, WorldInv, TypeOK
    <3>2. CASE j # i
      <4>1. Live(j) /\ cont'[j] = cont[j] /\ layer'[j] = layer[j]
        BY <1>6, <2>2, <3>2 DEF Wear, Live, WorldInv, TypeOK
      <4>2. WearsWithout(i)[cont[j]][layer[j]] = j /\ layer[j] \in Layers
        BY <2>1, <2>2, <3>2, <4>1, OthersStayWorn DEF WorldInv, TypeOK
      <4>3. ~(cont[j] = n /\ layer[j] = layer[i])
        BY <1>6, <4>2, ObjectsAssumption DEF Wear, Objects
      <4> QED BY <1>6, <2>1, <2>2, <4>1, <4>2, <4>3 DEF Wear, WorldInv, TypeOK
    <3> QED BY <3>1, <3>2
  <2> QED BY <2>2 DEF PaperdollComplete
<1>7. ASSUME NEW i \in Items, NEW n \in Chars, WearRefused(i, n)
      PROVE  PaperdollComplete'
  <2>1. Live(i) /\ WearsWithout(i) \in [Chars -> [Layers -> Items \cup {None}]]
    BY <1>7, WithoutFacts DEF WearRefused, WorldInv
  <2>2. ASSUME NEW j \in Items, Live(j)', cont'[j] \in Chars
        PROVE  wears'[cont'[j]][layer'[j]] = j
    <3>1. j # i /\ Live(j) /\ cont'[j] = cont[j] /\ layer'[j] = layer[j]
      BY <1>7, <2>2, ObjectsAssumption DEF WearRefused, Live, WorldInv, TypeOK, Objects
    <3>2. WearsWithout(i)[cont[j]][layer[j]] = j
      BY <2>1, <2>2, <3>1, OthersStayWorn
    <3> QED BY <1>7, <3>1, <3>2 DEF WearRefused
  <2> QED BY <2>2 DEF PaperdollComplete
<1>8. ASSUME NEW i \in Items, NEW l \in Layers, Relayer(i, l)
      PROVE  PaperdollComplete'
  BY <1>8 DEF Relayer
<1>9. ASSUME NEW k \in Items, Decay(k)
      PROVE  PaperdollComplete'
  BY <1>9, WithoutFacts, ObjectsAssumption
  DEF Decay, WorldInv, PaperdollComplete, PaperdollSound, TypeOK, Live, Objects,
      QueueIsTheDeleted, UnbornNowhere
<1>10. CASE Refresh
  BY <1>10, WithoutFacts, ObjectsAssumption
  DEF Refresh, WorldInv, PaperdollComplete, PaperdollSound, TypeOK, Live, Objects,
      QueueIsTheDeleted, UnbornNowhere
<1>11. CASE SaveNewWorld
  BY <1>11, WithoutFacts, ObjectsAssumption
  DEF SaveNewWorld, Collected, WorldInv, PaperdollComplete, PaperdollSound, TypeOK, Live, Objects,
      QueueIsTheDeleted, UnbornNowhere
<1>12. CASE CollectCommand
  BY <1>12, WithoutFacts, ObjectsAssumption
  DEF CollectCommand, Collected, WorldInv, PaperdollComplete, PaperdollSound, TypeOK, Live, Objects,
      QueueIsTheDeleted, UnbornNowhere
<1>13. CASE UNCHANGED vars
  BY <1>13, WithoutFacts, ObjectsAssumption
  DEF vars, WorldInv, PaperdollComplete, PaperdollSound, TypeOK, Live, Objects,
      QueueIsTheDeleted, UnbornNowhere
<1> QED BY <1>1, <1>2, <1>3, <1>4, <1>5, <1>6, <1>7,
          <1>8, <1>9, <1>10, <1>11, <1>12, <1>13 DEF Next

LEMMA FreedStep ==
  ASSUME WorldInv, ~Commands, CellsNeverHoldFreed, [Next]_vars
  PROVE  CellsNeverHoldFreed'
<1>1. ASSUME NEW o \in Objects, Delete(o)
      PROVE  CellsNeverHoldFreed'
  <2>1. /\ \A x \in Doomed(o) : Live(x)
        /\ \A c \in AllCells : ListsAfterDelete(o)[c] \subseteq lists[c]
    BY <1>1, DoomedFacts DEF ListsAfterDelete, WorldInv, TypeOK, Delete
  <2> QED BY <1>1, <2>1 DEF Delete, WorldInv, CellsNeverHoldFreed, TypeOK, Live, Objects
<1>2. ASSUME NEW o \in Objects, NEW c \in AllCells, Create(o, c)
      PROVE  CellsNeverHoldFreed'
  BY <1>2, MoveFacts DEF Create, WorldInv, CellsNeverHoldFreed, TypeOK, Live, OnGround, Objects,
                        UnbornNowhere
<1>3. ASSUME NEW o \in Objects, NEW c \in AllCells, Move(o, c)
      PROVE  CellsNeverHoldFreed'
  BY <1>3, MoveFacts DEF Move, WorldInv, CellsNeverHoldFreed, TypeOK, Live, OnGround, Objects,
                        UnbornNowhere
<1>4. ASSUME NEW i \in Items, NEW c \in AllCells, Drop(i, c)
      PROVE  CellsNeverHoldFreed'
  BY <1>4, WithoutFacts, ObjectsAssumption
  DEF Drop, WorldInv, CellsNeverHoldFreed, TypeOK, Live, Objects, Landing,
      QueueIsTheDeleted, UnbornNowhere, ListsAfterMove
<1>5. ASSUME NEW i \in Items, NEW k \in Items, NEW c \in AllCells, Put(i, k, c)
      PROVE  CellsNeverHoldFreed'
  BY <1>5, WithoutFacts, ObjectsAssumption
  DEF Put, WorldInv, CellsNeverHoldFreed, TypeOK, Live, Objects, Landing,
      QueueIsTheDeleted, UnbornNowhere, ListsAfterMove
<1>6. ASSUME NEW i \in Items, NEW n \in Chars, Wear(i, n)
      PROVE  CellsNeverHoldFreed'
  BY <1>6, WithoutFacts, ObjectsAssumption
  DEF Wear, WorldInv, CellsNeverHoldFreed, TypeOK, Live, Objects, Landing,
      QueueIsTheDeleted, UnbornNowhere, ListsAfterMove
<1>7. ASSUME NEW i \in Items, NEW n \in Chars, WearRefused(i, n)
      PROVE  CellsNeverHoldFreed'
  BY <1>7, WithoutFacts, ObjectsAssumption
  DEF WearRefused, WorldInv, CellsNeverHoldFreed, TypeOK, Live, Objects, Landing,
      QueueIsTheDeleted, UnbornNowhere, ListsAfterMove
<1>8. ASSUME NEW i \in Items, NEW l \in Layers, Relayer(i, l)
      PROVE  CellsNeverHoldFreed'
  BY <1>8, WithoutFacts, ObjectsAssumption
  DEF Relayer, WorldInv, CellsNeverHoldFreed, TypeOK, Live, Objects, Landing,
      QueueIsTheDeleted, UnbornNowhere, ListsAfterMove
<1>9. ASSUME NEW k \in Items, Decay(k)
      PROVE  CellsNeverHoldFreed'
  <2>1. \A i \in contains[k] : i \in Items /\ Live(i)
    BY <1>9 DEF WorldInv, ContentsAgree, TypeOK
  <2> QED BY <1>9, <2>1 DEF Decay, WorldInv, CellsNeverHoldFreed, TypeOK, Live, Objects
<1>10. CASE Refresh
  BY <1>10, WithoutFacts, ObjectsAssumption
  DEF Refresh, WorldInv, CellsNeverHoldFreed, TypeOK, Live, Objects, Landing,
      QueueIsTheDeleted, UnbornNowhere, ListsAfterMove
<1>11. CASE SaveNewWorld
  BY <1>11, WithoutFacts, ObjectsAssumption
  DEF SaveNewWorld, Collected, WorldInv, CellsNeverHoldFreed, TypeOK, Live, Objects, Landing,
      QueueIsTheDeleted, UnbornNowhere, ListsAfterMove
<1>12. CASE CollectCommand
  BY <1>12 DEF CollectCommand
<1>13. CASE UNCHANGED vars
  BY <1>13, WithoutFacts, ObjectsAssumption
  DEF vars, WorldInv, CellsNeverHoldFreed, TypeOK, Live, Objects, Landing,
      QueueIsTheDeleted, UnbornNowhere, ListsAfterMove
<1> QED BY <1>1, <1>2, <1>3, <1>4, <1>5, <1>6, <1>7,
          <1>8, <1>9, <1>10, <1>11, <1>12, <1>13 DEF Next

LEMMA ListedStep ==
  ASSUME WorldInv, DebugRegions, ListedWhereItStands, [Next]_vars
  PROVE  ListedWhereItStands'
<1>1. ASSUME NEW o \in Objects, Delete(o)
      PROVE  ListedWhereItStands'
  <2>1. \A c \in AllCells : ListsAfterDelete(o)[c] \subseteq lists[c]
    BY DEF ListsAfterDelete, WorldInv, TypeOK
  <2> QED BY <1>1, <2>1 DEF Delete, WorldInv, ListedWhereItStands, TypeOK, Live,
                         OnGround, Objects
<1>2. ASSUME NEW o \in Objects, NEW c \in AllCells, Create(o, c)
      PROVE  ListedWhereItStands'
  BY <1>2, MoveFacts DEF Create, WorldInv, ListedWhereItStands, TypeOK, Live, OnGround, Objects,
                        UnbornNowhere
<1>3. ASSUME NEW o \in Objects, NEW c \in AllCells, Move(o, c)
      PROVE  ListedWhereItStands'
  BY <1>3, MoveFacts DEF Move, WorldInv, ListedWhereItStands, TypeOK, Live, OnGround, Objects,
                        UnbornNowhere
<1>4. ASSUME NEW i \in Items, NEW c \in AllCells, Drop(i, c)
      PROVE  ListedWhereItStands'
  BY <1>4, WithoutFacts, ObjectsAssumption
  DEF Drop, WorldInv, ListedWhereItStands, TypeOK, Live, OnGround, Objects,
      Landing, QueueIsTheDeleted, UnbornNowhere, ListsAfterMove, ListsWithout
<1>5. ASSUME NEW i \in Items, NEW k \in Items, NEW c \in AllCells, Put(i, k, c)
      PROVE  ListedWhereItStands'
  BY <1>5, WithoutFacts, ObjectsAssumption
  DEF Put, WorldInv, ListedWhereItStands, TypeOK, Live, OnGround, Objects,
      Landing, QueueIsTheDeleted, UnbornNowhere, ListsAfterMove, ListsWithout
<1>6. ASSUME NEW i \in Items, NEW n \in Chars, Wear(i, n)
      PROVE  ListedWhereItStands'
  BY <1>6, WithoutFacts, ObjectsAssumption
  DEF Wear, WorldInv, ListedWhereItStands, TypeOK, Live, OnGround, Objects,
      Landing, QueueIsTheDeleted, UnbornNowhere, ListsAfterMove, ListsWithout
<1>7. ASSUME NEW i \in Items, NEW n \in Chars, WearRefused(i, n)
      PROVE  ListedWhereItStands'
  BY <1>7, WithoutFacts, ObjectsAssumption
  DEF WearRefused, WorldInv, ListedWhereItStands, TypeOK, Live, OnGround, Objects,
      Landing, QueueIsTheDeleted, UnbornNowhere, ListsAfterMove, ListsWithout
<1>8. ASSUME NEW i \in Items, NEW l \in Layers, Relayer(i, l)
      PROVE  ListedWhereItStands'
  BY <1>8, WithoutFacts, ObjectsAssumption
  DEF Relayer, WorldInv, ListedWhereItStands, TypeOK, Live, OnGround, Objects,
      Landing, QueueIsTheDeleted, UnbornNowhere, ListsAfterMove, ListsWithout
<1>9. ASSUME NEW k \in Items, Decay(k)
      PROVE  ListedWhereItStands'
  <2>1. ASSUME NEW d \in AllCells, NEW x \in lists'[d], Live(x)'
        PROVE  OnGround(x)' /\ place'[x] = d
    <3>1. x \in Objects /\ x # k /\ Live(x)
      BY <1>9, <2>1 DEF Decay, Live, WorldInv, TypeOK, Objects
    <3>2. CASE x \in contains[k]
      <4>1. x \in Items /\ cont[x] = k /\ k # None
        BY <3>2, ObjectsAssumption DEF WorldInv, ContentsAgree, TypeOK, Objects
      <4>2. x \notin lists[d]
        BY <3>1, <4>1 DEF ListedWhereItStands, OnGround
      <4> QED BY <1>9, <2>1, <3>1, <3>2, <4>1, <4>2
              DEF Decay, OnGround, Landing, WorldInv, TypeOK
    <3>3. CASE x \notin contains[k]
      <4>1. x \in lists[d]
        BY <1>9, <2>1, <3>3 DEF Decay
      <4> QED BY <1>9, <3>1, <3>3, <4>1 DEF Decay, ListedWhereItStands, OnGround
    <3> QED BY <3>2, <3>3
  <2> QED BY <2>1 DEF ListedWhereItStands
<1>10. CASE Refresh
  BY <1>10, WithoutFacts, ObjectsAssumption
  DEF Refresh, WorldInv, ListedWhereItStands, TypeOK, Live, OnGround, Objects,
      Landing, QueueIsTheDeleted, UnbornNowhere, ListsAfterMove, ListsWithout
<1>11. CASE SaveNewWorld
  BY <1>11, WithoutFacts, ObjectsAssumption
  DEF SaveNewWorld, Collected, WorldInv, ListedWhereItStands, TypeOK, Live, OnGround, Objects,
      Landing, QueueIsTheDeleted, UnbornNowhere, ListsAfterMove, ListsWithout
<1>12. CASE CollectCommand
  BY <1>12, WithoutFacts, ObjectsAssumption
  DEF CollectCommand, Collected, WorldInv, ListedWhereItStands, TypeOK, Live, OnGround, Objects,
      Landing, QueueIsTheDeleted, UnbornNowhere, ListsAfterMove, ListsWithout
<1>13. CASE UNCHANGED vars
  BY <1>13, WithoutFacts, ObjectsAssumption
  DEF vars, WorldInv, ListedWhereItStands, TypeOK, Live, OnGround, Objects,
      Landing, QueueIsTheDeleted, UnbornNowhere, ListsAfterMove, ListsWithout
<1> QED BY <1>1, <1>2, <1>3, <1>4, <1>5, <1>6, <1>7,
          <1>8, <1>9, <1>10, <1>11, <1>12, <1>13 DEF Next

LEMMA StandingStep ==
  ASSUME WorldInv, DebugRegions, ListedWhereItStands, StandingIsListed, [Next]_vars
  PROVE  StandingIsListed'
<1>1. ASSUME NEW o \in Objects, Delete(o)
      PROVE  StandingIsListed'
  <2>1. ASSUME NEW x \in Objects, Live(x)', OnGround(x)', place'[x] # Origin
        PROVE  x \in lists'[place'[x]]
    <3>1. /\ x \notin Doomed(o) /\ Live(x)
          /\ place'[x] = place[x] /\ OnGround(x)
      BY <1>1, <2>1 DEF Delete, Live, OnGround
    <3>2. x \in lists[place[x]] /\ x # o /\ place[x] \in AllCells
      BY <2>1, <3>1 DEF StandingIsListed, Doomed, WorldInv, TypeOK
    <3>3. x \in ListsAfterDelete(o)[place[x]]
      BY <3>2, CellsAssumption DEF ListsAfterDelete, AllCells, WorldInv, TypeOK
    <3> QED BY <1>1, <3>1, <3>3 DEF Delete
  <2> QED BY <2>1 DEF StandingIsListed
<1>2. ASSUME NEW o \in Objects, NEW c \in AllCells, Create(o, c)
      PROVE  StandingIsListed'
  BY <1>2, MoveFacts DEF Create, WorldInv, StandingIsListed, TypeOK, Live, OnGround, Objects,
                        UnbornNowhere
<1>3. ASSUME NEW o \in Objects, NEW c \in AllCells, Move(o, c)
      PROVE  StandingIsListed'
  BY <1>3, MoveFacts DEF Move, WorldInv, StandingIsListed, TypeOK, Live, OnGround, Objects,
                        UnbornNowhere
<1>4. ASSUME NEW i \in Items, NEW c \in AllCells, Drop(i, c)
      PROVE  StandingIsListed'
  BY <1>4, WithoutFacts, ObjectsAssumption, CellsAssumption
  DEF Drop, WorldInv, StandingIsListed, TypeOK, Live, OnGround, Objects, AllCells,
      Landing, QueueIsTheDeleted, UnbornNowhere, ListsAfterMove, ListsWithout
<1>5. ASSUME NEW i \in Items, NEW k \in Items, NEW c \in AllCells, Put(i, k, c)
      PROVE  StandingIsListed'
  BY <1>5, WithoutFacts, ObjectsAssumption, CellsAssumption
  DEF Put, WorldInv, StandingIsListed, TypeOK, Live, OnGround, Objects, AllCells,
      Landing, QueueIsTheDeleted, UnbornNowhere, ListsAfterMove, ListsWithout
<1>6. ASSUME NEW i \in Items, NEW n \in Chars, Wear(i, n)
      PROVE  StandingIsListed'
  BY <1>6, WithoutFacts, ObjectsAssumption, CellsAssumption
  DEF Wear, WorldInv, StandingIsListed, TypeOK, Live, OnGround, Objects, AllCells,
      Landing, QueueIsTheDeleted, UnbornNowhere, ListsAfterMove, ListsWithout
<1>7. ASSUME NEW i \in Items, NEW n \in Chars, WearRefused(i, n)
      PROVE  StandingIsListed'
  BY <1>7, WithoutFacts, ObjectsAssumption, CellsAssumption
  DEF WearRefused, WorldInv, StandingIsListed, TypeOK, Live, OnGround, Objects, AllCells,
      Landing, QueueIsTheDeleted, UnbornNowhere, ListsAfterMove, ListsWithout
<1>8. ASSUME NEW i \in Items, NEW l \in Layers, Relayer(i, l)
      PROVE  StandingIsListed'
  BY <1>8, WithoutFacts, ObjectsAssumption, CellsAssumption
  DEF Relayer, WorldInv, StandingIsListed, TypeOK, Live, OnGround, Objects, AllCells,
      Landing, QueueIsTheDeleted, UnbornNowhere, ListsAfterMove, ListsWithout
<1>9. ASSUME NEW k \in Items, Decay(k)
      PROVE  StandingIsListed'
  BY <1>9, WithoutFacts, ObjectsAssumption, CellsAssumption
  DEF Decay, WorldInv, StandingIsListed, TypeOK, Live, OnGround, Objects, AllCells,
      Landing, QueueIsTheDeleted, UnbornNowhere, ListsAfterMove, ListsWithout
<1>10. CASE Refresh
  BY <1>10, WithoutFacts, ObjectsAssumption, CellsAssumption
  DEF Refresh, WorldInv, StandingIsListed, TypeOK, Live, OnGround, Objects, AllCells,
      Landing, QueueIsTheDeleted, UnbornNowhere, ListsAfterMove, ListsWithout
<1>11. CASE SaveNewWorld
  BY <1>11, WithoutFacts, ObjectsAssumption, CellsAssumption
  DEF SaveNewWorld, Collected, WorldInv, StandingIsListed, TypeOK, Live, OnGround, Objects, AllCells,
      Landing, QueueIsTheDeleted, UnbornNowhere, ListsAfterMove, ListsWithout
<1>12. CASE CollectCommand
  BY <1>12, WithoutFacts, ObjectsAssumption, CellsAssumption
  DEF CollectCommand, Collected, WorldInv, StandingIsListed, TypeOK, Live, OnGround, Objects, AllCells,
      Landing, QueueIsTheDeleted, UnbornNowhere, ListsAfterMove, ListsWithout
<1>13. CASE UNCHANGED vars
  BY <1>13, WithoutFacts, ObjectsAssumption, CellsAssumption
  DEF vars, WorldInv, StandingIsListed, TypeOK, Live, OnGround, Objects, AllCells,
      Landing, QueueIsTheDeleted, UnbornNowhere, ListsAfterMove, ListsWithout
<1> QED BY <1>1, <1>2, <1>3, <1>4, <1>5, <1>6, <1>7,
          <1>8, <1>9, <1>10, <1>11, <1>12, <1>13 DEF Next

LEMMA CharsStep ==
  ASSUME WorldInv, DebugRegions, ListedWhereItStands, DeletedCharsUnlisted,
         [Next]_vars
  PROVE  DeletedCharsUnlisted'
<1>1. ASSUME NEW o \in Objects, Delete(o)
      PROVE  DeletedCharsUnlisted'
  <2>1. ASSUME NEW d \in AllCells, NEW m \in lists'[d] \cap Chars
        PROVE  Live(m)'
    <3>1. m \in lists[d] /\ Live(m)
      BY <1>1, <2>1 DEF Delete, ListsAfterDelete, WorldInv, TypeOK, DeletedCharsUnlisted
    <3>2. place[m] = d
      BY <3>1 DEF ListedWhereItStands
    <3>3. m # o
      BY <1>1, <2>1, <3>1, <3>2 DEF Delete, ListsAfterDelete, WorldInv, TypeOK
    <3>4. m \notin Doomed(o) /\ m \in Objects
      BY <1>1, <2>1, <3>3, DoomedFacts, ObjectsAssumption DEF Delete, WorldInv, Objects
    <3> QED BY <1>1, <3>1, <3>4 DEF Delete, Live
  <2> QED BY <2>1 DEF DeletedCharsUnlisted
<1>2. ASSUME NEW o \in Objects, NEW c \in AllCells, Create(o, c)
      PROVE  DeletedCharsUnlisted'
  BY <1>2, MoveFacts DEF Create, WorldInv, DeletedCharsUnlisted, TypeOK, Live, OnGround, Objects,
                        UnbornNowhere
<1>3. ASSUME NEW o \in Objects, NEW c \in AllCells, Move(o, c)
      PROVE  DeletedCharsUnlisted'
  BY <1>3, MoveFacts DEF Move, WorldInv, DeletedCharsUnlisted, TypeOK, Live, OnGround, Objects,
                        UnbornNowhere
<1>4. ASSUME NEW i \in Items, NEW c \in AllCells, Drop(i, c)
      PROVE  DeletedCharsUnlisted'
  BY <1>4, WithoutFacts, ObjectsAssumption
  DEF Drop, WorldInv, DeletedCharsUnlisted, TypeOK, Live, Objects, Landing,
      QueueIsTheDeleted, UnbornNowhere, ListsAfterMove, ListsWithout
<1>5. ASSUME NEW i \in Items, NEW k \in Items, NEW c \in AllCells, Put(i, k, c)
      PROVE  DeletedCharsUnlisted'
  BY <1>5, WithoutFacts, ObjectsAssumption
  DEF Put, WorldInv, DeletedCharsUnlisted, TypeOK, Live, Objects, Landing,
      QueueIsTheDeleted, UnbornNowhere, ListsAfterMove, ListsWithout
<1>6. ASSUME NEW i \in Items, NEW n \in Chars, Wear(i, n)
      PROVE  DeletedCharsUnlisted'
  BY <1>6, WithoutFacts, ObjectsAssumption
  DEF Wear, WorldInv, DeletedCharsUnlisted, TypeOK, Live, Objects, Landing,
      QueueIsTheDeleted, UnbornNowhere, ListsAfterMove, ListsWithout
<1>7. ASSUME NEW i \in Items, NEW n \in Chars, WearRefused(i, n)
      PROVE  DeletedCharsUnlisted'
  BY <1>7, WithoutFacts, ObjectsAssumption
  DEF WearRefused, WorldInv, DeletedCharsUnlisted, TypeOK, Live, Objects, Landing,
      QueueIsTheDeleted, UnbornNowhere, ListsAfterMove, ListsWithout
<1>8. ASSUME NEW i \in Items, NEW l \in Layers, Relayer(i, l)
      PROVE  DeletedCharsUnlisted'
  BY <1>8, WithoutFacts, ObjectsAssumption
  DEF Relayer, WorldInv, DeletedCharsUnlisted, TypeOK, Live, Objects, Landing,
      QueueIsTheDeleted, UnbornNowhere, ListsAfterMove, ListsWithout
<1>9. ASSUME NEW k \in Items, Decay(k)
      PROVE  DeletedCharsUnlisted'
  BY <1>9, WithoutFacts, ObjectsAssumption
  DEF Decay, WorldInv, DeletedCharsUnlisted, TypeOK, Live, Objects, Landing,
      QueueIsTheDeleted, UnbornNowhere, ListsAfterMove, ListsWithout
<1>10. CASE Refresh
  BY <1>10, WithoutFacts, ObjectsAssumption
  DEF Refresh, WorldInv, DeletedCharsUnlisted, TypeOK, Live, Objects, Landing,
      QueueIsTheDeleted, UnbornNowhere, ListsAfterMove, ListsWithout
<1>11. CASE SaveNewWorld
  BY <1>11, WithoutFacts, ObjectsAssumption
  DEF SaveNewWorld, Collected, WorldInv, DeletedCharsUnlisted, TypeOK, Live, Objects, Landing,
      QueueIsTheDeleted, UnbornNowhere, ListsAfterMove, ListsWithout
<1>12. CASE CollectCommand
  BY <1>12, WithoutFacts, ObjectsAssumption
  DEF CollectCommand, Collected, WorldInv, DeletedCharsUnlisted, TypeOK, Live, Objects, Landing,
      QueueIsTheDeleted, UnbornNowhere, ListsAfterMove, ListsWithout
<1>13. CASE UNCHANGED vars
  BY <1>13, WithoutFacts, ObjectsAssumption
  DEF vars, WorldInv, DeletedCharsUnlisted, TypeOK, Live, Objects, Landing,
      QueueIsTheDeleted, UnbornNowhere, ListsAfterMove, ListsWithout
<1> QED BY <1>1, <1>2, <1>3, <1>4, <1>5, <1>6, <1>7,
          <1>8, <1>9, <1>10, <1>11, <1>12, <1>13 DEF Next

-----------------------------------------------------------------------------
(* The theorems.                                                           *)

LEMMA InitWorld == Init => WorldInv
<1> SUFFICES ASSUME Init PROVE WorldInv
  OBVIOUS
<1>1. TypeOK
  BY ObjectsAssumption DEF Init, TypeOK, Objects
<1>2. UnbornNowhere
  BY DEF Init, UnbornNowhere, Live
<1>3. QueueIsTheDeleted
  BY DEF Init, QueueIsTheDeleted
<1>4. ContentsAgree
  BY ObjectsAssumption DEF Init, ContentsAgree, Objects
<1>5. PaperdollSound
  BY DEF Init, PaperdollSound
<1>6. NoDeletedItemQueued
  BY DEF Init, NoDeletedItemQueued
<1> QED BY <1>1, <1>2, <1>3, <1>4, <1>5, <1>6 DEF WorldInv

LEMMA WorldStep == WorldInv /\ [Next]_vars => WorldInv'
<1> SUFFICES ASSUME WorldInv, [Next]_vars PROVE WorldInv'
  OBVIOUS
<1>1. /\ TypeOK /\ UnbornNowhere /\ QueueIsTheDeleted
      /\ ContentsAgree /\ PaperdollSound /\ NoDeletedItemQueued
  BY DEF WorldInv
<1>2. TypeOK'
  BY <1>1, TypeStep
<1>3. UnbornNowhere'
  BY <1>1, UnbornStep
<1>4. QueueIsTheDeleted'
  BY <1>1, QueueStep
<1>5. ContentsAgree'
  BY <1>1, ContentsStep
<1>6. PaperdollSound'
  BY <1>1, PaperdollStep
<1>7. NoDeletedItemQueued'
  BY <1>1, QueuedStep
<1> QED BY <1>2, <1>3, <1>4, <1>5, <1>6, <1>7 DEF WorldInv

(* Whatever the server creates, moves, wears, drops, deletes and frees,    *)
(* the inductive invariant holds.                                          *)
THEOREM SpecWorldInv == Spec => []WorldInv
  BY InitWorld, WorldStep, PTL DEF Spec

(* Every variable keeps its type, and no item is ever its own container.   *)
THEOREM SpecTypeOK == Spec => []TypeOK
<1>1. WorldInv => TypeOK
  BY DEF WorldInv
<1> QED BY <1>1, SpecWorldInv, PTL

(* CollectGarbage frees exactly what Delete flagged.                       *)
THEOREM SpecQueueIsTheDeleted == Spec => []QueueIsTheDeleted
<1>1. WorldInv => QueueIsTheDeleted
  BY DEF WorldInv
<1> QED BY <1>1, SpecWorldInv, PTL

(* Contains lists and contObj pointers agree, and point to nothing deleted. *)
THEOREM SpecContentsAgree == Spec => []ContentsAgree
<1>1. WorldInv => ContentsAgree
  BY DEF WorldInv
<1> QED BY <1>1, SpecWorldInv, PTL

(* A paperdoll holds live items that are on that character and layer.      *)
THEOREM SpecPaperdollSound == Spec => []PaperdollSound
<1>1. WorldInv => PaperdollSound
  BY DEF WorldInv
<1> QED BY <1>1, SpecWorldInv, PTL

(* No deleted item is in the refresh queue.                                *)
THEOREM SpecNoDeletedItemQueued == Spec => []NoDeletedItemQueued
<1>1. WorldInv => NoDeletedItemQueued
  BY DEF WorldInv
<1> QED BY <1>1, SpecWorldInv, PTL

(* Where nothing relayers worn items, what a character wears is in its     *)
(* paperdoll, and a paperdoll holds nothing else.                          *)
THEOREM SpecPaperdollAgrees ==
  ASSUME ~Tweaks
  PROVE  Spec => []PaperdollAgrees
<1>1. Init => PaperdollComplete
  BY ObjectsAssumption DEF Init, PaperdollComplete, Objects
<1>2. WorldInv /\ PaperdollComplete /\ [Next]_vars => PaperdollComplete'
  BY CompleteStep
<1>3. WorldInv => PaperdollSound
  BY DEF WorldInv
<1> QED BY <1>1, <1>2, <1>3, SpecWorldInv, PTL DEF Spec, PaperdollAgrees

(* Where garbage is collected by world saves only, no map cell lists freed *)
(* memory.                                                                 *)
THEOREM SpecCellsNeverHoldFreed ==
  ASSUME ~Commands
  PROVE  Spec => []CellsNeverHoldFreed
<1>1. Init => CellsNeverHoldFreed
  BY DEF Init, CellsNeverHoldFreed, Live
<1>2. WorldInv /\ CellsNeverHoldFreed /\ [Next]_vars => CellsNeverHoldFreed'
  BY FreedStep
<1> QED BY <1>1, <1>2, SpecWorldInv, PTL DEF Spec

(* Built with DEBUG_REGIONS, a live object that a cell lists stands there. *)
THEOREM SpecListedWhereItStands ==
  ASSUME DebugRegions
  PROVE  Spec => []ListedWhereItStands
<1>1. Init => ListedWhereItStands
  BY DEF Init, ListedWhereItStands, OnGround
<1>2. WorldInv /\ ListedWhereItStands /\ [Next]_vars => ListedWhereItStands'
  BY ListedStep
<1> QED BY <1>1, <1>2, SpecWorldInv, PTL DEF Spec

(* Built with DEBUG_REGIONS, a live object on the ground off its default   *)
(* cell is listed by the cell it stands in.                                *)
THEOREM SpecStandingIsListed ==
  ASSUME DebugRegions
  PROVE  Spec => []StandingIsListed
<1>1. Init => StandingIsListed
  BY DEF Init, StandingIsListed
<1>2. WorldInv /\ ListedWhereItStands /\ StandingIsListed /\ [Next]_vars => StandingIsListed'
  BY StandingStep
<1> QED BY <1>1, <1>2, SpecWorldInv, SpecListedWhereItStands, PTL DEF Spec

(* Built with DEBUG_REGIONS, no cell lists a deleted character.            *)
THEOREM SpecDeletedCharsUnlisted ==
  ASSUME DebugRegions
  PROVE  Spec => []DeletedCharsUnlisted
<1>1. Init => DeletedCharsUnlisted
  BY DEF Init, DeletedCharsUnlisted
<1>2. WorldInv /\ ListedWhereItStands /\ DeletedCharsUnlisted /\ [Next]_vars => DeletedCharsUnlisted'
  BY CharsStep
<1> QED BY <1>1, <1>2, SpecWorldInv, SpecListedWhereItStands, PTL DEF Spec

=============================================================================
