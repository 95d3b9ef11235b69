--------------------------- MODULE DataListProofs ---------------------------
(***************************************************************************)
(* Proofs about CDataList for every set of elements and nesting depth.     *)
(***************************************************************************)
EXTENDS DataList, SequenceTheorems, TLAPS

(* What erasing one element leaves: the elements after it move down by one. *)
LEMMA RemoveAtProperties ==
  ASSUME NEW S, NEW s \in Seq(S), NEW i \in 1 .. Len(s)
  PROVE  /\ RemoveAt(s, i) \in Seq(S)
         /\ Len(RemoveAt(s, i)) = Len(s) - 1
         /\ \A j \in 1 .. Len(s) - 1 :
              RemoveAt(s, i)[j] = IF j < i THEN s[j] ELSE s[j + 1]
<1> DEFINE lo == SubSeq(s, 1, i - 1)
           hi == SubSeq(s, i + 1, Len(s))
<1>0. Len(s) \in Nat
  BY LenProperties
<1>1. /\ lo \in Seq(S) /\ Len(lo) = i - 1
      /\ \A j \in 1 .. i - 1 : lo[j] = s[j]
  BY <1>0, SubSeqProperties
<1>2. /\ hi \in Seq(S) /\ Len(hi) = Len(s) - i
      /\ \A j \in 1 .. Len(s) - i : hi[j] = s[i + j]
  BY <1>0, SubSeqProperties
<1>3. /\ lo \o hi \in Seq(S)
      /\ Len(lo \o hi) = Len(lo) + Len(hi)
      /\ \A j \in 1 .. Len(lo) + Len(hi) :
           (lo \o hi)[j] = IF j <= Len(lo) THEN lo[j] ELSE hi[j - Len(lo)]
  BY <1>1, <1>2, ConcatProperties
<1>4. RemoveAt(s, i) = lo \o hi
  BY DEF RemoveAt
<1> HIDE DEF lo, hi
<1>5. \A j \in 1 .. Len(s) - 1 :
        (lo \o hi)[j] = IF j < i THEN s[j] ELSE s[j + 1]
  BY <1>0, <1>1, <1>2, <1>3
<1> QED
  BY <1>0, <1>1, <1>2, <1>3, <1>4, <1>5

(* What a prefix is. *)
LEMMA PrefixProperties ==
  ASSUME NEW S, NEW s \in Seq(S), NEW n \in 0 .. Len(s)
  PROVE  /\ SubSeq(s, 1, n) \in Seq(S)
         /\ Len(SubSeq(s, 1, n)) = n
         /\ \A j \in 1 .. n : SubSeq(s, 1, n)[j] = s[j]
<1>1. Len(s) \in Nat
  BY LenProperties
<1> QED
  BY <1>1, SubSeqProperties

(* What dropping the last element leaves. *)
LEMMA FrontProperties ==
  ASSUME NEW S, NEW s \in Seq(S), s # <<>>
  PROVE  /\ Front(s) \in Seq(S)
         /\ Len(Front(s)) = Len(s) - 1
         /\ Len(s) \in Nat \ {0}
         /\ \A j \in 1 .. Len(s) - 1 : Front(s)[j] = s[j]
         /\ Last(s) = s[Len(s)]
         /\ Last(s) \in S
<1>1. Len(s) \in Nat \ {0}
  BY LenProperties, EmptySeq
<1>2. Len(s) - 1 \in 0 .. Len(s)
  BY <1>1
<1>3. /\ SubSeq(s, 1, Len(s) - 1) \in Seq(S)
      /\ Len(SubSeq(s, 1, Len(s) - 1)) = Len(s) - 1
      /\ \A j \in 1 .. Len(s) - 1 : SubSeq(s, 1, Len(s) - 1)[j] = s[j]
  BY <1>2, PrefixProperties
<1> QED
  BY <1>1, <1>3, ElementOfSeq DEF Last, Front

(* Every recorded loop keeps its type through a visit. *)
LEMMA VisitedType ==
  ASSUME NEW loop \in Loop, NEW p \in 1 .. Len(objData),
         objData \in Seq(Elements)
  PROVE  /\ Visited(loop, p) \in Loop
         /\ Visited(loop, p).seen = loop.seen \cup {objData[p]}
         /\ Visited(loop, p).todo = loop.todo \ {objData[p]}
         /\ Visited(loop, p).done = loop.done
         /\ Visited(loop, p).disturbed = loop.disturbed
<1>1. objData[p] \in Elements
  BY ElementOfSeq
<1> QED
  BY <1>1 DEF Visited, Loop

LEMMA TypeInit == Init => TypeOK
  BY EmptySeq DEF Init, TypeOK

-----------------------------------------------------------------------------
(* The invariant of the proofs: the types, the bounds and no duplicates.   *)
Sound == TypeOK /\ PositionsInBounds /\ NoDuplicates

LEMMA AddSound ==
  ASSUME Sound, NEW e \in Elements, AddEntry(e)
  PROVE  Sound'
<1> USE DEF Sound
<1>0. Len(objData) \in Nat /\ Len(loops) \in Nat
  BY LenProperties DEF TypeOK
<1>1. /\ objData' \in Seq(Elements)
      /\ Len(objData') = Len(objData) + 1
      /\ \A i \in 1 .. Len(objData) : objData'[i] = objData[i]
      /\ objData'[Len(objData) + 1] = e
  BY AppendProperties DEF AddEntry, TypeOK
<1>2. TypeOK'
  BY <1>0, <1>1 DEF AddEntry, TypeOK, End
<1>3. PositionsInBounds'
  <2>1. objIterator' <= Len(objData')
    BY <1>0, <1>1 DEF AddEntry, TypeOK, End, PositionsInBounds
  <2>2. \A i \in 1 .. Len(objIteratorBackup) :
          objIteratorBackup[i] \in Nat
    BY ElementOfSeq DEF TypeOK
  <2> QED
    BY <1>0, <1>1, <2>1, <2>2 DEF AddEntry, PositionsInBounds
<1>4. NoDuplicates'
  <2>1. \A i \in 1 .. Len(objData) : objData[i] # e
    BY <1>0, LenProperties DEF AddEntry, ToSet, TypeOK
  <2> QED
    BY <1>0, <1>1, <2>1 DEF NoDuplicates
<1> QED
  BY <1>2, <1>3, <1>4

(* Remove erases one position of the deque and gives every loop a record.  *)
LEMMA RemoveFacts ==
  ASSUME Sound, NEW e \in Elements, NEW r \in 0 .. Len(objData) - 1,
         objData[r + 1] = e,
         objData' = RemoveAt(objData, r + 1),
         objIterator' = LiveAfterErase(r),
         objIteratorBackup' = [i \in 1 .. Len(objIteratorBackup) |->
                                 SavedAfterErase(r, objIteratorBackup[i])],
         loops' = [k \in 1 .. Len(loops) |-> LoopAfterErase(k, e, r)]
  PROVE  /\ Sound'
         /\ Len(objData) \in Nat \ {0} /\ Len(loops) \in Nat
         /\ Len(objData') = Len(objData) - 1
         /\ Len(loops') = Len(loops)
         /\ \A j \in 1 .. Len(objData) - 1 :
              objData'[j] = IF j < r + 1 THEN objData[j] ELSE objData[j + 1]
<1> USE DEF Sound
<1>0. Len(objData) \in Nat \ {0} /\ Len(loops) \in Nat
  <2>1. Len(objData) \in Nat /\ Len(loops) \in Nat
    BY LenProperties DEF TypeOK
  <2> QED
    BY <2>1
<1>1. /\ objData' \in Seq(Elements)
      /\ Len(objData') = Len(objData) - 1
      /\ \A j \in 1 .. Len(objData) - 1 :
           objData'[j] = IF j < r + 1 THEN objData[j] ELSE objData[j + 1]
  <2>1. r + 1 \in 1 .. Len(objData)
    BY <1>0
  <2> QED
    BY <2>1, RemoveAtProperties DEF TypeOK
<1>2. \A i \in 1 .. Len(objIteratorBackup) :
        /\ objIteratorBackup[i] \in Nat
        /\ SavedAfterErase(r, objIteratorBackup[i]) \in Nat
        /\ objIteratorBackup[i] <= Len(objData)
             => SavedAfterErase(r, objIteratorBackup[i]) <= Len(objData) - 1
  <2> TAKE i \in 1 .. Len(objIteratorBackup)
  <2>1. objIteratorBackup[i] \in Nat
    BY ElementOfSeq DEF TypeOK
  <2> QED
    BY <1>0, <2>1 DEF SavedAfterErase
<1>3. /\ objIteratorBackup' \in Seq(Nat)
      /\ Len(objIteratorBackup') = Len(loops)
  <2>1. Len(objIteratorBackup) \in Nat
    BY <1>0 DEF TypeOK
  <2> QED
    BY <1>2, <2>1, IsASeq, LenProperties DEF TypeOK
<1>4. /\ loops' \in Seq(Loop)
      /\ Len(loops') = Len(loops)
  <2>1. \A k \in 1 .. Len(loops) : LoopAfterErase(k, e, r) \in Loop
    <3> TAKE k \in 1 .. Len(loops)
    <3>1. loops[k] \in Loop
      BY ElementOfSeq DEF TypeOK
    <3> QED
      BY <3>1 DEF LoopAfterErase, Loop
  <2> QED
    BY <1>0, <2>1, IsASeq, LenProperties
<1>5. objIterator' \in Nat /\ objIterator' <= Len(objData')
  BY <1>0, <1>1 DEF LiveAfterErase, End, TypeOK, PositionsInBounds
<1>6. TypeOK'
  BY <1>1, <1>3, <1>4, <1>5 DEF TypeOK
<1>7. PositionsInBounds'
  BY <1>0, <1>1, <1>2, <1>3, <1>5 DEF PositionsInBounds, TypeOK
<1>8. NoDuplicates'
  <2> SUFFICES ASSUME NEW i \in 1 .. Len(objData) - 1,
                      NEW j \in 1 .. Len(objData) - 1,
                      objData'[i] = objData'[j]
               PROVE  i = j
    BY <1>1 DEF NoDuplicates
  <2> DEFINE old(x) == IF x < r + 1 THEN x ELSE x + 1
  <2>1. old(i) \in 1 .. Len(objData) /\ old(j) \in 1 .. Len(objData)
    BY <1>0
  <2>2. objData[old(i)] = objData[old(j)]
    BY <1>1
  <2>3. old(i) = old(j)
    <3> HIDE DEF old
    <3> QED
      BY <2>1, <2>2 DEF NoDuplicates
  <2> QED
    BY <1>0, <2>3
<1> QED
  BY <1>0, <1>1, <1>4, <1>6, <1>7, <1>8

LEMMA RemoveSound ==
  ASSUME Sound, NEW e \in Elements, RemoveEntry(e)
  PROVE  Sound'
  BY RemoveFacts DEF RemoveEntry

(* What Enter does, by whether the list is empty. *)
LEMMA EnterFacts ==
  ASSUME Sound, Enter
  PROVE  /\ Sound'
         /\ Len(loops) \in Nat /\ Len(objData) \in Nat
         /\ Len(loops') = Len(loops) + 1
         /\ \A k \in 1 .. Len(loops) : loops'[k] = loops[k]
         /\ \A k \in 1 .. Len(loops) :
              objIteratorBackup'[k] = objIteratorBackup[k]
         /\ objIteratorBackup'[Len(loops) + 1] = objIterator
         /\ Len(objData) = 0 =>
              /\ loops'[Len(loops) + 1].done
              /\ loops'[Len(loops) + 1].seen = {}
              /\ loops'[Len(loops) + 1].todo = {}
         /\ Len(objData) # 0 =>
              /\ objIterator' = Len(objData) - 1
              /\ ~loops'[Len(loops) + 1].done
              /\ loops'[Len(loops) + 1].seen = {objData[Len(objData)]}
              /\ loops'[Len(loops) + 1].todo
                   = ToSet(objData) \ {objData[Len(objData)]}
<1> USE DEF Sound
<1> DEFINE fresh == [seen |-> {}, todo |-> ToSet(objData),
                     done |-> Len(objData) = 0, disturbed |-> FALSE]
           new == IF Len(objData) = 0 THEN fresh
                  ELSE Visited(fresh, Len(objData))
<1>0. Len(objData) \in Nat /\ Len(loops) \in Nat
  BY LenProperties DEF TypeOK
<1>1. ToSet(objData) \in SUBSET Elements
  BY <1>0, ElementOfSeq, LenProperties DEF ToSet, TypeOK
<1>2. fresh \in Loop
  BY <1>1 DEF Loop
<1>3. Len(objData) # 0 =>
        /\ Visited(fresh, Len(objData)) \in Loop
        /\ Visited(fresh, Len(objData)).seen = {objData[Len(objData)]}
        /\ Visited(fresh, Len(objData)).todo
             = ToSet(objData) \ {objData[Len(objData)]}
        /\ ~Visited(fresh, Len(objData)).done
  <2> HAVE Len(objData) # 0
  <2>1. Len(objData) \in 1 .. Len(objData)
    BY <1>0
  <2>2. fresh.seen = {} /\ fresh.todo = ToSet(objData) /\ ~fresh.done
    OBVIOUS
  <2> HIDE DEF fresh
  <2> QED
    BY <1>2, <2>1, <2>2, VisitedType DEF TypeOK
<1>4. Len(objData) = 0 => ToSet(objData) = {}
  BY <1>0, LenProperties DEF ToSet, TypeOK
<1>5. new \in Loop
  BY <1>2, <1>3
<1>6. loops' = Append(loops, new)
  BY DEF Enter, End
<1>7. /\ objIteratorBackup' = Append(objIteratorBackup, objIterator)
      /\ objIterator' = IF Len(objData) = 0 THEN Len(objData)
                        ELSE Len(objData) - 1
      /\ objData' = objData
  BY DEF Enter, End, NextFrom
<1>8. /\ loops' \in Seq(Loop)
      /\ Len(loops') = Len(loops) + 1
      /\ \A k \in 1 .. Len(loops) : loops'[k] = loops[k]
      /\ loops'[Len(loops) + 1] = new
  <2> HIDE DEF new
  <2> QED
    BY <1>5, <1>6, AppendProperties DEF TypeOK
<1>9. /\ objIteratorBackup' \in Seq(Nat)
      /\ Len(objIteratorBackup') = Len(loops) + 1
      /\ \A k \in 1 .. Len(loops) :
           objIteratorBackup'[k] = objIteratorBackup[k]
      /\ objIteratorBackup'[Len(loops) + 1] = objIterator
  BY <1>7, AppendProperties DEF TypeOK
<1>10. Sound'
  <2>1. TypeOK'
    BY <1>0, <1>7, <1>8, <1>9 DEF TypeOK
  <2>2. PositionsInBounds'
    BY <1>0, <1>7, <1>9 DEF PositionsInBounds, TypeOK
  <2> QED
    BY <1>7, <2>1, <2>2 DEF NoDuplicates
<1>11. Len(objData) = 0 =>
         new.done /\ new.seen = {} /\ new.todo = {}
  BY <1>4
<1>12. Len(objData) # 0 =>
         /\ ~new.done
         /\ new.seen = {objData[Len(objData)]}
         /\ new.todo = ToSet(objData) \ {objData[Len(objData)]}
  <2> HIDE DEF fresh
  <2> QED
    BY <1>3
<1> HIDE DEF new
<1> QED
  BY <1>0, <1>7, <1>8, <1>9, <1>10, <1>11, <1>12

LEMMA AdvanceFacts ==
  ASSUME Sound, Advance
  PROVE  /\ Sound'
         /\ Len(loops) \in Nat \ {0} /\ Len(loops') = Len(loops)
         /\ Len(objData) \in Nat
         /\ ~loops[Len(loops)].done
         /\ \A k \in 1 .. Len(loops) - 1 : loops'[k] = loops[k]
         /\ objIterator = 0 =>
              /\ loops'[Len(loops)].done
              /\ loops'[Len(loops)].disturbed = loops[Len(loops)].disturbed
              /\ loops'[Len(loops)].seen = loops[Len(loops)].seen
              /\ loops'[Len(loops)].todo = loops[Len(loops)].todo
         /\ objIterator # 0 =>
              /\ objIterator \in 1 .. Len(objData)
              /\ objIterator' = objIterator - 1
              /\ ~loops'[Len(loops)].done
              /\ loops'[Len(loops)].disturbed = loops[Len(loops)].disturbed
              /\ loops'[Len(loops)].seen
                   = loops[Len(loops)].seen \cup {objData[objIterator]}
              /\ loops'[Len(loops)].todo
                   = loops[Len(loops)].todo \ {objData[objIterator]}
<1> USE DEF Sound
<1> DEFINE L == Len(loops)
           top == loops[L]
           new == IF objIterator = 0 THEN [top EXCEPT !.done = TRUE]
                  ELSE Visited(top, objIterator)
<1>0. /\ Len(objData) \in Nat /\ L \in Nat \ {0} /\ objIterator \in Nat
      /\ Last(loops) = top /\ top \in Loop
  BY LenProperties, FrontProperties DEF TypeOK, Advance
<1>1. objIterator # 0 => objIterator \in 1 .. Len(objData)
  BY <1>0 DEF PositionsInBounds
<1>2. objIterator = 0 =>
        /\ new \in Loop /\ new.done /\ new.disturbed = top.disturbed
        /\ new.seen = top.seen /\ new.todo = top.todo
  BY <1>0 DEF Loop
<1>3. objIterator # 0 =>
        /\ new \in Loop /\ new.done = top.done
        /\ new.disturbed = top.disturbed
        /\ new.seen = top.seen \cup {objData[objIterator]}
        /\ new.todo = top.todo \ {objData[objIterator]}
  <2> HIDE DEF top
  <2> QED
    BY <1>0, <1>1, VisitedType DEF TypeOK
<1>4. loops' = [loops EXCEPT ![L] = new]
  BY DEF Advance
<1>5. new \in Loop
  BY <1>2, <1>3
<1>6. /\ loops' \in Seq(Loop) /\ Len(loops') = L
      /\ loops'[L] = new
      /\ \A k \in 1 .. L - 1 : loops'[k] = loops[k]
  <2> HIDE DEF new
  <2> QED
    BY <1>0, <1>4, <1>5, ExceptSeq DEF TypeOK
<1>7. /\ objIterator' = IF objIterator = 0 THEN Len(objData)
                        ELSE objIterator - 1
      /\ UNCHANGED <<objData, objIteratorBackup>>
      /\ ~top.done
  BY <1>0 DEF Advance, NextFrom, End
<1>8. Sound'
  BY <1>0, <1>1, <1>6, <1>7 DEF TypeOK, PositionsInBounds, NoDuplicates
<1> HIDE DEF new
<1> QED
  BY <1>0, <1>1, <1>2, <1>3, <1>6, <1>7, <1>8

LEMMA LeaveFacts ==
  ASSUME Sound, Leave
  PROVE  /\ Sound'
         /\ Len(loops) \in Nat \ {0} /\ Len(loops') = Len(loops) - 1
         /\ objIterator' = objIteratorBackup[Len(loops)]
         /\ \A k \in 1 .. Len(loops) - 1 :
              /\ loops'[k] = loops[k]
              /\ objIteratorBackup'[k] = objIteratorBackup[k]
         /\ objData' = objData
<1> USE DEF Sound
<1>1. /\ Front(loops) \in Seq(Loop)
      /\ Len(Front(loops)) = Len(loops) - 1
      /\ Len(loops) \in Nat \ {0}
      /\ \A k \in 1 .. Len(loops) - 1 : Front(loops)[k] = loops[k]
  BY FrontProperties DEF Leave, TypeOK
<1>2. /\ Front(objIteratorBackup) \in Seq(Nat)
      /\ Len(Front(objIteratorBackup)) = Len(loops) - 1
      /\ \A k \in 1 .. Len(loops) - 1 :
           Front(objIteratorBackup)[k] = objIteratorBackup[k]
      /\ Last(objIteratorBackup) = objIteratorBackup[Len(loops)]
      /\ Last(objIteratorBackup) \in Nat
  <2>1. objIteratorBackup # <<>>
    BY <1>1, EmptySeq DEF TypeOK
  <2> QED
    BY <2>1, FrontProperties DEF TypeOK
<1>3. TypeOK'
  BY <1>1, <1>2 DEF Leave, TypeOK
<1>4. PositionsInBounds'
  <2>1. Len(loops) \in 1 .. Len(objIteratorBackup)
    BY <1>1 DEF TypeOK
  <2>2. objIterator' <= Len(objData)
    BY <1>2, <2>1 DEF Leave, PositionsInBounds
  <2>3. \A i \in 1 .. Len(loops) - 1 : objIteratorBackup'[i] <= Len(objData)
    <3> TAKE i \in 1 .. Len(loops) - 1
    <3>1. i \in 1 .. Len(objIteratorBackup)
      BY <1>1 DEF TypeOK
    <3> QED
      BY <1>2, <3>1 DEF Leave, PositionsInBounds
  <2> QED
    BY <1>2, <2>2, <2>3 DEF Leave, PositionsInBounds
<1>5. NoDuplicates'
  BY DEF Leave, NoDuplicates
<1> QED
  BY <1>1, <1>2, <1>3, <1>4, <1>5 DEF Leave

LEMMA NextSound ==
  ASSUME Sound, [Next]_vars
  PROVE  Sound'
<1>1. CASE \E e \in Elements : AddEntry(e)
  BY <1>1, AddSound
<1>2. CASE \E e \in Elements : RemoveEntry(e)
  BY <1>2, RemoveSound
<1>3. CASE Enter
  BY <1>3, EnterFacts
<1>4. CASE Advance
  BY <1>4, AdvanceFacts
<1>5. CASE Leave
  BY <1>5, LeaveFacts
<1>6. CASE UNCHANGED vars
  BY <1>6 DEF vars, Sound, TypeOK, PositionsInBounds, NoDuplicates
<1> QED
  BY <1>1, <1>2, <1>3, <1>4, <1>5, <1>6 DEF Next

LEMMA InitSound == Init => Sound
  BY TypeInit DEF Init, Sound, PositionsInBounds, NoDuplicates

LEMMA SpecSound == Spec => []Sound
  BY InitSound, NextSound, PTL DEF Spec

(* The variables of a CDataList keep their types, and every loop in         *)
(* progress has exactly one saved position.                                *)
THEOREM SpecTypeOK == Spec => []TypeOK
  BY SpecSound, PTL DEF Sound

(* Whatever the loops over a list add to it and remove from it, no live or *)
(* saved iterator ever points beyond its end.                              *)
THEOREM SpecPositionsInBounds == Spec => []PositionsInBounds
  BY SpecSound, PTL DEF Sound

(* The list is a set: no element is ever in it twice. *)
THEOREM SpecNoDuplicates == Spec => []NoDuplicates
  BY SpecSound, PTL DEF Sound

-----------------------------------------------------------------------------
(* The loops.  What a loop has seen is still in the list, for Remove takes *)
(* it out of both; without that, an element added again could be "seen".   *)
SeenPresent ==
  \A k \in 1 .. Len(loops) : loops[k].seen \subseteq ToSet(objData)

LoopInv == Sound /\ SeenPresent /\ UndisturbedLoops

(* The position of every loop lies in the list. *)
LEMMA PositionType ==
  ASSUME Sound, NEW k \in 1 .. Len(loops)
  PROVE  Position(k) \in 0 .. Len(objData)
<1>1. Len(objData) \in Nat /\ Len(loops) \in Nat
  BY LenProperties DEF Sound, TypeOK
<1>2. CASE k = Len(loops)
  BY <1>1, <1>2 DEF Sound, TypeOK, PositionsInBounds, Position
<1>3. CASE k # Len(loops)
  <2>1. k + 1 \in 1 .. Len(objIteratorBackup)
    BY <1>1, <1>3 DEF Sound, TypeOK
  <2>2. objIteratorBackup[k + 1] \in Nat
    BY <2>1, ElementOfSeq DEF Sound, TypeOK
  <2> QED
    BY <1>1, <1>3, <2>1, <2>2 DEF Sound, PositionsInBounds, Position
<1> QED
  BY <1>2, <1>3

(* The heart of Remove: unless one of the two patterns it does not         *)
(* compensate for occurs, the elements ahead of a loop are afterwards what *)
(* they were, less the one removed.                                        *)
LEMMA AheadAfterErase ==
  ASSUME Sound, NEW e \in Elements, NEW r \in 0 .. Len(objData) - 1,
         objData[r + 1] = e,
         NEW p \in 0 .. Len(objData), NEW q \in 0 .. Len(objData) - 1,
         Len(objData) \in Nat \ {0},
         \A j \in 1 .. Len(objData) - 1 :
           objData'[j] = IF j < r + 1 THEN objData[j] ELSE objData[j + 1],
         q = IF r < p THEN p - 1 ELSE p
  PROVE  {objData'[i] : i \in 1 .. q} = Ahead(p) \ {e}
<1> DEFINE new == {objData'[i] : i \in 1 .. q}
<1>1. ASSUME NEW x \in new
      PROVE  x \in Ahead(p) \ {e}
  <2>1. PICK i \in 1 .. q : x = objData'[i]
    OBVIOUS
  <2>2. PICK i2 \in 1 .. Len(objData) :
          i2 = (IF i < r + 1 THEN i ELSE i + 1)
    OBVIOUS
  <2>3. x = objData[i2]
    BY <2>1, <2>2
  <2>4. i2 \in 1 .. p /\ i2 # r + 1
    BY <2>2
  <2> QED
    BY <2>3, <2>4 DEF Ahead, Sound, NoDuplicates
<1>2. ASSUME NEW x \in Ahead(p) \ {e}
      PROVE  x \in new
  <2>1. PICK i \in 1 .. p : x = objData[i]
    BY DEF Ahead
  <2>2. i # r + 1
    BY <2>1
  <2>3. PICK i2 \in 1 .. q : i2 = (IF i < r + 1 THEN i ELSE i - 1)
    BY <2>2
  <2>4. objData'[i2] = objData[i]
    BY <2>2, <2>3
  <2> QED
    BY <2>1, <2>3, <2>4
<1> QED
  BY <1>1, <1>2 DEF Ahead

(* The invariant only reads the loops of the current state. *)
LEMMA ExactLoop ==
  ASSUME LoopInv, NEW k \in 1 .. Len(loops), ~loops[k].disturbed
  PROVE  /\ loops[k].done => loops[k].todo = {}
         /\ ~loops[k].done =>
              /\ loops[k].seen \cap Ahead(Position(k)) = {}
              /\ loops[k].todo \subseteq Ahead(Position(k))
  BY DEF LoopInv, UndisturbedLoops, UndisturbedLoopsExact, UndisturbedLoopsComplete

LEMMA AddExact ==
  ASSUME LoopInv, NEW e \in Elements, AddEntry(e)
  PROVE  SeenPresent' /\ UndisturbedLoops'
<1> USE DEF LoopInv
<1>0. Len(objData) \in Nat /\ Len(loops) \in Nat
  BY LenProperties DEF Sound, TypeOK
<1>1. /\ Len(objData') = Len(objData) + 1
      /\ \A i \in 1 .. Len(objData) : objData'[i] = objData[i]
      /\ objData'[Len(objData) + 1] = e
      /\ objData' \in Seq(Elements)
  BY AppendProperties DEF AddEntry, Sound, TypeOK
<1>2. ToSet(objData) \subseteq ToSet(objData')
  BY <1>0, <1>1, LenProperties DEF ToSet, Sound, TypeOK
<1>3. \A p \in 0 .. Len(objData) : Ahead(p)' = Ahead(p)
  <2> TAKE p \in 0 .. Len(objData)
  <2> QED
    BY <1>0, <1>1 DEF Ahead
<1>4. {objData'[i] : i \in 1 .. Len(objData) + 1}
        = Ahead(Len(objData)) \cup {e}
  BY <1>0, <1>1 DEF Ahead
<1>5. \A k \in 1 .. Len(loops) :
        \/ Ahead(Position(k))' = Ahead(Position(k))
        \/ Ahead(Position(k))' = Ahead(Position(k)) \cup {e}
  <2> TAKE k \in 1 .. Len(loops)
  <2>1. Position(k) \in 0 .. Len(objData)
    BY PositionType
  <2>2. \/ Position(k)' = Position(k)
        \/ Position(k) = Len(objData) /\ Position(k)' = Len(objData) + 1
    BY DEF AddEntry, Position, End
  <2>3. CASE Position(k)' = Position(k)
    BY <1>3, <2>1, <2>3 DEF Ahead
  <2>4. CASE Position(k) = Len(objData) /\ Position(k)' = Len(objData) + 1
    BY <1>0, <1>1, <1>4, <2>4 DEF Ahead
  <2> QED
    BY <2>2, <2>3, <2>4
<1>6. \A k \in 1 .. Len(loops) : e \notin loops[k].seen
  BY DEF AddEntry, SeenPresent
<1>7. loops' = loops
  BY DEF AddEntry
<1>8. SeenPresent'
  BY <1>2, <1>7 DEF SeenPresent
<1>9. UndisturbedLoops'
  BY <1>5, <1>6, <1>7 DEF UndisturbedLoops, UndisturbedLoopsExact,
                          UndisturbedLoopsComplete
<1> QED
  BY <1>8, <1>9

(* The position of a loop after Remove, by the ghost's account of it. *)
LEMMA PositionAfterErase ==
  ASSUME Sound, NEW e \in Elements, NEW r \in 0 .. Len(objData) - 1,
         objIterator' = LiveAfterErase(r),
         objIteratorBackup' = [i \in 1 .. Len(objIteratorBackup) |->
                                 SavedAfterErase(r, objIteratorBackup[i])],
         loops' = [i \in 1 .. Len(loops) |-> LoopAfterErase(i, e, r)],
         Len(loops') = Len(loops), Len(loops) \in Nat,
         Len(objData) \in Nat \ {0},
         NEW k \in 1 .. Len(loops), ~loops'[k].disturbed
  PROVE  \/ Position(k) = 0 /\ Position(k)' = 0
         \/ Position(k)' = IF r < Position(k) THEN Position(k) - 1
                                              ELSE Position(k)
<1>1. Position(k) \in 0 .. Len(objData)
  BY PositionType
<1>2. CASE k = Len(loops)
  <2>1. ~(r = 0 /\ 0 < objIterator /\ objIterator < Len(objData))
    BY <1>2 DEF LoopAfterErase, End
  <2>2. Position(k) = objIterator /\ Position(k)' = LiveAfterErase(r)
    BY <1>2 DEF Position
  <2> QED
    BY <1>1, <2>1, <2>2 DEF LiveAfterErase, End
<1>3. CASE k # Len(loops)
  <2>1. /\ Position(k) = objIteratorBackup[k + 1]
        /\ k + 1 \in 1 .. Len(objIteratorBackup)
    BY <1>3 DEF Position, Sound, TypeOK
  <2>2. Position(k)' = SavedAfterErase(r, objIteratorBackup[k + 1])
    BY <1>3, <2>1 DEF Position
  <2>3. ~(r = objIteratorBackup[k + 1] /\ 0 < r)
    BY <1>3 DEF LoopAfterErase
  <2> QED
    BY <1>1, <2>1, <2>2, <2>3 DEF SavedAfterErase
<1> QED
  BY <1>2, <1>3

LEMMA RemoveExact ==
  ASSUME LoopInv, NEW e \in Elements, RemoveEntry(e)
  PROVE  SeenPresent' /\ UndisturbedLoops'
<1> USE DEF LoopInv
<1>0. PICK r \in 0 .. Len(objData) - 1 :
        /\ objData[r + 1] = e
        /\ objData' = RemoveAt(objData, r + 1)
        /\ objIterator' = LiveAfterErase(r)
        /\ objIteratorBackup' = [i \in 1 .. Len(objIteratorBackup) |->
                                   SavedAfterErase(r, objIteratorBackup[i])]
        /\ loops' = [k \in 1 .. Len(loops) |-> LoopAfterErase(k, e, r)]
  BY DEF RemoveEntry
<1>1. /\ Sound'
      /\ Len(objData) \in Nat \ {0} /\ Len(loops) \in Nat
      /\ Len(objData') = Len(objData) - 1
      /\ Len(loops') = Len(loops)
      /\ \A j \in 1 .. Len(objData) - 1 :
           objData'[j] = IF j < r + 1 THEN objData[j] ELSE objData[j + 1]
  BY <1>0, RemoveFacts
<1>2. \A k \in 1 .. Len(loops) :
        /\ loops'[k].seen = loops[k].seen \ {e}
        /\ loops'[k].todo = loops[k].todo \ {e}
        /\ loops'[k].done = loops[k].done
        /\ ~loops'[k].disturbed => ~loops[k].disturbed
  BY <1>0 DEF LoopAfterErase
<1>3. ToSet(objData') = ToSet(objData) \ {e}
  <2>1. ToSet(objData) = Ahead(Len(objData))
    BY LenProperties DEF ToSet, Ahead, Sound, TypeOK
  <2>2. ToSet(objData') = {objData'[i] : i \in 1 .. Len(objData) - 1}
    BY <1>1, LenProperties DEF ToSet, Sound, TypeOK
  <2>3. PICK q \in 0 .. Len(objData) - 1 : q = Len(objData) - 1
    BY <1>1
  <2>4. PICK p \in 0 .. Len(objData) : p = Len(objData)
    BY <1>1
  <2>5. q = IF r < p THEN p - 1 ELSE p
    BY <1>1, <2>3, <2>4
  <2>6. {objData'[i] : i \in 1 .. q} = Ahead(p) \ {e}
    BY <1>0, <1>1, <2>5, AheadAfterErase
  <2> QED
    BY <2>1, <2>2, <2>3, <2>4, <2>6
<1>4. SeenPresent'
  BY <1>1, <1>2, <1>3 DEF SeenPresent
<1>5. ASSUME NEW k \in 1 .. Len(loops), ~loops'[k].disturbed
      PROVE  Ahead(Position(k))' \subseteq Ahead(Position(k)) \ {e}
             /\ Ahead(Position(k)) \ {e} \subseteq Ahead(Position(k))'
  <2>1. \/ Position(k) = 0 /\ Position(k)' = 0
        \/ Position(k)' = IF r < Position(k) THEN Position(k) - 1
                                             ELSE Position(k)
    BY <1>0, <1>1, <1>5, PositionAfterErase
  <2>2. /\ Position(k) \in 0 .. Len(objData)
        /\ Position(k)' \in 0 .. Len(objData) - 1
    BY <1>1, <2>1, PositionType
  <2>3. CASE Position(k) = 0 /\ Position(k)' = 0
    BY <2>3 DEF Ahead
  <2>4. CASE Position(k)' = IF r < Position(k) THEN Position(k) - 1
                                               ELSE Position(k)
    <3>1. PICK q \in 0 .. Len(objData) - 1 : q = Position(k)'
      BY <2>2
    <3>2. PICK p \in 0 .. Len(objData) : p = Position(k)
      BY <2>2
    <3>3. q = IF r < p THEN p - 1 ELSE p
      BY <2>4, <3>1, <3>2
    <3>4. {objData'[i] : i \in 1 .. q} = Ahead(p) \ {e}
      BY <1>0, <1>1, <3>3, AheadAfterErase
    <3>5. Ahead(Position(k))' = {objData'[i] : i \in 1 .. q}
      BY <3>1 DEF Ahead
    <3> QED
      BY <3>2, <3>4, <3>5
  <2> QED
    BY <2>1, <2>3, <2>4
<1>6. UndisturbedLoops'
  BY <1>1, <1>2, <1>5 DEF UndisturbedLoops, UndisturbedLoopsExact,
                          UndisturbedLoopsComplete
<1> QED
  BY <1>4, <1>6

LEMMA EnterExact ==
  ASSUME LoopInv, Enter
  PROVE  SeenPresent' /\ UndisturbedLoops'
<1> USE DEF LoopInv
<1> DEFINE L == Len(loops)
           n == Len(objData)
<1>0. Sound /\ Enter /\ objData' = objData
  BY DEF Enter
<1>1. /\ Sound'
      /\ L \in Nat /\ n \in Nat
      /\ Len(loops') = L + 1
      /\ \A k \in 1 .. L : loops'[k] = loops[k]
      /\ \A k \in 1 .. L : objIteratorBackup'[k] = objIteratorBackup[k]
      /\ objIteratorBackup'[L + 1] = objIterator
      /\ n = 0 => /\ loops'[L + 1].done
                  /\ loops'[L + 1].seen = {}
                  /\ loops'[L + 1].todo = {}
      /\ n # 0 => /\ objIterator' = n - 1
                  /\ ~loops'[L + 1].done
                  /\ loops'[L + 1].seen = {objData[n]}
                  /\ loops'[L + 1].todo = ToSet(objData) \ {objData[n]}
  BY <1>0, EnterFacts
<1>2. \A k \in 1 .. L : Ahead(Position(k))' = Ahead(Position(k))
  <2> TAKE k \in 1 .. L
  <2>1. Position(k)' = Position(k)
    BY <1>1 DEF Position
  <2> QED
    BY <1>0, <2>1 DEF Ahead
<1>3. n # 0 =>
        /\ {objData[n]} \cap {objData[i] : i \in 1 .. n - 1} = {}
        /\ ToSet(objData) \ {objData[n]}
             \subseteq {objData[i] : i \in 1 .. n - 1}
        /\ objData[n] \in ToSet(objData)
  <2> HAVE n # 0
  <2>1. ToSet(objData) = {objData[i] : i \in 1 .. n}
    BY <1>1, LenProperties DEF ToSet, Sound, TypeOK
  <2> QED
    BY <1>1, <2>1 DEF Sound, NoDuplicates
<1>4. \A k \in 1 .. L + 1 : k \in 1 .. L \/ k = L + 1
  BY <1>1
<1>5. SeenPresent'
  BY <1>0, <1>1, <1>3, <1>4 DEF SeenPresent
<1>6. UndisturbedLoopsExact'
  <2> SUFFICES ASSUME NEW k \in 1 .. L + 1,
                      ~loops'[k].done, ~loops'[k].disturbed
               PROVE  /\ loops'[k].seen \cap Ahead(Position(k))' = {}
                      /\ loops'[k].todo \subseteq Ahead(Position(k))'
    BY <1>1 DEF UndisturbedLoopsExact
  <2>1. CASE k \in 1 .. L
    BY <1>1, <1>2, <2>1 DEF UndisturbedLoops, UndisturbedLoopsExact
  <2>2. CASE k = L + 1
    <3>1. n # 0
      BY <1>1, <2>2
    <3>2. Position(k)' = n - 1
      BY <1>1, <2>2, <3>1 DEF Position
    <3>3. Ahead(Position(k))' = {objData[i] : i \in 1 .. n - 1}
      BY <1>0, <3>2 DEF Ahead
    <3> QED
      BY <1>1, <1>3, <2>2, <3>1, <3>3
  <2> QED
    BY <1>4, <2>1, <2>2
<1>7. UndisturbedLoopsComplete'
  <2> SUFFICES ASSUME NEW k \in 1 .. L + 1,
                      loops'[k].done, ~loops'[k].disturbed
               PROVE  loops'[k].todo = {}
    BY <1>1 DEF UndisturbedLoopsComplete
  <2>1. CASE k \in 1 .. L
    BY <1>1, <2>1 DEF UndisturbedLoops, UndisturbedLoopsComplete
  <2>2. CASE k = L + 1
    BY <1>1, <2>2
  <2> QED
    BY <1>4, <2>1, <2>2
<1> QED
  BY <1>5, <1>6, <1>7 DEF UndisturbedLoops

LEMMA AdvanceExact ==
  ASSUME LoopInv, Advance
  PROVE  SeenPresent' /\ UndisturbedLoops'
<1> USE DEF LoopInv
<1> DEFINE L == Len(loops)
           p == objIterator
<1>0. Sound /\ Advance /\ objData' = objData
      /\ objIteratorBackup' = objIteratorBackup
  BY DEF Advance
<1>1. /\ Sound'
      /\ L \in Nat \ {0} /\ Len(loops') = L /\ Len(objData) \in Nat
      /\ ~loops[L].done
      /\ \A k \in 1 .. L - 1 : loops'[k] = loops[k]
      /\ p = 0 => /\ loops'[L].done
                  /\ loops'[L].disturbed = loops[L].disturbed
                  /\ loops'[L].seen = loops[L].seen
                  /\ loops'[L].todo = loops[L].todo
      /\ p # 0 => /\ p \in 1 .. Len(objData)
                  /\ objIterator' = p - 1
                  /\ ~loops'[L].done
                  /\ loops'[L].disturbed = loops[L].disturbed
                  /\ loops'[L].seen = loops[L].seen \cup {objData[p]}
                  /\ loops'[L].todo = loops[L].todo \ {objData[p]}
  BY <1>0, AdvanceFacts
<1>2. \A k \in 1 .. L - 1 : Ahead(Position(k))' = Ahead(Position(k))
  <2> TAKE k \in 1 .. L - 1
  <2>1. Position(k)' = Position(k)
    BY <1>0, <1>1 DEF Position
  <2> QED
    BY <1>0, <2>1 DEF Ahead
<1>3. Ahead(Position(L)) = Ahead(p) /\ Ahead(Position(L))' = Ahead(p)'
  BY <1>1 DEF Position
<1>4. p # 0 => /\ Ahead(p)' = Ahead(p) \ {objData[p]}
               /\ objData[p] \in ToSet(objData)
  <2> HAVE p # 0
  <2>1. Ahead(p)' = {objData[i] : i \in 1 .. p - 1}
    BY <1>0, <1>1 DEF Ahead
  <2>2. Ahead(p) = {objData[i] : i \in 1 .. p}
    BY DEF Ahead
  <2>3. \A i \in 1 .. p - 1 : objData[i] # objData[p]
    BY <1>1 DEF Sound, NoDuplicates
  <2>4. objData[p] \in ToSet(objData)
    BY <1>1, LenProperties DEF ToSet, Sound, TypeOK
  <2> QED
    BY <1>1, <2>1, <2>2, <2>3, <2>4
<1>5. p = 0 => Ahead(p) = {}
  BY DEF Ahead
<1>6. \A k \in 1 .. L : k \in 1 .. L - 1 \/ k = L
  BY <1>1
<1>7. SeenPresent'
  <2> SUFFICES ASSUME NEW k \in 1 .. L
               PROVE  loops'[k].seen \subseteq ToSet(objData)
    BY <1>0, <1>1 DEF SeenPresent
  <2>1. loops[k].seen \subseteq ToSet(objData)
    BY DEF SeenPresent
  <2> QED
    BY <1>1, <1>4, <1>6, <2>1
<1>8. UndisturbedLoopsExact'
  <2> SUFFICES ASSUME NEW k \in 1 .. L,
                      ~loops'[k].done, ~loops'[k].disturbed
               PROVE  /\ loops'[k].seen \cap Ahead(Position(k))' = {}
                      /\ loops'[k].todo \subseteq Ahead(Position(k))'
    BY <1>1 DEF UndisturbedLoopsExact
  <2>1. CASE k \in 1 .. L - 1
    BY <1>1, <1>2, <2>1 DEF UndisturbedLoops, UndisturbedLoopsExact
  <2>2. CASE k = L
    <3>1. p # 0 /\ ~loops[L].disturbed
      BY <1>1, <2>2
    <3>2. loops[L].seen \cap Ahead(p) = {} /\ loops[L].todo \subseteq Ahead(p)
      BY <1>1, <1>3, <3>1, ExactLoop
    <3> QED
      BY <1>1, <1>3, <1>4, <2>2, <3>1, <3>2
  <2> QED
    BY <1>6, <2>1, <2>2
<1>9. UndisturbedLoopsComplete'
  <2> SUFFICES ASSUME NEW k \in 1 .. L,
                      loops'[k].done, ~loops'[k].disturbed
               PROVE  loops'[k].todo = {}
    BY <1>1 DEF UndisturbedLoopsComplete
  <2>1. CASE k \in 1 .. L - 1
    BY <1>1, <2>1 DEF UndisturbedLoops, UndisturbedLoopsComplete
  <2>2. CASE k = L
    <3>1. p = 0 /\ ~loops[L].disturbed
      BY <1>1, <2>2
    <3>2. loops[L].todo \subseteq Ahead(p)
      BY <1>1, <1>3, <3>1, ExactLoop
    <3> QED
      BY <1>1, <1>5, <2>2, <3>1, <3>2
  <2> QED
    BY <1>6, <2>1, <2>2
<1> QED
  BY <1>7, <1>8, <1>9 DEF UndisturbedLoops

LEMMA LeaveExact ==
  ASSUME LoopInv, Leave
  PROVE  SeenPresent' /\ UndisturbedLoops'
<1> USE DEF LoopInv
<1>1. /\ Len(loops) \in Nat \ {0} /\ Len(loops') = Len(loops) - 1
      /\ objIterator' = objIteratorBackup[Len(loops)]
      /\ \A k \in 1 .. Len(loops) - 1 :
           /\ loops'[k] = loops[k]
           /\ objIteratorBackup'[k] = objIteratorBackup[k]
      /\ objData' = objData
  BY LeaveFacts
<1>2. \A k \in 1 .. Len(loops) - 1 :
        Ahead(Position(k))' = Ahead(Position(k))
  <2> TAKE k \in 1 .. Len(loops) - 1
  <2>1. Position(k)' = Position(k)
    BY <1>1 DEF Position
  <2> QED
    BY <1>1, <2>1 DEF Ahead
<1>3. SeenPresent'
  BY <1>1 DEF SeenPresent
<1>4. UndisturbedLoops'
  BY <1>1, <1>2 DEF UndisturbedLoops, UndisturbedLoopsExact, UndisturbedLoopsComplete
<1> QED
  BY <1>3, <1>4

LEMMA InitLoopInv == Init => LoopInv
<1> SUFFICES ASSUME Init PROVE LoopInv
  OBVIOUS
<1>1. Len(loops) = 0
  BY DEF Init
<1> QED
  BY <1>1, InitSound DEF LoopInv, SeenPresent, UndisturbedLoops, UndisturbedLoopsExact,
                         UndisturbedLoopsComplete

LEMMA NextLoopInv ==
  ASSUME LoopInv, [Next]_vars
  PROVE  LoopInv'
<1>1. Sound'
  BY NextSound DEF LoopInv
<1>2. CASE \E e \in Elements : AddEntry(e)
  BY <1>1, <1>2, AddExact DEF LoopInv
<1>3. CASE \E e \in Elements : RemoveEntry(e)
  BY <1>1, <1>3, RemoveExact DEF LoopInv
<1>4. CASE Enter
  BY <1>1, <1>4, EnterExact DEF LoopInv
<1>5. CASE Advance
  BY <1>1, <1>5, AdvanceExact DEF LoopInv
<1>6. CASE Leave
  BY <1>1, <1>6, LeaveExact DEF LoopInv
<1>7. CASE UNCHANGED vars
  BY <1>1, <1>7 DEF vars, LoopInv, SeenPresent, UndisturbedLoops, Position, Ahead,
                    UndisturbedLoopsExact, UndisturbedLoopsComplete
<1> QED
  BY <1>2, <1>3, <1>4, <1>5, <1>6, <1>7 DEF Next

LEMMA SpecLoopInv == Spec => []LoopInv
  BY InitLoopInv, NextLoopInv, PTL DEF Spec

(* A loop none of whose removals hits a pattern Remove does not compensate *)
(* for never yields an element again, still has before it all it owes, and *)
(* when it ends has visited every element that was in the list throughout: *)
(* at every depth of nesting and for every sequence of additions and       *)
(* removals by the loops inside it.                                        *)
THEOREM SpecUndisturbedLoops == Spec => []UndisturbedLoops
  BY SpecLoopInv, PTL DEF LoopInv
=============================================================================
