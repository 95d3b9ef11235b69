------------------------------- MODULE DataList -------------------------------
(***************************************************************************)
(* CDataList (src/src/system/Subsystem/CDataList.h): the deque that holds  *)
(* the contents of containers, the objects of a map cell, a spawn region's *)
(* objects, the temporary effects and the parties.  It carries its own     *)
(* iterator, so a loop over it survives Add and Remove, and a stack of     *)
(* saved positions, so that a loop can run inside another one:             *)
(*                                                                         *)
(*   list->Push();                                                         *)
(*   for (x = list->First(); !list->Finished(); x = list->Next()) { ... }  *)
(*   list->Pop();                                                          *)
(*                                                                         *)
(* Positions are the code's indices: element p of the deque is             *)
(* objData[p + 1], and end() is Len(objData).  Iteration runs backwards.   *)
(* The ghost variable "loops" records, for each loop in progress from the  *)
(* outermost to the innermost, what it has visited and still owes.         *)
(***************************************************************************)
EXTENDS Naturals, Sequences, SequencesExt

CONSTANTS Elements,   (* the pointers a list may hold        *)
          MaxDepth    (* bound: how deeply loops are nested  *)

ASSUME MaxDepthAssumption == MaxDepth \in Nat

VARIABLES objData,            (* the deque, first element first             *)
          objIterator,        (* the position of the live iterator          *)
          objIteratorBackup,  (* the positions saved by Push                *)
          loops               (* ghost: the loops in progress               *)

vars == <<objData, objIterator, objIteratorBackup, loops>>

End == Len(objData)

(* A loop: the elements it has visited, those present when it began that it *)
(* has not visited, whether it has run out, and whether a removal hit one   *)
(* of the two patterns that Remove does not compensate for.                 *)
Loop == [seen: SUBSET Elements, todo: SUBSET Elements,
         done: BOOLEAN, disturbed: BOOLEAN]

Init ==
  /\ objData = <<>>
  /\ objIterator = 0
  /\ objIteratorBackup = <<>>
  /\ loops = <<>>

-----------------------------------------------------------------------------
(* The operations of the class.                                            *)

(* Faults, which the properties must tell from the code: Remove that       *)
(* leaves the live iterator or the saved positions alone.                  *)
LiveLeftAlone(r) == IF objIterator = End THEN End - 1 ELSE objIterator

SavedLeftAlone(r, q) == q

(* Add refuses a duplicate; an iterator at end() stays at end().  Of any   *)
(* other iterator the language promises nothing after push_back; it goes   *)
(* on at its index as long as the deque's table of blocks does not move,   *)
(* which is what is modelled.                                              *)
AddEntry(e) ==
  /\ e \notin ToSet(objData)
  /\ objData' = Append(objData, e)
  /\ objIterator' = IF objIterator = End THEN End + 1 ELSE objIterator
  /\ UNCHANGED <<objIteratorBackup, loops>>

(* Remove steps the live iterator back when an element before it goes,     *)
(* unless that element is the first one.                                   *)
LiveAfterErase(r) ==
  CASE objIterator = End            -> End - 1
    [] 0 < r /\ r < objIterator     -> objIterator - 1
    [] OTHER                        -> objIterator

(* A saved position steps back when an element at or before it goes.       *)
SavedAfterErase(r, q) == IF q > 0 /\ r <= q THEN q - 1 ELSE q

(* Ghost: loop k, after the element e at position r went.  Its position is *)
(* the live iterator's for the innermost loop, a saved one for the others. *)
LoopAfterErase(k, e, r) ==
  LET hit == IF k = Len(loops)
             THEN r = 0 /\ 0 < objIterator /\ objIterator < End
             ELSE r = objIteratorBackup[k + 1] /\ 0 < r
  IN [seen |-> loops[k].seen \ {e}, todo |-> loops[k].todo \ {e},
      done |-> loops[k].done, disturbed |-> loops[k].disturbed \/ hit]

RemoveEntry(e) ==
  \E r \in 0 .. Len(objData) - 1 :
    /\ objData[r + 1] = e
    /\ objData' = RemoveAt(objData, r + 1)
    /\ objIterator' = LiveAfterErase(r)
    /\ objIteratorBackup' =
         [i \in 1 .. Len(objIteratorBackup) |->
            SavedAfterErase(r, objIteratorBackup[i])]
    /\ loops' = [k \in 1 .. Len(loops) |-> LoopAfterErase(k, e, r)]

-----------------------------------------------------------------------------
(* The loops callers run.                                                  *)

(* Ghost: what a loop has after Next moved to position p - 1.              *)
Visited(loop, p) ==
  [seen |-> loop.seen \cup {objData[p]}, todo |-> loop.todo \ {objData[p]},
   done |-> loop.done, disturbed |-> loop.disturbed]

(* Next steps back, or goes to end() from the first element.               *)
NextFrom(p) == IF p = 0 THEN End ELSE p - 1

(* Push, then First: the loop's first element is the last of the list.  A  *)
(* loop begins inside the body of the loop around it.                      *)
Enter ==
  /\ Len(loops) < MaxDepth
  /\ loops # <<>> => ~Last(loops).done
  /\ objIteratorBackup' = Append(objIteratorBackup, objIterator)
  /\ objIterator' = NextFrom(End)
  /\ LET fresh == [seen |-> {}, todo |-> ToSet(objData),
                   done |-> End = 0, disturbed |-> FALSE]
     IN loops' = Append(loops, IF End = 0 THEN fresh ELSE Visited(fresh, End))
  /\ UNCHANGED objData

(* The loop's step: Next, and its condition !Finished().                   *)
Advance ==
  /\ loops # <<>>
  /\ ~Last(loops).done
  /\ objIterator' = NextFrom(objIterator)
  /\ loops' = [loops EXCEPT ![Len(loops)] =
                 IF objIterator = 0
                 THEN [@ EXCEPT !.done = TRUE]
                 ELSE Visited(@, objIterator)]
  /\ UNCHANGED <<objData, objIteratorBackup>>

(* Pop, at the end of the loop or on a return from its body.               *)
Leave ==
  /\ loops # <<>>
  /\ objIterator' = Last(objIteratorBackup)
  /\ objIteratorBackup' = Front(objIteratorBackup)
  /\ loops' = Front(loops)
  /\ UNCHANGED objData

Next ==
  \/ \E e \in Elements : AddEntry(e) \/ RemoveEntry(e)
  \/ Enter
  \/ Advance
  \/ Leave

Spec == Init /\ [][Next]_vars

-----------------------------------------------------------------------------
(* Properties.                                                             *)

(* The position of loop k.                                                 *)
Position(k) ==
  IF k = Len(loops) THEN objIterator ELSE objIteratorBackup[k + 1]

(* The elements a loop at position p has before it, which Next will yield. *)
Ahead(p) == {objData[i] : i \in 1 .. p}

TypeOK ==
  /\ objData \in Seq(Elements)
  /\ objIterator \in Nat
  /\ objIteratorBackup \in Seq(Nat)
  /\ loops \in Seq(Loop)
  /\ Len(objIteratorBackup) = Len(loops)

(* No position, live or saved, ever lies beyond end(): whatever is added   *)
(* and removed between a Push and its Pop, Next and GetCurrent dereference *)
(* an element of the deque.                                                *)
PositionsInBounds ==
  /\ objIterator <= Len(objData)
  /\ \A i \in 1 .. Len(objIteratorBackup) :
       objIteratorBackup[i] <= Len(objData)

(* The list never holds an element twice.                                  *)
NoDuplicates ==
  \A i, j \in 1 .. Len(objData) : objData[i] = objData[j] => i = j

(* A loop that no removal disturbed will not see an element again, and has *)
(* everything it owes still before it, however deeply it is suspended and  *)
(* whatever the loops inside it add and remove.                            *)
UndisturbedLoopsExact ==
  \A k \in 1 .. Len(loops) :
    ~loops[k].done /\ ~loops[k].disturbed =>
      /\ loops[k].seen \cap Ahead(Position(k)) = {}
      /\ loops[k].todo \subseteq Ahead(Position(k))

(* An undisturbed loop that ran out has visited every element that was in  *)
(* the list from its first to its last step.                               *)
UndisturbedLoopsComplete ==
  \A k \in 1 .. Len(loops) :
    loops[k].done /\ ~loops[k].disturbed => loops[k].todo = {}

(* Whatever is added and removed inside it, a loop that no uncompensated   *)
(* removal hits visits what stays in the list, and everything once.        *)
UndisturbedLoops == UndisturbedLoopsExact /\ UndisturbedLoopsComplete

(* What the header promises of every loop, "to allow us to safely create,  *)
(* iterate (allowing nested iterations)": Next yields no element twice ... *)
NoElementTwice ==
  [][Advance /\ objIterator > 0
       => objData[objIterator] \notin Last(loops).seen]_vars

(* ... and a loop that ran out has missed none.                            *)
NoElementMissed ==
  \A k \in 1 .. Len(loops) : loops[k].done => loops[k].todo = {}
=============================================================================
