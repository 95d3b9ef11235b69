------------------------------- MODULE Estates --------------------------------
(***************************************************************************)
(* Houses and boats: the multis (src/src/system/BaseObjects/cMultiObj.cpp, *)
(* Subsystem/house.cpp, Subsystem/boats.cpp).  What stands inside a multi  *)
(* points to it and is in its lists; what is locked down there has a flag  *)
(* of its own and is in another list.  The map is a few places, each of    *)
(* them the area of one multi, and Open is everywhere else, the containers *)
(* too.  Boats go from place to place and may cover one another.           *)
(*                                                                         *)
(* Not modelled: owners and bans, who may give the orders, the deeds and   *)
(* keys, the turning of boats in place, what scripts do when somebody      *)
(* leaves, and game masters who carry off what is locked down.             *)
(***************************************************************************)
EXTENDS Naturals, FiniteSets

CONSTANTS Houses, Boats,
          Parts,        (* doors and signs, or tillers, planks and holds    *)
          PartOf,       (* the multi each of them is made with              *)
          Things, Folk,
          Vendors,      (* those of the folk that a deeded house takes away *)
          Land, Sea,    (* the places of houses, and of boats               *)
          Open,         (* every other place                                *)
          None,         (* no multi, and no place: not made yet, or deleted *)
          MaxLockDowns  (* CMultiObj::maxLockedDown                         *)

Multis  == Houses \cup Boats
Objects == Parts \cup Things \cup Folk
Places  == Land \cup Sea

ASSUME EstateAssumption ==
  /\ Houses \cap Boats = {} /\ Land \cap Sea = {}
  /\ Parts \cap (Things \cup Folk) = {} /\ Things \cap Folk = {}
  /\ PartOf \in [Parts -> Multis] /\ Vendors \subseteq Folk
  /\ None \notin Multis \cup Places \cup {Open} /\ Open \notin Places
  /\ MaxLockDowns \in Nat

VARIABLES site,        (* where each multi stands                          *)
          ended,       (* multis that are deleted                          *)
          where,       (* where each object is                             *)
          multi,       (* CBaseObject::multis                              *)
          inside,      (* itemInMulti and charInMulti                      *)
          lockedDown,  (* things whose movable is 3                        *)
          lockedList   (* CMultiObj::lockedList                            *)

locks      == <<lockedDown, lockedList>>
estateVars == <<site, ended, where, multi, inside, locks>>

EstateInit ==
  /\ site = [m \in Multis |-> None] /\ ended = {}
  /\ where = [o \in Objects |-> IF o \in Parts THEN None ELSE Open]
  /\ multi = [o \in Objects |-> None]
  /\ inside = [m \in Multis |-> {}]
  /\ lockedDown = {} /\ lockedList = [m \in Multis |-> {}]

Alive(o) == where[o] # None
Standing(m) == site[m] # None

-----------------------------------------------------------------------------
(* findMulti, when the multis stand at s: where boats cover one another it *)
(* is one of them.  A multi that does not cover the place but is nearer by *)
(* its middle may hide the one that does.                                  *)
FindMulti(s, p) ==
  LET there == {m \in Multis : s[m] = p /\ p \in Places}
      near  == {m \in Multis : s[m] \notin {p, None}}
  IN there \cup IF there = {} \/ near # {} THEN {None} ELSE {}

(* CBaseObject::SetMulti, of each object of a set to a multi of its own.   *)
(* A deleted multi is left alone.                                          *)
SetMultis(to) ==
  /\ multi' = [o \in Objects |-> IF o \in DOMAIN to THEN to[o] ELSE multi[o]]
  /\ inside' = [k \in Multis |->
       (inside[k] \ {o \in DOMAIN to : multi[o] = k /\ k \notin ended})
         \cup {o \in DOMAIN to : to[o] = k}]

SetMulti(S, m) == SetMultis([o \in S |-> m])

Put(S, p) == where' = [o \in Objects |-> IF o \in S THEN p ELSE where[o]]

-----------------------------------------------------------------------------
(* BuildHouse: no multi may be found there, but things and folk may.  The  *)
(* builder ends up inside.                                                 *)
Build(m, p, c) ==
  /\ ~Standing(m) /\ m \notin ended
  /\ p \in IF m \in Boats THEN Sea ELSE Land
  /\ None \in FindMulti(site, p)
  /\ c \in Folk /\ Alive(c)
  /\ LET new == {f \in Parts : PartOf[f] = m} \cup {c} IN
       Put(new, p) /\ SetMulti(new, m)
  /\ site' = [site EXCEPT ![m] = p]
  /\ UNCHANGED <<ended, locks>>

(* SetLocation, of a character, and of a thing that is let go of.          *)
SetLocation(o, p) ==
  /\ Alive(o)
  /\ o \in Folk \/ (o \in Things /\ where[o] = Open)
  /\ Put({o}, p)
  /\ \E m \in FindMulti(site, p) : SetMulti({o}, m)
  /\ UNCHANGED <<site, ended, locks>>

(* CPIGetItem: the thing leaves its multi before its weight and whether it *)
(* is movable are looked at.                                               *)
Reaches(o) == \/ multi[o] = None
              \/ \E c \in Folk : multi[c] = multi[o] /\ o \notin lockedDown

PickUp(i) ==
  /\ i \in Things \ lockedDown /\ where[i] \in Places
  /\ Reaches(i)
  /\ Put({i}, Open)
  /\ SetMulti({i}, None)
  /\ UNCHANGED <<site, ended, locks>>

PickUpRefused(o) ==
  /\ o \in Parts \cup Things /\ where[o] \in Places
  /\ multi[o] # None /\ Reaches(o)
  /\ SetMulti({o}, None)
  /\ UNCHANGED <<site, ended, where, locks>>

(* Something else puts the thing into a container, SetCont alone.          *)
SetCont(i) ==
  /\ i \in Things \ lockedDown /\ where[i] \in Places
  /\ Put({i}, Open)
  /\ UNCHANGED <<site, ended, multi, inside, locks>>

DeleteObject(o) ==
  /\ Alive(o)
  /\ Put({o}, None)
  /\ SetMulti({o}, None)
  /\ UNCHANGED <<site, ended, locks>>

-----------------------------------------------------------------------------
(* HouseLockdown and HouseRelease go by where the thing stands.            *)
CanBeLockedDown(i) == i \in Things \ lockedDown

Lock(i, m) ==
  /\ Alive(i) /\ CanBeLockedDown(i)
  /\ m \in FindMulti(site, where[i]) \ {None}
  /\ Cardinality(lockedList[m]) < MaxLockDowns
  /\ lockedDown' = lockedDown \cup {i}
  /\ lockedList' = [lockedList EXCEPT ![m] = @ \cup {i}]
  /\ UNCHANGED <<site, ended, where, multi, inside>>

Release(i, m) ==
  /\ Alive(i) /\ i \in lockedDown
  /\ m \in FindMulti(site, where[i]) \ {None}
  /\ i \in lockedList[m]
  /\ lockedDown' = lockedDown \ {i}
  /\ lockedList' = [lockedList EXCEPT ![m] = @ \ {i}]
  /\ UNCHANGED <<site, ended, where, multi, inside>>

-----------------------------------------------------------------------------
(* CMultiObj::Cleanup, with what goes along: all that its lists hold is    *)
(* let out, or deleted if it is a door or a sign, of whichever house.  The *)
(* fault lets only items out.                                              *)
EmptiedOfItems(m) == inside[m] \ Folk
Emptied(m) == inside[m]

DoorsAndSigns == {f \in Parts : PartOf[f] \in Houses}

Cleanup(m, along) ==
  LET lost == (inside[m] \cap DoorsAndSigns) \cup along IN
  /\ Standing(m)
  /\ Put(lost, None)
  /\ SetMulti(Emptied(m) \cup lost, None)
  /\ site' = [site EXCEPT ![m] = None]
  /\ ended' = ended \cup {m}
  /\ lockedDown' = lockedDown \ (inside[m] \ Folk)
  /\ UNCHANGED lockedList

(* A command, or decay; deedHouse takes the vendors along, and ModelBoat,  *)
(* of an empty boat, its tiller, planks and hold wherever they are listed. *)
RemoveMulti(m) == Cleanup(m, {})
DeedHouse(m) == m \in Houses /\ Cleanup(m, inside[m] \cap Vendors)
ModelBoat(m) ==
  /\ m \in Boats
  /\ inside[m] \subseteq Parts
  /\ Cleanup(m, {f \in Parts : PartOf[f] = m})

(* MoveBoat takes along its parts and what its lists hold, if it is there, *)
(* and finds the multi of each where it is then.                           *)
MoveBoat(b, q) ==
  /\ b \in Boats /\ Standing(b) /\ q \in Sea
  /\ \A f \in Parts : PartOf[f] = b => Alive(f)
  /\ site' = [site EXCEPT ![b] = q]
  /\ LET moved == {o \in inside[b] : where[o] = site[b]}
                    \cup {f \in Parts : PartOf[f] = b}
     IN /\ Put(moved, q)
        /\ \E to \in [moved -> FindMulti(site', q)] : SetMultis(to)
  /\ UNCHANGED <<ended, locks>>

EstateNext ==
  \/ \E m \in Multis, p \in Places, c \in Folk : Build(m, p, c)
  \/ \E o \in Objects, p \in Places \cup {Open} : SetLocation(o, p)
  \/ \E o \in Objects : PickUp(o) \/ PickUpRefused(o) \/ SetCont(o) \/ DeleteObject(o)
  \/ \E i \in Things, m \in Multis : Lock(i, m) \/ Release(i, m)
  \/ \E m \in Multis : RemoveMulti(m) \/ DeedHouse(m) \/ ModelBoat(m)
  \/ \E b \in Boats, q \in Places : MoveBoat(b, q)

EstateSpec == EstateInit /\ [][EstateNext]_estateVars

-----------------------------------------------------------------------------
(* Type invariant. *)
EstateTypeOK ==
  /\ site \in [Multis -> Places \cup {None}] /\ ended \in SUBSET Multis
  /\ where \in [Objects -> Places \cup {Open, None}]
  /\ multi \in [Objects -> Multis \cup {None}]
  /\ inside \in [Multis -> SUBSET Objects]
  /\ lockedDown \in SUBSET Things /\ lockedList \in [Multis -> SUBSET Things]

(* Nothing points to a multi that is deleted, whose memory is freed before *)
(* long, and a multi that stands lists exactly what points to it: through  *)
(* walks, refused pick-ups, boats that change places under what they       *)
(* carry, and the loops that take a multi down.                            *)
InsideAgrees ==
  /\ \A o \in Objects : multi[o] # None => Standing(multi[o])
  /\ \A m \in Multis : Standing(m) => inside[m] = {o \in Objects : multi[o] = m}

(* What fails, see the README: one multi at a time locks a thing down, what *)
(* is locked down can be released, the lists hold nothing deleted, and a   *)
(* multi's parts go with it.                                               *)
LockedOnce == \A m, k \in Multis :
  m # k /\ Standing(m) /\ Standing(k) => lockedList[m] \cap lockedList[k] = {}
LockedHasMulti == \A i \in lockedDown : \E m \in Multis :
  Standing(m) /\ i \in lockedList[m]
LockListsAlive == \A m \in Multis : Standing(m) => \A i \in lockedList[m] : Alive(i)
PartsGoToo == \A f \in Parts : PartOf[f] \in ended => ~Alive(f)
=============================================================================
