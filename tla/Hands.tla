--------------------------------- MODULE Hands ---------------------------------
(***************************************************************************)
(* Picking things up, putting them down and trading them                   *)
(* (cPlayerAction.cpp, trade.cpp, and the end of a connection).            *)
(*                                                                         *)
(*  - a thing picked up from a container stays in it until it is dropped;  *)
(*    one picked up from the ground is in no container and in no list of   *)
(*    the map;                                                             *)
(*  - a refused drop bounces the thing to where it was picked up, and adds *)
(*    and takes weight on the way;                                         *)
(*  - a thing dropped on another player opens a trade: a window for each   *)
(*    of the two, and a check mark on each;                                *)
(*  - a connection that ends, or a death, cancels the trades.              *)
(*                                                                         *)
(* A request names a thing, a place, a trade window.  The handlers compare *)
(* none of it with what was picked up by whom, and a thing may be picked   *)
(* up by a second player, whose request was on its way when the first one  *)
(* took it.                                                                *)
(*                                                                         *)
(* All things weigh the same, and none is a container or a heap.  What is  *)
(* worn counts as being in the pack.  Distances, houses, guards and event  *)
(* scripts are left out: where they refuse, a refusal may happen.          *)
(***************************************************************************)
EXTENDS Integers, FiniteSets

CONSTANTS Items, Players, Trades, (* the trades there may be at once         *)
          None,
          ItemWeight, (* what a thing weighs; nothing, to leave weights out  *)
          MaxWeight,  (* what a character may carry before it picks up more  *)
          AnyRequest, (* requests name what they like, and not only what the *)
                      (* client that makes them shows in its player's hand   *)
          Deaths,     (* players die                                         *)
          Saves       (* the world is saved, and the server may die          *)

ASSUME HandsAssumption ==
  /\ None \notin Items
  /\ IsFiniteSet(Items)
  /\ ItemWeight \in {0, 1}
  /\ MaxWeight \in Nat \ {0}
  /\ AnyRequest \in BOOLEAN /\ Deaths \in BOOLEAN /\ Saves \in BOOLEAN

VARIABLES at,         (* where each thing is                                 *)
          hand,       (* what the client of each player shows on its cursor  *)
          spot,       (* PickupSpot and PickupSerial                         *)
          cursorItem, (* CSocket::cursorItem                                 *)
          parties,    (* the two players of each trade                       *)
          checked,    (* those with CITV_MOREZ set on their window           *)
          playing,    (* the players with a connection                       *)
          dead,       (* the dead ones                                       *)
          weight,     (* what each character weighs                          *)
          saved       (* the tables                                          *)

socks == <<hand, spot, cursorItem>>
trades == <<parties, checked>>
chars == <<playing, dead>>
vars == <<at, socks, trades, chars, weight, saved>>

(* The places.  A thing that is lifted is in no container and no list; one *)
(* that is loose is in neither, but clients were told that it lies there.  *)
(* The box is any container that everybody may open, a corpse among them.  *)
Ground == <<"ground">>
Loose == <<"loose">>
Lifted == <<"lifted">>
Box == <<"box">>
Gone == <<"gone">>
Pack(p) == <<"pack", p>>
Window(t, p) == <<"window", t, p>>
Nowhere == <<"nowhere">>

Places ==
  {Ground, Loose, Lifted, Box, Gone}
    \cup {Pack(p) : p \in Players} \cup {Window(t, p) : t \in Trades, p \in Players}

On(p) == {i \in Items : at[i] = Pack(p)}
InWindow(t, p) == {i \in Items : at[i] = Window(t, p)}
Other(t, p) == CHOOSE q \in parties[t] : q # p

Init ==
  /\ at \in [Items -> {Ground, Box} \cup {Pack(p) : p \in Players}]
  /\ hand = [p \in Players |-> None]
  /\ spot = [p \in Players |-> Nowhere]
  /\ cursorItem = [p \in Players |-> None]
  /\ parties = [t \in Trades |-> {}]
  /\ checked = [t \in Trades |-> {}]
  /\ playing = Players
  /\ dead = {}
  /\ weight = [p \in Players |-> ItemWeight * Cardinality(On(p))]
  /\ saved = [at |-> at, weight |-> weight, dead |-> {}]

-----------------------------------------------------------------------------
(* Weight.                                                                 *)

Heavier(w, p) == [w EXCEPT ![p] = @ + ItemWeight]
Lighter(w, p) == [w EXCEPT ![p] = IF @ > 0 THEN @ - ItemWeight ELSE 0]

(* Elsewhere: PL_GROUND or PL_OTHERPACK, for which picking up added the    *)
(* thing's weight.                                                         *)
Elsewhere(p) == spot[p] \notin {Nowhere, Pack(p)}

(* Fault: taken off from the pack as well, which never had it added.       *)
ReleasedAlways(p) == Lighter(weight, p)

(* The weight added when the thing was picked up is taken off again.       *)
Released(p) == IF Elsewhere(p) THEN Lighter(weight, p) ELSE weight

(* SetCont: the pack it leaves, the pack it comes to.  The pack of a dead  *)
(* player is worn where packs weigh nothing.                               *)
WeightAfterLeaving(w, i) ==
  IF \E q \in Players \ dead : at[i] = Pack(q)
  THEN Lighter(w, CHOOSE q \in Players : at[i] = Pack(q)) ELSE w

WeightAfterMove(w, i, d) ==
  IF \E q \in Players \ dead : d = Pack(q)
  THEN Heavier(WeightAfterLeaving(w, i), CHOOSE q \in Players : d = Pack(q))
  ELSE WeightAfterLeaving(w, i)

MoveTo(i, d, w) ==
  /\ at' = [at EXCEPT ![i] = d]
  /\ weight' = WeightAfterMove(w, i, d)

-----------------------------------------------------------------------------
(* Hands.                                                                  *)

(* Nothing is taken out of somebody else's pack or of a trade window; what *)
(* another player has lifted by now lies on the ground for all that is     *)
(* looked at.  The fault takes things out of windows.                      *)
PickableAnywhere(p, i) == at[i] # Gone /\ at[i] \notin {Pack(q) : q \in Players \ {p}}
Pickable(p, i) ==
  /\ PickableAnywhere(p, i)
  /\ at[i] \notin {Window(t, q) : t \in Trades, q \in Players}

(* Where it was picked up.                                                 *)
From(i) == IF at[i] \in {Loose, Lifted} THEN Ground ELSE at[i]

(* CPIGetItem, when nothing refuses it: neither that the player has        *)
(* something picked up already nor that somebody else has this.            *)
PickUp(p, i) ==
  LET from == From(i)
  IN /\ p \in playing
     /\ AnyRequest \/ hand[p] = None
     /\ Pickable(p, i)
     /\ from # Pack(p) => weight[p] + ItemWeight <= MaxWeight
     /\ hand' = [hand EXCEPT ![p] = i]
     /\ spot' = [spot EXCEPT ![p] = from]
     /\ cursorItem' = [cursorItem EXCEPT ![p] = i]
     /\ at' = IF from = Ground THEN [at EXCEPT ![i] = Lifted] ELSE at
     /\ weight' = IF from = Pack(p) THEN weight ELSE Heavier(weight, p)
     /\ UNCHANGED <<trades, chars, saved>>

(* After a drop: the client's hand is empty, and so is the spot; the       *)
(* cursor's item is not, since SetCursorItem ignores NULL.                 *)
Dropped(p) ==
  /\ hand' = [hand EXCEPT ![p] = None]
  /\ spot' = [spot EXCEPT ![p] = Nowhere]
  /\ UNCHANGED cursorItem

(* What a request of p names, and is there.                                *)
Names(p, i) == p \in playing /\ (AnyRequest \/ hand[p] = i)
Named(p, i) == Names(p, i) /\ at[i] # Gone

(* Drop bounces a thing if nothing was picked up; DropOnItem does not ask. *)
DropGround(p, i) ==
  /\ Named(p, i)
  /\ spot[p] # Nowhere
  /\ MoveTo(i, Ground, Released(p))
  /\ Dropped(p)
  /\ UNCHANGED <<trades, chars, saved>>

(* Into a container anybody may open, or the player's own pack; dropped on *)
(* oneself without a pack, it falls to the ground.                         *)
DropInto(p, i, d) ==
  /\ Named(p, i)
  /\ d = Pack(p) => p \notin dead
  /\ MoveTo(i, d, Released(p))
  /\ Dropped(p)
  /\ UNCHANGED <<trades, chars, saved>>

(* Bounce.  To the ground means SetLocation, which adds nothing to a list  *)
(* and takes nothing out of a container.                                   *)
Bounce(p, i, w) ==
  /\ IF spot[p] \in {Ground, Nowhere}
     THEN /\ at' = [at EXCEPT ![i] = IF @ = Lifted /\ spot[p] = Ground THEN Loose ELSE @]
          /\ weight' = w
     ELSE MoveTo(i, spot[p], w)
  /\ Dropped(p)
  /\ UNCHANGED <<trades, chars, saved>>

(* Into a trash barrel.                                                    *)
Trash(p, i) ==
  /\ Named(p, i)
  /\ MoveTo(i, Gone, Released(p))
  /\ Dropped(p)
  /\ UNCHANGED <<trades, chars, saved>>

DropRefused(p, i) ==
  /\ Named(p, i)
  /\ Bounce(p, i, Released(p))

(* CPIEquipItem: worn, if it was not taken from a container and is another *)
(* player's by now; too far away by now; the player is dead; the thing is  *)
(* gone.                                                                   *)
Anothers(p, i) ==
  \E q \in Players \ {p} : at[i] \in {Pack(q)} \cup {Window(t, q) : t \in Trades}

Equip(p, i) ==
  /\ Named(p, i)
  /\ p \notin dead
  /\ ~(spot[p] = Box /\ Anothers(p, i))
  /\ MoveTo(i, Pack(p), Released(p))
  /\ Dropped(p)
  /\ UNCHANGED <<trades, chars, saved>>

EquipTooFar(p, i) ==
  /\ Named(p, i)
  /\ Elsewhere(p)
  /\ Bounce(p, i, weight)

EquipDead(p, i) ==
  /\ Named(p, i)
  /\ p \in dead
  /\ hand' = [hand EXCEPT ![p] = None]
  /\ weight' = Released(p)
  /\ UNCHANGED <<at, spot, cursorItem, trades, chars, saved>>

EquipVanished(p, i) ==
  /\ Names(p, i)
  /\ at[i] = Gone
  /\ hand' = [hand EXCEPT ![p] = None]
  /\ UNCHANGED <<at, spot, cursorItem, trades, chars, weight, saved>>

(* The thing or the target is gone, or has no connection for a trade:      *)
(* nothing happens to the thing, and the client is not told.               *)
DropVanished(p) ==
  /\ \E i \in Items : Names(p, i)
  /\ Dropped(p)
  /\ UNCHANGED <<at, trades, chars, weight, saved>>

DropNoTrade(p, i, q) ==
  /\ Named(p, i)
  /\ spot[p] # Nowhere
  /\ q # p
  /\ q \notin playing \/ {p, q} \cap dead # {}
  /\ Dropped(p)
  /\ weight' = Released(p)
  /\ UNCHANGED <<at, trades, chars, saved>>

-----------------------------------------------------------------------------
(* Trades.                                                                 *)

(* DropOnPC and startTrade: two windows, and the thing in one of them.     *)
StartTrade(p, i, q, t) ==
  /\ Named(p, i)
  /\ spot[p] # Nowhere
  /\ q # p /\ q \in playing
  /\ {p, q} \cap dead = {}
  /\ weight[q] + ItemWeight <= MaxWeight
  /\ parties[t] = {}
  /\ parties' = [parties EXCEPT ![t] = {p, q}]
  /\ checked' = [checked EXCEPT ![t] = {}]
  /\ MoveTo(i, Window(t, p), Released(p))
  /\ Dropped(p)
  /\ UNCHANGED <<chars, saved>>

(* DropOnTradeWindow: both check marks are cleared.                        *)
DropOnTradeWindow(p, i, t) ==
  /\ Named(p, i)
  /\ p \in parties[t]
  /\ checked' = [checked EXCEPT ![t] = {}]
  /\ MoveTo(i, Window(t, p), Released(p))
  /\ Dropped(p)
  /\ UNCHANGED <<parties, chars, saved>>

(* The last case of DropOnItem: where j, which it is dropped on, is, as    *)
(* long as that is a container.  A client shows the windows of its trades  *)
(* and what anybody may open.                                              *)
Shown(p) ==
  {Box} \cup {Window(t, q) : t \in {u \in Trades : p \in parties[u]}, q \in Players}

Contained(j) ==
  at[j] \in {Box} \cup {Pack(q) : q \in Players}
             \cup {Window(t, q) : t \in Trades, q \in Players}

DropBeside(p, i, j) ==
  /\ Named(p, i)
  /\ i # j /\ Contained(j)
  /\ AnyRequest \/ at[j] \in Shown(p)
  /\ MoveTo(i, at[j], Released(p))
  /\ Dropped(p)
  /\ UNCHANGED <<trades, chars, saved>>

(* completeTrade: where the two windows are emptied to.  The fault gives   *)
(* the second window's things back.                                        *)
TradedToHalf(t, p, success) ==
  IF success /\ p = CHOOSE q \in parties[t] : TRUE THEN Pack(Other(t, p)) ELSE Pack(p)

TradedTo(t, p, success) == IF success THEN Pack(Other(t, p)) ELSE Pack(p)

(* Where things are when the trades ts are over.                           *)
AtAfterTrades(ts, success) ==
  [i \in Items |->
    IF \E t \in ts : \E p \in parties[t] : at[i] = Window(t, p)
    THEN TradedTo(at[i][2], at[i][3], success)
    ELSE at[i]]

(* The things arrive in packs; those in windows weighed nothing.  The      *)
(* fault takes what is in a window for what is carried.                    *)
WeightAfterTradesSame(ts, success) == weight
WeightAfterTrades(ts, success) ==
  [p \in Players |->
    weight[p] + ItemWeight *
      Cardinality({i \in Items : /\ at[i] # Pack(p)
                                 /\ AtAfterTrades(ts, success)[i] = Pack(p)})]

EndTrades(ts) ==
  /\ parties' = [t \in Trades |-> IF t \in ts THEN {} ELSE parties[t]]
  /\ checked' = [t \in Trades |-> IF t \in ts THEN {} ELSE checked[t]]

(* CPITradeMessage: p sets or clears the check mark of the window it       *)
(* names, the one of q, and two of them complete the trade.                *)
TradeCheck(p, t, q, mark) ==
  LET marks == IF mark THEN checked[t] \cup {q} ELSE checked[t] \ {q}
  IN /\ p \in playing /\ q \in parties[t]
     /\ AnyRequest \/ q = p
     /\ IF marks = parties[t]
        THEN /\ at' = AtAfterTrades({t}, TRUE)
             /\ weight' = WeightAfterTrades({t}, TRUE)
             /\ EndTrades({t})
        ELSE /\ checked' = [checked EXCEPT ![t] = marks]
             /\ UNCHANGED <<at, weight, parties>>
     /\ UNCHANGED <<socks, chars, saved>>

TradeCancel(p, t) ==
  /\ p \in playing /\ parties[t] # {}
  /\ AnyRequest \/ p \in parties[t]
  /\ at' = AtAfterTrades({t}, FALSE)
  /\ weight' = WeightAfterTrades({t}, FALSE)
  /\ EndTrades({t})
  /\ UNCHANGED <<socks, chars, saved>>

(* killTrades.                                                             *)
Killed(p) == {t \in Trades : p \in parties[t]}

(* A fault: a death leaves the trades of its player alone.                 *)
KilledAtDeathNone(p) == {}
KilledAtDeath(p) == Killed(p)

-----------------------------------------------------------------------------
(* Connections, deaths, saves.                                             *)

(* What LogOut puts on the ground: the cursor's item, if it was picked up  *)
(* from there.  (A deleted thing that is put down stays deleted.)          *)
PutDownAny(p) == {i \in Items : cursorItem[p] = i /\ at[i] # Gone}
PutDown(p) == IF spot[p] = Ground THEN PutDownAny(p) ELSE {}

Disconnect(p) ==
  LET ended == AtAfterTrades(Killed(p), FALSE)
      heavy == WeightAfterTrades(Killed(p), FALSE)
  IN /\ p \in playing
     /\ playing' = playing \ {p}
     /\ at' = [i \in Items |-> IF i \in PutDown(p) THEN Ground ELSE ended[i]]
     /\ weight' = [q \in Players |->
          IF q \notin dead /\ \E i \in PutDown(p) : ended[i] = Pack(q)
          THEN IF heavy[q] > 0 THEN heavy[q] - ItemWeight ELSE 0
          ELSE heavy[q]]
     /\ EndTrades(Killed(p))
     /\ hand' = [hand EXCEPT ![p] = None]
     /\ spot' = [spot EXCEPT ![p] = Nowhere]
     /\ cursorItem' = [cursorItem EXCEPT ![p] = None]
     /\ UNCHANGED <<dead, saved>>

Connect(p) ==
  /\ p \notin playing
  /\ playing' = playing \cup {p}
  /\ UNCHANGED <<at, socks, trades, dead, weight, saved>>

(* HandleDeath: the trades are cancelled; what the player had is moved to  *)
(* the corpse, except what it keeps (newbie things, spell books).          *)
Die(p) ==
  LET ended == AtAfterTrades(KilledAtDeath(p), FALSE)
      heavy == WeightAfterTrades(KilledAtDeath(p), FALSE)
  IN /\ Deaths
     /\ p \in playing \ dead
     /\ dead' = dead \cup {p}
     /\ \E moved \in SUBSET {i \in Items : ended[i] = Pack(p)} :
          LET n == ItemWeight * Cardinality(moved)
          IN /\ at' = [i \in Items |-> IF i \in moved THEN Box ELSE ended[i]]
             /\ weight' = [heavy EXCEPT ![p] = IF @ > n THEN @ - n ELSE 0]
     /\ EndTrades(KilledAtDeath(p))
     /\ UNCHANGED <<socks, playing, saved>>

Resurrect(p) ==
  /\ p \in dead \cap playing
  /\ dead' = dead \ {p}
  /\ UNCHANGED <<at, socks, trades, playing, weight, saved>>

(* What a world save writes: the lists of the map, the containers in them  *)
(* and what characters wear on a layer.  A trade window has none.          *)
WorldSave ==
  /\ Saves
  /\ saved' = [at |-> [i \in Items |->
                 IF at[i] \in {Ground, Box} \cup {Pack(p) : p \in Players}
                 THEN at[i] ELSE Gone],
               weight |-> weight, dead |-> dead]
  /\ UNCHANGED <<at, socks, trades, chars, weight>>

(* The server dies and starts again: clearTrades finds no windows.         *)
Restart ==
  /\ Saves
  /\ at' = saved.at /\ weight' = saved.weight /\ dead' = saved.dead
  /\ playing' = {}
  /\ hand' = [p \in Players |-> None]
  /\ spot' = [p \in Players |-> Nowhere]
  /\ cursorItem' = [p \in Players |-> None]
  /\ EndTrades(Trades)
  /\ UNCHANGED saved

(* The requests that put a thing down, or let it be.                       *)
Puts(p, i) ==
  \/ DropGround(p, i)
  \/ Trash(p, i)
  \/ DropRefused(p, i)
  \/ Equip(p, i)
  \/ EquipTooFar(p, i)
  \/ EquipDead(p, i)
  \/ EquipVanished(p, i)
  \/ \E d \in {Box, Pack(p)} : DropInto(p, i, d)
  \/ \E q \in Players : DropNoTrade(p, i, q)
  \/ \E q \in Players, t \in Trades : StartTrade(p, i, q, t)
  \/ \E t \in Trades : DropOnTradeWindow(p, i, t)
  \/ \E j \in Items : DropBeside(p, i, j)

Next ==
  \/ \E p \in Players, i \in Items : PickUp(p, i) \/ Puts(p, i)
  \/ \E p, q \in Players, t \in Trades, mark \in BOOLEAN : TradeCheck(p, t, q, mark)
  \/ \E p \in Players, t \in Trades : TradeCancel(p, t)
  \/ \E p \in Players :
       DropVanished(p) \/ Disconnect(p) \/ Connect(p) \/ Die(p) \/ Resurrect(p)
  \/ WorldSave
  \/ Restart

Spec == Init /\ [][Next]_vars

-----------------------------------------------------------------------------
TypeOK ==
  /\ at \in [Items -> Places]
  /\ hand \in [Players -> Items \cup {None}]
  /\ spot \in [Players -> {Nowhere, Ground, Box} \cup {Pack(p) : p \in Players}]
  /\ cursorItem \in [Players -> Items \cup {None}]
  /\ parties \in [Trades -> SUBSET Players]
  /\ checked \in [Trades -> SUBSET Players]
  /\ playing \subseteq Players /\ dead \subseteq Players
  /\ weight \in [Players -> Nat]

(* startTrade, killTrades: the two sides of a trade are there and alive, a *)
(* check mark is of one of them, and nothing is in a window of no trade.   *)
TradersPresent ==
  /\ \A t \in Trades :
       /\ parties[t] \subseteq playing \ dead
       /\ Cardinality(parties[t]) \in {0, 2}
       /\ checked[t] \subseteq parties[t]
       /\ checked[t] = parties[t] => parties[t] = {}
  /\ \A i \in Items, t \in Trades, p \in Players :
       at[i] = Window(t, p) => p \in parties[t]

(* A thing was picked up where it is no longer: two players had picked it  *)
(* up, and one of them put it down.                                        *)
PickedUpTwice(i) ==
  \E q \in Players : cursorItem[q] = i /\ spot[q] \notin {Nowhere, at[i]}

(* A request names a thing that its player has not in the hand.            *)
Misnamed(i) == \E p \in Players : hand[p] # i /\ Puts(p, i)

(* A request names a place that its player's client does not show.         *)
Misplaced ==
  \E p \in Players, i, j \in Items : at[j] \notin Shown(p) /\ DropBeside(p, i, j)

(* completeTrade, killTrades: when a trade ends, and the server goes on,   *)
(* all that was offered changes hands, the mark of one side having been    *)
(* there before, or all of it is its owner's again, on the owner's corpse  *)
(* perhaps; LogOut may put a thing down that was picked up twice.          *)
AllOrNothing ==
  [][\A t \in Trades :
       parties[t] # {} /\ parties'[t] = {} =>
         \/ /\ checked[t] # {}
            /\ \A p \in parties[t] : \A i \in InWindow(t, p) : at'[i] = Pack(Other(t, p))
         \/ \A p \in parties[t] : \A i \in InWindow(t, p) :
              at'[i] = Pack(p) \/ (at'[i] = Box /\ p \in dead') \/ PickedUpTwice(i)
         \/ Restart]_vars

(* CPIGetItem, the drops: what is offered stays offered as long as one     *)
(* side agrees to it, unless it was picked up twice or a request of somebody *)
(* who has it not in the hand names it.                                    *)
AgreedLosesNothing ==
  [][\A t \in Trades : checked[t] \cap checked'[t] # {} =>
       \A p \in parties[t] : \A i \in InWindow(t, p) :
         at'[i] = Window(t, p) \/ PickedUpTwice(i) \/ Misnamed(i)]_vars

(* CPIGetItem, LogOut, the drops: a thing leaves a player's pack in that   *)
(* player's hand, or because that player died, unless it was picked up     *)
(* twice, a request of somebody who has it not in the hand names it, or the*)
(* server died.                                                            *)
TakenByItsOwner ==
  [][\A p \in Players : \A i \in On(p) :
       at'[i] # Pack(p) =>
         \/ hand[p] = i
         \/ p \in dead' \ dead
         \/ PickedUpTwice(i)
         \/ Misnamed(i)
         \/ Restart]_vars

(* What a character has.                                                   *)
Burden(p) ==
  ItemWeight * (Cardinality(On(p)) + IF hand[p] # None /\ Elsewhere(p) THEN 1 ELSE 0)

(* addItemWeight, subtractItemWeight, HandleDeath: whoever weighs enough   *)
(* for what they have, now and in the tables, goes on doing so until, dead *)
(* by then, they let go of a thing they had taken out of their own pack,   *)
(* or a request names what its player has not, or a place not shown.       *)
WeighsEnough(p) ==
  /\ weight[p] >= Burden(p)
  /\ saved.weight[p] >= ItemWeight * Cardinality({i \in Items : saved.at[i] = Pack(p)})

ShortOnlyByTheDead ==
  [][\A p \in Players : WeighsEnough(p) =>
       \/ WeighsEnough(p)'
       \/ p \in dead /\ hand[p] # None /\ hand'[p] = None /\ spot[p] = Pack(p)
       \/ Misplaced \/ \E i \in Items : Misnamed(i)]_vars

(* What picking up added is taken off when the thing is down again.        *)
WeightAccounted == \A p \in Players : weight[p] = Burden(p)

(* The cursor's item is the one being held.                                *)
CursorIsHeld == \A p \in Players : cursorItem[p] # None => cursorItem[p] = hand[p]

(* What is in a trade is in the tables after a world save.                 *)
TradedIsSaved ==
  [][WorldSave => \A i \in Items, t \in Trades : at[i][1] = "window" => saved'.at[i] # Gone]_vars
=============================================================================
