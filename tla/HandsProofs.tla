----------------------------- MODULE HandsProofs -----------------------------
(***************************************************************************)
(* What holds of hands and trades for any number of players, things and    *)
(* trades.                                                                 *)
(***************************************************************************)
EXTENDS Hands, FiniteSetTheorems, TLAPS

(* The places differ, and a window or a pack says whose it is.             *)
LEMMA PlacesDiffer ==
  /\ \A t, p, u, q : Window(t, p) = Window(u, q) => t = u /\ p = q
  /\ \A t, p : Window(t, p)[2] = t /\ Window(t, p)[3] = p
  /\ \A p, q : Pack(p) = Pack(q) => p = q
  /\ \A t, p, q : Window(t, p) # Pack(q)
  /\ \A t, p : Window(t, p) \notin {Ground, Loose, Lifted, Box, Gone, Nowhere}
  /\ \A p : Pack(p) \notin {Ground, Loose, Lifted, Box, Gone, Nowhere}
  /\ Ground \notin {Loose, Lifted, Box, Gone, Nowhere}
  /\ Lifted \notin {Loose, Box, Gone, Nowhere}
  /\ Gone \notin {Loose, Box, Nowhere} /\ Nowhere \notin {Loose, Box}
PROOF
<1> USE DEF Window, Pack, Ground, Loose, Lifted, Box, Gone, Nowhere
<1>1. \A t, p : Window(t, p)[1] = "window" /\ Window(t, p)[2] = t /\ Window(t, p)[3] = p
  OBVIOUS
<1>2. \A p : Pack(p)[1] = "pack" /\ Pack(p)[2] = p
  OBVIOUS
<1>3. /\ Ground[1] = "ground" /\ Loose[1] = "loose" /\ Lifted[1] = "lifted"
      /\ Box[1] = "box" /\ Gone[1] = "gone"
      /\ Nowhere[1] = "nowhere"
  OBVIOUS
<1> HIDE DEF Window, Pack, Ground, Loose, Lifted, Box, Gone, Nowhere
<1>4. \A t, p, u, q : Window(t, p) = Window(u, q) => t = u /\ p = q
  BY <1>1
<1>5. \A p, q : Pack(p) = Pack(q) => p = q
  BY <1>2
<1>6. \A t, p : Window(t, p) \notin {Ground, Loose, Lifted, Box, Gone, Nowhere}
  BY <1>1, <1>3
<1>7. \A p : Pack(p) \notin {Ground, Loose, Lifted, Box, Gone, Nowhere}
  BY <1>2, <1>3
<1>8. \A t, p, q : Window(t, p) # Pack(q)
  BY <1>1, <1>2
<1> QED BY <1>1, <1>3, <1>4, <1>5, <1>6, <1>7, <1>8

-----------------------------------------------------------------------------
(* The inductive invariant: what is saved lies in no window, a trade has   *)
(* finitely many sides.                                                    *)
SavedSound ==
  /\ saved.at \in [Items -> {Ground, Box, Gone} \cup {Pack(p) : p \in Players}]
  /\ saved.weight \in [Players -> Nat]
  /\ saved.dead \subseteq Players
Sided == \A t \in Trades : IsFiniteSet(parties[t])

HandsInv == TypeOK /\ SavedSound /\ Sided /\ TradersPresent

(* Of two there is another one.                                            *)
LEMMA OtherOne ==
  ASSUME HandsInv, NEW t \in Trades, NEW p \in parties[t]
  PROVE  /\ Cardinality(parties[t]) = 2
         /\ Other(t, p) \in parties[t] /\ Other(t, p) # p /\ Other(t, p) \in Players
PROOF
<1>1. Cardinality(parties[t]) = 2
  <2>1. IsFiniteSet(parties[t]) /\ Cardinality(parties[t]) \in {0, 2}
    BY DEF HandsInv, TradersPresent, Sided
  <2>2. Cardinality(parties[t]) # 0
    BY <2>1, FS_EmptySet
  <2> QED BY <2>1, <2>2
<1>2. \E q \in parties[t] : q # p
  <2> SUFFICES ASSUME parties[t] = {p} PROVE FALSE
    OBVIOUS
  <2> QED BY <1>1, FS_Singleton
<1> QED BY <1>1, <1>2 DEF Other, HandsInv, TypeOK

(* SetCont leaves everything else where it is.                             *)
LEMMA Moved ==
  ASSUME HandsInv, NEW i \in Items, NEW d \in Places, NEW w \in [Players -> Nat],
         MoveTo(i, d, w)
  PROVE  /\ at' \in [Items -> Places] /\ weight' \in [Players -> Nat]
         /\ \A j \in Items : at'[j] = IF j = i THEN d ELSE at[j]
PROOF
<1>1. at' \in [Items -> Places] /\ \A j \in Items : at'[j] = IF j = i THEN d ELSE at[j]
  BY DEF MoveTo, HandsInv, TypeOK
<1>2. \A v \in [Players -> Nat], q \in Players :
        Lighter(v, q) \in [Players -> Nat] /\ Heavier(v, q) \in [Players -> Nat]
  BY HandsAssumption DEF Lighter, Heavier
<1>3. WeightAfterLeaving(w, i) \in [Players -> Nat]
  <2>1. CASE \E q \in Players \ dead : at[i] = Pack(q)
    <3>1. (CHOOSE q \in Players : at[i] = Pack(q)) \in Players
      BY <2>1
    <3> QED BY <1>2, <2>1, <3>1 DEF WeightAfterLeaving
  <2> QED BY <2>1 DEF WeightAfterLeaving
<1>4. WeightAfterMove(w, i, d) \in [Players -> Nat]
  <2>1. CASE \E q \in Players \ dead : d = Pack(q)
    <3>1. (CHOOSE q \in Players : d = Pack(q)) \in Players
      BY <2>1
    <3> QED BY <1>2, <1>3, <2>1, <3>1 DEF WeightAfterMove
  <2> QED BY <1>3, <2>1 DEF WeightAfterMove
<1> QED BY <1>1, <1>4 DEF MoveTo

(* Where the things of trades that end come to lie.                        *)
LEMMA AfterTrades ==
  ASSUME HandsInv, NEW ts \in SUBSET Trades, NEW success \in BOOLEAN
  PROVE  /\ AtAfterTrades(ts, success) \in [Items -> Places]
         /\ WeightAfterTrades(ts, success) \in [Players -> Nat]
         /\ \A i \in Items, t \in ts, p \in Players : at[i] = Window(t, p) =>
              p \in parties[t] /\ AtAfterTrades(ts, success)[i] = TradedTo(t, p, success)
         /\ \A i \in Items :
              (\A t \in ts, p \in Players : at[i] # Window(t, p)) =>
                AtAfterTrades(ts, success)[i] = at[i]
         /\ \A i \in Items, t \in Trades, p \in Players :
              AtAfterTrades(ts, success)[i] = Window(t, p) => at[i] = Window(t, p) /\ t \notin ts
PROOF
<1> DEFINE after == AtAfterTrades(ts, success)
<1>1. \A i \in Items, t \in ts, p \in Players : at[i] = Window(t, p) =>
        p \in parties[t] /\ after[i] = TradedTo(t, p, success)
  <2> SUFFICES ASSUME NEW i \in Items, NEW t \in ts, NEW p \in Players, at[i] = Window(t, p)
               PROVE  p \in parties[t] /\ after[i] = TradedTo(t, p, success)
    OBVIOUS
  <2>1. p \in parties[t]
    BY DEF HandsInv, TradersPresent
  <2>2. at[i][2] = t /\ at[i][3] = p
    BY PlacesDiffer
  <2> QED BY <2>1, <2>2 DEF AtAfterTrades
<1>2. \A i \in Items :
        (\A t \in ts, p \in Players : at[i] # Window(t, p)) => after[i] = at[i]
  BY DEF AtAfterTrades, HandsInv, TypeOK
<1>3. \A t \in ts, p \in Players : p \in parties[t] =>
        \E q \in Players : TradedTo(t, p, success) = Pack(q)
  BY OtherOne DEF TradedTo
<1>4. after \in [Items -> Places]
  <2>1. \A i \in Items : after[i] \in Places
    BY <1>1, <1>2, <1>3 DEF HandsInv, TypeOK, Places
  <2> QED BY <2>1 DEF AtAfterTrades
<1>5. WeightAfterTrades(ts, success) \in [Players -> Nat]
  <2>1. \A p \in Players :
          Cardinality({i \in Items : at[i] # Pack(p) /\ after[i] = Pack(p)}) \in Nat
    BY HandsAssumption, FS_Subset, FS_CardinalityType
  <2> HIDE DEF after
  <2>2. after = AtAfterTrades(ts, success)
    BY DEF after
  <2>3. \A n \in Nat : ItemWeight * n \in Nat
    BY HandsAssumption
  <2> QED BY <2>1, <2>2, <2>3 DEF WeightAfterTrades, HandsInv, TypeOK
<1>6. \A i \in Items, t \in Trades, p \in Players :
        after[i] = Window(t, p) => at[i] = Window(t, p) /\ t \notin ts
  BY <1>1, <1>2, <1>3, PlacesDiffer
<1> QED BY <1>1, <1>2, <1>4, <1>5, <1>6

(* Things that move, to a window of a trade at most, and trades that stay. *)
LEMMA TradersStay ==
  ASSUME HandsInv, at' \in [Items -> Places],
         UNCHANGED <<parties, chars, saved>>,
         \/ checked' = checked
         \/ \E u \in Trades : checked' = [checked EXCEPT ![u] = {}],
         \A i \in Items, t \in Trades, p \in Players :
           at'[i] = Window(t, p) => at[i] = Window(t, p) \/ p \in parties[t]
  PROVE  /\ SavedSound' /\ Sided' /\ TradersPresent'
         /\ checked' \in [Trades -> SUBSET Players]
PROOF
<1>1. /\ checked' \in [Trades -> SUBSET Players]
      /\ \A t \in Trades : checked'[t] = {} \/ checked'[t] = checked[t]
  BY DEF HandsInv, TypeOK
<1>2. SavedSound' /\ Sided'
  BY DEF HandsInv, SavedSound, Sided
<1>3. TradersPresent'
  BY <1>1 DEF HandsInv, TradersPresent, chars
<1> QED BY <1>1, <1>2, <1>3

(* Trades that end, while the sides of the others stay.                    *)
LEMMA TradersLeave ==
  ASSUME HandsInv, NEW ts \in SUBSET Trades, EndTrades(ts),
         playing' \in SUBSET Players, dead' \in SUBSET Players,
         \A t \in Trades \ ts : parties[t] \subseteq playing' \ dead',
         \A i \in Items, t \in Trades, p \in Players :
           at'[i] = Window(t, p) => at[i] = Window(t, p) /\ t \notin ts
  PROVE  /\ Sided' /\ TradersPresent'
         /\ parties' \in [Trades -> SUBSET Players] /\ checked' \in [Trades -> SUBSET Players]
PROOF
<1>1. /\ parties' \in [Trades -> SUBSET Players] /\ checked' \in [Trades -> SUBSET Players]
      /\ \A t \in ts : parties'[t] = {} /\ checked'[t] = {}
      /\ \A t \in Trades \ ts : parties'[t] = parties[t] /\ checked'[t] = checked[t]
  BY DEF HandsInv, TypeOK, EndTrades
<1>2. Sided'
  BY <1>1, FS_EmptySet DEF HandsInv, Sided
<1>3. TradersPresent'
  <2>1. ASSUME NEW t \in Trades
        PROVE  /\ parties'[t] \subseteq playing' \ dead'
               /\ Cardinality(parties'[t]) \in {0, 2}
               /\ checked'[t] \subseteq parties'[t]
               /\ checked'[t] = parties'[t] => parties'[t] = {}
    <3>1. CASE t \in ts
      BY <1>1, <3>1, FS_EmptySet
    <3>2. CASE t \notin ts
      BY <1>1, <3>2 DEF HandsInv, TradersPresent
    <3> QED BY <3>1, <3>2
  <2>2. ASSUME NEW i \in Items, NEW t \in Trades, NEW p \in Players, at'[i] = Window(t, p)
        PROVE  p \in parties'[t]
    BY <1>1, <2>2 DEF HandsInv, TradersPresent
  <2> QED BY <2>1, <2>2 DEF TradersPresent
<1> QED BY <1>1, <1>2, <1>3

(* A player puts a thing down, where trades allow it.                      *)
LEMMA DropKeepsInv ==
  ASSUME HandsInv, NEW p \in Players, NEW i \in Items, NEW d \in Places,
         MoveTo(i, d, Released(p)) \/ MoveTo(i, d, weight), Dropped(p),
         UNCHANGED <<parties, chars, saved>>,
         \/ checked' = checked
         \/ \E u \in Trades : checked' = [checked EXCEPT ![u] = {}],
         \A t \in Trades, q \in Players : d = Window(t, q) => q \in parties[t]
  PROVE  HandsInv'
PROOF
<1>1. weight \in [Players -> Nat] /\ Released(p) \in [Players -> Nat]
  BY HandsAssumption DEF HandsInv, TypeOK, Released, Lighter
<1>2. /\ at' \in [Items -> Places] /\ weight' \in [Players -> Nat]
      /\ \A j \in Items : at'[j] = IF j = i THEN d ELSE at[j]
  BY <1>1, Moved
<1>3. /\ SavedSound' /\ Sided' /\ TradersPresent'
      /\ checked' \in [Trades -> SUBSET Players]
  BY <1>2, TradersStay
<1>4. TypeOK'
  BY <1>2, <1>3 DEF HandsInv, TypeOK, Dropped, chars
<1> QED BY <1>3, <1>4 DEF HandsInv

(* A refused drop: the thing is where it was picked up, or lies loose.     *)
LEMMA BounceKeepsInv ==
  ASSUME HandsInv, NEW p \in Players, NEW i \in Items, NEW w \in [Players -> Nat],
         w = Released(p) \/ w = weight, Bounce(p, i, w)
  PROVE  HandsInv'
PROOF
<1>1. CASE spot[p] \in {Ground, Nowhere}
  <2>1. /\ at' = [at EXCEPT ![i] = IF @ = Lifted /\ spot[p] = Ground THEN Loose ELSE @]
        /\ weight' = w /\ Dropped(p) /\ UNCHANGED <<trades, chars, saved>>
    BY <1>1 DEF Bounce
  <2>2. at' \in [Items -> Places] /\ \A j \in Items : at'[j] \in {at[j], Loose}
    BY <2>1 DEF HandsInv, TypeOK, Places
  <2>3. /\ SavedSound' /\ Sided' /\ TradersPresent'
        /\ checked' \in [Trades -> SUBSET Players]
    BY <2>1, <2>2, TradersStay, PlacesDiffer DEF trades
  <2>4. TypeOK'
    BY <2>1, <2>2, <2>3 DEF HandsInv, TypeOK, Dropped, chars, trades
  <2> QED BY <2>3, <2>4 DEF HandsInv
<1>2. CASE spot[p] \notin {Ground, Nowhere}
  <2>1. spot[p] \in {Box} \cup {Pack(q) : q \in Players}
    BY <1>2 DEF HandsInv, TypeOK
  <2>2. /\ spot[p] \in Places
        /\ \A t \in Trades, q \in Players : spot[p] # Window(t, q)
    BY <2>1, PlacesDiffer DEF Places
  <2> QED BY <1>2, <2>2, DropKeepsInv DEF Bounce, trades
<1> QED BY <1>1, <1>2

LEMMA HandsInvInit == Init => HandsInv
PROOF
<1> SUFFICES ASSUME Init PROVE HandsInv
  OBVIOUS
<1>1. at \in [Items -> {Ground, Box} \cup {Pack(p) : p \in Players}]
  BY DEF Init
<1>2. weight \in [Players -> Nat]
  <2>1. \A p \in Players : Cardinality(On(p)) \in Nat
    BY HandsAssumption, FS_Subset, FS_CardinalityType DEF On
  <2>2. \A n \in Nat : ItemWeight * n \in Nat
    BY HandsAssumption
  <2> QED BY <2>1, <2>2 DEF Init
<1>3. TypeOK
  BY <1>1, <1>2 DEF Init, TypeOK, Places
<1>4. SavedSound
  BY <1>1, <1>2 DEF Init, SavedSound
<1>5. Sided
  BY FS_EmptySet DEF Init, Sided
<1>6. TradersPresent
  BY <1>1, PlacesDiffer, FS_EmptySet DEF Init, TradersPresent
<1> QED BY <1>3, <1>4, <1>5, <1>6 DEF HandsInv

(* Picking up and the requests that put down.                              *)
LEMMA PickUpKeepsInv ==
  ASSUME HandsInv, NEW p \in Players, NEW i \in Items, PickUp(p, i)
  PROVE  HandsInv'
PROOF
<1>1. at[i] \in {Ground, Loose, Lifted, Box, Pack(p)}
  BY DEF PickUp, Pickable, PickableAnywhere, HandsInv, TypeOK, Places
<1>2. From(i) \in {Ground, Box, Pack(p)}
  BY <1>1, PlacesDiffer DEF From
<1>3. /\ at' \in [Items -> Places]
      /\ \A j \in Items : at'[j] \in {at[j], Lifted}
  BY DEF PickUp, HandsInv, TypeOK, Places
<1>4. /\ SavedSound' /\ Sided' /\ TradersPresent'
      /\ checked' \in [Trades -> SUBSET Players]
  BY <1>3, TradersStay, PlacesDiffer DEF PickUp, trades
<1>5. weight' \in [Players -> Nat]
  BY HandsAssumption DEF PickUp, Heavier, HandsInv, TypeOK
<1>6. TypeOK'
  BY <1>2, <1>3, <1>4, <1>5 DEF PickUp, HandsInv, TypeOK, trades, chars
<1> QED BY <1>4, <1>6 DEF HandsInv

(* Nothing moves, and a hand may be empty.                                 *)
LEMMA LetBeKeepsInv ==
  ASSUME HandsInv, NEW p \in Players, UNCHANGED <<at, trades, chars, saved, cursorItem>>,
         hand' = [hand EXCEPT ![p] = None],
         spot' = spot \/ spot' = [spot EXCEPT ![p] = Nowhere],
         weight' = weight \/ weight' = Released(p)
  PROVE  HandsInv'
PROOF
<1>1. /\ SavedSound' /\ Sided' /\ TradersPresent'
      /\ checked' \in [Trades -> SUBSET Players]
  BY TradersStay DEF HandsInv, TypeOK, trades
<1>2. weight' \in [Players -> Nat]
  BY HandsAssumption DEF HandsInv, TypeOK, Released, Lighter
<1>3. TypeOK'
  BY <1>1, <1>2 DEF HandsInv, TypeOK, chars, trades
<1> QED BY <1>1, <1>3 DEF HandsInv

(* A trade that begins.                                                    *)
LEMMA StartKeepsInv ==
  ASSUME HandsInv, NEW p \in Players, NEW q \in Players, NEW i \in Items, NEW t \in Trades,
         StartTrade(p, i, q, t)
  PROVE  HandsInv'
PROOF
<1>0. Window(t, p) \in Places
  BY DEF Places
<1>1. /\ at' \in [Items -> Places] /\ weight' \in [Players -> Nat]
      /\ \A j \in Items : at'[j] = IF j = i THEN Window(t, p) ELSE at[j]
  <2>1. Released(p) \in [Players -> Nat]
    BY HandsAssumption DEF HandsInv, TypeOK, Released, Lighter
  <2> QED BY <1>0, <2>1, Moved DEF StartTrade
<1>2. /\ parties' = [parties EXCEPT ![t] = {p, q}] /\ checked' = [checked EXCEPT ![t] = {}]
      /\ parties[t] = {} /\ p # q /\ {p, q} \subseteq playing \ dead
      /\ Dropped(p) /\ UNCHANGED <<chars, saved>>
  BY DEF StartTrade, Named, Names
<1>3. IsFiniteSet({p, q}) /\ Cardinality({p, q}) = 2
  <2>1. {p, q} = {p} \cup {q}
    OBVIOUS
  <2>2. IsFiniteSet({p}) /\ Cardinality({p}) = 1 /\ q \notin {p}
    BY <1>2, FS_Singleton
  <2>3. /\ IsFiniteSet({p} \cup {q})
        /\ Cardinality({p} \cup {q}) = Cardinality({p}) + 1
    BY ONLY <2>2, FS_AddElement
  <2> QED BY <2>1, <2>2, <2>3
<1>4. TypeOK' /\ SavedSound'
  BY <1>1, <1>2 DEF HandsInv, TypeOK, SavedSound, Dropped, chars
<1>5. Sided'
  BY <1>2, <1>3 DEF HandsInv, TypeOK, Sided
<1>6. TradersPresent'
  <2>1. ASSUME NEW u \in Trades
        PROVE  /\ parties'[u] \subseteq playing' \ dead'
               /\ Cardinality(parties'[u]) \in {0, 2}
               /\ checked'[u] \subseteq parties'[u]
               /\ checked'[u] = parties'[u] => parties'[u] = {}
    BY <1>2, <1>3 DEF HandsInv, TypeOK, TradersPresent, chars
  <2>2. ASSUME NEW j \in Items, NEW u \in Trades, NEW r \in Players, at'[j] = Window(u, r)
        PROVE  r \in parties'[u]
    BY <1>1, <1>2, <2>2, PlacesDiffer DEF HandsInv, TypeOK, TradersPresent
  <2> QED BY <2>1, <2>2 DEF TradersPresent
<1> QED BY <1>4, <1>5, <1>6 DEF HandsInv

LEMMA PutsKeepsInv ==
  ASSUME HandsInv, NEW p \in Players, NEW i \in Items, Puts(p, i) \/ DropVanished(p)
  PROVE  HandsInv'
PROOF
<1>1. /\ {Ground, Gone, Box, Pack(p)} \subseteq Places
      /\ \A t \in Trades, q \in Players :
           Window(t, q) \in Places \ {Ground, Gone, Box, Pack(p)}
  BY PlacesDiffer DEF Places
<1>2. /\ weight \in [Players -> Nat] /\ Released(p) \in [Players -> Nat]
  BY HandsAssumption DEF HandsInv, TypeOK, Released, Lighter
<1>3. CASE \/ DropGround(p, i) \/ Trash(p, i) \/ Equip(p, i)
           \/ \E d \in {Box, Pack(p)} : DropInto(p, i, d)
  BY <1>1, <1>3, DropKeepsInv DEF DropGround, Trash, Equip, DropInto, trades
<1>4. CASE DropRefused(p, i) \/ EquipTooFar(p, i)
  BY <1>2, <1>4, BounceKeepsInv DEF DropRefused, EquipTooFar
<1>5. CASE \/ EquipDead(p, i) \/ EquipVanished(p, i) \/ DropVanished(p)
           \/ \E q \in Players : DropNoTrade(p, i, q)
  BY <1>5, LetBeKeepsInv DEF EquipDead, EquipVanished, DropVanished, DropNoTrade, Dropped
<1>6. CASE \E q \in Players, t \in Trades : StartTrade(p, i, q, t)
  BY <1>6, StartKeepsInv
<1>7. CASE \E t \in Trades : DropOnTradeWindow(p, i, t)
  <2> PICK t \in Trades : DropOnTradeWindow(p, i, t)
    BY <1>7
  <2>1. \A u \in Trades, r \in Players : Window(t, p) = Window(u, r) => r \in parties[u]
    BY PlacesDiffer DEF DropOnTradeWindow
  <2> QED BY <1>1, <2>1, DropKeepsInv DEF DropOnTradeWindow
<1>8. CASE \E j \in Items : DropBeside(p, i, j)
  <2> PICK j \in Items : DropBeside(p, i, j)
    BY <1>8
  <2>1. at[j] \in Places /\ \A t \in Trades, q \in Players : at[j] = Window(t, q) => q \in parties[t]
    BY DEF HandsInv, TypeOK, TradersPresent
  <2> QED BY <2>1, DropKeepsInv DEF DropBeside, trades
<1> QED BY <1>3, <1>4, <1>5, <1>6, <1>7, <1>8 DEF Puts

(* The steps of a trade.                                                   *)
LEMMA TradeKeepsInv ==
  ASSUME HandsInv, NEW p \in Players, NEW t \in Trades, NEW q \in Players,
         NEW mark \in BOOLEAN, TradeCheck(p, t, q, mark) \/ TradeCancel(p, t)
  PROVE  HandsInv'
PROOF
<1>1. ASSUME NEW success \in BOOLEAN, NEW ts \in SUBSET Trades,
             at' = AtAfterTrades(ts, success),
             weight' = WeightAfterTrades(ts, success), EndTrades(ts),
             UNCHANGED <<socks, chars, saved>>
      PROVE  HandsInv'
  <2>0. /\ AtAfterTrades(ts, success) \in [Items -> Places]
        /\ WeightAfterTrades(ts, success) \in [Players -> Nat]
        /\ \A j \in Items, u \in Trades, r \in Players :
             AtAfterTrades(ts, success)[j] = Window(u, r) => at[j] = Window(u, r) /\ u \notin ts
    BY AfterTrades
  <2>1. /\ at' \in [Items -> Places] /\ weight' \in [Players -> Nat]
        /\ \A j \in Items, u \in Trades, r \in Players :
             at'[j] = Window(u, r) => at[j] = Window(u, r) /\ u \notin ts
    BY <1>1, <2>0
  <2>2. \A u \in Trades \ ts : parties[u] \subseteq playing' \ dead'
    BY <1>1 DEF HandsInv, TradersPresent, chars
  <2>3. playing' \in SUBSET Players /\ dead' \in SUBSET Players
    BY <1>1 DEF HandsInv, TypeOK, chars
  <2>4. /\ Sided' /\ TradersPresent'
        /\ parties' \in [Trades -> SUBSET Players] /\ checked' \in [Trades -> SUBSET Players]
    BY <1>1, <2>1, <2>2, <2>3, TradersLeave
  <2>5. TypeOK' /\ SavedSound'
    BY <1>1, <2>1, <2>4 DEF HandsInv, TypeOK, SavedSound, socks, chars
  <2> QED BY <2>4, <2>5 DEF HandsInv
<1>2. CASE TradeCancel(p, t)
  BY <1>1, <1>2 DEF TradeCancel
<1>3. CASE TradeCheck(p, t, q, mark)
  <2> DEFINE marks == IF mark THEN checked[t] \cup {q} ELSE checked[t] \ {q}
  <2>1. CASE marks = parties[t]
    BY <1>1, <1>3, <2>1 DEF TradeCheck
  <2>2. CASE marks # parties[t]
    <3>1. /\ q \in parties[t] /\ checked' = [checked EXCEPT ![t] = marks]
          /\ UNCHANGED <<at, weight, parties, socks, chars, saved>>
      BY <1>3, <2>2 DEF TradeCheck
    <3>2. marks \subseteq parties[t]
      BY <3>1 DEF HandsInv, TradersPresent
    <3>3. TradersPresent'
      <4>1. ASSUME NEW u \in Trades
            PROVE  /\ parties'[u] \subseteq playing' \ dead'
                   /\ Cardinality(parties'[u]) \in {0, 2}
                   /\ checked'[u] \subseteq parties'[u]
                   /\ checked'[u] = parties'[u] => parties'[u] = {}
        BY <2>2, <3>1, <3>2 DEF HandsInv, TypeOK, TradersPresent, chars
      <4> QED BY <3>1, <4>1 DEF HandsInv, TradersPresent
    <3>4. TypeOK' /\ SavedSound' /\ Sided'
      BY <3>1, <3>2 DEF HandsInv, TypeOK, SavedSound, Sided, socks, chars
    <3> QED BY <3>3, <3>4 DEF HandsInv
  <2> QED BY <2>1, <2>2
<1> QED BY <1>2, <1>3

(* Connections, deaths, saves and restarts.                                *)
LEMMA LeavingKeepsInv ==
  ASSUME HandsInv, NEW p \in Players,
         Disconnect(p) \/ Die(p)
  PROVE  HandsInv'
PROOF
<1> DEFINE ended == AtAfterTrades(Killed(p), FALSE)
           heavy == WeightAfterTrades(Killed(p), FALSE)
<1>1. Killed(p) \in SUBSET Trades
  BY DEF Killed
<1>2. /\ ended \in [Items -> Places] /\ heavy \in [Players -> Nat]
      /\ \A j \in Items, u \in Trades, r \in Players :
           ended[j] = Window(u, r) => at[j] = Window(u, r) /\ u \notin Killed(p)
  BY <1>1, AfterTrades
<1>3. \A u \in Trades \ Killed(p) : parties[u] \subseteq (playing \ {p}) \ (dead \cup {p})
  BY DEF HandsInv, TradersPresent, Killed
<1> HIDE DEF ended, heavy
<1>4. CASE Disconnect(p)
  <2>1. /\ playing' = playing \ {p} /\ dead' = dead /\ saved' = saved
        /\ at' = [i \in Items |-> IF i \in PutDown(p) THEN Ground ELSE ended[i]]
        /\ EndTrades(Killed(p))
        /\ hand' = [hand EXCEPT ![p] = None] /\ spot' = [spot EXCEPT ![p] = Nowhere]
        /\ cursorItem' = [cursorItem EXCEPT ![p] = None]
    BY <1>4 DEF Disconnect, ended
  <2>2. weight' \in [Players -> Nat]
    <3>1. weight' = [q \in Players |->
             IF q \notin dead /\ \E i \in PutDown(p) : ended[i] = Pack(q)
             THEN IF heavy[q] > 0 THEN heavy[q] - ItemWeight ELSE 0 ELSE heavy[q]]
      BY <1>4 DEF Disconnect, ended, heavy
    <3>2. \A q \in Players : weight'[q] \in Nat
      BY <1>2, <3>1, HandsAssumption
    <3> QED BY <3>1, <3>2
  <2>3. /\ at' \in [Items -> Places]
        /\ \A j \in Items, u \in Trades, r \in Players :
             at'[j] = Window(u, r) => at[j] = Window(u, r) /\ u \notin Killed(p)
    BY <1>2, <2>1, PlacesDiffer DEF Places
  <2>4. playing' \in SUBSET Players /\ dead' \in SUBSET Players
    BY <2>1 DEF HandsInv, TypeOK
  <2>5. /\ Sided' /\ TradersPresent'
        /\ parties' \in [Trades -> SUBSET Players] /\ checked' \in [Trades -> SUBSET Players]
    BY <1>1, <1>3, <2>1, <2>3, <2>4, TradersLeave
  <2>6. TypeOK' /\ SavedSound'
    BY <2>1, <2>2, <2>3, <2>4, <2>5 DEF HandsInv, TypeOK, SavedSound
  <2> QED BY <2>5, <2>6 DEF HandsInv
<1>5. CASE Die(p)
  <2> PICK moved \in SUBSET {i \in Items : ended[i] = Pack(p)} :
         /\ at' = [i \in Items |-> IF i \in moved THEN Box ELSE ended[i]]
         /\ weight' = [heavy EXCEPT ![p] =
                         IF @ > ItemWeight * Cardinality(moved)
                         THEN @ - ItemWeight * Cardinality(moved) ELSE 0]
    BY <1>5 DEF Die, KilledAtDeath, ended, heavy
  <2>1. /\ dead' = dead \cup {p} /\ UNCHANGED <<socks, playing, saved>>
        /\ EndTrades(Killed(p))
    BY <1>5 DEF Die, KilledAtDeath
  <2>2. weight' \in [Players -> Nat]
    <3>1. Cardinality(moved) \in Nat
      BY HandsAssumption, FS_Subset, FS_CardinalityType
    <3>2. ItemWeight * Cardinality(moved) \in Nat
      BY <3>1, HandsAssumption
    <3> QED BY <1>2, <3>2
  <2>3. /\ at' \in [Items -> Places]
        /\ \A j \in Items, u \in Trades, r \in Players :
             at'[j] = Window(u, r) => at[j] = Window(u, r) /\ u \notin Killed(p)
    BY <1>2, <2>1, PlacesDiffer DEF Places
  <2>4. playing' \in SUBSET Players /\ dead' \in SUBSET Players
    BY <2>1 DEF HandsInv, TypeOK
  <2>5. /\ Sided' /\ TradersPresent'
        /\ parties' \in [Trades -> SUBSET Players] /\ checked' \in [Trades -> SUBSET Players]
    BY <1>1, <1>3, <2>1, <2>3, <2>4, TradersLeave
  <2>6. TypeOK' /\ SavedSound'
    BY <2>1, <2>2, <2>3, <2>4, <2>5 DEF HandsInv, TypeOK, SavedSound, socks
  <2> QED BY <2>5, <2>6 DEF HandsInv
<1> QED BY <1>4, <1>5

LEMMA ServerKeepsInv ==
  ASSUME HandsInv,
         \/ \E p \in Players : Connect(p) \/ Resurrect(p)
         \/ WorldSave \/ Restart
  PROVE  HandsInv'
PROOF
<1>1. CASE \E p \in Players : Connect(p) \/ Resurrect(p)
  <2>1. /\ playing \subseteq playing' /\ dead' \subseteq dead
        /\ playing' \subseteq Players
        /\ UNCHANGED <<at, socks, trades, weight, saved>>
    BY <1>1 DEF Connect, Resurrect, HandsInv, TypeOK
  <2> QED BY <2>1 DEF HandsInv, TypeOK, SavedSound, Sided, TradersPresent, socks, trades
<1>2. CASE WorldSave
  <2>1. SavedSound'
    BY <1>2 DEF WorldSave, SavedSound, HandsInv, TypeOK, chars
  <2> QED BY <1>2, <2>1 DEF WorldSave, HandsInv, TypeOK, Sided, TradersPresent, socks, trades, chars
<1>3. CASE Restart
  <2>1. /\ at' \in [Items -> Places] /\ weight' \in [Players -> Nat]
        /\ \A i \in Items, t \in Trades, p \in Players : at'[i] # Window(t, p)
    BY <1>3, PlacesDiffer DEF Restart, HandsInv, SavedSound, Places
  <2>2. playing' \in SUBSET Players /\ dead' \in SUBSET Players /\ saved' = saved
    BY <1>3 DEF Restart, HandsInv, SavedSound
  <2>3. /\ Sided' /\ TradersPresent'
        /\ parties' \in [Trades -> SUBSET Players] /\ checked' \in [Trades -> SUBSET Players]
    BY <1>3, <2>1, <2>2, TradersLeave DEF Restart
  <2>4. TypeOK' /\ SavedSound'
    BY <1>3, <2>1, <2>2, <2>3 DEF Restart, HandsInv, TypeOK, SavedSound
  <2> QED BY <2>3, <2>4 DEF HandsInv
<1> QED BY <1>1, <1>2, <1>3

LEMMA HandsInvNext == HandsInv /\ [Next]_vars => HandsInv'
PROOF
<1> SUFFICES ASSUME HandsInv, [Next]_vars PROVE HandsInv'
  OBVIOUS
<1>1. CASE UNCHANGED vars
  BY <1>1 DEF vars, HandsInv, TypeOK, SavedSound, Sided, TradersPresent, socks, trades, chars
<1>2. ASSUME NEW p \in Players, NEW i \in Items, PickUp(p, i) \/ Puts(p, i)
      PROVE  HandsInv'
  BY <1>2, PickUpKeepsInv, PutsKeepsInv
<1>3. ASSUME NEW p \in Players, DropVanished(p)
      PROVE  HandsInv'
  <2> PICK i \in Items : Names(p, i)
    BY <1>3 DEF DropVanished
  <2> QED BY <1>3, PutsKeepsInv
<1>4. ASSUME NEW p \in Players, NEW q \in Players, NEW t \in Trades, NEW mark \in BOOLEAN,
             TradeCheck(p, t, q, mark)
      PROVE  HandsInv'
  BY <1>4, TradeKeepsInv
<1>5. ASSUME NEW p \in Players, NEW t \in Trades, TradeCancel(p, t)
      PROVE  HandsInv'
  BY <1>5, TRUE \in BOOLEAN, TradeKeepsInv
<1>6. CASE Next
  BY <1>2, <1>3, <1>4, <1>5, <1>6, LeavingKeepsInv, ServerKeepsInv DEF Next
<1> QED BY <1>1, <1>6

(* Every variable keeps its type.                                          *)
THEOREM SpecHandsTypeOK == Spec => []TypeOK
PROOF BY HandsInvInit, HandsInvNext, PTL DEF Spec, HandsInv

(* startTrade, killTrades: whoever trades is connected and alive, a mark   *)
(* is of one of the two, and nothing lies in a window of no trade.         *)
THEOREM SpecTradersPresent == Spec => []TradersPresent
PROOF BY HandsInvInit, HandsInvNext, PTL DEF Spec, HandsInv

-----------------------------------------------------------------------------
(* Hands.  What a hand has was picked up somewhere and is the cursor's     *)
(* item, and a thing comes out of nobody's pack but one's own.             *)
HeldFrom ==
  \A p \in Players : hand[p] # None => cursorItem[p] = hand[p] /\ spot[p] # Nowhere
SpotOwn == \A p, q \in Players : spot[p] = Pack(q) => p = q

(* No trade ends.                                                          *)
StillOn == \A t \in Trades : parties[t] # {} => parties'[t] # {}

(* The hand of p is empty, and the spot with it, or nothing has moved.     *)
Empties(p) ==
  /\ hand' = [hand EXCEPT ![p] = None] /\ UNCHANGED cursorItem
  /\ \/ spot' = [spot EXCEPT ![p] = Nowhere]
     \/ spot' = spot /\ at' = at

LEMMA PutsGo ==
  ASSUME HandsInv, NEW p \in Players, NEW i \in Items, Puts(p, i)
  PROVE  /\ \A j \in Items \ {i} : at'[j] = at[j]
         /\ Empties(p) /\ UNCHANGED <<chars, saved>> /\ StillOn
PROOF
<1>1. ASSUME NEW d, NEW w, MoveTo(i, d, w)
      PROVE  \A j \in Items \ {i} : at'[j] = at[j]
  BY <1>1 DEF MoveTo, HandsInv, TypeOK
<1>2. ASSUME NEW w, Bounce(p, i, w)
      PROVE  /\ \A j \in Items \ {i} : at'[j] = at[j]
             /\ Dropped(p) /\ UNCHANGED <<trades, chars, saved>>
  BY <1>1, <1>2 DEF Bounce, HandsInv, TypeOK
<1>3. Dropped(p) => Empties(p)
  BY DEF Dropped, Empties
<1>4. UNCHANGED trades => StillOn
  BY DEF trades, StillOn
<1>5. CASE \/ DropGround(p, i) \/ Trash(p, i) \/ Equip(p, i)
           \/ \E d \in {Box, Pack(p)} : DropInto(p, i, d)
           \/ \E j \in Items : DropBeside(p, i, j)
  BY <1>1, <1>3, <1>4, <1>5 DEF DropGround, Trash, Equip, DropInto, DropBeside
<1>6. CASE DropRefused(p, i) \/ EquipTooFar(p, i)
  BY <1>2, <1>3, <1>4, <1>6 DEF DropRefused, EquipTooFar
<1>7. CASE EquipDead(p, i) \/ EquipVanished(p, i) \/ \E q \in Players : DropNoTrade(p, i, q)
  <2>1. UNCHANGED <<at, trades, chars, saved>>
    BY <1>7 DEF EquipDead, EquipVanished, DropNoTrade
  <2>2. Empties(p)
    BY <1>3, <1>7 DEF EquipDead, EquipVanished, DropNoTrade, Empties
  <2> QED BY <1>4, <2>1, <2>2
<1>8. CASE \E q \in Players, t \in Trades : StartTrade(p, i, q, t)
  <2> PICK q \in Players, t \in Trades : StartTrade(p, i, q, t)
    BY <1>8
  <2>1. /\ parties' = [parties EXCEPT ![t] = {p, q}]
        /\ Dropped(p) /\ UNCHANGED <<chars, saved>>
        /\ MoveTo(i, Window(t, p), Released(p))
    BY DEF StartTrade
  <2>2. StillOn
    BY <2>1 DEF HandsInv, TypeOK, StillOn
  <2> QED BY <1>1, <1>3, <2>1, <2>2
<1>9. CASE \E t \in Trades : DropOnTradeWindow(p, i, t)
  <2> PICK t \in Trades : DropOnTradeWindow(p, i, t)
    BY <1>9
  <2>1. /\ parties' = parties
        /\ Dropped(p) /\ UNCHANGED <<chars, saved>>
        /\ MoveTo(i, Window(t, p), Released(p))
    BY DEF DropOnTradeWindow
  <2>2. StillOn
    BY <2>1 DEF StillOn
  <2> QED BY <1>1, <1>3, <2>1, <2>2
<1> QED BY <1>5, <1>6, <1>7, <1>8, <1>9 DEF Puts

LEMMA HandFromInit == Init => HeldFrom /\ SpotOwn
PROOF BY PlacesDiffer DEF Init, HeldFrom, SpotOwn

LEMMA HandFromNext == HandsInv /\ HeldFrom /\ SpotOwn /\ [Next]_vars => HeldFrom' /\ SpotOwn'
PROOF
<1> SUFFICES ASSUME HandsInv, HeldFrom, SpotOwn, [Next]_vars PROVE HeldFrom' /\ SpotOwn'
  OBVIOUS
<1>0. /\ spot \in [Players -> {Nowhere, Ground, Box} \cup {Pack(p) : p \in Players}]
      /\ hand \in [Players -> Items \cup {None}]
      /\ cursorItem \in [Players -> Items \cup {None}]
      /\ at \in [Items -> Places]
  BY DEF HandsInv, TypeOK
<1>1. ASSUME NEW p \in Players, NEW i \in Items, PickUp(p, i) PROVE HeldFrom' /\ SpotOwn'
  <2>1. /\ spot' = [spot EXCEPT ![p] = From(i)]
        /\ hand' = [hand EXCEPT ![p] = i] /\ cursorItem' = [cursorItem EXCEPT ![p] = i]
    BY <1>1 DEF PickUp
  <2>2. at[i] \in {Ground, Loose, Lifted, Box, Pack(p)}
    BY <1>0, <1>1 DEF PickUp, Pickable, PickableAnywhere, Places
  <2>3. From(i) # Nowhere /\ \A q \in Players : From(i) = Pack(q) => q = p
    BY <2>2, PlacesDiffer DEF From
  <2> QED BY <1>0, <2>1, <2>3 DEF HeldFrom, SpotOwn
<1>2. ASSUME NEW p \in Players, hand' = [hand EXCEPT ![p] = None],
             cursorItem' = cursorItem \/ cursorItem' = [cursorItem EXCEPT ![p] = None],
             spot' = spot \/ spot' = [spot EXCEPT ![p] = Nowhere]
      PROVE  HeldFrom' /\ SpotOwn'
  BY <1>0, <1>2, PlacesDiffer DEF HeldFrom, SpotOwn
<1>3. CASE \E p \in Players, i \in Items : Puts(p, i)
  BY <1>2, <1>3, PutsGo DEF Empties
<1>4. CASE \E p \in Players : DropVanished(p) \/ Disconnect(p)
  BY <1>2, <1>4 DEF DropVanished, Dropped, Disconnect
<1>5. CASE UNCHANGED socks
  BY <1>5 DEF socks, HeldFrom, SpotOwn
<1>6. CASE \/ \E p, q \in Players, t \in Trades, mark \in BOOLEAN : TradeCheck(p, t, q, mark)
           \/ \E p \in Players, t \in Trades : TradeCancel(p, t)
           \/ \E p \in Players : Connect(p) \/ Resurrect(p) \/ Die(p)
           \/ WorldSave \/ UNCHANGED vars
  BY <1>5, <1>6 DEF TradeCheck, TradeCancel, Connect, Resurrect, Die, WorldSave, vars
<1>7. CASE Restart
  BY <1>7, PlacesDiffer DEF Restart, HeldFrom, SpotOwn
<1> QED BY <1>1, <1>3, <1>4, <1>6, <1>7 DEF Next

(* Whoever names what they have in the hand, which is where it was not     *)
(* picked up, had picked it up before somebody put it there.               *)
LEMMA NamedElsewhere ==
  ASSUME HandsInv, HeldFrom, NEW p \in Players, NEW i \in Items, Puts(p, i),
         spot[p] # at[i]
  PROVE  Misnamed(i) \/ PickedUpTwice(i)
PROOF
<1>1. CASE hand[p] # i
  BY <1>1 DEF Misnamed
<1>2. CASE hand[p] = i
  <2>1. cursorItem[p] = i /\ spot[p] # Nowhere
    BY <1>2, HandsAssumption DEF HeldFrom
  <2> QED BY <2>1 DEF PickedUpTwice
<1> QED BY <1>1, <1>2

-----------------------------------------------------------------------------
(* Trades that end.  D is what is put down from a hand besides, and M what *)
(* is moved to the corpse of p.                                            *)
Ending(p, ts, success, D, M) ==
  /\ EndTrades(ts)
  /\ success => D = {} /\ M = {} /\ \A t \in ts : checked[t] # {}
  /\ \A j \in D : spot[p] = Ground /\ cursorItem[p] = j
  /\ \A j \in M : AtAfterTrades(ts, success)[j] = Pack(p) /\ p \in dead' \ dead
  /\ \A j \in Items : at'[j] = IF j \in D THEN Ground ELSE IF j \in M THEN Box
                                ELSE AtAfterTrades(ts, success)[j]

(* What a step must not do to offers, agreed offers and packs.             *)
EndsWhole ==
  \A t \in Trades :
    parties[t] # {} /\ parties'[t] = {} =>
      \/ /\ checked[t] # {}
         /\ \A p \in parties[t] : \A i \in InWindow(t, p) : at'[i] = Pack(Other(t, p))
      \/ \A p \in parties[t] : \A i \in InWindow(t, p) :
           at'[i] = Pack(p) \/ (at'[i] = Box /\ p \in dead') \/ PickedUpTwice(i)
      \/ Restart
KeepsAgreed ==
  \A t \in Trades : checked[t] \cap checked'[t] # {} =>
    \A p \in parties[t] : \A i \in InWindow(t, p) :
      at'[i] = Window(t, p) \/ PickedUpTwice(i) \/ Misnamed(i)
KeepsOwn ==
  \A p \in Players : \A i \in On(p) :
    at'[i] # Pack(p) =>
      \/ hand[p] = i
      \/ p \in dead' \ dead
      \/ PickedUpTwice(i)
      \/ Misnamed(i)
      \/ Restart

Sound == EndsWhole /\ KeepsAgreed /\ KeepsOwn

LEMMA Ends ==
  ASSUME HandsInv, NEW p \in Players, NEW ts \in SUBSET Trades,
         NEW success \in BOOLEAN, NEW D, NEW M,
         Ending(p, ts, success, D, M)
  PROVE  Sound
PROOF
<1> DEFINE after == AtAfterTrades(ts, success)
<1> USE DEF Ending
<1>1. /\ \A i \in Items, t \in ts, q \in Players : at[i] = Window(t, q) =>
           q \in parties[t] /\ after[i] = TradedTo(t, q, success)
      /\ \A i \in Items :
           (\A t \in ts, q \in Players : at[i] # Window(t, q)) => after[i] = at[i]
  <2>0. HandsInv /\ ts \in SUBSET Trades /\ success \in BOOLEAN
    OBVIOUS
  <2>1. \A i \in Items, t \in ts, q \in Players : at[i] = Window(t, q) =>
          q \in parties[t] /\ AtAfterTrades(ts, success)[i] = TradedTo(t, q, success)
    BY ONLY <2>0, AfterTrades
  <2>2. \A i \in Items :
          (\A t \in ts, q \in Players : at[i] # Window(t, q)) =>
            AtAfterTrades(ts, success)[i] = at[i]
    BY ONLY <2>0, AfterTrades
  <2> QED BY ONLY <2>1, <2>2
<1>2. /\ \A t \in ts : parties'[t] = {} /\ checked'[t] = {}
      /\ \A t \in Trades \ ts : parties'[t] = parties[t]
  BY DEF EndTrades
<1>3. \A t \in Trades : parties[t] \subseteq Players
  BY DEF HandsInv, TypeOK
<1> HIDE DEF after
<1>4. \A j \in Items : at'[j] = IF j \in D THEN Ground ELSE IF j \in M THEN Box ELSE after[j]
  BY DEF after
<1>5. \A j \in M : after[j] = Pack(p) /\ p \in dead' \ dead
  BY DEF after
<1>6. \A j \in D \cap Items : at[j] # Ground => PickedUpTwice(j)
  BY PlacesDiffer DEF PickedUpTwice
<1>7. EndsWhole
  <2> SUFFICES ASSUME NEW t \in Trades, parties[t] # {}, parties'[t] = {}
               PROVE
      \/ /\ checked[t] # {}
         /\ \A q \in parties[t] : \A i \in InWindow(t, q) : at'[i] = Pack(Other(t, q))
      \/ \A q \in parties[t] : \A i \in InWindow(t, q) :
           at'[i] = Pack(q) \/ (at'[i] = Box /\ q \in dead') \/ PickedUpTwice(i)
    BY DEF EndsWhole
  <2>1. t \in ts
    BY <1>2
  <2>2. \A q \in parties[t] : \A i \in InWindow(t, q) :
          i \in Items /\ at[i] # Ground /\ after[i] = TradedTo(t, q, success)
    BY <1>1, <1>3, <2>1, PlacesDiffer DEF InWindow
  <2>3. CASE success
    BY <1>4, <2>1, <2>2, <2>3 DEF TradedTo
  <2>4. CASE ~success
    <3> SUFFICES ASSUME NEW q \in parties[t], NEW i \in InWindow(t, q)
                 PROVE  at'[i] = Pack(q) \/ (at'[i] = Box /\ q \in dead') \/ PickedUpTwice(i)
      OBVIOUS
    <3>1. i \in Items /\ at[i] # Ground /\ after[i] = Pack(q)
      BY <2>2, <2>4 DEF TradedTo
    <3>2. i \in M => q \in dead'
      BY <1>5, <3>1, PlacesDiffer
    <3> QED BY <1>4, <1>6, <3>1, <3>2
  <2> QED BY <2>3, <2>4
<1>8. KeepsAgreed
  <2> SUFFICES ASSUME NEW t \in Trades, checked[t] \cap checked'[t] # {},
                      NEW q \in parties[t], NEW i \in InWindow(t, q)
               PROVE  at'[i] = Window(t, q) \/ PickedUpTwice(i)
    BY DEF KeepsAgreed
  <2>1. t \notin ts /\ i \in Items /\ at[i] = Window(t, q) /\ q \in Players
    BY <1>2, <1>3 DEF InWindow
  <2>2. after[i] = at[i] /\ at[i] # Ground
    BY <1>1, <2>1, PlacesDiffer
  <2>3. i \notin M
    BY <1>5, <2>1, <2>2, PlacesDiffer
  <2> QED BY <1>4, <1>6, <2>1, <2>2, <2>3
<1>9. KeepsOwn
  <2> SUFFICES ASSUME NEW q \in Players, NEW i \in On(q), at'[i] # Pack(q)
               PROVE  q \in dead' \ dead \/ PickedUpTwice(i)
    BY DEF KeepsOwn
  <2>1. i \in Items /\ at[i] = Pack(q) /\ at[i] # Ground
    BY PlacesDiffer DEF On
  <2>2. after[i] = at[i]
    BY <1>1, <2>1, PlacesDiffer
  <2>3. i \in D \/ (i \in M /\ Pack(q) = Pack(p))
    BY <1>4, <1>5, <2>1, <2>2
  <2> QED BY <1>5, <1>6, <2>1, <2>3, PlacesDiffer
<1> QED BY <1>7, <1>8, <1>9 DEF Sound

LEMMA HandSteps ==
  ASSUME HandsInv, HeldFrom, SpotOwn, NEW p \in Players, NEW i \in Items,
         PickUp(p, i) \/ Puts(p, i)
  PROVE  Sound
PROOF
<1>1. CASE PickUp(p, i)
  <2>1. /\ at' = IF From(i) = Ground THEN [at EXCEPT ![i] = Lifted] ELSE at
        /\ UNCHANGED <<parties, checked, dead>>
    BY <1>1 DEF PickUp, trades, chars
  <2>2. \A j \in Items : at'[j] = at[j] \/ at[j] \in {Ground, Loose, Lifted}
    BY <2>1, PlacesDiffer DEF HandsInv, TypeOK, From
  <2>3. EndsWhole
    BY <2>1 DEF EndsWhole
  <2>4. KeepsAgreed
    BY <2>2, PlacesDiffer DEF KeepsAgreed, InWindow
  <2>5. KeepsOwn
    BY <2>2, PlacesDiffer DEF KeepsOwn, On
  <2> QED BY <2>3, <2>4, <2>5 DEF Sound
<1>2. CASE Puts(p, i)
  <2>1. (\A j \in Items \ {i} : at'[j] = at[j]) /\ StillOn
    BY <1>2, PutsGo
  <2>2. EndsWhole
    BY <2>1 DEF EndsWhole, StillOn
  <2>3. KeepsAgreed
    <3> SUFFICES ASSUME NEW t \in Trades, NEW q \in parties[t], NEW j \in InWindow(t, q)
                 PROVE  at'[j] = Window(t, q) \/ PickedUpTwice(j) \/ Misnamed(j)
      BY DEF KeepsAgreed
    <3>1. j \in Items /\ at[j] = Window(t, q)
      BY DEF InWindow
    <3>2. CASE j # i
      BY <2>1, <3>1, <3>2
    <3>3. CASE j = i
      <4>1. spot[p] # at[i]
        BY <3>1, <3>3, PlacesDiffer DEF HandsInv, TypeOK
      <4> QED BY <1>2, <3>3, <4>1, NamedElsewhere
    <3> QED BY <3>2, <3>3
  <2>4. KeepsOwn
    <3> SUFFICES ASSUME NEW q \in Players, NEW j \in On(q), at'[j] # Pack(q), hand[q] # j
                 PROVE  PickedUpTwice(j) \/ Misnamed(j)
      BY DEF KeepsOwn
    <3>1. j = i /\ at[j] = Pack(q)
      BY <2>1 DEF On
    <3>2. CASE p = q
      BY <1>2, <3>1, <3>2 DEF Misnamed
    <3>3. CASE p # q
      <4>1. spot[p] # at[i]
        BY <3>1, <3>3 DEF SpotOwn
      <4> QED BY <1>2, <3>1, <4>1, NamedElsewhere
    <3> QED BY <3>2, <3>3
  <2> QED BY <2>2, <2>3, <2>4 DEF Sound
<1> QED BY <1>1, <1>2

(* Where nothing moves and no trade ends.                                  *)
LEMMA StillSteps ==
  ASSUME UNCHANGED at, \A t \in Trades : parties'[t] = {} => parties[t] = {}
  PROVE  Sound
PROOF BY DEF Sound, EndsWhole, KeepsAgreed, KeepsOwn, InWindow, On

LEMMA TradeSteps ==
  ASSUME HandsInv, NEW p \in Players, NEW t \in Trades, NEW q \in Players,
         NEW mark \in BOOLEAN, TradeCheck(p, t, q, mark) \/ TradeCancel(p, t)
  PROVE  Sound
PROOF
<1>1. ASSUME NEW success \in BOOLEAN, at' = AtAfterTrades({t}, success), EndTrades({t}),
             success => checked[t] # {}
      PROVE  Sound
  <2>1. Ending(p, {t}, success, {}, {})
    BY <1>1 DEF Ending
  <2> QED BY <2>1, Ends
<1>2. CASE TradeCancel(p, t)
  BY <1>1, <1>2 DEF TradeCancel
<1>3. CASE TradeCheck(p, t, q, mark)
  <2> DEFINE marks == IF mark THEN checked[t] \cup {q} ELSE checked[t] \ {q}
  <2>1. CASE marks = parties[t]
    <3>1. q \in parties[t] /\ mark
      BY <1>3, <2>1 DEF TradeCheck
    <3>2. checked[t] # {}
      <4> SUFFICES ASSUME checked[t] = {} PROVE FALSE
        OBVIOUS
      <4>1. parties[t] = {q}
        BY <2>1, <3>1
      <4> QED BY <3>1, <4>1, OtherOne
    <3> QED BY <1>1, <1>3, <2>1, <3>2 DEF TradeCheck
  <2>2. CASE marks # parties[t]
    BY <1>3, <2>2, StillSteps DEF TradeCheck
  <2> QED BY <2>1, <2>2
<1> QED BY <1>2, <1>3

LEMMA LeavingSteps ==
  ASSUME HandsInv, NEW p \in Players, Disconnect(p) \/ Die(p)
  PROVE  Sound
PROOF
<1>1. Killed(p) \in SUBSET Trades /\ FALSE \in BOOLEAN
  BY DEF Killed
<1>2. CASE Disconnect(p)
  <2>1. Ending(p, Killed(p), FALSE, PutDown(p), {})
    BY <1>2 DEF Disconnect, Ending, PutDown, PutDownAny
  <2> QED BY <1>1, <2>1, Ends
<1>3. CASE Die(p)
  <2> PICK moved \in SUBSET {i \in Items : AtAfterTrades(Killed(p), FALSE)[i] = Pack(p)} :
         at' = [i \in Items |-> IF i \in moved THEN Box ELSE AtAfterTrades(Killed(p), FALSE)[i]]
    BY <1>3 DEF Die, KilledAtDeath
  <2>1. EndTrades(Killed(p)) /\ p \in dead' \ dead
    BY <1>3 DEF Die, KilledAtDeath
  <2>2. Ending(p, Killed(p), FALSE, {}, moved)
    BY <2>1 DEF Ending
  <2> QED BY <1>1, <2>2, Ends
<1> QED BY <1>2, <1>3

LEMMA SoundNext ==
  ASSUME HandsInv, HeldFrom, SpotOwn, [Next]_vars
  PROVE  Sound
PROOF
<1>1. CASE UNCHANGED vars
  BY <1>1, StillSteps DEF vars, trades
<1>2. ASSUME NEW p \in Players, NEW i \in Items, PickUp(p, i) \/ Puts(p, i)
      PROVE  Sound
  BY <1>2, HandSteps
<1>3. CASE \/ \E p, q \in Players, t \in Trades, mark \in BOOLEAN : TradeCheck(p, t, q, mark)
           \/ \E p \in Players, t \in Trades : TradeCancel(p, t)
  BY <1>3, TRUE \in BOOLEAN, TradeSteps
<1>4. CASE \E p \in Players : Disconnect(p) \/ Die(p)
  BY <1>4, LeavingSteps
<1>5. CASE WorldSave \/ \E p \in Players : DropVanished(p) \/ Connect(p) \/ Resurrect(p)
  BY <1>5, StillSteps DEF WorldSave, Connect, Resurrect, DropVanished, trades
<1>6. CASE Restart
  <2>1. \A t \in Trades : checked'[t] = {}
    BY <1>6 DEF Restart, EndTrades
  <2> QED BY <1>6, <2>1 DEF Sound, EndsWhole, KeepsAgreed, KeepsOwn
<1> QED BY <1>1, <1>2, <1>3, <1>4, <1>5, <1>6 DEF Next

LEMMA SpecSound == Spec => [][Sound]_vars
PROOF
<1>1. Init => HandsInv /\ HeldFrom /\ SpotOwn
  BY HandsInvInit, HandFromInit
<1>2. HandsInv /\ HeldFrom /\ SpotOwn /\ [Next]_vars => (HandsInv /\ HeldFrom /\ SpotOwn)'
  BY HandsInvNext, HandFromNext
<1>3. HandsInv /\ HeldFrom /\ SpotOwn /\ [Next]_vars => [Sound]_vars
  BY SoundNext
<1> QED BY <1>1, <1>2, <1>3, PTL DEF Spec

(* completeTrade, killTrades, for any number of players, things and trades *)
(* and whatever the requests name: when a trade ends and the server goes   *)
(* on, all that was offered changes hands, one side's mark having been     *)
(* there before, or all of it is its owner's again, but for what had been  *)
(* picked up twice.                                                        *)
THEOREM SpecAllOrNothing == Spec => AllOrNothing
PROOF
<1>1. [Sound]_vars => [EndsWhole]_vars
  BY DEF Sound
<1>2. Spec => [][EndsWhole]_vars
  BY <1>1, SpecSound, PTL
<1> QED BY <1>2 DEF AllOrNothing, EndsWhole

(* CPIGetItem, the drops, for any number of players, things and trades: as *)
(* long as one side agrees to it, what is offered stays offered, unless it *)
(* was picked up twice or a request of somebody who has it not in the hand *)
(* names it.                                                               *)
THEOREM SpecAgreedLosesNothing == Spec => AgreedLosesNothing
PROOF
<1>1. [Sound]_vars => [KeepsAgreed]_vars
  BY DEF Sound
<1>2. Spec => [][KeepsAgreed]_vars
  BY <1>1, SpecSound, PTL
<1> QED BY <1>2 DEF AgreedLosesNothing, KeepsAgreed

(* LogOut, the drops, for any number of players, things and trades: a      *)
(* thing leaves a player's pack in that player's hand or at that player's  *)
(* death, unless it was picked up twice, a request of somebody who has it  *)
(* not in the hand names it, or the server died.                           *)
THEOREM SpecTakenByItsOwner == Spec => TakenByItsOwner
PROOF
<1>1. [Sound]_vars => [KeepsOwn]_vars
  BY DEF Sound
<1>2. Spec => [][KeepsOwn]_vars
  BY <1>1, SpecSound, PTL
<1> QED BY <1>2 DEF TakenByItsOwner, KeepsOwn

-----------------------------------------------------------------------------
(* Weight, where things weigh something.  Held: what the client's hand     *)
(* adds to what is in the pack.                                            *)
Held(p) == IF hand[p] # None /\ Elsewhere(p) THEN 1 ELSE 0
SavedOn(p) == {i \in Items : saved.at[i] = Pack(p)}

Enough(p) == weight[p] >= Cardinality(On(p)) + Held(p)
SavedEnough(p) == saved.weight[p] >= Cardinality(SavedOn(p))

(* A dead player's hand that took its thing out of that player's own pack. *)
Spared(p) == p \in dead /\ hand[p] # None /\ spot[p] = Pack(p)

LEMMA Finite ==
  ASSUME NEW S \in SUBSET Items
  PROVE  IsFiniteSet(S) /\ Cardinality(S) \in Nat
PROOF BY HandsAssumption, FS_Subset, FS_CardinalityType

(* SetCont, for a pack that is heavy enough for k things more than it has. *)
LEMMA MoveWeighs ==
  ASSUME HandsInv, ItemWeight = 1, NEW i \in Items, NEW d \in Places,
         NEW w \in [Players -> Nat], MoveTo(i, d, w),
         NEW p \in Players, d = Pack(p) => p \notin dead, NEW k \in Nat, w[p] >= Cardinality(On(p)) + k
  PROVE  weight'[p] >= Cardinality(On(p)') + k
PROOF
<1>1. \A j \in Items : at'[j] = IF j = i THEN d ELSE at[j]
  BY Moved
<1>2. On(p) \in SUBSET Items /\ On(p)' \in SUBSET Items
  BY DEF On
<1>3. /\ Cardinality(On(p)) \in Nat /\ IsFiniteSet(On(p))
      /\ Cardinality(On(p)') \in Nat
  BY <1>2, Finite
<1> DEFINE left == WeightAfterLeaving(w, i)
<1>4. /\ left \in [Players -> Nat]
      /\ left[p] = IF at[i] = Pack(p) /\ p \notin dead
                   THEN IF w[p] > 0 THEN w[p] - 1 ELSE 0 ELSE w[p]
  <2>1. CASE \E q \in Players \ dead : at[i] = Pack(q)
    <3> PICK q \in Players \ dead : at[i] = Pack(q)
      BY <2>1
    <3>1. (CHOOSE r \in Players : at[i] = Pack(r)) = q
      BY PlacesDiffer
    <3>2. left = Lighter(w, q)
      BY <3>1 DEF WeightAfterLeaving
    <3>3. at[i] = Pack(p) <=> p = q
      BY PlacesDiffer
    <3> QED BY <3>2, <3>3 DEF Lighter
  <2>2. CASE ~\E q \in Players \ dead : at[i] = Pack(q)
    BY <2>2 DEF WeightAfterLeaving
  <2> QED BY <2>1, <2>2
<1> HIDE DEF left
<1>5. weight'[p] = IF d = Pack(p) THEN left[p] + 1 ELSE left[p]
  <2>1. CASE \E q \in Players \ dead : d = Pack(q)
    <3> PICK q \in Players \ dead : d = Pack(q)
      BY <2>1
    <3>1. (CHOOSE r \in Players : d = Pack(r)) = q
      BY PlacesDiffer
    <3>2. weight' = Heavier(left, q)
      BY <3>1 DEF MoveTo, WeightAfterMove, left
    <3>3. d = Pack(p) <=> p = q
      BY PlacesDiffer
    <3> QED BY <1>4, <3>2, <3>3 DEF Heavier
  <2>2. CASE ~\E q \in Players \ dead : d = Pack(q)
    BY <2>2 DEF MoveTo, WeightAfterMove, left
  <2> QED BY <2>1, <2>2
<1>6. CASE at[i] = Pack(p) /\ d = Pack(p)
  <2>1. On(p)' = On(p)
    BY <1>1, <1>6 DEF On
  <2>2. Cardinality(On(p)) >= 1
    <3>1. i \in On(p)
      BY <1>6 DEF On
    <3>2. Cardinality(On(p)) # 0
      BY <1>3, <3>1, FS_EmptySet
    <3> QED BY <1>3, <3>2
  <2> QED BY <1>3, <1>4, <1>5, <1>6, <2>1, <2>2
<1>7. CASE at[i] = Pack(p) /\ d # Pack(p)
  <2>1. On(p)' = On(p) \ {i} /\ i \in On(p)
    BY <1>1, <1>7 DEF On
  <2>2. Cardinality(On(p)') = Cardinality(On(p)) - 1
    BY <1>3, <2>1, FS_RemoveElement
  <2> QED BY <1>3, <1>4, <1>5, <1>7, <2>2
<1>8. CASE at[i] # Pack(p) /\ d = Pack(p)
  <2>1. On(p)' = On(p) \cup {i} /\ i \notin On(p)
    BY <1>1, <1>8 DEF On
  <2>2. Cardinality(On(p)') = Cardinality(On(p)) + 1
    BY <1>3, <2>1, FS_AddElement
  <2> QED BY <1>3, <1>4, <1>5, <1>8, <2>2
<1>9. CASE at[i] # Pack(p) /\ d # Pack(p)
  <2>1. On(p)' = On(p)
    BY <1>1, <1>9 DEF On
  <2> QED BY <1>3, <1>4, <1>5, <1>9, <2>1
<1> QED BY <1>6, <1>7, <1>8, <1>9

(* What a hand lets go of is weighed off, or not: either will do.          *)
LEMMA ReleaseWeighs ==
  ASSUME HandsInv, ItemWeight = 1, NEW r \in Players, Enough(r), NEW p \in Players,
         NEW w, w = weight \/ w = Released(p)
  PROVE  /\ w \in [Players -> Nat]
         /\ r = p /\ hand[p] # None => w[r] >= Cardinality(On(r))
         /\ r # p => w[r] >= Cardinality(On(r)) + Held(r)
PROOF
<1>1. weight \in [Players -> Nat]
  BY DEF HandsInv, TypeOK
<1>2. /\ Cardinality(On(r)) \in Nat /\ Held(r) \in {0, 1}
      /\ weight[r] >= Cardinality(On(r)) + Held(r)
  BY Finite DEF On, Held, Enough
<1>3. CASE w = weight
  BY <1>1, <1>2, <1>3
<1>4. CASE w = Released(p) /\ Elsewhere(p)
  <2>1. w = [weight EXCEPT ![p] = IF @ > 0 THEN @ - 1 ELSE 0]
    BY <1>4 DEF Released, Lighter
  <2>2. hand[p] # None => Held(p) = 1
    BY <1>4 DEF Held
  <2> QED BY <1>1, <1>2, <2>1, <2>2
<1>5. CASE w = Released(p) /\ ~Elsewhere(p)
  BY <1>1, <1>2, <1>5 DEF Released
<1> QED BY <1>3, <1>4, <1>5

(* The hand of p is empty, and everybody else's as before.                 *)
LEMMA EmptyHandWeighs ==
  ASSUME HandsInv, NEW p \in Players, NEW r \in Players,
         hand' = [hand EXCEPT ![p] = None],
         spot' = spot \/ spot' = [spot EXCEPT ![p] = Nowhere],
         r = p => weight'[r] >= Cardinality(On(r)'),
         r # p => weight'[r] >= Cardinality(On(r)') + Held(r)
  PROVE  Enough(r)'
PROOF
<1>1. /\ hand \in [Players -> Items \cup {None}]
      /\ spot \in [Players -> {Nowhere, Ground, Box} \cup {Pack(q) : q \in Players}]
  BY DEF HandsInv, TypeOK
<1>2. r = p => Held(r)' = 0
  BY <1>1 DEF Held
<1>3. r # p => Held(r)' = Held(r)
  BY <1>1 DEF Held, Elsewhere
<1>4. Cardinality(On(r)') \in Nat
  BY Finite DEF On
<1> QED BY <1>2, <1>3, <1>4 DEF Enough

LEMMA PutWeighs ==
  ASSUME HandsInv, ItemWeight = 1, NEW r \in Players, Enough(r),
         NEW p \in Players, NEW i \in Items, hand[p] = i,
         NEW d \in Places, d = Pack(r) => r \notin dead,
         NEW w, w = weight \/ w = Released(p), MoveTo(i, d, w), Dropped(p)
  PROVE  Enough(r)'
PROOF
<1>1. hand[p] # None
  BY HandsAssumption
<1>2. /\ w \in [Players -> Nat]
      /\ r = p => w[r] >= Cardinality(On(r))
      /\ r # p => w[r] >= Cardinality(On(r)) + Held(r)
  BY <1>1, ReleaseWeighs
<1>3. /\ Held(r) \in Nat /\ Cardinality(On(r)) \in Nat /\ Cardinality(On(r)') \in Nat
  BY Finite DEF On, Held
<1>4. ASSUME r = p PROVE weight'[r] >= Cardinality(On(r)')
  <2>1. w[r] >= Cardinality(On(r)) + 0
    BY <1>2, <1>3, <1>4
  <2>2. weight'[r] >= Cardinality(On(r)') + 0
    BY <1>2, <2>1, MoveWeighs
  <2> QED BY <1>3, <2>2
<1>5. ASSUME r # p PROVE weight'[r] >= Cardinality(On(r)') + Held(r)
  BY <1>2, <1>3, <1>5, MoveWeighs
<1> QED BY <1>4, <1>5, EmptyHandWeighs DEF Dropped

(* Nothing moves into the pack or out of it.                               *)
LEMMA IdleWeighs ==
  ASSUME HandsInv, ItemWeight = 1, NEW r \in Players, Enough(r), NEW p \in Players, hand[p] # None,
         weight' = weight \/ weight' = Released(p), On(r)' = On(r),
         hand' = [hand EXCEPT ![p] = None],
         spot' = spot \/ spot' = [spot EXCEPT ![p] = Nowhere]
  PROVE  Enough(r)'
PROOF
<1>1. /\ r = p => weight'[r] >= Cardinality(On(r))
      /\ r # p => weight'[r] >= Cardinality(On(r)) + Held(r)
  BY ReleaseWeighs
<1> QED BY <1>1, EmptyHandWeighs

(* Trades that end: what comes to a pack is weighed.                       *)
LEMMA TradesWeigh ==
  ASSUME HandsInv, ItemWeight = 1, NEW p \in Players, Enough(p),
         NEW ts \in SUBSET Trades, NEW success \in BOOLEAN
  PROVE  LET after == {i \in Items : AtAfterTrades(ts, success)[i] = Pack(p)}
         IN WeightAfterTrades(ts, success)[p] >= Cardinality(after) + Held(p)
PROOF
<1> DEFINE after == {i \in Items : AtAfterTrades(ts, success)[i] = Pack(p)}
           come == {i \in Items : /\ at[i] # Pack(p)
                                  /\ AtAfterTrades(ts, success)[i] = Pack(p)}
<1>0. HandsInv /\ ts \in SUBSET Trades /\ success \in BOOLEAN
  OBVIOUS
<1>01. \A i \in Items :
         (\A t \in ts, q \in Players : at[i] # Window(t, q)) =>
           AtAfterTrades(ts, success)[i] = at[i]
  BY ONLY <1>0, AfterTrades
<1>1. \A i \in On(p) : AtAfterTrades(ts, success)[i] = Pack(p)
  BY <1>01, PlacesDiffer DEF On
<1>2. after = On(p) \cup come /\ On(p) \cap come = {}
  BY <1>1 DEF On
<1>3. /\ IsFiniteSet(On(p)) /\ IsFiniteSet(come)
      /\ Cardinality(On(p)) \in Nat /\ Cardinality(come) \in Nat
  BY Finite DEF On
<1> HIDE DEF after, come
<1>4. Cardinality(after) = Cardinality(On(p)) + Cardinality(come)
  <2>1. Cardinality(On(p) \cup come)
          = Cardinality(On(p)) + Cardinality(come) - Cardinality(On(p) \cap come)
    BY <1>3, FS_Union
  <2>2. Cardinality(On(p) \cap come) = 0
    BY <1>2, FS_EmptySet
  <2> QED BY <1>2, <1>3, <2>1, <2>2
<1>5. WeightAfterTrades(ts, success)[p] = weight[p] + Cardinality(come)
  <2>1. ItemWeight * Cardinality(come) = Cardinality(come)
    BY <1>3
  <2> QED BY <2>1 DEF WeightAfterTrades, come
<1>6. /\ weight[p] \in Nat /\ Held(p) \in {0, 1}
      /\ weight[p] >= Cardinality(On(p)) + Held(p)
  BY DEF Enough, HandsInv, TypeOK, Held
<1>7. WeightAfterTrades(ts, success)[p] >= Cardinality(after) + Held(p)
  BY <1>3, <1>4, <1>5, <1>6
<1> QED BY <1>7 DEF after

(* What a player lets go of, unless a dead player's own thing bounces.     *)
LEMMA DropsWeigh ==
  ASSUME HandsInv, ItemWeight = 1, SpotOwn, NEW r \in Players, Enough(r),
         NEW p \in Players, NEW i \in Items, Puts(p, i), hand[p] = i, ~Misplaced,
         p = r => ~Spared(r)
  PROVE  Enough(r)'
PROOF
<1>1. /\ Box \in Places /\ Ground \in Places /\ Gone \in Places
      /\ \A q \in Players : Pack(q) \in Places
      /\ \A t \in Trades, q \in Players : Window(t, q) \in Places
  BY DEF Places
<1>2. i # None /\ hand[p] # None
  BY HandsAssumption
<1>3. CASE \/ DropGround(p, i) \/ Trash(p, i) \/ Equip(p, i)
           \/ \E d \in {Box, Pack(p)} : DropInto(p, i, d)
  <2> PICK d \in Places : /\ (d = Pack(p) /\ p \notin dead) \/ d \in {Ground, Gone, Box}
                          /\ MoveTo(i, d, Released(p)) /\ Dropped(p)
    BY <1>1, <1>3 DEF DropGround, Trash, Equip, DropInto
  <2>1. d = Pack(r) => r \notin dead
    BY PlacesDiffer
  <2> QED BY <1>2, <2>1, PutWeighs
<1>4. ASSUME NEW w, Bounce(p, i, w), w = weight \/ w = Released(p)
      PROVE  Enough(r)'
  <2>1. Dropped(p)
    BY <1>4 DEF Bounce
  <2>2. CASE spot[p] \in {Ground, Nowhere}
    <3>1. /\ weight' = w
          /\ at' = [at EXCEPT ![i] = IF @ = Lifted /\ spot[p] = Ground THEN Loose ELSE @]
      BY <1>4, <2>2 DEF Bounce
    <3>2. On(r)' = On(r)
      BY <3>1, PlacesDiffer DEF On, HandsInv, TypeOK
    <3> QED BY <1>2, <1>4, <2>1, <3>1, <3>2, IdleWeighs DEF Dropped
  <2>3. CASE spot[p] \notin {Ground, Nowhere}
    <3>1. MoveTo(i, spot[p], w)
      BY <1>4, <2>3 DEF Bounce
    <3>2. spot[p] \in Places
      BY <1>1, <2>3 DEF HandsInv, TypeOK
    <3>3. spot[p] = Pack(r) => r \notin dead
      BY <1>2 DEF SpotOwn, Spared
    <3> QED BY <1>2, <1>4, <2>1, <3>1, <3>2, <3>3, PutWeighs
  <2> QED BY <2>2, <2>3
<1>5. CASE DropRefused(p, i) \/ EquipTooFar(p, i)
  BY <1>4, <1>5 DEF DropRefused, EquipTooFar
<1>6. CASE EquipDead(p, i) \/ EquipVanished(p, i) \/ \E q \in Players : DropNoTrade(p, i, q)
  <2>1. /\ hand' = [hand EXCEPT ![p] = None]
        /\ spot' = spot \/ spot' = [spot EXCEPT ![p] = Nowhere]
        /\ weight' = weight \/ weight' = Released(p)
        /\ at' = at
    BY <1>6 DEF EquipDead, EquipVanished, DropNoTrade, Dropped
  <2>2. On(r)' = On(r)
    BY <2>1 DEF On
  <2> QED BY <1>2, <2>1, <2>2, IdleWeighs
<1>7. CASE \/ \E q \in Players, t \in Trades : StartTrade(p, i, q, t)
           \/ \E t \in Trades : DropOnTradeWindow(p, i, t)
  <2> PICK t \in Trades : MoveTo(i, Window(t, p), Released(p)) /\ Dropped(p)
    BY <1>7 DEF StartTrade, DropOnTradeWindow
  <2>1. Window(t, p) \in Places /\ Window(t, p) # Pack(r)
    BY <1>1, PlacesDiffer
  <2> QED BY <1>2, <2>1, PutWeighs
<1>8. CASE \E j \in Items : DropBeside(p, i, j)
  <2> PICK j \in Items : DropBeside(p, i, j)
    BY <1>8
  <2>1. at[j] \in Shown(p)
    BY DEF Misplaced
  <2>2. at[j] \in Places /\ at[j] # Pack(r)
    BY <2>1, PlacesDiffer DEF Shown, HandsInv, TypeOK
  <2>3. MoveTo(i, at[j], Released(p)) /\ Dropped(p)
    BY DEF DropBeside
  <2> QED BY <1>2, <2>2, <2>3, PutWeighs
<1> QED BY <1>3, <1>5, <1>6, <1>7, <1>8 DEF Puts

LEMMA PickUpWeighs ==
  ASSUME HandsInv, ItemWeight = 1, NEW r \in Players, Enough(r),
         NEW p \in Players, NEW i \in Items, PickUp(p, i)
  PROVE  Enough(r)'
PROOF
<1> DEFINE from == From(i)
<1>1. /\ hand' = [hand EXCEPT ![p] = i] /\ spot' = [spot EXCEPT ![p] = from]
      /\ at' = IF from = Ground THEN [at EXCEPT ![i] = Lifted] ELSE at
      /\ weight' = IF from = Pack(p) THEN weight ELSE Heavier(weight, p)
  BY DEF PickUp
<1>2. from = Ground => at[i] \in {Ground, Loose, Lifted}
  BY PlacesDiffer DEF From
<1>3. On(r)' = On(r)
  BY <1>1, <1>2, PlacesDiffer DEF On, HandsInv, TypeOK
<1>4. /\ weight[r] \in Nat /\ Cardinality(On(r)) \in Nat
      /\ weight[r] >= Cardinality(On(r)) + Held(r)
  BY Finite DEF On, Enough, HandsInv, TypeOK
<1>5. CASE r # p
  <2>1. Held(r)' = Held(r) /\ weight'[r] = weight[r]
    BY <1>1, <1>5 DEF Held, Elsewhere, Heavier, HandsInv, TypeOK
  <2> QED BY <1>3, <1>4, <2>1 DEF Enough
<1>6. CASE r = p /\ from = Pack(p)
  <2>1. Held(r)' = 0 /\ Held(r) \in {0, 1}
    BY <1>1, <1>6 DEF Held, Elsewhere, HandsInv, TypeOK
  <2> QED BY <1>1, <1>3, <1>4, <1>6, <2>1 DEF Enough
<1>7. CASE r = p /\ from # Pack(p)
  <2>1. weight'[r] = weight[r] + 1
    BY <1>1, <1>7 DEF Heavier, HandsInv, TypeOK
  <2>2. Held(r)' \in {0, 1} /\ Held(r) \in {0, 1}
    BY DEF Held
  <2> QED BY <1>3, <1>4, <2>1, <2>2 DEF Enough
<1> QED BY <1>5, <1>6, <1>7

LEMMA TradeWeighs ==
  ASSUME HandsInv, ItemWeight = 1, NEW r \in Players, Enough(r),
         NEW p \in Players, NEW t \in Trades, NEW q \in Players,
         NEW mark \in BOOLEAN, TradeCheck(p, t, q, mark) \/ TradeCancel(p, t)
  PROVE  Enough(r)'
PROOF
<1>1. Held(r)' = Held(r)
  BY DEF TradeCheck, TradeCancel, socks, Held, Elsewhere
<1>2. ASSUME NEW success \in BOOLEAN, at' = AtAfterTrades({t}, success),
             weight' = WeightAfterTrades({t}, success)
      PROVE  Enough(r)'
  <2>1. On(r)' = {i \in Items : AtAfterTrades({t}, success)[i] = Pack(r)}
    BY <1>2 DEF On
  <2> QED BY <1>1, <1>2, <2>1, TradesWeigh DEF Enough
<1>3. CASE UNCHANGED <<at, weight>>
  <2>1. On(r)' = On(r)
    BY <1>3 DEF On
  <2> QED BY <1>1, <1>3, <2>1 DEF Enough
<1> QED BY <1>2, <1>3 DEF TradeCheck, TradeCancel

LEMMA DisconnectWeighs ==
  ASSUME HandsInv, ItemWeight = 1, NEW r \in Players, Enough(r), NEW p \in Players, Disconnect(p)
  PROVE  Enough(r)'
PROOF
<1> DEFINE ended == AtAfterTrades(Killed(p), FALSE)
           heavy == WeightAfterTrades(Killed(p), FALSE)
           had == {i \in Items : ended[i] = Pack(r)}
           down == PutDown(p)
<1>1. /\ at' = [i \in Items |-> IF i \in down THEN Ground ELSE ended[i]]
      /\ weight'[r] = IF r \notin dead /\ \E i \in down : ended[i] = Pack(r)
                      THEN IF heavy[r] > 0 THEN heavy[r] - ItemWeight ELSE 0
                      ELSE heavy[r]
      /\ hand' = [hand EXCEPT ![p] = None] /\ spot' = [spot EXCEPT ![p] = Nowhere]
  BY DEF Disconnect
<1>2. Killed(p) \in SUBSET Trades /\ FALSE \in BOOLEAN
  BY DEF Killed
<1>3. heavy[r] >= Cardinality(had) + Held(r)
  BY <1>2, TradesWeigh
<1>4. heavy \in [Players -> Nat]
  BY <1>2, AfterTrades
<1>5. down \subseteq Items /\ \A i, j \in down : i = j
  BY DEF PutDown, PutDownAny
<1> HIDE DEF ended, heavy, down
<1>6. On(r)' = had \ down
  BY <1>1, PlacesDiffer DEF On
<1>7. /\ IsFiniteSet(had) /\ Cardinality(had) \in Nat /\ had \subseteq Items
      /\ Cardinality(On(r)') \in Nat
  BY Finite DEF On
<1>8. Held(r)' \in {0, Held(r)} /\ Held(r) \in {0, 1}
  BY <1>1 DEF Held, Elsewhere, HandsInv, TypeOK
<1>9. CASE \E i \in down : i \in had
  <2> PICK i \in down : i \in had
    BY <1>9
  <2>1. On(r)' = had \ {i}
    BY <1>5, <1>6
  <2> HIDE DEF had
  <2>2. Cardinality(On(r)') = Cardinality(had) - 1
    BY <1>7, <2>1, FS_RemoveElement
  <2>3. Cardinality(had) # 0
    BY <1>7, FS_EmptySet
  <2>4. heavy[r] \in Nat /\ weight'[r] \in Nat /\ weight'[r] >= heavy[r] - 1
    BY <1>1, <1>4
  <2> QED BY <1>3, <1>4, <1>7, <1>8, <2>2, <2>3, <2>4 DEF Enough
<1>10. CASE ~\E i \in down : i \in had
  <2>1. On(r)' = had
    BY <1>6, <1>10
  <2>2. \A i \in down : ended[i] # Pack(r)
    BY <1>5, <1>10
  <2>3. weight'[r] = heavy[r]
    BY <1>1, <2>2
  <2> HIDE DEF had
  <2> QED BY <1>3, <1>4, <1>7, <1>8, <2>1, <2>3 DEF Enough
<1> QED BY <1>9, <1>10

(* The corpse takes off as many as it gets.                                *)
LEMMA DeathWeighs ==
  ASSUME HandsInv, ItemWeight = 1, NEW r \in Players, Enough(r),
         NEW p \in Players, Die(p)
  PROVE  Enough(r)'
PROOF
<1> DEFINE ended == AtAfterTrades(Killed(p), FALSE)
           heavy == WeightAfterTrades(Killed(p), FALSE)
           had == {i \in Items : ended[i] = Pack(r)}
<1> PICK moved \in SUBSET {i \in Items : ended[i] = Pack(p)} :
       /\ at' = [i \in Items |-> IF i \in moved THEN Box ELSE ended[i]]
       /\ weight' = [heavy EXCEPT ![p] =
                       IF @ > ItemWeight * Cardinality(moved)
                       THEN @ - ItemWeight * Cardinality(moved) ELSE 0]
  BY DEF Die, KilledAtDeath
<1> DEFINE n == Cardinality(moved)
<1>1. /\ at' = [i \in Items |-> IF i \in moved THEN Box ELSE ended[i]]
      /\ hand' = hand /\ spot' = spot
  BY DEF Die, socks
<1>01. n \in Nat
  BY Finite
<1>02. weight' = [heavy EXCEPT ![p] = IF @ > n THEN @ - n ELSE 0]
  <2>1. ItemWeight * n = n
    BY <1>01
  <2> QED BY <2>1
<1>2. Killed(p) \in SUBSET Trades /\ FALSE \in BOOLEAN
  BY DEF Killed
<1>3. heavy[r] >= Cardinality(had) + Held(r)
  BY <1>2, TradesWeigh
<1>4. heavy \in [Players -> Nat]
  BY <1>2, AfterTrades
<1>5. Held(r)' = Held(r) /\ Held(r) \in {0, 1}
  BY <1>1 DEF Held, Elsewhere
<1>6. On(r)' = had \ moved
  <2>1. Box # Pack(r)
    BY PlacesDiffer
  <2> HIDE DEF ended
  <2>2. \A i \in Items : at'[i] = IF i \in moved THEN Box ELSE ended[i]
    BY <1>1
  <2>3. On(r)' = {i \in Items : at'[i] = Pack(r)}
    BY DEF On
  <2> QED BY <2>1, <2>2, <2>3
<1>7. /\ IsFiniteSet(had) /\ Cardinality(had) \in Nat
      /\ IsFiniteSet(moved) /\ n \in Nat
  BY Finite
<1>8. CASE r = p
  <2>1. moved \subseteq had
    BY <1>8
  <2> HIDE DEF had, heavy, ended
  <2>2. Cardinality(had \ moved) = Cardinality(had) - Cardinality(had \cap moved)
    BY <1>7, FS_Difference
  <2>3. had \cap moved = moved
    BY <2>1
  <2>4. Cardinality(On(r)') = Cardinality(had) - n /\ Cardinality(On(r)') \in Nat
    BY <1>6, <2>2, <2>3, Finite DEF On
  <2>5. weight'[r] >= heavy[r] - n
    BY <1>02, <1>4, <1>7, <1>8
  <2>6. heavy[r] \in Nat /\ weight'[r] \in Nat
    BY <1>02, <1>4, <1>7
  <2> QED BY <1>3, <1>5, <1>7, <2>4, <2>5, <2>6 DEF Enough
<1>9. CASE r # p
  <2>1. On(r)' = had
    <3>1. Pack(r) # Pack(p)
      BY <1>9, PlacesDiffer
    <3>2. \A i \in moved : ended[i] = Pack(p)
      OBVIOUS
    <3> HIDE DEF ended
    <3>3. \A i \in moved : i \notin had
      BY <3>1, <3>2
    <3> QED BY <1>6, <3>3
  <2>2. weight'[r] = heavy[r]
    BY <1>02, <1>4, <1>9
  <2> QED BY <1>3, <1>5, <2>1, <2>2 DEF Enough
<1> QED BY <1>8, <1>9

LEMMA SavedAlone ==
  ASSUME NEW r \in Players, SavedEnough(r), UNCHANGED saved
  PROVE  SavedEnough(r)'
PROOF BY DEF SavedEnough, SavedOn

(* What is saved weighs enough where what there is does, and comes back so.*)
LEMMA ServerWeighs ==
  ASSUME HandsInv, ItemWeight = 1, NEW r \in Players, Enough(r), SavedEnough(r),
         (\E p \in Players : Connect(p) \/ Resurrect(p)) \/ WorldSave \/ Restart
           \/ UNCHANGED vars
  PROVE  (Enough(r) /\ SavedEnough(r))'
PROOF
<1>1. CASE (\E p \in Players : Connect(p) \/ Resurrect(p)) \/ UNCHANGED vars
  <2>1. UNCHANGED <<at, hand, spot, saved, weight>>
    BY <1>1 DEF Connect, Resurrect, socks, vars
  <2>2. On(r)' = On(r) /\ Held(r)' = Held(r)
    BY <2>1 DEF On, Held, Elsewhere
  <2> QED BY <2>1, <2>2, SavedAlone DEF Enough
<1>2. CASE WorldSave
  <2>1. /\ UNCHANGED <<at, hand, spot, weight>>
        /\ saved'.weight = weight
        /\ saved'.at = [i \in Items |->
             IF at[i] \in {Ground, Box} \cup {Pack(q) : q \in Players} THEN at[i] ELSE Gone]
    BY <1>2 DEF WorldSave, socks, chars
  <2>2. On(r)' = On(r) /\ Held(r)' = Held(r)
    BY <2>1 DEF On, Held, Elsewhere
  <2>3. SavedOn(r)' = On(r)
    BY <2>1, PlacesDiffer DEF SavedOn, On
  <2>4. /\ weight[r] \in Nat /\ Cardinality(On(r)) \in Nat /\ Held(r) \in {0, 1}
        /\ weight[r] >= Cardinality(On(r)) + Held(r)
    BY Finite DEF On, Held, Enough, HandsInv, TypeOK
  <2>5. weight[r] >= Cardinality(On(r))
    BY <2>4
  <2> QED BY <2>1, <2>2, <2>3, <2>5 DEF Enough, SavedEnough
<1>3. CASE Restart
  <2>1. /\ at' = saved.at /\ weight' = saved.weight
        /\ hand'[r] = None
        /\ UNCHANGED saved
    BY <1>3 DEF Restart
  <2>2. On(r)' = SavedOn(r) /\ Held(r)' = 0
    BY <2>1 DEF On, SavedOn, Held
  <2>3. Cardinality(SavedOn(r)) \in Nat
    BY Finite DEF SavedOn
  <2> QED BY <2>1, <2>2, <2>3, SavedAlone DEF Enough, SavedEnough
<1> QED BY <1>1, <1>2, <1>3

(* Whatever happens, weight stays enough, unless a dead hand is emptied    *)
(* that took its thing out of its own pack, or a request names what is not *)
(* in the hand, or a place that is not shown.                              *)
LEMMA WeighsNext ==
  ASSUME HandsInv, ItemWeight = 1, SpotOwn, NEW r \in Players, Enough(r), SavedEnough(r),
         [Next]_vars, ~(Spared(r) /\ hand'[r] = None),
         ~Misplaced, \A i \in Items : ~Misnamed(i)
  PROVE  (Enough(r) /\ SavedEnough(r))'
PROOF
<1>1. CASE \E p \in Players, i \in Items : PickUp(p, i)
  BY <1>1, PickUpWeighs, SavedAlone DEF PickUp
<1>2. ASSUME NEW p \in Players, NEW i \in Items, Puts(p, i)
      PROVE  (Enough(r) /\ SavedEnough(r))'
  <2>1. hand[p] = i /\ hand' = [hand EXCEPT ![p] = None] /\ UNCHANGED saved
    BY <1>2, PutsGo DEF Misnamed, Empties
  <2>2. p = r => ~Spared(r)
    BY <2>1 DEF HandsInv, TypeOK
  <2> QED BY <1>2, <2>1, <2>2, DropsWeigh, SavedAlone
<1>3. ASSUME NEW p \in Players, DropVanished(p)
      PROVE  (Enough(r) /\ SavedEnough(r))'
  <2>1. /\ hand' = [hand EXCEPT ![p] = None] /\ spot' = [spot EXCEPT ![p] = Nowhere]
        /\ UNCHANGED <<at, weight, saved>>
    BY <1>3 DEF DropVanished, Dropped
  <2>2. On(r)' = On(r)
    BY <2>1 DEF On
  <2>3. /\ weight[r] \in Nat /\ Cardinality(On(r)) \in Nat /\ Held(r) \in {0, 1}
        /\ weight[r] >= Cardinality(On(r)) + Held(r)
    BY Finite DEF On, Held, Enough, HandsInv, TypeOK
  <2>4. weight'[r] >= Cardinality(On(r)') + Held(r) /\ weight'[r] >= Cardinality(On(r)')
    BY <2>1, <2>2, <2>3
  <2>5. Enough(r)'
    BY <2>1, <2>4, EmptyHandWeighs
  <2> QED BY <2>1, <2>5, SavedAlone
<1>4. CASE \/ \E p, q \in Players, t \in Trades, mark \in BOOLEAN : TradeCheck(p, t, q, mark)
           \/ \E p \in Players, t \in Trades : TradeCancel(p, t)
  BY <1>4, TRUE \in BOOLEAN, TradeWeighs, SavedAlone DEF TradeCheck, TradeCancel
<1>5. CASE \E p \in Players : Disconnect(p) \/ Die(p)
  BY <1>5, DisconnectWeighs, DeathWeighs, SavedAlone DEF Disconnect, Die
<1>6. CASE (\E p \in Players : Connect(p) \/ Resurrect(p)) \/ WorldSave \/ Restart
             \/ UNCHANGED vars
  BY <1>6, ServerWeighs
<1> QED BY <1>1, <1>2, <1>3, <1>4, <1>5, <1>6 DEF Next

LEMMA WeighsIs ==
  ASSUME ItemWeight = 1, HandsInv, NEW p \in Players
  PROVE  WeighsEnough(p) <=> Enough(p) /\ SavedEnough(p)
PROOF
<1>1. Cardinality(On(p)) \in Nat /\ Cardinality(SavedOn(p)) \in Nat
  BY Finite DEF On, SavedOn
<1> QED BY <1>1 DEF WeighsEnough, Enough, SavedEnough, Burden, Held, SavedOn

LEMMA WeighsIsNext ==
  ASSUME ItemWeight = 1, HandsInv', NEW p \in Players
  PROVE  WeighsEnough(p)' <=> Enough(p)' /\ SavedEnough(p)'
PROOF
<1>1. Cardinality(On(p)') \in Nat /\ Cardinality(SavedOn(p)') \in Nat
  BY Finite DEF On, SavedOn
<1> QED BY <1>1 DEF WeighsEnough, Enough, SavedEnough, Burden, Held, SavedOn

(* Where things weigh nothing, everybody weighs enough.                    *)
LEMMA NothingWeighs ==
  ASSUME ItemWeight = 0, HandsInv', NEW p \in Players
  PROVE  WeighsEnough(p)'
PROOF
<1>1. Cardinality(On(p)') \in Nat /\ Cardinality(SavedOn(p)') \in Nat
  BY Finite DEF On, SavedOn
<1>2. weight'[p] \in Nat /\ saved'.weight[p] \in Nat
  BY DEF HandsInv, TypeOK, SavedSound
<1> QED BY <1>1, <1>2 DEF WeighsEnough, Burden, SavedOn

(* addItemWeight, subtractItemWeight, for any number of players, things    *)
(* and trades, with deaths, saves, restarts and whatever requests: whoever *)
(* weighs enough for what they have and hold goes on doing so, until their *)
(* dead hand lets go of a thing from their own pack, or a request names    *)
(* what its player has not in the hand, or a place that is not shown.      *)
THEOREM SpecShortOnlyByTheDead == Spec => ShortOnlyByTheDead
PROOF
<1> DEFINE Stays(p) ==
             WeighsEnough(p) =>
               \/ WeighsEnough(p)'
               \/ p \in dead /\ hand[p] # None /\ hand'[p] = None /\ spot[p] = Pack(p)
               \/ Misplaced \/ \E i \in Items : Misnamed(i)
<1>1. ASSUME HandsInv, SpotOwn, [Next]_vars, NEW p \in Players
      PROVE  Stays(p)
  <2>1. HandsInv'
    BY <1>1, HandsInvNext
  <2>2. CASE ItemWeight = 0
    BY <2>1, <2>2, NothingWeighs
  <2>3. CASE ItemWeight = 1
    BY <1>1, <2>1, <2>3, WeighsNext, WeighsIs, WeighsIsNext DEF Spared
  <2> QED BY <2>2, <2>3, HandsAssumption
<1>2. Init => HandsInv /\ HeldFrom /\ SpotOwn
  BY HandsInvInit, HandFromInit
<1>3. HandsInv /\ HeldFrom /\ SpotOwn /\ [Next]_vars => (HandsInv /\ HeldFrom /\ SpotOwn)'
  BY HandsInvNext, HandFromNext
<1>4. HandsInv /\ SpotOwn /\ [Next]_vars => [\A p \in Players : Stays(p)]_vars
  BY <1>1
<1>5. Spec => [][\A p \in Players : Stays(p)]_vars
  BY <1>2, <1>3, <1>4, PTL DEF Spec
<1> QED BY <1>5 DEF ShortOnlyByTheDead
=============================================================================
