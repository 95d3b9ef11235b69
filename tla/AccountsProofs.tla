---------------------------- MODULE AccountsProofs ----------------------------
(***************************************************************************)
(* Proofs about accounts, for any accounts, names, characters and slots:   *)
(* who is listed where, which name leads where, and what is stored.        *)
(***************************************************************************)
EXTENDS Accounts, FiniteSetTheorems, TLAPS

(* A block, with pointers only where there are serials.                    *)
Proper(b) == b \in Blocks /\ \A i \in Slots : b.lpCharacters[i] \in {None, b.dwCharacters[i]}

LEMMA EmptyProper ==
  ASSUME NEW n \in Names
  PROVE  /\ Proper(EmptyBlock(n)) /\ EmptyBlock(n) # None /\ EmptyBlock(n).name = n
         /\ \A c \in Chars : ~Lists(EmptyBlock(n), c)
PROOF
<1>1. EmptyBlock(n) \in Blocks
  BY DEF EmptyBlock, Blocks, Free
<1>2. \A i \in Slots : EmptyBlock(n).lpCharacters[i] = None
  BY DEF EmptyBlock, Free
<1>3. EmptyBlock(n) # None /\ EmptyBlock(n).name = n
  BY <1>1, NoneAssumption DEF EmptyBlock
<1> QED BY <1>1, <1>2, <1>3, AccountsAssumption DEF Proper, Lists

(* What a block lists after LoadFromDB are characters in memory, from the  *)
(* rows of its account.                                                    *)
LEMMA LoadedProper ==
  ASSUME NEW a \in Names, NEW order \in Orders, NEW m
  PROVE  /\ Proper(LoadedBlock(a, order, m)) /\ LoadedBlock(a, order, m) # None
         /\ LoadedBlock(a, order, m).name = a
         /\ \A c \in Chars : Lists(LoadedBlock(a, order, m), c) =>
              Registered(m, c) /\ \E k \in DOMAIN order : order[k] = c
PROOF
<1> DEFINE seated == Seated(order)
           pointers == [i \in Slots |-> IF seated[i] # None /\ Registered(m, seated[i])
                                        THEN seated[i] ELSE None]
           b == LoadedBlock(a, order, m)
<1>1. \A k \in DOMAIN order : order[k] \in Chars
  BY DEF Orders
<1>2. /\ seated \in [Slots -> Chars \cup {None}]
      /\ \A i \in Slots : seated[i] # None => i + 1 \in DOMAIN order /\ seated[i] = order[i + 1]
  BY <1>1 DEF Seated
<1>3. pointers \in [Slots -> Chars \cup {None}]
  BY <1>2
<1>4. b = [name |-> a, dwCharacters |-> seated, lpCharacters |-> pointers, bChanged |-> FALSE]
  <2>1. b = [EmptyBlock(a) EXCEPT !.dwCharacters = seated, !.lpCharacters = pointers]
    BY DEF LoadedBlock
  <2> HIDE DEF b, seated, pointers
  <2> QED BY <2>1 DEF EmptyBlock
<1>5. Proper(b)
  BY <1>2, <1>3, <1>4 DEF Proper, Blocks
<1>6. \A c \in Chars : Lists(b, c) =>
        Registered(m, c) /\ \E k \in DOMAIN order : order[k] = c
  BY <1>2, <1>4, AccountsAssumption DEF Lists
<1>7. b.name = a /\ b # None
  <2> HIDE DEF b, seated, pointers
  <2>1. b.name = a
    BY <1>4
  <2>2. b # None
    BY <1>5, NoneAssumption DEF Proper
  <2> QED BY <2>1, <2>2
<1> QED BY <1>5, <1>6, <1>7

(* DelCharacter and Cleanup only ever empty slots.                         *)
LEMMA WithoutProper ==
  ASSUME NEW b, Proper(b), NEW slot \in Slots
  PROVE  /\ Proper(Without(b, slot)) /\ Without(b, slot).name = b.name
         /\ \A c \in Chars : Lists(Without(b, slot), c) => Lists(b, c)
PROOF
<1> DEFINE n == Kept(b, slot)
           serials == Emptied(b.dwCharacters, slot, n)
           pointers == Emptied(b.lpCharacters, slot, n)
<1>1. /\ b \in Blocks
      /\ b.dwCharacters \in [Slots -> Chars \cup {None}]
      /\ b.lpCharacters \in [Slots -> Chars \cup {None}]
      /\ \A i \in Slots : b.lpCharacters[i] \in {None, b.dwCharacters[i]}
  BY DEF Proper, Blocks
<1> HIDE DEF n
<1>2. /\ serials \in [Slots -> Chars \cup {None}]
      /\ pointers \in [Slots -> Chars \cup {None}]
      /\ \A i \in Slots : pointers[i] \in {None, serials[i]}
      /\ \A i \in Slots : pointers[i] \in {None, b.lpCharacters[i]}
  BY <1>1 DEF Emptied
<1>3. CASE Removes(b, slot)
  <2>1. Without(b, slot) = [b EXCEPT !.dwCharacters = serials, !.lpCharacters = pointers,
                                     !.bChanged = TRUE]
    BY <1>3 DEF Without, n
  <2> HIDE DEF serials, pointers
  <2>2. /\ Without(b, slot).lpCharacters = pointers /\ Without(b, slot).dwCharacters = serials
        /\ Without(b, slot).name = b.name /\ Without(b, slot) \in Blocks
    BY <1>1, <1>2, <2>1 DEF Blocks
  <2> QED BY <1>1, <1>2, <2>2, AccountsAssumption DEF Proper, Lists
<1>4. CASE ~Removes(b, slot)
  <2>1. Without(b, slot) = [b EXCEPT !.bChanged = FALSE]
    BY <1>4 DEF Without
  <2>2. /\ Without(b, slot).lpCharacters = b.lpCharacters
        /\ Without(b, slot).dwCharacters = b.dwCharacters
        /\ Without(b, slot).name = b.name /\ Without(b, slot) \in Blocks
    BY <1>1, <2>1 DEF Blocks
  <2> QED BY <1>1, <2>2 DEF Proper, Lists
<1> QED BY <1>3, <1>4

LEMMA CleanupProper ==
  ASSUME NEW b, Proper(b), NEW c \in Chars
  PROVE  /\ Proper(AfterCleanup(b, c)) /\ AfterCleanup(b, c).name = b.name
         /\ \A d \in Chars : Lists(AfterCleanup(b, c), d) => Lists(b, d)
PROOF
<1>1. CASE Lists(b, c)
  <2>1. SlotOf(b, c) \in Slots
    BY <1>1 DEF Lists, SlotOf
  <2> QED BY <1>1, <2>1, WithoutProper DEF AfterCleanup
<1>2. CASE ~Lists(b, c)
  BY <1>2 DEF AfterCleanup
<1> QED BY <1>1, <1>2

-----------------------------------------------------------------------------
(* The inductive invariant: while the server runs each account has its     *)
(* block, other blocks list nobody, and what is listed was once alive.     *)
Known ==
  up => /\ \A a \in accounts : Exists(a)
        /\ \A a \in Numbers \ accounts : Exists(a) =>
             a = InvalidId /\ \A c \in Chars : ~Lists(blocks[a], c)

ListedWereBorn ==
  \A a \in Numbers, c \in Chars : Exists(a) /\ Lists(blocks[a], c) => mem[c] # "unborn"

AccountsInv ==
  TypeOK /\ ListedAreItsOwn /\ NamesFindBlocks /\ LiveAreStored /\ Known /\ ListedWereBorn

(* LoadFromDB, with the rows stored, the objects m, and what was in the    *)
(* maps before.                                                            *)
LEMMA LoadResult ==
  ASSUME accounts \subseteq Ids, NEW stored \in [Chars -> Numbers \cup {None}], NEW m,
         NEW before, before.names \in [Names -> Numbers \cup {None}],
         before.accountNum \in [Chars -> Numbers],
         Load(stored, m, before)
  PROVE  /\ DOMAIN blocks' = Numbers
         /\ names' \in [Names -> Numbers \cup {None}] /\ accountNum' \in [Chars -> Numbers]
         /\ \A a \in accounts :
              /\ Proper(blocks'[a]) /\ blocks'[a] # None
              /\ blocks'[a].name = a /\ names'[a] = a
         /\ \A a \in accounts, c \in Chars : Lists(blocks'[a], c) =>
              stored[c] = a /\ Registered(m, c) /\ accountNum'[c] = a
         /\ \A a \in Numbers \ accounts :
              blocks'[a] = IF a = InvalidId /\ accounts # {} THEN EmptyBlock(Blank)
                           ELSE before.blocks[a]
         /\ \A n \in Names \ accounts :
              names'[n] = IF n = Blank /\ accounts # {} THEN InvalidId ELSE before.names[n]
         /\ \A c \in Chars : accountNum'[c] \in {before.accountNum[c], stored[c]}
PROOF
<1> PICK order \in [accounts -> Orders] :
      LET loaded == [a \in accounts |-> LoadedBlock(a, order[a], m)]
      IN /\ \A a \in accounts :
              {order[a][i] : i \in DOMAIN order[a]} = RowsOf(a, stored)
         /\ blocks' = [a \in Numbers |->
                         IF a \in accounts THEN loaded[a]
                         ELSE IF a = InvalidId /\ accounts # {} THEN EmptyBlock(Blank)
                         ELSE before.blocks[a]]
         /\ names' = [n \in Names |->
                        IF n \in accounts THEN n
                        ELSE IF n = Blank /\ accounts # {} THEN InvalidId
                        ELSE before.names[n]]
         /\ accountNum' = [c \in Chars |->
                             IF \E a \in accounts : Lists(loaded[a], c)
                             THEN CHOOSE a \in accounts : Lists(loaded[a], c)
                             ELSE before.accountNum[c]]
  BY DEF Load
<1> DEFINE block(a) == LoadedBlock(a, order[a], m)
<1>1. accounts \subseteq Numbers /\ accounts \subseteq Names
  BY DEF Numbers, Names
<1>2. /\ DOMAIN blocks' = Numbers
      /\ \A a \in Numbers : blocks'[a] =
           IF a \in accounts THEN block(a)
           ELSE IF a = InvalidId /\ accounts # {} THEN EmptyBlock(Blank)
           ELSE before.blocks[a]
  BY <1>1
<1>3. \A a \in accounts, c \in Chars : Lists(block(a), c) =>
        stored[c] = a /\ Registered(m, c)
  <2> TAKE a \in accounts, c \in Chars
  <2> HAVE Lists(block(a), c)
  <2>1. Registered(m, c) /\ \E k \in DOMAIN order[a] : order[a][k] = c
    BY <1>1, LoadedProper
  <2>2. c \in RowsOf(a, stored)
    BY <2>1
  <2> QED BY <2>1, <2>2 DEF RowsOf
<1>4. \A a \in accounts : /\ Proper(block(a)) /\ block(a) # None
                          /\ block(a).name = a
  BY <1>1, LoadedProper
<1>5. /\ accountNum' = [c \in Chars |->
           IF \E a \in accounts : Lists(block(a), c)
           THEN CHOOSE a \in accounts : Lists(block(a), c)
           ELSE before.accountNum[c]]
  OBVIOUS
<1> HIDE DEF block
<1>6. \A c \in Chars : \/ \E a \in accounts : Lists(block(a), c) /\ accountNum'[c] = a
                       \/ /\ \A a \in accounts : ~Lists(block(a), c)
                          /\ accountNum'[c] = before.accountNum[c]
  BY <1>5
<1>7. \A a \in accounts, c \in Chars : Lists(block(a), c) => accountNum'[c] = a
  BY <1>3, <1>6
<1>8. \A c \in Chars : accountNum'[c] \in {before.accountNum[c], stored[c]}
  BY <1>3, <1>6
<1>9. accountNum' \in [Chars -> Numbers]
  BY <1>1, <1>5, <1>6
<1>10. /\ names' \in [Names -> Numbers \cup {None}]
       /\ \A n \in accounts : names'[n] = n
       /\ \A n \in Names \ accounts :
            names'[n] = IF n = Blank /\ accounts # {} THEN InvalidId ELSE before.names[n]
  BY <1>1 DEF Numbers
<1>11. \A a \in accounts : blocks'[a] = block(a)
  BY <1>1, <1>2
<1>12. \A a \in Numbers \ accounts :
         blocks'[a] = IF a = InvalidId /\ accounts # {} THEN EmptyBlock(Blank)
                      ELSE before.blocks[a]
  BY <1>2
<1>13. \A a \in accounts :
         /\ Proper(blocks'[a]) /\ blocks'[a] # None
         /\ blocks'[a].name = a /\ names'[a] = a
  BY <1>4, <1>10, <1>11
<1>14. \A a \in accounts, c \in Chars : Lists(blocks'[a], c) =>
         stored[c] = a /\ Registered(m, c) /\ accountNum'[c] = a
  BY <1>3, <1>7, <1>11
<1> QED BY <1>2, <1>8, <1>9, <1>10, <1>12, <1>13, <1>14

(* What was in the maps besides the accounts' blocks: at most the block of *)
(* the invalid number, which lists nobody and has its name.                *)
Spare(before) ==
  \A a \in Numbers \ accounts : before.blocks[a] # None =>
    /\ a = InvalidId /\ Proper(before.blocks[a])
    /\ \A c \in Chars : ~Lists(before.blocks[a], c)
    /\ before.names[before.blocks[a].name] = a

LEMMA LoadKeeps ==
  ASSUME accounts \subseteq Ids, UNCHANGED accounts,
         NEW stored \in [Chars -> Numbers \cup {None}], NEW m,
         NEW before, before.names \in [Names -> Numbers \cup {None}],
         before.accountNum \in [Chars -> Numbers], Spare(before),
         Load(stored, m, before)
  PROVE  /\ DOMAIN blocks' = Numbers
         /\ names' \in [Names -> Numbers \cup {None}] /\ accountNum' \in [Chars -> Numbers]
         /\ \A a \in Numbers : blocks'[a] # None => Proper(blocks'[a])
         /\ ListedAreItsOwn' /\ NamesFindBlocks' /\ Known'
         /\ \A a \in Numbers, c \in Chars : blocks'[a] # None /\ Lists(blocks'[a], c) =>
              stored[c] = a /\ Registered(m, c)
         /\ \A c \in Chars : accountNum'[c] \in {before.accountNum[c], stored[c]}
PROOF
<1>0. /\ accounts \subseteq Ids /\ stored \in [Chars -> Numbers \cup {None}]
      /\ before.names \in [Names -> Numbers \cup {None}]
      /\ before.accountNum \in [Chars -> Numbers] /\ Load(stored, m, before)
  OBVIOUS
<1>1. /\ DOMAIN blocks' = Numbers
      /\ names' \in [Names -> Numbers \cup {None}] /\ accountNum' \in [Chars -> Numbers]
  BY ONLY <1>0, LoadResult
<1>2. \A a \in accounts : /\ Proper(blocks'[a]) /\ blocks'[a] # None
                          /\ blocks'[a].name = a /\ names'[a] = a
  BY ONLY <1>0, LoadResult
<1>3. \A a \in accounts, c \in Chars : Lists(blocks'[a], c) =>
        stored[c] = a /\ Registered(m, c) /\ accountNum'[c] = a
  BY ONLY <1>0, LoadResult
<1>4. \A a \in Numbers \ accounts :
        blocks'[a] = IF a = InvalidId /\ accounts # {} THEN EmptyBlock(Blank)
                     ELSE before.blocks[a]
  BY ONLY <1>0, LoadResult
<1>5. \A n \in Names \ accounts :
        names'[n] = IF n = Blank /\ accounts # {} THEN InvalidId ELSE before.names[n]
  BY ONLY <1>0, LoadResult
<1>6. \A c \in Chars : accountNum'[c] \in {before.accountNum[c], stored[c]}
  BY ONLY <1>0, LoadResult
<1>7. Blank \in Names \ accounts
  BY AccountsAssumption DEF Names
<1>8. ASSUME NEW a \in Numbers \ accounts, blocks'[a] # None
      PROVE  /\ a = InvalidId /\ Proper(blocks'[a])
             /\ \A c \in Chars : ~Lists(blocks'[a], c)
             /\ names'[blocks'[a].name] = a
  <2>1. CASE a = InvalidId /\ accounts # {}
    BY <1>4, <1>5, <1>7, <2>1, EmptyProper
  <2>2. CASE ~(a = InvalidId /\ accounts # {})
    <3>1. /\ blocks'[a] = before.blocks[a] /\ a = InvalidId /\ accounts = {}
          /\ Proper(blocks'[a]) /\ before.names[blocks'[a].name] = a
          /\ \A c \in Chars : ~Lists(blocks'[a], c)
      BY <1>4, <1>8, <2>2 DEF Spare
    <3>2. blocks'[a].name \in Names
      BY <3>1 DEF Proper, Blocks
    <3> QED BY <1>5, <3>1, <3>2
  <2> QED BY <2>1, <2>2
<1>9. \A a \in Numbers : blocks'[a] # None => Proper(blocks'[a])
  BY <1>2, <1>8
<1>10. \A a \in Numbers, c \in Chars : blocks'[a] # None /\ Lists(blocks'[a], c) =>
         a \in accounts
  BY <1>8
<1>11. ListedAreItsOwn'
  BY <1>3, <1>10 DEF ListedAreItsOwn, Exists
<1>12. NamesFindBlocks'
  BY <1>2, <1>8 DEF NamesFindBlocks, Exists
<1>13. Known'
  BY <1>2, <1>8 DEF Known, Exists, Numbers
<1>14. \A a \in Numbers, c \in Chars : blocks'[a] # None /\ Lists(blocks'[a], c) =>
         stored[c] = a /\ Registered(m, c)
  BY <1>3, <1>10
<1> QED BY <1>1, <1>6, <1>9, <1>11, <1>12, <1>13, <1>14

-----------------------------------------------------------------------------
LEMMA AccountsInvInit == Init => AccountsInv
PROOF
<1> SUFFICES ASSUME Init PROVE AccountsInv
  OBVIOUS
<1>1. /\ up = FALSE /\ accounts = Ids
      /\ \A a \in Numbers : ~Exists(a)
      /\ \A c \in Chars : mem[c] = "unborn"
  BY DEF Init, Exists
<1>2. TypeOK
  BY <1>1 DEF Init, TypeOK, Numbers
<1> QED BY <1>1, <1>2 DEF AccountsInv, ListedAreItsOwn, NamesFindBlocks, LiveAreStored,
                          Known, ListedWereBorn

(* The maps as they are, of a server that runs, have no more to spare.     *)
LEMMA CurrentSpare ==
  ASSUME AccountsInv, up
  PROVE  /\ accounts \subseteq Ids
         /\ Current.names \in [Names -> Numbers \cup {None}]
         /\ Current.accountNum \in [Chars -> Numbers] /\ Current.accountNum = accountNum
         /\ Spare(Current)
PROOF
<1>1. Current.names = names /\ Current.accountNum = accountNum /\ Current.blocks = blocks
  BY DEF Current
<1>2. \A a \in Numbers : blocks[a] # None => Proper(blocks[a])
  BY DEF AccountsInv, TypeOK, Proper, Exists
<1>3. Spare(Current)
  BY <1>1, <1>2 DEF Spare, AccountsInv, Known, NamesFindBlocks, Exists
<1> QED BY <1>1, <1>3 DEF AccountsInv, TypeOK

LEMMA LoadsKeepInv ==
  ASSUME AccountsInv, Reload \/ SaveNewWorld
  PROVE  AccountsInv'
PROOF
<1>1. /\ up /\ UNCHANGED <<up, accounts>> /\ Load(rows', mem, Current)
      /\ rows' \in [Chars -> Numbers \cup {None}]
      /\ \A c \in Chars : mem'[c] \in {mem[c], "freed"}
      /\ mem' \in [Chars -> {"unborn", "live", "deleted", "freed"}]
      /\ \A c \in Chars : mem[c] = "live" => rows'[c] = accountNum[c]
  <2>1. CASE Reload
    BY <2>1 DEF Reload, AccountsInv, TypeOK, LiveAreStored
  <2>2. CASE SaveNewWorld
    BY <2>2 DEF SaveNewWorld, WorldRows, Freed, AccountsInv, TypeOK
  <2> QED BY <2>1, <2>2
<1>2. /\ accounts \subseteq Ids /\ Spare(Current)
      /\ Current.names \in [Names -> Numbers \cup {None}]
      /\ Current.accountNum \in [Chars -> Numbers] /\ Current.accountNum = accountNum
  BY <1>1, CurrentSpare
<1>3. /\ DOMAIN blocks' = Numbers
      /\ names' \in [Names -> Numbers \cup {None}] /\ accountNum' \in [Chars -> Numbers]
      /\ \A a \in Numbers : blocks'[a] # None => Proper(blocks'[a])
  BY <1>1, <1>2, LoadKeeps
<1>4. ListedAreItsOwn' /\ NamesFindBlocks' /\ Known'
  BY <1>1, <1>2, LoadKeeps
<1>5. \A a \in Numbers, c \in Chars : blocks'[a] # None /\ Lists(blocks'[a], c) =>
        Registered(mem, c)
  BY <1>1, <1>2, LoadKeeps
<1>6. \A c \in Chars : accountNum'[c] \in {accountNum[c], rows'[c]}
  BY <1>1, <1>2, LoadKeeps
<1>7. TypeOK'
  BY <1>1, <1>2, <1>3 DEF TypeOK, Proper, Exists, AccountsInv
<1>8. LiveAreStored'
  BY <1>1, <1>6 DEF LiveAreStored
<1>9. ListedWereBorn'
  BY <1>1, <1>5 DEF ListedWereBorn, Registered, Exists
<1> QED BY <1>4, <1>7, <1>8, <1>9 DEF AccountsInv

LEMMA StartKeepsInv ==
  ASSUME AccountsInv, Start
  PROVE  AccountsInv'
PROOF
<1> DEFINE before == [blocks |-> [a \in Numbers |-> None],
                      names |-> [n \in Names |-> None],
                      accountNum |-> [c \in Chars |->
                         IF rows[c] # None THEN rows[c] ELSE InvalidId]]
           m == [c \in Chars |-> IF rows[c] # None THEN "live"
                                 ELSE IF mem[c] = "unborn" THEN "unborn" ELSE "freed"]
<1>1. /\ up' = TRUE /\ mem' = m /\ UNCHANGED <<accounts, rows>>
      /\ Load(rows, m, before)
  BY DEF Start
<1>2. /\ rows \in [Chars -> Numbers \cup {None}] /\ accounts \subseteq Ids
      /\ before.names \in [Names -> Numbers \cup {None}]
      /\ before.accountNum \in [Chars -> Numbers] /\ Spare(before)
  BY DEF AccountsInv, TypeOK, Spare, Numbers
<1>3. \A c \in Chars : rows[c] # None => before.accountNum[c] = rows[c]
  OBVIOUS
<1>30. m \in [Chars -> {"unborn", "live", "deleted", "freed"}]
       /\ \A c \in Chars : m[c] = "live" => rows[c] # None
  OBVIOUS
<1> HIDE DEF before, m
<1>4. /\ DOMAIN blocks' = Numbers
      /\ names' \in [Names -> Numbers \cup {None}] /\ accountNum' \in [Chars -> Numbers]
      /\ \A a \in Numbers : blocks'[a] # None => Proper(blocks'[a])
  BY <1>1, <1>2, LoadKeeps
<1>5. ListedAreItsOwn' /\ NamesFindBlocks' /\ Known'
  BY <1>1, <1>2, LoadKeeps
<1>6. \A a \in Numbers, c \in Chars : blocks'[a] # None /\ Lists(blocks'[a], c) =>
        Registered(m, c)
  BY <1>1, <1>2, LoadKeeps
<1>7. \A c \in Chars : accountNum'[c] \in {before.accountNum[c], rows[c]}
  BY <1>1, <1>2, LoadKeeps
<1>8. TypeOK'
  BY <1>1, <1>2, <1>30, <1>4 DEF TypeOK, Proper, Exists
<1>9. LiveAreStored'
  BY <1>1, <1>3, <1>30, <1>7 DEF LiveAreStored
<1>10. ListedWereBorn'
  BY <1>1, <1>6 DEF ListedWereBorn, Registered, Exists
<1> QED BY <1>5, <1>8, <1>9, <1>10 DEF AccountsInv

LEMMA AddKeepsInv ==
  ASSUME AccountsInv, NEW n \in NewNames, AddAccount(n)
  PROVE  AccountsInv'
PROOF
<1>1. /\ names[n] = None /\ up
      /\ blocks' = [blocks EXCEPT ![InvalidId] = EmptyBlock(n)]
      /\ names' = [names EXCEPT ![n] = InvalidId]
      /\ UNCHANGED <<up, accounts, rows, mem, accountNum>>
  BY DEF AddAccount
<1>2. n \in Names /\ InvalidId \in Numbers \ accounts
  BY AccountsAssumption DEF Names, Numbers, AccountsInv, TypeOK
<1>3. /\ Proper(EmptyBlock(n)) /\ EmptyBlock(n) # None /\ EmptyBlock(n).name = n
      /\ \A c \in Chars : ~Lists(EmptyBlock(n), c)
  BY <1>2, EmptyProper
<1>4. /\ DOMAIN blocks' = Numbers
      /\ \A a \in Numbers : blocks'[a] = IF a = InvalidId THEN EmptyBlock(n) ELSE blocks[a]
  BY <1>1, <1>2 DEF AccountsInv, TypeOK
<1>5. /\ names' \in [Names -> Numbers \cup {None}]
      /\ \A k \in Names : names'[k] = IF k = n THEN InvalidId ELSE names[k]
  BY <1>1, <1>2 DEF AccountsInv, TypeOK
<1>6. TypeOK'
  BY <1>1, <1>3, <1>4, <1>5 DEF TypeOK, Proper, Exists, AccountsInv
<1>7. ListedAreItsOwn' /\ ListedWereBorn'
  BY <1>1, <1>3, <1>4 DEF ListedAreItsOwn, ListedWereBorn, Exists, AccountsInv
<1>8. NamesFindBlocks'
  <2> SUFFICES ASSUME NEW a \in Numbers, blocks'[a] # None
               PROVE  names'[blocks'[a].name] = a
    BY DEF NamesFindBlocks, Exists
  <2>1. CASE a = InvalidId
    BY <1>2, <1>3, <1>4, <1>5, <2>1
  <2>2. CASE a # InvalidId
    <3>1. /\ blocks'[a] = blocks[a] /\ blocks[a].name \in Names
          /\ names[blocks[a].name] = a /\ a # None
      BY <1>1, <1>4, <2>2, AccountsAssumption
         DEF AccountsInv, TypeOK, NamesFindBlocks, Exists, Blocks
    <3> QED BY <1>1, <1>5, <3>1
  <2> QED BY <2>1, <2>2
<1>9. LiveAreStored'
  BY <1>1 DEF LiveAreStored, AccountsInv
<1>10. Known'
  BY <1>1, <1>2, <1>3, <1>4 DEF Known, Exists, AccountsInv
<1> QED BY <1>6, <1>7, <1>8, <1>9, <1>10 DEF AccountsInv

(* A new character is all that a block comes to list.                      *)
LEMMA CreateBlocks ==
  ASSUME AccountsInv, NEW a \in Ids, NEW c \in Chars, CreateCharacter(a, c)
  PROVE  /\ DOMAIN blocks' = Numbers
         /\ \A k \in Numbers \ {a} : blocks'[k] = blocks[k]
         /\ Proper(blocks'[a]) /\ blocks'[a].name = blocks[a].name
         /\ \A d \in Chars : Lists(blocks'[a], d) =>
              Lists(blocks[a], d) \/ (d = c /\ Owner(a) = a)
PROOF
<1>0. /\ TypeOK /\ a \in Numbers /\ Exists(a) /\ Proper(blocks[a])
  BY DEF CreateCharacter, AccountsInv, Known, TypeOK, Proper, Numbers
<1>1. CASE Vacant(a) = {}
  BY <1>0, <1>1 DEF CreateCharacter, TypeOK
<1>2. CASE Vacant(a) # {}
  <2> DEFINE seat == CHOOSE i \in Vacant(a) : \A j \in Vacant(a) : i <= j
             b == [blocks[a] EXCEPT !.dwCharacters[seat] = c, !.lpCharacters[seat] = c]
  <2>1. blocks' = [blocks EXCEPT ![a].dwCharacters[seat] = c, ![a].lpCharacters[seat] = c]
    BY <1>2 DEF CreateCharacter
  <2> HIDE DEF seat
  <2>2. /\ DOMAIN blocks' = Numbers /\ blocks'[a] = b
        /\ \A k \in Numbers \ {a} : blocks'[k] = blocks[k]
    BY <1>0, <2>1 DEF TypeOK
  <2>3. /\ blocks[a] \in Blocks
        /\ blocks[a].dwCharacters \in [Slots -> Chars \cup {None}]
        /\ blocks[a].lpCharacters \in [Slots -> Chars \cup {None}]
        /\ \A i \in Slots : blocks[a].lpCharacters[i] \in {None, blocks[a].dwCharacters[i]}
    BY <1>0 DEF Proper, Blocks
  <2>4. /\ b.name = blocks[a].name
        /\ b.dwCharacters = [blocks[a].dwCharacters EXCEPT ![seat] = c]
        /\ b.lpCharacters = [blocks[a].lpCharacters EXCEPT ![seat] = c]
        /\ b \in Blocks
    BY <2>3 DEF Blocks
  <2> HIDE DEF b
  <2>5. Proper(b) /\ \A d \in Chars : Lists(b, d) => Lists(blocks[a], d) \/ d = c
    BY <2>3, <2>4 DEF Proper, Lists
  <2> QED BY <1>2, <2>2, <2>4, <2>5 DEF Owner
<1> QED BY <1>1, <1>2

LEMMA CreateKeepsInv ==
  ASSUME AccountsInv, NEW a \in Ids, NEW c \in Chars, CreateCharacter(a, c)
  PROVE  AccountsInv'
PROOF
<1>1. /\ up /\ a \in accounts /\ mem[c] = "unborn" /\ mem' = [mem EXCEPT ![c] = "live"]
      /\ accountNum' = [accountNum EXCEPT ![c] = Owner(a)]
      /\ rows' = [rows EXCEPT ![c] = Owner(a)]
      /\ UNCHANGED <<up, accounts, names>>
  BY DEF CreateCharacter, RowsWith
<1>2. /\ TypeOK /\ a \in Numbers /\ Exists(a) /\ Proper(blocks[a])
      /\ Owner(a) \in Numbers
      /\ \A k \in Numbers : Exists(k) => Proper(blocks[k])
  BY <1>1 DEF AccountsInv, Known, TypeOK, Proper, Owner, Numbers
<1>3. \A d \in Chars : /\ mem'[d] = IF d = c THEN "live" ELSE mem[d]
                       /\ accountNum'[d] = IF d = c THEN Owner(a) ELSE accountNum[d]
                       /\ rows'[d] = IF d = c THEN Owner(a) ELSE rows[d]
  BY <1>1, <1>2 DEF TypeOK
<1>4. /\ DOMAIN blocks' = Numbers
      /\ \A k \in Numbers \ {a} : blocks'[k] = blocks[k]
      /\ Proper(blocks'[a]) /\ blocks'[a].name = blocks[a].name
      /\ \A d \in Chars : Lists(blocks'[a], d) =>
           Lists(blocks[a], d) \/ (d = c /\ Owner(a) = a)
  BY CreateBlocks
<1>5. \A k \in Numbers : blocks'[k] # None => Exists(k) /\ Proper(blocks'[k])
  BY <1>2, <1>4 DEF Exists
<1>6. blocks'[a] # None
  BY <1>4, NoneAssumption DEF Proper
<1>7. TypeOK'
  <2>1. /\ rows' \in [Chars -> Numbers \cup {None}] /\ accountNum' \in [Chars -> Numbers]
        /\ mem' \in [Chars -> {"unborn", "live", "deleted", "freed"}]
    BY <1>1, <1>2 DEF TypeOK
  <2> QED BY <1>1, <1>2, <1>4, <1>5, <2>1 DEF TypeOK, Proper, Exists
<1>8. \A k \in Numbers : Exists(k) => ~Lists(blocks[k], c)
  BY <1>1 DEF AccountsInv, ListedWereBorn
<1>9. ListedAreItsOwn' /\ ListedWereBorn'
  <2> SUFFICES ASSUME NEW k \in Numbers, NEW d \in Chars, blocks'[k] # None,
                      Lists(blocks'[k], d)
               PROVE  accountNum'[d] = k /\ mem'[d] # "unborn"
    BY DEF ListedAreItsOwn, ListedWereBorn, Exists
  <2>1. CASE k = a /\ d = c
    BY <1>3, <1>4, <1>2, <1>8, <2>1
  <2>2. CASE ~(k = a /\ d = c)
    <3>1. Exists(k) /\ Lists(blocks[k], d)
      BY <1>4, <1>5, <2>2
    <3>2. d # c
      BY <1>8, <3>1
    <3> QED BY <1>3, <3>1, <3>2 DEF AccountsInv, ListedAreItsOwn, ListedWereBorn
  <2> QED BY <2>1, <2>2
<1>10. NamesFindBlocks'
  BY <1>1, <1>4, <1>5 DEF NamesFindBlocks, AccountsInv, Exists
<1>11. LiveAreStored'
  BY <1>1, <1>3 DEF LiveAreStored, AccountsInv
<1>12. Known'
  BY <1>1, <1>2, <1>4, <1>5, <1>6 DEF Known, AccountsInv, Exists, TypeOK, Numbers
<1> QED BY <1>7, <1>9, <1>10, <1>11, <1>12 DEF AccountsInv

(* A character is deleted, and no block lists anybody new.                 *)
Deletes(c) ==
  /\ up /\ mem[c] = "live" /\ mem' = [mem EXCEPT ![c] = "deleted"]
  /\ rows' = rows \/ rows' = [rows EXCEPT ![c] = None]
  /\ UNCHANGED <<up, accounts, names, accountNum>>
  /\ DOMAIN blocks' = Numbers
  /\ \A a \in Numbers :
       IF Exists(a)
       THEN /\ Proper(blocks'[a]) /\ blocks'[a].name = blocks[a].name
            /\ \A d \in Chars : Lists(blocks'[a], d) => Lists(blocks[a], d)
       ELSE blocks'[a] = blocks[a]

LEMMA DeletionKeepsInv ==
  ASSUME AccountsInv, NEW c \in Chars, Deletes(c)
  PROVE  AccountsInv'
PROOF
<1> USE DEF Deletes
<1>1. \A a \in Numbers : blocks'[a] # None <=> Exists(a)
  BY NoneAssumption DEF Exists, Proper
<1>2. \A d \in Chars : /\ mem'[d] = IF d = c THEN "deleted" ELSE mem[d]
                       /\ d # c => rows'[d] = rows[d]
  BY DEF AccountsInv, TypeOK
<1>3. TypeOK'
  <2>1. /\ rows' \in [Chars -> Numbers \cup {None}]
        /\ mem' \in [Chars -> {"unborn", "live", "deleted", "freed"}]
    BY DEF AccountsInv, TypeOK
  <2> QED BY <1>1, <2>1 DEF AccountsInv, TypeOK, Proper, Exists
<1>4. ListedAreItsOwn' /\ ListedWereBorn'
  BY <1>1, <1>2 DEF AccountsInv, ListedAreItsOwn, ListedWereBorn, Exists
<1>5. NamesFindBlocks'
  BY <1>1 DEF AccountsInv, NamesFindBlocks, Exists
<1>50. Known'
  BY <1>1 DEF AccountsInv, Known, Exists, TypeOK, Numbers
<1>6. LiveAreStored'
  BY <1>2 DEF AccountsInv, LiveAreStored
<1> QED BY <1>3, <1>4, <1>5, <1>50, <1>6 DEF AccountsInv

LEMMA DeleteDeletes ==
  ASSUME AccountsInv, NEW c \in Chars, Delete(c)
  PROVE  Deletes(c)
PROOF
<1> DEFINE a == accountNum[c]
           listed == a # InvalidId /\ Exists(a) /\ Lists(blocks[a], c)
<1>1. /\ up /\ mem[c] = "live" /\ mem' = [mem EXCEPT ![c] = "deleted"]
      /\ rows' = rows \/ rows' = [rows EXCEPT ![c] = None]
      /\ UNCHANGED <<up, accounts, names, accountNum>>
      /\ IF listed THEN blocks' = [blocks EXCEPT ![a] = AfterCleanup(@, c)]
         ELSE blocks' = blocks
  BY DEF Delete
<1>2. /\ DOMAIN blocks = Numbers /\ a \in Numbers
      /\ \A k \in Numbers : Exists(k) => Proper(blocks[k])
  BY DEF AccountsInv, TypeOK, Proper
<1>3. /\ DOMAIN blocks' = Numbers
      /\ \A k \in Numbers :
           blocks'[k] = IF listed /\ k = a THEN AfterCleanup(blocks[a], c) ELSE blocks[k]
  BY <1>1, <1>2
<1>4. \A k \in Numbers :
        IF Exists(k)
        THEN /\ Proper(blocks'[k]) /\ blocks'[k].name = blocks[k].name
             /\ \A d \in Chars : Lists(blocks'[k], d) => Lists(blocks[k], d)
        ELSE blocks'[k] = blocks[k]
  BY <1>2, <1>3, CleanupProper
<1> QED BY <1>1, <1>3, <1>4 DEF Deletes

LEMMA DeleteCharacterDeletes ==
  ASSUME AccountsInv, NEW a \in Ids, NEW slot \in Slots, DeleteCharacter(a, slot)
  PROVE  \E c \in Chars : Deletes(c)
PROOF
<1> DEFINE c == blocks[a].lpCharacters[slot]
           once == Without(blocks[a], slot)
<1>1. /\ up /\ a \in accounts /\ c # None /\ mem[c] = "live"
      /\ mem' = [mem EXCEPT ![c] = "deleted"]
      /\ rows' = rows \/ rows' = [rows EXCEPT ![c] = None]
      /\ UNCHANGED <<up, accounts, names, accountNum>>
      /\ blocks' = [blocks EXCEPT ![a] = AfterCleanup(once, c)]
  BY DEF DeleteCharacter
<1>2. /\ DOMAIN blocks = Numbers /\ a \in Numbers /\ Exists(a)
      /\ \A k \in Numbers : Exists(k) => Proper(blocks[k])
  BY <1>1 DEF AccountsInv, TypeOK, Proper, Known, Numbers
<1>3. c \in Chars
  BY <1>1, <1>2 DEF Proper, Blocks
<1>4. /\ Proper(once) /\ once.name = blocks[a].name
      /\ \A d \in Chars : Lists(once, d) => Lists(blocks[a], d)
  BY <1>2, WithoutProper
<1> HIDE DEF c, once
<1>5. /\ Proper(AfterCleanup(once, c)) /\ AfterCleanup(once, c).name = once.name
      /\ \A d \in Chars : Lists(AfterCleanup(once, c), d) => Lists(once, d)
  BY <1>3, <1>4, CleanupProper
<1>6. /\ DOMAIN blocks' = Numbers
      /\ \A k \in Numbers :
           blocks'[k] = IF k = a THEN AfterCleanup(once, c) ELSE blocks[k]
  BY <1>1, <1>2
<1>7. \A k \in Numbers :
        IF Exists(k)
        THEN /\ Proper(blocks'[k]) /\ blocks'[k].name = blocks[k].name
             /\ \A d \in Chars : Lists(blocks'[k], d) => Lists(blocks[k], d)
        ELSE blocks'[k] = blocks[k]
  BY <1>2, <1>4, <1>5, <1>6
<1> QED BY <1>1, <1>3, <1>6, <1>7 DEF Deletes

LEMMA DownKeepsInv ==
  ASSUME AccountsInv, Crash \/ CollectCommand \/ \E a \in Ids : DelAccount(a)
  PROVE  AccountsInv'
PROOF
<1>1. CASE Crash
  BY <1>1 DEF Crash, AccountsInv, TypeOK, ListedAreItsOwn, NamesFindBlocks, LiveAreStored,
              Known, ListedWereBorn, Exists
<1>2. CASE CollectCommand
  <2>1. /\ mem' = Freed(mem) /\ UNCHANGED <<up, accounts, rows, blocks, names, accountNum>>
    BY <1>2 DEF CollectCommand
  <2>2. /\ mem' \in [Chars -> {"unborn", "live", "deleted", "freed"}]
        /\ \A c \in Chars : mem'[c] \in {mem[c], "freed"}
    BY <2>1 DEF Freed, AccountsInv, TypeOK
  <2> QED BY <2>1, <2>2 DEF AccountsInv, TypeOK, ListedAreItsOwn, NamesFindBlocks,
                            LiveAreStored, Known, ListedWereBorn, Exists
<1>3. ASSUME NEW a \in Ids, DelAccount(a) PROVE AccountsInv'
  <2>1. /\ accounts' = accounts \ {a} /\ up' = FALSE
        /\ rows' = [c \in Chars |-> IF rows[c] = a THEN None ELSE rows[c]]
        /\ UNCHANGED <<blocks, names, mem, accountNum>>
    BY <1>3 DEF DelAccount
  <2>2. accounts' \subseteq Ids /\ rows' \in [Chars -> Numbers \cup {None}]
    BY <2>1 DEF AccountsInv, TypeOK
  <2> QED BY <2>1, <2>2 DEF AccountsInv, TypeOK, ListedAreItsOwn, NamesFindBlocks,
                            LiveAreStored, Known, ListedWereBorn, Exists
<1> QED BY <1>1, <1>2, <1>3

LEMMA AccountsInvNext == AccountsInv /\ [Next]_vars => AccountsInv'
PROOF
<1> SUFFICES ASSUME AccountsInv, [Next]_vars PROVE AccountsInv'
  OBVIOUS
<1>1. CASE UNCHANGED vars
  BY <1>1 DEF vars, AccountsInv, TypeOK, ListedAreItsOwn, NamesFindBlocks, LiveAreStored,
              Known, ListedWereBorn, Exists
<1>2. CASE Next
  BY <1>2, StartKeepsInv, DownKeepsInv, AddKeepsInv, CreateKeepsInv,
     DeleteCharacterDeletes, DeleteDeletes, DeletionKeepsInv, LoadsKeepInv DEF Next
<1> QED BY <1>1, <1>2

LEMMA SpecAccountsInv == Spec => []AccountsInv
PROOF BY AccountsInvInit, AccountsInvNext, PTL DEF Spec

(* Every variable keeps its type, and a block points to nobody but the     *)
(* character whose serial is in the slot.                                  *)
THEOREM SpecAccountsTypeOK == Spec => []TypeOK
PROOF BY SpecAccountsInv, PTL DEF AccountsInv

(* For any accounts, characters and slots: whoever a block lists says that *)
(* it is of that account.                                                  *)
THEOREM SpecListedAreItsOwn == Spec => []ListedAreItsOwn
PROOF BY SpecAccountsInv, PTL DEF AccountsInv

(* For any accounts and names: a block is found by its own name, so the    *)
(* save, which does not look whether it found one, finds it.               *)
THEOREM SpecNamesFindBlocks == Spec => []NamesFindBlocks
PROOF BY SpecAccountsInv, PTL DEF AccountsInv

(* For any accounts and characters: whoever is alive is stored with its    *)
(* account, whenever the server stops.                                     *)
THEOREM SpecLiveAreStored == Spec => []LiveAreStored
PROOF BY SpecAccountsInv, PTL DEF AccountsInv

-----------------------------------------------------------------------------
(* A load lists nobody without memory, if no other row is alive.           *)
LEMMA LoadsAreSound ==
  ASSUME AccountsInv, Reload \/ SaveNewWorld, SlotsSound
  PROVE  SlotsSound'
PROOF
<1>1. /\ up /\ UNCHANGED accounts /\ Load(rows', mem, Current)
      /\ rows' \in [Chars -> Numbers \cup {None}]
      /\ \/ mem' = mem
         \/ mem' = Freed(mem) /\ rows' = WorldRows
  BY DEF Reload, SaveNewWorld, WorldRows, AccountsInv, TypeOK
<1>2. /\ accounts \subseteq Ids /\ Spare(Current)
      /\ Current.names \in [Names -> Numbers \cup {None}]
      /\ Current.accountNum \in [Chars -> Numbers]
  BY <1>1, CurrentSpare
<1>3. \A a \in Numbers, c \in Chars : blocks'[a] # None /\ Lists(blocks'[a], c) =>
        rows'[c] = a /\ Registered(mem, c)
  BY <1>1, <1>2, LoadKeeps
<1>4. \A c \in Chars : Registered(mem, c) /\ rows'[c] \in Numbers =>
        mem'[c] \in {"live", "deleted"}
  BY <1>1, AccountsAssumption DEF Registered, Freed, WorldRows
<1> QED BY <1>3, <1>4 DEF SlotsSound, Exists

(* LoadFromDB, DelCharacter, for any accounts and characters: a slot comes *)
(* to point to freed memory only when garbage is collected on command.     *)
THEOREM SpecSlotsSoundButForCommands == Spec => SlotsSoundButForCommands
PROOF
<1>1. ASSUME AccountsInv, [Next]_vars, up, SlotsSound, ~CollectCommand
      PROVE  SlotsSound'
  <2>1. CASE UNCHANGED vars \/ Crash \/ \E a \in Ids : DelAccount(a)
    <3>1. UNCHANGED <<blocks, mem>>
      BY <2>1 DEF vars, Crash, DelAccount
    <3> QED BY <1>1, <3>1 DEF SlotsSound, Exists
  <2>2. CASE Reload \/ SaveNewWorld
    BY <1>1, <2>2, LoadsAreSound
  <2>3. CASE Start
    BY <1>1, <2>3 DEF Start
  <2>4. ASSUME NEW n \in NewNames, AddAccount(n) PROVE SlotsSound'
    <3>1. \A c \in Chars : ~Lists(EmptyBlock(n), c)
      BY EmptyProper DEF Names
    <3>2. \A a \in Numbers : blocks'[a] = IF a = InvalidId THEN EmptyBlock(n) ELSE blocks[a]
      BY <1>1, <2>4 DEF AddAccount, AccountsInv, TypeOK
    <3> QED BY <1>1, <2>4, <3>1, <3>2 DEF SlotsSound, Exists, AddAccount
  <2>5. ASSUME NEW c \in Chars, mem' = [mem EXCEPT ![c] = mem'[c]],
               mem'[c] \in {"live", "deleted"},
               \A a \in Numbers, d \in Chars \ {c} :
                 blocks'[a] # None /\ Lists(blocks'[a], d) =>
                   blocks[a] # None /\ Lists(blocks[a], d)
        PROVE  SlotsSound'
    BY <1>1, <2>5 DEF SlotsSound, AccountsInv, TypeOK, Exists
  <2>6. ASSUME NEW a \in Ids, NEW c \in Chars, CreateCharacter(a, c)
        PROVE  SlotsSound'
    <3>1. /\ Exists(a) /\ mem' = [mem EXCEPT ![c] = "live"]
          /\ mem \in [Chars -> {"unborn", "live", "deleted", "freed"}]
      BY <1>1, <2>6 DEF CreateCharacter, AccountsInv, Known, TypeOK
    <3>2. /\ \A k \in Numbers \ {a} : blocks'[k] = blocks[k]
          /\ \A d \in Chars : Lists(blocks'[a], d) => Lists(blocks[a], d) \/ d = c
      BY <1>1, <2>6, CreateBlocks
    <3>3. mem'[c] = "live"
      BY <3>1
    <3> QED BY <2>5, <3>1, <3>2, <3>3 DEF Exists
  <2>7. ASSUME NEW c \in Chars, Deletes(c) PROVE SlotsSound'
    <3>1. mem'[c] = "deleted" /\ mem' = [mem EXCEPT ![c] = "deleted"]
      BY <1>1, <2>7 DEF Deletes, AccountsInv, TypeOK
    <3>2. \A a \in Numbers, d \in Chars : blocks'[a] # None /\ Lists(blocks'[a], d) =>
            blocks[a] # None /\ Lists(blocks[a], d)
      BY <2>7 DEF Deletes, Exists
    <3> QED BY <2>5, <3>1, <3>2
  <2> QED
    BY <1>1, <2>1, <2>2, <2>3, <2>4, <2>6, <2>7, DeleteDeletes, DeleteCharacterDeletes
       DEF Next
<1>2. AccountsInv /\ [Next]_vars =>
        [up /\ SlotsSound /\ ~CollectCommand => SlotsSound']_vars
  BY <1>1
<1>3. Spec => [][up /\ SlotsSound /\ ~CollectCommand => SlotsSound']_vars
  BY <1>2, SpecAccountsInv, PTL DEF Spec
<1> QED BY <1>3 DEF SlotsSoundButForCommands

(* SaveNewWorld, for any accounts and characters: a save leaves no row of  *)
(* what it frees, and what has neither memory nor row never comes back.    *)
THEOREM SpecFreedStayFreed == Spec => FreedStayFreed
PROOF
<1> DEFINE Stays(c) ==
      /\ mem[c] = "deleted" /\ mem'[c] = "freed" /\ ~CollectCommand => rows'[c] = None
      /\ mem[c] = "freed" /\ rows[c] = None => mem'[c] = "freed" /\ rows'[c] = None
<1>1. ASSUME AccountsInv, [Next]_vars, NEW c \in Chars
      PROVE  Stays(c)
  <2>0. /\ rows \in [Chars -> Numbers \cup {None}]
        /\ mem \in [Chars -> {"unborn", "live", "deleted", "freed"}]
    BY <1>1 DEF AccountsInv, TypeOK
  <2>1. CASE UNCHANGED <<mem, rows>>
    BY <2>1
  <2>2. CASE Start
    BY <2>0, <2>2 DEF Start
  <2>3. CASE \E a \in Ids : DelAccount(a)
    BY <2>0, <2>3 DEF DelAccount
  <2>4. ASSUME NEW a \in Ids, NEW d \in Chars, CreateCharacter(a, d) PROVE Stays(c)
    BY <2>0, <2>4 DEF CreateCharacter, RowsWith
  <2>5. ASSUME NEW d \in Chars, Deletes(d) PROVE Stays(c)
    BY <2>0, <2>5 DEF Deletes
  <2>6. CASE SaveNewWorld
    BY <2>0, <2>6 DEF SaveNewWorld, WorldRows, Freed
  <2>7. CASE CollectCommand
    BY <2>0, <2>7 DEF CollectCommand, Freed
  <2>8. CASE UNCHANGED vars \/ Crash \/ Reload \/ \E n \in NewNames : AddAccount(n)
    BY <2>1, <2>8 DEF vars, Crash, Reload, AddAccount
  <2> QED
    BY <1>1, <2>2, <2>3, <2>4, <2>5, <2>6, <2>7, <2>8, DeleteDeletes,
       DeleteCharacterDeletes DEF Next
<1>2. AccountsInv /\ [Next]_vars => [\A c \in Chars : Stays(c)]_vars
  BY <1>1
<1>3. Spec => [][\A c \in Chars : Stays(c)]_vars
  BY <1>2, SpecAccountsInv, PTL DEF Spec
<1> QED BY <1>3 DEF FreedStayFreed

(* LoadFromDB seats every row of an account that has as many slots.         *)
LEMMA AllSeated ==
  ASSUME NEW order \in Orders, NEW S, S = {order[k] : k \in DOMAIN order},
         Cardinality(S) <= SlotCount, NEW c \in S
  PROVE  \E i \in Slots : Seated(order)[i] = c
PROOF
<1>1. Cardinality(Chars) \in Nat
  BY AccountsAssumption, FS_CardinalityType
<1>2. PICK n \in 0 .. Cardinality(Chars) :
        order \in [1 .. n -> Chars] /\ \A i, j \in 1 .. n : order[i] = order[j] => i = j
  BY DEF Orders
<1>3. n \in Nat
  BY <1>1
<1>4. order \in Bijection(1 .. n, S)
  BY <1>2 DEF Bijection, Injection, Surjection, IsInjective
<1>5. Cardinality(S) = n
  BY <1>3, <1>4, FS_CountingElements DEF ExistsBijection
<1>6. PICK k \in 1 .. n : order[k] = c
  BY <1>2
<1>7. k - 1 \in Slots /\ (k - 1) + 1 = k
  BY <1>3, <1>5, <1>6, AccountsAssumption DEF Slots
<1>8. Seated(order)[k - 1] = c
  BY <1>2, <1>6, <1>7 DEF Seated
<1> QED BY <1>7, <1>8

(* What a load lists: every character in memory whose row is of an account  *)
(* that has slots for all its rows.                                         *)
LEMMA LoadLists ==
  ASSUME accounts \subseteq Ids, NEW stored, NEW m, NEW before, Load(stored, m, before),
         NEW a \in accounts, NEW c \in Chars, stored[c] = a, Registered(m, c),
         Cardinality(RowsOf(a, stored)) <= SlotCount
  PROVE  Lists(blocks'[a], c)
PROOF
<1>1. PICK order \in [accounts -> Orders] :
        /\ \A k \in accounts :
             {order[k][i] : i \in DOMAIN order[k]} = RowsOf(k, stored)
        /\ blocks' = [k \in Numbers |->
             IF k \in accounts THEN [b \in accounts |-> LoadedBlock(b, order[b], m)][k]
             ELSE IF k = InvalidId /\ accounts # {} THEN EmptyBlock(Blank)
             ELSE before.blocks[k]]
  BY DEF Load
<1>2. blocks'[a] = LoadedBlock(a, order[a], m)
  BY <1>1 DEF Numbers
<1>3. c \in RowsOf(a, stored)
  BY DEF RowsOf
<1>4. PICK i \in Slots : Seated(order[a])[i] = c
  BY <1>1, <1>3, AllSeated
<1>5. LoadedBlock(a, order[a], m).lpCharacters[i] = c
  <2> DEFINE pointers == [j \in Slots |->
               IF Seated(order[a])[j] # None /\ Registered(m, Seated(order[a])[j])
               THEN Seated(order[a])[j] ELSE None]
  <2>1. LoadedBlock(a, order[a], m).lpCharacters = pointers
    BY DEF LoadedBlock, EmptyBlock
  <2>2. pointers[i] = c
    BY <1>4, AccountsAssumption
  <2> QED BY <2>1, <2>2
<1> QED BY <1>2, <1>5 DEF Lists

LEMMA RowsCounted ==
  ASSUME NEW a, NEW stored
  PROVE  Cardinality(RowsOf(a, stored)) \in Nat
PROOF
<1>1. IsFiniteSet(RowsOf(a, stored))
  BY AccountsAssumption, FS_Subset DEF RowsOf
<1> QED BY <1>1, FS_CardinalityType

(* LoadFromDB, for any accounts, characters and slots: a load repairs what  *)
(* deletions cut off, since it lists all the living characters of every     *)
(* account that has slots for them.                                         *)
THEOREM SpecLoadsRelist == Spec => LoadsRelist
PROOF
<1> DEFINE Loads == Start \/ Reload \/ SaveNewWorld
<1>1. ASSUME AccountsInv, AccountsInv', Loads, NEW c \in Chars, mem'[c] = "live"
      PROVE  Relisted(c)'
  <2>1. /\ up' /\ UNCHANGED accounts /\ accounts \subseteq Ids
        /\ \E m, before : Load(rows', m, before) /\ Registered(m, c)
    <3>1. CASE Start
      <4> DEFINE m == [d \in Chars |-> IF rows[d] # None THEN "live"
                                       ELSE IF mem[d] = "unborn" THEN "unborn" ELSE "freed"]
      <4>1. mem' = m /\ rows' = rows /\ up' /\ accounts' = accounts
            /\ \E before : Load(rows, m, before)
        BY <3>1 DEF Start
      <4>2. Registered(m, c)
        BY <1>1, <4>1 DEF Registered
      <4> QED BY <1>1, <4>1, <4>2 DEF AccountsInv, TypeOK
    <3>2. CASE Reload
      BY <1>1, <3>2 DEF Reload, Registered, AccountsInv, TypeOK
    <3>3. CASE SaveNewWorld
      <4>1. mem[c] = "live"
        BY <1>1, <3>3 DEF SaveNewWorld, Freed
      <4> QED BY <1>1, <3>3, <4>1 DEF SaveNewWorld, Registered, AccountsInv, TypeOK
    <3> QED BY <1>1, <3>1, <3>2, <3>3
  <2>2. rows'[c] = accountNum'[c]
    BY <1>1, <2>1 DEF AccountsInv, LiveAreStored
  <2> SUFFICES ASSUME accountNum'[c] \in accounts,
                      Cardinality(RowsOf(accountNum'[c], rows')) <= SlotCount
               PROVE  Lists(blocks'[accountNum'[c]], c)
    BY <2>1 DEF Relisted, Lists, RowsOf
  <2> QED BY <2>1, <2>2, LoadLists
<1>2. AccountsInv /\ AccountsInv' /\ [Next]_vars =>
        [Loads => \A c \in Chars : mem'[c] = "live" => Relisted(c)']_vars
  BY <1>1
<1>3. Spec => [][Loads => \A c \in Chars : mem'[c] = "live" => Relisted(c)']_vars
  BY <1>2, SpecAccountsInv, PTL DEF Spec
<1> QED BY <1>3 DEF LoadsRelist

(* There is a first free slot when there is a free one.                     *)
LEMMA LeastVacant ==
  ASSUME NEW a, Vacant(a) # {}
  PROVE  \E i \in Vacant(a) : \A j \in Vacant(a) : i <= j
PROOF
<1>1. Vacant(a) \in SUBSET Nat
  BY AccountsAssumption DEF Vacant, Slots
<1>2. PICK i \in Vacant(a) : \A j \in Vacant(a) : ~(<<j, i>> \in OpToRel(<, Nat))
  BY <1>1, NatLessThanWellFounded, WFMin, Zenon
<1>3. ASSUME NEW j \in Vacant(a) PROVE i <= j
  <2>1. <<j, i>> \in Nat \X Nat /\ <<j, i>>[1] = j /\ <<j, i>>[2] = i
    BY <1>1
  <2>2. OpToRel(<, Nat) = {ss \in Nat \X Nat : ss[1] < ss[2]}
    BY Zenon DEF OpToRel
  <2>3. ~(<<j, i>> \in OpToRel(<, Nat))
    BY <1>2, Zenon
  <2>4. ~(j < i)
    BY <2>1, <2>2, <2>3
  <2>5. i \in Nat /\ j \in Nat
    BY <1>1
  <2> QED BY <2>4, <2>5
<1> QED BY <1>3

(* A new character takes a slot that was free.                              *)
LEMMA CreateKeepsListed ==
  ASSUME AccountsInv, NEW a \in Ids, NEW c \in Chars, CreateCharacter(a, c),
         NEW k \in Numbers, NEW d \in Chars, Lists(blocks[k], d)
  PROVE  Lists(blocks'[k], d)
PROOF
<1>0. /\ TypeOK /\ a \in Numbers /\ Exists(a) /\ Proper(blocks[a])
  BY DEF CreateCharacter, AccountsInv, Known, TypeOK, Proper, Numbers
<1>1. CASE Vacant(a) = {}
  BY <1>1 DEF CreateCharacter
<1>2. CASE Vacant(a) # {} /\ k # a
  BY <1>2, CreateBlocks
<1>3. CASE Vacant(a) # {} /\ k = a
  <2> DEFINE seat == CHOOSE i \in Vacant(a) : \A j \in Vacant(a) : i <= j
             serials  == [blocks EXCEPT ![a].dwCharacters[seat] = c]
  <2>1. blocks' = [blocks EXCEPT ![a].dwCharacters[seat] = c, ![a].lpCharacters[seat] = c]
    BY <1>3 DEF CreateCharacter
  <2>2. seat \notin Slots \/ blocks[a].dwCharacters[seat] = None
    <3>1. seat \in Vacant(a) \/ seat \notin Slots
      <4>1. \E i \in Vacant(a) : \A j \in Vacant(a) : i <= j
        BY <1>3, LeastVacant
      <4> QED BY <4>1
    <3> QED BY <3>1 DEF Vacant
  <2> HIDE DEF seat
  <2>3. /\ blocks[a].dwCharacters \in [Slots -> Chars \cup {None}]
        /\ blocks[a].lpCharacters \in [Slots -> Chars \cup {None}]
        /\ \A i \in Slots : blocks[a].lpCharacters[i] \in {None, blocks[a].dwCharacters[i]}
    BY <1>0 DEF Proper, Blocks
  <2>4. blocks'[a].lpCharacters = [blocks[a].lpCharacters EXCEPT ![seat] = c]
    <3> DEFINE b == [blocks[a] EXCEPT !.dwCharacters[seat] = c, !.lpCharacters[seat] = c]
    <3>1. blocks'[a] = b
      BY <1>0, <2>1 DEF TypeOK
    <3>2. blocks[a] \in Blocks
      BY <1>0 DEF Proper
    <3>3. b.lpCharacters = [blocks[a].lpCharacters EXCEPT ![seat] = c]
      BY <3>2 DEF Blocks
    <3> QED BY <3>1, <3>3
  <2>5. PICK i \in Slots : blocks[a].lpCharacters[i] = d
    BY <1>3 DEF Lists
  <2>6. i # seat
    BY <2>2, <2>3, <2>5, AccountsAssumption
  <2> QED BY <1>3, <2>3, <2>4, <2>5, <2>6 DEF Lists
<1> QED BY <1>1, <1>2, <1>3

(* DelCharacter, LoadFromDB, for any accounts, characters and slots: a      *)
(* living character loses its slot only when another one of its account is  *)
(* deleted, or when a load finds more rows than slots.                      *)
THEOREM SpecUnlistedByDeletion == Spec => UnlistedByDeletion
PROOF
<1> DEFINE Loses(c) ==
             /\ up /\ up' /\ mem[c] = "live" /\ mem'[c] = "live"
             /\ Exists(accountNum[c]) /\ Lists(blocks[accountNum[c]], c)
             /\ ~Lists(blocks'[accountNum[c]], c)
           Excused(c) ==
             \/ \E d \in Chars \ {c} :
                  accountNum[d] = accountNum[c] /\ mem[d] = "live" /\ mem'[d] = "deleted"
             \/ Cardinality(RowsOf(accountNum[c], rows')) > SlotCount
<1>1. ASSUME AccountsInv, AccountsInv', [Next]_vars, NEW c \in Chars, Loses(c)
      PROVE  Excused(c)
  <2>1. accountNum[c] \in Numbers /\ blocks' # blocks
    BY <1>1 DEF AccountsInv, TypeOK
  <2>2. CASE Reload \/ SaveNewWorld
    <3>1. /\ accounts \subseteq Ids /\ Load(rows', mem, Current)
          /\ rows'[c] = accountNum[c] /\ Registered(mem, c)
      BY <1>1, <2>2 DEF Reload, SaveNewWorld, WorldRows, Registered, AccountsInv, TypeOK,
                        LiveAreStored
    <3>2. accountNum[c] \in accounts
      BY <1>1, <2>1 DEF AccountsInv, Known
    <3>3. ~(Cardinality(RowsOf(accountNum[c], rows')) <= SlotCount)
      BY <1>1, <3>1, <3>2, LoadLists
    <3> QED BY <3>3, RowsCounted, AccountsAssumption
  <2>3. ASSUME NEW n \in NewNames, AddAccount(n) PROVE Excused(c)
    <3>1. accountNum[c] # InvalidId
      BY <1>1, <2>1, AccountsAssumption DEF AccountsInv, Known, TypeOK
    <3>2. blocks'[accountNum[c]] = blocks[accountNum[c]]
      BY <1>1, <2>1, <2>3, <3>1 DEF AddAccount, AccountsInv, TypeOK
    <3> QED BY <1>1, <3>2
  <2>4. ASSUME NEW a \in Ids, NEW d \in Chars, CreateCharacter(a, d) PROVE Excused(c)
    BY <1>1, <2>1, <2>4, CreateKeepsListed
  <2>5. ASSUME NEW a \in Ids, NEW slot \in Slots, DeleteCharacter(a, slot) PROVE Excused(c)
    <3> DEFINE d == blocks[a].lpCharacters[slot]
    <3>1. /\ d # None /\ mem[d] = "live" /\ a \in accounts
          /\ mem' = [mem EXCEPT ![d] = "deleted"]
          /\ \E b : blocks' = [blocks EXCEPT ![a] = b]
      BY <2>5 DEF DeleteCharacter
    <3>2. Exists(a) /\ Proper(blocks[a]) /\ a \in Numbers
      BY <1>1, <3>1 DEF AccountsInv, Known, TypeOK, Proper, Numbers
    <3>3. d \in Chars /\ Lists(blocks[a], d)
      BY <3>1, <3>2 DEF Proper, Blocks, Lists
    <3>4. accountNum[d] = a
      BY <1>1, <3>2, <3>3 DEF AccountsInv, ListedAreItsOwn
    <3>5. mem'[d] = "deleted" /\ d # c
      BY <1>1, <3>1, <3>3 DEF AccountsInv, TypeOK
    <3>6. accountNum[c] = a
      BY <1>1, <2>1, <3>1 DEF AccountsInv, TypeOK
    <3> QED BY <3>1, <3>3, <3>4, <3>5, <3>6
  <2>6. ASSUME NEW d \in Chars, Delete(d) PROVE Excused(c)
    <3>1. /\ mem[d] = "live" /\ mem' = [mem EXCEPT ![d] = "deleted"]
          /\ \E b : blocks' = [blocks EXCEPT ![accountNum[d]] = b]
      BY <2>1, <2>6 DEF Delete
    <3>2. mem'[d] = "deleted" /\ d # c
      BY <1>1, <3>1 DEF AccountsInv, TypeOK
    <3>3. accountNum[c] = accountNum[d]
      BY <1>1, <2>1, <3>1 DEF AccountsInv, TypeOK
    <3> QED BY <3>1, <3>2, <3>3
  <2>7. CASE Start \/ Crash \/ CollectCommand \/ \E a \in Ids : DelAccount(a)
    BY <1>1, <2>1, <2>7 DEF Start, Crash, CollectCommand, DelAccount
  <2>8. CASE UNCHANGED vars
    BY <2>1, <2>8 DEF vars
  <2> HIDE DEF Excused, Loses
  <2> QED BY <1>1, <2>2, <2>3, <2>4, <2>5, <2>6, <2>7, <2>8 DEF Next
<1>2. AccountsInv /\ AccountsInv' /\ [Next]_vars =>
        [\A c \in Chars : Loses(c) => Excused(c)]_vars
  <2> HIDE DEF Loses, Excused
  <2> QED BY <1>1
<1>3. Spec => [][\A c \in Chars : Loses(c) => Excused(c)]_vars
  BY <1>2, SpecAccountsInv, PTL DEF Spec
<1> QED BY <1>3 DEF UnlistedByDeletion
=============================================================================
