------------------------------- MODULE Accounts -------------------------------
(***************************************************************************)
(* The accounts (cAccountClass): blocks found by number and by name, the   *)
(* characters each block lists, and the rows of the database they come     *)
(* from.                                                                   *)
(*                                                                         *)
(*  - Load reads every row again, at the start, after every world save and *)
(*    when somebody asks for it;                                           *)
(*  - a new character takes the first free slot of its account and is      *)
(*    stored at once; a deleted one leaves its slot and its row            *)
(*    (DelCharacter);                                                      *)
(*  - a world save writes the rows of the living characters, loads the     *)
(*    accounts and frees the deleted characters;                           *)
(*  - the server may crash and start again from the rows.                  *)
(*                                                                         *)
(* The name map holds pointers into the number map, so the model keeps one *)
(* block and lets names lead to numbers.  An account of the database is    *)
(* called by its number.  Passwords, mail and addresses are left out; so   *)
(* are the flags and dwInGame, which Sessions has, and TransCharacter,     *)
(* which nothing calls.                                                    *)
(***************************************************************************)
EXTENDS Naturals, FiniteSets

CONSTANTS Ids,        (* the accounts of the database                        *)
          InvalidId,  (* AB_INVALID_ID                                       *)
          NewNames,   (* names somebody may want an account for              *)
          Blank,      (* the name of a block that was just reset             *)
          Chars,      (* the characters that may ever be played              *)
          None,       (* INVALIDSERIAL and the null pointer                  *)
          SlotCount   (* CHARACTERCOUNT                                      *)

Slots == 0 .. SlotCount - 1
Numbers == Ids \cup {InvalidId}
Names == Ids \cup NewNames \cup {Blank}

ASSUME AccountsAssumption ==
  /\ InvalidId \notin Ids
  /\ None \notin Chars \cup Numbers
  /\ IsFiniteSet(Chars) /\ IsFiniteSet(Ids)
  /\ NewNames \cap Ids = {} /\ Blank \notin Ids \cup NewNames
  /\ SlotCount \in Nat \ {0}

(* CAccountBlock.                                                          *)
Blocks == [name: Names, dwCharacters: [Slots -> Chars \cup {None}],
           lpCharacters: [Slots -> Chars \cup {None}], bChanged: BOOLEAN]

ASSUME NoneAssumption == None \notin Blocks

VARIABLES up,         (* the server runs                                     *)
          accounts,   (* the rows of the accounts table                      *)
          rows,       (* the account in each row of the characters table     *)
          blocks,     (* m_mapUsernameIDMap                                  *)
          names,      (* m_mapUsernameMap                                    *)
          mem,        (* what a character's memory holds                     *)
          accountNum  (* the account a character says it belongs to          *)

vars == <<up, accounts, rows, blocks, names, mem, accountNum>>

Free == [i \in Slots |-> None]

(* A block after reset: dwCharacters are serials, lpCharacters pointers.   *)
EmptyBlock(n) ==
  [name |-> n, dwCharacters |-> Free, lpCharacters |-> Free, bChanged |-> FALSE]

(* The object factory finds an object until its memory goes.              *)
Registered(m, c) == m[c] \in {"live", "deleted"}
Exists(a) == blocks[a] # None

-----------------------------------------------------------------------------
(* DelCharacter on block b.                                                *)

(* It refuses, once, a block that changed since it was loaded.             *)
Removes(b, slot) == ~b.bChanged /\ b.dwCharacters[slot] # None

(* The characters that stay are counted, and as many slots are kept, from  *)
(* the first on, whichever of them hold a character.                       *)
Emptied(f, slot, kept) ==
  [i \in Slots |-> IF i = slot \/ i >= kept THEN None ELSE f[i]]

Kept(b, slot) ==
  Cardinality({i \in Slots \ {slot} :
                 b.dwCharacters[i] # None /\ b.lpCharacters[i] # None})

Without(b, slot) ==
  IF Removes(b, slot)
  THEN [b EXCEPT !.dwCharacters = Emptied(@, slot, Kept(b, slot)),
                 !.lpCharacters = Emptied(@, slot, Kept(b, slot)),
                 !.bChanged = TRUE]
  ELSE [b EXCEPT !.bChanged = FALSE]

Lists(b, c) == \E i \in Slots : b.lpCharacters[i] = c
SlotOf(b, c) == CHOOSE i \in Slots : b.lpCharacters[i] = c

(* CChar::Cleanup takes the character out of the block that lists it.      *)
AfterCleanup(b, c) == IF Lists(b, c) THEN Without(b, SlotOf(b, c)) ELSE b

-----------------------------------------------------------------------------
(* LoadFromDB.                                                             *)

(* The characters an account has by the table, in an order of the          *)
(* database's choosing; those that find no slot are left out.              *)
RowsOf(a, stored) == {c \in Chars : stored[c] = a}

Orders ==
  UNION {{f \in [1 .. n -> Chars] : \A i, j \in 1 .. n : f[i] = f[j] => i = j} :
         n \in 0 .. Cardinality(Chars)}

(* What a row of the table leaves in the maps: serials in the slots, and   *)
(* pointers to the characters the object factory knows (and, with a fault, *)
(* no pointers).                                                           *)
Seated(order) ==
  [i \in Slots |-> IF i + 1 \in DOMAIN order THEN order[i + 1] ELSE None]

LoadedBlockBare(a, order, m) == [EmptyBlock(a) EXCEPT !.dwCharacters = Seated(order)]

LoadedBlock(a, order, m) ==
  [EmptyBlock(a) EXCEPT
     !.dwCharacters = Seated(order),
     !.lpCharacters = [i \in Slots |->
        IF Seated(order)[i] # None /\ Registered(m, Seated(order)[i])
        THEN Seated(order)[i] ELSE None]]

(* Load with rows stored, objects m, over what the maps and the characters *)
(* had before.  Every account's row replaces its block; the block of the   *)
(* first call of FinaliseBlock, still as it was made, takes the invalid    *)
(* number.  An account with more rows than slots ends its own query early, *)
(* which leaves the SQL manager one query too many; here it has ended.     *)
Load(stored, m, before) ==
  \E order \in [accounts -> Orders] :
    LET loaded == [a \in accounts |-> LoadedBlock(a, order[a], m)]
    IN /\ \A a \in accounts :
            {order[a][i] : i \in DOMAIN order[a]} = RowsOf(a, stored)
       /\ blocks' = [a \in Numbers |->
                       IF a \in accounts THEN loaded[a]
                       ELSE IF a = InvalidId /\ accounts # {} THEN EmptyBlock(Blank)
                       ELSE before.blocks[a]]
       /\ names' = [n \in Names |->
                      IF n \in accounts THEN n
                      ELSE IF n = Blank /\ accounts # {} THEN InvalidId
                      ELSE before.names[n]]
       /\ accountNum' = [c \in Chars |->
                           IF \E a \in accounts : Lists(loaded[a], c)
                           THEN CHOOSE a \in accounts : Lists(loaded[a], c)
                           ELSE before.accountNum[c]]

(* The maps and the characters as they are.                                *)
Current == [blocks |-> blocks, names |-> names, accountNum |-> accountNum]

(* A database with accounts nobody has played, and no server yet.          *)
Init ==
  /\ up = FALSE
  /\ accounts = Ids
  /\ rows = [c \in Chars |-> None]
  /\ blocks = [a \in Numbers |-> None]
  /\ names = [n \in Names |-> None]
  /\ mem = [c \in Chars |-> "unborn"]
  /\ accountNum = [c \in Chars |-> InvalidId]

-----------------------------------------------------------------------------
(* The operations.                                                         *)

(* The world is loaded first, each character with the account of its row,  *)
(* and the accounts after it.                                              *)
Start ==
  LET m == [c \in Chars |-> IF rows[c] # None THEN "live"
                            ELSE IF mem[c] = "unborn" THEN "unborn" ELSE "freed"]
  IN /\ ~up
     /\ up' = TRUE
     /\ mem' = m
     /\ Load(rows, m, [blocks |-> [a \in Numbers |-> None],
                       names |-> [n \in Names |-> None],
                       accountNum |-> [c \in Chars |->
                          IF rows[c] # None THEN rows[c] ELSE InvalidId]])
     /\ UNCHANGED <<accounts, rows>>

Crash ==
  /\ up
  /\ up' = FALSE
  /\ UNCHANGED <<accounts, rows, blocks, names, mem, accountNum>>

(* AddAccount(n): a block goes into the maps under the number of a block   *)
(* that was just reset.  The statement that should store it names six      *)
(* columns and gives five values, which the database refuses.  (The fault  *)
(* before it forgets the name.)                                            *)
AddUnnamed(n) ==
  /\ up
  /\ names[n] = None
  /\ blocks' = [blocks EXCEPT ![InvalidId] = EmptyBlock(n)]
  /\ UNCHANGED <<up, accounts, rows, names, mem, accountNum>>

AddAccount(n) ==
  /\ up
  /\ names[n] = None
  /\ blocks' = [blocks EXCEPT ![InvalidId] = EmptyBlock(n)]
  /\ names' = [names EXCEPT ![n] = InvalidId]
  /\ UNCHANGED <<up, accounts, rows, mem, accountNum>>

(* DelAccount(a): the account goes from the tables (no statement that      *)
(* takes its characters' objects away is refused; their rows stay, which   *)
(* no account can reach again) and from the maps, and the path of its      *)
(* directory, always empty, is then copied with a negative length.         *)
DelAccount(a) ==
  /\ up
  /\ a \in accounts
  /\ accounts' = accounts \ {a}
  /\ rows' = [c \in Chars |-> IF rows[c] = a THEN None ELSE rows[c]]
  /\ up' = FALSE
  /\ UNCHANGED <<blocks, names, mem, accountNum>>

(* The account a new character is of, and the rows once it is stored; the  *)
(* faults are a character that is not told its account or not stored.      *)
Vacant(a) == {i \in Slots : blocks[a].dwCharacters[i] = None}

OwnerUnset(a) == InvalidId
Owner(a) == IF Vacant(a) = {} THEN InvalidId ELSE a

RowsUnstored(c, a) == rows
RowsWith(c, a) == [rows EXCEPT ![c] = Owner(a)]

(* CPICreateCharacter, on a connection of account a: AddCharacter takes    *)
(* the first free slot, if there is one, and the character is stored.      *)
CreateCharacter(a, c) ==
  LET seat == CHOOSE i \in Vacant(a) : \A j \in Vacant(a) : i <= j
  IN /\ up
     /\ a \in accounts
     /\ mem[c] = "unborn"
     /\ mem' = [mem EXCEPT ![c] = "live"]
     /\ accountNum' = [accountNum EXCEPT ![c] = Owner(a)]
     /\ rows' = RowsWith(c, a)
     /\ blocks' = IF Vacant(a) = {} THEN blocks
                  ELSE [blocks EXCEPT ![a].dwCharacters[seat] = c,
                                      ![a].lpCharacters[seat] = c]
     /\ UNCHANGED <<up, accounts, names>>

(* CPIDeleteCharacter, on a connection of account a: the slot is emptied   *)
(* and the character deleted, whose Cleanup empties the slot that still    *)
(* lists it.                                                               *)
DeleteCharacter(a, slot) ==
  LET c == blocks[a].lpCharacters[slot]
      once == Without(blocks[a], slot)
  IN /\ up
     /\ a \in accounts
     /\ c # None /\ mem[c] = "live"
     /\ mem' = [mem EXCEPT ![c] = "deleted"]
     /\ blocks' = [blocks EXCEPT ![a] = AfterCleanup(once, c)]
     /\ rows' = IF Removes(blocks[a], slot) \/ Lists(once, c)
                THEN [rows EXCEPT ![c] = None] ELSE rows
     /\ UNCHANGED <<up, accounts, names, accountNum>>

(* CChar::Delete, by an administrator or a script.                         *)
Delete(c) ==
  LET a == accountNum[c]
      listed == a # InvalidId /\ Exists(a) /\ Lists(blocks[a], c)
  IN /\ up
     /\ mem[c] = "live"
     /\ mem' = [mem EXCEPT ![c] = "deleted"]
     /\ IF listed
        THEN /\ blocks' = [blocks EXCEPT ![a] = AfterCleanup(@, c)]
             /\ rows' = IF Removes(blocks[a], SlotOf(blocks[a], c))
                        THEN [rows EXCEPT ![c] = None] ELSE rows
        ELSE UNCHANGED <<blocks, rows>>
     /\ UNCHANGED <<up, accounts, names, accountNum>>

(* The accounts are read again, from the console or a script.              *)
Reload ==
  /\ up
  /\ Load(rows, mem, Current)
  /\ UNCHANGED <<up, accounts, rows, mem>>

Freed(m) == [c \in Chars |-> IF m[c] = "deleted" THEN "freed" ELSE m[c]]

(* What a world save leaves in the characters table; the fault writes the  *)
(* deleted ones too.                                                       *)
WorldRowsAll ==
  [c \in Chars |-> IF mem[c] \in {"live", "deleted"} THEN accountNum[c] ELSE None]

WorldRows == [c \in Chars |-> IF mem[c] = "live" THEN accountNum[c] ELSE None]

(* A fault: the accounts are loaded before the characters are written.     *)
SaveAfterLoad ==
  /\ up
  /\ rows' = WorldRows
  /\ Load(rows, mem, Current)
  /\ mem' = Freed(mem)
  /\ UNCHANGED <<up, accounts>>

(* SaveNewWorld: the living characters are written anew, the accounts are  *)
(* loaded from them, and the garbage is collected last.                    *)
SaveNewWorld ==
  /\ up
  /\ rows' = WorldRows
  /\ Load(WorldRows, mem, Current)
  /\ mem' = Freed(mem)
  /\ UNCHANGED <<up, accounts>>

(* An administrator asks for a garbage collection.                         *)
CollectCommand ==
  /\ up
  /\ \E c \in Chars : mem[c] = "deleted"
  /\ mem' = Freed(mem)
  /\ UNCHANGED <<up, accounts, rows, blocks, names, accountNum>>

Next ==
  \/ Start
  \/ Crash
  \/ \E n \in NewNames : AddAccount(n)
  \/ \E a \in Ids : DelAccount(a)
  \/ \E a \in Ids, c \in Chars : CreateCharacter(a, c)
  \/ \E a \in Ids, slot \in Slots : DeleteCharacter(a, slot)
  \/ \E c \in Chars : Delete(c)
  \/ Reload
  \/ SaveNewWorld
  \/ CollectCommand

Spec == Init /\ [][Next]_vars

(* A server that runs saves the world again and again.                     *)
FairSpec == Spec /\ WF_vars(SaveNewWorld)

-----------------------------------------------------------------------------
TypeOK ==
  /\ up \in BOOLEAN
  /\ accounts \subseteq Ids
  /\ rows \in [Chars -> Numbers \cup {None}]
  /\ DOMAIN blocks = Numbers
  /\ \A a \in Numbers : Exists(a) =>
       /\ blocks[a] \in Blocks
       /\ \A i \in Slots : blocks[a].lpCharacters[i] \in {None, blocks[a].dwCharacters[i]}
  /\ names \in [Names -> Numbers \cup {None}]
  /\ mem \in [Chars -> {"unborn", "live", "deleted", "freed"}]
  /\ accountNum \in [Chars -> Numbers]

(* An account lists characters that say they are its own.                  *)
ListedAreItsOwn ==
  \A a \in Numbers, c \in Chars :
    Exists(a) /\ Lists(blocks[a], c) => accountNum[c] = a

(* Accounts->Save looks every block up by its name and uses what it finds  *)
(* without a check, so there must be something, and it must be the block.  *)
NamesFindBlocks ==
  up => \A a \in Numbers : Exists(a) => names[blocks[a].name] = a

(* A living character of an account is stored with it: no crash loses it.  *)
LiveAreStored ==
  up => \A c \in Chars : mem[c] = "live" => rows[c] = accountNum[c]

(* LoadFromDB, DelCharacter: a slot comes to point to freed memory only    *)
(* when garbage is collected on command; a save loads the accounts before  *)
(* it frees anything.                                                      *)
SlotsSound ==
  \A a \in Numbers, c \in Chars :
    Exists(a) /\ Lists(blocks[a], c) => mem[c] \in {"live", "deleted"}

SlotsSoundButForCommands == [][up /\ SlotsSound /\ ~CollectCommand => SlotsSound']_vars

(* No slot ever points to freed memory.                                    *)
SlotsNeverFreed == up => SlotsSound

(* A living character of an account is listed by it.                       *)
LiveAreListed ==
  up => \A c \in Chars :
          mem[c] = "live" /\ accountNum[c] \in accounts
          => Lists(blocks[accountNum[c]], c)

(* The account a name was just given can be used: GetAccountByName finds a *)
(* block with a number, which the login asks for.                          *)
NewNamesUsable ==
  up => \A n \in NewNames : names[n] # None => names[n] \in Ids

(* SaveNewWorld: a save leaves no row of a character it frees, and what    *)
(* has neither memory nor row never comes back, crash or not.              *)
FreedStayFreed ==
  [][\A c \in Chars :
       /\ mem[c] = "deleted" /\ mem'[c] = "freed" /\ ~CollectCommand => rows'[c] = None
       /\ mem[c] = "freed" /\ rows[c] = None => mem'[c] = "freed" /\ rows'[c] = None]_vars

(* The account of a character that has room for it lists it.              *)
Relisted(c) ==
  LET a == accountNum[c]
  IN a \in accounts /\ Cardinality(RowsOf(a, rows)) <= SlotCount
     => Lists(blocks[a], c)

(* LoadFromDB: every load lists all the living characters of an account    *)
(* that has slots for them, whatever earlier deletions cut off.            *)
LoadsRelist ==
  [][Start \/ Reload \/ SaveNewWorld =>
       \A c \in Chars : mem'[c] = "live" => Relisted(c)']_vars

(* DelCharacter: while the server runs, a living character loses its slot  *)
(* only to the deletion of another one of its account, or to a load of     *)
(* more characters than there are slots.                                   *)
UnlistedByDeletion ==
  [][\A c \in Chars :
       /\ up /\ up' /\ mem[c] = "live" /\ mem'[c] = "live"
       /\ Exists(accountNum[c]) /\ Lists(blocks[accountNum[c]], c)
       /\ ~Lists(blocks'[accountNum[c]], c)
       => \/ \E d \in Chars \ {c} :
               accountNum[d] = accountNum[c] /\ mem[d] = "live" /\ mem'[d] = "deleted"
          \/ Cardinality(RowsOf(accountNum[c], rows')) > SlotCount]_vars

(* A living character that its account has room for is sooner or later     *)
(* listed again.                                                           *)
RelistedEventually ==
  \A c \in Chars : (up /\ mem[c] = "live") ~> (~up \/ mem[c] # "live" \/ Relisted(c))
=============================================================================
