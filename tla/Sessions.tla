------------------------------- MODULE Sessions -------------------------------
(***************************************************************************)
(* Connections (CSocket), the accounts they log in to and the characters   *)
(* they play.                                                              *)
(*                                                                         *)
(*  - a client logs in on a first connection, is told to come back, logs   *)
(*    in again on a second one without the check for an account in use,    *)
(*    picks or makes a character and is transferred into the world, where  *)
(*    another connection may have its account, or its character, already;  *)
(*  - when its connection goes, the character leaves at once (at an inn,   *)
(*    in its own house, as staff) or stands where it was until the world   *)
(*    loop takes it away;                                                  *)
(*  - the world loop looks after a player (genericCheck, checkPC), and     *)
(*    after everything in the cells around it, only if the account says    *)
(*    that this character is in the game (dwInGame);                       *)
(*  - every world save stores the accounts and loads them again.           *)
(*                                                                         *)
(* Passwords, bans and the addresses are left out: what is refused for     *)
(* them is a connection that leaves.  Nobody in the world sends a login    *)
(* packet.  All of it runs in the main loop.                               *)
(***************************************************************************)
EXTENDS Naturals

CONSTANTS Sockets,    (* the connections there may be at once                *)
          Accts,      (* the accounts                                        *)
          Chars,      (* their characters                                    *)
          AccountOf,  (* the account of each                                 *)
          None,       (* no account, character, connection or place          *)
          Places,     (* the parts of the map                                *)
          Around      (* the places looked after for a player in each        *)

ASSUME SessionsAssumption ==
  /\ AccountOf \in [Chars -> Accts]
  /\ None \notin Sockets \cup Accts \cup Chars \cup Places
  /\ Around \in [Places -> SUBSET Places]

VARIABLES stage,      (* loggedInClients ("login") or connClients ("world")  *)
          acctNo,     (* a connection's account                              *)
          currChar,   (* CSocket::currCharObj                                *)
          socket,     (* a character's connection, mPlayer->socket           *)
          logout,     (* tPC_LOGOUT is set                                   *)
          online,     (* AB_FLAGS_ONLINE                                     *)
          dwInGame,   (* the character of the account that is in the game    *)
          stored,     (* AB_FLAGS_ONLINE in the accounts table               *)
          at          (* where a character of the world stands               *)

conns == <<stage, acctNo, currChar>>
acctVars == <<online, dwInGame>>
vars == <<stage, acctNo, currChar, socket, logout, online, dwInGame, stored, at>>

Plays(s, c) == stage[s] = "world" /\ currChar[s] = c
Played(c) == \E s \in Sockets : Plays(s, c)

(* The character's account has it in the game.                             *)
InGame(c) == dwInGame[AccountOf[c]] = c

(* uox3.cpp's isOnline.                                                    *)
isOnline(c) == InGame(c) \/ Played(c)

(* The players the world loop looks after.                                 *)
Served(s) == stage[s] = "world" /\ InGame(currChar[s])

(* Who stands near one of them.                                            *)
Near(c, d) == at[c] \in Around[at[d]]
Watched(c) == \E s \in Sockets : Served(s) /\ Near(c, currChar[s])

Init ==
  /\ stage = [s \in Sockets |-> "none"]
  /\ acctNo = [s \in Sockets |-> None]
  /\ currChar = [s \in Sockets |-> None]
  /\ socket = [c \in Chars |-> None]
  /\ logout = [c \in Chars |-> FALSE]
  /\ online = [a \in Accts |-> FALSE]
  /\ dwInGame = [a \in Accts |-> None]
  /\ stored = [a \in Accts |-> FALSE]
  /\ at = [c \in Chars |-> None]

-----------------------------------------------------------------------------
(* Logging in and out.                                                     *)

(* CheckConn.                                                              *)
Connect(s) ==
  /\ stage[s] = "none"
  /\ stage' = [stage EXCEPT ![s] = "login"]
  /\ UNCHANGED <<acctNo, currChar, socket, logout, acctVars, stored, at>>

(* CPIFirstLogin: an account in use is refused, and the refused connection *)
(* forgets its account before it is closed.                                *)
FirstLogin(s, a) ==
  /\ stage[s] = "login"
  /\ IF online[a]
     THEN /\ stage' = [stage EXCEPT ![s] = "none"]
          /\ acctNo' = [acctNo EXCEPT ![s] = None]
          /\ UNCHANGED online
     ELSE /\ acctNo' = [acctNo EXCEPT ![s] = a]
          /\ online' = [online EXCEPT ![a] = TRUE]
          /\ UNCHANGED stage
  /\ UNCHANGED <<currChar, socket, logout, dwInGame, stored, at>>

(* CPISecondLogin: a client comes back as it was told to, and is sent the  *)
(* list of its characters.  The server does not remember telling it, and   *)
(* asks neither the flag nor for another connection of the account.        *)
SecondLogin(s, a) ==
  /\ stage[s] = "login"
  /\ acctNo' = [acctNo EXCEPT ![s] = a]
  /\ UNCHANGED <<stage, currChar, socket, logout, acctVars, stored, at>>

(* LoginDisconnect: the client left before it played.  Of an account that  *)
(* another connection plays, the flag is cleared too.                      *)
LoginDisconnect(s) ==
  /\ stage[s] = "login"
  /\ stage' = [stage EXCEPT ![s] = "none"]
  /\ acctNo' = [acctNo EXCEPT ![s] = None]
  /\ online' = [a \in Accts |-> online[a] /\ a # acctNo[s]]
  /\ UNCHANGED <<currChar, socket, logout, dwInGame, stored, at>>

(* The flag of an account whose character starts.                          *)
OnlineAtStart(a) == [online EXCEPT ![a] = TRUE]

(* The account's character in the game when c is picked: c, whatever was   *)
(* there, since the refusal of a second one compares the field with what   *)
(* was just put into it.                                                   *)
InGameAtPlayKept(c) ==
  IF dwInGame[AccountOf[c]] = None
  THEN [dwInGame EXCEPT ![AccountOf[c]] = c] ELSE dwInGame

InGameAtPlay(c) == [dwInGame EXCEPT ![AccountOf[c]] = c]

(* A fault: the timers of all the account's characters are stopped.        *)
TimerAtPlayAll(c) == [d \in Chars |-> logout[d] /\ AccountOf[d] # AccountOf[c]]
TimerAtPlay(c) == [logout EXCEPT ![c] = FALSE]

(* Transfer, CPIPlayCharacter or CPICreateCharacter, CurrcharObj and       *)
(* startChar.  A character that was away appears where it was saved.       *)
Play(s, c) ==
  /\ stage[s] = "login"
  /\ acctNo[s] = AccountOf[c]
  /\ stage' = [stage EXCEPT ![s] = "world"]
  /\ currChar' = [currChar EXCEPT ![s] = c]
  /\ socket' = [socket EXCEPT ![c] = s]
  /\ logout' = TimerAtPlay(c)
  /\ online' = OnlineAtStart(AccountOf[c])
  /\ dwInGame' = InGameAtPlay(c)
  /\ \E p \in IF at[c] = None THEN Places ELSE {at[c]} : at' = [at EXCEPT ![c] = p]
  /\ UNCHANGED <<acctNo, stored>>

(* LogOut: what becomes of the character; the faults are a character that  *)
(* is not marked to be taken away, or that keeps its closed connection.    *)
TimerAtLogOutUnset(c, valid) == [logout EXCEPT ![c] = FALSE]
TimerAtLogOut(c, valid) == [logout EXCEPT ![c] = ~valid]

SocketAtLogOutKept(c) == socket
SocketAtLogOut(c) == [socket EXCEPT ![c] = None]

WhereAtLogOut(s, valid) ==
  IF ~valid THEN Around[at[currChar[s]]] \cup {at[currChar[s]]}
  ELSE IF \E t \in Sockets \ {s} : Plays(t, currChar[s])
       THEN {at[currChar[s]]} ELSE {None}

StageAtDisconnect(s) == [stage EXCEPT ![s] = "none"]

OnlineAtDisconnect(a) == [online EXCEPT ![a] = FALSE]

(* Disconnect, and the deletion of the CSocket.  Whether the character may *)
(* go at once depends on its rank and place; in somebody else's house it   *)
(* is put before the door.  Another connection that plays it stays.        *)
Disconnect(s, valid) ==
  LET c == currChar[s]
      a == acctNo[s]
  IN /\ stage[s] = "world"
     /\ stage' = StageAtDisconnect(s)
     /\ acctNo' = [acctNo EXCEPT ![s] = None]
     /\ currChar' = [currChar EXCEPT ![s] = None]
     /\ socket' = SocketAtLogOut(c)
     /\ logout' = TimerAtLogOut(c, valid)
     /\ online' = OnlineAtDisconnect(a)
     /\ dwInGame' = [dwInGame EXCEPT ![a] = IF valid THEN None ELSE c]
     /\ \E p \in WhereAtLogOut(s, valid) : at' = [at EXCEPT ![c] = p]
     /\ UNCHANGED stored

-----------------------------------------------------------------------------
(* The world loop.                                                         *)

(* A character in the world walks, or is moved by somebody.                *)
Move(c, p) ==
  /\ Played(c) \/ logout[c]
  /\ at' = [at EXCEPT ![c] = p]
  /\ UNCHANGED <<conns, socket, logout, acctVars, stored>>

Fades(c) == InGame(c) \/ dwInGame[AccountOf[c]] = None

LogoutTimer(c) ==
  /\ logout[c]
  /\ Watched(c)
  /\ Fades(c)
  /\ logout' = [logout EXCEPT ![c] = FALSE]
  /\ dwInGame' = [dwInGame EXCEPT ![AccountOf[c]] = None]
  /\ at' = [at EXCEPT ![c] = IF Played(c) THEN @ ELSE None]
  /\ UNCHANGED <<conns, socket, online, stored>>

(* The accounts with somebody in the world; with the fault, with any       *)
(* connection at all, those of before a crash included.                    *)
ReallyOnAny(a) == online[a]
ReallyOn(a) == \E s \in Sockets, c \in Chars : Plays(s, c) /\ AccountOf[c] = a

(* CheckAutoTimers clears the flag of accounts with nobody in the world.   *)
AccountFlush ==
  /\ online' = [a \in Accts |-> online[a] /\ ReallyOn(a)]
  /\ UNCHANGED <<conns, socket, logout, dwInGame, stored, at>>

(* A world save: Accounts->Save, then Accounts->Load, which knows nothing  *)
(* of who is in the game.                                                  *)
WorldSave ==
  /\ stored' = online
  /\ dwInGame' = [a \in Accts |-> None]
  /\ UNCHANGED <<conns, socket, logout, online, at>>

(* Accounts->Load alone: the console, a script, or somebody who deletes a  *)
(* character on a connection without an account.                           *)
Reload ==
  /\ online' = stored
  /\ dwInGame' = [a \in Accts |-> None]
  /\ UNCHANGED <<conns, socket, logout, stored, at>>

(* The server dies and starts again from its tables.                       *)
Restart ==
  /\ stage' = [s \in Sockets |-> "none"]
  /\ acctNo' = [s \in Sockets |-> None]
  /\ currChar' = [s \in Sockets |-> None]
  /\ socket' = [c \in Chars |-> None]
  /\ logout' = [c \in Chars |-> FALSE]
  /\ online' = stored
  /\ dwInGame' = [a \in Accts |-> None]
  /\ at' = [c \in Chars |-> None]
  /\ UNCHANGED stored

Next ==
  \/ \E s \in Sockets : Connect(s) \/ LoginDisconnect(s)
  \/ \E s \in Sockets, a \in Accts : FirstLogin(s, a) \/ SecondLogin(s, a)
  \/ \E s \in Sockets, c \in Chars : Play(s, c)
  \/ \E s \in Sockets, valid \in BOOLEAN : Disconnect(s, valid)
  \/ \E c \in Chars, p \in Places : Move(c, p)
  \/ \E c \in Chars : LogoutTimer(c)
  \/ AccountFlush
  \/ WorldSave
  \/ Reload
  \/ Restart

Spec == Init /\ [][Next]_vars

(* CheckAutoTimers runs in every round of the main loop, and looks at each *)
(* character in the cells around a player that is served.                  *)
FairSpec ==
  /\ Spec
  /\ WF_vars(AccountFlush)
  /\ \A c \in Chars : WF_vars(LogoutTimer(c))

-----------------------------------------------------------------------------
TypeOK ==
  /\ stage \in [Sockets -> {"none", "login", "world"}]
  /\ acctNo \in [Sockets -> Accts \cup {None}]
  /\ currChar \in [Sockets -> Chars \cup {None}]
  /\ socket \in [Chars -> Sockets \cup {None}]
  /\ logout \in [Chars -> BOOLEAN]
  /\ online \in [Accts -> BOOLEAN]
  /\ dwInGame \in [Accts -> Chars \cup {None}]
  /\ stored \in [Accts -> BOOLEAN]
  /\ at \in [Chars -> Places \cup {None}]
  /\ \A c \in Chars : at[c] # None <=> Played(c) \/ logout[c]
  /\ \A s \in Sockets :
       /\ stage[s] = "none" => acctNo[s] = None
       /\ stage[s] = "world" <=> currChar[s] # None
       /\ stage[s] = "world" => acctNo[s] = AccountOf[currChar[s]]

(* CurrcharObj, LogOut: a character's connection is one that plays it, and *)
(* never one that was closed and freed, also when two connections play one *)
(* character and when another of its account leaves.                       *)
SocketPlays ==
  \A c \in Chars : socket[c] # None => Plays(socket[c], c)

(* A character its account has in the game is played, or will be taken     *)
(* away: none stands in the world, attackable, for ever.                   *)
InGameAccounted ==
  \A c \in Chars : InGame(c) => Played(c) \/ logout[c]

(* CheckAutoTimers, CPISecondLogin: the world loop looks after everybody   *)
(* who plays, and the first login refuses the account.                     *)
PlayersServed == \A s \in Sockets : stage[s] = "world" => Served(s)
OnlineWhilePlaying == \A s \in Sockets : stage[s] = "world" => online[acctNo[s]]

(* Another connection has the account.                                     *)
Shared(s) == \E t \in Sockets \ {s} : acctNo[t] = acctNo[s]

(* Whoever is in the world, or enters it, is served and has its account    *)
(* refused to others, until a load of the accounts, a connection with the  *)
(* same account, or the timer that such a one left on its character takes  *)
(* that away; nothing that other accounts do does.                         *)
KeptWhileAlone ==
  [][\A s \in Sockets :
       stage'[s] = "world" =>
         /\ (stage[s] = "world" => Served(s)) =>
              \/ Served(s)' \/ Shared(s) \/ WorldSave \/ Reload
              \/ \E c \in Chars : Plays(s, c) /\ LogoutTimer(c)
         /\ (stage[s] = "world" => online[acctNo[s]]) =>
              online'[acctNo'[s]] \/ Shared(s) \/ Reload]_vars

(* What isOnline says it says: the connection of the character is there.   *)
OnlineHasSocket == \A c \in Chars : isOnline(c) => socket[c] # None

(* A connection's character has that connection.                           *)
PlayedHasSocket == \A s \in Sockets, c \in Chars : Plays(s, c) => socket[c] = s

(* One character of an account is in the world.                            *)
OneCharacterInWorld ==
  \A c, d \in Chars :
    /\ AccountOf[c] = AccountOf[d]
    /\ Played(c) \/ logout[c]
    /\ Played(d) \/ logout[d]
    => c = d

(* Nobody plays an account while somebody else does.                       *)
OneSession ==
  \A s, t \in Sockets :
    stage[s] = "world" /\ stage[t] = "world" /\ acctNo[s] = acctNo[t] => s = t

(* No account is refused for ever: its flag is cleared, or a connection    *)
(* has the account.                                                        *)
Connected(a) == \E s \in Sockets : acctNo[s] = a
NoLockout == \A a \in Accts : online[a] ~> (~online[a] \/ Connected(a))


(* Where each character is, and the promise kept.                          *)
Where ==
  [c \in Chars |-> IF Played(c) THEN "played"
                   ELSE IF logout[c] THEN "standing" ELSE "away"]

P == INSTANCE Presence WITH where <- Where
PresenceKept == P!Spec
=============================================================================
