---------------------------- MODULE SessionsProofs ----------------------------
(***************************************************************************)
(* Proofs about Sessions, for any connections, accounts, characters and    *)
(* places.  Nothing is assumed of the accounts: any number of connections  *)
(* may have one, and play one character.                                   *)
(***************************************************************************)
EXTENDS Sessions, TLAPS

(* The parts of the type invariant: the values of the variables, what a    *)
(* connection's stage says of it, and that who is in the world is          *)
(* somewhere.                                                              *)
Values ==
  /\ stage \in [Sockets -> {"none", "login", "world"}]
  /\ acctNo \in [Sockets -> Accts \cup {None}]
  /\ currChar \in [Sockets -> Chars \cup {None}]
  /\ socket \in [Chars -> Sockets \cup {None}]
  /\ logout \in [Chars -> BOOLEAN]
  /\ online \in [Accts -> BOOLEAN]
  /\ dwInGame \in [Accts -> Chars \cup {None}]
  /\ stored \in [Accts -> BOOLEAN]
  /\ at \in [Chars -> Places \cup {None}]

Staged ==
  \A s \in Sockets :
    /\ stage[s] = "none" => acctNo[s] = None
    /\ stage[s] = "world" <=> currChar[s] # None
    /\ stage[s] = "world" => acctNo[s] = AccountOf[currChar[s]]

Typed == Values /\ Staged

Placed == \A c \in Chars : at[c] # None <=> Played(c) \/ logout[c]

LEMMA TypeOKIs == TypeOK <=> Typed /\ Placed
  BY DEF TypeOK, Typed, Values, Staged, Placed

-----------------------------------------------------------------------------
(* Who is played, as one enters, leaves or neither.                        *)

LEMMA PlayEnters ==
  ASSUME Typed, NEW s \in Sockets, NEW c \in Chars, Play(s, c)
  PROVE  /\ stage[s] = "login" /\ acctNo[s] = AccountOf[c] /\ AccountOf[c] \in Accts
         /\ stage' = [stage EXCEPT ![s] = "world"]
         /\ currChar' = [currChar EXCEPT ![s] = c]
         /\ acctNo' = acctNo /\ stored' = stored
         /\ socket' = [socket EXCEPT ![c] = s]
         /\ logout' = [logout EXCEPT ![c] = FALSE]
         /\ online' = [online EXCEPT ![AccountOf[c]] = TRUE]
         /\ dwInGame' = [dwInGame EXCEPT ![AccountOf[c]] = c]
         /\ \E p \in Places : at' = [at EXCEPT ![c] = p]
         /\ at[c] # None => at' = at
         /\ \A t \in Sockets, d \in Chars :
              Plays(t, d)' <=> Plays(t, d) \/ (t = s /\ d = c)
         /\ \A d \in Chars : Played(d)' <=> Played(d) \/ d = c
<1>1. /\ stage[s] = "login" /\ acctNo[s] = AccountOf[c] /\ AccountOf[c] \in Accts
      /\ stage' = [stage EXCEPT ![s] = "world"]
      /\ currChar' = [currChar EXCEPT ![s] = c]
      /\ acctNo' = acctNo /\ stored' = stored
      /\ socket' = [socket EXCEPT ![c] = s]
      /\ logout' = [logout EXCEPT ![c] = FALSE]
      /\ online' = [online EXCEPT ![AccountOf[c]] = TRUE]
      /\ dwInGame' = [dwInGame EXCEPT ![AccountOf[c]] = c]
  BY SessionsAssumption DEF Play, TimerAtPlay, OnlineAtStart, InGameAtPlay
<1>2. PICK p \in IF at[c] = None THEN Places ELSE {at[c]} : at' = [at EXCEPT ![c] = p]
  BY DEF Play
<1>3. /\ \E q \in Places : at' = [at EXCEPT ![c] = q]
      /\ at[c] # None => at' = at
  BY <1>2 DEF Typed, Values, Staged
<1>4. \A t \in Sockets, d \in Chars : Plays(t, d)' <=> Plays(t, d) \/ (t = s /\ d = c)
  BY <1>1 DEF Plays, Typed, Values, Staged
<1>5. \A d \in Chars : Played(d)' <=> Played(d) \/ d = c
  BY <1>4 DEF Played
<1>6. QED
  BY <1>1, <1>3, <1>4, <1>5

LEMMA DisconnectLeaves ==
  ASSUME Typed, NEW s \in Sockets, NEW valid \in BOOLEAN, Disconnect(s, valid)
  PROVE  /\ stage[s] = "world"
         /\ currChar[s] \in Chars /\ acctNo[s] = AccountOf[currChar[s]]
         /\ acctNo[s] \in Accts
         /\ stage' = [stage EXCEPT ![s] = "none"]
         /\ currChar' = [currChar EXCEPT ![s] = None]
         /\ acctNo' = [acctNo EXCEPT ![s] = None]
         /\ stored' = stored
         /\ socket' = [socket EXCEPT ![currChar[s]] = None]
         /\ logout' = [logout EXCEPT ![currChar[s]] = ~valid]
         /\ online' = [online EXCEPT ![acctNo[s]] = FALSE]
         /\ dwInGame' = [dwInGame EXCEPT ![acctNo[s]] =
                           IF valid THEN None ELSE currChar[s]]
         /\ \E p \in WhereAtLogOut(s, valid) : at' = [at EXCEPT ![currChar[s]] = p]
         /\ Plays(s, currChar[s]) /\ Played(currChar[s])
         /\ \A t \in Sockets, d \in Chars : Plays(t, d)' <=> Plays(t, d) /\ t # s
         /\ \A d \in Chars : Played(d)' <=> \E t \in Sockets \ {s} : Plays(t, d)
<1>1. /\ stage[s] = "world"
      /\ stage' = [stage EXCEPT ![s] = "none"]
      /\ currChar' = [currChar EXCEPT ![s] = None]
      /\ acctNo' = [acctNo EXCEPT ![s] = None]
      /\ stored' = stored
      /\ socket' = [socket EXCEPT ![currChar[s]] = None]
      /\ logout' = [logout EXCEPT ![currChar[s]] = ~valid]
      /\ online' = [online EXCEPT ![acctNo[s]] = FALSE]
      /\ dwInGame' = [dwInGame EXCEPT ![acctNo[s]] =
                        IF valid THEN None ELSE currChar[s]]
      /\ \E p \in WhereAtLogOut(s, valid) : at' = [at EXCEPT ![currChar[s]] = p]
  BY DEF Disconnect, StageAtDisconnect, SocketAtLogOut, TimerAtLogOut, OnlineAtDisconnect
<1>2. /\ currChar[s] \in Chars /\ acctNo[s] = AccountOf[currChar[s]]
      /\ acctNo[s] \in Accts
      /\ Plays(s, currChar[s]) /\ Played(currChar[s])
  <2>1. currChar[s] \in Chars /\ acctNo[s] = AccountOf[currChar[s]]
    BY <1>1 DEF Typed, Values, Staged
  <2>2. Plays(s, currChar[s])
    BY <1>1 DEF Plays
  <2>3. QED
    BY <2>1, <2>2, SessionsAssumption DEF Played
<1>3. \A t \in Sockets, d \in Chars : Plays(t, d)' <=> Plays(t, d) /\ t # s
  BY <1>1, SessionsAssumption DEF Plays, Typed, Values, Staged
<1>4. \A d \in Chars : Played(d)' <=> \E t \in Sockets \ {s} : Plays(t, d)
  BY <1>3 DEF Played
<1>5. QED
  BY <1>1, <1>2, <1>3, <1>4

(* The steps that change nothing of who is played.                         *)
Idle ==
  \/ \E s \in Sockets : Connect(s) \/ LoginDisconnect(s)
  \/ \E s \in Sockets, a \in Accts : FirstLogin(s, a) \/ SecondLogin(s, a)
  \/ \E c \in Chars, p \in Places : Move(c, p)
  \/ \E c \in Chars : LogoutTimer(c)
  \/ AccountFlush \/ WorldSave \/ Reload \/ UNCHANGED vars

LEMMA IdleKeepsPlayed ==
  ASSUME Typed, Idle
  PROVE  /\ currChar' = currChar
         /\ \A s \in Sockets : stage'[s] = "world" <=> stage[s] = "world"
         /\ \A s \in Sockets, c \in Chars : Plays(s, c)' <=> Plays(s, c)
         /\ \A c \in Chars : Played(c)' <=> Played(c)
<1>1. ASSUME NEW s \in Sockets, Connect(s) \/ LoginDisconnect(s)
      PROVE  /\ currChar' = currChar
             /\ \A t \in Sockets : stage'[t] = "world" <=> stage[t] = "world"
  BY <1>1 DEF Connect, LoginDisconnect, Typed, Values, Staged
<1>2. ASSUME NEW s \in Sockets, NEW a \in Accts, FirstLogin(s, a) \/ SecondLogin(s, a)
      PROVE  /\ currChar' = currChar
             /\ \A t \in Sockets : stage'[t] = "world" <=> stage[t] = "world"
  BY <1>2 DEF FirstLogin, SecondLogin, Typed, Values, Staged
<1>3. ASSUME \/ \E c \in Chars, p \in Places : Move(c, p)
             \/ \E c \in Chars : LogoutTimer(c)
             \/ AccountFlush \/ WorldSave \/ Reload \/ UNCHANGED vars
      PROVE  /\ currChar' = currChar
             /\ \A t \in Sockets : stage'[t] = "world" <=> stage[t] = "world"
  <2>1. stage' = stage /\ currChar' = currChar
    BY <1>3 DEF Move, LogoutTimer, AccountFlush, WorldSave, Reload, vars, conns
  <2>2. QED
    BY <2>1
<1>4. /\ currChar' = currChar
      /\ \A t \in Sockets : stage'[t] = "world" <=> stage[t] = "world"
  BY <1>1, <1>2, <1>3 DEF Idle
<1>5. \A s \in Sockets, c \in Chars : Plays(s, c)' <=> Plays(s, c)
  BY <1>4 DEF Plays
<1>6. QED
  BY <1>4, <1>5 DEF Played

LEMMA NextCases ==
  ASSUME [Next]_vars
  PROVE  \/ \E s \in Sockets, c \in Chars : Play(s, c)
         \/ \E s \in Sockets, valid \in BOOLEAN : Disconnect(s, valid)
         \/ Restart
         \/ Idle
  BY DEF Next, Idle

LEMMA RestartEmpties ==
  ASSUME Restart
  PROVE  \A c \in Chars : ~Played(c)'
  BY SessionsAssumption DEF Restart, Played, Plays

-----------------------------------------------------------------------------
(* The type invariant.                                                     *)

LEMMA NextTyped == Typed /\ Placed /\ [Next]_vars => Typed'
<1> SUFFICES ASSUME Typed, Placed, [Next]_vars PROVE Values' /\ Staged'
  BY DEF Typed
<1> USE SessionsAssumption DEF Typed
<1>1. ASSUME NEW s \in Sockets, NEW c \in Chars, Play(s, c) PROVE Values' /\ Staged'
  <2>1. Values'
    <3>1. PICK p \in Places : at' = [at EXCEPT ![c] = p]
      BY <1>1, PlayEnters
    <3>2. /\ stage' = [stage EXCEPT ![s] = "world"]
          /\ currChar' = [currChar EXCEPT ![s] = c]
          /\ acctNo' = acctNo /\ stored' = stored
          /\ socket' = [socket EXCEPT ![c] = s]
          /\ logout' = [logout EXCEPT ![c] = FALSE]
          /\ online' = [online EXCEPT ![AccountOf[c]] = TRUE]
          /\ dwInGame' = [dwInGame EXCEPT ![AccountOf[c]] = c]
      BY <1>1, PlayEnters
    <3>3. QED
      BY <3>1, <3>2 DEF Values
  <2>2. Staged'
    BY <1>1, PlayEnters DEF Values, Staged
  <2>3. QED
    BY <2>1, <2>2
<1>2. ASSUME NEW s \in Sockets, NEW valid \in BOOLEAN, Disconnect(s, valid)
      PROVE  Values' /\ Staged'
  <2>1. at' \in [Chars -> Places \cup {None}]
    <3>1. WhereAtLogOut(s, valid) \subseteq Places \cup {None}
      <4>1. currChar[s] \in Chars /\ Played(currChar[s])
        BY <1>2, DisconnectLeaves
      <4>2. at[currChar[s]] \in Places
        BY <4>1 DEF Placed, Values
      <4>3. Around[at[currChar[s]]] \subseteq Places
        BY <4>2
      <4>4. QED
        BY <4>2, <4>3 DEF WhereAtLogOut
    <3>2. PICK p \in WhereAtLogOut(s, valid) : at' = [at EXCEPT ![currChar[s]] = p]
      BY <1>2, DisconnectLeaves
    <3>3. QED
      BY <3>1, <3>2 DEF Values
  <2>2. Values'
    <3>1. /\ stage' = [stage EXCEPT ![s] = "none"]
          /\ currChar' = [currChar EXCEPT ![s] = None]
          /\ acctNo' = [acctNo EXCEPT ![s] = None]
          /\ stored' = stored
          /\ socket' = [socket EXCEPT ![currChar[s]] = None]
          /\ logout' = [logout EXCEPT ![currChar[s]] = ~valid]
          /\ online' = [online EXCEPT ![acctNo[s]] = FALSE]
          /\ dwInGame' = [dwInGame EXCEPT ![acctNo[s]] =
                            IF valid THEN None ELSE currChar[s]]
          /\ currChar[s] \in Chars
      BY <1>2, DisconnectLeaves
    <3>2. QED
      BY <2>1, <3>1 DEF Values
  <2>3. Staged'
    <3>1. /\ stage' = [stage EXCEPT ![s] = "none"]
          /\ currChar' = [currChar EXCEPT ![s] = None]
          /\ acctNo' = [acctNo EXCEPT ![s] = None]
      BY <1>2, DisconnectLeaves
    <3>2. QED
      BY <3>1 DEF Values, Staged
  <2>4. QED
    BY <2>2, <2>3
<1>3. ASSUME NEW s \in Sockets, NEW a \in Accts, FirstLogin(s, a) PROVE Values' /\ Staged'
  <2>1. Values'
    <3>1. CASE online[a]
      BY <1>3, <3>1 DEF FirstLogin, Values
    <3>2. CASE ~online[a]
      <4>1. /\ acctNo' = [acctNo EXCEPT ![s] = a]
            /\ online' = [online EXCEPT ![a] = TRUE]
            /\ UNCHANGED <<stage, currChar, socket, logout, dwInGame, stored, at>>
        BY <1>3, <3>2 DEF FirstLogin
      <4>2. QED
        BY <4>1 DEF Values
    <3>3. QED
      BY <3>1, <3>2
  <2>2. Staged'
    BY <1>3 DEF FirstLogin, Values, Staged
  <2>3. QED
    BY <2>1, <2>2
<1>4. ASSUME NEW s \in Sockets, NEW a \in Accts, SecondLogin(s, a) PROVE Values' /\ Staged'
  <2>1. Values'
    BY <1>4 DEF SecondLogin, acctVars, Values
  <2>2. Staged'
    BY <1>4 DEF SecondLogin, acctVars, Values, Staged
  <2>3. QED
    BY <2>1, <2>2
<1>5. ASSUME NEW s \in Sockets, Connect(s) \/ LoginDisconnect(s) PROVE Values' /\ Staged'
  <2>1. Values'
    BY <1>5 DEF Connect, LoginDisconnect, acctVars, Values
  <2>2. Staged'
    BY <1>5 DEF Connect, LoginDisconnect, acctVars, Values, Staged
  <2>3. QED
    BY <2>1, <2>2
<1>6. ASSUME NEW c \in Chars, NEW p \in Places, Move(c, p) PROVE Values' /\ Staged'
  BY <1>6 DEF Move, Values, Staged, conns, acctVars
<1>7. ASSUME NEW c \in Chars, LogoutTimer(c) PROVE Values' /\ Staged'
  <2>1. at' \in [Chars -> Places \cup {None}]
    BY <1>7 DEF LogoutTimer, Values
  <2>2. QED
    BY <1>7, <2>1 DEF LogoutTimer, Values, Staged, conns
<1>8. CASE AccountFlush
  BY <1>8 DEF AccountFlush, Values, Staged, ReallyOn, conns
<1>9. CASE WorldSave \/ Reload \/ UNCHANGED vars
  BY <1>9 DEF WorldSave, Reload, Values, Staged, conns, vars
<1>10. CASE Restart
  BY <1>10 DEF Restart, Values, Staged
<1>11. QED
  BY <1>1, <1>2, <1>3, <1>4, <1>5, <1>6, <1>7, <1>8, <1>9, <1>10 DEF Next

LEMMA NextPlaced == Typed /\ Placed /\ [Next]_vars => Placed'
<1> SUFFICES ASSUME Typed, Placed, [Next]_vars, NEW d \in Chars
             PROVE  (at'[d] # None) <=> (Played(d)' \/ logout'[d])
  BY DEF Placed
<1>1. ASSUME NEW s \in Sockets, NEW c \in Chars, Play(s, c)
      PROVE  (at'[d] # None) <=> (Played(d)' \/ logout'[d])
  <2>1. PICK p \in Places : at' = [at EXCEPT ![c] = p]
    BY <1>1, PlayEnters
  <2>2. logout' = [logout EXCEPT ![c] = FALSE] /\ (Played(d)' <=> Played(d) \/ d = c)
    BY <1>1, PlayEnters
  <2>3. QED
    BY <2>1, <2>2, SessionsAssumption DEF Placed, Typed, Values, Staged
<1>2. ASSUME NEW s \in Sockets, NEW valid \in BOOLEAN, Disconnect(s, valid)
      PROVE  (at'[d] # None) <=> (Played(d)' \/ logout'[d])
  <2>1. PICK p \in WhereAtLogOut(s, valid) : at' = [at EXCEPT ![currChar[s]] = p]
    BY <1>2, DisconnectLeaves
  <2>2. /\ currChar[s] \in Chars /\ Played(currChar[s]) /\ Plays(s, currChar[s])
        /\ logout' = [logout EXCEPT ![currChar[s]] = ~valid]
        /\ Played(d)' <=> \E t \in Sockets \ {s} : Plays(t, d)
    BY <1>2, DisconnectLeaves
  <2>3. CASE d # currChar[s]
    <3>1. Played(d)' <=> Played(d)
      BY <2>2, <2>3 DEF Played, Plays
    <3>2. QED
      BY <2>1, <2>2, <2>3, <3>1 DEF Placed, Typed, Values, Staged
  <2>4. CASE d = currChar[s]
    <3>1. at[d] \in Places
      BY <2>2, <2>4 DEF Placed, Typed, Values, Staged
    <3>2. at'[d] = p /\ (logout'[d] <=> ~valid)
      BY <2>1, <2>2, <2>4 DEF Typed, Values
    <3>3. CASE ~valid
      BY <2>1, <2>4, <3>1, <3>2, <3>3, SessionsAssumption DEF WhereAtLogOut
    <3>4. CASE valid
      BY <2>1, <2>2, <2>4, <3>1, <3>2, <3>4, SessionsAssumption DEF WhereAtLogOut
    <3>5. QED
      BY <3>3, <3>4
  <2>5. QED
    BY <2>3, <2>4
<1>3. CASE Restart
  BY <1>3, RestartEmpties DEF Restart
<1>4. CASE Idle
  <2>1. Played(d)' <=> Played(d)
    BY <1>4, IdleKeepsPlayed
  <2>2. ASSUME NEW c \in Chars, LogoutTimer(c)
        PROVE  (at'[d] # None) <=> (Played(d) \/ logout'[d])
    BY <2>2 DEF LogoutTimer, Placed, Typed, Values, Staged
  <2>3. ASSUME NEW c \in Chars, NEW p \in Places, Move(c, p)
        PROVE  (at'[d] # None) <=> (Played(d) \/ logout'[d])
    BY <2>3, SessionsAssumption DEF Move, Placed, Typed, Values, Staged
  <2>4. CASE at' = at /\ logout' = logout
    BY <2>1, <2>4 DEF Placed
  <2>5. \/ \E c \in Chars : LogoutTimer(c)
        \/ \E c \in Chars, p \in Places : Move(c, p)
        \/ at' = at /\ logout' = logout
    BY <1>4 DEF Idle, Connect, LoginDisconnect, FirstLogin, SecondLogin, AccountFlush,
                WorldSave, Reload, vars
  <2>6. QED
    BY <2>1, <2>2, <2>3, <2>4, <2>5
<1>5. QED
  BY <1>1, <1>2, <1>3, <1>4, NextCases

LEMMA InitTypeOK == Init => Typed /\ Placed
  BY SessionsAssumption DEF Init, Typed, Values, Staged, Placed, Played, Plays

(* Every variable of the sessions keeps its type, a connection plays a     *)
(* character exactly when it is in the world, and then one of its account, *)
(* and who is in the world, played or left standing, is somewhere.         *)
THEOREM SpecTypeOK == Spec => []TypeOK
<1>1. Init => TypeOK
  BY InitTypeOK, TypeOKIs
<1>2. TypeOK /\ [Next]_vars => TypeOK'
  <2>1. TypeOK' <=> Typed' /\ Placed'
    BY DEF TypeOK, Typed, Values, Staged, Placed
  <2>2. QED
    BY <2>1, TypeOKIs, NextTyped, NextPlaced
<1>3. QED
  BY <1>1, <1>2, PTL DEF Spec

-----------------------------------------------------------------------------
(* Connections and characters.                                             *)

LEMMA NextSocketPlays ==
  ASSUME Typed, SocketPlays, [Next]_vars
  PROVE  SocketPlays'
<1> SUFFICES ASSUME NEW d \in Chars, NEW t, socket'[d] = t, t # None
             PROVE  stage'[t] = "world" /\ currChar'[t] = d
  BY DEF SocketPlays, Plays
<1>1. socket[d] = t => t \in Sockets /\ stage[t] = "world" /\ currChar[t] = d
  BY DEF SocketPlays, Plays, Typed, Values
<1>2. ASSUME NEW s \in Sockets, NEW c \in Chars, Play(s, c)
      PROVE  stage'[t] = "world" /\ currChar'[t] = d
  <2>1. /\ stage[s] = "login"
        /\ socket' = [socket EXCEPT ![c] = s]
        /\ stage' = [stage EXCEPT ![s] = "world"]
        /\ currChar' = [currChar EXCEPT ![s] = c]
    BY <1>2, PlayEnters
  <2>2. QED
    BY <1>1, <2>1 DEF Typed, Values
<1>3. ASSUME NEW s \in Sockets, NEW valid \in BOOLEAN, Disconnect(s, valid)
      PROVE  stage'[t] = "world" /\ currChar'[t] = d
  <2>1. /\ socket' = [socket EXCEPT ![currChar[s]] = None]
        /\ currChar[s] \in Chars
        /\ stage' = [stage EXCEPT ![s] = "none"]
        /\ currChar' = [currChar EXCEPT ![s] = None]
    BY <1>3, DisconnectLeaves
  <2>2. d # currChar[s] /\ socket[d] = t
    BY <2>1 DEF Typed, Values
  <2>3. QED
    BY <1>1, <2>1, <2>2 DEF Typed, Values
<1>4. CASE Restart
  BY <1>4 DEF Restart
<1>5. CASE Idle
  <2>1. socket' = socket
    BY <1>5 DEF Idle, Connect, LoginDisconnect, FirstLogin, SecondLogin, Move, LogoutTimer,
                AccountFlush, WorldSave, Reload, vars
  <2>2. QED
    BY <1>1, <1>5, <2>1, IdleKeepsPlayed
<1>6. QED
  BY <1>2, <1>3, <1>4, <1>5, NextCases

(* LogOut, CurrcharObj: the connection that a character is said to have is *)
(* one that plays it, so it was not closed and freed, however many         *)
(* connections play the character or its account.                          *)
THEOREM SpecSocketPlays == Spec => []SocketPlays
<1>1. Init => SocketPlays
  BY DEF Init, SocketPlays
<1>2. TypeOK /\ SocketPlays /\ [Next]_vars => SocketPlays'
  BY TypeOKIs, NextSocketPlays
<1>3. QED
  BY <1>1, <1>2, SpecTypeOK, PTL DEF Spec

-----------------------------------------------------------------------------
(* Who is in the game, and who is played.                                  *)

LEMMA NextInGameAccounted ==
  ASSUME Typed, InGameAccounted, [Next]_vars
  PROVE  InGameAccounted'
<1> SUFFICES ASSUME NEW d \in Chars, dwInGame'[AccountOf[d]] = d
             PROVE  Played(d)' \/ logout'[d]
  BY DEF InGameAccounted, InGame
<1>1. AccountOf[d] \in Accts /\ d # None
  BY SessionsAssumption
<1>2. ASSUME NEW s \in Sockets, NEW c \in Chars, Play(s, c)
      PROVE  Played(d)' \/ logout'[d]
  <2>1. /\ logout' = [logout EXCEPT ![c] = FALSE]
        /\ dwInGame' = [dwInGame EXCEPT ![AccountOf[c]] = c]
        /\ Played(d)' <=> Played(d) \/ d = c
    BY <1>2, PlayEnters
  <2>2. CASE d = c
    BY <2>1, <2>2
  <2>3. CASE d # c
    <3>1. dwInGame[AccountOf[d]] = d
      BY <1>1, <2>1, <2>3 DEF Typed, Values
    <3>2. QED
      BY <2>1, <2>3, <3>1 DEF InGameAccounted, InGame, Typed, Values
  <2>4. QED
    BY <2>2, <2>3
<1>3. ASSUME NEW s \in Sockets, NEW valid \in BOOLEAN, Disconnect(s, valid)
      PROVE  Played(d)' \/ logout'[d]
  <2>1. /\ currChar[s] \in Chars /\ acctNo[s] = AccountOf[currChar[s]]
        /\ logout' = [logout EXCEPT ![currChar[s]] = ~valid]
        /\ dwInGame' = [dwInGame EXCEPT ![acctNo[s]] =
                          IF valid THEN None ELSE currChar[s]]
        /\ Played(d)' <=> \E t \in Sockets \ {s} : Plays(t, d)
    BY <1>3, DisconnectLeaves
  <2>2. CASE d = currChar[s]
    BY <1>1, <2>1, <2>2 DEF Typed, Values
  <2>3. CASE d # currChar[s]
    <3>1. dwInGame[AccountOf[d]] = d
      BY <1>1, <2>1, <2>3 DEF Typed, Values
    <3>2. ~Plays(s, d)
      BY <2>3 DEF Plays
    <3>3. Played(d) \/ logout[d]
      BY <3>1 DEF InGameAccounted, InGame
    <3>4. QED
      BY <2>1, <2>3, <3>2, <3>3 DEF Played, Typed, Values
  <2>4. QED
    BY <2>2, <2>3
<1>4. CASE Restart
  BY <1>1, <1>4 DEF Restart
<1>5. ASSUME NEW c \in Chars, LogoutTimer(c) PROVE Played(d)' \/ logout'[d]
  <2>1. /\ logout' = [logout EXCEPT ![c] = FALSE]
        /\ dwInGame' = [dwInGame EXCEPT ![AccountOf[c]] = None]
    BY <1>5 DEF LogoutTimer
  <2>2. InGame(d) /\ d # c
    BY <1>1, <2>1 DEF InGame, Typed, Values
  <2>3. Played(d)' <=> Played(d)
    BY <1>5, IdleKeepsPlayed DEF Idle
  <2>4. QED
    BY <2>1, <2>2, <2>3 DEF InGameAccounted, Typed, Values
<1>6. CASE WorldSave \/ Reload
  BY <1>1, <1>6 DEF WorldSave, Reload
<1>7. ASSUME Idle, dwInGame' = dwInGame, logout' = logout
      PROVE  Played(d)' \/ logout'[d]
  BY <1>7, IdleKeepsPlayed DEF InGameAccounted, InGame
<1>8. CASE Idle
  <2>1. \/ \E c \in Chars : LogoutTimer(c)
        \/ WorldSave \/ Reload
        \/ dwInGame' = dwInGame /\ logout' = logout
    BY <1>8 DEF Idle, Connect, LoginDisconnect, FirstLogin, SecondLogin, Move, AccountFlush,
                vars, acctVars
  <2>2. QED
    BY <1>5, <1>6, <1>7, <1>8, <2>1
<1>9. QED
  BY <1>2, <1>3, <1>4, <1>8, NextCases

(* LogOut, CheckAutoTimers: a character that its account has in the game   *)
(* is played or marked to be taken away, whoever shares the account.       *)
THEOREM SpecInGameAccounted == Spec => []InGameAccounted
<1>1. Init => InGameAccounted
  BY SessionsAssumption DEF Init, InGameAccounted, InGame
<1>2. TypeOK /\ InGameAccounted /\ [Next]_vars => InGameAccounted'
  BY TypeOKIs, NextInGameAccounted
<1>3. QED
  BY <1>1, <1>2, SpecTypeOK, PTL DEF Spec
-----------------------------------------------------------------------------
(* What others cannot take from who plays.                                 *)

(* What may end the service of s, and the refusal of others.               *)
MayEnd(s) ==
  \/ Shared(s) \/ WorldSave \/ Reload
  \/ \E c \in Chars : Plays(s, c) /\ LogoutTimer(c)

LEMMA ServedKept ==
  ASSUME Typed, [Next]_vars, NEW s \in Sockets, stage'[s] = "world",
         stage[s] = "world" => Served(s)
  PROVE  Served(s)' \/ MayEnd(s)
<1> SUFFICES ASSUME ~MayEnd(s)
             PROVE  dwInGame'[AccountOf[currChar'[s]]] = currChar'[s]
  BY DEF Served, InGame
<1>0. \A t \in Sockets : t # s => acctNo[t] # acctNo[s]
  BY DEF MayEnd, Shared
<1>a. stage[s] = "world" =>
        /\ currChar[s] \in Chars /\ acctNo[s] = AccountOf[currChar[s]]
        /\ dwInGame[acctNo[s]] = currChar[s] /\ acctNo[s] \in Accts
  BY SessionsAssumption DEF Typed, Values, Staged, Served, InGame
<1>1. ASSUME NEW t \in Sockets, NEW c \in Chars, Play(t, c)
      PROVE  dwInGame'[AccountOf[currChar'[s]]] = currChar'[s]
  <2>1. /\ acctNo[t] = AccountOf[c] /\ AccountOf[c] \in Accts
        /\ stage' = [stage EXCEPT ![t] = "world"]
        /\ currChar' = [currChar EXCEPT ![t] = c]
        /\ dwInGame' = [dwInGame EXCEPT ![AccountOf[c]] = c]
    BY <1>1, PlayEnters
  <2>2. CASE t = s
    BY <2>1, <2>2 DEF Typed, Values
  <2>3. CASE t # s
    BY <1>0, <1>a, <2>1, <2>3 DEF Typed, Values
  <2>4. QED
    BY <2>2, <2>3
<1>2. ASSUME NEW t \in Sockets, NEW valid \in BOOLEAN, Disconnect(t, valid)
      PROVE  dwInGame'[AccountOf[currChar'[s]]] = currChar'[s]
  <2>1. /\ stage' = [stage EXCEPT ![t] = "none"]
        /\ currChar' = [currChar EXCEPT ![t] = None]
        /\ dwInGame' = [dwInGame EXCEPT ![acctNo[t]] =
                          IF valid THEN None ELSE currChar[t]]
    BY <1>2, DisconnectLeaves
  <2>2. t # s
    BY <2>1 DEF Typed, Values
  <2>3. QED
    BY <1>0, <1>a, <2>1, <2>2 DEF Typed, Values
<1>3. CASE Restart
  BY <1>3 DEF Restart
<1>4. CASE Idle
  <2>1. stage[s] = "world" /\ currChar' = currChar
    BY <1>4, IdleKeepsPlayed
  <2>2. ASSUME NEW c \in Chars, LogoutTimer(c) PROVE dwInGame'[acctNo[s]] = currChar[s]
    <3>1. /\ dwInGame' = [dwInGame EXCEPT ![AccountOf[c]] = None]
          /\ dwInGame[AccountOf[c]] \in {c, None}
      BY <2>2 DEF LogoutTimer, Fades, InGame
    <3>2. c # currChar[s]
      BY <2>1, <2>2 DEF MayEnd, Plays
    <3>3. AccountOf[c] # acctNo[s]
      BY <1>a, <2>1, <3>1, <3>2, SessionsAssumption
    <3>4. QED
      BY <1>a, <2>1, <3>1, <3>3 DEF Typed, Values
  <2>3. \/ \E c \in Chars : LogoutTimer(c)
        \/ dwInGame' = dwInGame
    BY <1>4 DEF Idle, Connect, LoginDisconnect, FirstLogin, SecondLogin, Move, AccountFlush,
                vars, acctVars, MayEnd
  <2>4. QED
    BY <1>a, <2>1, <2>2, <2>3
<1>5. QED
  BY <1>1, <1>2, <1>3, <1>4, NextCases

LEMMA OnlineKept ==
  ASSUME Typed, [Next]_vars, NEW s \in Sockets, stage'[s] = "world",
         stage[s] = "world" => online[acctNo[s]]
  PROVE  online'[acctNo'[s]] \/ Shared(s) \/ Reload
<1> SUFFICES ASSUME ~Shared(s), ~Reload PROVE online'[acctNo'[s]]
  OBVIOUS
<1>0. \A t \in Sockets : t # s => acctNo[t] # acctNo[s]
  BY DEF Shared
<1>a. stage[s] = "world" =>
        /\ currChar[s] \in Chars /\ acctNo[s] = AccountOf[currChar[s]]
        /\ online[acctNo[s]] /\ acctNo[s] \in Accts
  BY SessionsAssumption DEF Typed, Values, Staged
<1>1. ASSUME NEW t \in Sockets, NEW c \in Chars, Play(t, c) PROVE online'[acctNo'[s]]
  <2>1. /\ acctNo[t] = AccountOf[c] /\ AccountOf[c] \in Accts /\ acctNo' = acctNo
        /\ stage' = [stage EXCEPT ![t] = "world"]
        /\ online' = [online EXCEPT ![AccountOf[c]] = TRUE]
    BY <1>1, PlayEnters
  <2>2. QED
    BY <1>a, <2>1 DEF Typed, Values
<1>2. ASSUME NEW t \in Sockets, NEW valid \in BOOLEAN, Disconnect(t, valid)
      PROVE  online'[acctNo'[s]]
  <2>1. /\ stage' = [stage EXCEPT ![t] = "none"]
        /\ acctNo' = [acctNo EXCEPT ![t] = None]
        /\ online' = [online EXCEPT ![acctNo[t]] = FALSE]
    BY <1>2, DisconnectLeaves
  <2>2. t # s
    BY <2>1 DEF Typed, Values
  <2>3. QED
    BY <1>0, <1>a, <2>1, <2>2 DEF Typed, Values
<1>3. CASE Restart
  BY <1>3 DEF Restart
<1>4. CASE Idle
  <2>1. stage[s] = "world" /\ currChar' = currChar
    BY <1>4, IdleKeepsPlayed
  <2>2. ASSUME NEW t \in Sockets, LoginDisconnect(t) PROVE online'[acctNo'[s]]
    <3>1. /\ stage[t] = "login"
          /\ acctNo' = [acctNo EXCEPT ![t] = None]
          /\ online' = [a \in Accts |-> online[a] /\ a # acctNo[t]]
      BY <2>2 DEF LoginDisconnect
    <3>2. t # s
      BY <2>1, <3>1
    <3>3. QED
      BY <1>0, <1>a, <2>1, <3>1, <3>2 DEF Typed, Values
  <2>3. ASSUME NEW t \in Sockets, NEW a \in Accts, FirstLogin(t, a) \/ SecondLogin(t, a)
        PROVE  online'[acctNo'[s]]
    <3>1. /\ stage[t] = "login"
          /\ \E b : acctNo' = [acctNo EXCEPT ![t] = b]
          /\ online' = online \/ online' = [online EXCEPT ![a] = TRUE]
      BY <2>3 DEF FirstLogin, SecondLogin, acctVars
    <3>2. t # s
      BY <2>1, <3>1
    <3>3. QED
      BY <1>a, <2>1, <3>1, <3>2 DEF Typed, Values
  <2>4. CASE AccountFlush
    <3>1. acctNo' = acctNo /\ online' = [a \in Accts |-> online[a] /\ ReallyOn(a)]
      BY <2>4 DEF AccountFlush, conns
    <3>2. ReallyOn(acctNo[s])
      BY <1>a, <2>1 DEF ReallyOn, Plays
    <3>3. QED
      BY <1>a, <2>1, <3>1, <3>2
  <2>5. CASE acctNo' = acctNo /\ online' = online
    BY <1>a, <2>1, <2>5
  <2>6. \/ \E t \in Sockets : LoginDisconnect(t)
        \/ \E t \in Sockets, a \in Accts : FirstLogin(t, a) \/ SecondLogin(t, a)
        \/ AccountFlush
        \/ acctNo' = acctNo /\ online' = online
    BY <1>4 DEF Idle, Connect, Move, LogoutTimer, WorldSave, vars, acctVars, conns
  <2>7. QED
    BY <2>2, <2>3, <2>4, <2>5, <2>6
<1>5. QED
  BY <1>1, <1>2, <1>3, <1>4, NextCases

(* CheckAutoTimers, Disconnect, LoginDisconnect: who is in the world is    *)
(* looked after and has its account refused to others, until a load of the *)
(* accounts or a connection with the same account takes that away.         *)
THEOREM SpecKeptWhileAlone == Spec => KeptWhileAlone
<1>1. TypeOK /\ [Next]_vars =>
        [\A s \in Sockets :
           stage'[s] = "world" =>
             /\ (stage[s] = "world" => Served(s)) =>
                  \/ Served(s)' \/ Shared(s) \/ WorldSave \/ Reload
                  \/ \E c \in Chars : Plays(s, c) /\ LogoutTimer(c)
             /\ (stage[s] = "world" => online[acctNo[s]]) =>
                  online'[acctNo'[s]] \/ Shared(s) \/ Reload]_vars
  BY TypeOKIs, ServedKept, OnlineKept DEF MayEnd
<1>2. QED
  BY <1>1, SpecTypeOK, PTL DEF Spec, KeptWhileAlone

-----------------------------------------------------------------------------
(* The promise of Presence.                                                *)

(* Where, after a step that lets one character in or leaves it to its      *)
(* timer.                                                                  *)
LEMMA WhereIs ==
  /\ Where \in [Chars -> {"played", "standing", "away"}]
  /\ \A c \in Chars :
       /\ Where[c] = "played" <=> Played(c)
       /\ Where[c] = "standing" <=> ~Played(c) /\ logout[c]
       /\ Where[c] = "away" <=> ~Played(c) /\ ~logout[c]
  BY DEF Where

LEMMA WhereThen ==
  ASSUME NEW c \in Chars, NEW w \in {"played", "standing", "away"},
         Where'[c] = w,
         \A d \in Chars : d # c =>
           (Played(d)' <=> Played(d)) /\ (logout'[d] <=> logout[d])
  PROVE  Where' = [Where EXCEPT ![c] = w]
<1>1. \A d \in Chars : d # c => Where'[d] = Where[d]
  BY DEF Where
<1>2. QED
  BY <1>1 DEF Where

LEMMA PlayKeepsPromise ==
  ASSUME Typed, Placed, NEW s \in Sockets, NEW c \in Chars, Play(s, c)
  PROVE  P!Enter(c) \/ (Where' = Where /\ at' = at)
<1>1. /\ logout' = [logout EXCEPT ![c] = FALSE]
      /\ \E p \in Places : at' = [at EXCEPT ![c] = p]
      /\ at[c] # None => at' = at
      /\ \A d \in Chars : Played(d)' <=> Played(d) \/ d = c
  BY PlayEnters
<1>2. \A d \in Chars : d # c => logout'[d] = logout[d]
  BY <1>1 DEF Typed, Values
<1>3. Where'[c] = "played"
  BY <1>1 DEF Where
<1>4. Where' = [Where EXCEPT ![c] = "played"]
  BY <1>1, <1>2, <1>3, WhereThen
<1>5. CASE Played(c)
  <2>1. Where[c] = "played" /\ at' = at
    BY <1>1, <1>5 DEF Where, Placed
  <2>2. Where' = Where
    BY <1>4, <2>1, WhereIs
  <2>3. QED
    BY <2>1, <2>2
<1>6. CASE ~Played(c)
  <2>1. Where[c] # "played" /\ (Where[c] = "standing" => at' = at)
    BY <1>1, <1>6, WhereIs DEF Placed
  <2>2. QED
    BY <1>1, <1>4, <2>1 DEF P!Enter
<1>7. QED
  BY <1>5, <1>6

LEMMA DisconnectKeepsPromise ==
  ASSUME Typed, Placed, NEW s \in Sockets, NEW valid \in BOOLEAN, Disconnect(s, valid)
  PROVE  \E c \in Chars : P!LogOut(c) \/ P!Move(c)
<1>0. PICK c \in Chars : c = currChar[s]
  BY DisconnectLeaves
<1>1. /\ Played(c) /\ Plays(s, c)
      /\ logout' = [logout EXCEPT ![c] = ~valid]
      /\ \A d \in Chars : Played(d)' <=> \E t \in Sockets \ {s} : Plays(t, d)
  BY <1>0, DisconnectLeaves
<1>2. PICK p \in WhereAtLogOut(s, valid) : at' = [at EXCEPT ![c] = p]
  BY <1>0, DisconnectLeaves
<1>3. \A d \in Chars : d # c => (Played(d)' <=> Played(d)) /\ logout'[d] = logout[d]
  BY <1>1 DEF Played, Plays, Typed, Values
<1>4. at[c] \in Places /\ Where[c] = "played"
  BY <1>1, WhereIs DEF Placed, Typed, Values
<1>5. logout'[c] <=> ~valid
  BY <1>1 DEF Typed, Values
<1>6. ~valid => p \in Places
  BY <1>0, <1>4, SessionsAssumption DEF WhereAtLogOut
<1>7. CASE \E t \in Sockets \ {s} : Plays(t, c)
  <2>1. p \in Places
    BY <1>0, <1>4, <1>6, <1>7 DEF WhereAtLogOut
  <2>2. \A d \in Chars : d # c => (Played(d)' <=> Played(d)) /\ (logout'[d] <=> logout[d])
    BY <1>3
  <2>3. Where'[c] = "played"
    BY <1>1, <1>7 DEF Where
  <2>4. Where' = [Where EXCEPT ![c] = "played"]
    BY <1>1, <2>2, <2>3, WhereThen
  <2>5. Where' = Where
    BY <1>4, <2>4, WhereIs
  <2>6. P!Move(c)
    BY <1>2, <1>4, <2>1, <2>5 DEF P!Move
  <2>7. QED
    BY <1>1, <2>6
<1>8. CASE ~\E t \in Sockets \ {s} : Plays(t, c)
  <2>1. ~Played(c)'
    BY <1>1, <1>8
  <2>2. CASE valid
    <3>1. p = None
      BY <1>0, <1>8, <2>2 DEF WhereAtLogOut
    <3>2. Where'[c] = "away"
      BY <1>1, <1>5, <2>1, <2>2 DEF Where
    <3>3. Where' = [Where EXCEPT ![c] = "away"]
      BY <1>1, <1>3, <3>2, WhereThen
    <3>4. QED
      BY <1>1, <1>2, <1>4, <3>1, <3>3 DEF P!LogOut
  <2>3. CASE ~valid
    <3>1. Where'[c] = "standing"
      BY <1>1, <1>5, <2>1, <2>3 DEF Where
    <3>2. Where' = [Where EXCEPT ![c] = "standing"]
      BY <1>1, <1>3, <3>1, WhereThen
    <3>3. QED
      BY <1>1, <1>2, <1>4, <1>6, <2>3, <3>2 DEF P!LogOut
  <2>4. QED
    BY <2>2, <2>3
<1>9. QED
  BY <1>7, <1>8

LEMMA TimerKeepsPromise ==
  ASSUME Typed, Placed, NEW c \in Chars, LogoutTimer(c)
  PROVE  P!Fade(c) \/ (Where' = Where /\ at' = at)
<1>1. \A d \in Chars : Played(d)' <=> Played(d)
  BY IdleKeepsPlayed DEF Idle
<1>2. /\ logout[c] /\ Watched(c)
      /\ logout' = [logout EXCEPT ![c] = FALSE]
      /\ at' = [at EXCEPT ![c] = IF Played(c) THEN at[c] ELSE None]
  BY DEF LogoutTimer
<1>3. \A d \in Chars : d # c => logout'[d] = logout[d]
  BY <1>2 DEF Typed, Values
<1>4. CASE Played(c)
  <2>1. at' = at
    BY <1>2, <1>4 DEF Typed, Values
  <2>2. Where' = Where
    BY <1>1, <1>3, <1>4 DEF Where
  <2>3. QED
    BY <2>1, <2>2
<1>5. CASE ~Played(c)
  <2>1. Where[c] = "standing" /\ at' = [at EXCEPT ![c] = None]
    BY <1>2, <1>5, WhereIs
  <2>2. Where'[c] = "away"
    BY <1>1, <1>2, <1>5 DEF Where, Typed, Values
  <2>3. Where' = [Where EXCEPT ![c] = "away"]
    BY <1>1, <1>3, <2>2, WhereThen
  <2>4. PICK s \in Sockets : Served(s) /\ Near(c, currChar[s])
    BY <1>2 DEF Watched
  <2>5. PICK d \in Chars : d = currChar[s]
    BY <2>4 DEF Served, Typed, Values, Staged
  <2>6. Where[d] = "played" /\ at[c] \in Around[at[d]]
    BY <2>4, <2>5, WhereIs DEF Served, Plays, Played, Near
  <2>7. QED
    BY <2>1, <2>3, <2>6 DEF P!Fade
<1>6. QED
  BY <1>4, <1>5

LEMMA NextKeepsPromise ==
  TypeOK /\ [Next]_vars => [P!Next]_<<Where, at>>
<1> SUFFICES ASSUME Typed, Placed, [Next]_vars
             PROVE  P!Next \/ (Where' = Where /\ at' = at)
  BY TypeOKIs
<1>1. ASSUME NEW s \in Sockets, NEW c \in Chars, Play(s, c)
      PROVE  P!Next \/ (Where' = Where /\ at' = at)
  BY <1>1, PlayKeepsPromise DEF P!Next
<1>2. ASSUME NEW s \in Sockets, NEW valid \in BOOLEAN, Disconnect(s, valid) PROVE P!Next
  BY <1>2, DisconnectKeepsPromise DEF P!Next
<1>3. ASSUME NEW c \in Chars, LogoutTimer(c)
      PROVE  P!Next \/ (Where' = Where /\ at' = at)
  BY <1>3, TimerKeepsPromise DEF P!Next
<1>4. ASSUME NEW c \in Chars, NEW p \in Places, Move(c, p) PROVE P!Next
  <2>1. /\ \A d \in Chars : Played(d)' <=> Played(d)
        /\ logout' = logout
        /\ at' = [at EXCEPT ![c] = p]
    BY <1>4, IdleKeepsPlayed DEF Idle, Move
  <2>2. Where' = Where /\ Where[c] # "away"
    <3>1. Where' = Where
      BY <2>1 DEF Where
    <3>2. Played(c) \/ logout[c]
      BY <1>4 DEF Move
    <3>3. QED
      BY <3>1, <3>2, WhereIs
  <2>3. P!Move(c)
    BY <2>1, <2>2 DEF P!Move
  <2>4. QED
    BY <2>3 DEF P!Next
<1>5. CASE Restart
  <2>1. \A c \in Chars : ~Played(c)' /\ ~logout'[c]
    BY <1>5, RestartEmpties DEF Restart
  <2>2. Where' = [c \in Chars |-> "away"]
    BY <2>1 DEF Where
  <2>3. P!Restart
    BY <1>5, <2>2 DEF P!Restart, Restart
  <2>4. QED
    BY <2>3 DEF P!Next
<1>6. CASE \/ \E s \in Sockets : Connect(s) \/ LoginDisconnect(s)
           \/ \E s \in Sockets, a \in Accts : FirstLogin(s, a) \/ SecondLogin(s, a)
           \/ AccountFlush \/ WorldSave \/ Reload \/ UNCHANGED vars
  <2>1. \A c \in Chars : Played(c)' <=> Played(c)
    BY <1>6, IdleKeepsPlayed DEF Idle
  <2>2. logout' = logout /\ at' = at
    BY <1>6 DEF Connect, LoginDisconnect, FirstLogin, SecondLogin, AccountFlush,
                WorldSave, Reload, vars
  <2>3. QED
    BY <2>1, <2>2 DEF Where
<1>7. QED
  BY <1>1, <1>2, <1>3, <1>4, <1>5, <1>6 DEF Next

(* Play, LogOut, CheckAutoTimers: logins, disconnections, timers, saves    *)
(* and crashes keep what Presence promises the world, with any number of   *)
(* connections on an account: nothing takes away a character that is       *)
(* played, and one left standing stays where it is until somebody who      *)
(* plays is near.                                                          *)
THEOREM SpecPresenceKept == Spec => PresenceKept
<1>1. Init => P!Init
  BY SessionsAssumption DEF Init, P!Init, Where, Played, Plays
<1>2. TypeOK /\ [Next]_vars => [P!Next]_<<Where, at>>
  BY NextKeepsPromise
<1>3. QED
  BY <1>1, <1>2, SpecTypeOK, PTL DEF Spec, PresenceKept, P!Spec
=============================================================================
