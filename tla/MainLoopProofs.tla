---------------------------- MODULE MainLoopProofs ----------------------------
(***************************************************************************)
(* Proofs about the main loop, for any connections and any length of the   *)
(* queue: the table of connections stays sound while rounds walk over it.  *)
(***************************************************************************)
EXTENDS MainLoop, Lists, TLAPS

-----------------------------------------------------------------------------
(* The invariant.  The iterator is only away from the first entry while    *)
(* the timers' loop runs, so no turn of a connection finds it past the end.*)
TableInv ==
  /\ wire \in [Sockets -> Wires]
  /\ loggedInClients \in Seq(Sockets) /\ connClients \in Seq(Sockets)
  /\ idled \in SUBSET Sockets
  /\ playersOnline = Len(connClients)
  /\ IsInjective(loggedInClients) /\ IsInjective(connClients)
  /\ ToSet(loggedInClients) \cap ToSet(connClients) = {}
  /\ \A c \in Sockets : c \in Listed <=> wire[c] \notin {"out", "dialled"}

IterInv ==
  /\ currConnIter \in 1 .. Len(connClients) + 1
  /\ pc # "timers" => currConnIter = 1

ScanInv ==
  /\ i \in Nat \ {0} /\ oldnow \in Nat
  /\ all \in SUBSET Sockets /\ errsock \in SUBSET Sockets

FlagsInv ==
  /\ pc \in {"conn", "login", "clients", "timers", "messages", "tested",
             "reloading", "join", "ended"}
  /\ keepRun \in BOOLEAN /\ messageLoop \in Seq(Messages)
  /\ reloading \in BOOLEAN /\ conthreadcloseok \in BOOLEAN
  /\ console \in {"starting", "testing", "polling", "prompt", "tested",
                  "reloading", "done"}

LoopInv == TableInv /\ IterInv /\ ScanInv /\ FlagsInv

LEMMA LoopInitInv == Init => LoopInv
<1> SUFFICES ASSUME Init PROVE LoopInv
  OBVIOUS
<1>1. /\ <<>> \in Seq(Sockets) /\ ToSet(<<>>) = {} /\ IsInjective(<<>>)
      /\ Len(<<>>) = 0
  BY EmptyList
<1>2. TableInv
  BY <1>1 DEF Init, TableInv, Wires, Listed
<1>3. IterInv /\ ScanInv
  BY <1>1 DEF Init, IterInv, ScanInv
<1>4. <<>> \in Seq(Messages)
  BY EmptyList
<1>5. FlagsInv
  BY <1>4 DEF Init, FlagsInv
<1> QED
  BY <1>2, <1>3, <1>5 DEF LoopInv

-----------------------------------------------------------------------------
(* What steps do to the table.                                             *)

(* Whatever the network does to open connections, they stay listed.        *)
SameOpen(w) ==
  /\ w \in [Sockets -> Wires]
  /\ \A c \in Sockets :
       w[c] \notin {"out", "dialled"} <=> wire[c] \notin {"out", "dialled"}

LEMMA TableKept ==
  ASSUME TableInv, SameOpen(wire'), idled' \in SUBSET Sockets,
         UNCHANGED <<loggedInClients, connClients, playersOnline>>
  PROVE  TableInv'
BY DEF TableInv, SameOpen, Listed

LEMMA HeardOpen ==
  ASSUME TableInv, NEW c \in Listed
  PROVE  c \in Sockets /\ SameOpen(Heard(c))
<1>1. c \in Sockets
  <2>1. ToSet(loggedInClients) \subseteq Sockets
    BY ElementsOf DEF TableInv
  <2>2. ToSet(connClients) \subseteq Sockets
    BY ElementsOf DEF TableInv
  <2> QED
    BY <2>1, <2>2 DEF Listed
<1> QED
  BY <1>1 DEF TableInv, SameOpen, Heard, Wires

(* A connection that logs in is dropped.                                   *)
LEMMA LoginDropped ==
  ASSUME TableInv, NEW n \in DOMAIN loggedInClients,
         loggedInClients' = RemoveAt(loggedInClients, n),
         wire' = Closed(loggedInClients[n]),
         UNCHANGED <<connClients, playersOnline, idled>>
  PROVE  TableInv'
<1> DEFINE c == loggedInClients[n]
           l == RemoveAt(loggedInClients, n)
<1>1. /\ l \in Seq(Sockets) /\ IsInjective(l)
      /\ ToSet(l) = ToSet(loggedInClients) \ {c}
  BY ShortenedList DEF TableInv
<1>2. c \in ToSet(loggedInClients) /\ c \in Sockets
  BY ElementsOf DEF TableInv
<1>3. loggedInClients' = l /\ wire' = [wire EXCEPT ![c] = "out"]
  BY DEF Closed
<1> HIDE DEF c, l
<1> QED
  BY <1>1, <1>2, <1>3 DEF TableInv, Listed, Wires

(* A connection in the game is dropped, of a network that is w by then.    *)
LEMMA ClientDropped ==
  ASSUME TableInv, NEW n \in DOMAIN connClients, NEW w, SameOpen(w),
         connClients' = RemoveAt(connClients, n),
         wire' = [w EXCEPT ![connClients[n]] = "out"],
         playersOnline' = OnlineAfterDisconnect,
         idled' \in SUBSET Sockets,
         UNCHANGED loggedInClients
  PROVE  TableInv' /\ Len(connClients') = Len(connClients) - 1
<1> DEFINE c == connClients[n]
           l == RemoveAt(connClients, n)
<1>1. /\ l \in Seq(Sockets) /\ IsInjective(l) /\ Len(l) = Len(connClients) - 1
      /\ ToSet(l) = ToSet(connClients) \ {c}
  BY ShortenedList DEF TableInv
<1>2. c \in ToSet(connClients) /\ c \in Sockets
  BY ElementsOf DEF TableInv
<1>3. /\ connClients' = l /\ wire' = [w EXCEPT ![c] = "out"]
      /\ playersOnline' = playersOnline - 1
  BY DEF OnlineAfterDisconnect
<1> HIDE DEF c, l
<1>4. playersOnline' = Len(l)
  BY <1>1, <1>3 DEF TableInv
<1> QED
  BY <1>1, <1>2, <1>3, <1>4 DEF TableInv, Listed, Wires, SameOpen

(* A client is accepted.                                                   *)
LEMMA ClientJoined ==
  ASSUME TableInv, NEW c \in Sockets, wire[c] = "dialled", wire' = Heard(c),
         loggedInClients' = Append(loggedInClients, c),
         UNCHANGED <<connClients, playersOnline, idled>>
  PROVE  TableInv'
<1> DEFINE l == Append(loggedInClients, c)
<1>1. c \notin Listed
  BY DEF TableInv
<1>2. /\ l \in Seq(Sockets) /\ IsInjective(l)
      /\ ToSet(l) = ToSet(loggedInClients) \cup {c}
  BY <1>1, AppendedList DEF TableInv, Listed
<1>3. loggedInClients' = l /\ wire' = [wire EXCEPT ![c] = "quiet"]
  BY DEF Heard
<1> HIDE DEF l
<1> QED
  BY <1>1, <1>2, <1>3 DEF TableInv, Listed, Wires

(* A connection goes from one list to the other.                           *)
LEMMA ClientTransferred ==
  ASSUME TableInv, NEW n \in DOMAIN loggedInClients, Transfer(n)
  PROVE  TableInv' /\ Len(connClients') = Len(connClients) + 1
<1> DEFINE c == loggedInClients[n]
           l == RemoveAt(loggedInClients, n)
           g == Append(connClients, c)
<1>1. /\ l \in Seq(Sockets) /\ IsInjective(l)
      /\ ToSet(l) = ToSet(loggedInClients) \ {c}
  BY ShortenedList DEF TableInv
<1>2. c \in ToSet(loggedInClients) /\ c \in Sockets
  BY ElementsOf DEF TableInv
<1>3. /\ loggedInClients' = l /\ wire' = [wire EXCEPT ![c] = "quiet"]
      /\ connClients' = g /\ playersOnline' = Len(connClients) + 1
      /\ idled' = idled
  BY DEF Transfer, Heard, OnlineAfterTransfer
<1> HIDE DEF c, l
<1>4. /\ g \in Seq(Sockets) /\ IsInjective(g)
      /\ ToSet(g) = ToSet(connClients) \cup {c}
  BY <1>2, AppendedList DEF TableInv
<1>5. Len(g) = Len(connClients) + 1
  BY <1>2, AppendProperties DEF TableInv
<1> HIDE DEF g
<1> QED
  BY <1>1, <1>2, <1>3, <1>4, <1>5 DEF TableInv, Listed, Wires

-----------------------------------------------------------------------------
(* The clients' own steps, and idleness.                                   *)
LEMMA ClientsInv == LoopInv /\ Clients => LoopInv'
<1> SUFFICES ASSUME LoopInv, NEW c \in Sockets,
                    Dial(c) \/ Talk(c) \/ HangUp(c) \/ Break(c) \/ GrowIdle(c)
             PROVE  LoopInv'
  BY DEF Clients
<1>1. SameOpen(wire')
  BY DEF Dial, Talk, HangUp, Break, GrowIdle, Changes, SameOpen, LoopInv,
         TableInv, Wires
<1>2. idled' \in SUBSET Sockets
  BY DEF Dial, Talk, HangUp, Break, GrowIdle, Changes, table, LoopInv, TableInv
<1>3. UNCHANGED <<loggedInClients, connClients, playersOnline>>
  BY DEF Dial, Talk, HangUp, Break, GrowIdle, Changes, table
<1>4. UNCHANGED <<scan, currConnIter, pc, rest>>
  BY DEF Dial, Talk, HangUp, Break, GrowIdle, Changes
<1>5. TableInv'
  BY <1>1, <1>2, <1>3, TableKept DEF LoopInv
<1>6. IterInv' /\ ScanInv' /\ FlagsInv'
  BY <1>3, <1>4 DEF IterInv, ScanInv, FlagsInv, LoopInv, scan, rest
<1> QED
  BY <1>5, <1>6 DEF LoopInv

-----------------------------------------------------------------------------
(* A scan begins with sets of connections.                                 *)
LEMMA ScanBegins ==
  ASSUME NEW list \in Seq(Sockets), NEW w, NEW size \in Nat,
         BeginScan(list, w, size)
  PROVE  ScanInv'
<1>1. ToSet(list) \subseteq Sockets
  BY ElementsOf
<1> QED
  BY <1>1 DEF BeginScan, ScanInv, Readable, Failing

LEMMA RestKept ==
  ASSUME FlagsInv, UNCHANGED rest,
         pc' \in {"conn", "login", "clients", "timers", "messages", "tested",
                  "reloading", "join", "ended"}
  PROVE  FlagsInv'
BY DEF FlagsInv, rest

LEMMA AcceptsInv ==
  ASSUME LoopInv, (\E c \in Sockets : Accept(c) \/ Block(c)) \/ AcceptNobody
  PROVE  LoopInv'
<1>1. pc = "conn" /\ pc' = "login"
  BY DEF Accept, Block, AcceptNobody
<1>2. UNCHANGED <<connClients, currConnIter, rest>>
  BY DEF Accept, Block, AcceptNobody, table
<1>3. TableInv'
  <2>1. CASE \E c \in Sockets : Accept(c)
    BY <2>1, ClientJoined DEF Accept, LoopInv
  <2>2. CASE \E c \in Sockets : Block(c)
    <3>1. SameOpen(wire')
      BY <2>2 DEF Block, Closed, SameOpen, LoopInv, TableInv, Wires
    <3> QED
      BY <2>2, <3>1, TableKept DEF Block, table, LoopInv, TableInv
  <2>3. CASE AcceptNobody
    <3>1. SameOpen(wire')
      BY <2>3 DEF AcceptNobody, SameOpen, LoopInv, TableInv
    <3> QED
      BY <2>3, <3>1, TableKept DEF AcceptNobody, table, LoopInv, TableInv
  <2> QED
    BY <2>1, <2>2, <2>3
<1>4. ScanInv'
  <2>1. BeginScan(loggedInClients', wire', Len(loggedInClients'))
    BY DEF Accept, Block, AcceptNobody, BeginScan, table
  <2>2. loggedInClients' \in Seq(Sockets) /\ Len(loggedInClients') \in Nat
    BY <1>3, LenProperties DEF TableInv
  <2> QED
    BY <2>1, <2>2, ScanBegins
<1>5. IterInv'
  BY <1>1, <1>2 DEF IterInv, LoopInv
<1> QED
  BY <1>1, <1>2, <1>3, <1>4, <1>5, RestKept DEF LoopInv

(* A turn takes the index on and leaves the rest of the scan as it was.    *)
LEMMA TurnTaken ==
  ASSUME LoopInv, NextTurn, pc # "timers", currConnIter' = 1
  PROVE  ScanInv' /\ FlagsInv' /\ (TableInv' => IterInv')
<1>1. ScanInv'
  BY DEF NextTurn, ScanInv, LoopInv
<1>2. FlagsInv'
  BY RestKept DEF NextTurn, FlagsInv, LoopInv
<1>3. ASSUME TableInv' PROVE IterInv'
  <2>1. Len(connClients') \in Nat
    BY <1>3, LenProperties DEF TableInv
  <2> QED
    BY <2>1 DEF IterInv, NextTurn
<1> QED
  BY <1>1, <1>2, <1>3

LEMMA LoginAt ==
  ASSUME LoopInv, LoginTurn
  PROVE  i \in DOMAIN loggedInClients /\ loggedInClients[i] \in Listed
<1>1. i \in DOMAIN loggedInClients
  BY ElementsOf DEF LoginTurn, LoopInv, TableInv, ScanInv
<1> QED
  BY <1>1 DEF Listed, ToSet

LEMMA LoginTurnsInv ==
  ASSUME LoopInv,
         LoginPasses \/ LoginFails \/ LoginAnswered \/ LoginLeaves
           \/ Enters \/ EntersInVain
  PROVE  LoopInv'
<1>1. LoginTurn /\ pc # "timers" /\ NextTurn
  BY DEF LoginPasses, LoginFails, LoginAnswered, LoginLeaves, Enters,
         EntersInVain, LoginReads, LoginTurn
<1>2. i \in DOMAIN loggedInClients /\ loggedInClients[i] \in Listed
  BY <1>1, LoginAt
<1>3. currConnIter' = 1
  <2>1. currConnIter' = currConnIter
    BY DEF LoginPasses, LoginFails, LoginAnswered, LoginLeaves, Enters,
           EntersInVain, LoginDisconnect, Transfer
  <2> QED
    BY <1>1, <2>1 DEF LoopInv, IterInv
<1>4. TableInv'
  <2>1. CASE LoginPasses
    <3>1. SameOpen(wire')
      BY <2>1 DEF LoginPasses, SameOpen, LoopInv, TableInv
    <3> QED
      BY <2>1, <3>1, TableKept DEF LoginPasses, table, LoopInv, TableInv
  <2>2. CASE LoginFails \/ LoginLeaves
    <3>1. LoginDisconnect(i)
      BY <2>2 DEF LoginFails, LoginLeaves
    <3> QED
      BY <1>2, <3>1, LoginDropped DEF LoginDisconnect, LoopInv
  <2>3. CASE LoginAnswered
    <3>1. SameOpen(wire')
      BY <1>2, <2>3, HeardOpen DEF LoginAnswered, LoopInv
    <3> QED
      BY <2>3, <3>1, TableKept DEF LoginAnswered, table, LoopInv, TableInv
  <2>4. CASE Enters
    BY <1>2, <2>4, ClientTransferred DEF Enters, LoopInv
  <2>5. CASE EntersInVain
    <3>1. playersOnline' = playersOnline
      BY <2>5 DEF EntersInVain, LoopInv, TableInv
    <3> QED
      BY <1>2, <2>5, <3>1, LoginDropped DEF EntersInVain, LoopInv
  <2> QED
    BY <2>1, <2>2, <2>3, <2>4, <2>5
<1> QED
  BY <1>1, <1>3, <1>4, TurnTaken DEF LoopInv

LEMMA LoginDoneInv == LoopInv /\ LoginDone => LoopInv'
<1> SUFFICES ASSUME LoopInv, LoginDone PROVE LoopInv'
  OBVIOUS
<1>1. /\ pc = "login" /\ pc' = "clients"
      /\ UNCHANGED <<wire, table, currConnIter, rest>>
  BY DEF LoginDone
<1>2. TableInv'
  <2>1. SameOpen(wire')
    BY <1>1 DEF SameOpen, LoopInv, TableInv
  <2> QED
    BY <1>1, <2>1, TableKept DEF table, LoopInv, TableInv
<1>3. ScanInv'
  BY ScanBegins, LenProperties DEF LoginDone, LoopInv, TableInv
<1>4. IterInv'
  BY <1>1 DEF IterInv, LoopInv, table
<1> QED
  BY <1>1, <1>2, <1>3, <1>4, RestKept DEF LoopInv

-----------------------------------------------------------------------------
(* The turns of connections in the game.                                   *)
LEMMA ClientAt ==
  ASSUME LoopInv, ClientTurn
  PROVE  i \in DOMAIN connClients /\ Current \in Listed
<1>1. i \in DOMAIN connClients
  BY ElementsOf DEF ClientTurn, LoopInv, TableInv, ScanInv
<1> QED
  BY <1>1 DEF Listed, ToSet, Current

LEMMA TurnDisconnects ==
  ASSUME LoopInv, ClientTurn, NEW n \in DOMAIN connClients, NEW w,
         SameOpen(w), Disconnect(n, w), NextTurn
  PROVE  LoopInv'
<1>1. TableInv'
  BY ClientDropped DEF Disconnect, LoopInv, TableInv
<1>2. pc # "timers" /\ currConnIter = 1
  BY DEF ClientTurn, LoopInv, IterInv
<1>3. currConnIter' = 1
  BY <1>2 DEF Disconnect, IterAfterDisconnect
<1> QED
  BY <1>1, <1>2, <1>3, TurnTaken DEF LoopInv

LEMMA TurnsInv ==
  ASSUME LoopInv,
         \/ ClientPasses \/ ClientFails \/ ClientServed \/ ClientLeaves
         \/ \E n \in 1 .. Len(connClients) : Kick(n)
  PROVE  LoopInv'
<1>1. ClientTurn /\ pc # "timers" /\ NextTurn
  BY DEF ClientPasses, ClientFails, ClientServed, ClientLeaves, Kick,
         ClientReads, ClientTurn
<1>2. i \in DOMAIN connClients /\ Current \in Listed
  BY <1>1, ClientAt
<1>3. SameOpen(wire) /\ SameOpen(Heard(Current))
  BY <1>2, HeardOpen DEF SameOpen, LoopInv, TableInv
<1>4. CASE ClientPasses
  <2>1. TableInv'
    BY <1>3, <1>4, TableKept DEF ClientPasses, table, SameOpen, LoopInv, TableInv
  <2>2. currConnIter' = 1
    BY <1>1, <1>4 DEF ClientPasses, LoopInv, IterInv
  <2> QED
    BY <1>1, <2>1, <2>2, TurnTaken DEF LoopInv
<1>5. CASE ClientServed
  <2>1. /\ wire' = Heard(Current) /\ idled' = idled \ {Current}
        /\ UNCHANGED <<loggedInClients, connClients, playersOnline, currConnIter>>
    BY <1>5 DEF ClientServed
  <2>2. SameOpen(wire') /\ idled' \in SUBSET Sockets
    BY <1>3, <2>1 DEF LoopInv, TableInv
  <2>3. TableInv'
    BY <2>1, <2>2, TableKept DEF LoopInv
  <2>4. currConnIter' = 1
    BY <1>1, <2>1 DEF LoopInv, IterInv
  <2> QED
    BY <1>1, <2>3, <2>4, TurnTaken DEF LoopInv
<1>6. CASE ClientFails \/ ClientLeaves
  BY <1>1, <1>2, <1>3, <1>6, TurnDisconnects DEF ClientFails, ClientLeaves
<1>7. CASE \E n \in 1 .. Len(connClients) : Kick(n)
  <2>1. PICK n \in 1 .. Len(connClients) : Kick(n)
    BY <1>7
  <2>2. n \in DOMAIN connClients
    BY ElementsOf DEF LoopInv, TableInv
  <2> QED
    BY <1>1, <1>3, <2>1, <2>2, TurnDisconnects DEF Kick
<1> QED
  BY <1>4, <1>5, <1>6, <1>7

(* Turns after which other turns, or the messages, find something else.    *)
LEMMA StrangeTurnsInv ==
  ASSUME LoopInv, Strange \/ \E m \in Messages : Tell(m)
  PROVE  LoopInv'
<1>1. /\ ClientTurn /\ pc = "clients" /\ i' = i + 1
      /\ wire' = Heard(Current) /\ idled' = idled \ {Current}
      /\ UNCHANGED <<loggedInClients, connClients, playersOnline, errsock,
                     oldnow, currConnIter, pc, keepRun, reloading,
                     conthreadcloseok, console>>
      /\ all' \in {all, {}}
  BY DEF Strange, Tell, AllAfterStrange, ClientReads, ClientTurn, rest
<1>2. SameOpen(wire')
  BY <1>1, ClientAt, HeardOpen DEF LoopInv
<1>3. TableInv'
  BY <1>1, <1>2, TableKept DEF LoopInv, TableInv
<1>4. ScanInv' /\ IterInv'
  BY <1>1 DEF LoopInv, ScanInv, IterInv
<1>5. messageLoop' \in Seq(Messages)
  <2>1. CASE Strange
    BY <2>1 DEF Strange, rest, LoopInv, FlagsInv
  <2>2. CASE \E m \in Messages : Tell(m)
    BY <2>2, AppendProperties DEF Tell, Post, LoopInv, FlagsInv
  <2> QED
    BY <2>1, <2>2
<1>6. FlagsInv'
  BY <1>1, <1>5 DEF LoopInv, FlagsInv
<1> QED
  BY <1>3, <1>4, <1>6 DEF LoopInv

LEMMA ClientsDoneInv == LoopInv /\ ClientsDone => LoopInv'
<1> SUFFICES ASSUME LoopInv, ClientsDone PROVE LoopInv'
  OBVIOUS
<1>1. /\ pc' \in {"messages", "timers"} /\ currConnIter' = 1
      /\ all' = {} /\ errsock' = {} /\ i' = 1 /\ oldnow' = 0
      /\ UNCHANGED <<wire, table, rest>>
  BY DEF ClientsDone
<1>2. TableInv'
  <2>1. SameOpen(wire')
    BY <1>1 DEF SameOpen, LoopInv, TableInv
  <2> QED
    BY <1>1, <2>1, TableKept DEF table, LoopInv, TableInv
<1>3. IterInv'
  BY <1>1, <1>2, LenProperties DEF TableInv, IterInv
<1>4. ScanInv'
  BY <1>1 DEF ScanInv
<1> QED
  BY <1>1, <1>2, <1>3, <1>4, RestKept DEF LoopInv

-----------------------------------------------------------------------------
(* The timers' loop.  Its own disconnections step the iterator back and    *)
(* forth again: it never passes the end.                                   *)
LEMMA IdlePassesInv == LoopInv /\ IdlePasses => LoopInv'
<1> SUFFICES ASSUME LoopInv, IdlePasses PROVE LoopInv'
  OBVIOUS
<1>1. /\ pc = "timers" /\ ~Finished
      /\ currConnIter' = NextOf(currConnIter, connClients)
      /\ UNCHANGED <<wire, table, scan, pc, rest>>
  BY DEF IdlePasses
<1>2. TableInv'
  <2>1. SameOpen(wire')
    BY <1>1 DEF SameOpen, LoopInv, TableInv
  <2> QED
    BY <1>1, <2>1, TableKept DEF table, LoopInv, TableInv
<1>3. IterInv'
  <2>1. Len(connClients) \in Nat
    BY LenProperties DEF LoopInv, TableInv
  <2> QED
    BY <1>1, <2>1 DEF LoopInv, IterInv, Finished, NextOf, table
<1>4. ScanInv'
  BY <1>1 DEF ScanInv, LoopInv, scan
<1>5. FlagsInv'
  BY <1>1 DEF FlagsInv, LoopInv, rest
<1> QED
  BY <1>2, <1>3, <1>4, <1>5 DEF LoopInv

LEMMA IdleKickedInv == LoopInv /\ IdleKicked => LoopInv'
<1> SUFFICES ASSUME LoopInv, IdleKicked PROVE LoopInv'
  OBVIOUS
<1> DEFINE n == currConnIter
<1>1. /\ pc = "timers" /\ n # Len(connClients) + 1
      /\ connClients' = RemoveAt(connClients, n)
      /\ wire' = [wire EXCEPT ![connClients[n]] = "out"]
      /\ playersOnline' = OnlineAfterDisconnect
      /\ idled' = idled \ {connClients[n]}
      /\ \/ currConnIter' = NextOf(IterAfterDisconnect(n), connClients')
         \/ currConnIter' = Len(connClients') + 1
      /\ UNCHANGED <<loggedInClients, scan, pc, rest>>
  BY DEF IdleKicked, Closed, Finished
<1>2. /\ Len(connClients) \in Nat /\ DOMAIN connClients = 1 .. Len(connClients)
      /\ n \in 1 .. Len(connClients)
  <2>1. Len(connClients) \in Nat /\ DOMAIN connClients = 1 .. Len(connClients)
    BY LenProperties DEF LoopInv, TableInv
  <2> QED
    BY <1>1, <2>1 DEF LoopInv, IterInv
<1>3. SameOpen(wire) /\ idled' \in SUBSET Sockets
  BY <1>1 DEF SameOpen, LoopInv, TableInv
<1>4. TableInv' /\ Len(connClients') = Len(connClients) - 1
  BY <1>1, <1>2, <1>3, ClientDropped DEF LoopInv
<1>5. IterInv'
  <2>1. pc' = "timers" /\ Len(connClients') + 1 = Len(connClients)
    BY <1>1, <1>2, <1>4
  <2>2. IterAfterDisconnect(n) = IF n > 1 THEN n - 1 ELSE n
    BY <1>2 DEF IterAfterDisconnect
  <2>3. currConnIter' \in 1 .. Len(connClients)
    BY <1>1, <1>2, <2>1, <2>2 DEF NextOf
  <2> QED
    BY <2>1, <2>3 DEF IterInv
<1>6. ScanInv'
  BY <1>1 DEF ScanInv, LoopInv, scan
<1>7. FlagsInv'
  BY <1>1 DEF FlagsInv, LoopInv, rest
<1> QED
  BY <1>4, <1>5, <1>6, <1>7 DEF LoopInv

LEMMA TimersEndInv == LoopInv /\ (JustSaved \/ TimersDone) => LoopInv'
<1> SUFFICES ASSUME LoopInv, JustSaved \/ TimersDone PROVE LoopInv'
  OBVIOUS
<1>1. /\ pc' = "messages" /\ currConnIter' = 1 /\ idled' \in {{}, idled}
      /\ UNCHANGED <<wire, loggedInClients, connClients, playersOnline, scan, rest>>
  BY DEF JustSaved, TimersDone, table
<1>2. TableInv'
  <2>1. SameOpen(wire') /\ idled' \in SUBSET Sockets
    BY <1>1 DEF SameOpen, LoopInv, TableInv
  <2> QED
    BY <1>1, <2>1, TableKept DEF LoopInv
<1>3. IterInv'
  BY <1>1, <1>2, LenProperties DEF TableInv, IterInv
<1>4. ScanInv'
  BY <1>1 DEF ScanInv, LoopInv, scan
<1> QED
  BY <1>1, <1>2, <1>3, <1>4, RestKept DEF LoopInv

-----------------------------------------------------------------------------
(* The messages, the reloads and the console leave the table alone.        *)
LEMMA TableAlone ==
  ASSUME LoopInv, UNCHANGED <<wire, table, scan, currConnIter>>,
         (pc' # "timers" /\ pc # "timers") \/ pc' = pc, FlagsInv'
  PROVE  LoopInv'
<1>1. TableInv'
  <2>1. SameOpen(wire')
    BY DEF SameOpen, LoopInv, TableInv
  <2> QED
    BY <2>1, TableKept DEF table, LoopInv, TableInv
<1>2. IterInv'
  BY DEF IterInv, LoopInv, table
<1>3. ScanInv'
  BY DEF ScanInv, LoopInv, scan
<1> QED
  BY <1>1, <1>2, <1>3 DEF LoopInv

LEMMA MessagesInv ==
  ASSUME LoopInv,
         \/ GrabShutdown \/ GrabReload \/ BeginMainReload \/ EndMainReload
         \/ NextRound \/ Join
  PROVE  LoopInv'
<1>1. CASE GrabShutdown \/ GrabReload
  <2>1. /\ UNCHANGED <<wire, table, scan, currConnIter, conthreadcloseok, console>>
        /\ pc = "messages" /\ pc' \in {"messages", "tested"}
        /\ keepRun' \in {keepRun, FALSE} /\ reloading' = reloading
        /\ messageLoop # <<>> /\ messageLoop' = Tail(messageLoop)
    BY <1>1 DEF GrabShutdown, GrabReload, Grab
  <2>2. messageLoop' \in Seq(Messages)
    BY <2>1, HeadTailProperties DEF LoopInv, FlagsInv
  <2>3. FlagsInv'
    BY <2>1, <2>2 DEF LoopInv, FlagsInv
  <2> QED
    BY <2>1, <2>3, TableAlone
<1>2. CASE BeginMainReload \/ EndMainReload
  <2>1. /\ UNCHANGED <<wire, table, scan, currConnIter, keepRun, messageLoop,
                       conthreadcloseok, console>>
        /\ pc \in {"tested", "reloading"} /\ pc' \in {"reloading", "messages"}
        /\ reloading' \in BOOLEAN
    BY <1>2 DEF BeginMainReload, EndMainReload, MainReload
  <2>2. FlagsInv'
    BY <2>1 DEF LoopInv, FlagsInv
  <2> QED
    BY <2>1, <2>2, TableAlone
<1>3. CASE NextRound \/ Join
  <2>1. /\ UNCHANGED <<wire, table, scan, currConnIter, rest>>
        /\ pc # "timers" /\ pc' \in {"conn", "ended"}
    BY <1>3 DEF NextRound, Join
  <2>2. FlagsInv'
    BY <2>1, RestKept DEF LoopInv
  <2> QED
    BY <2>1, <2>2, TableAlone
<1> QED
  BY <1>1, <1>2, <1>3

LEMMA BeginShutdownInv == LoopInv /\ BeginShutdown => LoopInv'
<1> SUFFICES ASSUME LoopInv, BeginShutdown PROVE LoopInv'
  OBVIOUS
<1>1. /\ pc = "messages" /\ pc' = "join" /\ conthreadcloseok' = TRUE
      /\ wire' = [c \in Sockets |-> "out"]
      /\ loggedInClients' = <<>> /\ connClients' = <<>> /\ idled' = {}
      /\ playersOnline' = 0
      /\ UNCHANGED <<scan, currConnIter, keepRun, messageLoop, reloading, console>>
  BY DEF BeginShutdown
<1>2. /\ <<>> \in Seq(Sockets) /\ ToSet(<<>>) = {} /\ IsInjective(<<>>)
      /\ Len(<<>>) = 0
  BY EmptyList
<1>3. TableInv'
  BY <1>1, <1>2 DEF TableInv, Listed, Wires
<1>4. IterInv'
  <2>1. currConnIter' = 1 /\ Len(connClients') + 1 = 1
    BY <1>1, <1>2 DEF IterInv, LoopInv
  <2> QED
    BY <2>1 DEF IterInv
<1>5. ScanInv'
  BY <1>1 DEF ScanInv, LoopInv, scan
<1>6. FlagsInv'
  BY <1>1 DEF FlagsInv, LoopInv
<1> QED
  BY <1>3, <1>4, <1>5, <1>6 DEF LoopInv

LEMMA ConsoleInv == LoopInv /\ Console => LoopInv'
<1> SUFFICES ASSUME LoopInv, Console PROVE LoopInv'
  OBVIOUS
<1>1. /\ UNCHANGED <<wire, table, scan, currConnIter, pc, keepRun>>
      /\ console' \in {"starting", "testing", "polling", "prompt", "tested",
                       "reloading", "done"}
  BY DEF Console, ConsoleStarts, ConsoleTests, NoKey, QuitKey, PromptKey,
         EndPrompt, ReloadKey, BeginConsoleReload, EndConsoleReload, ConsoleGoes
<1>2. reloading' \in BOOLEAN /\ conthreadcloseok' \in BOOLEAN
  BY DEF Console, ConsoleStarts, ConsoleTests, NoKey, QuitKey, PromptKey,
         EndPrompt, ReloadKey, BeginConsoleReload, EndConsoleReload, LoopInv,
         FlagsInv
<1>3. messageLoop' \in Seq(Messages)
  <2>1. CASE QuitKey
    BY <2>1, AppendProperties DEF QuitKey, Post, LoopInv, FlagsInv, Messages
  <2>2. CASE ~QuitKey
    BY <2>2 DEF Console, ConsoleStarts, ConsoleTests, NoKey, PromptKey,
           EndPrompt, ReloadKey, BeginConsoleReload, EndConsoleReload, LoopInv,
           FlagsInv
  <2> QED
    BY <2>1, <2>2
<1>4. FlagsInv'
  BY <1>1, <1>2, <1>3 DEF LoopInv, FlagsInv
<1> QED
  BY <1>1, <1>4, TableAlone

-----------------------------------------------------------------------------
LEMMA LoopStepInv == LoopInv /\ [Next]_vars => LoopInv'
<1> SUFFICES ASSUME LoopInv, [Next]_vars PROVE LoopInv'
  OBVIOUS
<1>1. CASE Clients
  BY <1>1, ClientsInv
<1>2. CASE Logins
  BY <1>2, AcceptsInv, LoginTurnsInv, LoginDoneInv DEF Logins
<1>3. CASE Turns
  BY <1>3, TurnsInv, StrangeTurnsInv, ClientsDoneInv DEF Turns
<1>4. CASE Timers
  BY <1>4, IdlePassesInv, IdleKickedInv, TimersEndInv DEF Timers
<1>5. CASE Rounds
  BY <1>5, MessagesInv, BeginShutdownInv DEF Rounds
<1>6. CASE Console
  BY <1>6, ConsoleInv
<1>7. CASE Ended \/ UNCHANGED vars
  <2>1. UNCHANGED <<wire, table, scan, currConnIter, pc, rest>>
    BY <1>7 DEF Ended, vars
  <2>2. FlagsInv'
    BY <2>1 DEF LoopInv, FlagsInv, rest
  <2> QED
    BY <2>1, <2>2, TableAlone
<1> QED
  BY <1>1, <1>2, <1>3, <1>4, <1>5, <1>6, <1>7 DEF Next, Main

(* The invariant holds in every reachable state.                            *)
THEOREM SpecLoopInv == Spec => []LoopInv
BY LoopInitInv, LoopStepInv, PTL DEF Spec

(* The table, the scan, the queue and both threads keep their shape.        *)
THEOREM SpecTypeOK == Spec => []TypeOK
<1>1. LoopInv => TypeOK
  <2> SUFFICES ASSUME LoopInv PROVE TypeOK
    OBVIOUS
  <2>1. Len(connClients) \in Nat
    BY LenProperties DEF LoopInv, TableInv
  <2> QED
    BY <2>1 DEF LoopInv, TableInv, IterInv, ScanInv, FlagsInv, TypeOK
<1> QED
  BY <1>1, SpecLoopInv, PTL

(* The count of players, the two lists and the sockets always agree.        *)
THEOREM SpecTableSound == Spec => []TableSound
<1>1. LoopInv => TableSound
  BY JoinedLists DEF LoopInv, TableInv, TableSound
<1> QED
  BY <1>1, SpecLoopInv, PTL

-----------------------------------------------------------------------------
(* What select said of what is still to come, as turns are taken.          *)
Holds(list, k, a, e, w) ==
  \A n \in k .. Len(list) :
    /\ list[n] \in a => w[list[n]] \in {"ready", "closed", "broken"}
    /\ list[n] \in e => w[list[n]] = "broken"

LEMMA PendingHolds ==
  ASSUME NEW list
  PROVE  Pending(list) <=> Holds(list, i, all, errsock, wire)
BY DEF Pending, Holds

(* A turn changes the wire of those before the next index, of itself, and  *)
(* of whom it takes off the list.                                          *)
LEMMA TurnHolds ==
  ASSUME NEW l \in Seq(Sockets), IsInjective(l), NEW k \in DOMAIN l,
         NEW a, NEW e, NEW w, NEW v, Holds(l, k, a, e, w),
         NEW s, s = l \/ \E n \in DOMAIN l : s = RemoveAt(l, n),
         \A x \in ToSet(s) \ {l[k]} : v[x] = w[x]
  PROVE  Holds(s, k + 1, a, e, v)
<1>0. /\ Len(l) \in Nat /\ DOMAIN l = 1 .. Len(l) /\ k \in 1 .. Len(l)
      /\ s \in Seq(Sockets)
  BY ElementsOf, RemovedAt
<1>1. ASSUME NEW n \in k + 1 .. Len(s)
      PROVE  \E m \in k + 1 .. Len(l) : s[n] = l[m]
  <2>1. CASE s = l
    BY <1>1, <2>1
  <2>2. CASE \E j \in DOMAIN l : s = RemoveAt(l, j)
    <3>1. PICK j \in DOMAIN l : s = RemoveAt(l, j)
      BY <2>2
    <3>2. /\ Len(s) = Len(l) - 1
          /\ \A h \in 1 .. Len(l) - 1 : s[h] = IF h < j THEN l[h] ELSE l[h + 1]
      BY <3>1, RemovedAt
    <3>3. /\ n \in 1 .. Len(l) - 1 /\ n \in k + 1 .. Len(l)
          /\ n + 1 \in k + 1 .. Len(l)
      BY <1>0, <3>2
    <3>4. s[n] = l[n] \/ s[n] = l[n + 1]
      BY <3>2, <3>3
    <3> QED
      BY <3>3, <3>4
  <2> QED
    BY <2>1, <2>2
<1>2. ASSUME NEW m \in k + 1 .. Len(l) PROVE l[m] # l[k] /\ m \in k .. Len(l)
  BY <1>0 DEF IsInjective
<1>3. ASSUME NEW n \in k + 1 .. Len(s) PROVE s[n] \in ToSet(s)
  <2>1. n \in 1 .. Len(s)
    BY <1>0
  <2> QED
    BY <1>0, <2>1, ElementsOf
<1> SUFFICES ASSUME NEW n \in k + 1 .. Len(s)
             PROVE  /\ s[n] \in a => v[s[n]] \in {"ready", "closed", "broken"}
                    /\ s[n] \in e => v[s[n]] = "broken"
  BY DEF Holds
<1>4. PICK m \in k + 1 .. Len(l) : s[n] = l[m]
  BY <1>1
<1>5. v[s[n]] = w[s[n]] /\ m \in k .. Len(l)
  BY <1>2, <1>3, <1>4
<1> QED
  BY <1>4, <1>5 DEF Holds

(* A scan begins with what select has just said.                           *)
LEMMA BegunHolds ==
  ASSUME NEW l, NEW w, NEW size, BeginScan(l, w, size)
  PROVE  Holds(l, i', all', errsock', w)
BY DEF BeginScan, Readable, Failing, Holds

(* The network never makes a lost connection whole, nor takes back what    *)
(* has arrived.                                                            *)
LEMMA NetworkHolds ==
  ASSUME LoopInv, NEW c \in Sockets,
         Dial(c) \/ Talk(c) \/ HangUp(c) \/ Break(c) \/ GrowIdle(c),
         NEW l \in Seq(Sockets), Holds(l, i, all, errsock, wire)
  PROVE  Holds(l, i, all, errsock, wire')
<1>1. \A x \in Sockets :
        /\ wire[x] \in {"ready", "closed", "broken"}
           => wire'[x] \in {"ready", "closed", "broken"}
        /\ wire[x] = "broken" => wire'[x] = "broken"
  BY DEF Dial, Talk, HangUp, Break, GrowIdle, Changes, LoopInv, TableInv
<1>2. \A n \in i .. Len(l) : l[n] \in Sockets
  BY ElementsOf DEF LoopInv, ScanInv
<1> QED
  BY <1>1, <1>2 DEF Holds

LEMMA SelectQuiet ==
  ASSUME SelectTrue, UNCHANGED <<wire, loggedInClients, connClients, scan>>,
         pc' = pc \/ pc' \notin {"login", "clients"}
  PROVE  SelectTrue'
BY DEF SelectTrue, Pending, scan

LEMMA SelectLogins ==
  ASSUME LoopInv, LoopInv', SelectTrue, Logins
  PROVE  SelectTrue'
<1>1. CASE (\E c \in Sockets : Accept(c) \/ Block(c)) \/ AcceptNobody
  <2>1. pc' = "login" /\ BeginScan(loggedInClients', wire', Len(loggedInClients'))
    BY <1>1 DEF Accept, Block, AcceptNobody, BeginScan, table
  <2>2. Holds(loggedInClients', i', all', errsock', wire')
    BY <2>1, BegunHolds
  <2> QED
    BY <2>1, <2>2 DEF SelectTrue, Pending, Holds
<1>2. CASE LoginDone
  <2>1. /\ pc' = "clients" /\ BeginScan(connClients, wire, playersOnline)
        /\ connClients' = connClients /\ wire' = wire
    BY <1>2 DEF LoginDone, table
  <2>2. Holds(connClients', i', all', errsock', wire')
    BY <2>1, BegunHolds
  <2> QED
    BY <2>1, <2>2 DEF SelectTrue, Pending, Holds
<1>3. CASE \/ LoginPasses \/ LoginFails \/ LoginAnswered \/ LoginLeaves
           \/ Enters \/ EntersInVain
  <2>1. /\ LoginTurn /\ pc' = "login"
        /\ i' = i + 1 /\ all' = all /\ errsock' = errsock
    BY <1>3 DEF LoginPasses, LoginFails, LoginAnswered, LoginLeaves, Enters,
                EntersInVain, LoginReads, LoginTurn, NextTurn
  <2>2. i \in DOMAIN loggedInClients
    BY <2>1, LoginAt
  <2>3. \/ loggedInClients' = loggedInClients
        \/ loggedInClients' = RemoveAt(loggedInClients, i)
    BY <1>3 DEF LoginPasses, LoginFails, LoginAnswered, LoginLeaves, Enters,
                EntersInVain, LoginDisconnect, Transfer, table
  <2>4. \A x \in Sockets \ {loggedInClients[i]} : wire'[x] = wire[x]
    BY <1>3 DEF LoginPasses, LoginFails, LoginAnswered, LoginLeaves, Enters,
                EntersInVain, LoginDisconnect, Transfer, Heard, Closed, LoopInv,
                TableInv
  <2>5. ToSet(loggedInClients') \subseteq Sockets
    BY ElementsOf DEF LoopInv, TableInv
  <2>6. Holds(loggedInClients, i, all, errsock, wire)
    BY <2>1 DEF SelectTrue, Pending, Holds, LoginTurn
  <2>7. Holds(loggedInClients', i + 1, all, errsock, wire')
    BY <2>2, <2>3, <2>4, <2>5, <2>6, TurnHolds DEF LoopInv, TableInv
  <2> QED
    BY <2>1, <2>7 DEF SelectTrue, Pending, Holds
<1> QED
  BY <1>1, <1>2, <1>3 DEF Logins

LEMMA SelectTurns ==
  ASSUME LoopInv, LoopInv', SelectTrue, Turns
  PROVE  SelectTrue'
<1>1. CASE ClientsDone
  BY <1>1 DEF ClientsDone, SelectTrue
<1>2. CASE ~ClientsDone
  <2>1. /\ ClientTurn /\ pc' = "clients"
        /\ i' = i + 1 /\ all' \in {all, {}} /\ errsock' = errsock
    BY <1>2 DEF Turns, ClientPasses, ClientFails, ClientServed, ClientLeaves, Kick,
                Strange, Tell, AllAfterStrange, ClientReads, ClientTurn, NextTurn
  <2>2. i \in DOMAIN connClients
    BY <2>1, ClientAt
  <2>3. /\ \/ connClients' = connClients
           \/ \E n \in DOMAIN connClients : connClients' = RemoveAt(connClients, n)
        /\ \A x \in ToSet(connClients') \ {connClients[i]} : wire'[x] = wire[x]
    <3>1. CASE ClientPasses \/ ClientServed \/ Strange \/ \E m \in Messages : Tell(m)
      <4>1. connClients' = connClients /\ wire' \in {wire, Heard(connClients[i])}
        BY <3>1 DEF ClientPasses, ClientServed, Strange, Tell, table, Current
      <4>2. ToSet(connClients') \subseteq Sockets
        BY ElementsOf DEF LoopInv, TableInv
      <4> QED
        BY <4>1, <4>2 DEF Heard, LoopInv, TableInv
    <3>2. ASSUME NEW n \in DOMAIN connClients, NEW w \in {wire, Heard(Current)},
                 Disconnect(n, w)
          PROVE  /\ \/ connClients' = connClients
                    \/ \E h \in DOMAIN connClients : connClients' = RemoveAt(connClients, h)
                 /\ \A x \in ToSet(connClients') \ {connClients[i]} : wire'[x] = wire[x]
      <4>1. /\ connClients' = RemoveAt(connClients, n)
            /\ wire' = [w EXCEPT ![connClients[n]] = "out"]
        BY <3>2 DEF Disconnect
      <4>2. ToSet(connClients') = ToSet(connClients) \ {connClients[n]}
        BY <4>1, ShortenedList DEF LoopInv, TableInv
      <4>3. ToSet(connClients) \subseteq Sockets
        BY ElementsOf DEF LoopInv, TableInv
      <4>4. w \in {wire, [wire EXCEPT ![connClients[i]] = "quiet"]}
        BY DEF Heard, Current
      <4>5. \A x \in ToSet(connClients') \ {connClients[i]} : wire'[x] = wire[x]
        BY <4>1, <4>2, <4>3, <4>4 DEF LoopInv, TableInv
      <4> QED
        BY <4>1, <4>5
    <3>3. CASE ClientFails \/ ClientLeaves
      BY <2>2, <3>2, <3>3 DEF ClientFails, ClientLeaves
    <3>4. CASE \E n \in 1 .. Len(connClients) : Kick(n)
      <4>1. 1 .. Len(connClients) = DOMAIN connClients
        BY ElementsOf DEF LoopInv, TableInv
      <4> QED
        BY <3>2, <3>4, <4>1 DEF Kick
    <3> QED
      BY <1>2, <3>1, <3>3, <3>4 DEF Turns
  <2>4. Holds(connClients, i, all, errsock, wire)
    BY <2>1 DEF SelectTrue, Pending, Holds, ClientTurn
  <2>5. Holds(connClients', i + 1, all, errsock, wire')
    BY <2>2, <2>3, <2>4, TurnHolds DEF LoopInv, TableInv
  <2> QED
    BY <2>1, <2>5 DEF SelectTrue, Pending, Holds
<1> QED
  BY <1>1, <1>2

LEMMA SelectStep ==
  LoopInv /\ LoopInv' /\ SelectTrue /\ [Next]_vars => SelectTrue'
<1> SUFFICES ASSUME LoopInv, LoopInv', SelectTrue, [Next]_vars PROVE SelectTrue'
  OBVIOUS
<1>1. CASE Clients
  <2>1. PICK c \in Sockets : Dial(c) \/ Talk(c) \/ HangUp(c) \/ Break(c) \/ GrowIdle(c)
    BY <1>1 DEF Clients
  <2>2. /\ UNCHANGED <<scan, pc>>
        /\ loggedInClients' = loggedInClients /\ connClients' = connClients
    BY <2>1 DEF Dial, Talk, HangUp, Break, GrowIdle, Changes, table
  <2>3. \A l \in Seq(Sockets) : Holds(l, i, all, errsock, wire)
                                => Holds(l, i, all, errsock, wire')
    BY <2>1, NetworkHolds
  <2> QED
    BY <2>2, <2>3 DEF SelectTrue, Pending, Holds, scan, LoopInv, TableInv
<1>2. CASE Logins
  BY <1>2, SelectLogins
<1>3. CASE Turns
  BY <1>3, SelectTurns
<1>4. CASE Timers \/ BeginShutdown
  <2>1. pc' \in {"timers", "messages", "join"}
    BY <1>4 DEF Timers, IdlePasses, IdleKicked, JustSaved, TimersDone, BeginShutdown
  <2> QED
    BY <2>1 DEF SelectTrue
<1>5. CASE Rounds /\ ~BeginShutdown
  <2>1. pc' \notin {"login", "clients"}
    BY <1>5 DEF Rounds, GrabShutdown, GrabReload, Grab, BeginMainReload,
                EndMainReload, MainReload, NextRound, Join
  <2> QED
    BY <2>1 DEF SelectTrue
<1>6. CASE Console
  <2>1. UNCHANGED <<wire, table, scan, pc>>
    BY <1>6 DEF Console, ConsoleStarts, ConsoleTests, NoKey, QuitKey, PromptKey,
                EndPrompt, ReloadKey, BeginConsoleReload, EndConsoleReload,
                ConsoleGoes
  <2> QED
    BY <2>1, SelectQuiet DEF table
<1>7. CASE Ended \/ UNCHANGED vars
  <2>1. UNCHANGED <<wire, table, scan, pc>>
    BY <1>7 DEF Ended, vars
  <2> QED
    BY <2>1, SelectQuiet DEF table
<1> QED
  BY <1>1, <1>2, <1>3, <1>4, <1>5, <1>6, <1>7 DEF Next, Main

(* CheckMessage, CheckLoginMessage: whatever happens between select and a  *)
(* turn, what select said of the connection whose turn it is still holds.  *)
THEOREM SpecSelectTrue == Spec => []SelectTrue
<1>1. Init => SelectTrue
  BY DEF Init, SelectTrue
<1> QED
  BY <1>1, SelectStep, SpecLoopInv, PTL DEF Spec

-----------------------------------------------------------------------------
(* The stage of each connection is told by the lists and by the network.   *)
LEMMA StageIs ==
  ASSUME LoopInv, NEW c \in Sockets
  PROVE  /\ Stage[c] = "game" <=> c \in ToSet(connClients)
         /\ Stage[c] = "login" <=> c \in ToSet(loggedInClients)
         /\ \A s \in {"out", "dialled"} : Stage[c] = s <=> wire[c] = s
BY DEF Stage, LoopInv, TableInv, Listed, Wires

LEMMA StageIsNext ==
  ASSUME LoopInv', NEW c \in Sockets
  PROVE  /\ Stage'[c] = "game" <=> c \in ToSet(connClients')
         /\ Stage'[c] = "login" <=> c \in ToSet(loggedInClients')
         /\ \A s \in {"out", "dialled"} : Stage'[c] = s <=> wire'[c] = s
BY DEF Stage, LoopInv, TableInv, Listed, Wires

LEMMA Staged ==
  ASSUME LoopInv, NEW c \in Sockets
  PROVE  Stage[c] \in {"out", "dialled", "login", "game"}
BY DEF Stage, LoopInv, TableInv, Listed, Wires

LEMMA StagedNext ==
  ASSUME LoopInv', NEW c \in Sockets
  PROVE  Stage'[c] \in {"out", "dialled", "login", "game"}
BY DEF Stage, LoopInv, TableInv, Listed, Wires

(* Where nothing but the hearing or the loss of open connections happens,  *)
(* nobody changes the stage.                                               *)
LEMMA StageKept ==
  ASSUME LoopInv, LoopInv', UNCHANGED <<loggedInClients, connClients>>,
         \A x \in Sockets : \A s \in {"out", "dialled"} : wire[x] = s <=> wire'[x] = s
  PROVE  Stage' = Stage
<1>1. ASSUME NEW x \in Sockets PROVE Stage'[x] = Stage[x]
  BY StageIs, StageIsNext, Staged, StagedNext
<1> QED
  BY <1>1 DEF Stage

(* One connection changes its stage.                                       *)
LEMMA OneGoes ==
  ASSUME NEW c \in Sockets, NEW s, Stage'[c] = s,
         \A x \in Sockets \ {c} : Stage'[x] = Stage[x]
  PROVE  Stage' = [Stage EXCEPT ![c] = s]
BY DEF Stage

(* The server is open until it closes.                                     *)
Open == pc \notin {"join", "ended"}

LEMMA OpenKept ==
  ASSUME pc' = pc \/ (Open <=> Open')
  PROVE  (pc' \in {"join", "ended"}) = (pc \in {"join", "ended"})
BY DEF Open

LEMMA AllKept ==
  ASSUME pc' = pc \/ (Open <=> Open'), Stage' = Stage,
         UNCHANGED <<connClients, playersOnline>>
  PROVE  UNCHANGED C!vars
BY OpenKept DEF C!vars

(* The count goes with the list.                                           *)
LEMMA Counted ==
  ASSUME LoopInv, LoopInv'
  PROVE  /\ connClients' = connClients => playersOnline' = playersOnline
         /\ \A c \in Sockets : connClients' = Append(connClients, c)
                               => playersOnline' = playersOnline + 1
         /\ \A n \in DOMAIN connClients : connClients' = RemoveAt(connClients, n)
                                          => playersOnline' = playersOnline - 1
         /\ connClients' = <<>> => playersOnline' = 0
BY AppendProperties, RemovedAt, EmptySeq DEF LoopInv, TableInv

(* A connection that logs in, or had dialled, goes.                        *)
LEMMA GivesUp ==
  ASSUME LoopInv, LoopInv', pc' = pc \/ (Open <=> Open'),
         NEW c \in Sockets, wire[c] = "dialled" \/ c \in ToSet(loggedInClients),
         ToSet(loggedInClients') = ToSet(loggedInClients) \ {c},
         connClients' = connClients, wire' = Closed(c)
  PROVE  C!GiveUp(c)
<1>1. /\ wire'[c] = "out"
      /\ \A x \in Sockets \ {c} : wire'[x] = wire[x]
  BY DEF Closed, LoopInv, TableInv
<1>2. \A x \in Sockets \ {c} : Stage'[x] = Stage[x]
  BY <1>1, StageIs, StageIsNext, Staged, StagedNext
<1>3. Stage' = [Stage EXCEPT ![c] = "out"]
  BY <1>1, <1>2, OneGoes, StageIsNext
<1>4. Stage[c] \in {"dialled", "login"}
  BY StageIs
<1> QED
  BY <1>3, <1>4, Counted, OpenKept DEF C!GiveUp, C!Goes

(* A player goes, who hung up, is disconnected by another or was idle.     *)
LEMMA Leaves ==
  ASSUME LoopInv, LoopInv', pc' = pc, NEW n \in DOMAIN connClients,
         connClients' = RemoveAt(connClients, n),
         UNCHANGED loggedInClients, wire'[connClients[n]] = "out",
         \A x \in Sockets \ {connClients[n]} : \A s \in {"out", "dialled"} :
           wire[x] = s <=> wire'[x] = s
  PROVE  C!Leave(n)
<1> DEFINE c == connClients[n]
<1>1. /\ ToSet(connClients') = ToSet(connClients) \ {c}
      /\ c \in Sockets /\ c \in ToSet(connClients)
  BY ShortenedList, ElementsOf DEF LoopInv, TableInv
<1>2. \A x \in Sockets \ {c} : Stage'[x] = Stage[x]
  <2> HIDE DEF c
  <2> QED BY <1>1, StageIs, StageIsNext, Staged, StagedNext
<1>3. Stage' = [Stage EXCEPT ![c] = "out"]
  BY <1>1, <1>2, OneGoes, StageIsNext
<1>4. Stage[c] \in {"game"}
  BY <1>1, StageIs
<1> QED
  BY <1>3, <1>4, Counted DEF C!Leave, C!Goes, C!RemoveAt, RemoveAt

LEMMA ClientsKeep ==
  ASSUME LoopInv, LoopInv', Clients
  PROVE  [C!Next]_C!vars
<1>1. PICK c \in Sockets : Dial(c) \/ Talk(c) \/ HangUp(c) \/ Break(c) \/ GrowIdle(c)
  BY DEF Clients
<1>2. UNCHANGED <<pc, loggedInClients, connClients>>
  BY <1>1 DEF Dial, Talk, HangUp, Break, GrowIdle, Changes, table
<1>3. CASE Dial(c)
  <2>1. /\ wire[c] = "out" /\ wire'[c] = "dialled"
        /\ \A x \in Sockets \ {c} : wire'[x] = wire[x]
    BY <1>3 DEF Dial, Changes, LoopInv, TableInv
  <2>2. \A x \in Sockets \ {c} : Stage'[x] = Stage[x]
    BY <1>2, <2>1, StageIs, StageIsNext, Staged, StagedNext
  <2>3. Stage' = [Stage EXCEPT ![c] = "dialled"] /\ Stage[c] = "out"
    BY <2>1, <2>2, OneGoes, StageIs, StageIsNext
  <2>4. C!Dial(c)
    BY <1>2, <1>3, <2>3, Counted DEF C!Dial, C!Goes, Dial
  <2> QED
    BY <2>4 DEF C!Next
<1>4. CASE ~Dial(c)
  <2>1. \A x \in Sockets : \A s \in {"out", "dialled"} : wire[x] = s <=> wire'[x] = s
    BY <1>1, <1>4 DEF Talk, HangUp, Break, GrowIdle, Changes, LoopInv, TableInv
  <2> QED
    BY <1>2, <2>1, StageKept, Counted, AllKept
<1> QED
  BY <1>3, <1>4

LEMMA LoginsKeep ==
  ASSUME LoopInv, LoopInv', Logins
  PROVE  [C!Next]_C!vars
<1>0. Open /\ Open'
  BY DEF Open, Logins, Accept, Block, AcceptNobody, LoginPasses, LoginFails, LoginAnswered,
         LoginLeaves, Enters, EntersInVain, LoginDone, LoginReads, LoginTurn, NextTurn
<1>1. ASSUME NEW c \in Sockets, Accept(c) PROVE C!Next
  <2>1. /\ wire[c] = "dialled" /\ connClients' = connClients
        /\ \A x \in Sockets \ {c} : wire'[x] = wire[x]
        /\ ToSet(loggedInClients') = ToSet(loggedInClients) \cup {c}
    BY <1>1, AppendedList DEF Accept, Heard, LoopInv, TableInv
  <2>2. \A x \in Sockets \ {c} : Stage'[x] = Stage[x]
    BY <2>1, StageIs, StageIsNext, Staged, StagedNext
  <2>3. Stage' = [Stage EXCEPT ![c] = "login"] /\ Stage[c] = "dialled"
    BY <2>1, <2>2, OneGoes, StageIs, StageIsNext
  <2>4. C!Accept(c)
    BY <1>0, <2>1, <2>3, Counted, OpenKept DEF C!Accept, C!Goes, Open
  <2> QED
    BY <2>4 DEF C!Next
<1>2. ASSUME NEW c \in Sockets, Block(c) PROVE C!Next
  <2>1. /\ wire[c] = "dialled" /\ wire' = Closed(c)
        /\ UNCHANGED <<loggedInClients, connClients>>
    BY <1>2 DEF Block, table
  <2>2. ToSet(loggedInClients') = ToSet(loggedInClients) \ {c}
    BY <2>1 DEF LoopInv, TableInv, Listed
  <2>3. C!GiveUp(c)
    BY <1>0, <2>1, <2>2, GivesUp
  <2> QED
    BY <2>3 DEF C!Next
<1>3. CASE AcceptNobody \/ LoginPasses \/ LoginAnswered \/ LoginDone
  <2>1. UNCHANGED <<loggedInClients, connClients>>
    BY <1>3 DEF AcceptNobody, LoginPasses, LoginAnswered, LoginDone, table
  <2>2. SameOpen(wire') /\ \A x \in Sockets : wire'[x] # wire[x] => wire'[x] = "quiet"
    <3>1. CASE LoginAnswered
      <4>1. loggedInClients[i] \in Listed /\ wire' = Heard(loggedInClients[i])
        BY <3>1, LoginAt DEF LoginAnswered, LoginReads
      <4> QED
        BY <4>1, HeardOpen DEF Heard, LoopInv, TableInv
    <3>2. CASE AcceptNobody \/ LoginPasses \/ LoginDone
      BY <3>2 DEF AcceptNobody, LoginPasses, LoginDone, SameOpen, LoopInv, TableInv
    <3> QED
      BY <1>3, <3>1, <3>2
  <2>3. \A x \in Sockets : \A s \in {"out", "dialled"} : wire[x] = s <=> wire'[x] = s
    BY <2>2 DEF SameOpen
  <2> QED
    BY <1>0, <2>1, <2>3, StageKept, Counted, AllKept
<1>4. CASE LoginFails \/ LoginLeaves \/ EntersInVain
  <2> DEFINE c == loggedInClients[i]
  <2>1. i \in DOMAIN loggedInClients
    BY <1>4, LoginAt DEF LoginFails, LoginLeaves, EntersInVain, LoginReads
  <2>2. /\ loggedInClients' = RemoveAt(loggedInClients, i)
        /\ wire' = Closed(c) /\ connClients' = connClients
    BY <1>4 DEF LoginFails, LoginLeaves, EntersInVain, LoginDisconnect
  <2>3. /\ c \in ToSet(loggedInClients) /\ c \in Sockets
        /\ ToSet(loggedInClients') = ToSet(loggedInClients) \ {c}
    BY <2>1, <2>2, ElementsOf, ShortenedList DEF LoopInv, TableInv
  <2>4. C!GiveUp(c)
    BY <1>0, <2>2, <2>3, GivesUp
  <2> QED
    BY <2>3, <2>4 DEF C!Next
<1>5. CASE Enters
  <2> DEFINE c == loggedInClients[i]
  <2>1. i \in DOMAIN loggedInClients
    BY <1>5, LoginAt DEF Enters, LoginReads
  <2>2. /\ loggedInClients' = RemoveAt(loggedInClients, i)
        /\ wire' = Heard(c) /\ connClients' = Append(connClients, c)
    BY <1>5 DEF Enters, Transfer
  <2>3. /\ c \in ToSet(loggedInClients) /\ c \in Sockets
        /\ ToSet(loggedInClients') = ToSet(loggedInClients) \ {c}
    BY <2>1, <2>2, ElementsOf, ShortenedList DEF LoopInv, TableInv
  <2>4. ToSet(connClients') = ToSet(connClients) \cup {c}
    BY <2>2, <2>3, AppendedList DEF LoopInv, TableInv
  <2>5. \A x \in Sockets \ {c} : wire'[x] = wire[x]
    BY <2>2 DEF Heard, LoopInv, TableInv
  <2> HIDE DEF c
  <2>6. \A x \in Sockets \ {c} : Stage'[x] = Stage[x]
    BY <2>3, <2>4, <2>5, StageIs, StageIsNext, Staged, StagedNext
  <2>7. Stage' = [Stage EXCEPT ![c] = "game"] /\ Stage[c] = "login"
    BY <2>3, <2>4, <2>6, OneGoes, StageIs, StageIsNext
  <2>8. C!Enter(c)
    BY <1>0, <2>2, <2>3, <2>7, Counted, OpenKept DEF C!Enter, C!Goes, Open
  <2> QED
    BY <2>3, <2>8 DEF C!Next
<1> QED
  BY <1>1, <1>2, <1>3, <1>4, <1>5 DEF Logins

LEMMA TurnsKeep ==
  ASSUME LoopInv, LoopInv', Turns
  PROVE  [C!Next]_C!vars
<1>0. Open /\ Open'
  BY DEF Open, Turns, ClientPasses, ClientFails, ClientServed, ClientLeaves, Kick, Strange,
         Tell, ClientsDone, ClientReads, ClientTurn, NextTurn
<1>1. CASE \/ ClientPasses \/ ClientServed \/ Strange \/ ClientsDone
           \/ \E m \in Messages : Tell(m)
  <2>1. UNCHANGED <<loggedInClients, connClients>>
    BY <1>1 DEF ClientPasses, ClientServed, Strange, ClientsDone, Tell, table
  <2>2. SameOpen(wire') /\ \A x \in Sockets : wire'[x] # wire[x] => wire'[x] = "quiet"
    <3>1. CASE ClientPasses \/ ClientsDone
      BY <3>1 DEF ClientPasses, ClientsDone, SameOpen, LoopInv, TableInv
    <3>2. CASE ClientServed \/ Strange \/ \E m \in Messages : Tell(m)
      <4>1. Current \in Listed /\ wire' = Heard(Current)
        BY <3>2, ClientAt DEF ClientServed, Strange, Tell, ClientReads
      <4> QED
        BY <4>1, HeardOpen DEF Heard, LoopInv, TableInv
    <3> QED
      BY <1>1, <3>1, <3>2
  <2>3. \A x \in Sockets : \A s \in {"out", "dialled"} : wire[x] = s <=> wire'[x] = s
    BY <2>2 DEF SameOpen
  <2> QED
    BY <1>0, <2>1, <2>3, StageKept, Counted, AllKept
<1>2. ASSUME NEW n \in DOMAIN connClients, NEW w \in {wire, Heard(Current)},
             ClientTurn, Disconnect(n, w), pc' = pc
      PROVE  C!Next
  <2>1. SameOpen(w) /\ \A x \in Sockets : w[x] # wire[x] => w[x] = "quiet"
    BY <1>2, ClientAt, HeardOpen DEF Heard, SameOpen, LoopInv, TableInv
  <2>2. /\ connClients' = RemoveAt(connClients, n)
        /\ wire' = [w EXCEPT ![connClients[n]] = "out"]
        /\ UNCHANGED loggedInClients
    BY <1>2 DEF Disconnect
  <2>3. connClients[n] \in Sockets
    BY ElementsOf DEF LoopInv, TableInv
  <2>4. /\ wire'[connClients[n]] = "out"
        /\ \A x \in Sockets \ {connClients[n]} : \A s \in {"out", "dialled"} :
             wire[x] = s <=> wire'[x] = s
    BY <2>1, <2>2, <2>3 DEF SameOpen
  <2>5. C!Leave(n)
    BY <1>2, <2>2, <2>4, Leaves
  <2> QED
    BY <2>5 DEF C!Next
<1>3. CASE ClientFails \/ ClientLeaves
  <2>1. i \in DOMAIN connClients /\ ClientTurn
    BY <1>3, ClientAt DEF ClientFails, ClientLeaves, ClientReads
  <2>2. \E w \in {wire, Heard(Current)} : Disconnect(i, w) /\ pc' = pc
    BY <1>3 DEF ClientFails, ClientLeaves, NextTurn
  <2> QED
    BY <1>2, <2>1, <2>2
<1>4. CASE \E n \in 1 .. Len(connClients) : Kick(n)
  <2>1. PICK n \in DOMAIN connClients : Kick(n)
    BY <1>4, ElementsOf DEF LoopInv, TableInv
  <2> QED
    BY <1>2, <2>1 DEF Kick, ClientReads, NextTurn
<1> QED
  BY <1>1, <1>3, <1>4 DEF Turns

LEMMA TimersKeep ==
  ASSUME LoopInv, LoopInv', Timers
  PROVE  [C!Next]_C!vars
<1>0. Open /\ Open'
  BY DEF Open, Timers, IdlePasses, IdleKicked, JustSaved, TimersDone
<1>1. CASE IdlePasses \/ JustSaved \/ TimersDone
  <2>1. UNCHANGED <<wire, loggedInClients, connClients>>
    BY <1>1 DEF IdlePasses, JustSaved, TimersDone, table
  <2> QED
    BY <1>0, <2>1, StageKept, Counted, AllKept
<1>2. CASE IdleKicked
  <2> DEFINE n == currConnIter
  <2>1. /\ pc' = pc /\ n # Len(connClients) + 1
        /\ connClients' = RemoveAt(connClients, n)
        /\ wire' = [wire EXCEPT ![connClients[n]] = "out"]
        /\ UNCHANGED loggedInClients
    BY <1>2 DEF IdleKicked, Closed, Finished
  <2>2. n \in DOMAIN connClients
    BY <2>1, ElementsOf DEF LoopInv, TableInv, IterInv
  <2>3. connClients[n] \in Sockets
    BY <2>2, ElementsOf DEF LoopInv, TableInv
  <2>4. /\ wire'[connClients[n]] = "out"
        /\ \A x \in Sockets \ {connClients[n]} : wire[x] = wire'[x]
    BY <2>1, <2>3 DEF LoopInv, TableInv
  <2>5. C!Leave(n)
    BY <2>1, <2>2, <2>4, Leaves
  <2> QED
    BY <2>2, <2>5 DEF C!Next
<1> QED
  BY <1>1, <1>2 DEF Timers

LEMMA RoundsKeep ==
  ASSUME LoopInv, LoopInv', Rounds \/ Console \/ Ended \/ UNCHANGED vars
  PROVE  [C!Next]_C!vars
<1>1. CASE BeginShutdown
  <2>1. /\ wire' = [c \in Sockets |-> "out"] /\ connClients' = <<>> /\ pc' = "join"
        /\ loggedInClients' = <<>>
    BY <1>1 DEF BeginShutdown
  <2>2. \A c \in Sockets : Stage'[c] = "out"
    BY <2>1, StageIsNext
  <2>3. C!Close
    BY <2>1, <2>2, Counted DEF C!Close, Stage
  <2> QED
    BY <2>3 DEF C!Next
<1>2. CASE ~BeginShutdown
  <2>1. /\ UNCHANGED <<wire, loggedInClients, connClients>>
        /\ pc' = pc \/ (Open <=> Open')
    <3>1. CASE Rounds
      BY <1>2, <3>1 DEF Open, Rounds, GrabShutdown, GrabReload, Grab, BeginMainReload,
                        EndMainReload, MainReload, NextRound, Join, table
    <3>2. CASE Console
      BY <3>2 DEF Console, ConsoleStarts, ConsoleTests, NoKey, QuitKey, PromptKey,
                  EndPrompt, ReloadKey, BeginConsoleReload, EndConsoleReload,
                  ConsoleGoes, table
    <3>3. CASE Ended \/ UNCHANGED vars
      BY <3>3 DEF Ended, vars, table
    <3> QED
      BY <3>1, <3>2, <3>3
  <2> QED
    BY <2>1, StageKept, Counted, AllKept
<1> QED
  BY <1>1, <1>2

LEMMA LoopIsConnections == LoopInv /\ LoopInv' /\ [Next]_vars => [C!Next]_C!vars
BY ClientsKeep, LoginsKeep, TurnsKeep, TimersKeep, RoundsKeep DEF Next, Main

(* The main loop, its table and its console thread keep what Connections   *)
(* promises: one connection at a time comes, plays and goes, in order.     *)
THEOREM SpecConnectionsKept == Spec => ConnectionsKept
<1>1. Init => C!Init
  <2> SUFFICES ASSUME Init PROVE C!Init
    OBVIOUS
  <2>1. ToSet(loggedInClients) = {} /\ ToSet(connClients) = {}
    BY EmptyList DEF Init
  <2> QED
    BY <2>1 DEF Init, C!Init, Stage
<1> QED
  BY <1>1, LoopIsConnections, SpecLoopInv, PTL DEF Spec, ConnectionsKept, C!Spec

-----------------------------------------------------------------------------
LEMMA LeaveKeepsOrder ==
  ASSUME NEW s \in Seq(Sockets), IsInjective(s), NEW k \in DOMAIN s,
         NEW c \in ToSet(RemoveAt(s, k)), NEW d \in ToSet(RemoveAt(s, k)),
         C!Ahead(c, d, s)
  PROVE  C!Ahead(c, d, RemoveAt(s, k))
<1> DEFINE t == RemoveAt(s, k)
           at(n) == IF n < k THEN n ELSE n - 1
<1>1. /\ Len(s) \in Nat /\ DOMAIN s = 1 .. Len(s) /\ k \in 1 .. Len(s)
      /\ DOMAIN t = 1 .. Len(s) - 1
      /\ \A j \in 1 .. Len(s) - 1 : t[j] = IF j < k THEN s[j] ELSE s[j + 1]
  BY ElementsOf, RemovedAt
<1>2. s[k] \notin ToSet(t)
  BY ShortenedList
<1>3. PICK m, n \in DOMAIN s : m < n /\ s[m] = c /\ s[n] = d
  BY DEF C!Ahead
<1>4. m # k /\ n # k
  BY <1>2, <1>3
<1> HIDE DEF t
<1>5. ASSUME NEW h \in DOMAIN s, h # k PROVE at(h) \in DOMAIN t /\ t[at(h)] = s[h]
  BY <1>1, <1>5
<1>6. at(m) < at(n)
  BY <1>1, <1>3, <1>4
<1>7. at(m) \in DOMAIN t /\ t[at(m)] = c /\ at(n) \in DOMAIN t /\ t[at(n)] = d
  BY <1>3, <1>4, <1>5
<1> HIDE DEF at
<1> QED
  BY <1>6, <1>7 DEF C!Ahead, t

LEMMA EnterKeepsOrder ==
  ASSUME NEW s \in Seq(Sockets), NEW e \in Sockets, NEW c, NEW d
  PROVE  /\ C!Ahead(c, d, s) => C!Ahead(c, d, Append(s, e))
         /\ c \in ToSet(s) => C!Ahead(c, e, Append(s, e))
<1> DEFINE t == Append(s, e)
<1>1. /\ Len(s) \in Nat /\ DOMAIN s = 1 .. Len(s)
      /\ DOMAIN t = 1 .. Len(s) + 1 /\ t[Len(s) + 1] = e
      /\ \A n \in 1 .. Len(s) : t[n] = s[n]
  BY ElementsOf, AppendProperties
<1> HIDE DEF t
<1>2. ASSUME C!Ahead(c, d, s) PROVE C!Ahead(c, d, t)
  <2>1. PICK m, n \in 1 .. Len(s) : m < n /\ s[m] = c /\ s[n] = d
    BY <1>1, <1>2 DEF C!Ahead
  <2>2. m \in DOMAIN t /\ n \in DOMAIN t /\ t[m] = c /\ t[n] = d
    BY <1>1, <2>1
  <2> QED
    BY <2>1, <2>2 DEF C!Ahead
<1>3. ASSUME c \in ToSet(s) PROVE C!Ahead(c, e, t)
  <2>1. PICK m \in 1 .. Len(s) : s[m] = c
    BY <1>3, ElementsOf
  <2>2. /\ m \in DOMAIN t /\ Len(s) + 1 \in DOMAIN t /\ m < Len(s) + 1
        /\ t[m] = c /\ t[Len(s) + 1] = e
    BY <1>1, <2>1
  <2> QED
    BY <2>2 DEF C!Ahead
<1> QED
  BY <1>2, <1>3 DEF t

(* CheckMessage: turns are taken in the order in which the players came,   *)
(* whoever is disconnected by whom in between.                             *)
THEOREM SpecPlayersInOrder == Spec => PlayersInOrder
<1> DEFINE Kept(c, d) ==
             /\ C!Ahead(c, d, connClients) => C!Ahead(c, d, connClients')
             /\ c \in C!ToSet(connClients) /\ d \notin C!ToSet(connClients)
                => C!Ahead(c, d, connClients')
<1>0. \A s : C!ToSet(s) = ToSet(s)
  BY DEF C!ToSet, ToSet
<1>1. ASSUME LoopInv, [C!Next]_C!vars,
             NEW c \in ToSet(connClients'), NEW d \in ToSet(connClients')
      PROVE  Kept(c, d)
  <2>1. CASE connClients' = connClients
    BY <1>0, <1>1, <2>1
  <2>2. ASSUME NEW e \in Sockets, connClients' = Append(connClients, e) PROVE Kept(c, d)
    <3>1. d \in ToSet(connClients) \/ d = e
      BY <1>1, <2>2, AppendedList DEF LoopInv, TableInv
    <3> QED
      BY <1>0, <1>1, <2>2, <3>1, EnterKeepsOrder DEF LoopInv, TableInv
  <2>3. ASSUME NEW n \in DOMAIN connClients, connClients' = RemoveAt(connClients, n)
        PROVE  Kept(c, d)
    <3>1. d \in ToSet(connClients)
      BY <1>1, <2>3, ShortenedList DEF LoopInv, TableInv
    <3> QED
      BY <1>0, <1>1, <2>3, <3>1, LeaveKeepsOrder DEF LoopInv, TableInv
  <2>4. CASE connClients' = <<>>
    BY <1>1, <2>4, EmptyList
  <2> HIDE DEF Kept
  <2> QED
    BY <1>1, <2>1, <2>2, <2>3, <2>4
       DEF C!Next, C!vars, C!Dial, C!Accept, C!Enter, C!GiveUp, C!Leave, C!Close,
           C!RemoveAt, RemoveAt
<1>2. LoopInv /\ LoopInv' /\ [Next]_vars =>
        [\A c, d \in C!ToSet(connClients') : Kept(c, d)]_C!vars
  <2> HIDE DEF Kept
  <2> QED
    BY <1>0, <1>1, LoopIsConnections
<1>3. Spec => [][\A c, d \in C!ToSet(connClients') : Kept(c, d)]_C!vars
  BY <1>2, SpecLoopInv, PTL DEF Spec
<1> QED
  BY <1>3 DEF PlayersInOrder, C!InOrder
=============================================================================
