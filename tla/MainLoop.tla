------------------------------- MODULE MainLoop -------------------------------
(***************************************************************************)
(* The main loop (src/src/uox3/uox3.cpp), the table of connections it      *)
(* polls (src/src/system/Network/network.cpp), and the console thread, the *)
(* only other thread of the program, with the queue the two share          *)
(* (cThreadQueue.cpp).  One round of the loop is: accept a client, one     *)
(* turn for each connection that logs in, one for each that plays, the     *)
(* timers with the idle check, the messages.                               *)
(*                                                                         *)
(* A turn is the whole of what the code does for one index, so "i" points  *)
(* into a list that earlier turns of the same round have changed, while    *)
(* "all" and "errsock" say what select found before the first of them.     *)
(* Positions count from 1; the end of a list is its length plus 1.         *)
(* Left out: the console's keys that disconnect clients (they run in its   *)
(* own thread without a lock), the timed shutdown, printed messages.       *)
(***************************************************************************)
EXTENDS Naturals, Sequences, SequencesExt

CONSTANTS Sockets,    (* the connections there may ever be              *)
          MaxQueue    (* bound: how many messages wait at the same time *)

ASSUME MaxQueueAssumption == MaxQueue \in Nat \ {0}

VARIABLES wire,             (* what the network holds of each connection     *)
          loggedInClients,  (* cNetworkStuff: connections that are logging in *)
          connClients,      (* cNetworkStuff: connections in the game         *)
          playersOnline,    (* CWorldMain's count of the latter               *)
          all, errsock,     (* what select found readable, and in error       *)
          i, oldnow,        (* CheckMessage's index, and the size it began at *)
          currConnIter,     (* the iterator of FirstSocket and NextSocket     *)
          idled,            (* connections whose IdleTimeout has passed       *)
          pc,               (* where the main loop is                         *)
          keepRun,          (* CWorldMain's flag                              *)
          messageLoop,      (* the queue of messages                          *)
          reloading,        (* CWorldMain's reloadingScripts                  *)
          conthreadcloseok, (* tells the console thread to end                *)
          console           (* where the console thread is                    *)

table == <<loggedInClients, connClients, playersOnline, idled>>
scan  == <<all, errsock, i, oldnow>>
rest  == <<keepRun, messageLoop, reloading, conthreadcloseok, console>>
vars  == <<wire, table, scan, currConnIter, pc, rest>>

(* "dialled": in the listening socket's backlog; "ready": a packet has     *)
(* arrived; "closed": the client hung up, which select calls readable.     *)
Wires    == {"out", "dialled", "quiet", "ready", "closed", "broken"}
Messages == {"shutdown", "reload"}

Listed == ToSet(loggedInClients) \cup ToSet(connClients)

Init ==
  /\ wire = [c \in Sockets |-> "out"]
  /\ loggedInClients = <<>> /\ connClients = <<>> /\ playersOnline = 0
  /\ all = {} /\ errsock = {} /\ i = 1 /\ oldnow = 0
  /\ currConnIter = 1 /\ idled = {}
  /\ pc = "conn" /\ keepRun = TRUE /\ messageLoop = <<>>
  /\ reloading = FALSE /\ conthreadcloseok = FALSE /\ console = "starting"

-----------------------------------------------------------------------------
(* The clients.                                                            *)

Changes(c, from, to) ==
  /\ wire[c] \in from
  /\ wire' = [wire EXCEPT ![c] = to]
  /\ UNCHANGED <<table, scan, currConnIter, pc, rest>>

Dial(c)   == pc # "ended" /\ pc # "join" /\ Changes(c, {"out"}, "dialled")
Talk(c)   == Changes(c, {"quiet"}, "ready")
HangUp(c) == Changes(c, {"quiet", "ready"}, "closed")
Break(c)  == Changes(c, {"quiet", "ready"}, "broken")

(* A connection that has a character, no game master's, has sent nothing   *)
(* for as long as it may.                                                  *)
GrowIdle(c) ==
  /\ c \in ToSet(connClients) \ idled
  /\ idled' = idled \cup {c}
  /\ UNCHANGED <<wire, loggedInClients, connClients, playersOnline, scan,
                 currConnIter, pc, rest>>

-----------------------------------------------------------------------------
(* The table's operations, each as what it makes of the variables.         *)

(* Faults, which the properties must tell from the code: players counted   *)
(* before the transfer is done, a scan that begins with the second         *)
(* connection, exceptional conditions that nobody looks at.                *)
OnlineBeforePush == Len(connClients)

ScanFromSecond(list, w, size) ==
  /\ all' = {c \in ToSet(list) : w[c] \in {"ready", "closed"}}
  /\ errsock' = {c \in ToSet(list) : w[c] = "broken"}
  /\ i' = 2
  /\ oldnow' = size

FailingUnseen(list, w) == {}

(* What select leaves of the descriptors of a list, when the network is w. *)
Readable(list, w) == {c \in ToSet(list) : w[c] \in {"ready", "closed"}}
Failing(list, w)  == {c \in ToSet(list) : w[c] = "broken"}

BeginScan(list, w, size) ==
  /\ all' = Readable(list, w)
  /\ errsock' = Failing(list, w)
  /\ i' = 1
  /\ oldnow' = size

Closed(c) == [wire EXCEPT ![c] = "out"]
Heard(c)  == [wire EXCEPT ![c] = "quiet"]

(* LoginDisconnect takes out entry n and closes it.                        *)
LoginDisconnect(n) ==
  /\ loggedInClients' = RemoveAt(loggedInClients, n)
  /\ wire' = Closed(loggedInClients[n])
  /\ UNCHANGED <<connClients, playersOnline, idled, currConnIter>>

(* Disconnect steps the iterator back unless it is at the first entry.     *)
IterAfterDisconnect(n) ==
  IF currConnIter > 1 /\ currConnIter >= n THEN currConnIter - 1
                                           ELSE currConnIter

OnlineAfterDisconnect == playersOnline - 1

Disconnect(n, w) ==
  /\ connClients' = RemoveAt(connClients, n)
  /\ wire' = [w EXCEPT ![connClients[n]] = "out"]
  /\ playersOnline' = OnlineAfterDisconnect
  /\ idled' = idled \ {connClients[n]}
  /\ currConnIter' = IterAfterDisconnect(n)
  /\ UNCHANGED loggedInClients

OnlineAfterTransfer == Len(connClients) + 1

(* A fault: the entry stays among those that log in.                       *)
TransferKept(n) ==
  /\ connClients' = Append(connClients, loggedInClients[n])
  /\ loggedInClients' = loggedInClients
  /\ playersOnline' = OnlineAfterTransfer
  /\ wire' = Heard(loggedInClients[n])
  /\ UNCHANGED <<idled, currConnIter>>

(* Transfer takes entry n from one list to the other.                      *)
Transfer(n) ==
  /\ connClients' = Append(connClients, loggedInClients[n])
  /\ loggedInClients' = RemoveAt(loggedInClients, n)
  /\ playersOnline' = OnlineAfterTransfer
  /\ wire' = Heard(loggedInClients[n])
  /\ UNCHANGED <<idled, currConnIter>>

-----------------------------------------------------------------------------
(* CheckConn: at most one client each second, none that the firewall       *)
(* blocks.  CheckLoginMessage selects right after it.                      *)

Accept(c) ==
  /\ pc = "conn" /\ wire[c] = "dialled"
  /\ wire' = Heard(c)
  /\ loggedInClients' = Append(loggedInClients, c)
  /\ BeginScan(loggedInClients', wire', Len(loggedInClients'))
  /\ pc' = "login"
  /\ UNCHANGED <<connClients, playersOnline, idled, currConnIter, rest>>

Block(c) ==
  /\ pc = "conn" /\ wire[c] = "dialled"
  /\ wire' = Closed(c)
  /\ BeginScan(loggedInClients, wire', Len(loggedInClients))
  /\ pc' = "login"
  /\ UNCHANGED <<table, currConnIter, rest>>

AcceptNobody ==
  /\ pc = "conn"
  /\ BeginScan(loggedInClients, wire, Len(loggedInClients))
  /\ pc' = "login"
  /\ UNCHANGED <<wire, table, currConnIter, rest>>

-----------------------------------------------------------------------------
(* CheckLoginMessage: a turn for each index.                               *)

LoginTurn == pc = "login" /\ i <= Len(loggedInClients)

(* Nothing is read any more in a round that changed the list.              *)
LoginReads ==
  /\ LoginTurn
  /\ loggedInClients[i] \in all \ errsock
  /\ oldnow = Len(loggedInClients)

NextTurn == i' = i + 1 /\ UNCHANGED <<all, errsock, oldnow, pc, rest>>

LoginPasses ==
  /\ LoginTurn /\ ~LoginReads
  /\ loggedInClients[i] \notin errsock
  /\ NextTurn
  /\ UNCHANGED <<wire, table, currConnIter>>

LoginFails ==
  /\ LoginTurn
  /\ loggedInClients[i] \in errsock
  /\ LoginDisconnect(i)
  /\ NextTurn

LoginAnswered ==
  /\ LoginReads
  /\ wire[loggedInClients[i]] = "ready"
  /\ wire' = Heard(loggedInClients[i])
  /\ NextTurn
  /\ UNCHANGED <<table, currConnIter>>

(* Denied, relayed, not understood, or the read failed.                    *)
LoginLeaves ==
  /\ LoginReads
  /\ LoginDisconnect(i)
  /\ NextTurn

Enters ==
  /\ LoginReads
  /\ wire[loggedInClients[i]] = "ready"
  /\ Transfer(i)
  /\ NextTurn

(* The chosen slot is empty: transferred, and disconnected by the handler. *)
EntersInVain ==
  /\ LoginReads
  /\ wire[loggedInClients[i]] = "ready"
  /\ loggedInClients' = RemoveAt(loggedInClients, i)
  /\ playersOnline' = Len(connClients)
  /\ wire' = Closed(loggedInClients[i])
  /\ NextTurn
  /\ UNCHANGED <<connClients, idled, currConnIter>>

LoginDone ==
  /\ pc = "login" /\ i > Len(loggedInClients)
  /\ BeginScan(connClients, wire, playersOnline)
  /\ pc' = "clients"
  /\ UNCHANGED <<wire, table, currConnIter, rest>>

-----------------------------------------------------------------------------
(* CheckMessage: a turn for each index below playersOnline.                *)

ClientTurn == pc = "clients" /\ i <= playersOnline

Current == connClients[i]

ClientReads ==
  /\ ClientTurn
  /\ Current \in all \ errsock
  /\ oldnow = playersOnline

ClientPasses ==
  /\ ClientTurn /\ ~ClientReads
  /\ Current \notin errsock
  /\ NextTurn
  /\ UNCHANGED <<wire, table, currConnIter>>

(* The code goes on to ask about the entry that slid into index i, and for  *)
(* the last index about what is past the end of the vector; the count has   *)
(* changed, so nothing comes of the answer.                                 *)
ClientFails ==
  /\ ClientTurn
  /\ Current \in errsock
  /\ Disconnect(i, wire)
  /\ NextTurn

ClientServed ==
  /\ ClientReads
  /\ wire[Current] = "ready"
  /\ wire' = Heard(Current)
  /\ idled' = idled \ {Current}
  /\ NextTurn
  /\ UNCHANGED <<loggedInClients, connClients, playersOnline, currConnIter>>

ClientLeaves ==
  /\ ClientReads
  /\ Disconnect(i, wire)
  /\ NextTurn

(* A command, a gump or a script disconnects another client.               *)
Kick(n) ==
  /\ ClientReads
  /\ wire[Current] = "ready"
  /\ n \in 1 .. Len(connClients) /\ n # i
  /\ Disconnect(n, Heard(Current))
  /\ NextTurn

(* A packet GetMsg does not know: it is read away after a select of its    *)
(* own, over the same "all" that the turns to come consult.                *)
AllAfterStrange == {}

Strange ==
  /\ ClientReads
  /\ wire[Current] = "ready"
  /\ wire' = Heard(Current)
  /\ idled' = idled \ {Current}
  /\ all' = AllAfterStrange
  /\ i' = i + 1
  /\ UNCHANGED <<loggedInClients, connClients, playersOnline, errsock, oldnow,
                 currConnIter, pc, rest>>

(* CThreadQueue::NewMessage.                                               *)
Post(m) ==
  /\ Len(messageLoop) < MaxQueue
  /\ messageLoop' = Append(messageLoop, m)

(* A script run for a packet asks for a shutdown or a reload.              *)
Tell(m) ==
  /\ ClientReads
  /\ wire[Current] = "ready"
  /\ wire' = Heard(Current)
  /\ idled' = idled \ {Current}
  /\ Post(m)
  /\ i' = i + 1
  /\ UNCHANGED <<loggedInClients, connClients, playersOnline, all, errsock,
                 oldnow, currConnIter, pc, keepRun, reloading,
                 conthreadcloseok, console>>

(* CheckAutoTimers is left out while scripts are reloaded.                 *)
ClientsDone ==
  /\ pc = "clients" /\ i > playersOnline
  /\ pc' = IF reloading THEN "messages" ELSE "timers"
  /\ all' = {} /\ errsock' = {} /\ i' = 1 /\ oldnow' = 0
  /\ currConnIter' = 1
  /\ UNCHANGED <<wire, table, rest>>

-----------------------------------------------------------------------------
(* CheckAutoTimers' loop over the connections, by FirstSocket, NextSocket. *)

Finished == currConnIter = Len(connClients) + 1

NextOf(position, list) ==
  IF position = Len(list) + 1 THEN position ELSE position + 1

IdlePasses ==
  /\ pc = "timers" /\ ~Finished
  /\ connClients[currConnIter] \notin idled
  /\ currConnIter' = NextOf(currConnIter, connClients)
  /\ UNCHANGED <<wire, table, scan, pc, rest>>

(* A trade window deleted with it asks every connection for its target, with *)
(* the same iterator, and leaves it at the end: whoever follows waits for    *)
(* the next round.                                                           *)
IdleKicked ==
  /\ pc = "timers" /\ ~Finished
  /\ connClients[currConnIter] \in idled
  /\ LET n == currConnIter IN
       /\ connClients' = RemoveAt(connClients, n)
       /\ wire' = Closed(connClients[n])
       /\ playersOnline' = OnlineAfterDisconnect
       /\ idled' = idled \ {connClients[n]}
       /\ currConnIter' \in {NextOf(IterAfterDisconnect(n), connClients'),
                             Len(connClients') + 1}
  /\ UNCHANGED <<loggedInClients, scan, pc, rest>>

(* In the round after a save everybody gets another minute instead.        *)
JustSaved ==
  /\ pc = "timers" /\ currConnIter = 1
  /\ idled' = {}
  /\ pc' = "messages"
  /\ UNCHANGED <<wire, loggedInClients, connClients, playersOnline, scan,
                 currConnIter, rest>>

TimersDone ==
  /\ pc = "timers" /\ Finished
  /\ pc' = "messages"
  /\ currConnIter' = 1
  /\ UNCHANGED <<wire, table, scan, rest>>

-----------------------------------------------------------------------------
(* DoMessageLoop: while the queue is not empty, grab a message.  Testing   *)
(* the reload flag and setting it are two steps, in both threads.          *)

Grab(m) ==
  /\ pc = "messages" /\ messageLoop # <<>> /\ Head(messageLoop) = m
  /\ messageLoop' = Tail(messageLoop)
  /\ UNCHANGED <<wire, table, scan, currConnIter, conthreadcloseok, console>>

GrabShutdown ==
  /\ Grab("shutdown")
  /\ keepRun' = FALSE
  /\ UNCHANGED <<pc, reloading>>

GrabReload ==
  /\ Grab("reload")
  /\ pc' = IF reloading THEN "messages" ELSE "tested"
  /\ UNCHANGED <<keepRun, reloading>>

MainReload(from, to, flag) ==
  /\ pc = from
  /\ pc' = to
  /\ reloading' = flag
  /\ UNCHANGED <<wire, table, scan, currConnIter, keepRun, messageLoop,
                 conthreadcloseok, console>>

BeginMainReload == MainReload("tested", "reloading", TRUE)
EndMainReload   == MainReload("reloading", "messages", FALSE)

NextRound ==
  /\ pc = "messages" /\ messageLoop = <<>> /\ keepRun
  /\ pc' = "conn"
  /\ UNCHANGED <<wire, table, scan, currConnIter, rest>>

(* Fault: the console thread is not told.                                  *)
ShutdownUnannounced ==
  /\ pc = "messages" /\ messageLoop = <<>> /\ ~keepRun
  /\ pc' = "join"
  /\ wire' = [c \in Sockets |-> "out"]
  /\ loggedInClients' = <<>> /\ connClients' = <<>> /\ idled' = {}
  /\ playersOnline' = 0
  /\ UNCHANGED <<scan, currConnIter, keepRun, messageLoop, reloading,
                 conthreadcloseok, console>>

(* The end of main: sockets are closed, the world is saved, the console    *)
(* thread is told to end, the objects are deleted, the tables with them.   *)
BeginShutdown ==
  /\ pc = "messages" /\ messageLoop = <<>> /\ ~keepRun
  /\ pc' = "join"
  /\ conthreadcloseok' = TRUE
  /\ wire' = [c \in Sockets |-> "out"]
  /\ loggedInClients' = <<>> /\ connClients' = <<>> /\ idled' = {}
  /\ playersOnline' = 0
  /\ UNCHANGED <<scan, currConnIter, keepRun, messageLoop, reloading, console>>

(* Shutdown waits for the console thread.                                  *)
Join ==
  /\ pc = "join" /\ console = "done"
  /\ pc' = "ended"
  /\ UNCHANGED <<wire, table, scan, currConnIter, rest>>

-----------------------------------------------------------------------------
(* The console thread.                                                     *)

ConsoleGoes(from, to) ==
  /\ console = from
  /\ console' = to
  /\ UNCHANGED <<wire, table, scan, currConnIter, pc, keepRun>>

ConsoleStarts ==
  /\ ConsoleGoes("starting", "testing")
  /\ conthreadcloseok' = FALSE
  /\ UNCHANGED <<messageLoop, reloading>>

ConsoleTests ==
  /\ \/ ~conthreadcloseok /\ ConsoleGoes("testing", "polling")
     \/ conthreadcloseok /\ ConsoleGoes("testing", "done")
  /\ UNCHANGED <<messageLoop, reloading, conthreadcloseok>>

(* Poll: no key, a key that only posts, the prompt for a broadcast, which  *)
(* reads keys until the operator ends it, and the reload.                  *)
NoKey ==
  /\ ConsoleGoes("polling", "testing")
  /\ UNCHANGED <<messageLoop, reloading, conthreadcloseok>>

QuitKey ==
  /\ ConsoleGoes("polling", "testing")
  /\ Post("shutdown")
  /\ UNCHANGED <<reloading, conthreadcloseok>>

PromptKey ==
  /\ ConsoleGoes("polling", "prompt")
  /\ UNCHANGED <<messageLoop, reloading, conthreadcloseok>>

EndPrompt ==
  /\ ConsoleGoes("prompt", "testing")
  /\ UNCHANGED <<messageLoop, reloading, conthreadcloseok>>

ReloadKey ==
  /\ ConsoleGoes("polling", IF reloading THEN "testing" ELSE "tested")
  /\ UNCHANGED <<messageLoop, reloading, conthreadcloseok>>

BeginConsoleReload ==
  /\ ConsoleGoes("tested", "reloading")
  /\ reloading' = TRUE
  /\ UNCHANGED <<messageLoop, conthreadcloseok>>

EndConsoleReload ==
  /\ ConsoleGoes("reloading", "testing")
  /\ reloading' = FALSE
  /\ UNCHANGED <<messageLoop, conthreadcloseok>>

-----------------------------------------------------------------------------
Clients == \E c \in Sockets : Dial(c) \/ Talk(c) \/ HangUp(c) \/ Break(c)
                                \/ GrowIdle(c)

Logins == \/ \E c \in Sockets : Accept(c) \/ Block(c)
          \/ AcceptNobody \/ LoginPasses \/ LoginFails \/ LoginAnswered
          \/ LoginLeaves \/ Enters \/ EntersInVain \/ LoginDone

Turns == \/ ClientPasses \/ ClientFails \/ ClientServed \/ ClientLeaves
         \/ \E n \in 1 .. Len(connClients) : Kick(n)
         \/ Strange
         \/ \E m \in Messages : Tell(m)
         \/ ClientsDone

Timers == IdlePasses \/ IdleKicked \/ JustSaved \/ TimersDone

Rounds == \/ GrabShutdown \/ GrabReload \/ BeginMainReload \/ EndMainReload
          \/ NextRound \/ BeginShutdown \/ Join

Main == Logins \/ Turns \/ Timers \/ Rounds

Console == \/ ConsoleStarts \/ ConsoleTests \/ NoKey \/ QuitKey \/ PromptKey
           \/ EndPrompt \/ ReloadKey \/ BeginConsoleReload \/ EndConsoleReload

Ended == pc = "ended" /\ UNCHANGED vars

Next == Clients \/ Main \/ Console \/ Ended

Spec == Init /\ [][Next]_vars

(* Both threads run; nothing is assumed of clients or of the operator, who *)
(* may leave a prompt open.                                                *)
FairSpec == Spec /\ WF_vars(Main) /\ WF_vars(Console /\ ~EndPrompt)

-----------------------------------------------------------------------------
(* Type invariant. *)
TypeOK ==
  /\ wire \in [Sockets -> Wires]
  /\ loggedInClients \in Seq(Sockets) /\ connClients \in Seq(Sockets)
  /\ playersOnline \in Nat /\ i \in Nat /\ oldnow \in Nat
  /\ currConnIter \in Nat
  /\ all \in SUBSET Sockets /\ errsock \in SUBSET Sockets
  /\ idled \in SUBSET Sockets
  /\ pc \in {"conn", "login", "clients", "timers", "messages", "tested",
             "reloading", "join", "ended"}
  /\ keepRun \in BOOLEAN /\ messageLoop \in Seq(Messages)
  /\ reloading \in BOOLEAN /\ conthreadcloseok \in BOOLEAN
  /\ console \in {"starting", "testing", "polling", "prompt", "tested",
                  "reloading", "done"}

(* The table is sound: the loop of CheckMessage, which runs to              *)
(* playersOnline, runs over connClients exactly; a connection is in one     *)
(* list, once, and what is in a list has an open socket.                    *)
TableSound ==
  /\ playersOnline = Len(connClients)
  /\ IsInjective(loggedInClients \o connClients)
  /\ \A c \in Sockets : c \in Listed <=> wire[c] \notin {"out", "dialled"}

(* select's answer still holds when a turn uses it: what is still to come   *)
(* of the scan and was found readable has something to read, or is lost,   *)
(* and what was found in error is lost, although turns in between read,    *)
(* disconnect and transfer others.                                         *)
Pending(list) ==
  \A n \in i .. Len(list) :
    /\ list[n] \in all => wire[list[n]] \in {"ready", "closed", "broken"}
    /\ list[n] \in errsock => wire[list[n]] = "broken"

SelectTrue ==
  /\ pc = "login" => Pending(loggedInClients)
  /\ pc = "clients" => Pending(connClients)

(* Where each connection is, and the promise of the network layer kept.    *)
Stage ==
  [c \in Sockets |-> IF c \in ToSet(connClients) THEN "game"
                     ELSE IF c \in ToSet(loggedInClients) THEN "login" ELSE wire[c]]

C == INSTANCE Connections
       WITH stage <- Stage, players <- connClients, online <- playersOnline,
            closed <- pc \in {"join", "ended"}
ConnectionsKept == C!Spec

(* Players take their turns in the order in which they entered.            *)
PlayersInOrder == C!InOrder

(* Steps after which the rest of a round is lost to others.                *)
Disturbs ==
  \/ \E n \in 1 .. Len(connClients) : Kick(n)
  \/ Strange
  \/ QuitKey
  \/ \E m \in Messages : Tell(m)

(* A connection in the game that has sent something is read, or leaves,    *)
(* although every disconnection stops reading for the rest of its round:   *)
(* whoever waits moves up.  It takes an end of kicks, unknown packets and  *)
(* requests for the message loop, each of which may delay it.              *)
ReadyServed ==
  <>[][~Disturbs]_vars =>
    \A c \in Sockets :
      (c \in ToSet(connClients) /\ wire[c] = "ready")
        ~> (c \notin ToSet(connClients) \/ wire[c] # "ready")

(* The same without any condition, which fails: see the README.            *)
EverybodyServed ==
  \A c \in Sockets :
    (c \in ToSet(connClients) /\ wire[c] = "ready")
      ~> (c \notin ToSet(connClients) \/ wire[c] # "ready")

(* A connection that is lost leaves the tables, in the game or not.        *)
LostDropped ==
  <>[][~Disturbs]_vars =>
    \A c \in Sockets :
      (c \in Listed /\ wire[c] \in {"closed", "broken"}) ~> wire[c] = "out"

(* A server told to stop ends, if its console thread is past its start by  *)
(* the time the objects are deleted and does not wait for the operator to  *)
(* finish a broadcast.                                                     *)
StopsUnlessPrompted ==
  <>[][~Disturbs]_vars =>
    ((~keepRun /\ pc # "join" /\ console # "starting")
       ~> (pc = "ended" \/ (pc = "join" /\ console = "prompt")))

(* "This will signal the console thread to close": it always stops.        *)
StopsWhenTold == <>[][~Disturbs]_vars => (~keepRun ~> pc = "ended")

(* "Server can only load one script at a time".                            *)
OneReloadAtATime == ~(pc = "reloading" /\ console = "reloading")

(* The console thread uses nothing that Shutdown has deleted.              *)
NothingUsedAfterDelete == ~(pc = "join" /\ console = "reloading")
=============================================================================
