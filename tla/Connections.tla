----------------------------- MODULE Connections -----------------------------
(***************************************************************************)
(* What the network layer promises the game: a connection dials, logs in,  *)
(* plays and goes, one connection at a time; the players are counted and   *)
(* keep the order in which they entered, which is the order of their       *)
(* turns; and once the server has closed, nobody comes any more.           *)
(***************************************************************************)
EXTENDS Naturals, Sequences, SequencesExt

CONSTANT Sockets

VARIABLES stage, players, online, closed

vars == <<stage, players, online, closed>>

Init ==
  /\ stage = [c \in Sockets |-> "out"]
  /\ players = <<>> /\ online = 0
  /\ closed = FALSE

Goes(c, from, to) ==
  /\ stage[c] \in from
  /\ stage' = [stage EXCEPT ![c] = to]

Dial(c)   == ~closed /\ Goes(c, {"out"}, "dialled") /\ UNCHANGED <<players, online, closed>>
Accept(c) == ~closed /\ Goes(c, {"dialled"}, "login") /\ UNCHANGED <<players, online, closed>>

Enter(c) ==
  /\ ~closed
  /\ Goes(c, {"login"}, "game")
  /\ players' = Append(players, c) /\ online' = online + 1
  /\ UNCHANGED closed

(* Turned away at the door or while logging in.                            *)
GiveUp(c) == Goes(c, {"dialled", "login"}, "out") /\ UNCHANGED <<players, online, closed>>

Leave(n) ==
  /\ Goes(players[n], {"game"}, "out")
  /\ players' = RemoveAt(players, n) /\ online' = online - 1
  /\ UNCHANGED closed

Close ==
  /\ stage' = [c \in Sockets |-> "out"]
  /\ players' = <<>> /\ online' = 0
  /\ closed' = TRUE

Next ==
  \/ \E c \in Sockets : Dial(c) \/ Accept(c) \/ Enter(c) \/ GiveUp(c)
  \/ \E n \in DOMAIN players : Leave(n)
  \/ Close

Spec == Init /\ [][Next]_vars

-----------------------------------------------------------------------------
Ahead(c, d, list) ==
  \E m, n \in DOMAIN list : m < n /\ list[m] = c /\ list[n] = d

(* Nobody overtakes: who stays keeps those behind it behind, and newcomers *)
(* come last.                                                              *)
InOrder ==
  [][\A c, d \in ToSet(players') :
       /\ Ahead(c, d, players) => Ahead(c, d, players')
       /\ c \in ToSet(players) /\ d \notin ToSet(players)
          => Ahead(c, d, players')]_vars
=============================================================================
