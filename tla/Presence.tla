------------------------------- MODULE Presence -------------------------------
(***************************************************************************)
(* What the sessions of a server promise the world: a player's character   *)
(* is away, played, or left standing where its last connection was lost.   *)
(* While somebody plays it nothing takes it away, and what is left         *)
(* standing goes only when somebody who plays is near.                     *)
(***************************************************************************)
CONSTANTS Chars, Places, Around, None

VARIABLES where, at

Init ==
  /\ where = [c \in Chars |-> "away"]
  /\ at = [c \in Chars |-> None]

Enter(c) ==
  /\ where[c] # "played"
  /\ where' = [where EXCEPT ![c] = "played"]
  /\ \E p \in Places : at' = [at EXCEPT ![c] = p]
  /\ where[c] = "standing" => at' = at

(* The last connection goes, in a safe place or out in the open.           *)
LogOut(c) ==
  /\ where[c] = "played"
  /\ \/ /\ where' = [where EXCEPT ![c] = "away"]
        /\ at' = [at EXCEPT ![c] = None]
     \/ /\ where' = [where EXCEPT ![c] = "standing"]
        /\ \E p \in Places : at' = [at EXCEPT ![c] = p]

Move(c) ==
  /\ where[c] # "away"
  /\ \E p \in Places : at' = [at EXCEPT ![c] = p]
  /\ UNCHANGED where

(* The surroundings of somebody who plays are looked after, and those who  *)
(* were left standing in them go.                                          *)
Fade(c) ==
  /\ where[c] = "standing"
  /\ \E d \in Chars : where[d] = "played" /\ at[c] \in Around[at[d]]
  /\ where' = [where EXCEPT ![c] = "away"]
  /\ at' = [at EXCEPT ![c] = None]

Restart ==
  /\ where' = [c \in Chars |-> "away"]
  /\ at' = [c \in Chars |-> None]

Next == Restart \/ \E c \in Chars : Enter(c) \/ LogOut(c) \/ Move(c) \/ Fade(c)

Spec == Init /\ [][Next]_<<where, at>>
=============================================================================
