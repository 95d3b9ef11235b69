-------------------------------- MODULE Parties --------------------------------
(***************************************************************************)
(* Parties of players, or of creatures that scripts lead                   *)
(* (src/src/system/Subsystem/PartySystem.cpp).  Membership is written down *)
(* twice: in the party's list, and in the factory's lookup from characters *)
(* to parties, which every handler asks first.  The entries' permission to *)
(* loot is left out.                                                       *)
(*                                                                         *)
(* The server keeps no invitations: a client that accepts one names whose  *)
(* it was, and joins the party that character is in by then.  No party is  *)
(* ever destroyed, and a deleted character stays in its list.              *)
(***************************************************************************)
EXTENDS Naturals, Sequences, SequencesExt

CONSTANTS Players, Npcs,
          Nobody,       (* no leader                         *)
          MaxParties    (* bound: how many parties are made  *)

ASSUME PartyAssumption ==
  /\ MaxParties \in Nat
  /\ Players \cap Npcs = {}
  /\ Nobody \notin Players \cup Npcs

VARIABLES partyCount,       (* parties are numbered from 1 as they are made *)
          partyMembers,     (* Party::members                               *)
          leader,           (* Party::leader                                *)
          isNPC,            (* parties of creatures                         *)
          partyQuickLook,   (* PartyFactory's lookup; 0 for none            *)
          deleted           (* characters that are no longer valid          *)

partyVars == <<partyCount, partyMembers, leader, isNPC,
               partyQuickLook, deleted>>

People   == Players \cup Npcs
PartyIds == 1 .. MaxParties
Valid(c) == c \in People \ deleted

PartyInit ==
  /\ partyCount = 0
  /\ partyMembers = [p \in PartyIds |-> <<>>]
  /\ leader = [p \in PartyIds |-> Nobody]
  /\ isNPC = {}
  /\ partyQuickLook = [c \in People |-> 0]
  /\ deleted = {}

HasMember(p, c) == Valid(c) /\ c \in ToSet(partyMembers[p])

(* CreateInvite makes a party for an inviter that has none, and so does    *)
(* CreateParty for a script.                                               *)
Create(c) ==
  /\ Valid(c) /\ partyQuickLook[c] = 0
  /\ partyCount < MaxParties
  /\ LET p == partyCount + 1 IN
       /\ partyCount' = p
       /\ partyMembers' = [partyMembers EXCEPT ![p] = <<c>>]
       /\ leader' = [leader EXCEPT ![p] = c]
       /\ partyQuickLook' = [partyQuickLook EXCEPT ![c] = p]
  /\ UNCHANGED <<isNPC, deleted>>

(* AddMember looks for the character in this party only.                   *)
AddMember(p, c) ==
  /\ Valid(c) /\ ~HasMember(p, c)
  /\ partyMembers' = [partyMembers EXCEPT ![p] = Append(@, c)]
  /\ partyQuickLook' = [partyQuickLook EXCEPT ![c] = p]
  /\ UNCHANGED <<partyCount, leader, isNPC, deleted>>

(* PARTY_ACCEPT names whoever the client says, a creature or the player    *)
(* that invited it: nobody asks.                                           *)
AcceptInvite(c, d) ==
  /\ c \in Players /\ Valid(d)
  /\ partyQuickLook[d] # 0
  /\ AddMember(partyQuickLook[d], c)

(* A script adds creatures to parties of creatures; to players it only     *)
(* sends an invitation.                                                    *)
ScriptAdd(p, c) ==
  /\ p <= partyCount /\ p \in isNPC
  /\ c \in Npcs
  /\ AddMember(p, c)

(* The lookup is dropped, whichever party it names; the fault keeps it.    *)
LookupKept(c) == partyQuickLook
LookupWithout(c) == [partyQuickLook EXCEPT ![c] = 0]

RemoveMember(p, c) ==
  /\ HasMember(p, c)
  /\ partyMembers' = [partyMembers EXCEPT ![p] = RemoveFirst(@, c)]
  /\ partyQuickLook' = LookupWithout(c)
  /\ UNCHANGED <<partyCount, leader, isNPC, deleted>>

(* Kick: the leader removes anybody, everybody may remove themselves.      *)
Kick(c, d) ==
  /\ c \in Players \ deleted /\ d \in Players
  /\ LET p == partyQuickLook[c] IN
       /\ p # 0
       /\ leader[p] = c \/ c = d
       /\ RemoveMember(p, d)

ScriptRemove(p, c) == p <= partyCount /\ RemoveMember(p, c)

(* Party::Leader changes places with the old leader, if that one is still  *)
(* there.                                                                  *)
SetLeader(p, c) ==
  /\ p <= partyCount /\ HasMember(p, c)
  /\ LET at(d) == CHOOSE k \in DOMAIN partyMembers[p] : partyMembers[p][k] = d
         old == leader[p]
     IN partyMembers' =
          IF HasMember(p, old)
          THEN [partyMembers EXCEPT ![p][at(old)] = c, ![p][at(c)] = old]
          ELSE partyMembers
  /\ leader' = [leader EXCEPT ![p] = c]
  /\ UNCHANGED <<partyCount, isNPC, partyQuickLook, deleted>>

(* A script says which parties are of creatures, and the party does not    *)
(* look who is in it.                                                      *)
SetNpc(p) ==
  /\ p <= partyCount
  /\ \/ isNPC' = isNPC \cup {p}
     \/ isNPC' = isNPC \ {p}
  /\ UNCHANGED <<partyCount, partyMembers, leader, partyQuickLook,
                 deleted>>

DeleteChar(c) ==
  /\ Valid(c)
  /\ deleted' = deleted \cup {c}
  /\ UNCHANGED <<partyCount, partyMembers, leader, isNPC,
                 partyQuickLook>>

PartyNext ==
  \/ \E c \in People : Create(c) \/ DeleteChar(c)
  \/ \E c \in Players, d \in People : AcceptInvite(c, d)
  \/ \E c, d \in Players : Kick(c, d)
  \/ \E p \in PartyIds, c \in People :
       ScriptAdd(p, c) \/ ScriptRemove(p, c) \/ SetLeader(p, c)
  \/ \E p \in PartyIds : SetNpc(p)

PartySpec == PartyInit /\ [][PartyNext]_partyVars

-----------------------------------------------------------------------------
(* Type invariant. *)
PartyTypeOK ==
  /\ partyCount \in 0 .. MaxParties
  /\ partyMembers \in [PartyIds -> Seq(People)]
  /\ leader \in [PartyIds -> People \cup {Nobody}]
  /\ isNPC \in SUBSET PartyIds
  /\ partyQuickLook \in [People -> 0 .. MaxParties]
  /\ deleted \in SUBSET People

(* The lookup never sends a character to a party it is not in, and no list *)
(* has it twice, however characters change parties, are removed from one   *)
(* by another's leader, change leaders or are deleted.                     *)
LookupTrue ==
  /\ \A p \in PartyIds : IsInjective(partyMembers[p])
  /\ \A c \in People : partyQuickLook[c] # 0 =>
       c \in ToSet(partyMembers[partyQuickLook[c]])

(* What fails, see the README: "PCs and NPCs cannot mix in the same party" *)
(* (PartySystem.h), a character is in one party at most, the leader is in  *)
(* the party, and comrades may fight each other both ways.                 *)
NeverMixed ==
  \A p \in PartyIds : \/ ToSet(partyMembers[p]) \subseteq Players
                      \/ ToSet(partyMembers[p]) \subseteq Npcs

OneParty == \A p, q \in PartyIds :
  p # q => ToSet(partyMembers[p]) \cap ToSet(partyMembers[q]) = {}

LeaderPresent == \A p \in PartyIds :
  partyMembers[p] # <<>> => leader[p] \in ToSet(partyMembers[p])

Comrades(a, b) == partyQuickLook[a] # 0 /\ HasMember(partyQuickLook[a], b)
ComradesAgree == \A a, b \in People \ deleted : Comrades(a, b) => Comrades(b, a)
=============================================================================
