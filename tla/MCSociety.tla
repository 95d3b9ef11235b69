------------------------------- MODULE MCSociety -------------------------------
(***************************************************************************)
(* Five components that share nothing: parties, guilds, houses and boats,  *)
(* temporary effects, and casting.  Each of them moves while the others    *)
(* are as they begin.                                                      *)
(***************************************************************************)
EXTENDS Parties, Guilds, Estates, Effects, Casting, TLC

CONSTANTS h1, b1, b2, f1, f2

MCPartOf == (f1 :> h1) @@ (f2 :> b1)

(* Players, creatures and what effects are cast on do not differ among      *)
(* themselves.                                                              *)
PeopleSymmetry ==
  Permutations(Players) \cup Permutations(Creatures) \cup Permutations(Targets)

Init == PartyInit /\ GuildInit /\ EstateInit /\ EffectInit /\ CastInit

Next ==
  \/ /\ GuildInit /\ EstateInit /\ EffectInit /\ CastInit
     /\ PartyNext
     /\ UNCHANGED <<guildVars, estateVars, effectVars, castVars>>
  \/ /\ PartyInit /\ EstateInit /\ EffectInit /\ CastInit
     /\ GuildNext
     /\ UNCHANGED <<partyVars, estateVars, effectVars, castVars>>
  \/ /\ PartyInit /\ GuildInit /\ EffectInit /\ CastInit
     /\ EstateNext
     /\ UNCHANGED <<partyVars, guildVars, effectVars, castVars>>
  \/ /\ PartyInit /\ GuildInit /\ EstateInit /\ CastInit
     /\ EffectNext
     /\ UNCHANGED <<partyVars, guildVars, estateVars, castVars>>
  \/ /\ PartyInit /\ GuildInit /\ EstateInit /\ EffectInit
     /\ CastNext
     /\ UNCHANGED <<partyVars, guildVars, estateVars, effectVars>>

Spec == Init /\ [][Next]_<<partyVars, guildVars, estateVars, effectVars, castVars>>
=============================================================================
