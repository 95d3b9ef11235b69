-------------------------------- MODULE Guilds --------------------------------
(***************************************************************************)
(* Guilds (src/src/system/BaseObjects/cGuild.cpp).  A guild is its number, *)
(* the index in gList, which is never used again: a disbanded guild leaves *)
(* a NULL there.  Who belongs to a guild is written down twice, in its     *)
(* list and as the character's guild number, and a menu works on the guild *)
(* that was current when it was opened, whatever became of it since.       *)
(*                                                                         *)
(* A menu of a disbanded guild, and a save while there is one, follow the  *)
(* NULL: the process ends, and starts again from what the last save wrote. *)
(* It holds a list of members without separators, which two or more of     *)
(* them do not survive: they come back as the one serial of nobody.        *)
(*                                                                         *)
(* Creatures can be recruited as well as players, and some of them split   *)
(* when they are hit: the copy has the number and is in no list.           *)
(***************************************************************************)
EXTENDS Naturals, Sequences, SequencesExt, FiniteSets

CONSTANTS Chars,
          Creatures,   (* those of them that nobody's client plays         *)
          Garbled,     (* the member that several are read back as         *)
          MaxGuilds,   (* bound: how many guilds are ever founded          *)
          MaxListed,   (* bound: how long a list of members is             *)
          MaxRecruits  (* bound: how long a list of recruits is            *)

ASSUME GuildAssumption ==
  /\ MaxGuilds \in Nat /\ MaxListed \in Nat /\ MaxRecruits \in Nat
  /\ Garbled \notin Chars /\ Creatures \subseteq Chars

VARIABLES gCount,        (* the size of gList                              *)
          erased,        (* entries of gList that are NULL                 *)
          members,       (* CGuild::members                                *)
          recruits,      (* CGuild::recruits                               *)
          guildNumber,   (* each character's guild; 0 for none             *)
          tempInt        (* the guild of the menu a character has open     *)

lists     == <<gCount, erased, members, recruits>>
guildVars == <<lists, guildNumber, tempInt>>

Clients  == Chars \ Creatures
GuildIds == 1 .. MaxGuilds
Serials  == Chars \cup {Garbled}
Exists(g) == g \in 1 .. gCount /\ g \notin erased

GuildInit ==
  /\ gCount = 0 /\ erased = {}
  /\ members = [g \in GuildIds |-> <<>>] /\ recruits = [g \in GuildIds |-> <<>>]
  /\ guildNumber = [c \in Chars |-> 0]
  /\ tempInt = [c \in Chars |-> 0]

-----------------------------------------------------------------------------
(* RemoveMember and RemoveRecruit are RemoveFirst of the list.             *)

(* NewRecruit, to the lists as they are by then.                           *)
NewRecruit(ms, rs, g, c) ==
  /\ Len(rs[g]) < MaxRecruits
  /\ members' = [ms EXCEPT ![g] = RemoveFirst(@, c)]
  /\ recruits' = [rs EXCEPT ![g] = Append(@, c)]

(* RecruitToMember takes a recruit off, and NewMember another one.         *)
RecruitToMember(g, c) ==
  /\ Len(members[g]) < MaxListed
  /\ recruits' = [recruits EXCEPT ![g] = RemoveFirst(RemoveFirst(@, c), c)]
  /\ members' = [members EXCEPT ![g] = Append(@, c)]

(* Erase clears the number of everybody in its lists; the members are gone *)
(* by then, and a recruit may have the number of another guild.            *)
NumbersAfterErase(g) ==
  [c \in Chars |-> IF c \in ToSet(recruits[g]) THEN 0 ELSE guildNumber[c]]

-----------------------------------------------------------------------------
(* PlaceStone: whoever is in no guild founds one.                          *)
Found(c) ==
  /\ guildNumber[c] = 0
  /\ gCount < MaxGuilds
  /\ LET g == gCount + 1 IN
       /\ gCount' = g
       /\ members' = [members EXCEPT ![g] = <<c>>]
       /\ guildNumber' = [guildNumber EXCEPT ![c] = g]
       /\ tempInt' = [tempInt EXCEPT ![c] = g]
  /\ UNCHANGED <<erased, recruits>>

(* The stone shows its menu to members and to whoever is in no guild.      *)
OpenMenu(c, g) ==
  /\ Exists(g)
  /\ guildNumber[c] \in {0, g}
  /\ tempInt' = [tempInt EXCEPT ![c] = g]
  /\ UNCHANGED <<lists, guildNumber>>

(* The target of "recruit": somebody in no guild, for the guild the        *)
(* character that asks is in by then.  It may be a creature.               *)
Recruit(c, d) ==
  /\ tempInt[c] # 0
  /\ guildNumber[d] = 0 /\ Exists(guildNumber[c])
  /\ NewRecruit(members, recruits, guildNumber[c], d)
  /\ UNCHANGED <<gCount, erased, guildNumber, tempInt>>

-----------------------------------------------------------------------------
(* The guildmaster's lists, of the guild of the menu.  Who sees them is    *)
(* left open: game masters always do, and a script makes anybody master.   *)

Presides(c) == Exists(tempInt[c])

(* Fault: the dismissed one keeps the number.                              *)
DismissNumbered(c, n) ==
  /\ Presides(c)
  /\ LET g == tempInt[c] IN
       /\ n \in DOMAIN members[g] /\ members[g][n] \in Chars
       /\ members' = [members EXCEPT ![g] = RemoveFirst(@, members[g][n])]
  /\ UNCHANGED <<gCount, erased, recruits, guildNumber, tempInt>>

Dismiss(c, n) ==
  /\ Presides(c)
  /\ LET g == tempInt[c] IN
       /\ n \in DOMAIN members[g] /\ members[g][n] \in Chars
       /\ members' = [members EXCEPT ![g] = RemoveFirst(@, members[g][n])]
       /\ guildNumber' = [guildNumber EXCEPT ![members[g][n]] = 0]
  /\ UNCHANGED <<gCount, erased, recruits, tempInt>>

RefuseRecruit(c, n) ==
  /\ Presides(c)
  /\ LET g == tempInt[c] IN
       /\ n \in DOMAIN recruits[g]
       /\ recruits' = [recruits EXCEPT ![g] = RemoveFirst(@, recruits[g][n])]
  /\ UNCHANGED <<gCount, erased, members, guildNumber, tempInt>>

(* Nothing asks whether the recruit has joined another guild meanwhile.    *)
AcceptRecruit(c, n) ==
  /\ Presides(c)
  /\ LET g == tempInt[c] IN
       /\ n \in DOMAIN recruits[g] /\ recruits[g][n] \in Chars
       /\ RecruitToMember(g, recruits[g][n])
       /\ guildNumber' = [guildNumber EXCEPT ![recruits[g][n]] = g]
  /\ UNCHANGED <<gCount, erased, tempInt>>

-----------------------------------------------------------------------------
(* Resign.  The last one to go takes the guild along.                      *)
MembersLeft(c) == [members EXCEPT ![guildNumber[c]] = RemoveFirst(@, c)]

Disbands(c) == MembersLeft(c)[guildNumber[c]] = <<>>

RecruitsLeft(c) == IF Disbands(c)
                   THEN [recruits EXCEPT ![guildNumber[c]] = <<>>] ELSE recruits

Leaves(c) ==
  LET g == guildNumber[c]
  IN /\ Exists(g)
     /\ erased' = IF Disbands(c) THEN erased \cup {g} ELSE erased
     /\ guildNumber' = IF Disbands(c)
                       THEN [NumbersAfterErase(g) EXCEPT ![c] = 0]
                       ELSE [guildNumber EXCEPT ![c] = 0]

Resign(c) ==
  /\ Leaves(c)
  /\ members' = MembersLeft(c)
  /\ recruits' = RecruitsLeft(c)
  /\ UNCHANGED <<gCount, tempInt>>

(* A script that gives a player's character a guild lets it resign, and    *)
(* the guild recruits it.                                                  *)
ScriptGuild(c, g) ==
  /\ Exists(g)
  /\ \/ /\ ~Exists(guildNumber[c])
        /\ NewRecruit(members, recruits, g, c)
        /\ UNCHANGED <<erased, guildNumber>>
     \/ /\ Leaves(c) /\ ~(Disbands(c) /\ g = guildNumber[c])
        /\ NewRecruit(MembersLeft(c), RecruitsLeft(c), g, c)
  /\ UNCHANGED <<gCount, tempInt>>

(* A script makes somebody a member.                                       *)
ScriptAccept(g, c) ==
  /\ Exists(g)
  /\ RecruitToMember(g, c)
  /\ UNCHANGED <<gCount, erased, guildNumber, tempInt>>

(* A creature that splits, HandleSplittingNPCs: the copy is new, so in no  *)
(* list, and CopyData gives it the number.                                 *)
Unlisted(d) == \A g \in GuildIds : d \notin ToSet(members[g]) \cup ToSet(recruits[g])

Split(c, d) ==
  /\ {c, d} \subseteq Creatures
  /\ Unlisted(d) /\ guildNumber[d] = 0
  /\ guildNumber' = [guildNumber EXCEPT ![d] = guildNumber[c]]
  /\ UNCHANGED <<lists, tempInt>>

-----------------------------------------------------------------------------
(* GuildSys->Save and the characters' numbers, in one transaction.  A list *)
(* is written without separators.                                          *)
Written(list) == IF Len(list) > 1 THEN <<Garbled>> ELSE list

(* The process ends sooner or later after a save, and what was done since  *)
(* is lost: it leads where an end right after the save does, and that is   *)
(* the one step here.  A guild that is gone keeps the save from ending.    *)
SaveAndRestart ==
  /\ erased = {}
  /\ members' = [g \in GuildIds |-> Written(members[g])]
  /\ recruits' = [g \in GuildIds |-> Written(recruits[g])]
  /\ tempInt' = [c \in Chars |-> 0]
  /\ UNCHANGED <<gCount, erased, guildNumber>>

GuildNext ==
  \/ \E c \in Clients : Found(c) \/ Resign(c)
  \/ \E c \in Clients, g \in GuildIds : OpenMenu(c, g) \/ ScriptGuild(c, g)
  \/ \E c \in Chars, g \in GuildIds : ScriptAccept(g, c)
  \/ \E c \in Clients, d \in Chars : Recruit(c, d)
  \/ \E c \in Clients, n \in 1 .. MaxListed :
       Dismiss(c, n) \/ RefuseRecruit(c, n) \/ AcceptRecruit(c, n)
  \/ \E c, d \in Creatures : Split(c, d)
  \/ SaveAndRestart

GuildSpec == GuildInit /\ [][GuildNext]_guildVars

-----------------------------------------------------------------------------
(* Type invariant. *)
GuildTypeOK ==
  /\ gCount \in 0 .. MaxGuilds /\ erased \in SUBSET (1 .. gCount)
  /\ members \in [GuildIds -> Seq(Serials)]
  /\ recruits \in [GuildIds -> Seq(Serials)]
  /\ guildNumber \in [Chars -> 0 .. MaxGuilds]
  /\ tempInt \in [Chars -> 0 .. MaxGuilds]

(* A character that carries the number of a guild is in that guild's list, *)
(* and the guild is there.                                                 *)
NumberTrue(c) == guildNumber[c] # 0 =>
  /\ Exists(guildNumber[c])
  /\ ToSet(members[guildNumber[c]]) \cap {c, Garbled} # {}

(* A number that is true stays true: whatever menus of other guilds still  *)
(* do to the lists, when scripts move members about, when the guild is     *)
(* disbanded, though copies may have its number, and after a crash, but    *)
(* for what the table garbled.  Only a copy begins with one that is not.   *)
NumberIsMembership == [][\A c \in Chars :
  NumberTrue(c) => NumberTrue(c)' \/ \E d \in Chars : Split(d, c)]_guildVars

(* What fails, see the README: whoever carries a number is a member, a     *)
(* character is in one guild, a guild that is there has members, and the   *)
(* world can be saved.                                                     *)
NumbersTrue == \A c \in Chars : NumberTrue(c)
OneGuild == \A g, h \in 1 .. gCount :
  g # h => ToSet(members[g]) \cap ToSet(members[h]) \cap Chars = {}
NoEmptyGuild == \A g \in (1 .. gCount) \ erased : members[g] # <<>>
StaysSaveable == erased = {}
=============================================================================
