---------------------------- MODULE SocietyProofs -----------------------------
(***************************************************************************)
(* Proofs about parties, guilds, spawned things, houses and boats, for any *)
(* people, things and numbers of each: who or what belongs to what is a    *)
(* list of the one and an entry of the other, and the theorems say that    *)
(* neither lies.  Then proofs about temporary effects, of which those that *)
(* replace one another never run twice and none leaves anything over, and  *)
(* about casting, which holds nobody longer than the spell.                *)
(***************************************************************************)
EXTENDS Parties, Guilds, Spawns, Estates, Effects, Casting, Lists, TLAPS

-----------------------------------------------------------------------------
(* Parties.  Parties are made in turn, so the next one has no members yet. *)
PartiesInTurn == \A p \in PartyIds : p > partyCount => partyMembers[p] = <<>>

PartyInv == PartyTypeOK /\ LookupTrue /\ PartiesInTurn

LEMMA PartyInitInv == PartyInit => PartyInv
<1> SUFFICES ASSUME PartyInit PROVE PartyInv
  OBVIOUS
<1>1. /\ <<>> \in Seq(People) /\ ToSet(<<>>) = {} /\ IsInjective(<<>>)
      /\ MaxParties \in Nat
  BY EmptyList, PartyAssumption
<1>2. PartyTypeOK
  BY <1>1 DEF PartyInit, PartyTypeOK
<1>3. LookupTrue
  BY <1>1 DEF PartyInit, LookupTrue
<1>5. PartiesInTurn
  BY <1>1 DEF PartyInit, PartiesInTurn
<1> QED
  BY <1>2, <1>3, <1>5 DEF PartyInv

LEMMA CreateInv ==
  ASSUME PartyInv, NEW c \in People, Create(c)
  PROVE  PartyInv'
<1> DEFINE p == partyCount + 1
<1>1. /\ p \in PartyIds /\ partyCount' = p /\ partyCount \in Nat
      /\ partyMembers' = [partyMembers EXCEPT ![p] = <<c>>]
      /\ leader' = [leader EXCEPT ![p] = c]
      /\ partyQuickLook' = [partyQuickLook EXCEPT ![c] = p]
      /\ UNCHANGED <<isNPC, deleted>> /\ partyQuickLook[c] = 0
      /\ p \in 0 .. MaxParties
  BY PartyAssumption DEF Create, PartyInv, PartyTypeOK, PartyIds
<1>2. <<c>> \in Seq(People) /\ ToSet(<<c>>) = {c} /\ IsInjective(<<c>>)
  BY SingleList
<1>3. partyMembers[p] = <<>> /\ ToSet(<<>>) = {}
  BY <1>1, EmptyList DEF PartyInv, PartiesInTurn
<1> HIDE DEF p
<1>4. PartyTypeOK'
  BY <1>1, <1>2 DEF PartyInv, PartyTypeOK
<1>5. LookupTrue'
  <2>1. \A q \in PartyIds : IsInjective(partyMembers'[q])
    BY <1>1, <1>2 DEF PartyInv, PartyTypeOK, LookupTrue
  <2>2. ASSUME NEW d \in People, partyQuickLook'[d] # 0
        PROVE  d \in ToSet(partyMembers'[partyQuickLook'[d]])
    <3>1. CASE d = c
      BY <1>1, <1>2, <3>1 DEF PartyInv, PartyTypeOK
    <3>2. CASE d # c
      <4>1. /\ partyQuickLook'[d] = partyQuickLook[d]
            /\ d \in ToSet(partyMembers[partyQuickLook[d]])
        BY <1>1, <2>2, <3>2 DEF PartyInv, PartyTypeOK, LookupTrue
      <4>2. partyQuickLook[d] # p
        BY <1>3, <4>1
      <4> QED
        BY <1>1, <4>1, <4>2, PartyAssumption DEF PartyInv, PartyTypeOK, PartyIds
    <3> QED
      BY <3>1, <3>2
  <2> QED
    BY <2>1, <2>2 DEF LookupTrue
<1>6. PartiesInTurn'
  <2>1. ASSUME NEW q \in PartyIds, q > partyCount'
        PROVE  partyMembers'[q] = <<>>
    BY <1>1, <2>1, PartyAssumption DEF PartyInv, PartyTypeOK, PartiesInTurn, PartyIds, p
  <2> QED
    BY <2>1 DEF PartiesInTurn
<1> QED
  BY <1>4, <1>5, <1>6 DEF PartyInv

(* Joining a party that was made.                                           *)
LEMMA AddMemberInv ==
  ASSUME PartyInv, NEW p \in PartyIds, p <= partyCount, NEW c \in People,
         AddMember(p, c)
  PROVE  PartyInv'
<1>1. /\ c \notin ToSet(partyMembers[p])
      /\ partyMembers' = [partyMembers EXCEPT ![p] = Append(@, c)]
      /\ partyQuickLook' = [partyQuickLook EXCEPT ![c] = p]
      /\ UNCHANGED <<partyCount, leader, isNPC, deleted>>
      /\ p \in 0 .. MaxParties /\ p # 0 /\ partyCount \in Nat
      /\ partyMembers[p] \in Seq(People)
  BY PartyAssumption DEF AddMember, HasMember, PartyInv, PartyTypeOK, PartyIds
<1> DEFINE t == Append(partyMembers[p], c)
<1>2. /\ t \in Seq(People)
      /\ ToSet(t) = ToSet(partyMembers[p]) \cup {c}
      /\ IsInjective(partyMembers[p]) => IsInjective(t)
  BY <1>1, AppendedList
<1>3. partyMembers' = [partyMembers EXCEPT ![p] = t]
  BY <1>1
<1> HIDE DEF t
<1>4. PartyTypeOK'
  BY <1>1, <1>2, <1>3 DEF PartyInv, PartyTypeOK
<1>5. LookupTrue'
  <2>1. \A q \in PartyIds : IsInjective(partyMembers'[q])
    BY <1>2, <1>3 DEF PartyInv, PartyTypeOK, LookupTrue
  <2>2. ASSUME NEW d \in People, partyQuickLook'[d] # 0
        PROVE  d \in ToSet(partyMembers'[partyQuickLook'[d]])
    <3>1. CASE d = c
      BY <1>1, <1>2, <1>3, <3>1 DEF PartyInv, PartyTypeOK
    <3>2. CASE d # c
      <4>1. /\ partyQuickLook'[d] = partyQuickLook[d]
            /\ d \in ToSet(partyMembers[partyQuickLook[d]])
            /\ partyQuickLook[d] \in PartyIds
        BY <1>1, <2>2, <3>2, PartyAssumption
        DEF PartyInv, PartyTypeOK, LookupTrue, PartyIds
      <4> QED
        BY <1>2, <1>3, <4>1 DEF PartyInv, PartyTypeOK
    <3> QED
      BY <3>1, <3>2
  <2> QED
    BY <2>1, <2>2 DEF LookupTrue
<1>6. PartiesInTurn'
  BY <1>1, <1>3 DEF PartyInv, PartyTypeOK, PartiesInTurn
<1> QED
  BY <1>4, <1>5, <1>6 DEF PartyInv

LEMMA AcceptInviteInv ==
  ASSUME PartyInv, NEW c \in Players, NEW d \in People, AcceptInvite(c, d)
  PROVE  PartyInv'
<1> DEFINE p == partyQuickLook[d]
<1>1. c \in People
  BY DEF People
<1>2. p \in PartyIds /\ d \in ToSet(partyMembers[p]) /\ partyCount \in Nat
  BY <1>1, PartyAssumption
  DEF AcceptInvite, PartyInv, PartyTypeOK, LookupTrue, PartyIds
<1>3. AddMember(p, c)
  BY DEF AcceptInvite
<1> HIDE DEF p
<1>4. p <= partyCount
  <2>1. CASE p > partyCount
    <3>1. partyMembers[p] = <<>> /\ ToSet(<<>>) = {}
      BY <1>2, <2>1, EmptyList DEF PartyInv, PartiesInTurn
    <3> QED
      BY <1>2, <3>1
  <2> QED
    BY <1>2, <2>1 DEF PartyIds
<1> QED
  BY <1>1, <1>2, <1>3, <1>4, AddMemberInv

LEMMA ScriptAddInv ==
  ASSUME PartyInv, NEW p \in PartyIds, NEW c \in People, ScriptAdd(p, c)
  PROVE  PartyInv'
BY AddMemberInv DEF ScriptAdd

(* Leaving takes the lookup along, so what is taken off the list does not   *)
(* matter to anybody else.                                                  *)
LEMMA RemoveMemberInv ==
  ASSUME PartyInv, NEW p \in PartyIds, NEW c \in People, RemoveMember(p, c)
  PROVE  PartyInv'
<1> DEFINE t == RemoveFirst(partyMembers[p], c)
<1>1. /\ partyMembers' = [partyMembers EXCEPT ![p] = t]
      /\ partyQuickLook' = [partyQuickLook EXCEPT ![c] = 0]
      /\ UNCHANGED <<partyCount, leader, isNPC, deleted>>
      /\ partyMembers[p] \in Seq(People)
      /\ c \in ToSet(partyMembers[p])
  BY DEF RemoveMember, LookupWithout, HasMember, PartyInv, PartyTypeOK
<1>2. /\ t \in Seq(People)
      /\ ToSet(partyMembers[p]) \ {c} \subseteq ToSet(t)
      /\ ToSet(t) \subseteq ToSet(partyMembers[p])
      /\ IsInjective(partyMembers[p]) => IsInjective(t)
  BY <1>1, FirstRemoved
<1> HIDE DEF t
<1>3. PartyTypeOK'
  BY <1>1, <1>2, PartyAssumption DEF PartyInv, PartyTypeOK
<1>4. LookupTrue'
  <2>1. \A q \in PartyIds : IsInjective(partyMembers'[q])
    BY <1>1, <1>2 DEF PartyInv, PartyTypeOK, LookupTrue
  <2>2. ASSUME NEW d \in People, partyQuickLook'[d] # 0
        PROVE  d \in ToSet(partyMembers'[partyQuickLook'[d]])
    <3>1. d # c /\ partyQuickLook'[d] = partyQuickLook[d]
      BY <1>1, <2>2 DEF PartyInv, PartyTypeOK
    <3>2. /\ d \in ToSet(partyMembers[partyQuickLook[d]])
          /\ partyQuickLook[d] \in PartyIds
      BY <2>2, <3>1, PartyAssumption DEF PartyInv, PartyTypeOK, LookupTrue, PartyIds
    <3> QED
      BY <1>1, <1>2, <3>1, <3>2 DEF PartyInv, PartyTypeOK
  <2> QED
    BY <2>1, <2>2 DEF LookupTrue
<1>5. PartiesInTurn'
  <2>1. ASSUME NEW q \in PartyIds, q > partyCount'
        PROVE  partyMembers'[q] = <<>>
    <3>1. partyMembers[q] = <<>> /\ ToSet(<<>>) = {}
      BY <1>1, <2>1, EmptyList DEF PartyInv, PartiesInTurn
    <3> QED
      BY <1>1, <3>1 DEF PartyInv, PartyTypeOK
  <2> QED
    BY <2>1 DEF PartiesInTurn
<1> QED
  BY <1>3, <1>4, <1>5 DEF PartyInv

LEMMA KickInv ==
  ASSUME PartyInv, NEW c \in Players, NEW d \in Players, Kick(c, d)
  PROVE  PartyInv'
<1>1. /\ d \in People /\ partyQuickLook[c] \in PartyIds
      /\ RemoveMember(partyQuickLook[c], d)
  BY PartyAssumption DEF Kick, PartyInv, PartyTypeOK, PartyIds, People
<1> QED
  BY <1>1, RemoveMemberInv

(* Two change places, or nobody does: the list keeps its members.           *)
LEMMA SetLeaderInv ==
  ASSUME PartyInv, NEW p \in PartyIds, NEW c \in People, SetLeader(p, c)
  PROVE  PartyInv'
<1>1. /\ p <= partyCount
      /\ leader' = [leader EXCEPT ![p] = c]
      /\ UNCHANGED <<partyCount, isNPC, partyQuickLook, deleted>>
      /\ partyMembers[p] \in Seq(People)
      /\ IsInjective(partyMembers[p])
  BY DEF SetLeader, PartyInv, PartyTypeOK, LookupTrue
<1>2. PICK t \in Seq(People) :
        /\ partyMembers' = [partyMembers EXCEPT ![p] = t]
        /\ ToSet(t) = ToSet(partyMembers[p]) /\ IsInjective(t)
  <2> DEFINE s == partyMembers[p]
             old == leader[p]
             at(d) == CHOOSE k \in DOMAIN s : s[k] = d
  <2>1. CASE ~HasMember(p, old)
    <3>1. partyMembers' = [partyMembers EXCEPT ![p] = s]
      BY <2>1 DEF SetLeader, PartyInv, PartyTypeOK
    <3> QED
      BY <1>1, <3>1
  <2>2. CASE HasMember(p, old)
    <3>1. c \in ToSet(s) /\ old \in ToSet(s)
      BY <2>2 DEF SetLeader, HasMember
    <3>2. /\ at(c) \in DOMAIN s /\ s[at(c)] = c
          /\ at(old) \in DOMAIN s /\ s[at(old)] = old
      BY <3>1 DEF ToSet
    <3> DEFINE t == [s EXCEPT ![at(old)] = s[at(c)], ![at(c)] = s[at(old)]]
    <3>3. t \in Seq(People) /\ ToSet(t) = ToSet(s) /\ IsInjective(t)
      <4> HIDE DEF s, at
      <4> QED
        BY <1>1, <3>2, SwappedList DEF s
    <3>4. partyMembers' = [partyMembers EXCEPT ![p][at(old)] = c, ![p][at(c)] = old]
      BY <2>2 DEF SetLeader
    <3>5. partyMembers' = [partyMembers EXCEPT ![p] = t]
      BY <3>2, <3>4 DEF PartyInv, PartyTypeOK
    <3> HIDE DEF t
    <3> QED
      BY <3>3, <3>5
  <2> QED
    BY <2>1, <2>2
<1>3. PartyTypeOK'
  BY <1>1, <1>2 DEF PartyInv, PartyTypeOK
<1>4. LookupTrue'
  BY <1>1, <1>2, PartyAssumption
  DEF PartyInv, PartyTypeOK, LookupTrue, PartyIds
<1>5. PartiesInTurn'
  <2>1. ASSUME NEW q \in PartyIds, q > partyCount'
        PROVE  partyMembers'[q] = <<>>
    <3>1. q # p
      BY <1>1, <2>1 DEF PartyInv, PartyTypeOK, PartyIds
    <3> QED
      BY <1>1, <1>2, <2>1, <3>1 DEF PartyInv, PartyTypeOK, PartiesInTurn
  <2> QED
    BY <2>1 DEF PartiesInTurn
<1> QED
  BY <1>3, <1>4, <1>5 DEF PartyInv

LEMMA SetNpcInv ==
  ASSUME PartyInv, NEW p \in PartyIds, SetNpc(p)
  PROVE  PartyInv'
BY DEF SetNpc, PartyInv, PartyTypeOK, LookupTrue, PartiesInTurn

LEMMA PartyIdle ==
  ASSUME PartyInv,
         UNCHANGED <<partyCount, partyMembers, leader, isNPC, partyQuickLook>>,
         deleted' \in SUBSET People
  PROVE  PartyInv'
BY DEF PartyInv, PartyTypeOK, LookupTrue, PartiesInTurn

LEMMA PartyStepInv == PartyInv /\ [PartyNext]_partyVars => PartyInv'
<1> SUFFICES ASSUME PartyInv, [PartyNext]_partyVars PROVE PartyInv'
  OBVIOUS
<1>1. CASE \E c \in People : Create(c)
  BY <1>1, CreateInv
<1>2. CASE \E c \in People : DeleteChar(c)
  BY <1>2, PartyIdle DEF DeleteChar, Valid, PartyInv, PartyTypeOK
<1>3. CASE \E c \in Players, d \in People : AcceptInvite(c, d)
  BY <1>3, AcceptInviteInv
<1>4. CASE \E c, d \in Players : Kick(c, d)
  BY <1>4, KickInv
<1>5. CASE \E p \in PartyIds, c \in People : ScriptAdd(p, c)
  BY <1>5, ScriptAddInv
<1>6. CASE \E p \in PartyIds, c \in People : ScriptRemove(p, c)
  BY <1>6, RemoveMemberInv DEF ScriptRemove
<1>7. CASE \E p \in PartyIds, c \in People : SetLeader(p, c)
  BY <1>7, SetLeaderInv
<1>8. CASE \E p \in PartyIds : SetNpc(p)
  BY <1>8, SetNpcInv
<1>9. CASE UNCHANGED partyVars
  BY <1>9, PartyIdle DEF partyVars, PartyInv, PartyTypeOK
<1> QED
  BY <1>1, <1>2, <1>3, <1>4, <1>5, <1>6, <1>7, <1>8, <1>9 DEF PartyNext

(* The invariant holds in every reachable state.                            *)
THEOREM SpecPartyInv == PartySpec => []PartyInv
BY PartyInitInv, PartyStepInv, PTL DEF PartySpec

(* Parties keep their shape: lists of people, lookups of parties made.      *)
THEOREM SpecPartyTypeOK == PartySpec => []PartyTypeOK
<1>1. PartyInv => PartyTypeOK
  BY DEF PartyInv
<1> QED
  BY <1>1, SpecPartyInv, PTL

(* The lookup never sends a character to a party it is not in.              *)
THEOREM SpecLookupTrue == PartySpec => []LookupTrue
<1>1. PartyInv => LookupTrue
  BY DEF PartyInv
<1> QED
  BY <1>1, SpecPartyInv, PTL

-----------------------------------------------------------------------------
(* Guilds.  A list of members loses somebody only with that one's number,   *)
(* and a guild goes when its list is empty: nobody's number stops being     *)
(* true, whoever else's is not.                                             *)
NumbersKept == \A c \in Chars : NumberTrue(c) => NumberTrue(c)'

(* What a character's number promises, for lists ms and erased guilds es.   *)
Carried(ms, c, g) == ToSet(ms[g]) \cap {c, Garbled} # {}

LEMMA GuildInitType == GuildInit => GuildTypeOK
<1> SUFFICES ASSUME GuildInit PROVE GuildTypeOK
  OBVIOUS
<1>1. <<>> \in Seq(Serials)
  BY EmptyList
<1> QED
  BY <1>1, GuildAssumption DEF GuildInit, GuildTypeOK

(* Lists of the right kind.                                                 *)
LEMMA RecruitTypes ==
  ASSUME NEW ms \in [GuildIds -> Seq(Serials)],
         NEW rs \in [GuildIds -> Seq(Serials)],
         NEW g \in GuildIds, NEW c \in Chars, NewRecruit(ms, rs, g, c)
  PROVE  /\ members' \in [GuildIds -> Seq(Serials)]
         /\ recruits' \in [GuildIds -> Seq(Serials)]
         /\ \A h \in GuildIds, d \in Chars \ {c} :
              Carried(ms, d, h) => ToSet(members'[h]) \cap {d, Garbled} # {}
<1> DEFINE t == RemoveFirst(ms[g], c)
           r == Append(rs[g], c)
<1>1. /\ members' = [ms EXCEPT ![g] = t]
      /\ recruits' = [rs EXCEPT ![g] = r]
  BY DEF NewRecruit
<1>2. t \in Seq(Serials) /\ ToSet(ms[g]) \ {c} \subseteq ToSet(t)
  BY FirstRemoved
<1>3. r \in Seq(Serials)
  BY AppendedList DEF Serials
<1> HIDE DEF t, r
<1>4. ASSUME NEW h \in GuildIds, NEW d \in Chars \ {c}, Carried(ms, d, h)
      PROVE  ToSet(members'[h]) \cap {d, Garbled} # {}
  BY <1>1, <1>2, <1>4, GuildAssumption DEF Carried
<1> QED
  BY <1>1, <1>2, <1>3, <1>4

LEMMA RecruitToMemberTypes ==
  ASSUME GuildTypeOK, NEW g \in GuildIds, NEW c \in Chars, RecruitToMember(g, c)
  PROVE  /\ members' \in [GuildIds -> Seq(Serials)]
         /\ recruits' \in [GuildIds -> Seq(Serials)]
         /\ c \in ToSet(members'[g])
         /\ \A h \in GuildIds, d \in Chars :
              Carried(members, d, h) => ToSet(members'[h]) \cap {d, Garbled} # {}
<1> DEFINE r1 == RemoveFirst(recruits[g], c)
           r  == RemoveFirst(r1, c)
           t  == Append(members[g], c)
<1>1. /\ members' = [members EXCEPT ![g] = t]
      /\ recruits' = [recruits EXCEPT ![g] = r]
      /\ members[g] \in Seq(Serials) /\ recruits[g] \in Seq(Serials)
      /\ members \in [GuildIds -> Seq(Serials)]
      /\ recruits \in [GuildIds -> Seq(Serials)]
      /\ c \in Serials
  BY DEF RecruitToMember, GuildTypeOK, Serials
<1>2. t \in Seq(Serials) /\ ToSet(t) = ToSet(members[g]) \cup {c}
  BY <1>1, AppendedList
<1>3. r1 \in Seq(Serials)
  BY <1>1, FirstRemoved
<1> HIDE DEF r1
<1>4. r \in Seq(Serials)
  BY <1>3, FirstRemoved
<1> HIDE DEF t, r
<1> QED
  BY <1>1, <1>2, <1>4 DEF Carried

(* A guild that is there has a number of a list.                            *)
LEMMA ExistingId ==
  ASSUME GuildTypeOK, NEW g, Exists(g)
  PROVE  g \in GuildIds /\ g \in 0 .. MaxGuilds /\ g # 0 /\ g \in 1 .. gCount
BY GuildAssumption DEF GuildTypeOK, Exists, GuildIds

LEMMA NumberOf ==
  ASSUME GuildTypeOK, NEW c \in Chars, NumberTrue(c), guildNumber[c] # 0
  PROVE  /\ Exists(guildNumber[c]) /\ guildNumber[c] \in GuildIds
         /\ Carried(members, c, guildNumber[c])
BY ExistingId DEF NumberTrue, Carried

LEMMA NumbersHold ==
  ASSUME \A d \in Chars : NumberTrue(d) /\ guildNumber'[d] # 0 =>
           /\ guildNumber'[d] \in 1 .. gCount' /\ guildNumber'[d] \notin erased'
           /\ ToSet(members'[guildNumber'[d]]) \cap {d, Garbled} # {}
  PROVE  NumbersKept
BY DEF NumbersKept, NumberTrue, Exists

LEMMA FoundKeeps ==
  ASSUME GuildTypeOK, NEW c \in Chars, Found(c)
  PROVE  GuildTypeOK' /\ NumbersKept
<1> DEFINE g == gCount + 1
<1>1. /\ gCount' = g /\ g \in GuildIds /\ g \in 0 .. MaxGuilds /\ gCount \in Nat
      /\ members' = [members EXCEPT ![g] = <<c>>]
      /\ guildNumber' = [guildNumber EXCEPT ![c] = g]
      /\ tempInt' = [tempInt EXCEPT ![c] = g]
      /\ UNCHANGED <<erased, recruits>>
      /\ 1 .. gCount \subseteq 1 .. g /\ g \notin 1 .. gCount /\ g \in 1 .. g
  BY GuildAssumption DEF Found, GuildTypeOK, GuildIds
<1>2. <<c>> \in Seq(Serials) /\ ToSet(<<c>>) = {c}
  BY SingleList DEF Serials
<1>3. ASSUME NEW d \in Chars, NumberTrue(d), guildNumber[d] # 0
      PROVE  guildNumber[d] # g /\ guildNumber[d] \in 1 .. gCount
  BY <1>1, <1>3, NumberOf DEF Exists
<1> HIDE DEF g
<1>4. GuildTypeOK'
  BY <1>1, <1>2 DEF GuildTypeOK
<1>5. ASSUME NEW d \in Chars, NumberTrue(d), guildNumber'[d] # 0
      PROVE  /\ guildNumber'[d] \in 1 .. gCount' /\ guildNumber'[d] \notin erased'
             /\ ToSet(members'[guildNumber'[d]]) \cap {d, Garbled} # {}
  <2>1. CASE d = c
    <3>1. guildNumber'[d] = g /\ members'[g] = <<c>> /\ g \notin erased
      BY <1>1, <2>1 DEF GuildTypeOK
    <3> QED
      BY <1>1, <1>2, <2>1, <3>1
  <2>2. CASE d # c
    <3>1. guildNumber'[d] = guildNumber[d] /\ guildNumber[d] # 0
      BY <1>1, <1>5, <2>2 DEF GuildTypeOK
    <3>2. Exists(guildNumber[d]) /\ Carried(members, d, guildNumber[d])
      BY <1>5, <3>1, NumberOf
    <3>3. members'[guildNumber[d]] = members[guildNumber[d]]
      BY <1>1, <1>3, <1>5, <2>2, <3>1 DEF GuildTypeOK
    <3> QED
      BY <1>1, <3>1, <3>2, <3>3 DEF Exists, Carried
  <2> QED
    BY <2>1, <2>2
<1> QED
  BY <1>4, <1>5, NumbersHold

(* Steps after which everybody has the number they had or none, and the     *)
(* lists of those who have one still promise what they did.                 *)
LEMMA NumbersDrop ==
  ASSUME GuildTypeOK, GuildTypeOK', UNCHANGED gCount,
         \A d \in Chars : NumberTrue(d) /\ guildNumber'[d] # 0 =>
           /\ guildNumber'[d] = guildNumber[d]
           /\ guildNumber[d] \notin erased'
           /\ ToSet(members'[guildNumber[d]]) \cap {d, Garbled} # {}
  PROVE  GuildTypeOK' /\ NumbersKept
BY NumberOf, NumbersHold DEF Exists

LEMMA RecruitKeeps ==
  ASSUME GuildTypeOK, NEW c \in Chars, NEW d \in Chars, Recruit(c, d)
  PROVE  GuildTypeOK' /\ NumbersKept
<1> DEFINE g == guildNumber[c]
<1>1. /\ Exists(g) /\ guildNumber[d] = 0 /\ NewRecruit(members, recruits, g, d)
      /\ UNCHANGED <<gCount, erased, guildNumber, tempInt>>
  BY DEF Recruit
<1>2. g \in GuildIds
  BY <1>1, ExistingId
<1> HIDE DEF g
<1>3. /\ members' \in [GuildIds -> Seq(Serials)]
      /\ recruits' \in [GuildIds -> Seq(Serials)]
      /\ \A h \in GuildIds, e \in Chars \ {d} :
           Carried(members, e, h) => ToSet(members'[h]) \cap {e, Garbled} # {}
  BY <1>1, <1>2, RecruitTypes DEF GuildTypeOK
<1>4. GuildTypeOK'
  BY <1>1, <1>3 DEF GuildTypeOK
<1> QED
  BY <1>1, <1>3, <1>4, NumberOf, NumbersDrop DEF Exists

LEMMA DismissKeeps ==
  ASSUME GuildTypeOK, NEW c \in Chars, NEW n \in Nat, Dismiss(c, n)
  PROVE  GuildTypeOK' /\ NumbersKept
<1> DEFINE g == tempInt[c]
           d == members[g][n]
           t == RemoveFirst(members[g], d)
<1>1. /\ Exists(g) /\ d \in Chars
      /\ members' = [members EXCEPT ![g] = t]
      /\ guildNumber' = [guildNumber EXCEPT ![d] = 0]
      /\ UNCHANGED <<gCount, erased, recruits, tempInt>>
  BY DEF Dismiss, Presides
<1>2. g \in GuildIds /\ members[g] \in Seq(Serials)
  BY <1>1, ExistingId DEF GuildTypeOK
<1> HIDE DEF g, d
<1>3. t \in Seq(Serials) /\ ToSet(members[g]) \ {d} \subseteq ToSet(t)
  BY <1>2, FirstRemoved
<1> HIDE DEF t
<1>4. GuildTypeOK'
  BY <1>1, <1>2, <1>3, GuildAssumption DEF GuildTypeOK
<1>5. ASSUME NEW e \in Chars, NumberTrue(e), guildNumber'[e] # 0
      PROVE  /\ guildNumber'[e] = guildNumber[e] /\ guildNumber[e] \notin erased'
             /\ ToSet(members'[guildNumber[e]]) \cap {e, Garbled} # {}
  <2>1. e # d /\ guildNumber'[e] = guildNumber[e] /\ guildNumber[e] # 0
    BY <1>1, <1>5 DEF GuildTypeOK
  <2>2. /\ Exists(guildNumber[e]) /\ guildNumber[e] \in GuildIds
        /\ Carried(members, e, guildNumber[e])
    BY <1>5, <2>1, NumberOf
  <2> QED
    BY <1>1, <1>2, <1>3, <2>1, <2>2, GuildAssumption
    DEF Exists, Carried, GuildTypeOK
<1> QED
  BY <1>1, <1>4, <1>5, NumbersDrop

LEMMA RefuseRecruitKeeps ==
  ASSUME GuildTypeOK, NEW c \in Chars, NEW n \in Nat, RefuseRecruit(c, n)
  PROVE  GuildTypeOK' /\ NumbersKept
<1> DEFINE g == tempInt[c]
           r == RemoveFirst(recruits[g], recruits[g][n])
<1>1. /\ Exists(g) /\ recruits' = [recruits EXCEPT ![g] = r]
      /\ UNCHANGED <<gCount, erased, members, guildNumber, tempInt>>
  BY DEF RefuseRecruit, Presides
<1>2. g \in GuildIds /\ recruits[g] \in Seq(Serials)
  BY <1>1, ExistingId DEF GuildTypeOK
<1>3. r \in Seq(Serials)
  BY <1>2, FirstRemoved
<1> HIDE DEF g, r
<1>4. GuildTypeOK'
  BY <1>1, <1>2, <1>3 DEF GuildTypeOK
<1> QED
  BY <1>1, <1>4, NumberOf, NumbersDrop DEF Exists, Carried

LEMMA AcceptRecruitKeeps ==
  ASSUME GuildTypeOK, NEW c \in Chars, NEW n \in Nat, AcceptRecruit(c, n)
  PROVE  GuildTypeOK' /\ NumbersKept
<1> DEFINE g == tempInt[c]
           d == recruits[g][n]
<1>1. /\ Exists(g) /\ d \in Chars /\ RecruitToMember(g, d)
      /\ guildNumber' = [guildNumber EXCEPT ![d] = g]
      /\ UNCHANGED <<gCount, erased, tempInt>>
  BY DEF AcceptRecruit, Presides
<1>2. g \in GuildIds /\ g \in 0 .. MaxGuilds
  BY <1>1, ExistingId
<1> HIDE DEF g, d
<1>3. /\ members' \in [GuildIds -> Seq(Serials)]
      /\ recruits' \in [GuildIds -> Seq(Serials)]
      /\ d \in ToSet(members'[g])
      /\ \A h \in GuildIds, e \in Chars :
           Carried(members, e, h) => ToSet(members'[h]) \cap {e, Garbled} # {}
  BY <1>1, <1>2, RecruitToMemberTypes
<1>4. GuildTypeOK'
  BY <1>1, <1>2, <1>3 DEF GuildTypeOK
<1>5. ASSUME NEW e \in Chars, NumberTrue(e), guildNumber'[e] # 0
      PROVE  /\ guildNumber'[e] \in 1 .. gCount' /\ guildNumber'[e] \notin erased'
             /\ ToSet(members'[guildNumber'[e]]) \cap {e, Garbled} # {}
  <2>1. CASE e = d
    <3>1. guildNumber'[e] = g
      BY <1>1, <2>1 DEF GuildTypeOK
    <3>2. g \in 1 .. gCount' /\ g \notin erased'
      BY <1>1 DEF Exists
    <3>3. ToSet(members'[g]) \cap {e, Garbled} # {}
      BY <1>3, <2>1
    <3> QED
      BY <3>1, <3>2, <3>3
  <2>2. CASE e # d
    <3>1. guildNumber'[e] = guildNumber[e] /\ guildNumber[e] # 0
      BY <1>1, <1>5, <2>2 DEF GuildTypeOK
    <3>2. /\ Exists(guildNumber[e]) /\ guildNumber[e] \in GuildIds
          /\ Carried(members, e, guildNumber[e])
      BY <1>5, <3>1, NumberOf
    <3>3. ToSet(members'[guildNumber[e]]) \cap {e, Garbled} # {}
      BY <1>3, <3>2
    <3>4. guildNumber[e] \in 1 .. gCount' /\ guildNumber[e] \notin erased'
      BY <1>1, <3>2 DEF Exists
    <3> QED
      BY <3>1, <3>3, <3>4
  <2> QED
    BY <2>1, <2>2
<1> QED
  BY <1>4, <1>5, NumbersHold

(* Resigning.  What is left of a list still has everybody but who goes, and *)
(* a guild goes when nobody is left that could have its number.             *)
LEMMA MembersLeftType ==
  ASSUME GuildTypeOK, NEW c \in Chars, Exists(guildNumber[c])
  PROVE  /\ guildNumber[c] \in GuildIds
         /\ MembersLeft(c) \in [GuildIds -> Seq(Serials)]
         /\ RecruitsLeft(c) \in [GuildIds -> Seq(Serials)]
         /\ \A h \in GuildIds, d \in Chars \ {c} :
              Carried(members, d, h) => Carried(MembersLeft(c), d, h)
<1> DEFINE g == guildNumber[c]
           t == RemoveFirst(members[g], c)
<1>1. g \in GuildIds /\ members[g] \in Seq(Serials) /\ <<>> \in Seq(Serials)
  BY ExistingId, EmptyList DEF GuildTypeOK
<1>2. MembersLeft(c) = [members EXCEPT ![g] = t]
  BY DEF MembersLeft
<1>3. t \in Seq(Serials) /\ ToSet(members[g]) \ {c} \subseteq ToSet(t)
  BY <1>1, FirstRemoved
<1>4. RecruitsLeft(c) \in [GuildIds -> Seq(Serials)]
  BY <1>1 DEF RecruitsLeft, GuildTypeOK
<1> HIDE DEF g, t
<1>5. ASSUME NEW h \in GuildIds, NEW d \in Chars \ {c}, Carried(members, d, h)
      PROVE  Carried(MembersLeft(c), d, h)
  BY <1>1, <1>2, <1>3, <1>5, GuildAssumption DEF Carried, GuildTypeOK
<1>6. MembersLeft(c) \in [GuildIds -> Seq(Serials)]
  BY <1>1, <1>2, <1>3 DEF GuildTypeOK
<1> QED
  BY <1>1, <1>4, <1>5, <1>6 DEF g

LEMMA LeavesNumbers ==
  ASSUME GuildTypeOK, NEW c \in Chars, Leaves(c)
  PROVE  /\ guildNumber' \in [Chars -> 0 .. MaxGuilds]
         /\ erased' \in SUBSET (1 .. gCount)
         /\ \A d \in Chars : NumberTrue(d) /\ guildNumber'[d] # 0 =>
              /\ d # c /\ guildNumber'[d] = guildNumber[d]
              /\ guildNumber[d] \notin erased'
         /\ erased' \subseteq erased \cup
              (IF Disbands(c) THEN {guildNumber[c]} ELSE {})
<1> DEFINE g == guildNumber[c]
<1>1. /\ Exists(g)
      /\ guildNumber \in [Chars -> 0 .. MaxGuilds]
      /\ erased \in SUBSET (1 .. gCount) /\ 0 \in 0 .. MaxGuilds
      /\ g \in 1 .. gCount
  BY GuildAssumption DEF Leaves, Exists, GuildTypeOK
<1>2. CASE Disbands(c)
  <2>1. /\ erased' = erased \cup {g}
        /\ guildNumber' = [NumbersAfterErase(g) EXCEPT ![c] = 0]
    BY <1>2 DEF Leaves
  <2>2. /\ NumbersAfterErase(g) \in [Chars -> 0 .. MaxGuilds]
        /\ \A d \in Chars : \/ NumbersAfterErase(g)[d] = 0
                            \/ NumbersAfterErase(g)[d] = guildNumber[d]
    BY <1>1 DEF NumbersAfterErase
  <2>3. ASSUME NEW d \in Chars, NumberTrue(d), d # c, guildNumber[d] # 0
        PROVE  guildNumber[d] # g
    <3>1. Carried(members, d, guildNumber[d]) /\ guildNumber[d] \in GuildIds
      BY <2>3, NumberOf
    <3>2. Carried(MembersLeft(c), d, guildNumber[d])
      BY <1>1, <2>3, <3>1, MembersLeftType
    <3>3. MembersLeft(c)[g] = <<>> /\ ToSet(<<>>) = {}
      BY <1>2, EmptyList DEF Disbands
    <3> QED
      BY <3>2, <3>3 DEF Carried
  <2>4. \A d \in Chars :
          NumberTrue(d) /\ guildNumber[d] # 0 => guildNumber[d] \notin erased
    BY NumberOf DEF Exists
  <2> HIDE DEF g
  <2> QED
    BY <1>1, <1>2, <2>1, <2>2, <2>3, <2>4 DEF g
<1>3. CASE ~Disbands(c)
  <2>1. erased' = erased /\ guildNumber' = [guildNumber EXCEPT ![c] = 0]
    BY <1>3 DEF Leaves
  <2>2. \A d \in Chars :
          NumberTrue(d) /\ guildNumber[d] # 0 => guildNumber[d] \notin erased
    BY NumberOf DEF Exists
  <2> QED
    BY <1>1, <1>3, <2>1, <2>2
<1> QED
  BY <1>2, <1>3

LEMMA ResignKeeps ==
  ASSUME GuildTypeOK, NEW c \in Chars, Resign(c)
  PROVE  GuildTypeOK' /\ NumbersKept
<1>1. /\ Leaves(c) /\ Exists(guildNumber[c])
      /\ members' = MembersLeft(c) /\ recruits' = RecruitsLeft(c)
      /\ UNCHANGED <<gCount, tempInt>>
  BY DEF Resign, Leaves
<1>2. GuildTypeOK'
  BY <1>1, LeavesNumbers, MembersLeftType DEF GuildTypeOK
<1>3. ASSUME NEW d \in Chars, NumberTrue(d), guildNumber'[d] # 0
      PROVE  /\ guildNumber'[d] = guildNumber[d] /\ guildNumber[d] \notin erased'
             /\ ToSet(members'[guildNumber[d]]) \cap {d, Garbled} # {}
  <2>1. /\ d # c /\ guildNumber'[d] = guildNumber[d] /\ guildNumber[d] # 0
        /\ guildNumber[d] \notin erased'
    BY <1>1, <1>3, LeavesNumbers
  <2>2. Carried(members, d, guildNumber[d]) /\ guildNumber[d] \in GuildIds
    BY <1>3, <2>1, NumberOf
  <2>3. Carried(MembersLeft(c), d, guildNumber[d])
    BY <1>1, <2>1, <2>2, MembersLeftType
  <2> QED
    BY <1>1, <2>1, <2>3 DEF Carried
<1> QED
  BY <1>1, <1>2, <1>3, NumbersDrop

LEMMA ScriptGuildKeeps ==
  ASSUME GuildTypeOK, NEW c \in Chars, NEW g \in GuildIds, ScriptGuild(c, g)
  PROVE  GuildTypeOK' /\ NumbersKept
<1>1. CASE /\ ~Exists(guildNumber[c])
           /\ NewRecruit(members, recruits, g, c)
           /\ UNCHANGED <<erased, guildNumber>>
  <2>1. /\ UNCHANGED <<gCount, tempInt>>
        /\ NumberTrue(c) => guildNumber[c] = 0
    BY <1>1, NumberOf DEF ScriptGuild
  <2>2. /\ members' \in [GuildIds -> Seq(Serials)]
        /\ recruits' \in [GuildIds -> Seq(Serials)]
        /\ \A h \in GuildIds, e \in Chars \ {c} :
             Carried(members, e, h) => ToSet(members'[h]) \cap {e, Garbled} # {}
    BY <1>1, RecruitTypes DEF GuildTypeOK
  <2>3. GuildTypeOK'
    BY <1>1, <2>1, <2>2 DEF GuildTypeOK
  <2> QED
    BY <1>1, <2>1, <2>2, <2>3, NumberOf, NumbersDrop DEF Exists
<1>2. CASE /\ Leaves(c)
           /\ NewRecruit(MembersLeft(c), RecruitsLeft(c), g, c)
  <2>1. UNCHANGED <<gCount, tempInt>> /\ Exists(guildNumber[c])
    BY <1>2 DEF ScriptGuild, Leaves
  <2>2. /\ MembersLeft(c) \in [GuildIds -> Seq(Serials)]
        /\ RecruitsLeft(c) \in [GuildIds -> Seq(Serials)]
    BY <2>1, MembersLeftType
  <2>3. /\ members' \in [GuildIds -> Seq(Serials)]
        /\ recruits' \in [GuildIds -> Seq(Serials)]
        /\ \A h \in GuildIds, e \in Chars \ {c} :
             Carried(MembersLeft(c), e, h)
               => ToSet(members'[h]) \cap {e, Garbled} # {}
    BY <1>2, <2>2, RecruitTypes
  <2>4. GuildTypeOK'
    BY <1>2, <2>1, <2>3, LeavesNumbers DEF GuildTypeOK
  <2>5. ASSUME NEW d \in Chars, NumberTrue(d), guildNumber'[d] # 0
        PROVE  /\ guildNumber'[d] = guildNumber[d]
               /\ guildNumber[d] \notin erased'
               /\ ToSet(members'[guildNumber[d]]) \cap {d, Garbled} # {}
    <3>1. /\ d # c /\ guildNumber'[d] = guildNumber[d] /\ guildNumber[d] # 0
          /\ guildNumber[d] \notin erased'
      BY <1>2, <2>5, LeavesNumbers
    <3>2. Carried(members, d, guildNumber[d]) /\ guildNumber[d] \in GuildIds
      BY <2>5, <3>1, NumberOf
    <3>3. Carried(MembersLeft(c), d, guildNumber[d])
      BY <2>1, <3>1, <3>2, MembersLeftType
    <3> QED
      BY <2>3, <3>1, <3>2, <3>3
  <2> QED
    BY <2>1, <2>4, <2>5, NumbersDrop
<1> QED
  BY <1>1, <1>2 DEF ScriptGuild

LEMMA ScriptAcceptKeeps ==
  ASSUME GuildTypeOK, NEW g \in GuildIds, NEW c \in Chars, ScriptAccept(g, c)
  PROVE  GuildTypeOK' /\ NumbersKept
<1>1. RecruitToMember(g, c) /\ UNCHANGED <<gCount, erased, guildNumber, tempInt>>
  BY DEF ScriptAccept
<1>2. /\ members' \in [GuildIds -> Seq(Serials)]
      /\ recruits' \in [GuildIds -> Seq(Serials)]
      /\ \A h \in GuildIds, e \in Chars :
           Carried(members, e, h) => ToSet(members'[h]) \cap {e, Garbled} # {}
  BY <1>1, RecruitToMemberTypes
<1>3. GuildTypeOK'
  BY <1>1, <1>2 DEF GuildTypeOK
<1> QED
  BY <1>1, <1>2, <1>3, NumberOf, NumbersDrop DEF Exists

(* What is read back is the list, or the one entry it was garbled to.       *)
LEMMA SaveAndRestartKeeps ==
  ASSUME GuildTypeOK, SaveAndRestart
  PROVE  GuildTypeOK' /\ NumbersKept
<1>1. /\ members' = [g \in GuildIds |-> Written(members[g])]
      /\ recruits' = [g \in GuildIds |-> Written(recruits[g])]
      /\ tempInt' = [c \in Chars |-> 0]
      /\ UNCHANGED <<gCount, erased, guildNumber>>
  BY DEF SaveAndRestart
<1>2. ASSUME NEW s \in Seq(Serials)
      PROVE  /\ Written(s) \in Seq(Serials)
             /\ \A c : ToSet(s) \cap {c, Garbled} # {}
                         => ToSet(Written(s)) \cap {c, Garbled} # {}
  <2>1. <<Garbled>> \in Seq(Serials) /\ ToSet(<<Garbled>>) = {Garbled}
    BY SingleList DEF Serials
  <2> QED
    BY <2>1 DEF Written
<1>3. GuildTypeOK'
  BY <1>1, <1>2, GuildAssumption DEF GuildTypeOK
<1>4. ASSUME NEW d \in Chars, NumberTrue(d), guildNumber'[d] # 0
      PROVE  /\ guildNumber'[d] = guildNumber[d] /\ guildNumber[d] \notin erased'
             /\ ToSet(members'[guildNumber[d]]) \cap {d, Garbled} # {}
  <2>1. /\ Exists(guildNumber[d]) /\ guildNumber[d] \in GuildIds
        /\ Carried(members, d, guildNumber[d])
    BY <1>1, <1>4, NumberOf
  <2>2. members[guildNumber[d]] \in Seq(Serials)
    BY <2>1 DEF GuildTypeOK
  <2> QED
    BY <1>1, <1>2, <2>1, <2>2 DEF Exists, Carried
<1> QED
  BY <1>1, <1>3, <1>4, NumbersDrop

LEMMA GuildIdle ==
  ASSUME GuildTypeOK, UNCHANGED <<lists, guildNumber>>,
         tempInt' \in [Chars -> 0 .. MaxGuilds]
  PROVE  GuildTypeOK' /\ NumbersKept
BY DEF GuildTypeOK, NumbersKept, NumberTrue, Exists, lists

LEMMA OpenMenuKeeps ==
  ASSUME GuildTypeOK, NEW c \in Chars, NEW g \in GuildIds, OpenMenu(c, g)
  PROVE  GuildTypeOK' /\ NumbersKept
<1>1. /\ UNCHANGED <<lists, guildNumber>>
      /\ tempInt' = [tempInt EXCEPT ![c] = g] /\ g \in 0 .. MaxGuilds
  BY GuildAssumption DEF OpenMenu, GuildIds
<1>2. tempInt' \in [Chars -> 0 .. MaxGuilds]
  BY <1>1 DEF GuildTypeOK
<1> QED
  BY <1>1, <1>2, GuildIdle

(* The step of a split: the copy's number is the only one that may not be   *)
(* true.                                                                    *)
LEMMA SplitKeeps ==
  ASSUME GuildTypeOK, NEW c \in Creatures, NEW d \in Creatures, Split(c, d)
  PROVE  /\ GuildTypeOK'
         /\ \A e \in Chars : NumberTrue(e) => NumberTrue(e)' \/ e = d
<1>1. /\ UNCHANGED <<lists, tempInt>>
      /\ guildNumber' = [guildNumber EXCEPT ![d] = guildNumber[c]]
      /\ c \in Chars /\ d \in Chars
  BY GuildAssumption DEF Split
<1>2. GuildTypeOK'
  BY <1>1 DEF GuildTypeOK, lists
<1>3. ASSUME NEW e \in Chars, NumberTrue(e), e # d
      PROVE  NumberTrue(e)'
  <2>1. guildNumber'[e] = guildNumber[e]
    BY <1>1, <1>3 DEF GuildTypeOK
  <2> QED
    BY <1>1, <1>3, <2>1 DEF NumberTrue, Exists, lists
<1> QED
  BY <1>2, <1>3

(* What a step may do to numbers, as the property says it.                  *)
NumberStep == \A c \in Chars :
  NumberTrue(c) => NumberTrue(c)' \/ \E d \in Chars : Split(d, c)

LEMMA GuildStepKeeps ==
  GuildTypeOK /\ [GuildNext]_guildVars => GuildTypeOK' /\ NumberStep
<1> SUFFICES ASSUME GuildTypeOK, [GuildNext]_guildVars
             PROVE  GuildTypeOK' /\ NumberStep
  OBVIOUS
<1>0. 1 .. MaxListed \subseteq Nat /\ Clients \subseteq Chars
  BY GuildAssumption DEF Clients
<1> DEFINE Steady == GuildTypeOK' /\ NumbersKept
<1>1. ASSUME NEW c \in Clients, Found(c) PROVE Steady
  BY <1>0, <1>1, FoundKeeps
<1>2. ASSUME NEW c \in Clients, Resign(c) PROVE Steady
  BY <1>0, <1>2, ResignKeeps
<1>3. ASSUME NEW c \in Clients, NEW g \in GuildIds, OpenMenu(c, g) PROVE Steady
  BY <1>0, <1>3, OpenMenuKeeps
<1>4. ASSUME NEW c \in Clients, NEW g \in GuildIds, ScriptGuild(c, g) PROVE Steady
  BY <1>0, <1>4, ScriptGuildKeeps
<1>5. ASSUME NEW c \in Chars, NEW g \in GuildIds, ScriptAccept(g, c) PROVE Steady
  BY <1>5, ScriptAcceptKeeps
<1>6. ASSUME NEW c \in Clients, NEW d \in Chars, Recruit(c, d) PROVE Steady
  BY <1>0, <1>6, RecruitKeeps
<1>7. ASSUME NEW c \in Clients, NEW n \in 1 .. MaxListed, Dismiss(c, n) PROVE Steady
  BY <1>0, <1>7, DismissKeeps
<1>8. ASSUME NEW c \in Clients, NEW n \in 1 .. MaxListed, RefuseRecruit(c, n)
      PROVE  Steady
  BY <1>0, <1>8, RefuseRecruitKeeps
<1>9. ASSUME NEW c \in Clients, NEW n \in 1 .. MaxListed, AcceptRecruit(c, n)
      PROVE  Steady
  BY <1>0, <1>9, AcceptRecruitKeeps
<1>10. CASE SaveAndRestart
  BY <1>10, SaveAndRestartKeeps DEF NumbersKept, NumberStep
<1>11. CASE UNCHANGED guildVars
  BY <1>11, GuildIdle DEF guildVars, lists, GuildTypeOK, NumbersKept, NumberStep
<1>12. ASSUME NEW c \in Creatures, NEW d \in Creatures, Split(c, d)
       PROVE  GuildTypeOK' /\ NumberStep
  <2>1. /\ GuildTypeOK' /\ c \in Chars
        /\ \A e \in Chars : NumberTrue(e) => NumberTrue(e)' \/ e = d
    BY <1>12, SplitKeeps, GuildAssumption
  <2> QED
    BY <1>12, <2>1 DEF NumberStep
<1>13. Steady => GuildTypeOK' /\ NumberStep
  BY DEF NumbersKept, NumberStep
<1> HIDE DEF Steady
<1> QED
  BY <1>1, <1>2, <1>3, <1>4, <1>5, <1>6, <1>7, <1>8, <1>9, <1>10, <1>11,
     <1>12, <1>13
  DEF GuildNext

(* Guilds keep their shape, and nobody has the number of none that ever was. *)
THEOREM SpecGuildTypeOK == GuildSpec => []GuildTypeOK
BY GuildInitType, GuildStepKeeps, PTL DEF GuildSpec

(* A number that is true stays true, and only a copy begins with one that    *)
(* is not.                                                                   *)
THEOREM SpecNumberIsMembership == GuildSpec => NumberIsMembership
<1>1. GuildTypeOK /\ [GuildNext]_guildVars => [NumberStep]_guildVars
  BY GuildStepKeeps
<1>2. GuildSpec => [][NumberStep]_guildVars
  BY <1>1, SpecGuildTypeOK, PTL DEF GuildSpec
<1> QED
  BY <1>2 DEF NumberStep, NumberIsMembership

-----------------------------------------------------------------------------
(* Spawned things.  What is not there has no owner and is in nothing, what *)
(* is carried is carried by something that is there, and no bag by a bag.  *)
DeadAreFree ==
  /\ \A c \in Beasts \ live : owner[c] = NoTie
  /\ \A g \in Goods \ live : cont[g] = Ground
  /\ \A k \in Owners \ live : petsControlled[k] = {}
CarriedByLive == \A g \in Goods \cap live :
  cont[g] \in live \cup {Ground} /\ (g \in Bags => cont[g] \notin Bags)
MadeByLive == \A o \in Spawn \cap live :
  spawnserial[o] \in Spawners => spawnserial[o] \in live

SpawnInv ==
  /\ SpawnTypeOK /\ PetsAgree /\ SpawnersAgree /\ RegionsAgree
  /\ DeadAreFree /\ CarriedByLive /\ MadeByLive

LEMMA Kinds ==
  /\ NoTie \notin Beings /\ Ground \notin Beings
  /\ \A r \in Regions : r \notin Beings /\ r # NoTie
  /\ \A s \in Spawners : s \notin Spawn /\ s \in Beings
  /\ \A g \in Goods : g \notin Owners /\ g \in Spawn /\ g \in Beings /\ g \notin Spawners
  /\ \A c \in Beasts : c \in Spawn /\ c \in Owners /\ c \in Beings /\ c \notin Masters
  /\ \A k \in Owners : k \in Beings /\ k \notin Goods /\ k \notin Bags
BY SpawnAssumption DEF Beings, Spawn, Owners

LEMMA SpawnInitInv == SpawnInit => SpawnInv
<1> SUFFICES ASSUME SpawnInit PROVE SpawnInv
  OBVIOUS
<1>1. SpawnTypeOK
  BY Kinds DEF SpawnInit, SpawnTypeOK, Beings, Owners, Holders
<1>2. PetsAgree /\ SpawnersAgree /\ RegionsAgree
  BY Kinds DEF SpawnInit, PetsAgree, SpawnersAgree, RegionsAgree, Beings, Owners, Spawn
<1>3. DeadAreFree /\ CarriedByLive /\ MadeByLive
  BY Kinds DEF SpawnInit, DeadAreFree, CarriedByLive, MadeByLive, Owners, Spawn
<1> QED
  BY <1>1, <1>2, <1>3 DEF SpawnInv

-----------------------------------------------------------------------------
(* Something is made that is saved; what else the action does is given.    *)
LEMMA MadeInv ==
  ASSUME SpawnInv, NEW o \in Spawn, NEW s \in Spawners \cup Regions \cup {NoTie},
         Made(o, s)
  PROVE  /\ live' \subseteq Beings /\ shouldSave' \subseteq live'
         /\ spawned' \in [Regions -> SUBSET Spawn]
         /\ spawnserial' \in [Spawn -> Spawners \cup Regions \cup {NoTie}]
         /\ spawnedList' \in [Spawners -> SUBSET Spawn]
         /\ stabled' \subseteq live' \cap Beasts /\ stabled' = stabled
         /\ o \notin live /\ live' = live \cup {o}
         /\ \A c \in Beasts : owner[c] # o
         /\ (s \in Spawners => s \in live) => SpawnersAgree' /\ MadeByLive'
         /\ RegionsAgree'
<1>1. /\ o \in Spawn \ live /\ \A c \in Beasts : owner[c] # o
      /\ live' = live \cup {o} /\ shouldSave' = shouldSave \cup {o}
      /\ spawnserial' = [spawnserial EXCEPT ![o] = s]
      /\ spawnedList' = IF s \in live
                        THEN [spawnedList EXCEPT ![s] = @ \cup {o}] ELSE spawnedList
      /\ UNCHANGED <<spawned, stabled>>
  BY DEF Made, Unused
<1>2. /\ live \subseteq Beings /\ shouldSave \subseteq live
      /\ spawned \in [Regions -> SUBSET Spawn]
      /\ spawnserial \in [Spawn -> Spawners \cup Regions \cup {NoTie}]
      /\ spawnedList \in [Spawners -> SUBSET Spawn]
      /\ stabled \subseteq live \cap Beasts
  BY DEF SpawnInv, SpawnTypeOK
<1>3. s \in live => s \in Spawners
  BY <1>2, Kinds
<1>4. o \in Beings
  BY DEF Spawn, Beings
<1>5. SpawnersAgree /\ RegionsAgree
  BY DEF SpawnInv
<1>6. ASSUME s \in Spawners => s \in live PROVE SpawnersAgree'
  <2> SUFFICES ASSUME NEW t \in Spawners
               PROVE  spawnedList'[t] = {p \in Spawn \cap live' : spawnserial'[p] = t}
    BY DEF SpawnersAgree
  <2>1. spawnedList[t] = {p \in Spawn \cap live : spawnserial[p] = t}
    BY <1>5 DEF SpawnersAgree
  <2>2. CASE s = t
    <3>1. spawnedList'[t] = spawnedList[t] \cup {o}
      BY <1>1, <1>2, <1>6, <2>2
    <3>2. spawnserial'[o] = t
      BY <1>1, <1>2, <2>2
    <3> QED
      BY <1>1, <1>2, <2>1, <3>1, <3>2
  <2>3. CASE s # t
    <3>1. spawnedList'[t] = spawnedList[t]
      BY <1>1, <1>2, <1>3, <2>3
    <3>2. spawnserial'[o] # t
      BY <1>1, <1>2, <2>3
    <3> QED
      BY <1>1, <1>2, <2>1, <3>1, <3>2
  <2> QED
    BY <2>2, <2>3
<1>7. RegionsAgree'
  BY <1>1, <1>2, <1>5 DEF RegionsAgree
<1>10. ASSUME s \in Spawners => s \in live PROVE MadeByLive'
  BY <1>1, <1>2, <1>10 DEF MadeByLive, SpawnInv
<1>8. spawnedList' \in [Spawners -> SUBSET Spawn]
  BY <1>1, <1>2, <1>3
<1>9. spawnserial' \in [Spawn -> Spawners \cup Regions \cup {NoTie}]
  BY <1>1, <1>2
<1> QED
  BY <1>1, <1>2, <1>4, <1>6, <1>7, <1>8, <1>9, <1>10

(* Whoever gets an owner is in that owner's list, and in no other.         *)
LEMMA PetsAfterInv ==
  ASSUME SpawnInv, NEW c \in Beasts, NEW k \in Owners \cup {NoTie},
         NEW present, c \in present, live \subseteq present,
         k \in present => k \in live,
         \A d \in Beasts : owner[d] \in present => owner[d] \in live
  PROVE  LET o == [owner EXCEPT ![c] = k]
             p == PetsAfter(c, k)
         IN /\ p \in [Owners -> SUBSET Beasts]
            /\ \A h \in Owners : \A d \in p[h] : d \in present /\ o[d] = h
            /\ \A d \in Beasts : o[d] \in present => d \in stabled \/ d \in p[o[d]]
            /\ \A h \in Owners \ present : p[h] = {}
<1> DEFINE o == [owner EXCEPT ![c] = k]
           p == PetsAfter(c, k)
<1> DEFINE left == IF owner[c] \in live
                   THEN [petsControlled EXCEPT ![owner[c]] = @ \ {c}]
                   ELSE petsControlled
<1>1. /\ owner \in [Beasts -> Owners \cup {NoTie}]
      /\ petsControlled \in [Owners -> SUBSET Beasts] /\ live \subseteq Beings
  BY DEF SpawnInv, SpawnTypeOK
<1>2. p = IF k \in live THEN [left EXCEPT ![k] = @ \cup {c}] ELSE left
  BY DEF PetsAfter
<1>3. NoTie \notin live
  BY <1>1, Kinds
<1>4. /\ \A h \in Owners : \A d \in petsControlled[h] : d \in live /\ owner[d] = h
      /\ \A d \in Beasts : owner[d] \in live => d \in stabled \/ d \in petsControlled[owner[d]]
      /\ \A h \in Owners \ live : petsControlled[h] = {}
  BY DEF SpawnInv, PetsAgree, DeadAreFree
<1>5. /\ left \in [Owners -> SUBSET Beasts]
      /\ \A h \in Owners : c \notin left[h]
      /\ \A h \in Owners : left[h] = petsControlled[h] \ {c}
  <2>1. CASE owner[c] \in live
    BY <1>1, <1>3, <1>4, <2>1
  <2>2. CASE owner[c] \notin live
    <3>1. \A h \in Owners : c \notin petsControlled[h]
      <4> SUFFICES ASSUME NEW h \in Owners, c \in petsControlled[h] PROVE FALSE
        OBVIOUS
      <4>1. owner[c] = h /\ petsControlled[h] = {}
        BY <1>4, <2>2
      <4> QED
        BY <4>1
    <3> QED
      BY <1>1, <2>2, <3>1
  <2> QED
    BY <2>1, <2>2
<1> HIDE DEF left
<1>6. o \in [Beasts -> Owners \cup {NoTie}] /\ o = [owner EXCEPT ![c] = k]
  BY <1>1
<1> HIDE DEF o, p
<1> SUFFICES /\ p \in [Owners -> SUBSET Beasts]
             /\ \A h \in Owners : \A d \in p[h] : d \in present /\ o[d] = h
             /\ \A d \in Beasts : o[d] \in present => d \in stabled \/ d \in p[o[d]]
             /\ \A h \in Owners \ present : p[h] = {}
  BY DEF o, p
<1> QED
  BY <1>1, <1>2, <1>3, <1>4, <1>5, <1>6

-----------------------------------------------------------------------------
(* What the actions leave alone.                                           *)
LEMMA ListsIdle ==
  ASSUME SpawnInv, UNCHANGED <<live, shouldSave, spawned, spawnserial, spawnedList>>
  PROVE  SpawnersAgree' /\ RegionsAgree' /\ MadeByLive'
BY DEF SpawnInv, SpawnersAgree, RegionsAgree, MadeByLive

LEMMA ContIdle ==
  ASSUME SpawnInv, UNCHANGED cont,
         \A g \in Goods : g \in live' => g \in live \/ cont[g] = Ground,
         \A h \in live : h \in live'
  PROVE  CarriedByLive' /\ \A g \in Goods \ live' : cont'[g] = Ground
<1>1. CarriedByLive /\ DeadAreFree
  BY DEF SpawnInv
<1>2. \A b \in Bags : b # Ground
  BY SpawnAssumption
<1> QED
  BY <1>1, <1>2 DEF CarriedByLive, DeadAreFree

LEMMA PetsIdle ==
  ASSUME SpawnInv, UNCHANGED <<owner, petsControlled, stabled>>,
         \A h \in live : h \in live',
         \A c \in Beasts : owner[c] \in live' => owner[c] \in live
  PROVE  /\ PetsAgree' /\ \A c \in Beasts \ live' : owner'[c] = NoTie
         /\ \A k \in Owners \ live' : petsControlled'[k] = {}
<1>1. PetsAgree /\ DeadAreFree
  BY DEF SpawnInv
<1> QED
  BY <1>1 DEF PetsAgree, DeadAreFree

LEMMA DoRegionSpawnInv ==
  ASSUME SpawnInv, NEW r \in Regions, NEW N \in SUBSET Spawn, DoRegionSpawn(r, N)
  PROVE  SpawnInv'
<1>1. /\ N \subseteq Spawn \ live /\ \A c \in Beasts : owner[c] \notin N
      /\ live' = live \cup N
      /\ spawned' = [spawned EXCEPT ![r] = @ \cup N]
      /\ spawnserial' = [o \in Spawn |-> IF o \in N THEN r ELSE spawnserial[o]]
      /\ UNCHANGED <<shouldSave, spawnedList, owner, petsControlled, stabled, cont>>
  BY DEF DoRegionSpawn, Unused
<1>2. SpawnTypeOK /\ SpawnersAgree /\ RegionsAgree /\ DeadAreFree
  BY DEF SpawnInv
<1>3. Spawn \subseteq Beings
  BY DEF Spawn, Beings
<1>4. SpawnTypeOK'
  BY <1>1, <1>2, <1>3 DEF SpawnTypeOK
<1>5. /\ PetsAgree' /\ \A c \in Beasts \ live' : owner'[c] = NoTie
      /\ \A k \in Owners \ live' : petsControlled'[k] = {}
  BY <1>1, PetsIdle
<1>6. CarriedByLive' /\ \A g \in Goods \ live' : cont'[g] = Ground
  BY <1>1, <1>2, ContIdle DEF DeadAreFree
<1>7. SpawnersAgree'
  <2> SUFFICES ASSUME NEW s \in Spawners
               PROVE  spawnedList'[s] = {o \in Spawn \cap live' : spawnserial'[o] = s}
    BY DEF SpawnersAgree
  <2>1. spawnedList[s] = {o \in Spawn \cap live : spawnserial[o] = s} /\ s # r
    BY <1>2, Kinds DEF SpawnersAgree
  <2> QED
    BY <1>1, <2>1
<1>8. RegionsAgree'
  <2>1. \A q \in Regions : spawned'[q] = IF q = r THEN spawned[q] \cup N ELSE spawned[q]
    BY <1>1, <1>2 DEF SpawnTypeOK
  <2>2. \A o \in N : o \notin shouldSave /\ spawnserial'[o] = r
    BY <1>1, <1>2 DEF SpawnTypeOK
  <2> QED
    BY <1>1, <1>2, <2>1, <2>2 DEF RegionsAgree, SpawnTypeOK
<1>9. MadeByLive'
  BY <1>1, Kinds DEF MadeByLive, SpawnInv
<1> QED
  BY <1>4, <1>5, <1>6, <1>7, <1>8, <1>9 DEF SpawnInv, DeadAreFree

(* Making something that has no owner.                                     *)
LEMMA UnownedInv ==
  ASSUME SpawnInv, NEW o \in Spawn, NEW s \in Spawners \cup Regions \cup {NoTie},
         Made(o, s), s \in Spawners => s \in live,
         UNCHANGED <<owner, petsControlled>>,
         cont' \in [Goods -> Holders \cup {Ground}],
         \A g \in Goods \ {o} : cont'[g] = cont[g],
         o \in Goods => /\ cont'[o] \in live \cup {Ground}
                        /\ o \in Bags => cont'[o] \notin Bags
  PROVE  SpawnInv'
<1>1. /\ live' \subseteq Beings /\ shouldSave' \subseteq live'
      /\ spawned' \in [Regions -> SUBSET Spawn]
      /\ spawnserial' \in [Spawn -> Spawners \cup Regions \cup {NoTie}]
      /\ spawnedList' \in [Spawners -> SUBSET Spawn]
      /\ stabled' \subseteq live' \cap Beasts /\ stabled' = stabled
      /\ o \notin live /\ live' = live \cup {o}
      /\ \A c \in Beasts : owner[c] # o
      /\ SpawnersAgree' /\ RegionsAgree' /\ MadeByLive'
  BY MadeInv
<1>2. SpawnTypeOK /\ DeadAreFree /\ CarriedByLive
  BY DEF SpawnInv
<1>3. SpawnTypeOK'
  BY <1>1, <1>2 DEF SpawnTypeOK
<1>4. /\ PetsAgree' /\ \A c \in Beasts \ live' : owner'[c] = NoTie
      /\ \A k \in Owners \ live' : petsControlled'[k] = {}
  BY <1>1, PetsIdle
<1>5. CarriedByLive' /\ \A g \in Goods \ live' : cont'[g] = Ground
  BY <1>1, <1>2 DEF CarriedByLive, DeadAreFree
<1> QED
  BY <1>1, <1>3, <1>4, <1>5 DEF SpawnInv, DeadAreFree

LEMMA CreateNPCInv ==
  ASSUME SpawnInv, NEW s \in Spawners, NEW c \in Beasts, CreateNPC(s, c)
  PROVE  SpawnInv'
<1>1. s \in live /\ Made(c, s) /\ UNCHANGED <<owner, petsControlled, cont>>
  BY DEF CreateNPC
<1>2. c \in Spawn /\ c \notin Goods
  BY Kinds
<1>3. cont \in [Goods -> Holders \cup {Ground}]
  BY DEF SpawnInv, SpawnTypeOK
<1> QED
  BY <1>1, <1>2, <1>3, UnownedInv

LEMMA AddRespawnItemInv ==
  ASSUME SpawnInv, NEW s \in Spawners, NEW g \in Goods, NEW inCont \in BOOLEAN,
         AddRespawnItem(s, g, inCont)
  PROVE  SpawnInv'
<1>1. /\ s \in live /\ Made(g, s) /\ UNCHANGED <<owner, petsControlled>>
      /\ cont' = [cont EXCEPT ![g] = IF inCont THEN s ELSE Ground]
  BY DEF AddRespawnItem
<1>2. cont \in [Goods -> Holders \cup {Ground}]
  BY DEF SpawnInv, SpawnTypeOK
<1>3. g \in Spawn /\ s \in Holders /\ s \notin Bags /\ Ground \notin Bags
  BY Kinds, SpawnAssumption DEF Holders
<1>4. /\ cont' \in [Goods -> Holders \cup {Ground}]
      /\ \A h \in Goods \ {g} : cont'[h] = cont[h]
      /\ cont'[g] \in live \cup {Ground} /\ cont'[g] \notin Bags
  BY <1>1, <1>2, <1>3
<1> QED
  BY <1>1, <1>3, <1>4, UnownedInv

LEMMA CreateObjectInv ==
  ASSUME SpawnInv, NEW o \in Spawn, CreateObject(o)
  PROVE  SpawnInv'
<1>1. Made(o, NoTie) /\ UNCHANGED <<owner, petsControlled, cont>>
  BY DEF CreateObject
<1>2. cont \in [Goods -> Holders \cup {Ground}] /\ DeadAreFree
  BY DEF SpawnInv, SpawnTypeOK
<1>3. o \in Goods => cont[o] = Ground
  BY <1>1, <1>2 DEF DeadAreFree, Made, Unused
<1>4. NoTie \notin Spawners /\ Ground \notin Bags
  BY Kinds, SpawnAssumption
<1> QED
  BY <1>1, <1>2, <1>3, <1>4, UnownedInv

LEMMA DupeItemInv ==
  ASSUME SpawnInv, NEW g \in Goods, NEW h \in Goods, DupeItem(g, h)
  PROVE  SpawnInv'
<1>1. /\ g \in live /\ (g \in Bags <=> h \in Bags)
      /\ Made(h, spawnserial[g]) /\ UNCHANGED <<owner, petsControlled>>
      /\ cont' = [cont EXCEPT ![h] = cont[g]]
  BY DEF DupeItem
<1>2. SpawnTypeOK /\ CarriedByLive /\ SpawnersAgree
  BY DEF SpawnInv
<1>3. h \in Spawn /\ g \in Spawn
  BY Kinds
<1>4. spawnserial[g] \in Spawners \cup Regions \cup {NoTie}
  BY <1>2, <1>3 DEF SpawnTypeOK
<1>5. spawnserial[g] \in Spawners => spawnserial[g] \in live
  BY <1>1, <1>3 DEF SpawnInv, MadeByLive
<1>6. /\ cont' \in [Goods -> Holders \cup {Ground}]
      /\ \A i \in Goods \ {h} : cont'[i] = cont[i]
      /\ cont'[h] \in live \cup {Ground} /\ (h \in Bags => cont'[h] \notin Bags)
  BY <1>1, <1>2 DEF SpawnTypeOK, CarriedByLive
<1> QED
  BY <1>1, <1>3, <1>4, <1>5, <1>6, UnownedInv

LEMMA DupeCharInv ==
  ASSUME SpawnInv, NEW d \in Beasts, NEW c \in Beasts, DupeChar(d, c)
  PROVE  SpawnInv'
<1> DEFINE k == IF owner[d] \in live THEN owner[d] ELSE NoTie
<1>1. /\ d \in live /\ Made(c, spawnserial[d]) /\ UNCHANGED cont
      /\ owner' = [owner EXCEPT ![c] = k]
      /\ petsControlled' = PetsAfter(c, owner[d])
  BY DEF DupeChar
<1>2. c \in Spawn /\ d \in Spawn /\ c \notin Goods
  BY Kinds
<1>3. SpawnTypeOK /\ DeadAreFree
  BY DEF SpawnInv
<1>4. spawnserial[d] \in Spawners \cup Regions \cup {NoTie}
  BY <1>2, <1>3 DEF SpawnTypeOK
<1>5. spawnserial[d] \in Spawners => spawnserial[d] \in live
  BY <1>1, <1>2 DEF SpawnInv, MadeByLive
<1>6. /\ live' \subseteq Beings /\ shouldSave' \subseteq live'
      /\ spawned' \in [Regions -> SUBSET Spawn]
      /\ spawnserial' \in [Spawn -> Spawners \cup Regions \cup {NoTie}]
      /\ spawnedList' \in [Spawners -> SUBSET Spawn]
      /\ stabled' \subseteq live' \cap Beasts /\ stabled' = stabled
      /\ c \notin live /\ live' = live \cup {c}
      /\ \A b \in Beasts : owner[b] # c
      /\ SpawnersAgree' /\ RegionsAgree' /\ MadeByLive'
  BY <1>1, <1>2, <1>4, <1>5, MadeInv
<1>7. /\ NoTie \notin live /\ NoTie \notin live'
      /\ owner \in [Beasts -> Owners \cup {NoTie}] /\ k \in Owners \cup {NoTie}
      /\ k \in live' => k \in live
  BY <1>3, <1>6, Kinds DEF SpawnTypeOK
<1>8. PetsAfter(c, owner[d]) = PetsAfter(c, k)
  BY <1>7 DEF PetsAfter
<1> HIDE DEF k
<1>9. owner' \in [Beasts -> Owners \cup {NoTie}]
  BY <1>1, <1>7
<1>10. /\ petsControlled' \in [Owners -> SUBSET Beasts]
       /\ \A h \in Owners : \A b \in petsControlled'[h] : b \in live' /\ owner'[b] = h
       /\ \A b \in Beasts : owner'[b] \in live' =>
            b \in stabled \/ b \in petsControlled'[owner'[b]]
       /\ \A h \in Owners \ live' : petsControlled'[h] = {}
  <2>1. /\ c \in live' /\ live \subseteq live'
        /\ \A b \in Beasts : owner[b] \in live' => owner[b] \in live
    BY <1>6
  <2>2. petsControlled' = PetsAfter(c, k)
    BY <1>1, <1>8
  <2> QED
    BY <1>1, <1>7, <1>9, <2>1, <2>2, PetsAfterInv
<1>11. PetsAgree'
  BY <1>6, <1>10 DEF PetsAgree
<1>12. CarriedByLive' /\ \A g \in Goods \ live' : cont'[g] = Ground
  BY <1>1, <1>2, <1>6, ContIdle
<1>13. \A b \in Beasts \ live' : owner'[b] = NoTie
  BY <1>1, <1>3, <1>6, <1>7 DEF DeadAreFree
<1>14. SpawnTypeOK'
  BY <1>1, <1>3, <1>6, <1>9, <1>10 DEF SpawnTypeOK
<1> QED
  BY <1>6, <1>10, <1>11, <1>12, <1>13, <1>14 DEF SpawnInv, DeadAreFree

LEMMA SetOwnerInv ==
  ASSUME SpawnInv, NEW c \in Beasts, NEW k \in Owners \cup {NoTie}, SetOwner(c, k)
  PROVE  SpawnInv'
<1>1. /\ c \in live /\ k \in live \cup {NoTie}
      /\ owner' = [owner EXCEPT ![c] = k]
      /\ petsControlled' = PetsAfter(c, k)
      /\ UNCHANGED <<live, shouldSave, spawned, spawnserial, spawnedList, stabled, cont>>
  BY DEF SetOwner
<1>2. SpawnTypeOK /\ DeadAreFree
  BY DEF SpawnInv
<1>3. NoTie \notin live
  BY <1>2, Kinds DEF SpawnTypeOK
<1>4. owner' \in [Beasts -> Owners \cup {NoTie}]
  BY <1>1, <1>2 DEF SpawnTypeOK
<1>5. /\ petsControlled' \in [Owners -> SUBSET Beasts]
      /\ \A h \in Owners : \A d \in petsControlled'[h] : d \in live /\ owner'[d] = h
      /\ \A d \in Beasts : owner'[d] \in live =>
           d \in stabled \/ d \in petsControlled'[owner'[d]]
      /\ \A h \in Owners \ live : petsControlled'[h] = {}
  BY <1>1, <1>3, <1>4, PetsAfterInv
<1>6. SpawnTypeOK'
  BY <1>1, <1>2, <1>4, <1>5 DEF SpawnTypeOK
<1>7. PetsAgree'
  BY <1>1, <1>5 DEF PetsAgree
<1>8. SpawnersAgree' /\ RegionsAgree' /\ MadeByLive'
  BY <1>1, ListsIdle
<1>9. CarriedByLive' /\ \A g \in Goods \ live' : cont'[g] = Ground
  BY <1>1, ContIdle
<1>10. \A d \in Beasts \ live' : owner'[d] = NoTie
  BY <1>1, <1>2 DEF SpawnTypeOK, DeadAreFree
<1> QED
  BY <1>1, <1>5, <1>6, <1>7, <1>8, <1>9, <1>10 DEF SpawnInv, DeadAreFree

LEMMA SetStabledInv ==
  ASSUME SpawnInv, NEW c \in Beasts, NEW in \in BOOLEAN, SetStabled(c, in)
  PROVE  SpawnInv'
<1>1. /\ c \in live
      /\ stabled' = IF in THEN stabled \cup {c} ELSE stabled \ {c}
      /\ petsControlled' =
           IF owner[c] \notin live THEN petsControlled
           ELSE [petsControlled EXCEPT ![owner[c]] = IF in THEN @ \ {c} ELSE @ \cup {c}]
      /\ UNCHANGED <<live, shouldSave, spawned, spawnserial, spawnedList, owner, cont>>
  BY DEF SetStabled
<1>2. SpawnTypeOK /\ DeadAreFree /\ PetsAgree
  BY DEF SpawnInv
<1>3. NoTie \notin live
  BY <1>2, Kinds DEF SpawnTypeOK
<1>4. owner[c] \in live => owner[c] \in Owners
  BY <1>2, <1>3 DEF SpawnTypeOK
<1>5. petsControlled' \in [Owners -> SUBSET Beasts]
  BY <1>1, <1>2, <1>4 DEF SpawnTypeOK
<1>6. SpawnTypeOK'
  BY <1>1, <1>2, <1>5 DEF SpawnTypeOK
<1>7. PetsAgree'
  <2>1. CASE owner[c] \notin live
    BY <1>1, <1>2, <2>1 DEF PetsAgree, SpawnTypeOK
  <2>2. CASE owner[c] \in live
    <3>1. petsControlled' = [petsControlled EXCEPT ![owner[c]] =
                               IF in THEN @ \ {c} ELSE @ \cup {c}]
      BY <1>1, <2>2
    <3>2. \A h \in Owners : petsControlled'[h] = IF h # owner[c] THEN petsControlled[h]
            ELSE IF in THEN petsControlled[h] \ {c} ELSE petsControlled[h] \cup {c}
      BY <1>2, <3>1 DEF SpawnTypeOK
    <3>3. ASSUME NEW h \in Owners, NEW d \in petsControlled'[h]
          PROVE  d \in live /\ owner[d] = h
      BY <1>1, <1>2, <3>2, <3>3 DEF PetsAgree
    <3>4. ASSUME NEW d \in Beasts, owner[d] \in live
          PROVE  d \in stabled' \/ d \in petsControlled'[owner[d]]
      <4>1. owner[d] \in Owners /\ (d \in stabled \/ d \in petsControlled[owner[d]])
        BY <1>2, <1>3, <3>4 DEF PetsAgree, SpawnTypeOK
      <4> QED
        BY <1>1, <3>2, <4>1
    <3> QED
      BY <1>1, <3>3, <3>4 DEF PetsAgree
  <2> QED
    BY <2>1, <2>2
<1>8. SpawnersAgree' /\ RegionsAgree' /\ MadeByLive'
  BY <1>1, ListsIdle
<1>9. CarriedByLive' /\ \A g \in Goods \ live' : cont'[g] = Ground
  BY <1>1, ContIdle
<1>10. \A k \in Owners \ live' : petsControlled'[k] = {}
  BY <1>1, <1>2 DEF DeadAreFree, SpawnTypeOK
<1> QED
  BY <1>1, <1>2, <1>6, <1>7, <1>8, <1>9, <1>10 DEF SpawnInv, DeadAreFree

LEMMA CarryInv ==
  ASSUME SpawnInv, NEW g \in Goods, NEW h \in Holders \cup {Ground}, Carry(g, h)
  PROVE  SpawnInv'
<1>1. /\ g \in live /\ h \in live \cup {Ground} /\ (g \in Bags => h \notin Bags)
      /\ cont' = [cont EXCEPT ![g] = h]
      /\ UNCHANGED <<live, shouldSave, spawned, spawnserial, spawnedList, owner,
                     petsControlled, stabled>>
  BY DEF Carry
<1>2. SpawnTypeOK /\ DeadAreFree /\ CarriedByLive
  BY DEF SpawnInv
<1>3. SpawnTypeOK'
  BY <1>1, <1>2 DEF SpawnTypeOK
<1>4. SpawnersAgree' /\ RegionsAgree' /\ MadeByLive'
  BY <1>1, ListsIdle
<1>5. PetsAgree' /\ DeadAreFree'
  BY <1>1, <1>2 DEF SpawnInv, PetsAgree, DeadAreFree, SpawnTypeOK
<1>6. CarriedByLive'
  BY <1>1, <1>2 DEF CarriedByLive, SpawnTypeOK
<1> QED
  BY <1>3, <1>4, <1>5, <1>6 DEF SpawnInv

-----------------------------------------------------------------------------
(* Deletion, of anything that leaves no contents behind.                   *)
LEMMA CleanedUpInv ==
  ASSUME SpawnInv, NEW D, CleanedUp(D),
         \A g \in Goods \cap live : cont[g] \in D => g \in D
  PROVE  SpawnInv'
<1>1. /\ live' = live \ D /\ shouldSave' = shouldSave \ D
      /\ spawned' = [r \in Regions |->
           spawned[r] \ {o \in D \cap Spawn : spawnserial[o] = r}]
      /\ spawnserial' = [o \in Spawn |->
           IF o \in D \/ \E s \in D \cap Spawners : o \in spawnedList[s]
           THEN NoTie ELSE spawnserial[o]]
      /\ spawnedList' = [s \in Spawners |-> IF s \in D THEN {} ELSE
           spawnedList[s] \ {o \in D \cap Spawn : spawnserial[o] = s}]
      /\ owner' = [c \in Beasts |->
           IF c \in D \/ \E k \in D \cap Owners : c \in petsControlled[k]
           THEN NoTie ELSE owner[c]]
      /\ petsControlled' = [k \in Owners |-> IF k \in D THEN {} ELSE
           petsControlled[k] \ {c \in D \cap Beasts : owner[c] = k}]
      /\ stabled' = stabled \ D
      /\ cont' = [g \in Goods |-> IF g \in D THEN Ground ELSE cont[g]]
  BY DEF CleanedUp
<1>2. /\ SpawnTypeOK /\ PetsAgree /\ SpawnersAgree /\ RegionsAgree
      /\ DeadAreFree /\ CarriedByLive /\ MadeByLive
  BY DEF SpawnInv
<1>3. NoTie \notin live /\ \A s \in Spawners : s # NoTie
  BY <1>2, Kinds DEF SpawnTypeOK
<1>4. SpawnTypeOK'
  <2>1. live' \subseteq Beings /\ shouldSave' \subseteq live' /\ stabled' \subseteq live' \cap Beasts
    BY <1>1, <1>2 DEF SpawnTypeOK
  <2>2. /\ spawned' \in [Regions -> SUBSET Spawn]
        /\ spawnserial' \in [Spawn -> Spawners \cup Regions \cup {NoTie}]
        /\ spawnedList' \in [Spawners -> SUBSET Spawn]
    BY <1>1, <1>2 DEF SpawnTypeOK
  <2>3. /\ owner' \in [Beasts -> Owners \cup {NoTie}]
        /\ petsControlled' \in [Owners -> SUBSET Beasts]
        /\ cont' \in [Goods -> Holders \cup {Ground}]
    BY <1>1, <1>2 DEF SpawnTypeOK
  <2> QED
    BY <2>1, <2>2, <2>3 DEF SpawnTypeOK
<1>5. PetsAgree'
  <2>1. ASSUME NEW k \in Owners, NEW c \in petsControlled'[k]
        PROVE  c \in live' /\ owner'[c] = k
    <3>1. k \notin D /\ c \in petsControlled[k] /\ ~(c \in D \cap Beasts /\ owner[c] = k)
      BY <1>1, <2>1
    <3>2. c \in live /\ owner[c] = k /\ c \in Beasts
      BY <1>2, <3>1 DEF PetsAgree, SpawnTypeOK
    <3>3. \A h \in D \cap Owners : c \notin petsControlled[h]
      BY <1>2, <3>1, <3>2 DEF PetsAgree
    <3> QED
      BY <1>1, <3>1, <3>2, <3>3
  <2>2. ASSUME NEW c \in Beasts, owner'[c] \in live'
        PROVE  c \in stabled' \/ c \in petsControlled'[owner'[c]]
    <3>1. c \notin D /\ owner'[c] = owner[c] /\ owner[c] \in live /\ owner[c] \notin D
      BY <1>1, <1>3, <2>2
    <3>2. owner[c] \in Owners
      BY <1>2, <1>3, <3>1 DEF SpawnTypeOK
    <3>3. c \in stabled \/ c \in petsControlled[owner[c]]
      BY <1>2, <3>1 DEF PetsAgree
    <3> QED
      BY <1>1, <3>1, <3>2, <3>3
  <2> QED
    BY <2>1, <2>2 DEF PetsAgree
<1>6. SpawnersAgree'
  <2> SUFFICES ASSUME NEW s \in Spawners
               PROVE  spawnedList'[s] = {o \in Spawn \cap live' : spawnserial'[o] = s}
    BY DEF SpawnersAgree
  <2>1. \A t \in Spawners : spawnedList[t] = {o \in Spawn \cap live : spawnserial[o] = t}
    BY <1>2 DEF SpawnersAgree
  <2>2. ASSUME NEW o \in spawnedList'[s]
        PROVE  o \in Spawn \cap live' /\ spawnserial'[o] = s
    <3>1. s \notin D /\ o \in Spawn \cap live /\ spawnserial[o] = s /\ o \notin D
      BY <1>1, <2>1, <2>2
    <3>2. \A t \in D \cap Spawners : o \notin spawnedList[t]
      BY <2>1, <3>1
    <3> QED
      BY <1>1, <3>1, <3>2
  <2>3. ASSUME NEW o \in Spawn \cap live', spawnserial'[o] = s
        PROVE  o \in spawnedList'[s]
    <3>1. /\ o \notin D /\ o \in live /\ spawnserial[o] = s
          /\ \A t \in D \cap Spawners : o \notin spawnedList[t]
      BY <1>1, <1>3, <2>3
    <3>2. o \in spawnedList[s] /\ s \notin D
      BY <2>1, <3>1
    <3> QED
      BY <1>1, <3>1, <3>2
  <2> QED
    BY <2>2, <2>3
<1>7. RegionsAgree'
  <2>1. ASSUME NEW r \in Regions, NEW o \in spawned'[r]
        PROVE  o \in live' \ shouldSave' /\ spawnserial'[o] = r
    <3>1. o \in spawned[r] /\ o \in Spawn
      BY <1>1, <1>2, <2>1 DEF SpawnTypeOK
    <3>2. o \in live \ shouldSave /\ spawnserial[o] = r
      BY <1>2, <3>1 DEF RegionsAgree
    <3>3. o \notin D
      BY <1>1, <2>1, <3>1, <3>2
    <3>4. \A s \in D \cap Spawners : o \notin spawnedList[s]
      BY <1>2, <3>2, SpawnAssumption DEF SpawnersAgree
    <3> QED
      BY <1>1, <3>1, <3>2, <3>3, <3>4
  <2>2. ASSUME NEW o \in live' \ shouldSave' PROVE \E r \in Regions : o \in spawned'[r]
    <3>1. o \in live \ shouldSave /\ o \notin D
      BY <1>1, <2>2
    <3>2. PICK r \in Regions : o \in spawned[r]
      BY <1>2, <3>1 DEF RegionsAgree
    <3> QED
      BY <1>1, <3>1, <3>2
  <2> QED
    BY <2>1, <2>2 DEF RegionsAgree
<1>8. DeadAreFree'
  <2>1. /\ \A c \in Beasts \ live' : owner'[c] = NoTie
        /\ \A g \in Goods \ live' : cont'[g] = Ground
    BY <1>1, <1>2 DEF DeadAreFree
  <2>2. \A k \in Owners \ live' : petsControlled'[k] = {}
    BY <1>1, <1>2 DEF DeadAreFree
  <2> QED
    BY <2>1, <2>2 DEF DeadAreFree
<1>9. CarriedByLive'
  BY <1>1, <1>2, SpawnAssumption DEF CarriedByLive
<1>10. MadeByLive'
  <2> SUFFICES ASSUME NEW o \in Spawn \cap live', spawnserial'[o] \in Spawners
               PROVE  spawnserial'[o] \in live'
    BY DEF MadeByLive
  <2>1. /\ o \in live /\ spawnserial'[o] = spawnserial[o]
        /\ \A s \in D \cap Spawners : o \notin spawnedList[s]
    BY <1>1, <1>3
  <2>2. spawnserial[o] \in live /\ o \in spawnedList[spawnserial[o]]
    BY <1>2, <2>1 DEF MadeByLive, SpawnersAgree
  <2> QED
    BY <1>1, <2>1, <2>2
<1> QED
  BY <1>4, <1>5, <1>6, <1>7, <1>8, <1>9, <1>10 DEF SpawnInv

(* Bags hold no bags, so what deletion takes along is all there is.        *)
LEMMA DoomedAll ==
  ASSUME SpawnInv, NEW o \in live, NEW g \in Goods \cap live, cont[g] \in Doomed(o)
  PROVE  g \in Doomed(o)
<1>1. SpawnTypeOK /\ CarriedByLive
  BY DEF SpawnInv
<1>2. CASE cont[g] = o
  BY <1>2 DEF Doomed, Contents
<1>3. CASE cont[g] \in Contents(o)
  BY <1>3 DEF Doomed, Contents
<1>4. ASSUME NEW b \in Contents(o), cont[g] \in Contents(b) PROVE FALSE
  <2>1. cont[g] \in Goods /\ cont[cont[g]] = b /\ b \in Goods
    BY <1>4 DEF Contents
  <2>2. cont[g] \in Holders \cup {Ground} /\ cont[cont[g]] \in Holders \cup {Ground}
    BY <1>1, <2>1 DEF SpawnTypeOK
  <2>3. cont[g] \in Bags /\ b \in Bags
    BY <2>1, <2>2, SpawnAssumption DEF Holders, Owners
  <2> QED
    BY <1>1, <1>4, <2>1, <2>3 DEF CarriedByLive, Contents
<1> QED
  BY <1>2, <1>3, <1>4 DEF Doomed

LEMMA DeleteInv ==
  ASSUME SpawnInv, NEW o \in Beings, Delete(o)
  PROVE  SpawnInv'
<1>1. o \in live /\ CleanedUp(Doomed(o))
  BY DEF Delete
<1>2. \A g \in Goods \cap live : cont[g] \in Doomed(o) => g \in Doomed(o)
  BY <1>1, DoomedAll
<1> QED
  BY <1>1, <1>2, CleanedUpInv

LEMMA SpawnKillInv ==
  ASSUME SpawnInv, NEW r \in Regions, SpawnKill(r)
  PROVE  SpawnInv'
<1> DEFINE D == UNION {Doomed(c) : c \in spawned[r] \cap Beasts}
<1>1. CleanedUp(D)
  BY DEF SpawnKill
<1>2. ASSUME NEW g \in Goods \cap live, cont[g] \in D PROVE g \in D
  <2>1. PICK c \in spawned[r] \cap Beasts : cont[g] \in Doomed(c)
    BY <1>2
  <2>2. c \in live
    BY DEF SpawnInv, RegionsAgree
  <2> QED
    BY <2>1, <2>2, DoomedAll
<1> HIDE DEF D
<1> QED
  BY <1>1, <1>2, CleanedUpInv

-----------------------------------------------------------------------------
(* Saving.                                                                 *)
LEMMA WorldSaveInv ==
  ASSUME SpawnInv, WorldSave
  PROVE  SpawnInv'
<1>1. /\ spawned' = [r \in Regions |-> spawned[r] \ Released]
      /\ shouldSave' = shouldSave \cup Released
      /\ UNCHANGED <<live, spawnserial, spawnedList, owner, petsControlled, stabled, cont>>
  BY DEF WorldSave
<1>2. SpawnTypeOK /\ RegionsAgree
  BY DEF SpawnInv
<1>3. Released \subseteq live
  BY <1>2 DEF Released, RegionsAgree
<1> HIDE DEF Released
<1>4. SpawnTypeOK'
  BY <1>1, <1>2, <1>3 DEF SpawnTypeOK
<1>5. RegionsAgree'
  BY <1>1, <1>2, <1>3 DEF RegionsAgree
<1>6. PetsAgree' /\ DeadAreFree' /\ CarriedByLive'
  BY <1>1 DEF SpawnInv, PetsAgree, DeadAreFree, CarriedByLive
<1>7. SpawnersAgree' /\ MadeByLive'
  BY <1>1 DEF SpawnInv, SpawnersAgree, MadeByLive
<1> QED
  BY <1>4, <1>5, <1>6, <1>7 DEF SpawnInv

(* What is saved, of all that may be, is there and in what is saved too;   *)
(* spawners and players always are.                                        *)
LEMMA SavedAre ==
  ASSUME SpawnInv, NEW S, S = shouldSave \cup Released
  PROVE  /\ SavedIn(S) \subseteq live
         /\ \A s \in live : s \notin Spawn => s \in SavedIn(S)
         /\ \A g \in Goods \cap SavedIn(S) : cont[g] \in SavedIn(S) \cup {Ground}
         /\ \A c \in live : c \in Beasts /\ owner[c] \in live => c \in SavedIn(S)
         /\ \A g \in Goods \cap live : cont[g] \in live => g \in S
<1>1. SpawnTypeOK /\ RegionsAgree /\ CarriedByLive
  BY DEF SpawnInv
<1>2. Released \subseteq live
  BY <1>1 DEF Released, RegionsAgree
<1>3. ASSUME NEW o \in live, o \notin shouldSave
      PROVE  o \in UNION {spawned[r] : r \in Regions} /\ o \in Spawn
  <2>1. PICK r \in Regions : o \in spawned[r]
    BY <1>1, <1>3 DEF RegionsAgree
  <2> QED
    BY <1>1, <2>1 DEF SpawnTypeOK
<1>4. \A g \in Goods \cap live : cont[g] \in live => g \in S
  BY <1>3 DEF Released
<1>5. \A c \in live : c \in Beasts /\ owner[c] \in live => c \in SavedIn(S)
  BY <1>3, Kinds DEF Released, SavedIn
<1>6. \A s \in live : s \notin Spawn => s \in SavedIn(S)
  BY <1>3, Kinds DEF SavedIn
<1>7. SavedIn(S) \subseteq live
  BY <1>1, <1>2 DEF SavedIn, SpawnTypeOK
<1>8. ASSUME NEW g \in Goods \cap SavedIn(S), cont[g] # Ground
      PROVE  cont[g] \in SavedIn(S)
  <2>1. Around(g) \subseteq S /\ cont[g] \in S
    BY <1>8 DEF SavedIn, Around
  <2>2. CASE cont[g] \notin Goods
    BY <2>1, <2>2 DEF SavedIn
  <2>3. CASE cont[g] \in Goods
    <3>1. cont[g] \in Bags /\ cont[g] \in live
      BY <1>1, <1>7, <1>8, <2>3, SpawnAssumption
      DEF SpawnTypeOK, Holders, Owners, CarriedByLive
    <3>2. cont[cont[g]] \notin Goods
      BY <1>1, <2>3, <3>1, SpawnAssumption DEF SpawnTypeOK, Holders, Owners, CarriedByLive
    <3>3. Around(cont[g]) \subseteq Around(g)
      BY <2>3, <3>2 DEF Around
    <3> QED
      BY <2>1, <3>3 DEF SavedIn
  <2> QED
    BY <2>2, <2>3
<1> QED
  BY <1>4, <1>5, <1>6, <1>7, <1>8

LEMMA SaveThenRestartInv ==
  ASSUME SpawnInv, SaveThenRestart
  PROVE  SpawnInv'
<1> DEFINE saved == SavedIn(shouldSave \cup Released)
<1>1. /\ live' = saved /\ shouldSave' = saved
      /\ spawned' = [r \in Regions |-> {}]
      /\ spawnserial' = [o \in Spawn |-> IF o \in saved THEN spawnserial[o] ELSE NoTie]
      /\ spawnedList' = [s \in Spawners |-> {o \in saved \cap Spawn : spawnserial[o] = s}]
      /\ owner' = [c \in Beasts |->
           IF c \in saved /\ owner[c] \in saved THEN owner[c] ELSE NoTie]
      /\ petsControlled' = [k \in Owners |->
           {c \in saved \cap Beasts : k \in saved /\ owner[c] = k}]
      /\ stabled' = stabled \cap saved
      /\ cont' = [g \in Goods |-> IF g \in saved THEN cont[g] ELSE Ground]
  BY DEF SaveThenRestart
<1>2. SpawnTypeOK /\ CarriedByLive /\ MadeByLive
  BY DEF SpawnInv
<1>3. /\ saved \subseteq live
      /\ \A s \in live : s \notin Spawn => s \in saved
      /\ \A g \in Goods \cap saved : cont[g] \in saved \cup {Ground}
  BY SavedAre
<1> HIDE DEF saved
<1>4. NoTie \notin saved /\ \A s \in Spawners : s # NoTie /\ s \notin Spawn
  BY <1>2, <1>3, Kinds DEF SpawnTypeOK
<1>5. SpawnTypeOK'
  BY <1>1, <1>2, <1>3 DEF SpawnTypeOK
<1>6. PetsAgree'
  BY <1>1, <1>2, <1>4 DEF PetsAgree, SpawnTypeOK
<1>7. SpawnersAgree' /\ MadeByLive'
  BY <1>1, <1>2, <1>3, <1>4 DEF SpawnersAgree, MadeByLive
<1>8. RegionsAgree' /\ DeadAreFree'
  BY <1>1 DEF RegionsAgree, DeadAreFree
<1>9. CarriedByLive'
  BY <1>1, <1>2, <1>3 DEF CarriedByLive
<1> QED
  BY <1>5, <1>6, <1>7, <1>8, <1>9 DEF SpawnInv

LEMMA SpawnStepInv == SpawnInv /\ [SpawnNext]_spawnVars => SpawnInv'
<1> SUFFICES ASSUME SpawnInv, [SpawnNext]_spawnVars PROVE SpawnInv'
  OBVIOUS
<1>1. CASE \E r \in Regions, N \in SUBSET Spawn : DoRegionSpawn(r, N)
  BY <1>1, DoRegionSpawnInv
<1>2. CASE \E r \in Regions : SpawnKill(r)
  BY <1>2, SpawnKillInv
<1>3. CASE \E s \in Spawners, c \in Beasts : CreateNPC(s, c)
  BY <1>3, CreateNPCInv
<1>4. CASE \E s \in Spawners, g \in Goods, inCont \in BOOLEAN : AddRespawnItem(s, g, inCont)
  BY <1>4, AddRespawnItemInv
<1>5. CASE \E o \in Spawn : CreateObject(o)
  BY <1>5, CreateObjectInv
<1>6. CASE \E d, c \in Beasts : DupeChar(d, c)
  BY <1>6, DupeCharInv
<1>7. CASE \E g, h \in Goods : DupeItem(g, h)
  BY <1>7, DupeItemInv
<1>8. CASE \E c \in Beasts, k \in Owners \cup {NoTie} : SetOwner(c, k)
  BY <1>8, SetOwnerInv
<1>9. CASE \E c \in Beasts, in \in BOOLEAN : SetStabled(c, in)
  BY <1>9, SetStabledInv
<1>10. CASE \E g \in Goods, h \in Holders \cup {Ground} : Carry(g, h)
  BY <1>10, CarryInv
<1>11. CASE \E o \in Beings : Delete(o)
  BY <1>11, DeleteInv
<1>12. CASE WorldSave
  BY <1>12, WorldSaveInv
<1>13. CASE SaveThenRestart
  BY <1>13, SaveThenRestartInv
<1>14. CASE UNCHANGED spawnVars
  <2>1. UNCHANGED <<live, shouldSave, spawned, spawnserial, spawnedList, owner,
                    petsControlled, stabled, cont>>
    BY <1>14 DEF spawnVars
  <2>2. SpawnTypeOK' /\ PetsAgree' /\ SpawnersAgree' /\ RegionsAgree'
    BY <2>1 DEF SpawnInv, SpawnTypeOK, PetsAgree, SpawnersAgree, RegionsAgree
  <2>3. DeadAreFree' /\ CarriedByLive' /\ MadeByLive'
    BY <2>1 DEF SpawnInv, DeadAreFree, CarriedByLive, MadeByLive
  <2> QED
    BY <2>2, <2>3 DEF SpawnInv
<1> QED
  BY <1>1, <1>2, <1>3, <1>4, <1>5, <1>6, <1>7, <1>8, <1>9, <1>10, <1>11, <1>12,
     <1>13, <1>14
  DEF SpawnNext

(* The invariant holds in every reachable state.                           *)
THEOREM SpecSpawnInv == SpawnSpec => []SpawnInv
BY SpawnInitInv, SpawnStepInv, PTL DEF SpawnSpec

(* Spawned things, their owners and their spawners keep their shape.       *)
THEOREM SpecSpawnTypeOK == SpawnSpec => []SpawnTypeOK
<1>1. SpawnInv => SpawnTypeOK
  BY DEF SpawnInv
<1> QED
  BY <1>1, SpecSpawnInv, PTL

(* A creature and its owner, a thing and its spawner, a region and what is *)
(* not to be saved name each other, in every reachable state.              *)
THEOREM SpecTiesAgree == SpawnSpec => []TiesAgree
<1>1. SpawnInv => TiesAgree
  BY DEF SpawnInv, TiesAgree
<1> QED
  BY <1>1, SpecSpawnInv, PTL

(* What players own, and what they and their creatures carry, comes back   *)
(* after every end, and pets come back to their owners.                    *)
THEOREM SpecOwnedSurvive == SpawnSpec => OwnedSurvive
<1> DEFINE A ==
      /\ \A o \in live \ live' : SaveThenRestart => ~Kept(o)
      /\ \A c \in Beasts : owner'[c] # owner[c] /\ SaveThenRestart =>
           ~(Safe(c) /\ Safe(owner[c]))
<1>1. SpawnInv => A
  <2> SUFFICES ASSUME SpawnInv, SaveThenRestart
      PROVE  /\ \A o : Kept(o) => o \in live'
             /\ \A c \in Beasts : Safe(c) /\ Safe(owner[c]) => owner'[c] = owner[c]
    OBVIOUS
  <2> DEFINE S     == shouldSave \cup Released
             saved == SavedIn(S)
  <2>1. /\ live' = saved
        /\ owner' = [c \in Beasts |->
             IF c \in saved /\ owner[c] \in saved THEN owner[c] ELSE NoTie]
    BY DEF SaveThenRestart
  <2>2. /\ saved \subseteq live
        /\ \A s \in live : s \notin Spawn => s \in saved
        /\ \A c \in live : c \in Beasts /\ owner[c] \in live => c \in saved
        /\ \A g \in Goods \cap live : cont[g] \in live => g \in S
    BY SavedAre
  <2>3. \A c : Safe(c) => c \in saved /\ c \in Owners /\ c \notin Goods
    BY <2>2, SpawnAssumption DEF Safe, Spawn, Owners
  <2>4. ASSUME NEW g \in Goods \cap live, NEW c \in Around(g), Safe(c)
        PROVE  g \in saved
    <3>1. CASE cont[g] \notin Goods
      <4>1. cont[g] = c /\ c \in live /\ c \in S
        BY <2>3, <2>4, <3>1 DEF Around, SavedIn, Safe
      <4> QED
        BY <2>2, <3>1, <4>1 DEF Around, SavedIn
    <3>2. CASE cont[g] \in Goods
      <4>1. cont[cont[g]] = c /\ c \in live /\ c \in S
        BY <2>3, <2>4, <3>2 DEF Around, SavedIn, Safe
      <4>2. cont[g] \in live
        BY <3>2, SpawnAssumption DEF SpawnInv, CarriedByLive
      <4>3. cont[g] \in S /\ g \in S
        BY <2>2, <3>2, <4>1, <4>2
      <4> QED
        BY <3>2, <4>1, <4>3 DEF Around, SavedIn
    <3> QED
      BY <3>1, <3>2
  <2>5. \A o : Kept(o) => o \in live'
    BY <2>1, <2>3, <2>4 DEF Kept
  <2>6. ASSUME NEW c \in Beasts, Safe(c), Safe(owner[c])
        PROVE  owner'[c] = owner[c]
    BY <2>1, <2>3, <2>6
  <2> QED
    BY <2>5, <2>6
<1>2. SpawnInv => [A]_spawnVars
  BY <1>1
<1> QED
  BY <1>2, SpecSpawnInv, PTL DEF OwnedSurvive

-----------------------------------------------------------------------------
(* Houses and boats.  The lists and the pointers agree from before a multi *)
(* is built until it is deleted.  What a deleted one still lists is of no  *)
(* account.                                                                *)
Listed ==
  /\ \A m \in ended : ~Standing(m)
  /\ \A o \in Objects : multi[o] # None => Standing(multi[o])
  /\ \A m \in Multis \ ended : inside[m] = {o \in Objects : multi[o] = m}

EstateInv == EstateTypeOK /\ Listed

LEMMA EstateInitInv == EstateInit => EstateInv
<1> SUFFICES ASSUME EstateInit PROVE EstateInv
  OBVIOUS
<1>1. None \notin Multis /\ locks = <<lockedDown, lockedList>>
  BY EstateAssumption DEF locks
<1>2. EstateTypeOK
  BY DEF EstateInit, EstateTypeOK
<1>3. Listed
  BY <1>1 DEF EstateInit, Listed, Standing
<1> QED
  BY <1>2, <1>3 DEF EstateInv

(* SetMultis takes each of S off the list it was on and puts it on another. *)
LEMMA SetMultiLists ==
  ASSUME EstateInv, NEW S \in SUBSET Objects, NEW to \in [S -> Multis \cup {None}],
         SetMultis(to)
  PROVE  /\ multi' \in [Objects -> Multis \cup {None}]
         /\ inside' \in [Multis -> SUBSET Objects]
         /\ \A o \in Objects : multi'[o] = IF o \in S THEN to[o] ELSE multi[o]
         /\ \A k \in Multis \ ended : inside'[k] = {o \in Objects : multi'[o] = k}
<1>1. /\ multi' = [o \in Objects |-> IF o \in S THEN to[o] ELSE multi[o]]
      /\ inside' = [k \in Multis |->
           (inside[k] \ {o \in S : multi[o] = k /\ k \notin ended})
             \cup {o \in S : to[o] = k}]
      /\ multi \in [Objects -> Multis \cup {None}]
      /\ inside \in [Multis -> SUBSET Objects]
  BY DEF SetMultis, EstateInv, EstateTypeOK
<1>2. ASSUME NEW k \in Multis \ ended
      PROVE  inside'[k] = {o \in Objects : multi'[o] = k}
  <2>1. inside[k] = {o \in Objects : multi[o] = k}
    BY DEF EstateInv, Listed
  <2>2. inside'[k] = (inside[k] \ {o \in S : multi[o] = k})
                        \cup {o \in S : to[o] = k}
    BY <1>1
  <2>3. ASSUME NEW o \in Objects PROVE o \in inside'[k] <=> multi'[o] = k
    BY <1>1, <2>1, <2>2
  <2>4. inside'[k] \subseteq Objects
    BY <1>1, <2>2
  <2> QED
    BY <2>3, <2>4
<1>3. multi' \in [Objects -> Multis \cup {None}]
  BY <1>1
<1>4. inside' \in [Multis -> SUBSET Objects]
  BY <1>1
<1> QED
  BY <1>1, <1>2, <1>3, <1>4

LEMMA PutType ==
  ASSUME EstateTypeOK, NEW S, NEW p \in Places \cup {Open, None}, Put(S, p)
  PROVE  where' \in [Objects -> Places \cup {Open, None}]
BY DEF Put, EstateTypeOK

(* Any step in which objects go to a multi that stands then, or to none,    *)
(* and no multi is taken down.                                              *)
LEMMA MovedInv ==
  ASSUME EstateInv, NEW S \in SUBSET Objects, NEW to \in [S -> Multis \cup {None}],
         SetMultis(to), UNCHANGED ended,
         site' \in [Multis -> Places \cup {None}],
         \A k \in Multis : Standing(k) => site'[k] # None,
         \A k \in ended : site'[k] = None,
         \A o \in S : to[o] # None => site'[to[o]] # None,
         where' \in [Objects -> Places \cup {Open, None}],
         lockedDown' \in SUBSET Things,
         lockedList' \in [Multis -> SUBSET Things]
  PROVE  EstateInv'
<1>1. /\ multi' \in [Objects -> Multis \cup {None}]
      /\ inside' \in [Multis -> SUBSET Objects]
      /\ \A o \in Objects : multi'[o] = IF o \in S THEN to[o] ELSE multi[o]
      /\ \A k \in Multis \ ended : inside'[k] = {o \in Objects : multi'[o] = k}
  BY SetMultiLists
<1>2. EstateTypeOK'
  BY <1>1 DEF EstateInv, EstateTypeOK
<1>3. ASSUME NEW o \in Objects, multi'[o] # None PROVE site'[multi'[o]] # None
  BY <1>1, <1>3 DEF EstateInv, EstateTypeOK, Listed
<1>4. Listed'
  BY <1>1, <1>3 DEF Listed, Standing
<1> QED
  BY <1>2, <1>4 DEF EstateInv

(* All of them go to the same.                                              *)
LEMMA AllTo ==
  ASSUME NEW S, NEW m \in Multis \cup {None}, SetMulti(S, m)
  PROVE  \E to \in [S -> Multis \cup {None}] :
           SetMultis(to) /\ \A o \in S : to[o] = m
<1> DEFINE to == [o \in S |-> m]
<1>1. to \in [S -> Multis \cup {None}] /\ \A o \in S : to[o] = m
  OBVIOUS
<1>2. SetMultis(to)
  BY DEF SetMulti
<1> QED
  BY <1>1, <1>2

LEMMA FoundMulti ==
  ASSUME NEW s \in [Multis -> Places \cup {None}], NEW p, NEW m \in FindMulti(s, p)
  PROVE  m \in Multis \cup {None} /\ (m # None => s[m] # None)
BY EstateAssumption DEF FindMulti

LEMMA BuildInv ==
  ASSUME EstateInv, NEW m \in Multis, NEW p \in Places, NEW c \in Folk,
         Build(m, p, c)
  PROVE  EstateInv'
<1> DEFINE new == {f \in Parts : PartOf[f] = m} \cup {c}
<1>1. /\ m \notin ended /\ p # None
      /\ Put(new, p) /\ SetMulti(new, m) /\ new \in SUBSET Objects
      /\ site' = [site EXCEPT ![m] = p]
      /\ UNCHANGED <<ended, lockedDown, lockedList>>
      /\ site \in [Multis -> Places \cup {None}]
  BY EstateAssumption DEF Build, locks, Objects, EstateInv, EstateTypeOK
<1> HIDE DEF new
<1>2. where' \in [Objects -> Places \cup {Open, None}]
  BY <1>1, PutType DEF EstateInv
<1>3. /\ site' \in [Multis -> Places \cup {None}] /\ site'[m] # None
      /\ \A k \in Multis : Standing(k) => site'[k] # None
  BY <1>1 DEF Standing
<1>4. \A k \in ended : site'[k] = None
  BY <1>1 DEF Standing, EstateInv, EstateTypeOK, Listed
<1>5. lockedDown' \in SUBSET Things /\ lockedList' \in [Multis -> SUBSET Things]
  BY <1>1 DEF EstateInv, EstateTypeOK
<1>6. PICK to \in [new -> Multis \cup {None}] :
        SetMultis(to) /\ \A o \in new : to[o] = m
  BY <1>1, AllTo
<1> QED
  BY <1>1, <1>2, <1>3, <1>4, <1>5, <1>6, MovedInv

(* The steps that leave the multis where they are.                          *)
LEMMA StillInv ==
  ASSUME EstateInv, NEW S \in SUBSET Objects, NEW m \in Multis \cup {None},
         SetMulti(S, m), m # None => site[m] # None,
         UNCHANGED <<site, ended, locks>>,
         where' \in [Objects -> Places \cup {Open, None}]
  PROVE  EstateInv'
<1>1. UNCHANGED <<site, ended, lockedDown, lockedList>>
  BY DEF locks
<1>2. /\ site' \in [Multis -> Places \cup {None}]
      /\ \A k \in Multis : Standing(k) => site'[k] # None
      /\ \A k \in ended : site'[k] = None
      /\ m # None => site'[m] # None
      /\ lockedDown' \in SUBSET Things /\ lockedList' \in [Multis -> SUBSET Things]
  BY <1>1 DEF EstateInv, EstateTypeOK, Listed, Standing
<1>3. PICK to \in [S -> Multis \cup {None}] :
        SetMultis(to) /\ \A o \in S : to[o] = m
  BY AllTo
<1> QED
  BY <1>1, <1>2, <1>3, MovedInv

LEMMA SetLocationInv ==
  ASSUME EstateInv, NEW o \in Objects, NEW p \in Places \cup {Open},
         SetLocation(o, p)
  PROVE  EstateInv'
<1>1. PICK m \in FindMulti(site, p) : SetMulti({o}, m)
  BY DEF SetLocation
<1>2. m \in Multis \cup {None} /\ (m # None => site[m] # None)
  BY FoundMulti DEF EstateInv, EstateTypeOK
<1>3. where' \in [Objects -> Places \cup {Open, None}]
  BY PutType DEF SetLocation, EstateInv
<1>4. UNCHANGED <<site, ended, locks>>
  BY DEF SetLocation
<1> QED
  BY <1>1, <1>2, <1>3, <1>4, StillInv

LEMMA LetOutInv ==
  ASSUME EstateInv, NEW o \in Objects, PickUp(o) \/ PickUpRefused(o) \/ DeleteObject(o)
  PROVE  EstateInv'
<1>1. where' \in [Objects -> Places \cup {Open, None}]
  BY PutType DEF PickUp, PickUpRefused, DeleteObject, EstateInv, EstateTypeOK
<1>2. SetMulti({o}, None) /\ UNCHANGED <<site, ended, locks>>
  BY DEF PickUp, PickUpRefused, DeleteObject
<1> QED
  BY <1>1, <1>2, StillInv

LEMMA EstateIdle ==
  ASSUME EstateInv, UNCHANGED <<site, ended, multi, inside>>,
         where' \in [Objects -> Places \cup {Open, None}],
         lockedDown' \in SUBSET Things, lockedList' \in [Multis -> SUBSET Things]
  PROVE  EstateInv'
BY DEF EstateInv, EstateTypeOK, Listed, Standing

LEMMA SetContInv ==
  ASSUME EstateInv, NEW i \in Objects, SetCont(i)
  PROVE  EstateInv'
BY PutType, EstateIdle DEF SetCont, locks, EstateInv, EstateTypeOK

LEMMA LocksInv ==
  ASSUME EstateInv, NEW i \in Things, NEW m \in Multis, Lock(i, m) \/ Release(i, m)
  PROVE  EstateInv'
<1>1. UNCHANGED <<site, ended, where, multi, inside>>
  BY DEF Lock, Release
<1>2. lockedDown' \in SUBSET Things /\ lockedList' \in [Multis -> SUBSET Things]
  BY DEF Lock, Release, EstateInv, EstateTypeOK
<1>3. where' \in [Objects -> Places \cup {Open, None}]
  BY <1>1 DEF EstateInv, EstateTypeOK
<1> QED
  BY <1>1, <1>2, <1>3, EstateIdle

(* A multi is taken down: all that points to it is let out first.           *)
LEMMA CleanupInv ==
  ASSUME EstateInv, NEW m \in Multis, NEW along \in SUBSET Objects,
         Cleanup(m, along)
  PROVE  EstateInv'
<1> DEFINE lost == (inside[m] \cap DoorsAndSigns) \cup along
           S == inside[m] \cup lost
<1>1. /\ Standing(m) /\ Put(lost, None) /\ SetMulti(S, None)
      /\ site' = [site EXCEPT ![m] = None] /\ ended' = ended \cup {m}
      /\ lockedDown' = lockedDown \ (inside[m] \ Folk)
      /\ UNCHANGED lockedList
  BY DEF Cleanup, Emptied
<1>2. S \in SUBSET Objects /\ inside[m] \subseteq S
  BY DEF EstateInv, EstateTypeOK
<1> HIDE DEF lost, S
<1>3. where' \in [Objects -> Places \cup {Open, None}]
  BY <1>1, PutType DEF EstateInv
<1>4. /\ multi' \in [Objects -> Multis \cup {None}]
      /\ inside' \in [Multis -> SUBSET Objects]
      /\ \A o \in Objects : multi'[o] = IF o \in S THEN None ELSE multi[o]
      /\ \A k \in Multis \ ended : inside'[k] = {o \in Objects : multi'[o] = k}
  <2>1. PICK to \in [S -> Multis \cup {None}] :
          SetMultis(to) /\ \A o \in S : to[o] = None
    BY <1>1, AllTo
  <2> QED
    BY <1>2, <2>1, SetMultiLists
<1>5. EstateTypeOK'
  BY <1>1, <1>3, <1>4 DEF EstateInv, EstateTypeOK
<1>6. inside[m] = {o \in Objects : multi[o] = m}
  BY <1>1 DEF EstateInv, Listed
<1>7. ASSUME NEW o \in Objects, multi'[o] # None PROVE site'[multi'[o]] # None
  <2>1. multi'[o] = multi[o] /\ multi[o] # m /\ multi[o] # None
    BY <1>2, <1>4, <1>6, <1>7
  <2> QED
    BY <1>1, <2>1 DEF EstateInv, EstateTypeOK, Listed, Standing
<1>8. \A k \in ended' : site'[k] = None
  BY <1>1 DEF EstateInv, EstateTypeOK, Listed, Standing
<1>9. Listed'
  BY <1>1, <1>4, <1>7, <1>8 DEF Listed, Standing
<1> QED
  BY <1>5, <1>9 DEF EstateInv

LEMMA RemovedInv ==
  ASSUME EstateInv, NEW m \in Multis, RemoveMulti(m) \/ DeedHouse(m) \/ ModelBoat(m)
  PROVE  EstateInv'
<1>1. CASE RemoveMulti(m)
  BY <1>1, CleanupInv DEF RemoveMulti
<1>2. CASE DeedHouse(m)
  <2>1. inside[m] \cap Vendors \in SUBSET Objects
    BY EstateAssumption DEF Objects
  <2> QED
    BY <1>2, <2>1, CleanupInv DEF DeedHouse
<1>3. CASE ModelBoat(m)
  <2>1. {f \in Parts : PartOf[f] = m} \in SUBSET Objects
    BY DEF Objects
  <2> QED
    BY <1>3, <2>1, CleanupInv DEF ModelBoat
<1> QED
  BY <1>1, <1>2, <1>3

LEMMA MoveBoatInv ==
  ASSUME EstateInv, NEW b \in Boats, NEW q \in Places, MoveBoat(b, q)
  PROVE  EstateInv'
<1> DEFINE moved == {o \in inside[b] : where[o] = site[b]}
                      \cup {f \in Parts : PartOf[f] = b}
<1>1. /\ Standing(b) /\ b \in Multis /\ q # None
      /\ site' = [site EXCEPT ![b] = q] /\ Put(moved, q)
      /\ UNCHANGED <<ended, lockedDown, lockedList>>
  BY EstateAssumption DEF MoveBoat, locks, Multis
<1>2. PICK to \in [moved -> FindMulti(site', q)] : SetMultis(to)
  BY DEF MoveBoat
<1>3. moved \in SUBSET Objects
  BY <1>1 DEF Objects, EstateInv, EstateTypeOK
<1> HIDE DEF moved
<1>4. /\ site' \in [Multis -> Places \cup {None}]
      /\ \A k \in Multis : Standing(k) => site'[k] # None
      /\ \A k \in ended : site'[k] = None
  BY <1>1 DEF EstateInv, EstateTypeOK, Listed, Standing
<1>5. /\ to \in [moved -> Multis \cup {None}]
      /\ \A o \in moved : to[o] # None => site'[to[o]] # None
  BY <1>2, <1>4, FoundMulti
<1>6. where' \in [Objects -> Places \cup {Open, None}]
  BY <1>1, PutType DEF EstateInv
<1>7. lockedDown' \in SUBSET Things /\ lockedList' \in [Multis -> SUBSET Things]
  BY <1>1 DEF EstateInv, EstateTypeOK
<1> QED
  BY <1>1, <1>2, <1>3, <1>4, <1>5, <1>6, <1>7, MovedInv

LEMMA EstateStepInv == EstateInv /\ [EstateNext]_estateVars => EstateInv'
<1> SUFFICES ASSUME EstateInv, [EstateNext]_estateVars PROVE EstateInv'
  OBVIOUS
<1>1. CASE \E m \in Multis, p \in Places, c \in Folk : Build(m, p, c)
  BY <1>1, BuildInv
<1>2. CASE \E o \in Objects, p \in Places \cup {Open} : SetLocation(o, p)
  BY <1>2, SetLocationInv
<1>3. CASE \E o \in Objects : PickUp(o) \/ PickUpRefused(o) \/ DeleteObject(o)
  BY <1>3, LetOutInv
<1>4. CASE \E o \in Objects : SetCont(o)
  BY <1>4, SetContInv
<1>5. CASE \E i \in Things, m \in Multis : Lock(i, m) \/ Release(i, m)
  BY <1>5, LocksInv
<1>6. CASE \E m \in Multis : RemoveMulti(m) \/ DeedHouse(m) \/ ModelBoat(m)
  BY <1>6, RemovedInv
<1>7. CASE \E b \in Boats, q \in Places : MoveBoat(b, q)
  BY <1>7, MoveBoatInv
<1>8. CASE UNCHANGED estateVars
  BY <1>8, EstateIdle DEF estateVars, locks, EstateInv, EstateTypeOK
<1> QED
  BY <1>1, <1>2, <1>3, <1>4, <1>5, <1>6, <1>7, <1>8 DEF EstateNext

(* The invariant holds in every reachable state.                            *)
THEOREM SpecEstateInv == EstateSpec => []EstateInv
BY EstateInitInv, EstateStepInv, PTL DEF EstateSpec

(* Sites, pointers and lists keep their shape.                              *)
THEOREM SpecEstateTypeOK == EstateSpec => []EstateTypeOK
<1>1. EstateInv => EstateTypeOK
  BY DEF EstateInv
<1> QED
  BY <1>1, SpecEstateInv, PTL

(* Nothing points to a multi that was taken down, and one that stands lists *)
(* exactly what points to it.                                               *)
THEOREM SpecInsideAgrees == EstateSpec => []InsideAgrees
<1>1. EstateInv => InsideAgrees
  BY DEF EstateInv, Listed, InsideAgrees
<1> QED
  BY <1>1, SpecEstateInv, PTL

-----------------------------------------------------------------------------
(* Effects.  That none of a kind runs twice is inductive as it stands.     *)
EffectInv == EffectTypeOK /\ OneOfAKind

LEMMA EffectInitInv == EffectInit => EffectInv
BY DEF EffectInit, EffectInv, EffectTypeOK, OneOfAKind, On, Running

LEMMA RunningEffect ==
  ASSUME EffectTypeOK, NEW s \in Slots, Running(s)
  PROVE  /\ tempEffects[s].num \in Numbers /\ tempEffects[s].dest \in Targets
         /\ tempEffects[s].more \in Int \X Int
BY DEF EffectTypeOK, Running, EffectRecords

(* The tables give whole numbers for whole numbers.                         *)
LEMMA TableTypes ==
  ASSUME NEW num, NEW more \in Int \X Int
  PROVE  /\ Applied(num, more) \in [Attributes -> Int]
         /\ Undone(num, more) \in [Attributes -> Int]
<1>0. more[1] \in Int /\ more[2] \in Int
  OBVIOUS
<1>1. ASSUME NEW x \in Int, NEW y \in Int, NEW z \in Int
      PROVE  Change(x, y, z) \in [Attributes -> Int]
  BY DEF Change
<1>2. -more[1] \in Int /\ -more[2] \in Int /\ 0 \in Int
  BY <1>0
<1> HIDE DEF Attributes
<1>3. Applied(num, more) \in [Attributes -> Int]
  BY <1>0, <1>1, <1>2 DEF Applied
<1>4. Undone(num, more) \in [Attributes -> Int]
  BY <1>0, <1>1, <1>2 DEF Undone
<1> QED
  BY <1>3, <1>4

LEMMA PlusType ==
  ASSUME NEW f \in [Attributes -> Int], NEW g \in [Attributes -> Int]
  PROVE  Plus(f, g) \in [Attributes -> Int]
BY DEF Plus

LEMMA ClampedType ==
  ASSUME NEW num, NEW m \in Int, NEW own \in [Attributes -> Int]
  PROVE  Clamped(num, More(num, m), own) \in Int \X Int
<1> DEFINE more == More(num, m)
           str  == Base + own["strength2"]
           dex  == Base + own["dexterity"] + own["dexterity2"]
<1>1. more \in Int \X Int /\ more[1] \in Int /\ more[2] \in Int
  BY DEF More
<1>2. str \in Int /\ dex \in Int
  BY EffectAssumption DEF Attributes
<1> HIDE DEF more, str, dex
<1>3. \A x, y \in Int : AtMost(x, y) \in Int
  BY DEF AtMost
<1>4. Clamped(num, more, own) =
        CASE num = 3  -> <<AtMost(more[1], dex), 0>>
          [] num = 5  -> <<AtMost(more[1], str), 0>>
          [] num = 11 -> <<AtMost(more[1], str), AtMost(more[2], dex)>>
          [] OTHER    -> more
  BY DEF Clamped, str, dex
<1> QED
  BY <1>1, <1>2, <1>3, <1>4 DEF more

(* What is left of a character when an older effect is taken off it, and    *)
(* what a new one then takes.                                               *)
LEMMA ReversedType ==
  ASSUME EffectTypeOK, NEW c \in Targets, NEW num
  PROVE  Reversed(c, Older(c, num)) \in [Attributes -> Int]
<1> DEFINE old == Older(c, num)
           own == Reversed(c, old)
<1>1. attributes[c] \in [Attributes -> Int]
  BY DEF EffectTypeOK
<1>2. ASSUME old # {}
      PROVE  \E s2 \in Slots : Running(s2) /\
               own = Plus(attributes[c],
                          Undone(tempEffects[s2].num, tempEffects[s2].more))
  <2> DEFINE s2 == CHOOSE s2 \in old : TRUE
  <2>1. s2 \in Slots /\ Running(s2)
    BY <1>2 DEF Older, On
  <2> QED
    BY <1>2, <2>1 DEF Reversed
<1>3. ASSUME old = {} PROVE own \in [Attributes -> Int]
  BY <1>1, <1>3 DEF Reversed
<1>4. ASSUME old # {} PROVE own \in [Attributes -> Int]
  <2> HIDE DEF own, old
  <2> QED
    BY <1>1, <1>2, <1>4, RunningEffect, TableTypes, PlusType
<1> QED
  BY <1>3, <1>4

(* A new effect of a number that replaces takes every older one of its      *)
(* number and character away, and nothing else becomes an effect.           *)
LEMMA TempEffectInv ==
  ASSUME EffectInv, NEW c \in Targets, NEW num \in Numbers,
         NEW m \in 0 .. MaxMore, TempEffect(c, num, m)
  PROVE  EffectInv'
<1> DEFINE old  == Older(c, num)
           own  == Reversed(c, old)
           more == Clamped(num, More(num, m), own)
           e    == [num |-> num, dest |-> c, more |-> more]
<1>1. PICK s \in Slots :
        /\ tempEffects' = [t \in Slots |->
             IF t = s THEN e ELSE IF t \in old THEN NoEffect ELSE tempEffects[t]]
        /\ attributes' = [attributes EXCEPT ![c] = Plus(own, Applied(num, more))]
  BY DEF TempEffect
<1>2. /\ c \notin gone /\ flags' = [flags EXCEPT ![c] = @ \cup Sets(num)]
      /\ UNCHANGED gone
  BY DEF TempEffect
<1>3. own \in [Attributes -> Int]
  BY ReversedType DEF EffectInv
<1>4. m \in Int
  BY EffectAssumption
<1> HIDE DEF own
<1>5. more \in Int \X Int
  BY <1>3, <1>4, ClampedType
<1> HIDE DEF more
<1>6. Plus(own, Applied(num, more)) \in [Attributes -> Int]
  BY <1>3, <1>5, TableTypes, PlusType
<1>7. /\ e \in EffectRecords
      /\ e.num = num /\ e.dest = c
  BY <1>5 DEF EffectRecords
<1> HIDE DEF e
<1>8. EffectTypeOK'
  <2>1. tempEffects' \in [Slots -> {NoEffect} \cup EffectRecords]
    BY <1>1, <1>7 DEF EffectInv, EffectTypeOK
  <2>2. attributes' \in [Targets -> [Attributes -> Int]]
    BY <1>1, <1>6 DEF EffectInv, EffectTypeOK
  <2>3. flags' \in [Targets -> SUBSET Flags]
    BY <1>2 DEF EffectInv, EffectTypeOK, Sets, Flags
  <2> QED
    BY <1>2, <2>1, <2>2, <2>3 DEF EffectInv, EffectTypeOK
<1>9. ASSUME NEW t \in Slots, t # s, tempEffects'[t] # NoEffect
      PROVE  t \notin old /\ tempEffects'[t] = tempEffects[t] /\ Running(t)
  BY <1>1, <1>9 DEF Running
<1>10. tempEffects'[s] = e
  BY <1>1
<1>11. ASSUME NEW d \in Targets, NEW n \in Replaced, NEW t \in Slots, NEW u \in Slots,
              t \in On(d, n)', u \in On(d, n)'
       PROVE  t = u
  <2>1. /\ tempEffects'[t] # NoEffect /\ tempEffects'[u] # NoEffect
        /\ tempEffects'[t].num = n /\ tempEffects'[t].dest = d
        /\ tempEffects'[u].num = n /\ tempEffects'[u].dest = d
    BY <1>11 DEF On, Running
  <2>2. ASSUME NEW v \in Slots, v # s, tempEffects'[v] # NoEffect,
               tempEffects'[v].num = n, tempEffects'[v].dest = d
        PROVE  v \in On(d, n) /\ ~(n = num /\ d = c)
    <3>1. v \notin old /\ v \in On(d, n)
      BY <1>9, <2>2 DEF On
    <3> QED
      BY <3>1 DEF Older
  <2>3. CASE t # s /\ u # s
    BY <2>1, <2>2, <2>3 DEF EffectInv, OneOfAKind
  <2>4. CASE t = s \/ u = s
    BY <1>7, <1>10, <2>1, <2>2, <2>4
  <2> QED
    BY <2>3, <2>4
<1>12. ASSUME NEW t \in Slots, tempEffects'[t] # NoEffect
       PROVE  tempEffects'[t].dest \notin gone'
  BY <1>2, <1>7, <1>9, <1>10, <1>12 DEF EffectInv, OneOfAKind
<1>13. OneOfAKind'
  BY <1>11, <1>12 DEF OneOfAKind, On, Running
<1> QED
  BY <1>8, <1>13 DEF EffectInv

(* Steps after which no slot has an effect it did not have.                 *)
LEMMA FewerInv ==
  ASSUME EffectInv, EffectTypeOK', gone \subseteq gone',
         \A s \in Slots : tempEffects'[s] # NoEffect =>
           tempEffects'[s] = tempEffects[s] /\ tempEffects[s].dest \notin gone'
  PROVE  EffectInv'
<1>1. ASSUME NEW c \in Targets, NEW num \in Replaced, NEW t \in On(c, num)'
      PROVE  t \in On(c, num)
  BY <1>1 DEF On, Running
<1>2. OneOfAKind'
  <2>1. \A s \in Slots : Running(s)' => tempEffects'[s].dest \notin gone'
    BY DEF Running
  <2> QED
    BY <1>1, <2>1 DEF OneOfAKind, EffectInv
<1> QED
  BY <1>2 DEF EffectInv

LEMMA ExpireInv ==
  ASSUME EffectInv, NEW s \in Slots, Expire(s)
  PROVE  EffectInv'
<1> DEFINE c == tempEffects[s].dest
           undone == Undone(tempEffects[s].num, tempEffects[s].more)
           cleared == Clears(tempEffects[s].num)
<1>1. /\ attributes' = [attributes EXCEPT ![c] = Plus(@, undone)]
      /\ flags' = [flags EXCEPT ![c] = @ \ cleared]
      /\ tempEffects' = [tempEffects EXCEPT ![s] = NoEffect]
      /\ UNCHANGED gone
  BY DEF Expire
<1>2. c \in Targets /\ undone \in [Attributes -> Int]
  BY RunningEffect, TableTypes DEF Expire, EffectInv
<1> HIDE DEF c, undone, cleared
<1>3. Plus(attributes[c], undone) \in [Attributes -> Int]
  BY <1>2, PlusType DEF EffectInv, EffectTypeOK
<1>4. EffectTypeOK'
  BY <1>1, <1>2, <1>3 DEF EffectInv, EffectTypeOK
<1>5. ASSUME NEW t \in Slots, tempEffects'[t] # NoEffect
      PROVE  tempEffects'[t] = tempEffects[t] /\ tempEffects[t].dest \notin gone'
  BY <1>1, <1>5 DEF EffectInv, EffectTypeOK, OneOfAKind, Running
<1> QED
  BY <1>1, <1>4, <1>5, FewerInv

LEMMA DeleteTargetInv ==
  ASSUME EffectInv, NEW c \in Targets, DeleteTarget(c)
  PROVE  EffectInv'
<1>1. /\ gone' = gone \cup {c} /\ UNCHANGED <<attributes, flags>>
      /\ tempEffects' = [s \in Slots |->
           IF Running(s) /\ tempEffects[s].dest = c THEN NoEffect ELSE tempEffects[s]]
  BY DEF DeleteTarget
<1>2. EffectTypeOK'
  BY <1>1 DEF EffectInv, EffectTypeOK
<1>3. ASSUME NEW t \in Slots, tempEffects'[t] # NoEffect
      PROVE  tempEffects'[t] = tempEffects[t] /\ tempEffects[t].dest \notin gone'
  BY <1>1, <1>3 DEF EffectInv, OneOfAKind, Running
<1> QED
  BY <1>1, <1>2, <1>3, FewerInv

LEMMA CopyInv ==
  ASSUME EffectInv, NEW c \in Targets, NEW d \in Targets, Copy(c, d)
  PROVE  EffectInv'
<1>1. /\ attributes' = [attributes EXCEPT ![d] = attributes[c]]
      /\ UNCHANGED <<tempEffects, flags, gone>>
  BY DEF Copy
<1>2. EffectTypeOK'
  BY <1>1 DEF EffectInv, EffectTypeOK
<1>3. ASSUME NEW t \in Slots, tempEffects'[t] # NoEffect
      PROVE  tempEffects'[t] = tempEffects[t] /\ tempEffects[t].dest \notin gone'
  BY <1>1, <1>3 DEF EffectInv, OneOfAKind, Running
<1> QED
  BY <1>1, <1>2, <1>3, FewerInv

LEMMA EffectStepInv == EffectInv /\ [EffectNext]_effectVars => EffectInv'
<1> SUFFICES ASSUME EffectInv, [EffectNext]_effectVars PROVE EffectInv'
  OBVIOUS
<1>1. CASE \E c \in Targets, num \in Numbers, m \in 0 .. MaxMore : TempEffect(c, num, m)
  BY <1>1, TempEffectInv
<1>2. CASE \E s \in Slots : Expire(s)
  BY <1>2, ExpireInv
<1>3. CASE \E c \in Targets : DeleteTarget(c)
  BY <1>3, DeleteTargetInv
<1>4. CASE \E c, d \in Targets : Copy(c, d)
  BY <1>4, CopyInv
<1>5. CASE UNCHANGED effectVars
  BY <1>5 DEF effectVars, EffectInv, EffectTypeOK, OneOfAKind, On, Running
<1> QED
  BY <1>1, <1>2, <1>3, <1>4, <1>5 DEF EffectNext

(* The invariant holds in every reachable state.                            *)
THEOREM SpecEffectInv == EffectSpec => []EffectInv
BY EffectInitInv, EffectStepInv, PTL DEF EffectSpec

(* Slots, attributes and flags keep their shape.                            *)
THEOREM SpecEffectTypeOK == EffectSpec => []EffectTypeOK
<1>1. EffectInv => EffectTypeOK
  BY DEF EffectInv
<1> QED
  BY <1>1, SpecEffectInv, PTL

(* The effects that replace one another run once on a character at most,    *)
(* and none runs on a character that is deleted.                            *)
THEOREM SpecOneOfAKind == EffectSpec => []OneOfAKind
<1>1. EffectInv => OneOfAKind
  BY DEF EffectInv
<1> QED
  BY <1>1, SpecEffectInv, PTL

(* Nothing is left over.  The numbers for which what ends an effect takes   *)
(* back what began it, and those that do anything to attributes.            *)
Agreed == {1, 2, 3, 5, 8}
Summed == {3, 5, 6, 8, 10, 11}

LEMMA UndoneIsMinus ==
  ASSUME NEW num \in Agreed, NEW more \in Int \X Int, NEW a \in Attributes
  PROVE  Undone(num, more)[a] = -Applied(num, more)[a]
<1>1. more[1] \in Int /\ more[2] \in Int
  OBVIOUS
<1>2. \A x, y, z \in Int : Change(x, y, z)[a] =
        CASE a = "strength2" -> x [] a = "dexterity2" -> y [] OTHER -> z
  BY DEF Change
<1>3. -more[1] \in Int /\ 0 \in Int
  BY <1>1
<1>4. CASE num = 3
  <2>1. /\ Applied(num, more) = Change(0, -more[1], 0)
        /\ Undone(num, more) = Change(0, more[1], 0)
    BY <1>4 DEF Applied, Undone
  <2> QED
    BY <1>1, <1>2, <1>3, <2>1
<1>5. CASE num = 5
  <2>1. /\ Applied(num, more) = Change(-more[1], 0, 0)
        /\ Undone(num, more) = Change(more[1], 0, 0)
    BY <1>5 DEF Applied, Undone
  <2> QED
    BY <1>1, <1>2, <1>3, <2>1
<1>6. CASE num = 8
  <2>1. /\ Applied(num, more) = Change(more[1], 0, 0)
        /\ Undone(num, more) = Change(-more[1], 0, 0)
    BY <1>6 DEF Applied, Undone
  <2> QED
    BY <1>1, <1>2, <1>3, <2>1
<1>7. CASE num \in {1, 2}
  <2>1. /\ Applied(num, more) = Change(0, 0, 0)
        /\ Undone(num, more) = Change(0, 0, 0)
    BY <1>7 DEF Applied, Undone
  <2> QED
    BY <1>2, <1>3, <2>1
<1> QED
  BY <1>4, <1>5, <1>6, <1>7 DEF Agreed

LEMMA NothingApplied ==
  ASSUME NEW num \in Agreed \ Summed, NEW more, NEW a \in Attributes
  PROVE  Applied(num, more)[a] = 0
<1>1. Applied(num, more) = Change(0, 0, 0)
  BY DEF Applied, Agreed, Summed
<1> QED
  BY <1>1 DEF Change

LEMMA ShareType ==
  ASSUME EffectTypeOK, NEW c \in Targets, NEW n
  PROVE  Share(c, n) \in [Attributes -> Int]
<1>1. CASE On(c, n) = {}
  <2>1. Change(0, 0, 0) \in [Attributes -> Int]
    BY DEF Change
  <2> QED
    BY <1>1, <2>1 DEF Share
<1>2. CASE On(c, n) # {}
  <2> DEFINE s == CHOOSE s \in On(c, n) : TRUE
  <2>1. s \in Slots /\ Running(s) /\ tempEffects[s].num = n
    BY <1>2 DEF On
  <2>2. Share(c, n) = Applied(n, tempEffects[s].more)
    BY <1>2 DEF Share
  <2> HIDE DEF s
  <2> QED
    BY <2>1, <2>2, RunningEffect, TableTypes
<1> QED
  BY <1>1, <1>2

(* Only one effect of a summed number runs on a character, so its share is  *)
(* what that one does.                                                      *)
LEMMA ShareIsItsEffect ==
  ASSUME EffectInv, NEW c \in Targets, NEW n \in Summed, NEW s \in On(c, n)
  PROVE  Share(c, n) = Applied(n, tempEffects[s].more)
<1> DEFINE t == CHOOSE t \in On(c, n) : TRUE
<1>1. t \in On(c, n) /\ n \in Replaced
  BY DEF Summed, Replaced
<1>2. Share(c, n) = Applied(n, tempEffects[t].more)
  BY DEF Share
<1> HIDE DEF t
<1>3. t = s
  BY <1>1 DEF EffectInv, OneOfAKind
<1> QED
  BY <1>2, <1>3

LEMMA ShareUnchanged ==
  ASSUME NEW c, NEW n, On(c, n)' = On(c, n),
         \A s \in On(c, n) : tempEffects'[s] = tempEffects[s]
  PROVE  Share(c, n)' = Share(c, n)
<1>1. CASE On(c, n) = {}
  BY <1>1 DEF Share
<1>2. CASE On(c, n) # {}
  <2> DEFINE s == CHOOSE s \in On(c, n) : TRUE
  <2>1. s \in On(c, n)
    BY <1>2
  <2>2. /\ Share(c, n) = Applied(n, tempEffects[s].more)
        /\ Share(c, n)' = Applied(n, tempEffects'[s].more)
    BY <1>2 DEF Share, Applied
  <2> QED
    BY <2>1, <2>2
<1> QED
  BY <1>1, <1>2

LEMMA TogetherIsSum ==
  ASSUME EffectTypeOK, NEW c \in Targets
  PROVE  /\ Together(c) \in [Attributes -> Int]
         /\ \A a \in Attributes : Together(c)[a] =
              Share(c, 3)[a] + (Share(c, 5)[a] + (Share(c, 6)[a] +
                (Share(c, 8)[a] + (Share(c, 10)[a] + Share(c, 11)[a]))))
<1>1. \A n : Share(c, n) \in [Attributes -> Int]
  BY ShareType
<1>2. \A f, g \in [Attributes -> Int] :
        Plus(f, g) \in [Attributes -> Int]
        /\ \A a \in Attributes : Plus(f, g)[a] = f[a] + g[a]
  BY DEF Plus
<1> DEFINE s10 == Plus(Share(c, 10), Share(c, 11))
           s8  == Plus(Share(c, 8), s10)
           s6  == Plus(Share(c, 6), s8)
           s5  == Plus(Share(c, 5), s6)
           s3  == Plus(Share(c, 3), s5)
<1>3. s10 \in [Attributes -> Int] /\ \A a \in Attributes :
        s10[a] = Share(c, 10)[a] + Share(c, 11)[a]
  BY <1>1, <1>2
<1>4. s8 \in [Attributes -> Int] /\ \A a \in Attributes :
        s8[a] = Share(c, 8)[a] + s10[a]
  <2> HIDE DEF s10
  <2> QED
    BY <1>1, <1>2, <1>3
<1>5. s6 \in [Attributes -> Int] /\ \A a \in Attributes :
        s6[a] = Share(c, 6)[a] + s8[a]
  <2> HIDE DEF s8
  <2> QED
    BY <1>1, <1>2, <1>4
<1>6. s5 \in [Attributes -> Int] /\ \A a \in Attributes :
        s5[a] = Share(c, 5)[a] + s6[a]
  <2> HIDE DEF s6
  <2> QED
    BY <1>1, <1>2, <1>5
<1>7. s3 \in [Attributes -> Int] /\ \A a \in Attributes :
        s3[a] = Share(c, 3)[a] + s5[a]
  <2> HIDE DEF s5
  <2> QED
    BY <1>1, <1>2, <1>6
<1>8. CASE UnderEffect(c)
  <2>1. Together(c) = s3
    BY <1>8 DEF Together
  <2> HIDE DEF s10, s8, s6, s5, s3
  <2> QED
    BY <1>3, <1>4, <1>5, <1>6, <1>7, <2>1
<1>9. CASE ~UnderEffect(c)
  <2>1. \A n : Share(c, n) = Change(0, 0, 0)
    BY <1>9 DEF UnderEffect, Share, On
  <2>2. \A a \in Attributes : Change(0, 0, 0)[a] = 0
    BY DEF Change
  <2>3. Change(0, 0, 0) \in [Attributes -> Int]
    BY DEF Change
  <2>4. Together(c) = Change(0, 0, 0)
    BY <1>9 DEF Together
  <2> HIDE DEF s10, s8, s6, s5, s3
  <2> QED
    BY <2>1, <2>2, <2>3, <2>4
<1> QED
  BY <1>8, <1>9

(* The same two facts, for the state after a step.                          *)
SharesSum == EffectTypeOK => \A c \in Targets :
  /\ \A n : Share(c, n) \in [Attributes -> Int]
  /\ Together(c) \in [Attributes -> Int]
  /\ \A a \in Attributes : Together(c)[a] =
       Share(c, 3)[a] + (Share(c, 5)[a] + (Share(c, 6)[a] +
         (Share(c, 8)[a] + (Share(c, 10)[a] + Share(c, 11)[a]))))

LEMMA SharesSumNow == SharesSum
BY ShareType, TogetherIsSum DEF SharesSum

LEMMA SharesSumNext == SharesSum'
BY SharesSumNow, PTL

(* When only the share of one number changes, by d, so does the sum.        *)
LEMMA TogetherShifts ==
  ASSUME EffectTypeOK, EffectTypeOK', NEW c \in Targets, NEW num, NEW d,
         \A n \in Summed \ {num} : Share(c, n)' = Share(c, n),
         \A a \in Attributes :
           d[a] \in Int /\ IF num \in Summed
                           THEN Share(c, num)'[a] = Share(c, num)[a] + d[a]
                           ELSE d[a] = 0,
         NEW a \in Attributes
  PROVE  Together(c)'[a] = Together(c)[a] + d[a]
<1> DEFINE f(n) == Share(c, n)[a]
           g(n) == Share(c, n)'[a]
<1>1. \A n : f(n) \in Int
  BY ShareType
<1>2. \A n : g(n) \in Int
  BY SharesSumNext DEF SharesSum
<1>3. Together(c)[a] = f(3) + (f(5) + (f(6) + (f(8) + (f(10) + f(11)))))
  BY TogetherIsSum
<1>4. Together(c)'[a] = g(3) + (g(5) + (g(6) + (g(8) + (g(10) + g(11)))))
  BY SharesSumNext DEF SharesSum
<1>5. \A n \in Summed \ {num} : g(n) = f(n)
  OBVIOUS
<1>6. d[a] \in Int /\ IF num \in Summed THEN g(num) = f(num) + d[a] ELSE d[a] = 0
  OBVIOUS
<1> HIDE DEF f, g
<1> QED
  BY ONLY <1>1, <1>2, <1>3, <1>4, <1>5, <1>6 DEF Summed

(* A character that no step names keeps all that it has.                    *)
LEMMA OthersUndone ==
  ASSUME EffectTypeOK, NEW c \in Targets, TakenBack(c),
         attributes'[c] = attributes[c], flags'[c] = flags[c],
         \A s \in Slots : \/ tempEffects'[s] = tempEffects[s]
                          \/ /\ Running(s) => tempEffects[s].dest # c
                             /\ Running(s)' => tempEffects'[s].dest # c
  PROVE  TakenBack(c)'
<1>1. ASSUME NEW n PROVE Share(c, n)' = Share(c, n)
  <2>1. \A s \in Slots : s \in On(c, n)' <=> s \in On(c, n)
    BY DEF On, Running
  <2>2. On(c, n)' = On(c, n)
    BY <2>1 DEF On
  <2>3. \A s \in On(c, n) : tempEffects'[s] = tempEffects[s]
    BY DEF On
  <2> QED
    BY <2>2, <2>3, ShareUnchanged
<1>2. Together(c)' = Together(c)
  <2>1. UnderEffect(c)' <=> UnderEffect(c)
    BY DEF UnderEffect, Running
  <2>2. Change(0, 0, 0)' = Change(0, 0, 0)
    BY DEF Change
  <2> QED
    BY <1>1, <2>1, <2>2 DEF Together, Plus
<1>3. ASSUME NEW f \in flags'[c]
      PROVE  \E s \in Slots : Running(s)' /\ tempEffects'[s].dest = c
                               /\ f \in Clears(tempEffects'[s].num)
  <2>1. PICK s \in Slots : Running(s) /\ tempEffects[s].dest = c
                            /\ f \in Clears(tempEffects[s].num)
    BY <1>3 DEF TakenBack
  <2> QED
    BY <2>1 DEF Running
<1> QED
  BY <1>2, <1>3 DEF TakenBack

LEMMA DeleteTargetUndone ==
  ASSUME EffectInv, EffectInv', NEW k \in Targets, DeleteTarget(k),
         NEW c \in Targets \ gone', TakenBack(c)
  PROVE  TakenBack(c)'
<1>1. /\ gone' = gone \cup {k} /\ UNCHANGED <<attributes, flags>>
      /\ tempEffects' = [s \in Slots |->
           IF Running(s) /\ tempEffects[s].dest = k THEN NoEffect ELSE tempEffects[s]]
  BY DEF DeleteTarget
<1>2. c # k
  BY <1>1
<1>3. \A s \in Slots : \/ tempEffects'[s] = tempEffects[s]
                       \/ /\ Running(s) => tempEffects[s].dest # c
                          /\ Running(s)' => tempEffects'[s].dest # c
  BY <1>1, <1>2 DEF Running
<1> QED
  BY <1>1, <1>3, OthersUndone DEF EffectInv

LEMMA CopyUndone ==
  ASSUME EffectInv, NEW k \in Targets, NEW d \in Targets, Copy(k, d),
         NEW c \in Targets, c # d, TakenBack(c)
  PROVE  TakenBack(c)'
<1>1. /\ attributes' = [attributes EXCEPT ![d] = attributes[k]]
      /\ UNCHANGED <<tempEffects, flags, gone>>
  BY DEF Copy
<1>2. attributes'[c] = attributes[c] /\ flags'[c] = flags[c]
  BY <1>1 DEF EffectInv, EffectTypeOK
<1> QED
  BY <1>1, <1>2, OthersUndone DEF EffectInv

LEMMA ExpireUndone ==
  ASSUME Numbers \subseteq Agreed, EffectInv, EffectInv', NEW s \in Slots, Expire(s),
         NEW k, NEW num, NEW more,
         k = tempEffects[s].dest, num = tempEffects[s].num, more = tempEffects[s].more,
         NEW c \in Targets, TakenBack(c)
  PROVE  TakenBack(c)'
<1> DEFINE d == Undone(num, more)
<1>1. /\ attributes' = [attributes EXCEPT ![k] = Plus(@, d)]
      /\ flags' = [flags EXCEPT ![k] = @ \ Clears(num)]
      /\ tempEffects' = [tempEffects EXCEPT ![s] = NoEffect]
      /\ UNCHANGED gone
  BY DEF Expire
<1>2. /\ Running(s) /\ num \in Agreed /\ k \in Targets \ gone
      /\ more \in Int \X Int
  BY RunningEffect DEF Expire, EffectInv, OneOfAKind
<1>3. EffectTypeOK /\ EffectTypeOK'
  BY DEF EffectInv
<1>4. d \in [Attributes -> Int] /\ Applied(num, more) \in [Attributes -> Int]
  BY <1>2, TableTypes
<1>5. \A t \in Slots : t # s => tempEffects'[t] = tempEffects[t]
  BY <1>1
<1>6. ~Running(s)'
  BY <1>1, <1>3 DEF EffectTypeOK, Running
<1>7. \A n \in Summed \ {num} : Share(k, n)' = Share(k, n)
  <2> SUFFICES ASSUME NEW n \in Summed \ {num} PROVE Share(k, n)' = Share(k, n)
    OBVIOUS
  <2>1. \A t \in Slots : t \in On(k, n)' <=> t \in On(k, n)
    BY <1>5, <1>6 DEF On, Running
  <2>2. On(k, n)' = On(k, n)
    BY <2>1 DEF On
  <2>3. \A t \in On(k, n) : tempEffects'[t] = tempEffects[t]
    BY <1>5 DEF On
  <2> QED
    BY <2>2, <2>3, ShareUnchanged
<1>8. ASSUME num \in Summed, NEW a \in Attributes
      PROVE  Share(k, num)'[a] = Share(k, num)[a] + d[a]
  <2>1. s \in On(k, num)
    BY <1>2 DEF On
  <2>2. Share(k, num) = Applied(num, more)
    BY <1>2, <1>3, <1>8, <2>1, ShareIsItsEffect
  <2>3. ASSUME NEW t \in Slots, t \in On(k, num)' PROVE FALSE
    <3>1. t # s /\ t \in On(k, num)
      BY <1>5, <1>6, <2>3 DEF On, Running
    <3> QED
      BY <1>2, <1>3, <1>8, <2>1, <3>1 DEF EffectInv, OneOfAKind, Summed, Replaced
  <2>4. On(k, num)' = {}
    BY <2>3 DEF On
  <2>5. Share(k, num)' = Change(0, 0, 0)
    BY <2>4 DEF Share, Change
  <2>6. Share(k, num)'[a] = 0
    BY <2>5 DEF Change
  <2>7. d[a] = -Applied(num, more)[a]
    BY <1>2, UndoneIsMinus
  <2> HIDE DEF d
  <2> QED
    BY <1>4, <2>2, <2>6, <2>7
<1>9. ASSUME num \notin Summed, NEW a \in Attributes
      PROVE  d[a] = 0
  <2>1. d[a] = -Applied(num, more)[a]
    BY <1>2, UndoneIsMinus
  <2>2. Applied(num, more)[a] = 0
    BY <1>2, <1>9, NothingApplied
  <2> HIDE DEF d
  <2>3. d[a] \in Int /\ d[a] + Applied(num, more)[a] = 0
    BY <1>4, <2>1
  <2> QED
    BY <2>2, <2>3
<1> HIDE DEF d
<1>10. \A a \in Attributes : Together(k)'[a] = Together(k)[a] + d[a]
  BY <1>2, <1>3, <1>4, <1>7, <1>8, <1>9, TogetherShifts
<1>11. ASSUME c = k PROVE attributes'[k] = Together(k)'
  <2>1. attributes'[k] = Plus(attributes[k], d) /\ attributes[k] = Together(k)
    BY <1>1, <1>2, <1>3, <1>11 DEF EffectTypeOK, TakenBack
  <2>2. Together(k)' \in [Attributes -> Int]
    BY <1>2, <1>3, SharesSumNext DEF SharesSum
  <2>3. attributes'[k] = [a \in Attributes |-> Together(k)[a] + d[a]]
    BY <2>1 DEF Plus
  <2>4. Together(k)' = [a \in Attributes |-> Together(k)[a] + d[a]]
    BY <1>10, <2>2
  <2> QED
    BY <2>3, <2>4
<1>12. ASSUME c = k, NEW f \in flags'[k]
       PROVE  \E t \in Slots : Running(t)' /\ tempEffects'[t].dest = k
                                /\ f \in Clears(tempEffects'[t].num)
  <2>1. f \in flags[k] /\ f \notin Clears(num)
    BY <1>1, <1>2, <1>3, <1>12 DEF EffectTypeOK
  <2>2. PICK t \in Slots : Running(t) /\ tempEffects[t].dest = k
                            /\ f \in Clears(tempEffects[t].num)
    BY <1>12, <2>1 DEF TakenBack
  <2>3. t # s
    BY <2>1, <2>2
  <2> QED
    BY <1>5, <2>2, <2>3 DEF Running
<1>13. ASSUME c # k PROVE TakenBack(c)'
  <2>1. \A t \in Slots : \/ tempEffects'[t] = tempEffects[t]
                         \/ /\ Running(t) => tempEffects[t].dest # c
                            /\ Running(t)' => tempEffects'[t].dest # c
    BY <1>5, <1>6, <1>13
  <2>2. attributes'[c] = attributes[c] /\ flags'[c] = flags[c]
    BY <1>1, <1>3, <1>13 DEF EffectTypeOK
  <2> QED
    BY <1>3, <2>1, <2>2, OthersUndone
<1> QED
  BY <1>11, <1>12, <1>13 DEF TakenBack

(* The share of a number is its effect's, also after a step.                *)
SharesKnown == EffectInv => \A c \in Targets, n \in Summed : \A s \in On(c, n) :
  Share(c, n) = Applied(n, tempEffects[s].more)

LEMMA SharesKnownNow == SharesKnown
BY ShareIsItsEffect DEF SharesKnown

LEMMA SharesKnownNext == SharesKnown'
BY SharesKnownNow, PTL

(* What a new effect does is added where the one it replaces was taken off, *)
(* so the share of its number is what is new, and the rest as before.       *)
LEMMA TempEffectUndone ==
  ASSUME Numbers \subseteq Agreed, EffectInv, EffectInv', NEW k \in Targets,
         NEW num \in Numbers, NEW m \in 0 .. MaxMore, TempEffect(k, num, m),
         NEW old, NEW own, NEW more,
         old = Older(k, num), own = Reversed(k, old),
         more = Clamped(num, More(num, m), own),
         NEW b \in Targets, TakenBack(b)
  PROVE  TakenBack(b)'
<1>1. old = Older(k, num) /\ own = Reversed(k, old) /\ more = Clamped(num, More(num, m), own)
  OBVIOUS
<1>2. PICK s \in Slots :
        /\ s \in old \/ ~Running(s)
        /\ tempEffects' = [t \in Slots |->
             IF t = s THEN [num |-> num, dest |-> k, more |-> more]
             ELSE IF t \in old THEN NoEffect ELSE tempEffects[t]]
        /\ attributes' = [attributes EXCEPT ![k] = Plus(own, Applied(num, more))]
  BY <1>1 DEF TempEffect
<1>3. /\ k \in Targets \ gone /\ num \in Agreed
      /\ flags' = [flags EXCEPT ![k] = @ \cup Sets(num)]
      /\ gone' = gone
  BY DEF TempEffect
<1>4. EffectTypeOK /\ EffectTypeOK'
  BY DEF EffectInv
<1>5. \A t \in Slots : t # s /\ t \notin old => tempEffects'[t] = tempEffects[t]
  BY <1>2
<1>50. [num |-> num, dest |-> k, more |-> more] \in EffectRecords
  <2>1. own \in [Attributes -> Int] /\ m \in Int
    BY <1>1, <1>4, ReversedType, EffectAssumption
  <2>2. more \in Int \X Int
    BY <1>1, <2>1, ClampedType
  <2> QED
    BY <2>2 DEF EffectRecords
<1>6. /\ Running(s)' /\ tempEffects'[s].num = num /\ tempEffects'[s].dest = k
      /\ tempEffects'[s].more = more
  <2>1. tempEffects'[s] = [num |-> num, dest |-> k, more |-> more]
    BY <1>2
  <2>2. tempEffects'[s] # NoEffect
    BY <1>50, <2>1, EffectAssumption
  <2> QED
    BY <2>1, <2>2 DEF Running
<1>7. \A t \in old : t # s => ~Running(t)'
  BY <1>1, <1>2 DEF Running, Older, On
<1>8. old \subseteq On(k, num) /\ (num \in Summed => old = On(k, num))
  BY <1>1 DEF Older, Summed, Replaced
<1>9. ASSUME NEW c \in Targets, NEW n, c # k \/ n # num
      PROVE  Share(c, n)' = Share(c, n)
  <2>1. \A t \in Slots : t \in On(c, n)' <=> t \in On(c, n)
    <3> SUFFICES ASSUME NEW t \in Slots PROVE t \in On(c, n)' <=> t \in On(c, n)
      OBVIOUS
    <3>1. CASE t = s
      <4>1. t \notin On(c, n)'
        BY <1>6, <1>9, <3>1 DEF On
      <4>2. t \notin On(c, n)
        BY <1>2, <1>8, <1>9, <3>1 DEF On
      <4> QED
        BY <4>1, <4>2
    <3>2. CASE t # s /\ t \in old
      <4>1. t \notin On(c, n)'
        BY <1>7, <3>2 DEF On
      <4>2. t \notin On(c, n)
        BY <1>8, <1>9, <3>2 DEF On
      <4> QED
        BY <4>1, <4>2
    <3>3. CASE t # s /\ t \notin old
      BY <1>5, <3>3 DEF On, Running
    <3> QED
      BY <3>1, <3>2, <3>3
  <2>2. On(c, n)' = On(c, n)
    BY <2>1 DEF On
  <2>3. \A t \in On(c, n) : tempEffects'[t] = tempEffects[t]
    <3> SUFFICES ASSUME NEW t \in On(c, n) PROVE t # s /\ t \notin old
      BY <1>5 DEF On
    <3> QED
      BY <1>2, <1>8, <1>9 DEF On
  <2> QED
    BY <2>2, <2>3, ShareUnchanged
<1>10. /\ own \in [Attributes -> Int] /\ attributes[k] \in [Attributes -> Int]
       /\ Share(k, num) \in [Attributes -> Int]
  BY <1>1, <1>4, ReversedType, ShareType DEF EffectTypeOK
<1>11. ASSUME num \in Summed, NEW a \in Attributes
       PROVE  own[a] = attributes[k][a] - Share(k, num)[a]
  <2>1. CASE old = {}
    <3>1. own = attributes[k]
      BY <1>1, <2>1 DEF Reversed
    <3>2. Share(k, num) = Change(0, 0, 0)
      BY <1>8, <1>11, <2>1 DEF Share
    <3>3. Share(k, num)[a] = 0
      BY <3>2 DEF Change
    <3> QED
      BY <1>10, <3>1, <3>3
  <2>2. CASE old # {}
    <3> DEFINE t == CHOOSE t \in old : TRUE
               undone == Undone(tempEffects[t].num, tempEffects[t].more)
    <3>1. t \in On(k, num) /\ own = Plus(attributes[k], undone)
      BY <1>1, <1>8, <2>2 DEF Reversed
    <3>2. tempEffects[t].num = num /\ tempEffects[t].more \in Int \X Int
      BY <1>4, <3>1, RunningEffect DEF On
    <3>3. Share(k, num)[a] = Applied(num, tempEffects[t].more)[a]
      BY <1>4, <1>11, <3>1, ShareIsItsEffect
    <3>4. undone[a] = -Applied(num, tempEffects[t].more)[a]
      BY <1>3, <3>2, UndoneIsMinus
    <3>5. own[a] = attributes[k][a] + undone[a]
      BY <3>1 DEF Plus
    <3> HIDE DEF t, undone
    <3> QED
      BY <1>10, <3>3, <3>4, <3>5
  <2> QED
    BY <2>1, <2>2
<1>12. ASSUME num \notin Summed
       PROVE  own = attributes[k]
  BY <1>1, <1>3, <1>12 DEF Older, Agreed, Summed, Replaced, Reversed
<1>13. more \in Int \X Int /\ Applied(num, more) \in [Attributes -> Int]
  <2>1. m \in Int
    BY EffectAssumption
  <2>2. more \in Int \X Int
    BY <1>1, <1>10, <2>1, ClampedType
  <2> QED
    BY <2>2, TableTypes
<1>14. ASSUME num \in Summed
       PROVE  Share(k, num)' = Applied(num, more)
  <2>1. s \in On(k, num)'
    BY <1>6 DEF On
  <2> QED
    BY <1>3, <1>6, <1>14, <2>1, SharesKnownNext DEF SharesKnown
<1> DEFINE d == [a \in Attributes |->
                   own[a] + Applied(num, more)[a] - attributes[k][a]]
<1>15. \A a \in Attributes : d[a] \in Int /\ IF num \in Summed
         THEN Share(k, num)'[a] = Share(k, num)[a] + d[a] ELSE d[a] = 0
  <2> SUFFICES ASSUME NEW a \in Attributes
               PROVE  d[a] \in Int /\ IF num \in Summed
                        THEN Share(k, num)'[a] = Share(k, num)[a] + d[a] ELSE d[a] = 0
    OBVIOUS
  <2>1. d[a] = own[a] + Applied(num, more)[a] - attributes[k][a]
    OBVIOUS
  <2>2. /\ own[a] \in Int /\ Applied(num, more)[a] \in Int
        /\ attributes[k][a] \in Int /\ Share(k, num)[a] \in Int
    BY <1>10, <1>13
  <2> HIDE DEF d
  <2>3. CASE num \in Summed
    <3>1. Share(k, num)'[a] = Applied(num, more)[a]
      BY <1>14, <2>3
    <3> QED
      BY <1>11, <2>1, <2>2, <2>3, <3>1
  <2>4. CASE num \notin Summed
    <3>1. Applied(num, more)[a] = 0 /\ own[a] = attributes[k][a]
      BY <1>3, <1>12, <2>4, NothingApplied
    <3> QED
      BY <2>1, <2>2, <2>4, <3>1
  <2> QED
    BY <2>3, <2>4
<1> HIDE DEF d
<1>16. \A a \in Attributes : Together(k)'[a] = Together(k)[a] + d[a]
  BY <1>3, <1>4, <1>9, <1>15, TogetherShifts
<1>17. ASSUME b = k PROVE attributes'[k] = Together(k)'
  <2>1. attributes'[k] = Plus(own, Applied(num, more)) /\ attributes[k] = Together(k)
    BY <1>2, <1>3, <1>4, <1>17 DEF EffectTypeOK, TakenBack
  <2>2. Together(k)' \in [Attributes -> Int]
    BY <1>3, <1>4, SharesSumNext DEF SharesSum
  <2>3. ASSUME NEW a \in Attributes PROVE Together(k)'[a] = own[a] + Applied(num, more)[a]
    <3>1. d[a] = own[a] + Applied(num, more)[a] - Together(k)[a]
      BY <2>1 DEF d
    <3>2. Together(k)'[a] = Together(k)[a] + d[a]
      BY <1>16
    <3>3. /\ own[a] \in Int /\ Applied(num, more)[a] \in Int /\ Together(k)[a] \in Int
      BY <1>10, <1>13, <2>1
    <3> QED
      BY <3>1, <3>2, <3>3
  <2> QED
    BY <2>1, <2>2, <2>3 DEF Plus
<1>18. ASSUME b = k, NEW f \in flags'[k]
       PROVE  \E t \in Slots : Running(t)' /\ tempEffects'[t].dest = k
                                /\ f \in Clears(tempEffects'[t].num)
  <2>1. CASE f \in Sets(num)
    <3>1. f \in Clears(num)
      BY <1>3, <2>1 DEF Agreed, Sets, Clears
    <3> QED
      BY <1>6, <3>1
  <2>2. CASE f \notin Sets(num)
    <3>1. f \in flags[k]
      BY <1>3, <1>4, <1>18, <2>2 DEF EffectTypeOK
    <3>2. PICK t \in Slots : Running(t) /\ tempEffects[t].dest = k
                              /\ f \in Clears(tempEffects[t].num)
      BY <1>18, <3>1 DEF TakenBack
    <3>3. CASE t = s \/ t \in old
      <4>1. t \in old
        BY <1>2, <3>2, <3>3
      <4>2. tempEffects[t].num = num
        BY <1>8, <4>1 DEF On
      <4> QED
        BY <1>6, <3>2, <4>2
    <3>4. CASE t # s /\ t \notin old
      BY <1>5, <3>2, <3>4 DEF Running
    <3> QED
      BY <3>3, <3>4
  <2> QED
    BY <2>1, <2>2
<1>19. ASSUME b # k PROVE TakenBack(b)'
  <2>1. ASSUME NEW t \in Slots
        PROVE  \/ tempEffects'[t] = tempEffects[t]
               \/ /\ Running(t) => tempEffects[t].dest # b
                  /\ Running(t)' => tempEffects'[t].dest # b
    <3>1. CASE t = s
      BY <1>2, <1>6, <1>8, <1>19, <3>1 DEF On
    <3>2. CASE t # s /\ t \in old
      BY <1>7, <1>8, <1>19, <3>2 DEF On
    <3>3. CASE t # s /\ t \notin old
      BY <1>5, <3>3
    <3> QED
      BY <3>1, <3>2, <3>3
  <2>2. attributes'[b] = attributes[b] /\ flags'[b] = flags[b]
    BY <1>2, <1>3, <1>4, <1>19 DEF EffectTypeOK
  <2> QED
    BY <1>4, <2>1, <2>2, OthersUndone
<1> QED
  BY <1>17, <1>18, <1>19 DEF TakenBack

LEMMA UndoneStep ==
  ASSUME Numbers \subseteq Agreed, EffectInv, EffectInv', [EffectNext]_effectVars,
         NEW c \in Targets \ gone', TakenBack(c)
  PROVE  TakenBack(c)' \/ \E d \in Targets : Copy(d, c)
<1>1. CASE \E k \in Targets, num \in Numbers, m \in 0 .. MaxMore : TempEffect(k, num, m)
  BY <1>1, TempEffectUndone
<1>2. CASE \E s \in Slots : Expire(s)
  BY <1>2, ExpireUndone
<1>3. CASE \E k \in Targets : DeleteTarget(k)
  BY <1>3, DeleteTargetUndone
<1>4. CASE \E k, d \in Targets : Copy(k, d)
  BY <1>4, CopyUndone
<1>5. CASE UNCHANGED effectVars
  <2>1. /\ UNCHANGED <<attributes, flags, gone>>
        /\ \A s \in Slots : tempEffects'[s] = tempEffects[s]
    BY <1>5 DEF effectVars
  <2> QED
    BY <2>1, OthersUndone DEF EffectInv
<1> QED
  BY <1>1, <1>2, <1>3, <1>4, <1>5 DEF EffectNext

(* What effects do to a character is what the running ones do, unless it is *)
(* a copy, where only numbers are cast for which checktempeffects takes     *)
(* back what tempeffect gave: however they end, replace one another and     *)
(* meet weak characters, nothing of them is left over.                      *)
THEOREM SpecEffectsUndone ==
  ASSUME Numbers \subseteq Agreed
  PROVE  EffectSpec => EffectsUndone
<1>1. EffectInv /\ EffectInv' /\ [EffectNext]_effectVars =>
        [\A c \in Targets \ gone' :
           TakenBack(c)' \/ ~TakenBack(c) \/ \E d \in Targets : Copy(d, c)]_effectVars
  BY UndoneStep
<1> QED
  BY <1>1, SpecEffectInv, PTL DEF EffectSpec, EffectsUndone

-----------------------------------------------------------------------------
(* Casting.  A character is sound when it casts a spell of the table, and   *)
(* a step is fair to it when it leaves it sound and, if a spell held it,    *)
(* held or free or dead.                                                    *)
Sound(c) == c \in CastStates /\ (c.casting => c.spellCast \in Spells)
Fair(c, d) == Sound(d) /\ (Held(c) /\ Stranded(d) => d.dead)

CastInv ==
  /\ CastTypeOK
  /\ \A p \in Casters : Sound(chars[p]) /\ Sound(savedChars[p])

LEMMA StoppedSound ==
  ASSUME NEW c, Sound(c)
  PROVE  Sound(Stopped(c)) /\ Sound(Freed(c)) /\ ~Stopped(c).casting
BY DEF Sound, CastStates, Stopped, Freed

LEMMA DiedFair ==
  ASSUME NEW c, Sound(c)
  PROVE  Fair(c, Died(c)) /\ Fair(c, Freed(c)) /\ Fair(c, Died(Freed(c)))
<1>1. Sound(Died(c)) /\ (Stranded(Died(c)) => Died(c).dead)
  BY DEF Sound, CastStates, Died, Stopped, Stranded
<1>2. Sound(Freed(c)) /\ ~Stranded(Freed(c))
  BY DEF Sound, CastStates, Freed, Stranded
<1>3. Sound(Died(Freed(c))) /\ ~Stranded(Died(Freed(c)))
  BY <1>2 DEF Sound, CastStates, Died, Stopped, Freed, Stranded
<1> QED
  BY <1>1, <1>2, <1>3 DEF Fair

(* Whatever befalls a character is fair to it.                              *)
LEMMA FatesFair ==
  ASSUME NEW c, Sound(c), NEW d \in Fates(c)
  PROVE  Fair(c, d)
<1>1. Fair(c, c)
  BY DEF Fair, Held, Stranded
<1>2. ASSUME c.paralysed < MaxParalyses,
             d = [c EXCEPT !.frozen = TRUE, !.paralysed = @ + 1]
      PROVE  Fair(c, d)
  <2>1. c.paralysed \in Nat /\ c.paralysed + 1 \in 0 .. MaxParalyses
    BY <1>2, CastingAssumption DEF Sound, CastStates
  <2>2. d.paralysed # 0
    BY <1>2, <2>1 DEF Sound, CastStates
  <2>3. Sound(d)
    BY <1>2, <2>1 DEF Sound, CastStates
  <2> QED
    BY <2>2, <2>3 DEF Fair, Stranded
<1> QED
  BY <1>1, <1>2, DiedFair DEF Fates

(* So is choosing a spell: with one that takes its time, it is refused.     *)
LEMMA SelectedFair ==
  ASSUME NEW c, Sound(c), NEW num \in Spells, NEW d \in Selected(c, num)
  PROVE  Fair(c, d)
<1>1. Fair(c, c)
  BY DEF Fair, Held, Stranded
<1>2. ASSUME ~Busy(c) PROVE ~Held(c)
  BY <1>2 DEF Busy, Held
<1>3. CASE d = Stopped(c) /\ ~Busy(c)
  BY <1>2, <1>3, StoppedSound DEF Fair
<1>4. CASE /\ ~Busy(c)
           /\ d = [c EXCEPT !.spellCast = num, !.casting = TRUE, !.frozen = TRUE,
                            !.timer = "runs"]
  BY <1>2, <1>4 DEF Fair, Sound, CastStates
<1>5. CASE /\ ~Busy(c)
           /\ d = [c EXCEPT !.spellCast = num, !.casting = TRUE, !.timer = "none"]
  BY <1>2, <1>5 DEF Fair, Sound, CastStates
<1> QED
  BY <1>1, <1>3, <1>4, <1>5 DEF Selected

(* A spell is fair to everybody.                                            *)
LEMMA WorkedFair ==
  ASSUME NEW cs \in [Casters -> CastStates], \A q \in Casters : Sound(cs[q]),
         NEW p \in Casters, NEW after \in Worked(p, cs)
  PROVE  /\ after \in [Casters -> CastStates]
         /\ \A q \in Casters : Fair(cs[q], after[q])
<1>1. CASE cs[p].casting
  BY <1>1 DEF Worked, Fair, Held, Stranded
<1>2. CASE ~cs[p].casting
  <2> DEFINE now == [cs EXCEPT ![p] = Stopped(@)]
  <2>1. /\ after \in [Casters -> UNION {Fates(now[q]) : q \in Casters}]
        /\ \A q \in Casters : after[q] \in Fates(now[q])
    BY <1>2 DEF Worked
  <2>2. now[p] = Stopped(cs[p]) /\ \A q \in Casters \ {p} : now[q] = cs[q]
    OBVIOUS
  <2>3. \A q \in Casters : Sound(now[q])
    BY <2>2, StoppedSound
  <2> HIDE DEF now
  <2>4. \A q \in Casters : Fair(now[q], after[q])
    BY <2>1, <2>3, FatesFair
  <2>5. ASSUME NEW q \in Casters PROVE Fair(cs[q], after[q])
    <3>1. CASE q = p
      BY <3>1, <1>2, <2>4 DEF Fair, Held
    <3>2. CASE q # p
      BY <3>2, <2>2, <2>4
    <3> QED
      BY <3>1, <3>2
  <2>6. \A q \in Casters : after[q] \in CastStates
    BY <2>5 DEF Fair, Sound
  <2> QED
    BY <2>1, <2>5, <2>6
<1> QED
  BY <1>1, <1>2

LEMMA CastInitInv == CastInit => CastInv
<1> SUFFICES ASSUME CastInit PROVE CastInv
  OBVIOUS
<1>1. Sound(Fresh)
  BY CastingAssumption DEF Sound, Fresh, CastStates
<1> QED
  BY <1>1 DEF CastInit, CastInv, CastTypeOK, NoSocket, Sound

(* A step that is fair to whom it changes keeps the invariant.              *)
LEMMA OneFair ==
  ASSUME CastInv, NEW p \in Casters, NEW d, Fair(chars[p], d),
         chars' = [chars EXCEPT ![p] = d]
  PROVE  /\ chars' \in [Casters -> CastStates]
         /\ \A q \in Casters : Fair(chars[q], chars'[q])
<1>1. Sound(d)
  BY DEF Fair
<1>2. \A q \in Casters \ {p} : Fair(chars[q], chars[q])
  BY DEF CastInv, Fair, Held, Stranded
<1> QED
  BY <1>1, <1>2 DEF CastInv, CastTypeOK, Sound

AllFair ==
  /\ chars' \in [Casters -> CastStates]
  /\ \A q \in Casters : Fair(chars[q], chars'[q])

LEMMA IdleFair ==
  ASSUME CastInv, UNCHANGED chars
  PROVE  AllFair
BY DEF CastInv, CastTypeOK, AllFair, Fair, Held, Stranded

LEMMA SpellsFair ==
  ASSUME CastInv, NEW p \in Casters, NEW num \in Spells,
         OpenBook(p, num) \/ UseItem(p, num)
  PROVE  AllFair
<1>1. PICK c \in Selected(chars[p], num) : chars' = [chars EXCEPT ![p] = c]
  BY DEF OpenBook, UseItem
<1>2. Fair(chars[p], c)
  BY SelectedFair DEF CastInv
<1> QED
  BY <1>1, <1>2, OneFair DEF AllFair

LEMMA CheckPCFair ==
  ASSUME CastInv, NEW p \in Casters, CheckPC(p)
  PROVE  AllFair
<1>0. Sound(chars[p]) /\ chars \in [Casters -> CastStates]
  BY DEF CastInv, CastTypeOK
<1>1. CASE chars[p].spellCast \in Aimed
  <2> DEFINE d == [chars[p] EXCEPT !.casting = FALSE, !.frozen = FALSE]
  <2>1. chars' = [chars EXCEPT ![p] = d]
    BY <1>0, <1>1 DEF CheckPC
  <2>2. Fair(chars[p], d)
    BY <1>0 DEF Fair, Sound, CastStates, Stranded
  <2> QED
    BY <2>1, <2>2, OneFair DEF AllFair
<1>2. CASE chars[p].spellCast \notin Aimed
  <2> DEFINE cs == [chars EXCEPT ![p].casting = FALSE]
  <2>1. PICK after \in Worked(p, cs) :
          chars' = [after EXCEPT ![p].timer = "none", ![p].frozen = FALSE]
    BY <1>2 DEF CheckPC
  <2>2. /\ cs \in [Casters -> CastStates]
        /\ \A q \in Casters \ {p} : cs[q] = chars[q]
        /\ Sound(cs[p])
    BY <1>0 DEF Sound, CastStates
  <2>3. \A q \in Casters : Sound(cs[q])
    BY <2>2 DEF CastInv
  <2> HIDE DEF cs
  <2>4. /\ after \in [Casters -> CastStates]
        /\ \A q \in Casters : Fair(cs[q], after[q])
    BY <2>2, <2>3, WorkedFair
  <2>5. ASSUME NEW q \in Casters, q # p
        PROVE  Fair(chars[q], chars'[q])
    BY <2>1, <2>2, <2>4, <2>5
  <2>6. /\ chars'[p] = [after[p] EXCEPT !.timer = "none", !.frozen = FALSE]
        /\ after[p] \in CastStates /\ Sound(after[p])
    BY <2>1, <2>4 DEF Fair
  <2>7. Fair(chars[p], chars'[p])
    BY <2>6 DEF Fair, Sound, CastStates, Stranded
  <2>8. chars' \in [Casters -> CastStates]
    BY <2>1, <2>4, <2>6 DEF CastStates
  <2> QED
    BY <2>5, <2>7, <2>8 DEF AllFair
<1> QED
  BY <1>1, <1>2

LEMMA TargetedFair ==
  ASSUME CastInv, NEW p \in Casters, Targeted(p)
  PROVE  AllFair
<1>1. CASE UNCHANGED chars
  BY <1>1, IdleFair
<1>2. CASE chars[p].dead /\ chars' = [chars EXCEPT ![p] = Stopped(@)]
  <2>1. Sound(chars[p]) /\ chars \in [Casters -> CastStates]
    BY DEF CastInv, CastTypeOK
  <2>2. Sound(Stopped(chars[p]))
    BY <2>1, StoppedSound
  <2>3. Stopped(chars[p]).dead
    BY <1>2, <2>1 DEF Stopped, Sound, CastStates
  <2>4. Fair(chars[p], Stopped(chars[p]))
    BY <2>2, <2>3 DEF Fair
  <2> QED
    BY <1>2, <2>1, <2>4, OneFair DEF AllFair
<1>3. CASE chars' \in Worked(p, chars)
  BY <1>3, WorkedFair DEF CastInv, CastTypeOK, AllFair
<1>4. CASE chars' = [chars EXCEPT ![p] = @]
  BY <1>4, IdleFair DEF CastInv, CastTypeOK
<1> QED
  BY <1>1, <1>2, <1>3, <1>4 DEF Targeted

LEMMA HitFair ==
  ASSUME CastInv, NEW p \in Casters, Hit(p)
  PROVE  AllFair
<1> DEFINE c == IF chars[p].casting /\ socks[p].type = "book"
                THEN Freed(Stopped(chars[p])) ELSE chars[p]
<1>1. PICK d \in {c, Died(c)} : chars' = [chars EXCEPT ![p] = d]
  BY DEF Hit
<1>2. Sound(chars[p])
  BY DEF CastInv
<1>3. Sound(c) /\ (c # chars[p] => ~c.frozen)
  BY <1>2, StoppedSound DEF Freed, Sound, CastStates, Stopped
<1>4. Fair(chars[p], c)
  BY <1>3 DEF Fair, Held, Stranded
<1> HIDE DEF c
<1>5. Sound(Died(c)) /\ (Stranded(Died(c)) => Died(c).dead)
  BY <1>3 DEF Sound, CastStates, Died, Stopped, Stranded
<1>6. Fair(chars[p], Died(c))
  BY <1>5 DEF Fair
<1> QED
  BY <1>1, <1>4, <1>6, OneFair DEF AllFair

LEMMA OthersFair ==
  ASSUME CastInv, NEW p \in Casters,
         TimeOut(p) \/ Befall(p) \/ Recover(p) \/ Resurrect(p)
  PROVE  AllFair
<1>0. Sound(chars[p]) /\ chars \in [Casters -> CastStates]
  BY DEF CastInv, CastTypeOK
<1>1. CASE TimeOut(p)
  <2> DEFINE d == [chars[p] EXCEPT !.timer = "past"]
  <2>1. chars' = [chars EXCEPT ![p] = d] /\ chars[p].timer = "runs"
    BY <1>0, <1>1 DEF TimeOut
  <2>2. Fair(chars[p], d)
    BY <1>0 DEF Fair, Sound, CastStates, Stranded, Held
  <2> QED
    BY <2>1, <2>2, OneFair DEF AllFair
<1>2. CASE Befall(p)
  <2>1. PICK d \in Fates(chars[p]) : chars' = [chars EXCEPT ![p] = d]
    BY <1>2 DEF Befall
  <2> QED
    BY <1>0, <2>1, FatesFair, OneFair DEF AllFair
<1>3. CASE Recover(p)
  <2> DEFINE d == [chars[p] EXCEPT !.paralysed = @ - 1, !.frozen = FALSE]
  <2>1. chars' = [chars EXCEPT ![p] = d] /\ chars[p].paralysed > 0
    BY <1>0, <1>3 DEF Recover
  <2>2. chars[p].paralysed - 1 \in 0 .. MaxParalyses
    BY <1>0, <2>1, CastingAssumption DEF Sound, CastStates
  <2>3. Fair(chars[p], d)
    BY <1>0, <2>2 DEF Fair, Sound, CastStates, Stranded, Held
  <2> QED
    BY <2>1, <2>3, OneFair DEF AllFair
<1>4. CASE Resurrect(p)
  <2> DEFINE d == [chars[p] EXCEPT !.dead = FALSE]
  <2>1. chars' = [chars EXCEPT ![p] = d]
    BY <1>0, <1>4 DEF Resurrect
  <2>2. Fair(chars[p], d)
    BY <1>0 DEF Fair, Sound, CastStates, Stranded, Held
  <2> QED
    BY <2>1, <2>2, OneFair DEF AllFair
<1> QED
  BY <1>1, <1>2, <1>3, <1>4

(* A cancelled target may leave its player frozen, but never casting.       *)
LEMMA CancelledSound ==
  ASSUME CastInv, NEW p \in Casters, Cancelled(p)
  PROVE  /\ chars' \in [Casters -> CastStates]
         /\ \A q \in Casters : Sound(chars'[q])
         /\ \A q \in Casters \ {p} : Fair(chars[q], chars'[q])
<1>1. Sound(Stopped(chars[p])) /\ chars \in [Casters -> CastStates]
  BY StoppedSound DEF CastInv, CastTypeOK
<1>2. chars' = [chars EXCEPT ![p] = Stopped(@)] \/ UNCHANGED chars
  BY DEF Cancelled
<1>3. chars' \in [Casters -> CastStates] /\ \A q \in Casters : Sound(chars'[q])
  BY <1>1, <1>2 DEF CastInv, Sound
<1>4. \A q \in Casters \ {p} : chars'[q] = chars[q]
  BY <1>1, <1>2
<1> QED
  BY <1>3, <1>4 DEF Fair, Held, Stranded

(* Every step is fair to everybody, but for the two that are named.         *)
LEMMA StepFair ==
  ASSUME CastInv, [CastNext]_castVars
  PROVE  \/ AllFair
         \/ \E p \in Casters : Cancelled(p)
         \/ RestartChars
<1>1. ASSUME NEW p \in Casters, NEW num \in Spells, OpenBook(p, num) \/ UseItem(p, num)
      PROVE  AllFair
  BY <1>1, SpellsFair
<1>2. ASSUME NEW p \in Casters,
             \/ OtherCursor(p) \/ Click(p) \/ Escape(p) \/ Connect(p) \/ Disconnect(p)
      PROVE  AllFair
  BY <1>2, IdleFair DEF OtherCursor, Click, Escape, Connect, Disconnect
<1>3. ASSUME NEW p \in Casters,
             \/ TimeOut(p) \/ CheckPC(p) \/ Targeted(p) \/ Hit(p) \/ Befall(p)
             \/ Recover(p) \/ Resurrect(p)
      PROVE  AllFair
  BY <1>3, OthersFair, CheckPCFair, TargetedFair, HitFair
<1>4. CASE SaveChars
  BY <1>4, IdleFair DEF SaveChars
<1>5. CASE UNCHANGED castVars
  BY <1>5, IdleFair DEF castVars
<1> QED
  BY <1>1, <1>2, <1>3, <1>4, <1>5 DEF CastNext

SockTypes == [playing: BOOLEAN, type: {"book", "item"},
              targetOK: BOOLEAN, cursor: {"none", "spell", "other"}]

LEMMA SocksType ==
  ASSUME CastInv, [CastNext]_castVars
  PROVE  /\ socks' \in [Casters -> SockTypes]
         /\ answer' \in [Casters -> {"none", "spell", "other", "cancel"}]
<1>0. /\ socks \in [Casters -> SockTypes]
      /\ answer \in [Casters -> {"none", "spell", "other", "cancel"}]
  BY DEF CastInv, CastTypeOK, SockTypes
<1>1. NoSocket \in SockTypes /\ NewSocket \in SockTypes
  BY DEF NoSocket, NewSocket, SockTypes
<1>2. ASSUME NEW p \in Casters, NEW num \in Spells, OpenBook(p, num) \/ UseItem(p, num)
      PROVE  /\ socks' \in [Casters -> SockTypes]
             /\ UNCHANGED answer
  BY <1>0, <1>2 DEF OpenBook, UseItem, SockTypes
<1>3. ASSUME NEW p \in Casters, OtherCursor(p) \/ CheckPC(p)
      PROVE  socks' \in [Casters -> SockTypes] /\ UNCHANGED answer
  <2>1. UNCHANGED answer
    BY <1>3 DEF OtherCursor, CheckPC
  <2>2. \/ UNCHANGED socks
        \/ \E k \in {"spell", "other"} :
             socks' = [socks EXCEPT ![p].targetOK = TRUE, ![p].cursor = k]
    BY <1>3 DEF OtherCursor, CheckPC
  <2>3. ASSUME NEW k \in {"spell", "other"},
               socks' = [socks EXCEPT ![p].targetOK = TRUE, ![p].cursor = k]
        PROVE  socks' \in [Casters -> SockTypes]
    <3>1. socks[p] \in SockTypes
      BY <1>0
    <3>2. [socks[p] EXCEPT !.targetOK = TRUE, !.cursor = k] \in SockTypes
      BY <3>1 DEF SockTypes
    <3>3. socks' = [socks EXCEPT ![p] = [socks[p] EXCEPT !.targetOK = TRUE, !.cursor = k]]
      BY <1>0, <2>3
    <3> QED
      BY <1>0, <3>2, <3>3
  <2> QED
    BY <1>0, <2>1, <2>2, <2>3
<1>4. ASSUME NEW p \in Casters, Click(p) \/ Escape(p)
      PROVE  /\ socks' \in [Casters -> SockTypes]
             /\ answer' \in [Casters -> {"none", "spell", "other", "cancel"}]
  <2>1. socks' \in [Casters -> SockTypes]
    BY <1>0, <1>4 DEF Click, Escape, SockTypes
  <2>2. socks[p].cursor \in {"spell", "other", "none"}
    BY <1>0 DEF SockTypes
  <2>3. answer' \in [Casters -> {"none", "spell", "other", "cancel"}]
    BY <1>0, <1>4, <2>2 DEF Click, Escape
  <2> QED
    BY <2>1, <2>3
<1>5. ASSUME NEW p \in Casters, Cancelled(p) \/ Targeted(p)
      PROVE  /\ socks' \in [Casters -> SockTypes]
             /\ answer' \in [Casters -> {"none", "spell", "other", "cancel"}]
  <2>1. answer' = [answer EXCEPT ![p] = "none"]
    BY <1>5 DEF Cancelled, Targeted
  <2>2. UNCHANGED socks \/ socks' = [socks EXCEPT ![p].targetOK = FALSE]
    BY <1>5 DEF Cancelled, Targeted
  <2>3. socks' \in [Casters -> SockTypes]
    BY <1>0, <2>2 DEF SockTypes
  <2> QED
    BY <1>0, <2>1, <2>3
<1>6. ASSUME NEW p \in Casters, Connect(p) \/ Disconnect(p)
      PROVE  /\ socks' \in [Casters -> SockTypes]
             /\ answer' \in [Casters -> {"none", "spell", "other", "cancel"}]
  BY <1>0, <1>1, <1>6 DEF Connect, Disconnect
<1>7. ASSUME NEW p \in Casters,
             TimeOut(p) \/ Hit(p) \/ Befall(p) \/ Recover(p) \/ Resurrect(p)
      PROVE  UNCHANGED <<socks, answer>>
  BY <1>7 DEF TimeOut, Hit, Befall, Recover, Resurrect
<1>8. CASE SaveChars \/ UNCHANGED castVars
  BY <1>0, <1>8 DEF SaveChars, castVars
<1>9. CASE RestartChars
  BY <1>1, <1>9 DEF RestartChars
<1> QED
  BY <1>0, <1>2, <1>3, <1>4, <1>5, <1>6, <1>7, <1>8, <1>9 DEF CastNext

LEMMA SavedSound ==
  ASSUME CastInv, [CastNext]_castVars
  PROVE  /\ savedChars' \in [Casters -> CastStates]
         /\ \A q \in Casters : Sound(savedChars'[q])
<1>1. UNCHANGED savedChars \/ SaveChars
  BY DEF CastNext, castVars, OpenBook, UseItem, TimeOut, CheckPC, OtherCursor, Click,
         Escape, Cancelled, Targeted, Hit, Befall, Recover, Resurrect, Connect,
         Disconnect, RestartChars
<1>2. CASE UNCHANGED savedChars
  BY <1>2 DEF CastInv, CastTypeOK
<1>3. CASE SaveChars
  <2>1. \A q \in Casters : Sound(Stopped(chars[q]))
    BY StoppedSound DEF CastInv
  <2> QED
    BY <1>3, <2>1 DEF SaveChars, Sound
<1> QED
  BY <1>1, <1>2, <1>3

LEMMA CastStepInv == CastInv /\ [CastNext]_castVars => CastInv'
<1> SUFFICES ASSUME CastInv, [CastNext]_castVars PROVE CastInv'
  OBVIOUS
<1>1. ASSUME NEW p \in Casters, Cancelled(p)
      PROVE  chars' \in [Casters -> CastStates] /\ \A q \in Casters : Sound(chars'[q])
  BY <1>1, CancelledSound
<1>2. chars' \in [Casters -> CastStates] /\ \A q \in Casters : Sound(chars'[q])
  <2>1. CASE AllFair
    BY <2>1 DEF AllFair, Fair
  <2>2. CASE RestartChars
    BY <2>2 DEF RestartChars, CastInv, CastTypeOK
  <2> QED
    BY <1>1, <2>1, <2>2, StepFair
<1> QED
  BY <1>2, SocksType, SavedSound DEF CastInv, CastTypeOK, SockTypes

(* The invariant holds in every reachable state.                            *)
THEOREM SpecCastInv == CastSpec => []CastInv
BY CastInitInv, CastStepInv, PTL DEF CastSpec

(* Characters, saves, connections and answers keep their shape.             *)
THEOREM SpecCastTypeOK == CastSpec => []CastTypeOK
<1>1. CastInv => CastTypeOK
  BY DEF CastInv
<1> QED
  BY <1>1, SpecCastInv, PTL

(* Who casts has a spell of the table, which checkPC reads with its number. *)
THEOREM SpecCastingHasSpell == CastSpec => []CastingHasSpell
<1>1. CastInv => CastingHasSpell
  BY DEF CastInv, CastingHasSpell, Sound
<1> QED
  BY <1>1, SpecCastInv, PTL

(* A spell that holds its caster lets go of it however it ends, except by   *)
(* the cancelled target of something else, a death or a restart.            *)
THEOREM SpecHeldNoLonger == CastSpec => HeldNoLonger
<1>1. CastInv /\ [CastNext]_castVars =>
        [\A p \in Casters : Held(chars[p]) /\ Stranded(chars'[p]) =>
           Cancelled(p) \/ chars'[p].dead \/ RestartChars]_castVars
  <2> SUFFICES ASSUME CastInv, [CastNext]_castVars, NEW p \in Casters,
                      Held(chars[p]), Stranded(chars'[p]), ~RestartChars,
                      ~Cancelled(p)
               PROVE  chars'[p].dead
    OBVIOUS
  <2>1. CASE AllFair
    BY <2>1 DEF AllFair, Fair
  <2>2. ASSUME NEW q \in Casters, Cancelled(q) PROVE chars'[p].dead
    <3>1. q # p
      BY <2>2
    <3> QED
      BY <2>2, <3>1, CancelledSound DEF Fair
  <2> QED
    BY <2>1, <2>2, StepFair
<1> QED
  BY <1>1, SpecCastInv, PTL DEF CastSpec, HeldNoLonger
=============================================================================
