-------------------------------- MODULE Effects -------------------------------
(***************************************************************************)
(* Temporary effects (src/src/system/Other/effect.cpp): what a spell or a  *)
(* potion does to a character and what takes it back when its time is out, *)
(* or when another effect of its number comes.  Applying and undoing are   *)
(* two tables by number, and the numbers of the one are not always those   *)
(* of the other: 11 is Curse where it is cast and Bless where it ends.     *)
(*                                                                         *)
(* A save writes attributes, flags and effects in one transaction, so a    *)
(* restart leads to an earlier state and has no action here.  Left out:    *)
(* intelligence (as strength and dexterity), effects on items, those that  *)
(* only call something, 16 and 17, which may end the process, what combat  *)
(* and casting do to the frozen, and KillTimers, which the scripts call on *)
(* items only.                                                             *)
(***************************************************************************)
EXTENDS Integers

CONSTANTS Targets,      (* characters                                      *)
          Numbers,      (* the numbers of the effects that are cast        *)
          NoEffect,
          MaxEffects,   (* bound: how many effects run at a time           *)
          MaxMore,      (* bound: how strong an effect is                  *)
          Base          (* what everybody has of each attribute            *)

Known == {1, 2, 3, 5, 6, 8, 10, 11, 12, 14, 15}

EffectRecords == [num: Numbers, dest: Targets, more: Int \X Int]

ASSUME EffectAssumption ==
  /\ Numbers \subseteq Known
  /\ NoEffect \notin EffectRecords
  /\ MaxEffects \in Nat /\ MaxMore \in Nat /\ Base \in Nat

VARIABLES tempEffects,   (* by slot: NoEffect, or number, target and more   *)
          attributes,    (* added to what the character has of its own      *)
          flags,         (* what a character is                             *)
          gone           (* deleted characters                              *)

effectVars == <<tempEffects, attributes, flags, gone>>

Slots      == 1 .. MaxEffects
Attributes == {"strength2", "dexterity2", "dexterity"}
Flags      == {"frozen", "fixedLight", "reactive", "polymorphed", "incognito"}

Running(s)  == tempEffects[s] # NoEffect
On(c, num)  == {s \in Slots : Running(s) /\ tempEffects[s].num = num
                                         /\ tempEffects[s].dest = c}

EffectInit ==
  /\ tempEffects = [s \in Slots |-> NoEffect]
  /\ attributes = [c \in Targets |-> [a \in Attributes |-> 0]]
  /\ flags = [c \in Targets |-> {}]
  /\ gone = {}

-----------------------------------------------------------------------------
(* The three parameters of an effect; the third is for intelligence.       *)
More(num, m) == CASE num \in {10, 11} -> <<m, m>>
                  [] num \in {3, 5, 6, 8, 12} -> <<m, 0>>
                  [] OTHER -> <<0, 0>>

Change(str2, dex2, dex) ==
  [a \in Attributes |-> CASE a = "strength2" -> str2
                          [] a = "dexterity2" -> dex2
                          [] OTHER -> dex]

(* tempeffect.                                                             *)
Applied(num, more) ==
  CASE num = 3  -> Change(0, -more[1], 0)
    [] num = 5  -> Change(-more[1], 0, 0)
    [] num = 6  -> Change(0, 0, more[1])
    [] num = 8  -> Change(more[1], 0, 0)
    [] num = 10 -> Change(more[1], more[2], 0)
    [] num = 11 -> Change(-more[1], -more[2], 0)
    [] OTHER    -> Change(0, 0, 0)

(* checktempeffects and reverseEffect.                                     *)
Undone(num, more) ==
  CASE num = 3  -> Change(0, more[1], 0)
    [] num = 5  -> Change(more[1], 0, 0)
    [] num = 6  -> Change(0, -more[1], 0)
    [] num = 8  -> Change(-more[1], 0, 0)
    [] num = 11 -> Change(-more[1], -more[2], 0)
    [] num = 12 -> Change(more[1], more[2], 0)
    [] OTHER    -> Change(0, 0, 0)

(* Set by tempeffect or its caller, and cleared by checktempeffects.       *)
Sets(num) == CASE num = 1  -> {"frozen"}      [] num = 2  -> {"fixedLight"}
               [] num = 12 -> {"reactive"}    [] num = 14 -> {"polymorphed"}
               [] num = 15 -> {"incognito"}   [] OTHER    -> {}
Clears(num) == CASE num = 1  -> {"frozen"}    [] num = 2  -> {"fixedLight"}
                 [] num = 15 -> {"reactive"}  [] OTHER    -> {}

Plus(f, g) == [a \in Attributes |-> f[a] + g[a]]

(* An effect takes no more than there is; with less than nothing there, it *)
(* gives.                                                                  *)
AtMost(m, most) == IF most < m THEN most ELSE m

Clamped(num, more, own) ==
  LET str == Base + own["strength2"]
      dex == Base + own["dexterity"] + own["dexterity2"]
  IN CASE num = 3  -> <<AtMost(more[1], dex), 0>>
       [] num = 5  -> <<AtMost(more[1], str), 0>>
       [] num = 11 -> <<AtMost(more[1], str), AtMost(more[2], dex)>>
       [] OTHER    -> more

-----------------------------------------------------------------------------
(* The effects that a new one of their number replaces.  Fault: potions of *)
(* strength add up.                                                        *)
Replaced == {3, 5, 6, 8, 10, 11, 14, 15}

OlderButStrength(c, num) == IF num \in Replaced \ {8} THEN On(c, num) ELSE {}
Older(c, num) == IF num \in Replaced THEN On(c, num) ELSE {}

(* What is left of the character when the effect in a slot is taken off    *)
(* for another one; the fault takes nothing back.                          *)
NotReversed(c, old) == attributes[c]
Reversed(c, old) ==
  IF old = {} THEN attributes[c]
  ELSE LET s == CHOOSE s \in old : TRUE
       IN Plus(attributes[c], Undone(tempEffects[s].num, tempEffects[s].more))

(* tempeffect.  There is at most one to replace, see OneOfAKind.           *)
TempEffect(c, num, m) ==
  /\ c \notin gone
  /\ LET old  == Older(c, num)
         own  == Reversed(c, old)
         more == Clamped(num, More(num, m), own)
     IN \E s \in Slots :
          /\ s \in old \/ ~Running(s)
          /\ \A t \in 1 .. s - 1 : t \notin old /\ Running(t)
          /\ tempEffects' = [t \in Slots |->
               IF t = s THEN [num |-> num, dest |-> c, more |-> more]
               ELSE IF t \in old THEN NoEffect ELSE tempEffects[t]]
          /\ attributes' = [attributes EXCEPT ![c] = Plus(own, Applied(num, more))]
  /\ flags' = [flags EXCEPT ![c] = @ \cup Sets(num)]
  /\ UNCHANGED gone

(* checktempeffects, for one whose time is out.  A round that finds more   *)
(* of them does the same for each.                                         *)
Expire(s) ==
  /\ Running(s)
  /\ LET e == tempEffects[s] IN
       /\ attributes' = [attributes EXCEPT ![e.dest] = Plus(@, Undone(e.num, e.more))]
       /\ flags' = [flags EXCEPT ![e.dest] = @ \ Clears(e.num)]
  /\ tempEffects' = [tempEffects EXCEPT ![s] = NoEffect]
  /\ UNCHANGED gone

(* CChar::Cleanup takes the effects along.                                 *)
DeleteTarget(c) ==
  /\ c \notin gone
  /\ gone' = gone \cup {c}
  /\ tempEffects' = [s \in Slots |->
       IF Running(s) /\ tempEffects[s].dest = c THEN NoEffect ELSE tempEffects[s]]
  /\ UNCHANGED <<attributes, flags>>

(* CChar::CopyData, when a creature splits: the copy gets the attributes    *)
(* with what effects have made of them, and neither the effects nor what a  *)
(* flag tells.                                                              *)
Copy(c, d) ==
  /\ c \notin gone /\ d \notin gone /\ c # d
  /\ attributes[d] = Change(0, 0, 0) /\ flags[d] = {}
  /\ \A s \in Slots : Running(s) => tempEffects[s].dest # d
  /\ attributes' = [attributes EXCEPT ![d] = attributes[c]]
  /\ UNCHANGED <<tempEffects, flags, gone>>

EffectNext ==
  \/ \E c \in Targets, num \in Numbers, m \in 0 .. MaxMore : TempEffect(c, num, m)
  \/ \E s \in Slots : Expire(s)
  \/ \E c \in Targets : DeleteTarget(c)
  \/ \E c, d \in Targets : Copy(c, d)

EffectSpec == EffectInit /\ [][EffectNext]_effectVars

-----------------------------------------------------------------------------
(* Type invariant. *)
EffectTypeOK ==
  /\ tempEffects \in [Slots -> {NoEffect} \cup EffectRecords]
  /\ attributes \in [Targets -> [Attributes -> Int]]
  /\ flags \in [Targets -> SUBSET Flags]
  /\ gone \in SUBSET Targets

(* The effects that replace one another run once on a character at most,   *)
(* and none runs on one that is deleted.                                   *)
OneOfAKind ==
  /\ \A c \in Targets, num \in Replaced : \A s, t \in On(c, num) : s = t
  /\ \A s \in Slots : Running(s) => tempEffects[s].dest \notin gone

(* What the running effect of a number does to a character.  One at most   *)
(* runs of those that do anything to attributes, see OneOfAKind, so that   *)
(* what all do together is a sum over the numbers.                         *)
Share(c, num) ==
  IF On(c, num) = {} THEN Change(0, 0, 0)
  ELSE Applied(num, tempEffects[CHOOSE s \in On(c, num) : TRUE].more)

UnderEffect(c) == \E s \in Slots : Running(s) /\ tempEffects[s].dest = c

Together(c) ==
  IF UnderEffect(c)
  THEN Plus(Share(c, 3), Plus(Share(c, 5), Plus(Share(c, 6),
         Plus(Share(c, 8), Plus(Share(c, 10), Share(c, 11))))))
  ELSE Change(0, 0, 0)

(* What effects do to a character is what the running ones do.             *)
TakenBack(c) ==
  /\ attributes[c] = Together(c)
  /\ \A f \in flags[c] : \E s \in Slots :
       Running(s) /\ tempEffects[s].dest = c /\ f \in Clears(tempEffects[s].num)

(* Nothing is left over when effects end or replace one another in any      *)
(* order, weakened characters strengthened and strong ones weakened below   *)
(* nothing, and what an effect makes of a character lasts while one runs    *)
(* that ends it; only a copy of somebody under an effect keeps for good     *)
(* what the effect did.  It holds for the numbers the two tables agree on.  *)
EffectsUndone == [][\A c \in Targets \ gone' :
  TakenBack(c)' \/ ~TakenBack(c) \/ \E d \in Targets : Copy(d, c)]_effectVars
=============================================================================
