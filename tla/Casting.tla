-------------------------------- MODULE Casting -------------------------------
(***************************************************************************)
(* Spells that players cast (src/src/system/Subsystem/magic.cpp): a spell  *)
(* is chosen, holds its caster frozen while its timer runs, and then works *)
(* or asks for a target; a hit, a death, or the cancelled target of        *)
(* anything else ends it before.  The frozen flag is the one that a        *)
(* paralysing spell sets, and frees of, too.                               *)
(*                                                                         *)
(* A client's answer to a target cursor is under way while the server goes *)
(* on, and may find no spell chosen: what is read from spells[-1] then has *)
(* the outcomes of any spell, or those of a crash, which is RestartChars.  *)
(* Left out: creatures, spells that scripts cast for themselves            *)
(* (IsJSCasting), the clock's overflow, what spells cost, and commands     *)
(* that freeze.                                                            *)
(***************************************************************************)
EXTENDS Integers

CONSTANTS Casters,        (* players                                        *)
          Spells,         (* those of a book, and of wands and scrolls      *)
          Aimed,          (* spells that ask for a target (RequireTarget)   *)
          NoSpell,        (* -1                                             *)
          MaxParalyses    (* bound: paralysing effects on one character     *)

ASSUME CastingAssumption ==
  /\ Aimed \subseteq Spells
  /\ NoSpell \notin Spells
  /\ MaxParalyses \in Nat

VARIABLES chars,          (* by player: the character                       *)
          savedChars,     (* the characters in the last save                *)
          socks,          (* by player: the connection                      *)
          answer          (* by player: the packet under way to the server  *)

castVars == <<chars, savedChars, socks, answer>>

CastStates == [spellCast: Spells \cup {NoSpell}, casting: BOOLEAN, frozen: BOOLEAN,
          timer: {"none", "runs", "past"}, paralysed: 0 .. MaxParalyses, dead: BOOLEAN]

Fresh == [spellCast |-> NoSpell, casting |-> FALSE, frozen |-> FALSE,
          timer |-> "none", paralysed |-> 0, dead |-> FALSE]

(* The cursor is the one the client shows; type is CurrentSpellType.       *)
NoSocket  == [playing |-> FALSE, type |-> "book", targetOK |-> FALSE, cursor |-> "none"]
NewSocket == [NoSocket EXCEPT !.playing = TRUE]

CastInit ==
  /\ chars = [p \in Casters |-> Fresh]
  /\ savedChars = chars
  /\ socks = [p \in Casters |-> NoSocket]
  /\ answer = [p \in Casters |-> "none"]

-----------------------------------------------------------------------------
(* StopSpell; it frees nobody.  Fault: the casting mark stays.             *)
StoppedButCasting(c) == [c EXCEPT !.timer = "none", !.spellCast = NoSpell]
Stopped(c) == [c EXCEPT !.timer = "none", !.casting = FALSE, !.spellCast = NoSpell]

Freed(c) == [c EXCEPT !.frozen = FALSE]

(* HandleDeath.                                                            *)
Died(c) == IF c.dead THEN c ELSE [Stopped(c) EXCEPT !.dead = TRUE]

(* What a spell, a poison or a weapon may make of a character.             *)
(* MagicDamage and PoisonDamage free the frozen, those without dexterity   *)
(* excepted; tempeffect 1 paralyses.                                       *)
Fates(c) ==
  {c, Freed(c), Died(c), Died(Freed(c))} \cup
  (IF c.paralysed < MaxParalyses
   THEN {[c EXCEPT !.frozen = TRUE, !.paralysed = @ + 1]} ELSE {})

(* CastSpell, of whatever is chosen, with what it does to everybody.       *)
(* Casting again already, it does nothing.                                 *)
Worked(p, cs) ==
  IF cs[p].casting THEN {cs}
  ELSE LET now == [cs EXCEPT ![p] = Stopped(@)]
       IN {after \in [Casters -> UNION {Fates(now[q]) : q \in Casters}] :
             \A q \in Casters : after[q] \in Fates(now[q])}

-----------------------------------------------------------------------------
(* SelectSpell refuses who is casting with a timer, and who still waits    *)
(* for one.  Fault: who is casting and has waited is not refused.          *)
BusyUntilDue(c) == c.timer = "runs"
Busy(c) == \/ c.timer # "none" /\ c.casting
           \/ c.timer = "runs"

(* SelectSpell with a number: refused, failed at one of a dozen checks, or *)
(* begun.  It takes its time and holds the caster where the caster's       *)
(* script or the book says so, and is due at once for scrolls, wands and   *)
(* game masters.                                                           *)
Selected(c, num) ==
  {c} \cup
  (IF Busy(c) THEN {}
   ELSE {Stopped(c),
         [c EXCEPT !.spellCast = num, !.casting = TRUE, !.frozen = TRUE, !.timer = "runs"],
         [c EXCEPT !.spellCast = num, !.casting = TRUE, !.timer = "none"]})

(* The spell book, by packet or by macro; ghosts have theirs.              *)
OpenBook(p, num) ==
  /\ socks[p].playing /\ ~chars[p].frozen
  /\ socks' = [socks EXCEPT ![p].type = "book"]
  /\ \E c \in Selected(chars[p], num) : chars' = [chars EXCEPT ![p] = c]
  /\ UNCHANGED <<savedChars, answer>>

(* A wand or a scroll, which the frozen may use.                           *)
UseItem(p, num) ==
  /\ socks[p].playing /\ ~chars[p].dead
  /\ socks' = [socks EXCEPT ![p].type = "item"]
  /\ \E c \in Selected(chars[p], num) : chars' = [chars EXCEPT ![p] = c]
  /\ UNCHANGED <<savedChars, answer>>

(* The time of a spell is over.                                            *)
TimeOut(p) ==
  /\ chars[p].timer = "runs"
  /\ chars' = [chars EXCEPT ![p].timer = "past"]
  /\ UNCHANGED <<savedChars, socks, answer>>

(* checkPC, for who casts and is due.  A spell with a target keeps its     *)
(* number, and its timer, for the answer; another one works.               *)
CheckPC(p) ==
  /\ socks[p].playing
  /\ chars[p].casting /\ chars[p].timer # "runs"
  /\ IF chars[p].spellCast \in Aimed
     THEN /\ chars' = [chars EXCEPT ![p].casting = FALSE, ![p].frozen = FALSE]
          /\ socks' = [socks EXCEPT ![p].targetOK = TRUE, ![p].cursor = "spell"]
     ELSE /\ \E after \in Worked(p, [chars EXCEPT ![p].casting = FALSE]) :
               chars' = [after EXCEPT ![p].timer = "none", ![p].frozen = FALSE]
          /\ UNCHANGED socks
  /\ UNCHANGED <<savedChars, answer>>

(* Anything else that asks for a target.                                   *)
OtherCursor(p) ==
  /\ socks[p].playing
  /\ socks' = [socks EXCEPT ![p].targetOK = TRUE, ![p].cursor = "other"]
  /\ UNCHANGED <<chars, savedChars, answer>>

(* The client answers its cursor or cancels it.  Bound: one answer is      *)
(* under way at a time.                                                    *)
Click(p) ==
  /\ socks[p].cursor # "none" /\ answer[p] = "none"
  /\ answer' = [answer EXCEPT ![p] = socks[p].cursor]
  /\ socks' = [socks EXCEPT ![p].cursor = "none"]
  /\ UNCHANGED <<chars, savedChars>>

Escape(p) ==
  /\ socks[p].cursor # "none" /\ answer[p] = "none"
  /\ answer' = [answer EXCEPT ![p] = "cancel"]
  /\ socks' = [socks EXCEPT ![p].cursor = "none"]
  /\ UNCHANGED <<chars, savedChars>>

-----------------------------------------------------------------------------
(* CPITargetCursor::Handle.  A cancel ends the spell that is chosen, also  *)
(* one that is being cast while the cancelled target was for something     *)
(* else, and leaves TargetOK.                                              *)
Cancelled(p) ==
  /\ answer[p] = "cancel"
  /\ answer' = [answer EXCEPT ![p] = "none"]
  /\ IF socks[p].targetOK /\ chars[p].spellCast # NoSpell
     THEN chars' = [chars EXCEPT ![p] = Stopped(@)]
     ELSE UNCHANGED chars
  /\ UNCHANGED <<savedChars, socks>>

Targeted(p) ==
  /\ answer[p] \in {"spell", "other"}
  /\ answer' = [answer EXCEPT ![p] = "none"]
  /\ IF ~socks[p].targetOK
     THEN UNCHANGED <<chars, socks>>
     ELSE /\ socks' = [socks EXCEPT ![p].targetOK = FALSE]
          /\ \/ /\ chars[p].dead
                /\ chars' = [chars EXCEPT ![p] =
                               IF @.spellCast # NoSpell THEN Stopped(@) ELSE @]
             \/ /\ ~chars[p].dead /\ answer[p] = "spell"
                /\ chars' \in Worked(p, chars)
             \/ /\ ~chars[p].dead /\ answer[p] = "other"
                /\ UNCHANGED chars
  /\ UNCHANGED savedChars

(* A weapon hits: it interrupts a spell from the book.  The connection of  *)
(* a caster is read though there may be none, which is a crash.            *)
Hit(p) ==
  /\ ~chars[p].dead
  /\ chars[p].casting => socks[p].playing
  /\ LET c == IF chars[p].casting /\ socks[p].type = "book"
              THEN Freed(Stopped(chars[p])) ELSE chars[p]
     IN chars' \in {[chars EXCEPT ![p] = d] : d \in {c, Died(c)}}
  /\ UNCHANGED <<savedChars, socks, answer>>

(* What creatures, fields and poison do.                                   *)
Befall(p) ==
  /\ chars' \in {[chars EXCEPT ![p] = c] : c \in Fates(chars[p]) \ {chars[p]}}
  /\ UNCHANGED <<savedChars, socks, answer>>

(* A paralysis ends, by its time or dispelled, and frees.                  *)
Recover(p) ==
  /\ chars[p].paralysed > 0
  /\ chars' = [chars EXCEPT ![p].paralysed = @ - 1, ![p].frozen = FALSE]
  /\ UNCHANGED <<savedChars, socks, answer>>

(* NpcResurrectTarget.                                                     *)
Resurrect(p) ==
  /\ socks[p].playing /\ chars[p].dead
  /\ chars' = [chars EXCEPT ![p].dead = FALSE]
  /\ UNCHANGED <<savedChars, socks, answer>>

(* startChar, and the end of a connection, after which the character       *)
(* stands in the world as it is.                                           *)
Connect(p) ==
  /\ ~socks[p].playing
  /\ socks' = [socks EXCEPT ![p] = NewSocket]
  /\ UNCHANGED <<chars, savedChars, answer>>

Disconnect(p) ==
  /\ socks[p].playing
  /\ socks' = [socks EXCEPT ![p] = NoSocket]
  /\ answer' = [answer EXCEPT ![p] = "none"]
  /\ UNCHANGED <<chars, savedChars>>

(* A save keeps the frozen flag and the effects, and no spell.             *)
SaveChars ==
  /\ savedChars' = [p \in Casters |-> Stopped(chars[p])]
  /\ UNCHANGED <<chars, socks, answer>>

RestartChars ==
  /\ chars' = savedChars
  /\ socks' = [p \in Casters |-> NoSocket]
  /\ answer' = [p \in Casters |-> "none"]
  /\ UNCHANGED savedChars

CastNext ==
  \/ \E p \in Casters, num \in Spells : OpenBook(p, num) \/ UseItem(p, num)
  \/ \E p \in Casters :
       \/ TimeOut(p) \/ CheckPC(p) \/ OtherCursor(p) \/ Click(p) \/ Escape(p)
       \/ Cancelled(p) \/ Targeted(p) \/ Hit(p) \/ Befall(p) \/ Recover(p)
       \/ Resurrect(p) \/ Connect(p) \/ Disconnect(p)
  \/ SaveChars
  \/ RestartChars

CastSpec == CastInit /\ [][CastNext]_castVars

-----------------------------------------------------------------------------
(* Type invariant. *)
CastTypeOK ==
  /\ chars \in [Casters -> CastStates]
  /\ savedChars \in [Casters -> CastStates]
  /\ socks \in [Casters -> [playing: BOOLEAN, type: {"book", "item"},
                            targetOK: BOOLEAN, cursor: {"none", "spell", "other"}]]
  /\ answer \in [Casters -> {"none", "spell", "other", "cancel"}]

(* Who casts has a spell, whatever hits, deaths, cancelled targets and     *)
(* restarts came between: checkPC indexes the table of spells with it.     *)
CastingHasSpell == \A p \in Casters : chars[p].casting => chars[p].spellCast \in Spells

(* Frozen while a spell takes its time, and frozen with nothing that frees. *)
Held(c)     == c.frozen /\ c.casting /\ c.timer # "none"
Stranded(c) == c.frozen /\ ~c.casting /\ c.paralysed = 0

(* The spell that holds its caster lets go however it ends: by its time, a *)
(* hit, another spell or a paralysis.  Only a death and the cancelled      *)
(* target of something else leave the caster frozen for good, or a restart *)
(* from a save that has the frozen flag and not the spell.                 *)
HeldNoLonger == [][\A p \in Casters :
  Held(chars[p]) /\ Stranded(chars'[p]) =>
    Cancelled(p) \/ chars'[p].dead \/ RestartChars]_castVars

(* So somebody stays frozen whom no spell and no paralysis holds.  Fails.  *)
NobodyStranded == \A p \in Casters : ~Stranded(chars[p])

(* The spell that asked for a target is chosen when the target comes, and  *)
(* CastSpell indexes the table with it.  Fails: a late cancel, a death and  *)
(* another spell that fails take the choice back and leave the cursor.     *)
TargetHasSpell == \A p \in Casters :
  answer[p] = "spell" /\ socks[p].targetOK => chars[p].spellCast \in Spells
=============================================================================
