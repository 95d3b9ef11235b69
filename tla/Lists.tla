--------------------------------- MODULE Lists --------------------------------
(***************************************************************************)
(* What lists do, for the proofs: their elements, and whether they have    *)
(* each of them once, as elements come and go.                             *)
(***************************************************************************)
EXTENDS Sequences, SequencesExt, SequenceTheorems, WellFoundedInduction, TLAPS

LEMMA ElementsOf ==
  ASSUME NEW S, NEW s \in Seq(S)
  PROVE  /\ Len(s) \in Nat /\ DOMAIN s = 1 .. Len(s)
         /\ \A n \in 1 .. Len(s) : s[n] \in S
         /\ \A x : x \in ToSet(s) <=> \E n \in 1 .. Len(s) : s[n] = x
         /\ ToSet(s) \subseteq S
<1>1. Len(s) \in Nat /\ DOMAIN s = 1 .. Len(s)
  BY LenProperties
<1>2. \A n \in 1 .. Len(s) : s[n] \in S
  BY ElementOfSeq
<1> QED
  BY <1>1, <1>2 DEF ToSet

LEMMA EmptyList ==
  ASSUME NEW S
  PROVE  <<>> \in Seq(S) /\ ToSet(<<>>) = {} /\ IsInjective(<<>>)
<1>1. <<>> \in Seq(S) /\ Len(<<>>) = 0
  BY EmptySeq
<1>2. DOMAIN <<>> = {}
  BY <1>1, ElementsOf
<1> QED
  BY <1>1, <1>2 DEF ToSet, IsInjective

LEMMA SingleList ==
  ASSUME NEW S, NEW x \in S
  PROVE  <<x>> \in Seq(S) /\ ToSet(<<x>>) = {x} /\ IsInjective(<<x>>)
<1>1. <<x>> \in Seq(S) /\ DOMAIN <<x>> = {1} /\ <<x>>[1] = x
  OBVIOUS
<1> QED
  BY <1>1 DEF ToSet, IsInjective

LEMMA AppendedList ==
  ASSUME NEW S, NEW s \in Seq(S), NEW x \in S
  PROVE  /\ Append(s, x) \in Seq(S)
         /\ ToSet(Append(s, x)) = ToSet(s) \cup {x}
         /\ x \notin ToSet(s) /\ IsInjective(s) => IsInjective(Append(s, x))
<1> DEFINE t == Append(s, x)
<1>1. /\ t \in Seq(S) /\ Len(t) = Len(s) + 1
      /\ \A n \in 1 .. Len(s) : t[n] = s[n]
      /\ t[Len(s) + 1] = x
  BY AppendProperties
<1>2. /\ Len(s) \in Nat /\ DOMAIN s = 1 .. Len(s) 
      /\ DOMAIN t = 1 .. Len(s) + 1
      /\ \A y : y \in ToSet(s) <=> \E n \in 1 .. Len(s) : s[n] = y
      /\ \A y : y \in ToSet(t) <=> \E n \in 1 .. Len(s) + 1 : t[n] = y
  <2>1. Len(s) \in Nat /\ DOMAIN s = 1 .. Len(s)
    BY ElementsOf
  <2>2. DOMAIN t = 1 .. Len(s) + 1
    BY <1>1, ElementsOf
  <2>3. \A y : y \in ToSet(s) <=> \E n \in 1 .. Len(s) : s[n] = y
    BY ElementsOf
  <2>4. \A y : y \in ToSet(t) <=> \E n \in 1 .. Len(t) : t[n] = y
    BY <1>1, ElementsOf
  <2> QED
    BY <1>1, <2>1, <2>2, <2>3, <2>4
<1> HIDE DEF t
<1>3. \A n \in 1 .. Len(s) + 1 : n \in 1 .. Len(s) \/ n = Len(s) + 1
  BY <1>2
<1>4. ToSet(t) = ToSet(s) \cup {x}
  <2>1. ASSUME NEW y \in ToSet(t) PROVE y \in ToSet(s) \cup {x}
    BY <1>1, <1>2, <1>3, <2>1
  <2>2. ASSUME NEW y \in ToSet(s) \cup {x} PROVE y \in ToSet(t)
    <3>1. \A n \in 1 .. Len(s) : n \in 1 .. Len(s) + 1
      BY <1>2
    <3>2. Len(s) + 1 \in 1 .. Len(s) + 1
      BY <1>2
    <3> QED
      BY <1>1, <1>2, <2>2, <3>1, <3>2
  <2> QED
    BY <2>1, <2>2
<1>5. ASSUME x \notin ToSet(s), IsInjective(s) PROVE IsInjective(t)
  <2>1. \A m, n \in 1 .. Len(s) : s[m] = s[n] => m = n
    BY <1>2, <1>5 DEF IsInjective
  <2>2. \A n \in 1 .. Len(s) : s[n] # x
    BY <1>2, <1>5
  <2> QED
    BY <1>1, <1>2, <1>3, <2>1, <2>2 DEF IsInjective
<1> QED
  BY <1>1, <1>4, <1>5 DEF t

(* Who stays keeps the order of the list.                                  *)
LEMMA RemovedAt ==
  ASSUME NEW S, NEW s \in Seq(S), NEW i \in DOMAIN s
  PROVE  /\ RemoveAt(s, i) \in Seq(S) /\ Len(RemoveAt(s, i)) = Len(s) - 1
         /\ DOMAIN RemoveAt(s, i) = 1 .. Len(s) - 1
         /\ \A j \in 1 .. Len(s) - 1 :
              RemoveAt(s, i)[j] = IF j < i THEN s[j] ELSE s[j + 1]
<1> DEFINE lo == SubSeq(s, 1, i - 1)
           hi == SubSeq(s, i + 1, Len(s))
           t  == lo \o hi
<1>0. Len(s) \in Nat /\ DOMAIN s = 1 .. Len(s) /\ i \in 1 .. Len(s)
  BY LenProperties
<1>1. /\ lo \in Seq(S) /\ Len(lo) = i - 1
      /\ \A j \in 1 .. i - 1 : lo[j] = s[j]
  BY <1>0, SubSeqProperties
<1>2. /\ hi \in Seq(S) /\ Len(hi) = Len(s) - i
      /\ \A j \in 1 .. Len(s) - i : hi[j] = s[i + j]
  BY <1>0, SubSeqProperties
<1>3. /\ t \in Seq(S)
      /\ Len(t) = Len(lo) + Len(hi)
      /\ \A j \in 1 .. Len(lo) + Len(hi) :
           t[j] = IF j <= Len(lo) THEN lo[j] ELSE hi[j - Len(lo)]
  BY <1>1, <1>2, ConcatProperties
<1>4. RemoveAt(s, i) = t
  BY DEF RemoveAt
<1> HIDE DEF lo, hi, t
<1>5. /\ Len(t) = Len(s) - 1 /\ DOMAIN t = 1 .. Len(s) - 1
      /\ \A j \in 1 .. Len(s) - 1 : t[j] = IF j < i THEN s[j] ELSE s[j + 1]
  <2>1. Len(t) = Len(s) - 1
    BY <1>0, <1>1, <1>2, <1>3
  <2>2. DOMAIN t = 1 .. Len(s) - 1
    BY <1>3, <2>1, ElementsOf
  <2>3. ASSUME NEW j \in 1 .. Len(s) - 1
        PROVE  t[j] = IF j < i THEN s[j] ELSE s[j + 1]
    <3>1. CASE j < i
      BY <1>0, <1>1, <1>2, <1>3, <3>1
    <3>2. CASE ~(j < i)
      <4>1. /\ j - Len(lo) \in 1 .. Len(s) - i /\ i + (j - Len(lo)) = j + 1
            /\ ~(j <= Len(lo)) /\ j \in 1 .. Len(lo) + Len(hi)
        BY <1>0, <1>1, <1>2, <3>2
      <4>2. t[j] = hi[j - Len(lo)]
        BY <1>3, <4>1
      <4> QED
        BY <1>2, <3>2, <4>1, <4>2
    <3> QED
      BY <3>1, <3>2
  <2> QED
    BY <2>1, <2>2, <2>3
<1> QED
  BY <1>3, <1>4, <1>5

(* What is taken off a list leaves the others, and goes itself where the   *)
(* list has it once.                                                       *)
LEMMA ShortenedList ==
  ASSUME NEW S, NEW s \in Seq(S), NEW i \in DOMAIN s
  PROVE  /\ RemoveAt(s, i) \in Seq(S) /\ Len(RemoveAt(s, i)) = Len(s) - 1
         /\ ToSet(s) \ {s[i]} \subseteq ToSet(RemoveAt(s, i))
         /\ ToSet(RemoveAt(s, i)) \subseteq ToSet(s)
         /\ IsInjective(s) => /\ IsInjective(RemoveAt(s, i))
                             /\ ToSet(RemoveAt(s, i)) = ToSet(s) \ {s[i]}
<1> DEFINE t == RemoveAt(s, i)
<1>0. Len(s) \in Nat /\ DOMAIN s = 1 .. Len(s) /\ i \in 1 .. Len(s)
  BY LenProperties
<1>5. /\ t \in Seq(S)
      /\ Len(t) = Len(s) - 1 /\ DOMAIN t = 1 .. Len(s) - 1
      /\ \A j \in 1 .. Len(s) - 1 : t[j] = IF j < i THEN s[j] ELSE s[j + 1]
  BY RemovedAt
<1> HIDE DEF t
<1>6. /\ \A y : y \in ToSet(s) <=> \E n \in 1 .. Len(s) : s[n] = y
      /\ \A y : y \in ToSet(t) <=> \E n \in 1 .. Len(s) - 1 : t[n] = y
  BY <1>5, ElementsOf
<1>7. ASSUME NEW y \in ToSet(s) \ {s[i]} PROVE y \in ToSet(t)
  <2>1. PICK n \in 1 .. Len(s) : s[n] = y
    BY <1>6, <1>7
  <2>2. n # i
    BY <1>7, <2>1
  <2>3. CASE n < i
    BY <1>0, <1>5, <1>6, <2>1, <2>3
  <2>4. CASE n > i
    <3>1. n - 1 \in 1 .. Len(s) - 1 /\ ~(n - 1 < i) /\ n - 1 + 1 = n
      BY <1>0, <2>4
    <3>2. t[n - 1] = y
      BY <1>5, <2>1, <3>1
    <3> QED
      BY <1>6, <3>1, <3>2
  <2> QED
    BY <1>0, <2>2, <2>3, <2>4
<1>8. ASSUME NEW y \in ToSet(t) PROVE y \in ToSet(s)
  <2>1. PICK n \in 1 .. Len(s) - 1 : t[n] = y
    BY <1>6, <1>8
  <2>2. n \in 1 .. Len(s) /\ n + 1 \in 1 .. Len(s)
    BY <1>0
  <2> QED
    BY <1>5, <1>6, <2>1, <2>2
<1>9. ASSUME IsInjective(s) PROVE IsInjective(t)
  <2>1. \A m, n \in 1 .. Len(s) : s[m] = s[n] => m = n
    BY <1>0, <1>9 DEF IsInjective
  <2>2. ASSUME NEW m \in 1 .. Len(s) - 1, NEW n \in 1 .. Len(s) - 1, t[m] = t[n]
        PROVE  m = n
    <3> DEFINE at(k) == IF k < i THEN k ELSE k + 1
    <3>1. /\ at(m) \in 1 .. Len(s) /\ at(n) \in 1 .. Len(s)
          /\ t[m] = s[at(m)] /\ t[n] = s[at(n)]
      BY <1>0, <1>5
    <3>2. at(m) = at(n)
      BY <2>1, <2>2, <3>1
    <3> QED
      BY <1>0, <3>2
  <2> QED
    BY <1>5, <2>2 DEF IsInjective
<1>10. ASSUME IsInjective(s) PROVE s[i] \notin ToSet(t)
  <2>1. \A m, n \in 1 .. Len(s) : s[m] = s[n] => m = n
    BY <1>0, <1>10 DEF IsInjective
  <2>2. ASSUME NEW j \in 1 .. Len(s) - 1 PROVE t[j] # s[i]
    <3>1. j \in 1 .. Len(s) /\ j + 1 \in 1 .. Len(s)
      BY <1>0
    <3> QED
      BY <1>0, <1>5, <2>1, <3>1
  <2> QED
    BY <1>6, <2>2
<1> QED
  BY <1>5, <1>7, <1>8, <1>9, <1>10 DEF t

(* Two that change places.                                                 *)
LEMMA SwappedList ==
  ASSUME NEW S, NEW s \in Seq(S), NEW i \in DOMAIN s, NEW j \in DOMAIN s,
         IsInjective(s)
  PROVE  LET t == [s EXCEPT ![i] = s[j], ![j] = s[i]]
         IN t \in Seq(S) /\ ToSet(t) = ToSet(s) /\ IsInjective(t)
<1> DEFINE t == [s EXCEPT ![i] = s[j], ![j] = s[i]]
           at(k) == IF k = j THEN i ELSE IF k = i THEN j ELSE k
<1>1. DOMAIN s = 1 .. Len(s) /\ Len(s) \in Nat /\ \A n \in DOMAIN s : s[n] \in S
  BY ElementsOf
<1>2. DOMAIN t = DOMAIN s /\ \A k \in DOMAIN s : at(k) \in DOMAIN s /\ t[k] = s[at(k)]
  OBVIOUS
<1>3. \A k \in DOMAIN s : at(at(k)) = k
  OBVIOUS
<1> HIDE DEF t, at
<1>4. t \in [1 .. Len(s) -> S]
  <2>1. t = [k \in DOMAIN s |-> t[k]]
    BY <1>2 DEF t
  <2> QED
    BY <1>1, <1>2, <2>1
<1>5. t \in Seq(S)
  BY <1>1, <1>4, SeqDef
<1>6. ToSet(t) = ToSet(s)
  BY <1>2, <1>3 DEF ToSet
<1>7. IsInjective(t)
  BY <1>2, <1>3 DEF IsInjective
<1> QED
  BY <1>5, <1>6, <1>7 DEF t

LEMMA LeastIndex ==
  ASSUME NEW T, T \subseteq Nat, T # {}
  PROVE  Min(T) \in T
<1>1. PICK x \in T : \A y \in T : ~(<<y, x>> \in OpToRel(<, Nat))
  BY NatLessThanWellFounded, WFMin, Zenon
<1>2. ASSUME NEW y \in T PROVE x =< y
  <2>1. <<y, x>> \in Nat \X Nat /\ <<y, x>>[1] = y /\ <<y, x>>[2] = x
    OBVIOUS
  <2>2. OpToRel(<, Nat) = {ss \in Nat \X Nat : ss[1] < ss[2]}
    BY Zenon DEF OpToRel
  <2>3. ~(y < x)
    BY <1>1, <2>1, <2>2
  <2> QED
    BY <2>3
<1> QED
  BY <1>2 DEF Min

(* The first occurrence of an element is taken off.                        *)
LEMMA FirstRemoved ==
  ASSUME NEW S, NEW s \in Seq(S), NEW x
  PROVE  /\ RemoveFirst(s, x) \in Seq(S)
         /\ ToSet(s) \ {x} \subseteq ToSet(RemoveFirst(s, x))
         /\ ToSet(RemoveFirst(s, x)) \subseteq ToSet(s)
         /\ IsInjective(s) => IsInjective(RemoveFirst(s, x))
<1>1. CASE \E i \in 1 .. Len(s) : s[i] = x
  <2> DEFINE I == {i \in 1 .. Len(s) : s[i] = x}
  <2>1. Len(s) \in Nat /\ DOMAIN s = 1 .. Len(s)
    BY ElementsOf
  <2>2. I \subseteq Nat /\ I # {}
    BY <1>1, <2>1
  <2>3. Min(I) \in I
    BY <2>2, LeastIndex
  <2>4. RemoveFirst(s, x) = RemoveAt(s, Min(I))
    BY <1>1, <2>2, Zenon DEF RemoveFirst, SelectInSeq
  <2>5. Min(I) \in DOMAIN s /\ s[Min(I)] = x
    BY <2>1, <2>3
  <2>6. PICK i \in DOMAIN s : s[i] = x /\ RemoveFirst(s, x) = RemoveAt(s, i)
    BY <2>4, <2>5, Zenon
  <2>7. /\ RemoveAt(s, i) \in Seq(S)
        /\ ToSet(s) \ {s[i]} \subseteq ToSet(RemoveAt(s, i))
        /\ ToSet(RemoveAt(s, i)) \subseteq ToSet(s)
        /\ IsInjective(s) => IsInjective(RemoveAt(s, i))
    BY ShortenedList
  <2> QED
    BY <2>6, <2>7, Zenon
<1>2. CASE ~\E i \in 1 .. Len(s) : s[i] = x
  BY <1>2 DEF RemoveFirst
<1> QED
  BY <1>1, <1>2

(* One list after another.                                                 *)
LEMMA JoinedLists ==
  ASSUME NEW S, NEW s \in Seq(S), NEW t \in Seq(S)
  PROVE  IsInjective(s \o t) <=>
           /\ IsInjective(s) /\ IsInjective(t)
           /\ ToSet(s) \cap ToSet(t) = {}
<1> DEFINE st == s \o t
<1>1. /\ Len(s) \in Nat /\ DOMAIN s = 1 .. Len(s)
      /\ \A x : x \in ToSet(s) <=> \E n \in 1 .. Len(s) : s[n] = x
  BY ElementsOf
<1>2. /\ Len(t) \in Nat /\ DOMAIN t = 1 .. Len(t)
      /\ \A x : x \in ToSet(t) <=> \E n \in 1 .. Len(t) : t[n] = x
  BY ElementsOf
<1>3. /\ st \in Seq(S) /\ Len(st) = Len(s) + Len(t)
      /\ \A n \in 1 .. Len(s) + Len(t) :
           st[n] = IF n <= Len(s) THEN s[n] ELSE t[n - Len(s)]
  BY ConcatProperties
<1>4. DOMAIN st = 1 .. Len(s) + Len(t)
  BY <1>3, ElementsOf
<1> HIDE DEF st
<1>5. ASSUME NEW n \in 1 .. Len(s) PROVE n \in DOMAIN st /\ st[n] = s[n]
  BY <1>1, <1>2, <1>3, <1>4
<1>6. ASSUME NEW n \in 1 .. Len(t)
      PROVE  Len(s) + n \in DOMAIN st /\ st[Len(s) + n] = t[n]
  <2>1. Len(s) + n \in 1 .. Len(s) + Len(t) /\ ~(Len(s) + n <= Len(s))
        /\ (Len(s) + n) - Len(s) = n
    BY <1>1, <1>2
  <2> QED
    BY <1>3, <1>4, <2>1
<1>7. ASSUME NEW n \in DOMAIN st
      PROVE  \/ n \in 1 .. Len(s) /\ st[n] = s[n]
             \/ \E k \in 1 .. Len(t) : n = Len(s) + k /\ st[n] = t[k]
  <2>1. CASE n <= Len(s)
    BY <1>1, <1>3, <1>4, <2>1
  <2>2. CASE ~(n <= Len(s))
    <3>1. n - Len(s) \in 1 .. Len(t) /\ n = Len(s) + (n - Len(s))
      BY <1>1, <1>2, <1>4, <2>2
    <3> QED
      BY <1>3, <1>4, <2>2, <3>1
  <2> QED
    BY <2>1, <2>2
<1>8. ASSUME IsInjective(st)
      PROVE  IsInjective(s) /\ IsInjective(t) /\ ToSet(s) \cap ToSet(t) = {}
  <2>0. \A m, n \in DOMAIN st : st[m] = st[n] => m = n
    BY <1>8 DEF IsInjective
  <2>1. IsInjective(s)
    BY <1>1, <1>5, <2>0 DEF IsInjective
  <2>2. ASSUME NEW m \in 1 .. Len(t), NEW n \in 1 .. Len(t), t[m] = t[n]
        PROVE  m = n
    <3>1. Len(s) + m = Len(s) + n
      BY <1>6, <2>0, <2>2
    <3> QED
      BY <1>1, <1>2, <3>1
  <2>3. ASSUME NEW x \in ToSet(s), x \in ToSet(t) PROVE FALSE
    <3>1. PICK m \in 1 .. Len(s) : s[m] = x
      BY <1>1, <2>3
    <3>2. PICK n \in 1 .. Len(t) : t[n] = x
      BY <1>2, <2>3
    <3>3. m = Len(s) + n
      BY <1>5, <1>6, <2>0, <3>1, <3>2
    <3> QED
      BY <1>1, <1>2, <3>3
  <2> QED
    BY <1>2, <2>1, <2>2, <2>3 DEF IsInjective
<1>9. ASSUME IsInjective(s), IsInjective(t), ToSet(s) \cap ToSet(t) = {}
      PROVE  IsInjective(st)
  <2>1. \A m, n \in 1 .. Len(s) : s[m] = s[n] => m = n
    BY <1>1, <1>9 DEF IsInjective
  <2>2. \A m, n \in 1 .. Len(t) : t[m] = t[n] => m = n
    BY <1>2, <1>9 DEF IsInjective
  <2>3. \A m \in 1 .. Len(s), n \in 1 .. Len(t) : s[m] # t[n]
    BY <1>1, <1>2, <1>9
  <2>4. ASSUME NEW m \in DOMAIN st, NEW n \in DOMAIN st, st[m] = st[n]
        PROVE  m = n
    BY <1>7, <2>1, <2>2, <2>3, <2>4
  <2> QED
    BY <2>4 DEF IsInjective
<1> QED
  BY <1>8, <1>9 DEF st
=============================================================================
