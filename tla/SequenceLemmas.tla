--------------------------- MODULE SequenceLemmas ---------------------------
(***************************************************************************)
(* What the proofs need of the natural numbers and of the operators on     *)
(* sequences with which the maps of the code, kept in insertion order, are *)
(* modelled.                                                               *)
(***************************************************************************)
EXTENDS InsertionOrder, WellFoundedInduction, SequenceTheorems,
        FiniteSetTheorems, TLAPS

(* A set of natural numbers that is not empty has a least element.         *)
LEMMA LeastNatural ==
    ASSUME NEW S, S \subseteq Nat, S # {}
    PROVE  \E i \in S : \A j \in S : i <= j
<1>1. PICK x \in S : \A y \in S : ~(<<y, x>> \in OpToRel(<, Nat))
  BY NatLessThanWellFounded, WFMin
<1>2. ASSUME NEW y \in S, y < x PROVE FALSE
  <2>1. <<y, x>> \in Nat \X Nat /\ <<y, x>>[1] < <<y, x>>[2]
    BY <1>2
  <2>2. <<y, x>> \in OpToRel(<, Nat)
    BY <2>1, Zenon DEF OpToRel
  <2> QED BY <2>2, <1>1
<1> QED BY <1>2

(* A function over the places of a sequence is a sequence of its length.   *)
LEMMA IntervalsEqual ==
    ASSUME NEW a \in Nat, NEW b \in Nat, 1..a = 1..b
    PROVE  a = b
<1>1. CASE a < b
  <2>1. b \in 1..b
    BY <1>1
  <2> QED BY <2>1, <1>1
<1>2. CASE b < a
  <2>1. a \in 1..a
    BY <1>2
  <2> QED BY <2>1, <1>2
<1> QED BY <1>1, <1>2

LEMMA SameDomain ==
    ASSUME NEW S, NEW s \in Seq(S), NEW T, NEW t \in [DOMAIN s -> T]
    PROVE  t \in Seq(T) /\ Len(t) = Len(s)
<1>1. Len(s) \in Nat /\ DOMAIN s = 1..Len(s)
  BY LenProperties
<1>2. t \in Seq(T)
  BY <1>1, SeqDef
<1>3. Len(t) \in Nat /\ DOMAIN t = 1..Len(t)
  BY <1>2, LenProperties
<1>4. 1..Len(t) = 1..Len(s)
  BY <1>1, <1>3
<1>5. Len(t) = Len(s)
  BY ONLY <1>1, <1>3, <1>4, IntervalsEqual
<1> QED BY <1>2, <1>5

-----------------------------------------------------------------------------
(* t holds entries of s in their order, each no more often than s does.    *)
LeftOf(t, s) ==
    \E place \in [DOMAIN t -> DOMAIN s] :
        /\ \A i, j \in DOMAIN t : i < j => place[i] < place[j]
        /\ \A i \in DOMAIN t : t[i] = s[place[i]]

LEMMA LeftOfMembers ==
    ASSUME NEW t, NEW s, LeftOf(t, s)
    PROVE  Members(t) \subseteq Members(s)
BY DEF LeftOf, Members

LEMMA SubSeqLeaves ==
    ASSUME NEW S, NEW s \in Seq(S),
           NEW m \in Nat \ {0}, NEW n \in Int, n <= Len(s)
    PROVE  /\ SubSeq(s, m, n) \in Seq(S)
           /\ Len(SubSeq(s, m, n)) = IF m <= n THEN n - m + 1 ELSE 0
           /\ \A i \in 1..(n - m + 1) : SubSeq(s, m, n)[i] = s[m + i - 1]
           /\ LeftOf(SubSeq(s, m, n), s)
<1> DEFINE t == SubSeq(s, m, n)
           place == [i \in DOMAIN t |-> m + i - 1]
<1>1. Len(s) \in Nat /\ DOMAIN s = 1..Len(s) /\ \A i \in m..n : s[i] \in S
  BY LenProperties, ElementOfSeq
<1>2. /\ t \in Seq(S)
      /\ Len(t) = IF m <= n THEN n - m + 1 ELSE 0
      /\ \A i \in 1..(n - m + 1) : t[i] = s[m + i - 1]
  BY <1>1, SubSeqProperties
<1> HIDE DEF t
<1>3. DOMAIN t = 1..Len(t)
  BY <1>2, LenProperties
<1>4. /\ place \in [DOMAIN t -> DOMAIN s]
      /\ \A i, j \in DOMAIN t : i < j => place[i] < place[j]
      /\ \A i \in DOMAIN t : t[i] = s[place[i]]
  BY <1>1, <1>2, <1>3
<1> HIDE DEF place
<1>5. LeftOf(t, s)
  BY <1>4 DEF LeftOf
<1> QED BY <1>2, <1>5 DEF t

(* What a sweep from the front leaves.                                     *)
LEMMA FromLeaves ==
    ASSUME NEW S, NEW s \in Seq(S), NEW places \in SUBSET (DOMAIN s)
    PROVE  /\ From(s, places) \in Seq(S)
           /\ Len(From(s, places)) <= Len(s)
           /\ LeftOf(From(s, places), s)
<1> DEFINE m == IF places = {} THEN Len(s) + 1
                ELSE CHOOSE i \in places : \A j \in places : i <= j
<1>1. Len(s) \in Nat /\ DOMAIN s = 1..Len(s)
  BY LenProperties
<1>2. m \in Nat \ {0}
  <2>1. CASE places = {}
    BY <2>1, <1>1
  <2>2. CASE places # {}
    <3>1. places \subseteq Nat
      BY <1>1
    <3>2. \E i \in places : \A j \in places : i <= j
      BY <2>2, <3>1, LeastNatural
    <3>3. m \in places
      BY <2>2, <3>2
    <3>4. m \in 1..Len(s)
      BY <3>3, <1>1
    <3> HIDE DEF m
    <3> QED BY <3>4, <1>1
  <2> QED BY <2>1, <2>2
<1>3. From(s, places) = SubSeq(s, m, Len(s))
  BY DEF From
<1> HIDE DEF m
<1>4. /\ SubSeq(s, m, Len(s)) \in Seq(S)
      /\ Len(SubSeq(s, m, Len(s))) = IF m <= Len(s) THEN Len(s) - m + 1 ELSE 0
      /\ LeftOf(SubSeq(s, m, Len(s)), s)
  BY <1>1, <1>2, SubSeqLeaves
<1> QED BY <1>1, <1>2, <1>3, <1>4

(* It keeps the entries at these places, and is all there was if it is as  *)
(* long.                                                                   *)
LEMMA FromKeeps ==
    ASSUME NEW S, NEW s \in Seq(S), NEW places \in SUBSET (DOMAIN s)
    PROVE  /\ \A i \in places : s[i] \in Members(From(s, places))
           /\ Len(From(s, places)) = Len(s) => From(s, places) = s
<1> DEFINE m == IF places = {} THEN Len(s) + 1
                ELSE CHOOSE i \in places : \A j \in places : i <= j
           t == SubSeq(s, m, Len(s))
<1>1. Len(s) \in Nat /\ DOMAIN s = 1..Len(s) /\ \A i \in places : i \in 1..Len(s)
  BY LenProperties
<1>2. /\ m \in 1..(Len(s) + 1) /\ \A i \in places : m <= i
  <2>1. CASE places = {}
    BY <2>1, <1>1
  <2>2. CASE places # {}
    <3>1. \E i \in places : \A j \in places : i <= j
      BY <2>2, <1>1, LeastNatural
    <3>2. m \in places /\ \A j \in places : m <= j
      BY <2>2, <3>1
    <3> HIDE DEF m
    <3> QED BY <3>2, <1>1
  <2> QED BY <2>1, <2>2
<1>3. From(s, places) = t
  BY DEF From
<1> HIDE DEF m
<1>4. m \in Nat \ {0} /\ m <= Len(s) + 1
  BY <1>1, <1>2
<1>5. /\ t \in Seq(S)
      /\ Len(t) = IF m <= Len(s) THEN Len(s) - m + 1 ELSE 0
      /\ \A i \in 1..(Len(s) - m + 1) : t[i] = s[m + i - 1]
  BY <1>1, <1>4, SubSeqLeaves
<1> HIDE DEF t
<1>6. DOMAIN t = 1..Len(t) /\ t \in [1..Len(t) -> S] /\ s \in [1..Len(s) -> S]
  BY <1>5, LenProperties
<1>7. ASSUME NEW i \in places PROVE s[i] \in Members(t)
  <2>1. i \in Nat /\ m <= i /\ i <= Len(s)
    BY <1>1, <1>2
  <2>2. /\ i - m + 1 \in 1..(Len(s) - m + 1) /\ m + (i - m + 1) - 1 = i
        /\ m <= Len(s)
    BY <2>1, <1>1, <1>4
  <2>3. t[i - m + 1] = s[i] /\ i - m + 1 \in DOMAIN t
    BY <2>2, <1>5, <1>6
  <2> QED BY <2>3 DEF Members
<1>8. ASSUME Len(t) = Len(s) PROVE t = s
  <2>1. CASE Len(s) = 0
    BY <2>1, <1>5, <1>8, EmptySeq
  <2>2. CASE Len(s) # 0
    <3>1. m = 1
      BY <2>2, <1>1, <1>4, <1>5, <1>8
    <3>2. \A i \in 1..Len(s) : t[i] = s[i]
      BY <3>1, <1>1, <1>5
    <3> QED BY <3>2, <1>6, <1>8
  <2> QED BY <2>1, <2>2
<1> QED BY <1>3, <1>7, <1>8

(* What making room leaves: n entries at most, and of those before only    *)
(* the oldest are gone.                                                    *)
LEMMA NewestLeaves ==
    ASSUME NEW S, NEW s \in Seq(S), NEW n \in Nat
    PROVE  /\ Newest(s, n) \in Seq(S)
           /\ Len(Newest(s, n)) = IF Len(s) > n THEN n ELSE Len(s)
           /\ LeftOf(Newest(s, n), s)
           /\ \A i \in DOMAIN s : i > Len(s) - n => s[i] \in Members(Newest(s, n))
<1> DEFINE m == IF Len(s) > n THEN Len(s) - n + 1 ELSE 1
           t == SubSeq(s, m, Len(s))
<1>1. Len(s) \in Nat /\ DOMAIN s = 1..Len(s)
  BY LenProperties
<1>2. m \in Nat \ {0} /\ m <= Len(s) + 1 /\ Newest(s, n) = t
  BY <1>1 DEF Newest
<1>3. m = IF Len(s) > n THEN Len(s) - n + 1 ELSE 1
  OBVIOUS
<1> HIDE DEF m
<1>4. /\ t \in Seq(S)
      /\ Len(t) = IF m <= Len(s) THEN Len(s) - m + 1 ELSE 0
      /\ \A i \in 1..(Len(s) - m + 1) : t[i] = s[m + i - 1]
      /\ LeftOf(t, s)
  BY <1>1, <1>2, SubSeqLeaves
<1> HIDE DEF t
<1>5. Len(t) = IF Len(s) > n THEN n ELSE Len(s)
  <2>1. CASE Len(s) > n
    BY <2>1, <1>1, <1>3, <1>4
  <2>2. CASE ~(Len(s) > n)
    BY <2>2, <1>1, <1>3, <1>4
  <2> QED BY <2>1, <2>2
<1>6. ASSUME NEW i \in DOMAIN s, i > Len(s) - n
      PROVE  s[i] \in Members(t)
  <2>1. i - m + 1 \in 1..(Len(s) - m + 1) /\ m + (i - m + 1) - 1 = i
    <3>1. i \in 1..Len(s) /\ m \in Nat /\ Len(s) \in Nat
      BY <1>1, <1>2
    <3>2. m <= i
      BY <1>3, <1>6, <3>1
    <3> QED BY <3>1, <3>2
  <2>2. t[i - m + 1] = s[i]
    BY <1>4, <2>1
  <2>3. DOMAIN t = 1..Len(t)
    BY <1>4, LenProperties
  <2>4. i - m + 1 \in DOMAIN t
    BY <1>1, <1>2, <1>4, <2>1, <2>3
  <2> QED BY <2>2, <2>4 DEF Members
<1> QED BY <1>2, <1>4, <1>5, <1>6

-----------------------------------------------------------------------------
(* The entries at some places, in their order: each of them is there, at   *)
(* the place that its rank among them is.                                  *)
LEMMA RanksIncrease ==
    ASSUME NEW n \in Nat, NEW places \in SUBSET (1..n)
    PROVE  /\ IsFiniteSet(places) /\ Cardinality(places) \in 0..n
           /\ \A i \in places : Rank(places, i) \in 1..Cardinality(places)
           /\ \A i, j \in places : i < j <=> Rank(places, i) < Rank(places, j)
<1> DEFINE upTo(i) == {j \in places : j <= i}
<1>1. /\ IsFiniteSet(places) /\ Cardinality(places) <= n
      /\ Cardinality(places) \in Nat
  <2>1. IsFiniteSet(1..n) /\ Cardinality(1..n) = n
    BY FS_Interval
  <2> QED BY <2>1, FS_Subset, FS_CardinalityType
<1>2. ASSUME NEW i \in places
      PROVE  /\ IsFiniteSet(upTo(i))
             /\ Rank(places, i) = Cardinality(upTo(i))
             /\ Rank(places, i) \in 1..Cardinality(places)
  <2>1. IsFiniteSet(upTo(i)) /\ Cardinality(upTo(i)) <= Cardinality(places)
    BY <1>1, FS_Subset
  <2>2. Cardinality(upTo(i)) \in Nat
    BY <2>1, FS_CardinalityType
  <2>3. upTo(i) # {}
    <3>1. i \in upTo(i)
      OBVIOUS
    <3> QED BY <3>1
  <2>4. Cardinality(upTo(i)) # 0
    BY <2>1, <2>3, FS_EmptySet
  <2>5. Rank(places, i) = Cardinality(upTo(i))
    BY DEF Rank
  <2> HIDE DEF upTo
  <2> QED BY <1>1, <2>1, <2>2, <2>4, <2>5
<1>3. ASSUME NEW i \in places, NEW j \in places, i < j
      PROVE  Rank(places, i) < Rank(places, j)
  <2>1. upTo(i) \in SUBSET upTo(j) /\ j \in upTo(j) /\ j \notin upTo(i)
    <3>1. i \in Nat /\ j \in Nat /\ \A k \in places : k \in Nat
      OBVIOUS
    <3>2. \A k \in places : k <= i => k <= j
      BY <1>3, <3>1
    <3>3. j <= j /\ ~(j <= i)
      BY <1>3, <3>1
    <3> QED BY <3>2, <3>3
  <2>2. IsFiniteSet(upTo(j)) /\ Rank(places, i) = Cardinality(upTo(i))
        /\ Rank(places, j) = Cardinality(upTo(j))
        /\ Rank(places, i) \in Nat /\ Rank(places, j) \in Nat
    BY <1>2
  <2> HIDE DEF upTo
  <2>3. /\ Cardinality(upTo(i)) <= Cardinality(upTo(j))
        /\ Cardinality(upTo(j)) = Cardinality(upTo(i)) => upTo(j) = upTo(i)
    BY <2>1, <2>2, FS_Subset
  <2> QED BY <2>1, <2>2, <2>3
<1>4. ASSUME NEW i \in places, NEW j \in places, Rank(places, i) < Rank(places, j)
      PROVE  i < j
  <2>1. Rank(places, i) \in Nat /\ Rank(places, j) \in Nat
    <3>1. \A k \in 1..Cardinality(places) : k \in Nat
      BY <1>1
    <3> HIDE DEF upTo
    <3> QED BY <1>2, <3>1
  <2>2. ~(j < i) /\ i # j
    BY <2>1, <1>3, <1>4
  <2> QED BY <2>2
<1>5. \A i \in places : Rank(places, i) \in 1..Cardinality(places)
  BY <1>2
<1>6. \A i, j \in places : i < j <=> Rank(places, i) < Rank(places, j)
  BY <1>3, <1>4
<1> HIDE DEF upTo
<1> QED BY <1>1, <1>5, <1>6

LEMMA EveryRankIsTaken ==
    ASSUME NEW n \in Nat, NEW places \in SUBSET (1..n)
    PROVE  \A k \in 1..Cardinality(places) : \E i \in places : Rank(places, i) = k
<1> DEFINE c == Cardinality(places)
           f == [i \in places |-> Rank(places, i)]
           T == {f[i] : i \in places}
<1>1. /\ IsFiniteSet(places) /\ c \in Nat
      /\ \A i \in places : f[i] \in 1..c
      /\ \A i, j \in places : f[i] = f[j] => i = j
  <2>1. /\ IsFiniteSet(places) /\ c \in Nat
        /\ \A i \in places : Rank(places, i) \in 1..c
        /\ \A i, j \in places : i < j <=> Rank(places, i) < Rank(places, j)
    <3> HIDE DEF f, T
    <3>1. c \in 0..n => c \in Nat
      OBVIOUS
    <3> QED BY <3>1, RanksIncrease
  <2>2. ASSUME NEW i \in places, NEW j \in places, f[i] = f[j] PROVE i = j
    <3>1. ~(i < j) /\ ~(j < i)
      BY <2>1, <2>2
    <3> QED BY <3>1
  <2> QED BY <2>1, <2>2
<1> HIDE DEF f
<1>2. f \in Surjection(places, T) /\ f \in Injection(places, T)
  <2>1. f \in [places -> T]
    BY DEF f
  <2> QED BY <2>1, <1>1 DEF Surjection, Injection, IsInjective
<1>3. IsFiniteSet(T) /\ Cardinality(T) = c
  BY <1>1, <1>2, FS_Surjection
<1>4. T \in SUBSET (1..c)
  BY <1>1
<1>5. IsFiniteSet(1..c) /\ Cardinality(1..c) = c
  BY <1>1, FS_Interval
<1>6. 1..c = T
  <2> HIDE DEF T, c
  <2> QED BY <1>3, <1>4, <1>5, FS_Subset
<1>7. ASSUME NEW k \in 1..c PROVE \E i \in places : Rank(places, i) = k
  <2>1. k \in T
    BY <1>6
  <2> QED BY <2>1 DEF f
<1> QED BY <1>7

LEMMA KeptLeaves ==
    ASSUME NEW S, NEW s \in Seq(S), NEW places \in SUBSET (DOMAIN s)
    PROVE  /\ Kept(s, places) \in Seq(S)
           /\ Len(Kept(s, places)) = Cardinality(places)
           /\ Cardinality(places) \in 0..Len(s)
           /\ LeftOf(Kept(s, places), s)
           /\ Members(Kept(s, places)) = {s[i] : i \in places}
           /\ \A i \in places : /\ Rank(places, i) \in DOMAIN Kept(s, places)
                                /\ Kept(s, places)[Rank(places, i)] = s[i]
<1> DEFINE c == Cardinality(places)
           place == [k \in 1..c |-> CHOOSE i \in places : Rank(places, i) = k]
           t == Kept(s, places)
<1>1. Len(s) \in Nat /\ DOMAIN s = 1..Len(s) /\ \A i \in DOMAIN s : s[i] \in S
  BY LenProperties, ElementOfSeq
<1>2. /\ c \in 0..Len(s)
      /\ \A i \in places : Rank(places, i) \in 1..c
      /\ \A i, j \in places : i < j <=> Rank(places, i) < Rank(places, j)
  BY <1>1, RanksIncrease
<1>3. \A k \in 1..c : place[k] \in places /\ Rank(places, place[k]) = k
  BY <1>1, EveryRankIsTaken
<1>4. t = [k \in 1..c |-> s[place[k]]]
  BY DEF Kept
<1> HIDE DEF place, t
<1>5. t \in [1..c -> S]
  BY <1>1, <1>3, <1>4
<1> HIDE DEF c
<1>6. t \in Seq(S) /\ Len(t) = c /\ DOMAIN t = 1..c
  <2>1. c \in Nat
    BY <1>1, <1>2
  <2>2. t \in Seq(S)
    BY <2>1, <1>5, SeqDef
  <2>3. Len(t) \in Nat /\ DOMAIN t = 1..Len(t) /\ DOMAIN t = 1..c
    BY <2>2, <1>5, LenProperties
  <2>4. Len(t) = c
    BY ONLY <2>1, <2>3, IntervalsEqual
  <2> QED BY <2>2, <2>3, <2>4
<1>7. ASSUME NEW i \in places
      PROVE  Rank(places, i) \in DOMAIN t /\ t[Rank(places, i)] = s[i]
  <2> DEFINE k == Rank(places, i)
  <2>1. k \in 1..c
    BY <1>2
  <2>2. place[k] \in places /\ Rank(places, place[k]) = k
    BY <2>1, <1>3
  <2>3. ~(place[k] < i) /\ ~(i < place[k])
    <3>1. k \in Nat
      BY <2>1
    <3> QED BY <2>2, <3>1, <1>2
  <2>4. place[k] = i
    BY <2>2, <2>3, <1>1
  <2> QED BY <2>1, <2>4, <1>4, <1>6
<1>8. Members(t) = {s[i] : i \in places}
  BY <1>3, <1>4, <1>6, <1>7 DEF Members
<1>9. ASSUME NEW i \in DOMAIN t, NEW j \in DOMAIN t, i < j
      PROVE  place[i] < place[j]
  BY <1>2, <1>3, <1>6, <1>9
<1>10. LeftOf(t, s)
  <2>1. place \in [DOMAIN t -> DOMAIN s]
    <3>1. DOMAIN place = 1..c /\ place = [k \in DOMAIN place |-> place[k]]
      BY DEF place
    <3> QED BY <3>1, <1>3, <1>6
  <2>2. \A i \in DOMAIN t : t[i] = s[place[i]]
    BY <1>4, <1>6
  <2> QED BY <2>1, <2>2, <1>9 DEF LeftOf
<1> QED BY <1>2, <1>6, <1>7, <1>8, <1>10 DEF t, c

(* All of the entries, or those that are and those that are not.           *)
LEMMA KeptParts ==
    ASSUME NEW n \in Nat, NEW places \in SUBSET (1..n)
    PROVE  /\ Cardinality(places) + Cardinality((1..n) \ places) = n
           /\ Cardinality(places) = n => places = 1..n
<1> DEFINE rest == (1..n) \ places
<1>1. IsFiniteSet(1..n) /\ Cardinality(1..n) = n
  BY FS_Interval
<1>2. IsFiniteSet(places) /\ (Cardinality(places) = n => places = 1..n)
  BY <1>1, FS_Subset
<1>3. IsFiniteSet(rest)
  BY <1>1, FS_Subset
<1>4. places \cup rest = 1..n /\ places \cap rest = {}
  OBVIOUS
<1>5. Cardinality(places) \in Nat /\ Cardinality(rest) \in Nat
  BY <1>2, <1>3, FS_CardinalityType
<1>6. Cardinality(places \cup rest)
          = Cardinality(places) + Cardinality(rest) - Cardinality(places \cap rest)
  BY <1>2, <1>3, FS_Union
<1>7. Cardinality(places \cap rest) = 0
  BY <1>4, FS_EmptySet
<1> HIDE DEF rest
<1>9. Cardinality(places \cup rest) = n
  BY <1>1, <1>4, Zenon
<1>8. Cardinality(places) + Cardinality(rest) = n
  BY <1>5, <1>6, <1>7, <1>9
<1> QED BY <1>2, <1>8 DEF rest

(* A sequence that is not empty has a first element.                       *)
LEMMA FirstOfSeq ==
    ASSUME NEW S, NEW s \in Seq(S), s # <<>>
    PROVE  Len(s) \in Nat /\ 1 \in 1..Len(s) /\ 1 \in DOMAIN s /\ s[1] \in S
<1>1. Len(s) \in Nat /\ DOMAIN s = 1..Len(s)
  BY LenProperties
<1>2. Len(s) # 0
  BY EmptySeq
<1>3. 1 \in 1..Len(s)
  BY <1>1, <1>2
<1> QED BY <1>1, <1>3, ElementOfSeq

(* What keeps every place changes nothing.                                 *)
LEMMA KeptAll ==
    ASSUME NEW S, NEW s \in Seq(S)
    PROVE  Kept(s, DOMAIN s) = s
<1> DEFINE n == Len(s)
<1>1. n \in Nat /\ DOMAIN s = 1..n /\ s \in [1..n -> S]
  BY LenProperties
<1> HIDE DEF n
<1>2. ASSUME NEW i \in 1..n PROVE Rank(1..n, i) = i
  <2>1. {j \in 1..n : j <= i} = 1..i
    BY <1>1
  <2>2. Cardinality(1..i) = i
    BY FS_Interval
  <2> QED BY <2>1, <2>2 DEF Rank
<1>3. Cardinality(1..n) = n
  BY <1>1, FS_Interval
<1>4. \A k \in 1..n : (CHOOSE i \in 1..n : Rank(1..n, i) = k) = k
  BY <1>2
<1>5. Kept(s, 1..n) = [k \in 1..n |-> s[CHOOSE i \in 1..n : Rank(1..n, i) = k]]
  BY <1>3 DEF Kept
<1>6. Kept(s, 1..n) = [k \in 1..n |-> s[k]]
  BY <1>4, <1>5
<1> QED BY <1>1, <1>6

(* Counting, for each of n things, those up to it in a total order gives   *)
(* each a place of its own, in that order.                                 *)
UpTo(n, R, i) == {j \in 1..n : <<j, i>> \in R}

LEMMA CountsAreThePlaces ==
    ASSUME NEW n \in Nat, NEW R,
           \A i, j \in 1..n : <<i, j>> \in R \/ <<j, i>> \in R,
           \A i, j \in 1..n : <<i, j>> \in R /\ <<j, i>> \in R => i = j,
           \A i, j, k \in 1..n : <<i, j>> \in R /\ <<j, k>> \in R => <<i, k>> \in R
    PROVE  /\ \A i \in 1..n : Cardinality(UpTo(n, R, i)) \in 1..n
           /\ \A i, j \in 1..n : i # j /\ <<i, j>> \in R =>
                  Cardinality(UpTo(n, R, i)) < Cardinality(UpTo(n, R, j))
           /\ \A k \in 1..n : \E i \in 1..n : Cardinality(UpTo(n, R, i)) = k
<1> DEFINE count == [i \in 1..n |-> Cardinality(UpTo(n, R, i))]
           T == {count[i] : i \in 1..n}
<1>1. IsFiniteSet(1..n) /\ Cardinality(1..n) = n
  BY FS_Interval
<1>2. ASSUME NEW i \in 1..n
      PROVE  IsFiniteSet(UpTo(n, R, i)) /\ Cardinality(UpTo(n, R, i)) \in 1..n
  <2>1. UpTo(n, R, i) \in SUBSET (1..n) /\ i \in UpTo(n, R, i)
    BY DEF UpTo
  <2>2. IsFiniteSet(UpTo(n, R, i)) /\ Cardinality(UpTo(n, R, i)) <= n
    BY <1>1, <2>1, FS_Subset
  <2>3. Cardinality(UpTo(n, R, i)) \in Nat /\ Cardinality(UpTo(n, R, i)) # 0
    BY <2>1, <2>2, FS_CardinalityType, FS_EmptySet
  <2> QED BY <2>2, <2>3
<1>3. ASSUME NEW i \in 1..n, NEW j \in 1..n, i # j, <<i, j>> \in R
      PROVE  Cardinality(UpTo(n, R, i)) < Cardinality(UpTo(n, R, j))
  <2>1. UpTo(n, R, i) \in SUBSET UpTo(n, R, j)
    BY <1>3 DEF UpTo
  <2>2. j \in UpTo(n, R, j) /\ j \notin UpTo(n, R, i)
    BY <1>3 DEF UpTo
  <2>3. /\ IsFiniteSet(UpTo(n, R, j))
        /\ Cardinality(UpTo(n, R, i)) \in 1..n /\ Cardinality(UpTo(n, R, j)) \in 1..n
    BY <1>2
  <2>4. /\ Cardinality(UpTo(n, R, i)) <= Cardinality(UpTo(n, R, j))
        /\ Cardinality(UpTo(n, R, j)) = Cardinality(UpTo(n, R, i))
               => UpTo(n, R, j) = UpTo(n, R, i)
    BY <2>1, <2>3, FS_Subset
  <2> QED BY <2>2, <2>3, <2>4
<1>4. \A i \in 1..n : count[i] \in 1..n
  BY <1>2
<1>5. \A i, j \in 1..n : count[i] = count[j] => i = j
  <2>1. ASSUME NEW i \in 1..n, NEW j \in 1..n, count[i] = count[j], i # j PROVE FALSE
    <3>1. count[i] < count[j] \/ count[j] < count[i]
      BY <1>3, <2>1
    <3>2. count[i] \in 1..n /\ count[j] \in 1..n
      BY <1>4
    <3> HIDE DEF count
    <3> QED BY <2>1, <3>1, <3>2
  <2> QED BY <2>1
<1>6. count \in Surjection(1..n, T) /\ count \in Injection(1..n, T)
  <2>1. count \in [1..n -> T]
    OBVIOUS
  <2> HIDE DEF count
  <2> QED BY <2>1, <1>5 DEF Surjection, Injection, IsInjective
<1>7. IsFiniteSet(T) /\ Cardinality(T) = n
  BY <1>1, <1>6, FS_Surjection
<1>8. T \in SUBSET (1..n)
  BY <1>4
<1>9. 1..n = T
  <2> HIDE DEF T
  <2> QED BY <1>1, <1>7, <1>8, FS_Subset
<1>10. ASSUME NEW k \in 1..n PROVE \E i \in 1..n : Cardinality(UpTo(n, R, i)) = k
  <2>1. k \in T
    BY <1>9
  <2> QED BY <2>1
<1> HIDE DEF count
<1> QED BY <1>2, <1>3, <1>10
=============================================================================
