---------------------------- MODULE SequenceLemmas ----------------------------
(* What the operators on sequences that the modules are built from return:  *)
(* facts that the library's theorems do not state.                          *)
EXTENDS Naturals, SequencesExt, TLAPS, SequenceTheorems

LEMMA ToSetOfEmpty == ToSet(<<>>) = {}
  BY EmptySeq DEF ToSet

LEMMA ToSetOfSeq ==
  ASSUME NEW S, NEW s \in Seq(S)
  PROVE  ToSet(s) = {s[i] : i \in 1..Len(s)} /\ ToSet(s) \subseteq S
  BY LenProperties, ElementOfSeq DEF ToSet

LEMMA RemoveAtType ==
  ASSUME NEW S, NEW s \in Seq(S), NEW i \in 1..Len(s)
  PROVE  RemoveAt(s, i) \in Seq(S)
  BY SubSeqProperties, ConcatProperties DEF RemoveAt

\* Appending adds one element.
LEMMA ToSetOfAppend ==
  ASSUME NEW S, NEW s \in Seq(S), NEW c \in S
  PROVE  ToSet(Append(s, c)) = ToSet(s) \cup {c}
<1>1. Append(s, c) \in Seq(S) /\ Len(Append(s, c)) = Len(s) + 1
  BY AppendProperties
<1>2. \A i \in 1..Len(s) : Append(s, c)[i] = s[i]
  BY AppendProperties
<1>3. Append(s, c)[Len(s) + 1] = c
  BY AppendProperties
<1>4. Len(s) \in Nat
  BY LenProperties
<1>5. 1..(Len(s) + 1) = 1..Len(s) \cup {Len(s) + 1}
  BY <1>4
<1>6. ToSet(Append(s, c)) = {Append(s, c)[i] : i \in 1..(Len(s) + 1)}
  BY <1>1, ToSetOfSeq
<1>7. ToSet(s) = {s[i] : i \in 1..Len(s)}
  BY ToSetOfSeq
<1>8. {Append(s, c)[i] : i \in 1..Len(s)} = {s[i] : i \in 1..Len(s)}
  BY <1>2
<1> QED BY <1>3, <1>5, <1>6, <1>7, <1>8

\* Removing the element at i moves the later ones down.
LEMMA RemoveAtElements ==
  ASSUME NEW S, NEW s \in Seq(S), NEW i \in 1..Len(s)
  PROVE  /\ RemoveAt(s, i) \in Seq(S)
         /\ Len(RemoveAt(s, i)) = Len(s) - 1
         /\ \A j \in 1..(Len(s) - 1) : RemoveAt(s, i)[j] = IF j < i THEN s[j] ELSE s[j + 1]
<1> DEFINE front == SubSeq(s, 1, i - 1)
           back == SubSeq(s, i + 1, Len(s))
<1>1. Len(s) \in Nat
  BY LenProperties
<1>2. front \in Seq(S) /\ Len(front) = i - 1 /\ (\A j \in 1..(i-1) : front[j] = s[j])
  BY <1>1, SubSeqProperties
<1>3. back \in Seq(S) /\ Len(back) = Len(s) - i /\ (\A j \in 1..(Len(s) - i) : back[j] = s[i + j])
  BY <1>1, SubSeqProperties
<1>4. /\ RemoveAt(s, i) \in Seq(S)
      /\ Len(RemoveAt(s, i)) = Len(s) - 1
      /\ \A j \in 1..(Len(s) - 1) : RemoveAt(s, i)[j] = IF j < i THEN s[j] ELSE s[j + 1]
  <2> HIDE DEF front, back
  <2>1. RemoveAt(s, i) = front \o back
    BY DEF RemoveAt, front, back
  <2>2. /\ RemoveAt(s, i) \in Seq(S)
        /\ Len(RemoveAt(s, i)) = Len(front) + Len(back)
        /\ \A j \in 1..(Len(front) + Len(back)) :
             RemoveAt(s, i)[j] = IF j <= Len(front) THEN front[j] ELSE back[j - Len(front)]
    <3>1. front \in Seq(S) /\ back \in Seq(S)
      BY <1>2, <1>3
    <3>2. /\ front \o back \in Seq(S)
          /\ Len(front \o back) = Len(front) + Len(back)
          /\ \A j \in 1..(Len(front) + Len(back)) :
               (front \o back)[j] = IF j <= Len(front) THEN front[j] ELSE back[j - Len(front)]
      BY <3>1, ConcatProperties
    <3> QED BY <2>1, <3>2
  <2>3. ASSUME NEW j \in 1..(Len(s) - 1), j < i PROVE RemoveAt(s, i)[j] = s[j]
    <3>1. j \in Int /\ i \in Int /\ Len(front) = i - 1
      BY <1>1, <1>2
    <3>2. j <= Len(front) /\ j \in 1..(i - 1)
      BY <2>3, <3>1
    <3>3. j \in 1..(Len(front) + Len(back))
      BY <3>1, <1>1, <1>3
    <3>4. RemoveAt(s, i)[j] = front[j]
      BY <2>2, <3>2, <3>3
    <3> QED BY <3>2, <3>4, <1>2
  <2>4. ASSUME NEW j \in 1..(Len(s) - 1), ~(j < i) PROVE RemoveAt(s, i)[j] = s[j + 1]
    <3>1. j - (i - 1) \in 1..(Len(s) - i) /\ i + (j - (i - 1)) = j + 1
      BY <2>4, <1>1
    <3>2. RemoveAt(s, i)[j] = back[j - (i - 1)]
      <4>1. j \in Int /\ i \in Int /\ Len(front) = i - 1
        BY <1>1, <1>2
      <4>2. ~(j <= Len(front))
        BY <2>4, <4>1
      <4>3. j \in 1..(Len(front) + Len(back))
        BY <4>1, <1>1, <1>3
      <4>4. RemoveAt(s, i)[j] = back[j - Len(front)]
        BY <2>2, <4>2, <4>3
      <4> QED BY <4>1, <4>4
    <3>3. back[j - (i - 1)] = s[i + (j - (i - 1))]
      BY <3>1, <1>3
    <3> QED BY <3>1, <3>2, <3>3
  <2> QED BY <2>2, <2>3, <2>4, <1>1, <1>2, <1>3
<1> QED BY <1>4

\* The other elements stay.
LEMMA ToSetOfRemoveAt ==
  ASSUME NEW S, NEW s \in Seq(S), NEW i \in 1..Len(s)
  PROVE  \A c \in ToSet(s) : c # s[i] => c \in ToSet(RemoveAt(s, i))
<1>1. Len(s) \in Nat
  BY LenProperties
<1>2. /\ RemoveAt(s, i) \in Seq(S)
      /\ Len(RemoveAt(s, i)) = Len(s) - 1
      /\ \A j \in 1..(Len(s) - 1) : RemoveAt(s, i)[j] = IF j < i THEN s[j] ELSE s[j + 1]
  BY RemoveAtElements
<1> SUFFICES ASSUME NEW j \in 1..Len(s), s[j] # s[i]
             PROVE  s[j] \in ToSet(RemoveAt(s, i))
  BY ToSetOfSeq
<1>3. CASE j < i
  BY <1>1, <1>2, <1>3, ToSetOfSeq
<1>4. CASE j > i
  <2>1. j - 1 \in 1..(Len(s) - 1) /\ RemoveAt(s, i)[j - 1] = s[j]
    BY <1>1, <1>2, <1>4
  <2> QED BY <2>1, <1>2, ToSetOfSeq
<1> QED BY <1>1, <1>3, <1>4

-----------------------------------------------------------------------------
(* Sequences without repetitions                                            *)

LEMMA AppendKeepsInjective ==
  ASSUME NEW S, NEW s \in Seq(S), IsInjective(s), NEW c \in S, c \notin ToSet(s)
  PROVE  IsInjective(Append(s, c))
<1> DEFINE r == Append(s, c)
<1>1. /\ Len(s) \in Nat /\ DOMAIN s = 1..Len(s) /\ DOMAIN r = 1..(Len(s) + 1)
      /\ \A i \in 1..Len(s) : r[i] = s[i]
      /\ r[Len(s) + 1] = c
  BY AppendProperties, LenProperties
<1> HIDE DEF r
<1>2. \A i \in 1..Len(s) : s[i] # c
  BY <1>1 DEF ToSet
<1>3. \A i, j \in 1..Len(s) : s[i] = s[j] => i = j
  BY <1>1 DEF IsInjective
<1>4. ASSUME NEW i \in 1..(Len(s) + 1), NEW j \in 1..(Len(s) + 1), r[i] = r[j]
      PROVE  i = j
  BY <1>1, <1>2, <1>3, <1>4
<1> QED BY <1>1, <1>4 DEF IsInjective, r

\* What is removed is gone.
LEMMA RemoveAtKeepsInjective ==
  ASSUME NEW S, NEW s \in Seq(S), IsInjective(s), NEW i \in 1..Len(s)
  PROVE  IsInjective(RemoveAt(s, i)) /\ s[i] \notin ToSet(RemoveAt(s, i))
<1> DEFINE r == RemoveAt(s, i)
<1>1. /\ Len(s) \in Nat /\ DOMAIN s = 1..Len(s) /\ DOMAIN r = 1..(Len(s) - 1)
      /\ \A j \in 1..(Len(s) - 1) : r[j] = IF j < i THEN s[j] ELSE s[j + 1]
  BY RemoveAtElements, LenProperties
<1> HIDE DEF r
<1>2. \A j, k \in 1..Len(s) : s[j] = s[k] => j = k
  BY <1>1 DEF IsInjective
<1>3. \A j \in 1..(Len(s) - 1) : r[j] # s[i]
  BY <1>1, <1>2
<1>4. ASSUME NEW j \in 1..(Len(s) - 1), NEW k \in 1..(Len(s) - 1), r[j] = r[k]
      PROVE  j = k
  <2>1. CASE j < i /\ k < i
    BY <1>1, <1>2, <1>4, <2>1
  <2>2. CASE j < i /\ ~(k < i)
    BY <1>1, <1>2, <1>4, <2>2
  <2>3. CASE ~(j < i) /\ k < i
    BY <1>1, <1>2, <1>4, <2>3
  <2>4. CASE ~(j < i) /\ ~(k < i)
    <3>1. s[j + 1] = s[k + 1] /\ j + 1 \in 1..Len(s) /\ k + 1 \in 1..Len(s)
      BY <1>1, <1>4, <2>4
    <3>2. j + 1 = k + 1
      BY <1>2, <3>1
    <3> QED BY <3>2
  <2> QED BY <2>1, <2>2, <2>3, <2>4
<1> QED BY <1>1, <1>3, <1>4 DEF IsInjective, ToSet, r

\* What is taken from the front is gone.
LEMMA TailKeepsInjective ==
  ASSUME NEW S, NEW s \in Seq(S), IsInjective(s), s # <<>>
  PROVE  /\ Tail(s) \in Seq(S) /\ IsInjective(Tail(s))
         /\ Head(s) \in ToSet(s)
         /\ ToSet(Tail(s)) = ToSet(s) \ {Head(s)}
<1> DEFINE r == Tail(s)
<1>1. /\ r \in Seq(S) /\ Head(s) = s[1]
      /\ Len(s) \in Nat \ {0} /\ DOMAIN s = 1..Len(s) /\ DOMAIN r = 1..(Len(s) - 1)
      /\ \A i \in 1..(Len(s) - 1) : r[i] = s[i + 1]
  BY HeadTailProperties, LenProperties, EmptySeq
<1> HIDE DEF r
<1>2. \A i, j \in 1..Len(s) : s[i] = s[j] => i = j
  BY <1>1 DEF IsInjective
<1>3. IsInjective(r)
  <2> SUFFICES ASSUME NEW i \in 1..(Len(s) - 1), NEW j \in 1..(Len(s) - 1), r[i] = r[j]
               PROVE  i = j
    BY <1>1 DEF IsInjective
  <2>1. i + 1 \in 1..Len(s) /\ j + 1 \in 1..Len(s) /\ s[i + 1] = s[j + 1]
    BY <1>1
  <2>2. i + 1 = j + 1
    BY <1>2, <2>1
  <2> QED BY <2>2
<1>4. ToSet(r) \subseteq ToSet(s) \ {s[1]}
  <2> SUFFICES ASSUME NEW i \in 1..(Len(s) - 1)
               PROVE  r[i] \in ToSet(s) /\ r[i] # s[1]
    BY <1>1 DEF ToSet
  <2>1. i + 1 \in 1..Len(s) /\ i + 1 # 1 /\ 1 \in 1..Len(s) /\ r[i] = s[i + 1]
    BY <1>1
  <2> QED BY <1>1, <1>2, <2>1 DEF ToSet
<1>5. ToSet(s) \ {s[1]} \subseteq ToSet(r)
  <2> SUFFICES ASSUME NEW i \in 1..Len(s), s[i] # s[1]
               PROVE  s[i] \in ToSet(r)
    BY <1>1 DEF ToSet
  <2>1. i - 1 \in 1..(Len(s) - 1) /\ r[i - 1] = s[(i - 1) + 1] /\ (i - 1) + 1 = i
    BY <1>1
  <2> QED BY <1>1, <2>1 DEF ToSet
<1>6. s[1] \in ToSet(s)
  BY <1>1 DEF ToSet
<1> QED BY <1>1, <1>3, <1>4, <1>5, <1>6 DEF r

\* Exactly the element removed is gone.
LEMMA RemoveAtSet ==
  ASSUME NEW S, NEW s \in Seq(S), IsInjective(s), NEW i \in 1..Len(s)
  PROVE  ToSet(RemoveAt(s, i)) = ToSet(s) \ {s[i]}
<1> DEFINE r == RemoveAt(s, i)
<1>1. /\ Len(s) \in Nat /\ DOMAIN s = 1..Len(s) /\ DOMAIN r = 1..(Len(s) - 1)
      /\ \A j \in 1..(Len(s) - 1) : r[j] = IF j < i THEN s[j] ELSE s[j + 1]
      /\ s[i] \notin ToSet(r)
      /\ \A c \in ToSet(s) : c # s[i] => c \in ToSet(r)
  BY RemoveAtElements, RemoveAtKeepsInjective, ToSetOfRemoveAt, LenProperties
<1> HIDE DEF r
<1>2. \A j \in 1..(Len(s) - 1) : r[j] \in ToSet(s)
  BY <1>1 DEF ToSet
<1>3. ToSet(r) \subseteq ToSet(s)
  BY <1>1, <1>2 DEF ToSet
<1> QED BY <1>1, <1>3 DEF r

-----------------------------------------------------------------------------
(* The order of the elements                                                *)

Before(s, x, y) == \E i, j \in DOMAIN s : i < j /\ s[i] = x /\ s[j] = y

\* In a sequence without repetitions it is a strict total order.
LEMMA BeforeIsOrder ==
  ASSUME NEW S, NEW s \in Seq(S), IsInjective(s)
  PROVE  /\ \A x, y : Before(s, x, y) => x \in ToSet(s) /\ y \in ToSet(s) /\ x # y
         /\ \A x, y : ~(Before(s, x, y) /\ Before(s, y, x))
         /\ \A x, y, z : Before(s, x, y) /\ Before(s, y, z) => Before(s, x, z)
         /\ \A x, y \in ToSet(s) : x = y \/ Before(s, x, y) \/ Before(s, y, x)
<1>1. /\ Len(s) \in Nat /\ DOMAIN s = 1..Len(s)
      /\ \A i, j \in 1..Len(s) : s[i] = s[j] => i = j
  BY LenProperties DEF IsInjective
<1>2. ASSUME NEW x, NEW y, Before(s, x, y)
      PROVE  x \in ToSet(s) /\ y \in ToSet(s) /\ x # y
  BY <1>1, <1>2 DEF Before, ToSet
<1>3. ASSUME NEW x, NEW y, Before(s, x, y), Before(s, y, x)
      PROVE  FALSE
  <2>1. PICK i \in 1..Len(s), j \in 1..Len(s) : i < j /\ s[i] = x /\ s[j] = y
    BY <1>1, <1>3 DEF Before
  <2>2. PICK k \in 1..Len(s), l \in 1..Len(s) : k < l /\ s[k] = y /\ s[l] = x
    BY <1>1, <1>3 DEF Before
  <2>3. k = j /\ l = i
    BY <1>1, <2>1, <2>2
  <2> QED BY <1>1, <2>1, <2>2, <2>3
<1>4. ASSUME NEW x, NEW y, NEW z, Before(s, x, y), Before(s, y, z)
      PROVE  Before(s, x, z)
  <2>1. PICK i \in 1..Len(s), j \in 1..Len(s) : i < j /\ s[i] = x /\ s[j] = y
    BY <1>1, <1>4 DEF Before
  <2>2. PICK k \in 1..Len(s), l \in 1..Len(s) : k < l /\ s[k] = y /\ s[l] = z
    BY <1>1, <1>4 DEF Before
  <2>3. k = j
    BY <1>1, <2>1, <2>2
  <2>4. i < l
    BY <1>1, <2>1, <2>2, <2>3
  <2> QED BY <1>1, <2>1, <2>2, <2>4 DEF Before
<1>5. ASSUME NEW x \in ToSet(s), NEW y \in ToSet(s), x # y
      PROVE  Before(s, x, y) \/ Before(s, y, x)
  <2>1. PICK i \in 1..Len(s), j \in 1..Len(s) : s[i] = x /\ s[j] = y
    BY <1>1 DEF ToSet
  <2>2. i < j \/ j < i
    BY <1>1, <1>5, <2>1
  <2> QED BY <1>1, <2>1, <2>2 DEF Before
<1> QED BY <1>2, <1>3, <1>4, <1>5

\* The new element comes after all others.
LEMMA BeforeAppend ==
  ASSUME NEW S, NEW s \in Seq(S), NEW c \in S
  PROVE  \A x, y : Before(Append(s, c), x, y) <=> Before(s, x, y) \/ (x \in ToSet(s) /\ y = c)
<1> DEFINE r == Append(s, c)
<1>1. /\ Len(s) \in Nat /\ DOMAIN s = 1..Len(s) /\ DOMAIN r = 1..(Len(s) + 1)
      /\ \A i \in 1..Len(s) : r[i] = s[i]
      /\ r[Len(s) + 1] = c
  BY AppendProperties, LenProperties
<1> HIDE DEF r
<1>2. ASSUME NEW x, NEW y, Before(r, x, y)
      PROVE  Before(s, x, y) \/ (x \in ToSet(s) /\ y = c)
  <2>1. PICK i \in 1..(Len(s) + 1), j \in 1..(Len(s) + 1) : i < j /\ r[i] = x /\ r[j] = y
    BY <1>1, <1>2 DEF Before
  <2>2. i \in 1..Len(s) /\ s[i] = x
    BY <1>1, <2>1
  <2>3. CASE j = Len(s) + 1
    BY <1>1, <2>1, <2>2, <2>3 DEF ToSet
  <2>4. CASE j # Len(s) + 1
    <3>1. j \in 1..Len(s) /\ s[j] = y
      BY <1>1, <2>1, <2>4
    <3> QED BY <1>1, <2>1, <2>2, <3>1 DEF Before
  <2> QED BY <2>3, <2>4
<1>3. ASSUME NEW x, NEW y, Before(s, x, y)
      PROVE  Before(r, x, y)
  <2>1. PICK i \in 1..Len(s), j \in 1..Len(s) : i < j /\ s[i] = x /\ s[j] = y
    BY <1>1, <1>3 DEF Before
  <2>2. /\ i \in 1..(Len(s) + 1) /\ j \in 1..(Len(s) + 1)
        /\ r[i] = x /\ r[j] = y
    BY <1>1, <2>1
  <2> QED BY <1>1, <2>1, <2>2 DEF Before
<1>4. ASSUME NEW x \in ToSet(s)
      PROVE  Before(r, x, c)
  <2>1. PICK i \in 1..Len(s) : s[i] = x
    BY <1>1 DEF ToSet
  <2>2. /\ i \in 1..(Len(s) + 1) /\ Len(s) + 1 \in 1..(Len(s) + 1) /\ i < Len(s) + 1
        /\ r[i] = x /\ r[Len(s) + 1] = c
    BY <1>1, <2>1
  <2> QED BY <1>1, <2>2 DEF Before
<1> QED BY <1>2, <1>3, <1>4 DEF r

\* The others keep their order when the first is taken ...
LEMMA BeforeTail ==
  ASSUME NEW S, NEW s \in Seq(S), s # <<>>
  PROVE  \A x, y : Before(s, x, y) /\ x # Head(s) => Before(Tail(s), x, y)
<1> DEFINE r == Tail(s)
<1>1. /\ Head(s) = s[1]
      /\ Len(s) \in Nat \ {0} /\ DOMAIN s = 1..Len(s) /\ DOMAIN r = 1..(Len(s) - 1)
      /\ \A i \in 1..(Len(s) - 1) : r[i] = s[i + 1]
  BY HeadTailProperties, LenProperties, EmptySeq
<1> HIDE DEF r
<1> SUFFICES ASSUME NEW x, NEW y, Before(s, x, y), x # s[1]
             PROVE  Before(r, x, y)
  BY <1>1 DEF r
<1>2. PICK i \in 1..Len(s), j \in 1..Len(s) : i < j /\ s[i] = x /\ s[j] = y
  BY <1>1 DEF Before
<1>3. /\ i - 1 \in 1..(Len(s) - 1) /\ j - 1 \in 1..(Len(s) - 1) /\ i - 1 < j - 1
      /\ (i - 1) + 1 = i /\ (j - 1) + 1 = j
  BY <1>1, <1>2
<1>4. r[i - 1] = x /\ r[j - 1] = y
  BY <1>1, <1>2, <1>3
<1> QED BY <1>1, <1>3, <1>4 DEF Before

\* ... and nothing is before the first.
LEMMA BeforeHead ==
  ASSUME NEW S, NEW s \in Seq(S), IsInjective(s), s # <<>>
  PROVE  \A x : ~Before(s, x, Head(s))
<1>1. /\ Head(s) = s[1]
      /\ Len(s) \in Nat \ {0} /\ DOMAIN s = 1..Len(s)
      /\ \A i, j \in 1..Len(s) : s[i] = s[j] => i = j
  BY HeadTailProperties, LenProperties, EmptySeq DEF IsInjective
<1> SUFFICES ASSUME NEW i \in 1..Len(s), NEW j \in 1..Len(s), i < j, s[j] = s[1]
             PROVE  FALSE
  BY <1>1 DEF Before
<1>2. j = 1
  BY <1>1
<1> QED BY <1>1, <1>2

\* Or when any other is removed.
LEMMA BeforeRemoveAt ==
  ASSUME NEW S, NEW s \in Seq(S), IsInjective(s), NEW k \in 1..Len(s)
  PROVE  \A x, y : Before(RemoveAt(s, k), x, y) <=> Before(s, x, y) /\ x # s[k] /\ y # s[k]
<1> DEFINE r == RemoveAt(s, k)
<1>1. /\ Len(s) \in Nat /\ DOMAIN s = 1..Len(s) /\ DOMAIN r = 1..(Len(s) - 1)
      /\ \A j \in 1..(Len(s) - 1) : r[j] = IF j < k THEN s[j] ELSE s[j + 1]
      /\ \A i, j \in 1..Len(s) : s[i] = s[j] => i = j
      /\ s[k] \notin ToSet(r)
  <2>1. s[k] \notin ToSet(r)
    BY RemoveAtKeepsInjective
  <2>2. /\ r \in Seq(S) /\ Len(r) = Len(s) - 1
        /\ \A j \in 1..(Len(s) - 1) : r[j] = IF j < k THEN s[j] ELSE s[j + 1]
    BY RemoveAtElements
  <2>3. DOMAIN s = 1..Len(s) /\ Len(s) \in Nat /\ DOMAIN r = 1..(Len(s) - 1)
    BY <2>2, LenProperties
  <2> QED BY <2>1, <2>2, <2>3 DEF IsInjective
<1> HIDE DEF r
<1>2. ASSUME NEW x, NEW y, Before(r, x, y)
      PROVE  Before(s, x, y) /\ x # s[k] /\ y # s[k]
  <2>1. PICK i \in 1..(Len(s) - 1), j \in 1..(Len(s) - 1) : i < j /\ r[i] = x /\ r[j] = y
    BY <1>1, <1>2 DEF Before
  <2>2. x # s[k] /\ y # s[k]
    BY <1>1, <2>1 DEF ToSet
  <2> DEFINE a == IF i < k THEN i ELSE i + 1
             b == IF j < k THEN j ELSE j + 1
  <2>3. a \in 1..Len(s) /\ b \in 1..Len(s) /\ a < b
    BY <1>1, <2>1
  <2>4. s[a] = x /\ s[b] = y
    BY <1>1, <2>1
  <2> QED BY <1>1, <2>2, <2>3, <2>4 DEF Before
<1>3. ASSUME NEW x, NEW y, Before(s, x, y), x # s[k], y # s[k]
      PROVE  Before(r, x, y)
  <2>1. PICK i \in 1..Len(s), j \in 1..Len(s) : i < j /\ s[i] = x /\ s[j] = y
    BY <1>1, <1>3 DEF Before
  <2>2. i # k /\ j # k
    BY <1>3, <2>1
  <2> DEFINE a == IF i < k THEN i ELSE i - 1
             b == IF j < k THEN j ELSE j - 1
  <2>3. a \in 1..(Len(s) - 1) /\ b \in 1..(Len(s) - 1) /\ a < b
    BY <1>1, <2>1, <2>2
  <2>4. r[a] = x
    <3>1. CASE i < k
      BY <1>1, <2>1, <2>3, <3>1
    <3>2. CASE ~(i < k)
      <4>1. a = i - 1 /\ ~(a < k) /\ a + 1 = i
        BY <1>1, <2>1, <2>2, <3>2
      <4> QED BY <1>1, <2>1, <2>3, <4>1
    <3> QED BY <3>1, <3>2
  <2>5. r[b] = y
    <3>1. CASE j < k
      BY <1>1, <2>1, <2>3, <3>1
    <3>2. CASE ~(j < k)
      <4>1. b = j - 1 /\ ~(b < k) /\ b + 1 = j
        BY <1>1, <2>1, <2>2, <3>2
      <4> QED BY <1>1, <2>1, <2>3, <4>1
    <3> QED BY <3>1, <3>2
  <2> HIDE DEF a, b
  <2> QED BY <1>1, <2>3, <2>4, <2>5 DEF Before
<1> QED BY <1>2, <1>3 DEF r
=============================================================================
