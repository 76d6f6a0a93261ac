---------------------------- MODULE SequenceFacts ----------------------------
(***************************************************************************)
(* General facts that the proofs about the components share: induction     *)
(* over the natural numbers, stated for a set of numbers, sequences, and   *)
(* places in them.                                                         *)
(***************************************************************************)
EXTENDS Integers, NumberSets, SequencesExt, SequenceTheorems, FiniteSetTheorems,
        WellFoundedInduction, TLAPS

LessThan == {ss \in Nat \X Nat : ss[1] < ss[2]}

\* A set of natural numbers has a least element.
LEMMA LeastNatural ==
  ASSUME NEW T \in SUBSET Nat, T # {}
  PROVE  \E x \in T : \A y \in T : x <= y
<1>1. IsWellFoundedOn(OpToRel(<, Nat), Nat)
  BY NatLessThanWellFounded
<1>2. OpToRel(<, Nat) = LessThan
  BY DEF OpToRel, LessThan
<1>3. IsWellFoundedOn(LessThan, Nat)
  BY <1>1, <1>2
<1>4. \A x, y \in Nat : y < x => <<y, x>> \in LessThan
  BY DEF LessThan
<1> HIDE DEF LessThan
<1>5. PICK x \in T : \A y \in T : ~ (<<y, x>> \in LessThan)
  BY <1>3, WFMin
<1>6. ASSUME NEW y \in T PROVE x <= y
  <2>1. x \in Nat /\ y \in Nat
    OBVIOUS
  <2>2. ~ (y < x)
    BY <1>4, <1>5, <2>1
  <2> QED BY <2>1, <2>2
<1> QED BY <1>6

\* Induction, for the set of the numbers that have a property.
LEMMA SetInduction ==
  ASSUME NEW T, 0 \in T, \A n \in Nat : n \in T => n + 1 \in T
  PROVE  Nat \subseteq T
<1> SUFFICES ASSUME Nat \ T # {} PROVE FALSE
  OBVIOUS
<1>1. PICK m \in Nat \ T : \A y \in Nat \ T : m <= y
  BY LeastNatural
<1>2. m - 1 \in Nat /\ m - 1 \in T
  BY <1>1
<1> QED BY <1>2

\* What appending, removing and taking the head do to the elements of a
\* sequence in which each of them is once.
LEMMA AppendElems ==
  ASSUME NEW S, NEW s \in Seq(S), NEW x \in S
  PROVE  /\ ToSet(Append(s, x)) = ToSet(s) \cup {x}
         /\ IsInjective(s) /\ x \notin ToSet(s) => IsInjective(Append(s, x))
<1>1. /\ Append(s, x) \in Seq(S) /\ Len(Append(s, x)) = Len(s) + 1
      /\ \A i \in 1 .. Len(s) : Append(s, x)[i] = s[i]
      /\ Append(s, x)[Len(s) + 1] = x
      /\ Len(s) \in Nat /\ DOMAIN s = 1 .. Len(s)
      /\ DOMAIN Append(s, x) = 1 .. Len(s) + 1
  OBVIOUS
<1>2. \A i \in 1 .. Len(s) + 1 : i \in 1 .. Len(s) \/ i = Len(s) + 1
  BY <1>1
<1>3. 1 .. Len(s) \subseteq 1 .. Len(s) + 1 /\ Len(s) + 1 \in 1 .. Len(s) + 1
  BY <1>1
<1>4. ToSet(Append(s, x)) = ToSet(s) \cup {x}
  BY <1>1, <1>2, <1>3, Zenon DEF ToSet
<1>5. ASSUME IsInjective(s), x \notin ToSet(s) PROVE IsInjective(Append(s, x))
  BY <1>1, <1>2, <1>5 DEF IsInjective, ToSet
<1> QED BY <1>4, <1>5

LEMMA RemoveProperties ==
  ASSUME NEW S, NEW s \in Seq(S), NEW p \in 1 .. Len(s)
  PROVE  /\ Len(RemoveAt(s, p)) = Len(s) - 1 /\ RemoveAt(s, p) \in Seq(S)
         /\ \A i \in 1 .. Len(s) - 1 :
              RemoveAt(s, p)[i] = IF i < p THEN s[i] ELSE s[i + 1]
<1> DEFINE a == SubSeq(s, 1, p - 1)
           b == SubSeq(s, p + 1, Len(s))
           r == RemoveAt(s, p)
<1>1. /\ a \in Seq(S) /\ Len(a) = p - 1
      /\ b \in Seq(S) /\ Len(b) = Len(s) - p
      /\ \A i \in 1 .. p - 1 : a[i] = s[i]
      /\ \A i \in 1 .. Len(s) - p : b[i] = s[p + i]
  BY SubSeqProperties
<1>2. r = a \o b
  BY DEF RemoveAt
<1> HIDE DEF a, b
<1>3. /\ Len(r) = Len(s) - 1 /\ r \in Seq(S)
      /\ \A i \in 1 .. Len(s) - 1 : r[i] = IF i < p THEN s[i] ELSE s[i + 1]
  <2>1. /\ Len(a \o b) = Len(a) + Len(b) /\ a \o b \in Seq(S)
        /\ \A i \in 1 .. Len(a) + Len(b) :
             (a \o b)[i] = IF i <= Len(a) THEN a[i] ELSE b[i - Len(a)]
    BY <1>1, ConcatProperties
  <2>2. Len(s) \in Nat /\ Len(a) + Len(b) = Len(s) - 1
    BY <1>1
  <2>3. ASSUME NEW i \in 1 .. Len(s) - 1
        PROVE  r[i] = IF i < p THEN s[i] ELSE s[i + 1]
    <3>1. CASE i < p
      <4>1. i <= Len(a) /\ i \in 1 .. p - 1
        BY <3>1, <1>1
      <4> QED BY <4>1, <3>1, <2>1, <2>2, <1>1, <1>2
    <3>2. CASE ~(i < p)
      <4>1. /\ ~(i <= Len(a)) /\ i - Len(a) \in 1 .. Len(s) - p
            /\ p + (i - Len(a)) = i + 1
        BY <3>2, <1>1, <2>2
      <4>2. r[i] = b[i - Len(a)]
        BY <4>1, <2>1, <2>2, <1>2
      <4>3. b[i - Len(a)] = s[i + 1]
        BY <4>1, <1>1
      <4> QED BY <4>2, <4>3, <3>2
    <3> QED BY <3>1, <3>2
  <2> QED BY <2>1, <2>2, <2>3, <1>2
<1> HIDE DEF r
<1> QED BY <1>3 DEF r

LEMMA RemoveElems ==
  ASSUME NEW S, NEW s \in Seq(S), NEW p \in 1 .. Len(s), IsInjective(s)
  PROVE  /\ ToSet(RemoveAt(s, p)) = ToSet(s) \ {s[p]}
         /\ IsInjective(RemoveAt(s, p))
         /\ RemoveAt(s, p) \in Seq(S)
         /\ p # 1 => RemoveAt(s, p) # <<>> /\ Head(RemoveAt(s, p)) = Head(s)
<1> DEFINE r == RemoveAt(s, p)
<1>3. /\ Len(r) = Len(s) - 1 /\ r \in Seq(S)
      /\ \A i \in 1 .. Len(s) - 1 : r[i] = IF i < p THEN s[i] ELSE s[i + 1]
  BY RemoveProperties
<1> HIDE DEF r
<1>4. /\ DOMAIN s = 1 .. Len(s) /\ DOMAIN r = 1 .. Len(s) - 1 /\ Len(s) \in Nat
  BY <1>3
<1>5. IsInjective(r)
  <2>1. ASSUME NEW i \in 1 .. Len(s) - 1, NEW j \in 1 .. Len(s) - 1, r[i] = r[j]
        PROVE  i = j
    <3>1. PICK k \in 1 .. Len(s) : r[i] = s[k] /\ k = (IF i < p THEN i ELSE i + 1)
      BY <1>3, <1>4
    <3>2. PICK l \in 1 .. Len(s) : r[j] = s[l] /\ l = (IF j < p THEN j ELSE j + 1)
      BY <1>3, <1>4
    <3>3. k = l
      BY <2>1, <3>1, <3>2, <1>4 DEF IsInjective
    <3> QED BY <3>1, <3>2, <3>3
  <2> QED BY <2>1, <1>4 DEF IsInjective
<1>6. ASSUME NEW x \in ToSet(r) PROVE x \in ToSet(s) \ {s[p]}
  <2>1. PICK i \in 1 .. Len(s) - 1 : r[i] = x
    BY <1>4 DEF ToSet
  <2>2. PICK j \in 1 .. Len(s) : s[j] = x /\ j # p
    BY <2>1, <1>3, <1>4
  <2> QED BY <2>2, <1>4 DEF ToSet, IsInjective
<1>7. ASSUME NEW x \in ToSet(s), x # s[p] PROVE x \in ToSet(r)
  <2>1. PICK j \in 1 .. Len(s) : s[j] = x /\ j # p
    BY <1>7, <1>4 DEF ToSet
  <2>2. PICK i \in 1 .. Len(s) - 1 : r[i] = x
    <3>1. CASE j < p
      <4>1. j \in 1 .. Len(s) - 1
        BY <3>1
      <4> QED BY <4>1, <2>1, <3>1, <1>3
    <3>2. CASE j > p
      <4>1. j - 1 \in 1 .. Len(s) - 1 /\ ~(j - 1 < p) /\ (j - 1) + 1 = j
        BY <3>2
      <4> QED BY <4>1, <2>1, <1>3
    <3> QED BY <2>1, <3>1, <3>2
  <2> QED BY <2>2, <1>4 DEF ToSet
<1>8. ToSet(r) = ToSet(s) \ {s[p]}
  BY <1>6, <1>7
<1>9. ASSUME p # 1 PROVE r # <<>> /\ Head(r) = Head(s)
  <2>1. 1 \in 1 .. Len(s) - 1 /\ 1 < p
    BY <1>9
  <2>2. r[1] = s[1] /\ Len(r) > 0
    BY <2>1, <1>3
  <2> QED BY <2>1, <2>2, <1>3
<1> QED BY <1>3, <1>5, <1>8, <1>9 DEF r

LEMMA TailElems ==
  ASSUME NEW S, NEW s \in Seq(S), s # <<>>, IsInjective(s)
  PROVE  /\ Head(s) \in ToSet(s)
         /\ ToSet(Tail(s)) = ToSet(s) \ {Head(s)}
         /\ IsInjective(Tail(s))
<1>1. /\ Len(s) \in Nat \ {0} /\ Head(s) = s[1] /\ DOMAIN s = 1 .. Len(s)
      /\ Tail(s) \in Seq(S) /\ Len(Tail(s)) = Len(s) - 1
      /\ \A i \in 1 .. Len(s) - 1 : Tail(s)[i] = s[i + 1]
  BY EmptySeq, HeadTailProperties
<1> DEFINE r == Tail(s)
<1>2. DOMAIN r = 1 .. Len(s) - 1
  BY <1>1
<1>3. IsInjective(r)
  BY <1>1 DEF IsInjective
<1> HIDE DEF r
<1>4. ASSUME NEW x \in ToSet(r) PROVE x \in ToSet(s) \ {s[1]}
  <2>1. PICK i \in 1 .. Len(s) - 1 : r[i] = x
    BY <1>2 DEF ToSet
  <2>2. s[i + 1] = x /\ i + 1 \in 1 .. Len(s) /\ i + 1 # 1
    BY <2>1, <1>1 DEF r
  <2> QED BY <2>2, <1>1 DEF ToSet, IsInjective
<1>5. ASSUME NEW x \in ToSet(s), x # s[1] PROVE x \in ToSet(r)
  <2>1. PICK j \in 1 .. Len(s) : s[j] = x /\ j # 1
    BY <1>5, <1>1 DEF ToSet
  <2>2. j - 1 \in 1 .. Len(s) - 1 /\ (j - 1) + 1 = j
    BY <2>1, <1>1
  <2>3. r[j - 1] = x
    BY <2>1, <2>2, <1>1 DEF r
  <2> QED BY <2>2, <2>3, <1>2 DEF ToSet
<1>6. ToSet(r) = ToSet(s) \ {s[1]}
  BY <1>4, <1>5
<1>7. s[1] \in ToSet(s)
  BY <1>1 DEF ToSet
<1> QED BY <1>1, <1>3, <1>6, <1>7 DEF r

\* the functions on 0 .. m that begin with v0 and go on as F says
Recursions(V, v0, F, m) ==
  {g \in [0 .. m -> V] : g[0] = v0 /\ \A i \in 1 .. m : g[i] = F[<<i, g[i - 1]>>]}

\* A function that is defined by what it is for 0 and how it goes on exists:
\* what a recursive function of the models is, the provers take from here.
LEMMA RecursionExists ==
  ASSUME NEW V, NEW v0 \in V, NEW F \in [Nat \X V -> V], NEW m \in Nat
  PROVE  Recursions(V, v0, F, m) # {}
<1> DEFINE Fits(g, n) == \A i \in 0 .. n : g[i] = IF i = 0 THEN v0 ELSE F[<<i, g[i - 1]>>]
           T == {n \in Nat : \E g \in [0 .. n -> V] : Fits(g, n)}
<1>1. 0 \in T
  <2>1. [i \in 0 .. 0 |-> v0] \in [0 .. 0 -> V] /\ Fits([i \in 0 .. 0 |-> v0], 0)
    OBVIOUS
  <2> QED BY <2>1
<1>2. ASSUME NEW n \in Nat, n \in T PROVE n + 1 \in T
  <2>1. PICK g \in [0 .. n -> V] : Fits(g, n)
    BY <1>2
  <2> DEFINE h == [i \in 0 .. n + 1 |-> IF i = n + 1 THEN F[<<n + 1, g[n]>>] ELSE g[i]]
  <2>2. h \in [0 .. n + 1 -> V]
    OBVIOUS
  <2>3. ASSUME NEW i \in 0 .. n + 1
        PROVE  h[i] = IF i = 0 THEN v0 ELSE F[<<i, h[i - 1]>>]
    <3>1. CASE i = n + 1
      <4>1. i - 1 = n /\ n \in 0 .. n + 1 /\ n # n + 1 /\ i # 0
        BY <3>1
      <4>2. h[n] = g[n]
        BY <4>1
      <4>3. h[n + 1] = F[<<n + 1, g[n]>>]
        OBVIOUS
      <4>4. h[i] = F[<<i, g[n]>>]
        BY <4>3, <3>1
      <4> HIDE DEF h
      <4> QED BY <4>1, <4>2, <4>4
    <3>2. CASE i # n + 1
      <4>1. i \in 0 .. n /\ h[i] = g[i]
        BY <3>2
      <4>2. i # 0 => i - 1 \in 0 .. n + 1 /\ i - 1 # n + 1
        BY <4>1
      <4>3. i # 0 => h[i - 1] = g[i - 1]
        BY <4>2
      <4> QED BY <2>1, <4>1, <4>3
    <3> QED BY <3>1, <3>2
  <2> HIDE DEF h
  <2> QED BY <2>2, <2>3
<1> HIDE DEF T
<1>3. m \in T
  BY <1>1, <1>2, SetInduction
<1>4. PICK g \in [0 .. m -> V] : Fits(g, m)
  BY <1>3 DEF T
<1>5. g[0] = v0 /\ \A i \in 1 .. m : g[i] = F[<<i, g[i - 1]>>]
  <2>1. 0 \in 0 .. m /\ \A i \in 1 .. m : i \in 0 .. m /\ i # 0
    OBVIOUS
  <2> QED BY <1>4, <2>1
<1> QED BY <1>5 DEF Recursions

LEMMA FrontElems ==
  ASSUME NEW S, NEW s \in Seq(S), s # <<>>, IsInjective(s)
  PROVE  /\ Last(s) \in S /\ Last(s) \in ToSet(s)
         /\ Front(s) \in Seq(S)
         /\ ToSet(Front(s)) = ToSet(s) \ {Last(s)}
         /\ IsInjective(Front(s))
<1>1. /\ Len(s) \in Nat \ {0} /\ DOMAIN s = 1 .. Len(s) /\ Last(s) = s[Len(s)]
      /\ Front(s) \in Seq(S) /\ Len(Front(s)) = Len(s) - 1
      /\ DOMAIN Front(s) = 1 .. Len(s) - 1
      /\ \A i \in 1 .. Len(s) - 1 : Front(s)[i] = s[i]
  <2>1. Len(s) \in Nat \ {0} /\ DOMAIN s = 1 .. Len(s)
    BY EmptySeq
  <2>2. \A i \in 1 .. Len(s) - 1 : s[i] \in S
    BY <2>1
  <2>3. Front(s) = SubSeq(s, 1, Len(s) - 1)
    BY DEF Front
  <2>4. /\ SubSeq(s, 1, Len(s) - 1) \in Seq(S)
        /\ Len(SubSeq(s, 1, Len(s) - 1)) = Len(s) - 1
        /\ \A i \in 1 .. Len(s) - 1 : SubSeq(s, 1, Len(s) - 1)[i] = s[i]
    BY <2>1, SubSeqProperties
  <2> QED BY <2>1, <2>3, <2>4 DEF Last
<1> DEFINE r == Front(s)
<1>2. Len(s) \in 1 .. Len(s) /\ 1 .. Len(s) - 1 \subseteq 1 .. Len(s)
  BY <1>1
<1>3. Last(s) \in S /\ Last(s) \in ToSet(s)
  BY <1>1, <1>2 DEF ToSet
<1>4. IsInjective(r)
  BY <1>1, <1>2 DEF IsInjective
<1> HIDE DEF r
<1>5. ASSUME NEW x \in ToSet(r) PROVE x \in ToSet(s) \ {Last(s)}
  <2>1. PICK i \in 1 .. Len(s) - 1 : r[i] = x
    BY <1>1 DEF ToSet, r
  <2>2. x = s[i] /\ i \in 1 .. Len(s) /\ i # Len(s)
    <3>1. r[i] = s[i]
      BY <1>1 DEF r
    <3>2. \A l \in Nat : \A j \in 1 .. l - 1 : j \in 1 .. l /\ j # l
      OBVIOUS
    <3> QED BY <2>1, <3>1, <3>2, <1>1
  <2> QED BY <2>2, <1>1, <1>2 DEF ToSet, IsInjective
<1>6. ASSUME NEW x \in ToSet(s), x # Last(s) PROVE x \in ToSet(r)
  <2>1. PICK j \in 1 .. Len(s) : s[j] = x /\ j # Len(s)
    BY <1>1, <1>6 DEF ToSet
  <2>2. j \in 1 .. Len(s) - 1
    <3>1. \A l \in Nat : \A i \in 1 .. l : i # l => i \in 1 .. l - 1
      OBVIOUS
    <3> QED BY <2>1, <3>1, <1>1
  <2>3. j \in DOMAIN r /\ r[j] = x
    BY <2>1, <2>2, <1>1 DEF r
  <2> QED BY <2>3 DEF ToSet
<1> QED BY <1>1, <1>3, <1>4, <1>5, <1>6 DEF r

-----------------------------------------------------------------------------
\* The first and the last place of a set.
LEMMA FirstPlace ==
  ASSUME NEW S \in SUBSET Nat, S # {}
  PROVE  FirstOf(S) \in S /\ \A j \in S : FirstOf(S) <= j
  BY LeastNatural DEF FirstOf
LEMMA FirstPlaceIs ==
  ASSUME NEW S \in SUBSET Nat, NEW k \in S, \A j \in S : k <= j
  PROVE  FirstOf(S) = k
<1>1. FirstOf(S) \in S /\ \A j \in S : FirstOf(S) <= j
  BY FirstPlace
<1>2. FirstOf(S) \in Nat /\ k \in Nat /\ FirstOf(S) <= k /\ k <= FirstOf(S)
  BY <1>1
<1> QED BY <1>2
LEMMA LastPlace ==
  ASSUME NEW n \in Nat, NEW S \in SUBSET (1 .. n), S # {}
  PROVE  LastOf(S) \in S /\ \A j \in S : j <= LastOf(S)
<1> DEFINE T == {n - i : i \in S}
<1>0. \A i \in S : i \in Nat /\ n - i \in Nat
  OBVIOUS
<1>1. T \in SUBSET Nat /\ T # {}
  BY <1>0
<1>2. PICK x \in T : \A y \in T : x <= y
  BY <1>1, LeastNatural
<1>3. PICK i \in S : x = n - i
  BY <1>2
<1>4. \A j \in S : j <= i
  <2> SUFFICES ASSUME NEW j \in S PROVE j <= i
    OBVIOUS
  <2>1. n - j \in T
    OBVIOUS
  <2>2. n - i <= n - j
    BY <1>2, <1>3, <2>1
  <2> QED BY <2>2
<1> QED BY <1>4 DEF LastOf
LEMMA LastPlaceIs ==
  ASSUME NEW S \in SUBSET Nat, NEW k \in S, \A j \in S : j <= k
  PROVE  LastOf(S) = k
<1>1. LastOf(S) \in S /\ \A j \in S : j <= LastOf(S)
  BY DEF LastOf
<1>2. LastOf(S) \in Nat /\ k \in Nat /\ LastOf(S) <= k /\ k <= LastOf(S)
  BY <1>1
<1> QED BY <1>2

\* The place of an element: between one and their number, later for a later
\* element.
LEMMA PlaceFacts ==
  ASSUME NEW n \in Nat, NEW S \in SUBSET (1 .. n)
  PROVE  /\ IsFiniteSet(S) /\ Cardinality(S) \in Nat
         /\ \A i \in S : Place(S, i) \in 1 .. Cardinality(S)
         /\ \A i, j \in S : i < j => Place(S, i) < Place(S, j)
<1> DEFINE Upto(i) == {k \in S : k <= i}
<1>1. IsFiniteSet(S) /\ Cardinality(S) \in Nat
  <2>1. IsFiniteSet(1 .. n)
    BY FS_Interval
  <2> QED BY <2>1, FS_Subset, FS_CardinalityType
<1>2. ASSUME NEW i \in S
      PROVE  /\ IsFiniteSet(Upto(i)) /\ Cardinality(Upto(i)) \in Nat
             /\ Cardinality(Upto(i)) <= Cardinality(S) /\ Cardinality(Upto(i)) # 0
  <2>1. Upto(i) \in SUBSET S /\ i \in Upto(i)
    OBVIOUS
  <2>2. IsFiniteSet(Upto(i)) /\ Cardinality(Upto(i)) <= Cardinality(S)
    BY <1>1, <2>1, FS_Subset
  <2>3. Cardinality(Upto(i)) \in Nat
    BY <2>2, FS_CardinalityType
  <2>4. Cardinality(Upto(i)) # 0
    BY <2>1, <2>2, FS_EmptySet
  <2> QED BY <2>2, <2>3, <2>4
<1>3. ASSUME NEW i \in S, NEW j \in S, i < j
      PROVE  Cardinality(Upto(i)) < Cardinality(Upto(j))
  <2>0. /\ \A k \in S : k <= i => k <= j
        /\ j <= j /\ ~(j <= i)
    <3>1. \A k \in S : k \in Nat
      OBVIOUS
    <3> QED BY <1>3, <3>1
  <2>1. Upto(i) \in SUBSET Upto(j) /\ j \in Upto(j) /\ j \notin Upto(i)
    BY <2>0, Zenon
  <2>2. Upto(i) # Upto(j)
    BY <2>1
  <2>3. Cardinality(Upto(i)) <= Cardinality(Upto(j)) /\ Cardinality(Upto(i)) # Cardinality(Upto(j))
    BY <1>2, <2>1, <2>2, FS_Subset
  <2> QED BY <1>2, <2>3
<1>4. \A i \in S : Place(S, i) = Cardinality(Upto(i))
  BY DEF Place
<1> HIDE DEF Upto
<1>5. \A i \in S : Place(S, i) \in 1 .. Cardinality(S)
  BY <1>1, <1>2, <1>4
<1> QED BY <1>1, <1>3, <1>4, <1>5

\* The last element has the last place, and no other has it.
LEMMA PlaceOfLast ==
  ASSUME NEW n \in Nat, NEW S \in SUBSET (1 .. n), NEW i \in S
  PROVE  Place(S, i) = Cardinality(S) <=> i = LastOf(S)
<1>1. S # {} /\ LastOf(S) \in S /\ \A j \in S : j <= LastOf(S)
  BY LastPlace
<1>2. {k \in S : k <= LastOf(S)} = S
  BY <1>1
<1>3. Place(S, LastOf(S)) = Cardinality(S)
  BY <1>2 DEF Place
<1>4. ASSUME i # LastOf(S) PROVE Place(S, i) # Cardinality(S)
  <2>0. \A k \in S : k \in Nat
    OBVIOUS
  <2>1. i < LastOf(S)
    <3>1. PICK l \in S : l = LastOf(S) /\ i <= l
      BY <1>1
    <3> QED BY <1>4, <2>0, <3>1
  <2>2. Place(S, i) < Place(S, LastOf(S))
    BY <1>1, <2>1, PlaceFacts, Zenon
  <2>3. Place(S, i) \in 1 .. Cardinality(S) /\ Cardinality(S) \in Nat
    BY PlaceFacts
  <2> QED BY <2>2, <2>3, <1>3
<1> QED BY <1>3, <1>4

\* A new last element.
LEMMA PlaceAdded ==
  ASSUME NEW n \in Nat, NEW S \in SUBSET (1 .. n)
  PROVE  /\ Cardinality(S \cup {n + 1}) = Cardinality(S) + 1
         /\ \A i \in S : Place(S \cup {n + 1}, i) = Place(S, i)
         /\ Place(S \cup {n + 1}, n + 1) = Cardinality(S) + 1
<1>0. \A i \in S : i \in Nat /\ i < n + 1 /\ ~(n + 1 <= i) /\ i <= n + 1
  OBVIOUS
<1>1. IsFiniteSet(S) /\ n + 1 \notin S
  <2>1. n + 1 \notin S
    BY <1>0
  <2> QED BY <2>1, PlaceFacts
<1>2. Cardinality(S \cup {n + 1}) = Cardinality(S) + 1
  BY <1>1, FS_AddElement
<1>3. ASSUME NEW i \in S PROVE Place(S \cup {n + 1}, i) = Place(S, i)
  <2>1. {k \in S \cup {n + 1} : k <= i} = {k \in S : k <= i}
    BY <1>0
  <2> QED BY <2>1 DEF Place
<1>4. Place(S \cup {n + 1}, n + 1) = Cardinality(S) + 1
  <2>0. n + 1 <= n + 1
    OBVIOUS
  <2>1. {k \in S \cup {n + 1} : k <= n + 1} = S \cup {n + 1}
    BY <1>0, <2>0, Zenon
  <2> QED BY <2>1, <1>2 DEF Place
<1> QED BY <1>2, <1>3, <1>4

\* Every place is one of an element.
LEMMA PlacesTaken ==
  ASSUME NEW n \in Nat, NEW S \in SUBSET (1 .. n), NEW j \in 1 .. Cardinality(S)
  PROVE  \E i \in S : Place(S, i) = j
<1> DEFINE c == Cardinality(S)
           f == [i \in S |-> Place(S, i)]
<1>1. IsFiniteSet(S) /\ c \in Nat /\ \A i \in S : Place(S, i) \in 1 .. c
  BY PlaceFacts
<1>2. \A i, k \in S : Place(S, i) = Place(S, k) => i = k
  <2> SUFFICES ASSUME NEW i \in S, NEW k \in S, Place(S, i) = Place(S, k) PROVE i = k
    OBVIOUS
  <2>1. i < k => Place(S, i) < Place(S, k)
    BY PlaceFacts
  <2>2. k < i => Place(S, k) < Place(S, i)
    BY PlaceFacts
  <2>3. Place(S, i) \in Nat /\ i \in Nat /\ k \in Nat
    BY <1>1
  <2> QED BY <2>1, <2>2, <2>3
<1>3. f \in Injection(S, 1 .. c)
  BY <1>1, <1>2 DEF Injection, IsInjective
<1>4. IsFiniteSet(1 .. c) /\ Cardinality(1 .. c) = c
  BY <1>1, FS_Interval
<1>5. f \in Surjection(S, 1 .. c)
  BY <1>3, <1>4, FS_Injection
<1>6. PICK i \in S : f[i] = j
  BY <1>5 DEF Surjection
<1> QED BY <1>6

\* What lies between two places of a sequence.
LEMMA Between ==
  ASSUME NEW S, NEW s \in Seq(S), NEW a \in Nat, NEW c \in Nat, a <= c, c <= Len(s)
  PROVE  /\ SubSeq(s, a + 1, c) \in Seq(S) /\ Len(SubSeq(s, a + 1, c)) = c - a
         /\ \A k \in 1 .. c - a : SubSeq(s, a + 1, c)[k] = s[a + k]
<1>1. \A i \in a + 1 .. c : s[i] \in S
  <2>1. \A i \in a + 1 .. c : i \in 1 .. Len(s)
    OBVIOUS
  <2> QED BY <2>1, ElementOfSeq
<1>2. a + 1 \in Int /\ c \in Int /\ c - (a + 1) + 1 = c - a
      /\ (IF a + 1 <= c THEN c - (a + 1) + 1 ELSE 0) = c - a
      /\ \A k \in 1 .. c - a : (a + 1) + k - 1 = a + k
  OBVIOUS
<1> DEFINE r == SubSeq(s, a + 1, c)
<1>3. /\ r \in Seq(S) /\ Len(r) = (IF a + 1 <= c THEN c - (a + 1) + 1 ELSE 0)
      /\ \A k \in 1 .. c - (a + 1) + 1 : r[k] = s[(a + 1) + k - 1]
  BY <1>1, <1>2, SubSeqProperties
<1> HIDE DEF r
<1>4. \A k \in 1 .. c - a : r[k] = s[a + k]
  BY <1>2, <1>3
<1> QED BY <1>2, <1>3, <1>4 DEF r
=============================================================================
