--------------------------- MODULE SequenceLemmas ---------------------------
(***************************************************************************)
(* What the proofs about queues and stacks need of sequences: the members  *)
(* after an Append, a Tail or a Front, and the number of entries of a      *)
(* given sort.                                                             *)
(***************************************************************************)
EXTENDS Naturals, Sequences, FiniteSets, SequencesExt,
        FiniteSetTheorems, SequenceTheorems, WellFoundedInduction, TLAPS

(* Every set of natural numbers that is not empty has a least one.         *)
LEMMA LeastNumber ==
  ASSUME NEW B \in SUBSET Nat, B # {}
  PROVE  \E m \in B : \A k \in B : m <= k
<1> DEFINE R == StrictSubsetOrdering(Nat)
           F == {1..k : k \in B}
<1>1. F \subseteq FiniteSubsetsOf(Nat)
  <2> SUFFICES ASSUME NEW k \in B PROVE 1..k \in FiniteSubsetsOf(Nat)
    OBVIOUS
  <2>1. IsFiniteSet(1..k) /\ 1..k \subseteq Nat
    BY FS_Interval
  <2> QED
    BY <2>1 DEF FiniteSubsetsOf
<1>2. PICK s \in F : \A t \in F : ~(<<t, s>> \in R)
  <2>1. F # {}
    OBVIOUS
  <2> HIDE DEF F, R
  <2>2. IsWellFoundedOn(R, FiniteSubsetsOf(Nat))
    BY FS_StrictSubsetOrderingWellFounded DEF R
  <2> QED
    BY <1>1, <2>1, <2>2, WFMin, Zenon
<1>3. PICK m \in B : s = 1..m
  OBVIOUS
<1>4. ASSUME NEW k \in B, k < m PROVE FALSE
  <2>1. 1..k \in F /\ m \in 1..m /\ m \notin 1..k /\ 1..k \subseteq 1..m
    BY <1>4
  <2>2. <<1..k, s>> \in R
    BY <1>3, <2>1 DEF StrictSubsetOrdering
  <2> QED
    BY <1>2, <2>1, <2>2
<1> QED
  BY <1>4

LEMMA LeastOf ==
  ASSUME NEW B \in SUBSET Nat, B # {}
  PROVE  Min(B) \in B /\ \A k \in B : Min(B) <= k
<1>1. \E m \in B : \A k \in B : m <= k
  BY LeastNumber
<1> QED
  BY <1>1 DEF Min

-----------------------------------------------------------------------------
LEMMA OtherMembers ==
  ASSUME NEW S, NEW T, NEW s \in Seq(S), \A i \in DOMAIN s : s[i] \in T
  PROVE  s \in Seq(T)
<1>1. Len(s) \in Nat /\ DOMAIN s = 1..Len(s) /\ s = [i \in 1..Len(s) |-> s[i]]
  OBVIOUS
<1>2. s \in [1..Len(s) -> T]
  BY <1>1
<1> QED
  BY <1>1, <1>2

LEMMA AppendMembers ==
  ASSUME NEW S, NEW s \in Seq(S), NEW e \in S
  PROVE  /\ Append(s, e) \in Seq(S) /\ Append(s, e) # <<>>
         /\ Len(Append(s, e)) = Len(s) + 1
         /\ \A i \in 1..Len(s) : Append(s, e)[i] = s[i]
         /\ Append(s, e)[Len(s) + 1] = e
         /\ ToSet(Append(s, e)) = ToSet(s) \cup {e}
<1> DEFINE t == Append(s, e)
<1>1. /\ t \in Seq(S) /\ Len(t) = Len(s) + 1 /\ Len(s) \in Nat /\ t # <<>>
      /\ \A i \in 1..Len(s) : t[i] = s[i]
      /\ t[Len(s) + 1] = e
  OBVIOUS
<1>2. DOMAIN s = 1..Len(s) /\ DOMAIN t = 1..Len(t)
  BY <1>1
<1> HIDE DEF t
<1>3. ToSet(t) \subseteq ToSet(s) \cup {e}
  <2> SUFFICES ASSUME NEW i \in 1..Len(t) PROVE t[i] \in ToSet(s) \cup {e}
    BY <1>2 DEF ToSet
  <2>1. i = Len(s) + 1 \/ i \in 1..Len(s)
    BY <1>1
  <2> QED
    BY <1>1, <1>2, <2>1 DEF ToSet
<1>4. ToSet(s) \cup {e} \subseteq ToSet(t)
  <2>1. \A i \in 1..Len(s) : i \in 1..Len(t)
    BY <1>1
  <2>2. Len(s) + 1 \in 1..Len(t)
    BY <1>1
  <2> QED
    BY <1>1, <1>2, <2>1, <2>2 DEF ToSet
<1> QED
  BY <1>1, <1>3, <1>4 DEF t

LEMMA TailMembers ==
  ASSUME NEW S, NEW s \in Seq(S), s # <<>>
  PROVE  /\ Tail(s) \in Seq(S) /\ Len(Tail(s)) = Len(s) - 1
         /\ Len(s) \in Nat \ {0} /\ Len(Tail(s)) \in Nat
         /\ \A i \in 1..Len(s) - 1 : Tail(s)[i] = s[i + 1]
         /\ Head(s) = s[1] /\ Head(s) \in S /\ Head(s) \in ToSet(s)
         /\ ToSet(s) = ToSet(Tail(s)) \cup {Head(s)}
<1> DEFINE t == Tail(s)
<1>1. /\ t \in Seq(S) /\ Len(t) = Len(s) - 1 /\ Len(s) \in Nat \ {0}
      /\ \A i \in 1..Len(s) - 1 : t[i] = s[i + 1]
      /\ Head(s) = s[1] /\ Head(s) \in S
  OBVIOUS
<1>2. DOMAIN s = 1..Len(s) /\ DOMAIN t = 1..Len(t) /\ Len(t) \in Nat
  BY <1>1
<1> HIDE DEF t
<1>3. Head(s) \in ToSet(s)
  <2>1. 1 \in 1..Len(s)
    BY <1>1
  <2> QED
    BY <1>1, <1>2, <2>1 DEF ToSet
<1>4. ToSet(t) \subseteq ToSet(s)
  <2>1. \A i \in 1..Len(t) : i + 1 \in 1..Len(s) /\ t[i] = s[i + 1]
    BY <1>1
  <2> QED
    BY <1>2, <2>1 DEF ToSet
<1>5. ToSet(s) \subseteq ToSet(t) \cup {Head(s)}
  <2> SUFFICES ASSUME NEW i \in 1..Len(s) PROVE s[i] \in ToSet(t) \cup {Head(s)}
    BY <1>2 DEF ToSet
  <2>1. CASE i = 1
    BY <1>1, <2>1
  <2>2. CASE i # 1
    <3>1. i - 1 \in 1..Len(t) /\ t[i - 1] = s[(i - 1) + 1] /\ (i - 1) + 1 = i
      BY <1>1, <2>2
    <3> QED
      BY <1>2, <3>1 DEF ToSet
  <2> QED
    BY <2>1, <2>2
<1> QED
  BY <1>1, <1>2, <1>3, <1>4, <1>5 DEF t

LEMMA FrontMembers ==
  ASSUME NEW S, NEW s \in Seq(S), s # <<>>
  PROVE  /\ Front(s) \in Seq(S) /\ Len(Front(s)) = Len(s) - 1
         /\ Len(s) \in Nat \ {0} /\ Len(Front(s)) \in Nat
         /\ \A i \in 1..Len(s) - 1 : Front(s)[i] = s[i]
         /\ Last(s) = s[Len(s)] /\ Last(s) \in S
<1>1. Len(s) \in Nat \ {0}
  OBVIOUS
<1> DEFINE t == SubSeq(s, 1, Len(s) - 1)
<1>2. /\ t \in Seq(S) /\ Len(t) = Len(s) - 1
      /\ \A i \in 1..Len(s) - 1 : t[i] = s[i]
  <2>1. PICK n \in Nat : n = Len(s) - 1
    BY <1>1
  <2>2. n \in 0..Len(s)
    BY <1>1, <2>1
  <2>3. /\ SubSeq(s, 1, n) \in Seq(S) /\ Len(SubSeq(s, 1, n)) = n
        /\ \A i \in 1..n : SubSeq(s, 1, n)[i] = s[i]
    BY <2>2
  <2> QED
    BY <2>1, <2>3
<1>3. s[Len(s)] \in S
  BY <1>1
<1> QED
  BY <1>1, <1>2, <1>3 DEF Front, Last

LEMMA FrontSubset ==
  ASSUME NEW S, NEW s \in Seq(S), s # <<>>
  PROVE  ToSet(Front(s)) \subseteq ToSet(s) /\ Last(s) \in ToSet(s)
<1>1. /\ Front(s) \in Seq(S) /\ Len(Front(s)) = Len(s) - 1 /\ Len(s) \in Nat \ {0}
      /\ \A i \in 1..Len(s) - 1 : Front(s)[i] = s[i]
      /\ Last(s) = s[Len(s)]
  BY FrontMembers
<1>2. DOMAIN Front(s) = 1..Len(s) - 1 /\ DOMAIN s = 1..Len(s)
  BY <1>1
<1>3. \A i \in 1..Len(s) - 1 : i \in 1..Len(s)
  BY <1>1
<1>4. Len(s) \in 1..Len(s)
  BY <1>1
<1> QED
  BY <1>1, <1>2, <1>3, <1>4 DEF ToSet

(* A sequence without one of its entries.                                  *)
LEMMA RemovedAt ==
  ASSUME NEW S, NEW s \in Seq(S), NEW p \in 1..Len(s)
  PROVE  /\ RemoveAt(s, p) \in Seq(S) /\ Len(RemoveAt(s, p)) = Len(s) - 1
         /\ \A j \in 1..Len(s) - 1 : RemoveAt(s, p)[j] = IF j < p THEN s[j] ELSE s[j + 1]
<1> DEFINE a == SubSeq(s, 1, p - 1)
           b == SubSeq(s, p + 1, Len(s))
<1>1. Len(s) \in Nat /\ p \in Nat /\ p - 1 \in Nat /\ p >= 1 /\ p <= Len(s)
  OBVIOUS
<1>2. a \in Seq(S) /\ Len(a) = p - 1 /\ \A j \in 1..p - 1 : a[j] = s[j]
  BY <1>1
<1>3. b \in Seq(S) /\ Len(b) = Len(s) - p /\ \A j \in 1..Len(s) - p : b[j] = s[p + j]
  <2>1. \A j \in p + 1..Len(s) : s[j] \in S
    BY <1>1
  <2>2. b \in Seq(S)
    BY <1>1, <2>1
  <2>3. Len(b) = Len(s) - p
    BY <1>1
  <2>4. ASSUME NEW j \in 1..Len(s) - p PROVE b[j] = s[p + j]
    <3>1. b[j] = s[p + 1 + j - 1] /\ p + 1 + j - 1 = p + j
      BY <1>1
    <3> QED
      BY <3>1
  <2> QED
    BY <2>2, <2>3, <2>4
<1> HIDE DEF a, b
<1>4. /\ a \o b \in Seq(S) /\ Len(a \o b) = Len(s) - 1
      /\ \A j \in 1..p - 1 : (a \o b)[j] = a[j]
      /\ \A j \in p..Len(s) - 1 : (a \o b)[j] = b[j - (p - 1)]
  <2>1. a \o b \in Seq(S) /\ Len(a \o b) = Len(a) + Len(b)
    BY <1>2, <1>3, ConcatProperties
  <2>2. Len(a \o b) = Len(s) - 1
    BY <1>1, <1>2, <1>3, <2>1
  <2>3. \A j \in 1..Len(a) + Len(b) : (a \o b)[j] = IF j <= Len(a) THEN a[j] ELSE b[j - Len(a)]
    BY <1>2, <1>3, ConcatProperties
  <2>4. ASSUME NEW j \in 1..p - 1 PROVE (a \o b)[j] = a[j]
    <3>1. j \in 1..Len(a) + Len(b) /\ j <= Len(a)
      BY <1>1, <1>2, <1>3
    <3> QED
      BY <2>3, <3>1
  <2>5. ASSUME NEW j \in p..Len(s) - 1 PROVE (a \o b)[j] = b[j - (p - 1)]
    <3>1. j \in 1..Len(a) + Len(b) /\ ~(j <= Len(a))
      BY <1>1, <1>2, <1>3
    <3> QED
      BY <1>2, <2>3, <3>1
  <2> QED
    BY <2>1, <2>2, <2>4, <2>5
<1>5. RemoveAt(s, p) = a \o b
  BY DEF RemoveAt, a, b
<1>6. ASSUME NEW j \in 1..Len(s) - 1
      PROVE  RemoveAt(s, p)[j] = IF j < p THEN s[j] ELSE s[j + 1]
  <2>1. CASE j < p
    <3>1. j \in 1..p - 1
      BY <1>1, <2>1
    <3> QED
      BY <1>2, <1>4, <1>5, <2>1, <3>1
  <2>2. CASE ~(j < p)
    <3>1. j \in p..Len(s) - 1 /\ j - (p - 1) \in 1..Len(s) - p /\ p + (j - (p - 1)) = j + 1
      BY <1>1, <2>2
    <3> QED
      BY <1>3, <1>4, <1>5, <2>2, <3>1
  <2> QED
    BY <2>1, <2>2
<1> QED
  BY <1>4, <1>5, <1>6

LEMMA RemovedFirst ==
  ASSUME NEW S, NEW s \in Seq(S), NEW e, e \in ToSet(s)
  PROVE  \E p \in 1..Len(s) : s[p] = e /\ RemoveFirst(s, e) = RemoveAt(s, p)
<1> DEFINE I == {i \in 1..Len(s) : s[i] = e}
<1>1. I # {} /\ I \in SUBSET Nat
  BY DEF ToSet
<1>2. Min(I) \in I
  BY <1>1, LeastOf
<1>3. SelectInSeq(s, LAMBDA v : v = e) = Min(I)
  BY <1>1 DEF SelectInSeq
<1>4. RemoveFirst(s, e) = RemoveAt(s, SelectInSeq(s, LAMBDA v : v = e))
  BY <1>1 DEF RemoveFirst
<1> QED
  BY <1>2, <1>3, <1>4
-----------------------------------------------------------------------------
(* The number of entries of a sequence that belong to a set.               *)
Places(s, T) == {i \in DOMAIN s : s[i] \in T}

LEMMA CountFinite ==
  ASSUME NEW S, NEW s \in Seq(S), NEW T
  PROVE  IsFiniteSet(Places(s, T)) /\ Cardinality(Places(s, T)) \in Nat
<1>1. Places(s, T) \in SUBSET (1..Len(s)) /\ Len(s) \in Nat
  BY DEF Places
<1>2. IsFiniteSet(1..Len(s))
  BY <1>1, FS_Interval
<1> QED
  BY <1>1, <1>2, FS_Subset, FS_CardinalityType

LEMMA CountAppend ==
  ASSUME NEW S, NEW s \in Seq(S), NEW e \in S, NEW T
  PROVE  Cardinality(Places(Append(s, e), T)) =
           Cardinality(Places(s, T)) + IF e \in T THEN 1 ELSE 0
<1> DEFINE t == Append(s, e)
           n == Len(s) + 1
<1>1. /\ t \in Seq(S) /\ Len(t) = n /\ Len(s) \in Nat
      /\ \A i \in 1..Len(s) : t[i] = s[i]
      /\ t[n] = e
  OBVIOUS
<1>2. DOMAIN s = 1..Len(s) /\ DOMAIN t = 1..n /\ n \notin 1..Len(s)
      /\ 1..n = (1..Len(s)) \cup {n}
  BY <1>1
<1> HIDE DEF t, n
<1>3. IsFiniteSet(Places(s, T)) /\ Cardinality(Places(s, T)) \in Nat
  BY CountFinite
<1>4. n \notin Places(s, T)
  BY <1>2 DEF Places
<1>5. CASE e \in T
  <2>1. Places(t, T) = Places(s, T) \cup {n}
    BY <1>1, <1>2, <1>5 DEF Places
  <2>2. Cardinality(Places(t, T)) = Cardinality(Places(s, T)) + 1
    BY <1>3, <1>4, <2>1, FS_AddElement
  <2> QED
    BY <1>5, <2>2 DEF t
<1>6. CASE e \notin T
  <2>1. Places(t, T) = Places(s, T)
    BY <1>1, <1>2, <1>6 DEF Places
  <2> QED
    BY <1>3, <1>6, <2>1 DEF t
<1> QED
  BY <1>5, <1>6

LEMMA CountTail ==
  ASSUME NEW S, NEW s \in Seq(S), s # <<>>, NEW T
  PROVE  Cardinality(Places(s, T)) =
           Cardinality(Places(Tail(s), T)) + IF Head(s) \in T THEN 1 ELSE 0
<1> DEFINE t == Tail(s)
<1>1. /\ t \in Seq(S) /\ Len(t) = Len(s) - 1 /\ Len(s) \in Nat \ {0}
      /\ \A i \in 1..Len(s) - 1 : t[i] = s[i + 1]
      /\ Head(s) = s[1]
  BY TailMembers
<1>2. DOMAIN s = 1..Len(s) /\ DOMAIN t = 1..Len(s) - 1
  BY <1>1
<1> HIDE DEF t
<1> DEFINE P == Places(t, T)
           Q == {i \in 2..Len(s) : s[i] \in T}
           f == [i \in P |-> i + 1]
<1>3. IsFiniteSet(P) /\ Cardinality(P) \in Nat
  BY <1>1, CountFinite
<1>4. f \in Bijection(P, Q)
  <2>1. \A i \in P : i \in 1..Len(s) - 1 /\ i + 1 \in Q
    BY <1>1, <1>2 DEF Places
  <2>2. f \in [P -> Q] /\ \A i, j \in P : f[i] = f[j] => i = j
    BY <2>1
  <2>3. \A k \in Q : k - 1 \in P /\ f[k - 1] = k
    <3> SUFFICES ASSUME NEW k \in Q PROVE k - 1 \in P /\ f[k - 1] = k
      OBVIOUS
    <3>1. k - 1 \in 1..Len(s) - 1 /\ (k - 1) + 1 = k /\ t[k - 1] = s[k]
      BY <1>1
    <3>2. k - 1 \in P
      BY <1>2, <3>1 DEF Places
    <3> QED
      BY <3>1, <3>2
  <2> QED
    BY <2>2, <2>3 DEF Bijection, Injection, Surjection, IsInjective
<1>5. IsFiniteSet(Q) /\ Cardinality(Q) = Cardinality(P)
  BY <1>3, <1>4, FS_Bijection DEF ExistsBijection
<1>6. 1..Len(s) = (2..Len(s)) \cup {1} /\ 1 \notin Q
  BY <1>1
<1>7. CASE Head(s) \in T
  <2>1. Places(s, T) = Q \cup {1}
    BY <1>1, <1>2, <1>6, <1>7 DEF Places
  <2>2. Cardinality(Places(s, T)) = Cardinality(Q) + 1
    BY <1>5, <1>6, <2>1, FS_AddElement
  <2> QED
    BY <1>5, <1>7, <2>2 DEF t
<1>8. CASE Head(s) \notin T
  <2>1. Places(s, T) = Q
    BY <1>1, <1>2, <1>6, <1>8 DEF Places
  <2> QED
    BY <1>3, <1>5, <1>8, <2>1 DEF t
<1> QED
  BY <1>7, <1>8

LEMMA CountPositive ==
  ASSUME NEW S, NEW s \in Seq(S), NEW T, NEW e \in ToSet(s), e \in T
  PROVE  Cardinality(Places(s, T)) \in Nat \ {0}
<1>1. PICK i \in DOMAIN s : e = s[i]
  BY DEF ToSet
<1>2. Places(s, T) # {}
  BY <1>1 DEF Places
<1> QED
  BY <1>2, CountFinite, FS_EmptySet
=============================================================================
