--------------------------- MODULE EventStreamProof ---------------------------
(* Proofs about EventStream, for any processes and clients and any bounds.     *)
EXTENDS EventStream, FiniteSetTheorems, SequenceTheorems, WellFoundedInduction, TLAPS

-----------------------------------------------------------------------------
(* Sequences in order *)

(* A set of natural numbers has a least member: what stands in for induction.  *)
LEMMA Least ==
  ASSUME NEW T, T \subseteq Nat, T # {}
  PROVE  \E x \in T : \A y \in T : x <= y
<1> DEFINE R == {pair \in Nat \X Nat : pair[1] < pair[2]}
<1>1. IsWellFoundedOn(R, Nat)
  BY NatLessThanWellFounded DEF OpToRel
<1>2. \A a, b \in Nat : a < b => <<a, b>> \in R
  OBVIOUS
<1> HIDE DEF R
<1>3. PICK x \in T : \A y \in T : ~ (<<y, x>> \in R)
  BY WFMin, <1>1
<1>4. ASSUME NEW y \in T PROVE x <= y
  <2>1. x \in Nat /\ y \in Nat
    OBVIOUS
  <2>2. ~(y < x)
    BY <1>2, <1>3, <2>1
  <2> QED BY <2>1, <2>2
<1> QED BY <1>4

(* An enumeration of S in order. *)
Enumerates(q, S) == q \in [1..Cardinality(S) -> S] /\ InOrder(q) /\ ToSet(q) = S

LEMMA BoundedIsFinite ==
  ASSUME NEW n \in Nat, NEW S \in SUBSET (1..n)
  PROVE  IsFiniteSet(S) /\ Cardinality(S) \in Nat
<1>1. IsFiniteSet(1..n)
  BY FS_Interval
<1>2. IsFiniteSet(S)
  BY <1>1, FS_Subset
<1> QED BY <1>2, FS_CardinalityType

LEMMA EmptyEnumeration == Enumerates(<<>>, {})
BY FS_EmptySet DEF Enumerates, InOrder, ToSet

LEMMA ExtendEnumeration ==
  ASSUME NEW n \in Nat, NEW S, S \subseteq 1..n, NEW q, Enumerates(q, S)
  PROVE  \E r : Enumerates(r, S \cup {n + 1})
<1> DEFINE k == Cardinality(S)
           r == [i \in 1..(k + 1) |-> IF i <= k THEN q[i] ELSE n + 1]
<1>1. IsFiniteSet(S) /\ k \in Nat
  BY BoundedIsFinite
<1>2. Cardinality(S \cup {n + 1}) = k + 1
  BY <1>1, FS_AddElement
<1>3. q \in [1..k -> S] /\ InOrder(q) /\ ToSet(q) = S
  BY DEF Enumerates
<1> HIDE DEF k
<1>4. r \in [1..(k + 1) -> S \cup {n + 1}]
  BY <1>1, <1>3
<1>5. InOrder(r)
  <2> SUFFICES ASSUME NEW i \in 1..(k + 1), NEW j \in 1..(k + 1), i < j PROVE r[i] < r[j]
    BY DEF InOrder
  <2>1. i <= k /\ r[i] = q[i] /\ q[i] \in S
    BY <1>1, <1>3
  <2>2. CASE j <= k
    BY <1>1, <1>3, <2>1, <2>2 DEF InOrder
  <2>3. CASE ~(j <= k)
    <3>1. r[j] = n + 1 /\ q[i] \in 1..n
      BY <1>1, <2>1, <2>3
    <3> QED BY <2>1, <3>1
  <2> QED BY <2>2, <2>3
<1>6. ToSet(r) = S \cup {n + 1}
  <2>1. \A i \in 1..(k + 1) : r[i] \in S \cup {n + 1}
    BY <1>4
  <2>2. ASSUME NEW s \in S PROVE \E i \in 1..(k + 1) : r[i] = s
    <3>1. PICK i \in 1..k : q[i] = s
      BY <1>3 DEF ToSet
    <3> QED BY <1>1, <3>1
  <2>3. k + 1 \in 1..(k + 1) /\ r[k + 1] = n + 1
    BY <1>1
  <2>4. ToSet(r) = {r[i] : i \in 1..(k + 1)}
    BY DEF ToSet
  <2> HIDE DEF r
  <2> QED BY <2>1, <2>2, <2>3, <2>4
<1> HIDE DEF r
<1> QED BY <1>2, <1>4, <1>5, <1>6 DEF Enumerates

(* Every finite set of positive numbers has one ... *)
LEMMA EnumerationExists ==
  \A n \in Nat : \A S \in SUBSET (1..n) : \E q : Enumerates(q, S)
<1> DEFINE Bad == {n \in Nat : ~ \A S \in SUBSET (1..n) : \E q : Enumerates(q, S)}
<1> SUFFICES ASSUME Bad # {} PROVE FALSE
  OBVIOUS
<1>1. PICK n \in Bad : \A m \in Bad : n <= m
  BY Least
<1>2. PICK S \in SUBSET (1..n) : ~ \E q : Enumerates(q, S)
  OBVIOUS
<1>3. n \in Nat /\ n # 0
  <2>1. 1..0 = {}
    OBVIOUS
  <2> QED BY <1>2, <2>1, EmptyEnumeration
<1>4. n - 1 \in Nat /\ n - 1 \notin Bad
  <2>1. n - 1 \in Nat /\ ~(n <= n - 1)
    BY <1>3
  <2> HIDE DEF Bad
  <2> QED BY <1>1, <2>1
<1>5. PICK q : Enumerates(q, S \ {n})
  <2>1. S \ {n} \in SUBSET (1..(n - 1))
    OBVIOUS
  <2> QED BY <1>4, <2>1
<1>6. n \in S
  BY <1>2, <1>5
<1>7. S = (S \ {n}) \cup {(n - 1) + 1}
  BY <1>6
<1>8. S \ {n} \subseteq 1..(n - 1)
  OBVIOUS
<1> QED BY <1>2, <1>4, <1>5, <1>7, <1>8, ExtendEnumeration

(* ... and Ascending is it. *)
LEMMA AscendingProperties ==
  ASSUME NEW n \in Nat, NEW S \in SUBSET (1..n)
  PROVE  /\ Ascending(S) \in Seq(S)
         /\ InOrder(Ascending(S))
         /\ ToSet(Ascending(S)) = S
<1>1. \E q : Enumerates(q, S)
  BY EnumerationExists
<1>2. Enumerates(Ascending(S), S)
  BY <1>1 DEF Enumerates, Ascending
<1>3. Cardinality(S) \in Nat
  BY BoundedIsFinite
<1>4. Ascending(S) \in Seq(S)
  BY <1>2, <1>3, SeqDef DEF Enumerates
<1> QED BY <1>2, <1>4 DEF Enumerates

(* Members of a sequence in order are as far apart as their places. *)
LEMMA OrderGrows ==
  ASSUME NEW q \in Seq(Nat), InOrder(q), NEW a \in Nat, \A i \in DOMAIN q : a < q[i]
  PROVE  \A k \in DOMAIN q : a + k <= q[k]
<1>1. DOMAIN q = 1..Len(q) /\ Len(q) \in Nat /\ \A i \in DOMAIN q : q[i] \in Nat
  BY LenProperties, ElementOfSeq
<1> DEFINE Bad == {k \in DOMAIN q : ~(a + k <= q[k])}
<1> SUFFICES ASSUME Bad # {} PROVE FALSE
  OBVIOUS
<1>2. PICK k \in Bad : \A m \in Bad : k <= m
  <2>1. Bad \subseteq Nat
    BY <1>1
  <2> QED BY <2>1, Least
<1>3. k \in DOMAIN q /\ k \in Nat /\ ~(a + k <= q[k])
  BY <1>1
<1>4. k # 1
  BY <1>1, <1>3
<1>5. k - 1 \in DOMAIN q /\ k - 1 < k
  BY <1>1, <1>3, <1>4
<1>6. k - 1 \notin Bad
  <2> HIDE DEF Bad
  <2> QED BY <1>2, <1>3
<1>7. a + (k - 1) <= q[k - 1] /\ q[k - 1] < q[k]
  BY <1>3, <1>5, <1>6 DEF InOrder
<1> QED BY <1>1, <1>3, <1>5, <1>7

LEMMA LastIsGreatest ==
  ASSUME NEW T, T \subseteq Nat, NEW q \in Seq(T), InOrder(q), q # <<>>
  PROVE  /\ Last(q) \in T /\ Last(q) \in ToSet(q)
         /\ \A s \in ToSet(q) : s <= Last(q)
<1>1. DOMAIN q = 1..Len(q) /\ Len(q) \in Nat \ {0} /\ \A i \in DOMAIN q : q[i] \in T
  BY LenProperties, ElementOfSeq, EmptySeq
<1>2. Len(q) \in DOMAIN q /\ Last(q) = q[Len(q)]
  BY <1>1 DEF Last
<1>3. ASSUME NEW i \in DOMAIN q PROVE q[i] <= q[Len(q)]
  <2>1. i = Len(q) \/ i < Len(q)
    BY <1>1
  <2>2. q[i] \in Nat /\ q[Len(q)] \in Nat
    BY <1>1, <1>2
  <2>3. i < Len(q) => q[i] < q[Len(q)]
    BY <1>2 DEF InOrder
  <2> QED BY <2>1, <2>2, <2>3
<1> QED BY <1>1, <1>2, <1>3 DEF ToSet

LEMMA MembersOf ==
  ASSUME NEW T, NEW q \in Seq(T)
  PROVE  /\ ToSet(q) \subseteq T
         /\ q = <<>> <=> ToSet(q) = {}
<1>1. DOMAIN q = 1..Len(q) /\ Len(q) \in Nat /\ \A i \in DOMAIN q : q[i] \in T
  BY LenProperties, ElementOfSeq
<1>2. q # <<>> => 1 \in DOMAIN q /\ q[1] \in ToSet(q)
  BY <1>1, EmptySeq DEF ToSet
<1>3. ToSet(q) \subseteq T
  BY <1>1 DEF ToSet
<1>4. ToSet(<<>>) = {}
  BY DEF ToSet
<1> QED BY <1>2, <1>3, <1>4

(* A sequence is a function on the first numbers.  (The provers do arithmetic   *)
(* on a number that is named, not on Len.)                                      *)
LEMMA AsFunction ==
  ASSUME NEW T, NEW ss \in Seq(T)
  PROVE  \E l \in Nat : l = Len(ss) /\ DOMAIN ss = 1..l /\ \A i \in 1..l : ss[i] \in T
BY LenProperties, ElementOfSeq

(* The first n: a prefix, all there is or n long. *)
LEMMA TakeIsPrefix ==
  ASSUME NEW T, NEW ss \in Seq(T), NEW n \in Nat
  PROVE  /\ Take(ss, n) \in Seq(T)
         /\ \E l, m \in Nat :
              /\ l = Len(ss) /\ DOMAIN ss = 1..l
              /\ m = Len(Take(ss, n)) /\ DOMAIN Take(ss, n) = 1..m
              /\ m <= n /\ m <= l /\ (m = n \/ m = l)
              /\ \A i \in 1..m : Take(ss, n)[i] = ss[i]
<1>1. PICK l \in Nat : l = Len(ss) /\ DOMAIN ss = 1..l /\ \A i \in 1..l : ss[i] \in T
  BY AsFunction
<1>2. PICK m \in Nat : m = IF n < l THEN n ELSE l
  OBVIOUS
<1>3. m <= l /\ m <= n /\ (m = n \/ m = l)
  BY <1>2
<1>4. Take(ss, n) = SubSeq(ss, 1, m)
  BY <1>1, <1>2 DEF Take
<1>5. \A i \in 1..m : ss[i] \in T
  BY <1>1, <1>3
<1>6. /\ SubSeq(ss, 1, m) \in Seq(T)
      /\ Len(SubSeq(ss, 1, m)) = IF 1 <= m THEN m - 1 + 1 ELSE 0
      /\ \A i \in 1..(m - 1 + 1) : SubSeq(ss, 1, m)[i] = ss[1 + i - 1]
  BY <1>5, SubSeqProperties
<1>7. m = Len(Take(ss, n)) /\ \A i \in 1..m : Take(ss, n)[i] = ss[i]
  BY <1>4, <1>6
<1>8. Take(ss, n) \in Seq(T) /\ DOMAIN Take(ss, n) = 1..m
  BY <1>4, <1>6, <1>7, LenProperties
<1> QED BY <1>1, <1>3, <1>7, <1>8

(* It is in order if the whole is ... *)
LEMMA TakeProperties ==
  ASSUME NEW T, NEW ss \in Seq(T), NEW n \in Nat
  PROVE  /\ Take(ss, n) \in Seq(T)
         /\ Len(Take(ss, n)) <= n
         /\ ToSet(Take(ss, n)) \subseteq ToSet(ss)
         /\ InOrder(ss) => InOrder(Take(ss, n))
         /\ Len(ss) <= n => Take(ss, n) = ss
<1>1. PICK r \in Seq(T) : r = Take(ss, n)
  BY TakeIsPrefix
<1>2. PICK l, m \in Nat :
        /\ l = Len(ss) /\ DOMAIN ss = 1..l /\ m = Len(r) /\ DOMAIN r = 1..m
        /\ m <= n /\ m <= l /\ (m = n \/ m = l)
        /\ \A i \in 1..m : r[i] = ss[i]
  BY <1>1, TakeIsPrefix
<1>3. DOMAIN r \subseteq DOMAIN ss /\ \A i \in DOMAIN r : r[i] = ss[i]
  BY <1>2
<1>4. (InOrder(ss) => InOrder(r)) /\ ToSet(r) \subseteq ToSet(ss)
  BY <1>3 DEF InOrder, ToSet
<1>5. ASSUME l <= n PROVE r = ss
  <2>1. m = l
    BY <1>2, <1>5
  <2>2. r \in [1..l -> T] /\ ss \in [1..l -> T]
    BY <1>2, <2>1, LenProperties
  <2> QED BY <1>2, <2>1, <2>2
<1> QED BY <1>1, <1>2, <1>4, <1>5

(* ... and what it leaves out is above it. *)
LEMMA TakeIsFirst ==
  ASSUME NEW T, T \subseteq Nat, NEW ss \in Seq(T), InOrder(ss), NEW n \in Nat,
         NEW x \in ToSet(ss), x \notin ToSet(Take(ss, n))
  PROVE  /\ Len(Take(ss, n)) = n
         /\ \A y \in ToSet(Take(ss, n)) : y < x
<1>1. \E r \in Seq(T), l, m \in Nat :
        /\ r = Take(ss, n)
        /\ l = Len(ss) /\ DOMAIN ss = 1..l /\ m = Len(r) /\ DOMAIN r = 1..m
        /\ m <= n /\ m <= l /\ (m = n \/ m = l)
        /\ \A i \in 1..m : r[i] = ss[i]
  <2>1. Take(ss, n) \in Seq(T)
    BY TakeIsPrefix
  <2>2. PICK l, m \in Nat :
          /\ l = Len(ss) /\ DOMAIN ss = 1..l
          /\ m = Len(Take(ss, n)) /\ DOMAIN Take(ss, n) = 1..m
          /\ m <= n /\ m <= l /\ (m = n \/ m = l)
          /\ \A i \in 1..m : Take(ss, n)[i] = ss[i]
    BY TakeIsPrefix, Zenon
  <2> QED BY <2>1, <2>2
<1>2. PICK r \in Seq(T), l, m \in Nat :
        /\ r = Take(ss, n)
        /\ l = Len(ss) /\ DOMAIN ss = 1..l /\ m = Len(r) /\ DOMAIN r = 1..m
        /\ m <= n /\ m <= l /\ (m = n \/ m = l)
        /\ \A i \in 1..m : r[i] = ss[i]
  BY <1>1
<1>3. PICK j \in 1..l : ss[j] = x
  BY <1>2 DEF ToSet
<1>4. j \notin 1..m
  BY <1>2, <1>3 DEF ToSet
<1>5. m < j /\ m = n
  BY <1>2, <1>4
<1>6. ASSUME NEW i \in 1..m PROVE r[i] < x
  <2>1. i \in DOMAIN ss /\ j \in DOMAIN ss /\ i < j
    BY <1>2, <1>5
  <2>2. ss[i] < ss[j]
    BY <2>1 DEF InOrder
  <2> QED BY <1>2, <1>3, <2>2
<1> QED BY <1>2, <1>5, <1>6 DEF ToSet

LEMMA MaxSeqType == MaxSeq \in Nat /\ MaxSeq > 0 /\ Seqs \subseteq Nat /\ Seqs \subseteq 0..MaxSeq
BY StreamConstants DEF Seqs

(* What the sending loop sends rises, is new, and is all that is new and not   *)
(* overtaken.                                                                  *)
LEMMA RisingProperties ==
  ASSUME NEW ss \in Seq(Seqs), NEW t \in Int
  PROVE  /\ Rising(ss, t) \in Seq(Seqs) /\ InOrder(Rising(ss, t))
         /\ ToSet(Rising(ss, t)) \subseteq ToSet(ss)
         /\ \A s \in ToSet(Rising(ss, t)) : t < s
         /\ \A j \in DOMAIN ss :
              t < ss[j] /\ (\A i \in DOMAIN ss : i < j => ss[i] < ss[j])
                => ss[j] \in ToSet(Rising(ss, t))
<1> DEFINE P == {i \in DOMAIN ss : ss[i] > t /\ \A j \in 1..(i - 1) : ss[j] < ss[i]}
           at == Ascending(P)
           r == [k \in DOMAIN at |-> ss[at[k]]]
<1>1. r = Rising(ss, t)
  BY DEF Rising
<1>2. PICK l \in Nat : l = Len(ss) /\ DOMAIN ss = 1..l /\ \A i \in 1..l : ss[i] \in Seqs
  BY AsFunction
<1>3. P \in SUBSET (1..l)
  BY <1>2
<1>4. \A i \in P : ss[i] > t /\ \A j \in P : j < i => ss[j] < ss[i]
  <2> SUFFICES ASSUME NEW i \in P, NEW j \in P, j < i PROVE ss[j] < ss[i]
    OBVIOUS
  <2>1. j \in 1..(i - 1)
    BY <1>3
  <2> QED BY <2>1
<1>5. ASSUME NEW i \in 1..l, t < ss[i], \A j \in 1..l : j < i => ss[j] < ss[i]
      PROVE  i \in P
  <2>1. ss[i] > t
    BY <1>2, <1>5, MaxSeqType
  <2>2. \A j \in 1..(i - 1) : j \in 1..l /\ j < i
    OBVIOUS
  <2> QED BY <1>2, <1>5, <2>1, <2>2
<1> HIDE DEF P
<1>6. at \in Seq(P) /\ InOrder(at) /\ ToSet(at) = P
  BY <1>3, AscendingProperties
<1> HIDE DEF at
<1>7. PICK m \in Nat : m = Len(at) /\ DOMAIN at = 1..m /\ \A k \in 1..m : at[k] \in P
  BY <1>6, AsFunction
<1>8. r \in [1..m -> Seqs] /\ DOMAIN r = 1..m /\ \A k \in 1..m : r[k] = ss[at[k]]
  BY <1>2, <1>3, <1>7
<1>9. r \in Seq(Seqs)
  BY <1>8, SeqDef
<1> HIDE DEF r
<1>10. InOrder(r)
  <2> SUFFICES ASSUME NEW i \in 1..m, NEW j \in 1..m, i < j PROVE r[i] < r[j]
    BY <1>8 DEF InOrder
  <2>1. at[i] < at[j] /\ at[i] \in P /\ at[j] \in P
    BY <1>6, <1>7 DEF InOrder
  <2> QED BY <1>4, <1>8, <2>1
<1>11. ToSet(r) \subseteq ToSet(ss) /\ \A s \in ToSet(r) : t < s
  <2> SUFFICES ASSUME NEW k \in 1..m PROVE r[k] \in ToSet(ss) /\ t < r[k]
    BY <1>8 DEF ToSet
  <2>1. at[k] \in P /\ at[k] \in DOMAIN ss /\ r[k] = ss[at[k]]
    BY <1>2, <1>3, <1>7, <1>8
  <2>2. ss[at[k]] > t /\ ss[at[k]] \in Nat
    BY <1>2, <1>4, <2>1, MaxSeqType
  <2> QED BY <2>1, <2>2 DEF ToSet
<1>12. ASSUME NEW i \in DOMAIN ss, t < ss[i], \A j \in DOMAIN ss : j < i => ss[j] < ss[i]
       PROVE  ss[i] \in ToSet(r)
  <2>1. i \in P
    BY <1>2, <1>5, <1>12
  <2>2. PICK k \in 1..m : at[k] = i
    BY <1>6, <1>7, <2>1 DEF ToSet
  <2> QED BY <1>8, <2>2 DEF ToSet
<1> QED BY <1>1, <1>9, <1>10, <1>11, <1>12

LEMMA RisingOfOrdered ==
  ASSUME NEW ss \in Seq(Seqs), InOrder(ss), NEW t \in Int, NEW s \in ToSet(ss), t < s
  PROVE  s \in ToSet(Rising(ss, t))
<1>1. PICK j \in DOMAIN ss : ss[j] = s
  BY DEF ToSet
<1>2. \A i \in DOMAIN ss : i < j => ss[i] < ss[j]
  BY DEF InOrder
<1> QED BY <1>1, <1>2, RisingProperties

(* Where a sending loop leaves `delivered`. *)
LEMMA ReachedProperties ==
  ASSUME NEW t \in Nat, NEW ss \in Seq(Seqs), InOrder(ss)
  PROVE  /\ Reached(t, ss) \in Nat /\ t <= Reached(t, ss)
         /\ Reached(t, ss) = t \/ Reached(t, ss) \in ToSet(ss)
         /\ \A s \in ToSet(ss) : s <= Reached(t, ss)
<1>1. CASE ss = <<>>
  <2>1. Reached(t, ss) = t
    BY <1>1 DEF Reached
  <2>2. ToSet(ss) = {}
    BY <1>1 DEF ToSet
  <2> QED BY <2>1, <2>2
<1>2. CASE ss # <<>>
  <2>1. PICK z \in ToSet(ss) : z = Last(ss) /\ \A s \in ToSet(ss) : s <= z
    BY <1>2, LastIsGreatest, MaxSeqType
  <2>2. ToSet(ss) \subseteq Nat
    BY MembersOf, MaxSeqType
  <2>3. Reached(t, ss) = IF t >= z THEN t ELSE z
    BY <1>2, <2>1 DEF Reached, Larger
  <2>4. CASE t >= z
    BY <2>1, <2>2, <2>3, <2>4
  <2>5. CASE ~(t >= z)
    BY <2>1, <2>2, <2>3, <2>5
  <2> QED BY <2>4, <2>5
<1> QED BY <1>1, <1>2

LEMMA ConcatMembers ==
  ASSUME NEW T, NEW a \in Seq(T), NEW b \in Seq(T)
  PROVE  a \o b \in Seq(T) /\ ToSet(a \o b) = ToSet(a) \cup ToSet(b)
<1>1. PICK l \in Nat : l = Len(a) /\ DOMAIN a = 1..l
  BY AsFunction
<1>2. PICK m \in Nat : m = Len(b) /\ DOMAIN b = 1..m
  BY AsFunction
<1>3. PICK r \in Seq(T) : r = a \o b
  BY ConcatProperties
<1>4. /\ Len(r) = l + m
      /\ \A i \in 1..(l + m) : r[i] = IF i <= l THEN a[i] ELSE b[i - l]
  BY <1>1, <1>2, <1>3, ConcatProperties
<1>5. DOMAIN r = 1..(l + m)
  BY <1>4, LenProperties
<1>6. \A i \in 1..l : i \in 1..(l + m) /\ r[i] = a[i]
  BY <1>4
<1>7. \A i \in 1..m : l + i \in 1..(l + m) /\ r[l + i] = b[i]
  <2> SUFFICES ASSUME NEW i \in 1..m PROVE l + i \in 1..(l + m) /\ r[l + i] = b[i]
    OBVIOUS
  <2>1. l + i \in 1..(l + m) /\ ~(l + i <= l) /\ (l + i) - l = i
    OBVIOUS
  <2> QED BY <1>4, <2>1
<1>8. ASSUME NEW i \in 1..(l + m)
      PROVE  (\E k \in 1..l : r[i] = a[k]) \/ (\E k \in 1..m : r[i] = b[k])
  <2>1. CASE i <= l
    BY <1>4, <2>1
  <2>2. CASE ~(i <= l)
    <3>1. i - l \in 1..m /\ r[i] = b[i - l]
      BY <1>4, <2>2
    <3> QED BY <3>1
  <2> QED BY <2>1, <2>2
<1>9. /\ ToSet(a) = {a[i] : i \in 1..l} /\ ToSet(b) = {b[i] : i \in 1..m}
      /\ ToSet(r) = {r[i] : i \in 1..(l + m)}
  BY <1>1, <1>2, <1>5 DEF ToSet
<1>10. ToSet(r) \subseteq ToSet(a) \cup ToSet(b)
  BY <1>8, <1>9
<1>11. ToSet(a) \subseteq ToSet(r)
  BY <1>6, <1>9
<1>12. ToSet(b) \subseteq ToSet(r)
  BY <1>7, <1>9
<1> QED BY <1>3, <1>10, <1>11, <1>12

LEMMA ConcatInOrder ==
  ASSUME NEW T, T \subseteq Nat, NEW a \in Seq(T), NEW b \in Seq(T), InOrder(a), InOrder(b),
         \A x \in ToSet(a), y \in ToSet(b) : x < y
  PROVE  InOrder(a \o b)
<1>1. PICK l \in Nat : l = Len(a) /\ DOMAIN a = 1..l
  BY AsFunction
<1>2. PICK m \in Nat : m = Len(b) /\ DOMAIN b = 1..m
  BY AsFunction
<1>3. PICK r \in Seq(T) : r = a \o b
  BY ConcatProperties
<1>4. /\ Len(r) = l + m
      /\ \A i \in 1..(l + m) : r[i] = IF i <= l THEN a[i] ELSE b[i - l]
  BY <1>1, <1>2, <1>3, ConcatProperties
<1>5. DOMAIN r = 1..(l + m)
  BY <1>4, LenProperties
<1> SUFFICES ASSUME NEW i \in 1..(l + m), NEW j \in 1..(l + m), i < j PROVE r[i] < r[j]
  BY <1>3, <1>5 DEF InOrder
<1>6. CASE j <= l
  <2>1. i \in DOMAIN a /\ j \in DOMAIN a /\ r[i] = a[i] /\ r[j] = a[j]
    BY <1>1, <1>4, <1>6
  <2> QED BY <2>1 DEF InOrder
<1>7. CASE i <= l /\ ~(j <= l)
  <2>1. i \in DOMAIN a /\ (j - l) \in DOMAIN b /\ r[i] = a[i] /\ r[j] = b[j - l]
    BY <1>1, <1>2, <1>4, <1>7
  <2> QED BY <2>1 DEF ToSet
<1>8. CASE ~(i <= l)
  <2>1. /\ (i - l) \in DOMAIN b /\ (j - l) \in DOMAIN b /\ i - l < j - l
        /\ r[i] = b[i - l] /\ r[j] = b[j - l]
    BY <1>2, <1>4, <1>8
  <2> QED BY <2>1 DEF InOrder
<1> QED BY <1>6, <1>7, <1>8

-----------------------------------------------------------------------------
(* What is on a socket *)

(* A refresh comes first if at all; the events rise, above `low` (where the    *)
(* client will be when it has read a refresh) and up to `high`.                *)
Orderly(w, low, high) ==
  /\ \A i \in DOMAIN w : w[i].kind = "refresh" => i = 1
  /\ \A i \in DOMAIN w : w[i].kind = "event" => low < w[i].seq /\ w[i].seq <= high
  /\ \A i, j \in DOMAIN w : i < j /\ w[i].kind = "event" => w[i].seq < w[j].seq

Refreshes(w) == w # <<>> /\ Head(w).kind = "refresh"

(* The resume point of a client that holds `last` and has w before it. *)
Base(w, last) == IF Refreshes(w) THEN Head(w).seq ELSE last

LEMMA MessageType ==
  /\ \A m \in Message : m.kind \in {"event", "refresh"} /\ m.seq \in 0..MaxSeq /\ m.seq \in Nat
  /\ \A m \in Message : m.kind = "event" => m.seq \in Seqs /\ m = Event(m.seq)
  /\ \A s \in Seqs : Event(s) \in Message /\ Event(s).kind = "event" /\ Event(s).seq = s
  /\ \A s \in 0..MaxSeq : Refresh(s) \in Message /\ Refresh(s).kind = "refresh"
                          /\ Refresh(s).seq = s
BY MaxSeqType DEF Message, Event, Refresh, Seqs

LEMMA EventsProperties ==
  ASSUME NEW ss \in Seq(Seqs)
  PROVE  /\ Events(ss) \in Seq(Message)
         /\ DOMAIN Events(ss) = DOMAIN ss
         /\ \A i \in DOMAIN ss : Events(ss)[i].kind = "event" /\ Events(ss)[i].seq = ss[i]
         /\ \A s : Event(s) \in ToSet(Events(ss)) <=> s \in ToSet(ss)
<1>1. PICK l \in Nat : l = Len(ss) /\ DOMAIN ss = 1..l /\ \A i \in 1..l : ss[i] \in Seqs
  BY AsFunction
<1>2. Events(ss) \in [1..l -> Message]
  BY <1>1, MessageType DEF Events
<1>3. Events(ss) \in Seq(Message)
  BY <1>2, SeqDef
<1>4. DOMAIN Events(ss) = DOMAIN ss /\ \A i \in DOMAIN ss : Events(ss)[i] = Event(ss[i])
  BY DEF Events
<1>5. ASSUME NEW s PROVE Event(s) \in ToSet(Events(ss)) <=> s \in ToSet(ss)
  <2>1. \A i \in DOMAIN ss : Event(ss[i]) = Event(s) <=> ss[i] = s
    BY DEF Event
  <2> QED BY <1>4, <2>1 DEF ToSet
<1> QED BY <1>1, <1>3, <1>4, <1>5, MessageType

LEMMA EmptyWire == ASSUME NEW low, NEW high PROVE Orderly(<<>>, low, high) /\ ~Refreshes(<<>>)
BY DEF Orderly, Refreshes

LEMMA HeadIsFirst ==
  ASSUME NEW w \in Seq(Message), w # <<>>
  PROVE  1 \in DOMAIN w /\ Head(w) = w[1] /\ Head(w) \in Message /\ Head(w) \in ToSet(w)
<1>1. 1 \in DOMAIN w
  BY EmptySeq, LenProperties
<1>2. Head(w) = w[1]
  OBVIOUS
<1> QED BY <1>1, <1>2, HeadTailProperties DEF ToSet

(* A refresh on an empty socket. *)
LEMMA RefreshWire ==
  ASSUME NEW s \in 0..MaxSeq
  PROVE  /\ Append(<<>>, Refresh(s)) \in Seq(Message)
         /\ Orderly(Append(<<>>, Refresh(s)), s, s)
         /\ Refreshes(Append(<<>>, Refresh(s)))
         /\ Head(Append(<<>>, Refresh(s))) = Refresh(s)
<1>1. PICK w : w = Append(<<>>, Refresh(s))
  OBVIOUS
<1>2. /\ w \in Seq(Message) /\ w # <<>> /\ Len(w) = 1 /\ w[1] = Refresh(s)
  <2>1. <<>> \in Seq(Message) /\ Len(<<>>) = 0
    BY EmptySeq
  <2> QED BY <1>1, <2>1, AppendProperties, MessageType
<1>3. DOMAIN w = {1}
  BY <1>2, LenProperties
<1>4. Head(w) = Refresh(s)
  BY <1>2, HeadIsFirst
<1>5. w[1].kind = "refresh"
  BY <1>2, MessageType
<1>6. Orderly(w, s, s)
  BY <1>3, <1>5 DEF Orderly
<1> QED BY <1>1, <1>2, <1>4, <1>5, <1>6 DEF Refreshes

(* New events behind what is there. *)
LEMMA WireGrows ==
  ASSUME NEW w \in Seq(Message), NEW low \in Nat, NEW high \in Nat, NEW top \in Nat,
         Orderly(w, low, high), low <= high, high <= top,
         \A m \in ToSet(w) : m.seq <= high,
         NEW ss \in Seq(Seqs), InOrder(ss), \A s \in ToSet(ss) : high < s /\ s <= top
  PROVE  /\ w \o Events(ss) \in Seq(Message)
         /\ Orderly(w \o Events(ss), low, top)
         /\ \A m \in ToSet(w \o Events(ss)) : m.seq <= top
         /\ \A last : Base(w \o Events(ss), last) = Base(w, last)
         /\ Refreshes(w \o Events(ss)) <=> Refreshes(w)
         /\ \A s : Event(s) \in ToSet(w \o Events(ss))
                     <=> Event(s) \in ToSet(w) \/ s \in ToSet(ss)
<1>1. PICK e \in Seq(Message) : e = Events(ss)
  BY EventsProperties
<1>2. PICK r \in Seq(Message) : r = w \o e
  BY ConcatProperties
<1>3. PICK l \in Nat : l = Len(w) /\ DOMAIN w = 1..l /\ \A i \in 1..l : w[i] \in Message
  BY AsFunction
<1>4. PICK m \in Nat : m = Len(e) /\ DOMAIN e = 1..m
  BY AsFunction
<1>5. /\ Len(r) = l + m
      /\ \A i \in 1..(l + m) : r[i] = IF i <= l THEN w[i] ELSE e[i - l]
  BY <1>2, <1>3, <1>4, ConcatProperties
<1>6. DOMAIN r = 1..(l + m)
  BY <1>5, LenProperties
<1>7. \A i \in 1..(l + m) : i <= l => i \in DOMAIN w /\ r[i] = w[i]
  BY <1>3, <1>5
<1>8. DOMAIN ss = 1..m /\ \A k \in 1..m : e[k].kind = "event" /\ e[k].seq = ss[k]
  BY <1>1, <1>4, EventsProperties
<1>9. \A i \in 1..(l + m) : ~(i <= l) =>
        i - l \in DOMAIN ss /\ r[i].kind = "event" /\ r[i].seq = ss[i - l]
  <2> SUFFICES ASSUME NEW i \in 1..(l + m), ~(i <= l)
               PROVE  i - l \in DOMAIN ss /\ r[i].kind = "event" /\ r[i].seq = ss[i - l]
    OBVIOUS
  <2>1. i - l \in 1..m /\ r[i] = e[i - l]
    BY <1>5
  <2> QED BY <1>8, <2>1
<1>10. \A k \in DOMAIN ss : ss[k] \in Nat /\ high < ss[k] /\ ss[k] <= top /\ ss[k] \in ToSet(ss)
  <2>1. \A k \in DOMAIN ss : ss[k] \in ToSet(ss)
    BY DEF ToSet
  <2> QED BY <2>1, MembersOf, MaxSeqType
<1>11. \A i \in 1..l : w[i].seq \in Nat /\ w[i].seq <= high
  <2>1. \A i \in 1..l : w[i] \in ToSet(w)
    BY <1>3 DEF ToSet
  <2> QED BY <1>3, <2>1, MessageType
<1>12. \A i \in DOMAIN r : r[i].kind = "refresh" => i = 1
  BY <1>6, <1>7, <1>9 DEF Orderly
<1>13. ASSUME NEW i \in DOMAIN r, r[i].kind = "event"
       PROVE  low < r[i].seq /\ r[i].seq <= top
  <2>1. CASE i <= l
    <3>1. low < w[i].seq /\ w[i].seq <= high /\ w[i].seq \in Nat /\ r[i] = w[i]
      BY <1>3, <1>6, <1>7, <1>11, <1>13, <2>1 DEF Orderly
    <3> QED BY <3>1
  <2>2. CASE ~(i <= l)
    BY <1>6, <1>9, <1>10, <2>2
  <2> QED BY <2>1, <2>2
<1>14. ASSUME NEW i \in DOMAIN r, NEW j \in DOMAIN r, i < j, r[i].kind = "event"
       PROVE  r[i].seq < r[j].seq
  <2>1. CASE j <= l
    <3>1. i <= l /\ i \in DOMAIN w /\ j \in DOMAIN w /\ r[i] = w[i] /\ r[j] = w[j]
      BY <1>3, <1>6, <1>7, <1>14, <2>1
    <3> QED BY <1>14, <3>1 DEF Orderly
  <2>2. CASE i <= l /\ ~(j <= l)
    <3>1. r[i].seq \in Nat /\ r[i].seq <= high
      BY <1>6, <1>7, <1>11, <1>3, <2>2
    <3>2. r[j].seq \in Nat /\ high < r[j].seq
      BY <1>6, <1>9, <1>10, <2>2
    <3> QED BY <3>1, <3>2
  <2>3. CASE ~(i <= l)
    <3>1. i - l \in DOMAIN ss /\ j - l \in DOMAIN ss /\ i - l < j - l
      BY <1>6, <1>9, <1>14, <2>3
    <3>2. r[i].seq = ss[i - l] /\ r[j].seq = ss[j - l]
      BY <1>6, <1>9, <1>14, <2>3
    <3> QED BY <3>1, <3>2 DEF InOrder
  <2> QED BY <2>1, <2>2, <2>3
<1>15. Orderly(r, low, top)
  BY <1>12, <1>13, <1>14 DEF Orderly
<1>16. ASSUME NEW x \in ToSet(r) PROVE x.seq <= top
  <2>1. PICK i \in 1..(l + m) : x = r[i]
    BY <1>6 DEF ToSet
  <2>2. CASE i <= l
    <3>1. x.seq \in Nat /\ x.seq <= high
      BY <1>3, <1>7, <1>11, <2>1, <2>2
    <3> QED BY <3>1
  <2>3. CASE ~(i <= l)
    BY <1>9, <1>10, <2>1, <2>3
  <2> QED BY <2>2, <2>3
<1>17. \A s : Event(s) \in ToSet(r) <=> Event(s) \in ToSet(w) \/ s \in ToSet(ss)
  <2>1. ToSet(r) = ToSet(w) \cup ToSet(e)
    BY <1>2, ConcatMembers
  <2> QED BY <1>1, <2>1, EventsProperties
<1>18. /\ Refreshes(r) <=> Refreshes(w)
       /\ Refreshes(w) => Head(r) = Head(w)
  <2>1. CASE w = <<>>
    <3>1. l = 0 /\ ~Refreshes(w)
      BY <1>3, <2>1, EmptySeq, EmptyWire
    <3>2. ASSUME r # <<>> PROVE Head(r).kind = "event"
      <4>1. 1 \in DOMAIN r /\ Head(r) = r[1]
        BY <3>2, HeadIsFirst
      <4> QED BY <1>6, <1>9, <3>1, <4>1
    <3> QED BY <3>1, <3>2 DEF Refreshes
  <2>2. CASE w # <<>>
    <3>1. 1 \in DOMAIN w /\ Head(w) = w[1]
      BY <2>2, HeadIsFirst
    <3>2. 1 \in 1..(l + m) /\ r[1] = w[1]
      BY <1>3, <1>7, <3>1
    <3>3. r # <<>>
      BY <1>6, <3>2
    <3>4. Head(r) = r[1]
      BY <3>3, HeadIsFirst
    <3> QED BY <2>2, <3>1, <3>2, <3>3, <3>4 DEF Refreshes
  <2> QED BY <2>1, <2>2
<1>19. \A last : Base(r, last) = Base(w, last)
  BY <1>18 DEF Base
<1> QED BY <1>1, <1>2, <1>15, <1>16, <1>17, <1>18, <1>19

(* The first events on a socket. *)
LEMMA WireStarts ==
  ASSUME NEW low \in Nat, NEW top \in Nat, low <= top,
         NEW ss \in Seq(Seqs), InOrder(ss), \A s \in ToSet(ss) : low < s /\ s <= top
  PROVE  /\ <<>> \o Events(ss) \in Seq(Message)
         /\ Orderly(<<>> \o Events(ss), low, top)
         /\ \A m \in ToSet(<<>> \o Events(ss)) : m.seq <= top
         /\ ~Refreshes(<<>> \o Events(ss))
         /\ \A s : Event(s) \in ToSet(<<>> \o Events(ss)) <=> s \in ToSet(ss)
<1>1. <<>> \in Seq(Message) /\ ToSet(<<>>) = {}
  BY EmptySeq DEF ToSet
<1>2. Orderly(<<>>, low, low) /\ ~Refreshes(<<>>)
  BY EmptyWire
<1>3. low <= low /\ \A m \in ToSet(<<>>) : m.seq <= low
  BY <1>1
<1> QED BY <1>1, <1>2, <1>3, WireGrows

(* The client reads the first message. *)
LEMMA WireShrinks ==
  ASSUME NEW w \in Seq(Message), w # <<>>, NEW low \in Nat, NEW high \in Nat,
         Orderly(w, low, high)
  PROVE  /\ Tail(w) \in Seq(Message)
         /\ ToSet(Tail(w)) \subseteq ToSet(w)
         /\ \A m \in ToSet(w) : m = Head(w) \/ m \in ToSet(Tail(w))
         /\ ~Refreshes(Tail(w))
         /\ Head(w).kind = "event" =>
              low < Head(w).seq /\ Head(w).seq <= high /\ Orderly(Tail(w), Head(w).seq, high)
         /\ Head(w).kind = "refresh" => Orderly(Tail(w), low, high)
<1>1. PICK l \in Nat : l = Len(w) /\ DOMAIN w = 1..l /\ \A i \in 1..l : w[i] \in Message
  BY AsFunction
<1>2. 1 \in 1..l /\ Head(w) = w[1]
  BY <1>1, HeadIsFirst
<1>3. PICK r \in Seq(Message) : r = Tail(w)
  BY HeadTailProperties
<1>4. Len(r) = l - 1 /\ \A i \in 1..Len(r) : r[i] = w[i + 1]
  BY <1>1, <1>3, HeadTailProperties
<1>5. DOMAIN r = 1..(l - 1) /\ \A i \in 1..(l - 1) : i + 1 \in DOMAIN w /\ r[i] = w[i + 1]
  BY <1>1, <1>4, LenProperties
<1>6. \A i \in DOMAIN r : r[i].kind = "event"
  <2> SUFFICES ASSUME NEW i \in DOMAIN r PROVE r[i].kind = "event"
    OBVIOUS
  <2>1. i + 1 \in DOMAIN w /\ r[i] = w[i + 1] /\ i + 1 # 1
    BY <1>1, <1>5
  <2>2. w[i + 1].kind # "refresh" /\ w[i + 1] \in Message
    BY <1>1, <2>1 DEF Orderly
  <2> QED BY <2>1, <2>2, MessageType
<1>7. \A i, j \in DOMAIN r : i < j => r[i].seq < r[j].seq
  <2> SUFFICES ASSUME NEW i \in DOMAIN r, NEW j \in DOMAIN r, i < j PROVE r[i].seq < r[j].seq
    OBVIOUS
  <2>1. i + 1 \in DOMAIN w /\ j + 1 \in DOMAIN w /\ i + 1 < j + 1
    <3>1. i \in 1..(l - 1) /\ j \in 1..(l - 1)
      BY <1>5
    <3>2. i + 1 \in DOMAIN w /\ j + 1 \in DOMAIN w
      BY <1>5, <3>1
    <3> QED BY <1>1, <3>1, <3>2
  <2>2. r[i] = w[i + 1] /\ r[j] = w[j + 1] /\ w[i + 1].kind = "event"
    BY <1>5, <1>6
  <2> QED BY <2>1, <2>2 DEF Orderly
<1>8. \A i \in DOMAIN r : low < r[i].seq /\ r[i].seq <= high
  BY <1>5, <1>6 DEF Orderly
<1>9. Orderly(r, low, high)
  BY <1>6, <1>7, <1>8 DEF Orderly
<1>10. ASSUME w[1].kind = "event"
       PROVE  low < w[1].seq /\ w[1].seq <= high /\ Orderly(r, w[1].seq, high)
  <2>1. low < w[1].seq /\ w[1].seq <= high
    BY <1>1, <1>2, <1>10 DEF Orderly
  <2>2. ASSUME NEW i \in DOMAIN r PROVE w[1].seq < r[i].seq
    <3>1. i + 1 \in DOMAIN w /\ 1 \in DOMAIN w /\ 1 < i + 1 /\ r[i] = w[i + 1]
      BY <1>1, <1>2, <1>5
    <3> QED BY <1>10, <3>1 DEF Orderly
  <2> QED BY <1>6, <1>7, <1>8, <2>1, <2>2 DEF Orderly
<1>11. ToSet(r) \subseteq ToSet(w)
  BY <1>5 DEF ToSet
<1>12. ASSUME NEW m \in ToSet(w) PROVE m = w[1] \/ m \in ToSet(r)
  <2>1. PICK i \in 1..l : m = w[i]
    BY <1>1 DEF ToSet
  <2>2. CASE i = 1
    BY <2>1, <2>2
  <2>3. CASE i # 1
    <3>1. i - 1 \in 1..(l - 1) /\ (i - 1) + 1 = i
      BY <2>3
    <3>2. r[i - 1] = w[i]
      BY <1>5, <3>1
    <3> QED BY <1>5, <2>1, <3>1, <3>2 DEF ToSet
  <2> QED BY <2>2, <2>3
<1>13. ~Refreshes(r)
  <2> SUFFICES ASSUME r # <<>> PROVE Head(r).kind = "event"
    BY DEF Refreshes
  <2> QED BY <1>6, HeadIsFirst
<1> QED BY <1>2, <1>3, <1>9, <1>10, <1>11, <1>12, <1>13

-----------------------------------------------------------------------------
(* The inductive invariant *)

(* What the phase of a socket says of its state. *)
PhaseInv(c) ==
  LET u == sub[c] IN
  /\ u.phase # "off" => u.proc \in Procs
  /\ u.phase # "live" => wire[c] = <<>>
  /\ u.phase \in {"asked", "positioned", "replaying", "replayed"} =>
       u.delivered = 0 /\ u.asked = client[c].last
  /\ u.phase \notin {"replaying", "replayed"} => u.buffer = <<>>
  /\ u.phase \in {"positioned", "replaying", "replayed", "live"} => u.position <= committed
  /\ u.phase \in {"replaying", "replayed"} => ~RefreshNeeded(u) /\ u.position > u.asked

(* The history read has no gap, up to the reported position and to its own end. *)
HistoryInv(c) ==
  LET u == sub[c] IN
  u.phase = "replayed" =>
    /\ u.history # <<>> /\ InOrder(u.history)
    /\ \A s \in ToSet(u.history) : u.asked < s /\ s <= committed
    /\ \A s \in earliest..committed :
         u.asked < s /\ (s <= u.position \/ s <= Last(u.history)) => s \in ToSet(u.history)

(* Only committed events are buffered. *)
BufferStored(c) == \A s \in ToSet(sub[c].buffer) : s <= committed

(* A live socket carries, in order, what lies between the client's resume      *)
(* point and `delivered`.                                                      *)
LiveInv(c) ==
  LET u == sub[c] IN
  u.phase = "live" =>
    /\ Base(wire[c], client[c].last) <= u.delivered /\ u.delivered <= committed
    /\ Orderly(wire[c], Base(wire[c], client[c].last), u.delivered)
    /\ \A m \in ToSet(wire[c]) : m.seq <= u.delivered
    /\ ~RefreshNeeded(u) => ~Refreshes(wire[c])

(* ReplayIsComplete for one client. *)
Replayed(c) ==
  sub[c].phase = "live" /\ ~RefreshNeeded(sub[c]) =>
    \A s \in (sub[c].asked + 1)..sub[c].position :
      s < earliest \/ s \in client[c].known \/ Event(s) \in ToSet(wire[c])

ClientInv(c) == PhaseInv(c) /\ BufferStored(c) /\ HistoryInv(c) /\ LiveInv(c) /\ Replayed(c)

IInv ==
  /\ TypeOK
  /\ earliest = 1 \/ earliest <= committed
  /\ \A c \in Clients : ClientInv(c)

(* A row that waits in the outbox, or that a dispatcher holds. *)
Queued(s) == s \in pending \/ \E p \in Procs : s \in claimed[p]

(* An event that is buffered behind a later one, or still queued when a later   *)
(* one is buffered, is one that was let go.                                     *)
BufferOrder(c) ==
  LET u == sub[c] IN
  /\ \A i, j \in DOMAIN u.buffer :
       i < j /\ u.position < u.buffer[j] => u.buffer[i] <= u.buffer[j] \/ u.buffer[j] \in missed[c]
  /\ \A s \in ToSet(u.buffer), t \in Seqs :
       Queued(t) /\ u.position < t /\ t < s => t \in missed[c]

(* Every retained event is with the consumer, on its way, still queued, or was  *)
(* let go.                                                                      *)
Underway(c, s) ==
  LET u == sub[c] IN
  /\ u.phase = "positioned" /\ u.position < s => Queued(s) \/ s \in missed[c]
  /\ u.phase \in {"replaying", "replayed"} /\ u.position < s =>
       Queued(s) \/ s \in ToSet(u.buffer) \/ s \in missed[c]
  /\ u.phase = "live" /\ u.delivered < s => Queued(s) \/ s \in missed[c]
  /\ u.phase = "live" /\ Base(wire[c], client[c].last) < s /\ s <= u.delivered =>
       Event(s) \in ToSet(wire[c]) \/ s \in missed[c]

Held(c) == \A s \in earliest..client[c].last : s \in client[c].known \cup missed[c]

Covered(c) == Held(c) /\ \A s \in earliest..committed : Underway(c, s)

LossInv == \A c \in Clients : BufferOrder(c) /\ Covered(c)

-----------------------------------------------------------------------------
(* Types *)

(* One client's socket changes. *)
LEMMA SubscriberChanges ==
  ASSUME TypeOK, NEW c \in Clients, NEW u \in Subscriber, Len(u.buffer) <= MaxBuffer
  PROVE  LET s == [sub EXCEPT ![c] = u] IN
         /\ s \in [Clients -> Subscriber] /\ \A d \in Clients : Len(s[d].buffer) <= MaxBuffer
         /\ s[c] = u /\ \A d \in Clients : d # c => s[d] = sub[d]
BY DEF TypeOK

LEMMA DetachedType == Detached \in Subscriber /\ Len(Detached.buffer) <= MaxBuffer
<1>1. <<>> \in Seq(Seqs) /\ Len(<<>>) = 0
  BY EmptySeq
<1> QED BY <1>1, StreamConstants DEF Detached, Subscriber, Phases

(* Fields of a subscriber and of a client. *)
LEMMA FieldTypes ==
  ASSUME TypeOK, NEW c \in Clients
  PROVE  /\ sub[c] \in Subscriber
         /\ sub[c].phase \in Phases /\ sub[c].proc \in Procs \cup {NoProc}
         /\ sub[c].asked \in 0..MaxSeq /\ sub[c].position \in 0..MaxSeq
         /\ sub[c].window \in 0..MaxSeq /\ sub[c].delivered \in 0..MaxSeq
         /\ sub[c].buffer \in Seq(Seqs) /\ sub[c].history \in Seq(Seqs)
         /\ Len(sub[c].buffer) <= MaxBuffer
         /\ wire[c] \in Seq(Message)
         /\ client[c].last \in 0..MaxSeq /\ client[c].known \subseteq Seqs
BY DEF TypeOK, Subscriber

(* The oldest rows are rows. *)
LEMMA OldestProperties ==
  ASSUME NEW rows \in SUBSET Seqs
  PROVE  /\ Oldest(rows) \subseteq rows
         /\ \A s \in Oldest(rows), t \in rows \ Oldest(rows) : s < t
<1>1. Ascending(rows) \in Seq(rows) /\ InOrder(Ascending(rows)) /\ ToSet(Ascending(rows)) = rows
  BY AscendingProperties, MaxSeqType DEF Seqs
<1>2. rows \subseteq Nat /\ BatchSize \in Nat
  BY MaxSeqType, StreamConstants
<1>3. Oldest(rows) \subseteq rows
  BY <1>1, <1>2, TakeProperties DEF Oldest
<1>4. ASSUME NEW s \in Oldest(rows), NEW t \in rows \ Oldest(rows) PROVE s < t
  <2>1. t \in ToSet(Ascending(rows)) /\ t \notin ToSet(Take(Ascending(rows), BatchSize))
    BY <1>1 DEF Oldest
  <2> QED BY <1>1, <1>2, <2>1, TakeIsFirst DEF Oldest
<1> QED BY <1>3, <1>4

(* A batch: the claimed rows that still exist, in order. *)
LEMMA BatchProperties ==
  ASSUME TypeOK, NEW p \in Procs
  PROVE  /\ Batch(p) \in Seq(Seqs) /\ InOrder(Batch(p))
         /\ ToSet(Batch(p)) = {s \in claimed[p] : s >= earliest}
<1>1. {s \in claimed[p] : s >= earliest} \in SUBSET (1..MaxSeq)
  <2>1. claimed[p] \subseteq 1..committed /\ committed \in 0..MaxSeq
    BY DEF TypeOK
  <2>2. 1..committed \subseteq 1..MaxSeq
    BY <2>1, MaxSeqType
  <2> QED BY <2>1, <2>2
<1>2. /\ Batch(p) \in Seq({s \in claimed[p] : s >= earliest}) /\ InOrder(Batch(p))
      /\ ToSet(Batch(p)) = {s \in claimed[p] : s >= earliest}
  BY <1>1, AscendingProperties, MaxSeqType DEF Batch
<1>3. Batch(p) \in Seq(Seqs)
  BY <1>1, <1>2, SeqMonotonic DEF Seqs
<1> QED BY <1>2, <1>3

(* What a live listener sends of it: the part above `delivered`. *)
LEMMA SentProperties ==
  ASSUME TypeOK, NEW p \in Procs, NEW c \in Clients
  PROVE  /\ Sent(c, p) \in Seq(Seqs) /\ InOrder(Sent(c, p))
         /\ Attached(c, p) /\ sub[c].phase = "live" =>
              ToSet(Sent(c, p)) = {s \in claimed[p] : s >= earliest /\ sub[c].delivered < s}
         /\ ~(Attached(c, p) /\ sub[c].phase = "live") => Sent(c, p) = <<>>
<1>1. CASE Attached(c, p) /\ sub[c].phase = "live"
  <2>1. Sent(c, p) = Rising(Batch(p), sub[c].delivered)
    BY <1>1 DEF Sent, LiveEvents
  <2>2. sub[c].delivered \in Int
    BY FieldTypes
  <2>3. Batch(p) \in Seq(Seqs) /\ InOrder(Batch(p))
        /\ ToSet(Batch(p)) = {s \in claimed[p] : s >= earliest}
    BY BatchProperties
  <2>4. Sent(c, p) \in Seq(Seqs) /\ InOrder(Sent(c, p))
        /\ ToSet(Sent(c, p)) \subseteq ToSet(Batch(p))
        /\ (\A s \in ToSet(Sent(c, p)) : sub[c].delivered < s)
    BY <2>1, <2>2, <2>3, RisingProperties
  <2>5. \A s \in ToSet(Batch(p)) : sub[c].delivered < s => s \in ToSet(Sent(c, p))
    BY <2>1, <2>2, <2>3, RisingOfOrdered
  <2> QED BY <1>1, <2>3, <2>4, <2>5
<1>2. CASE ~(Attached(c, p) /\ sub[c].phase = "live")
  <2>1. Sent(c, p) = <<>>
    BY <1>2 DEF Sent
  <2>2. <<>> \in Seq(Seqs) /\ InOrder(<<>>)
    BY EmptySeq DEF InOrder
  <2> QED BY <1>2, <2>1, <2>2
<1> QED BY <1>1, <1>2

LEMMA BufferedProperties ==
  ASSUME TypeOK, NEW p \in Procs, NEW c \in Clients
  PROVE  /\ Buffered(c, Batch(p)) \in Seq(Seqs)
         /\ Len(Buffered(c, Batch(p))) <= MaxBuffer
<1>1. Batch(p) \in Seq(Seqs) /\ sub[c].buffer \in Seq(Seqs)
  BY BatchProperties, FieldTypes
<1>2. sub[c].buffer \o Batch(p) \in Seq(Seqs)
  BY <1>1, ConcatMembers
<1> QED BY <1>2, TakeProperties, StreamConstants DEF Buffered

LEMMA ReachedType ==
  ASSUME NEW t \in 0..MaxSeq, NEW ss \in Seq(Seqs), InOrder(ss)
  PROVE  Reached(t, ss) \in 0..MaxSeq
<1>1. t \in Nat
  BY MaxSeqType
<1> QED BY <1>1, ReachedProperties, MembersOf, MaxSeqType

(* The actions of the stream and of the dispatchers. *)
LEMMA StreamTypes ==
  ASSUME TypeOK, AppendEvent \/ DeleteOldest
  PROVE  TypeOK'
<1>1. CASE AppendEvent
  <2>1. committed' = committed + 1 /\ pending' = pending \cup {committed + 1} /\ committed < MaxSeq
        /\ UNCHANGED <<earliest, claimed, sub, wire, client, missed, faults, drops>>
    BY <1>1 DEF AppendEvent
  <2>2. committed' \in 0..MaxSeq /\ pending' \subseteq 1..committed'
    <3>1. committed \in 0..MaxSeq /\ pending \subseteq 1..committed
      BY DEF TypeOK
    <3>2. committed + 1 \in 0..MaxSeq /\ pending \cup {committed + 1} \subseteq 1..(committed + 1)
      BY <2>1, <3>1, MaxSeqType
    <3> QED BY <2>1, <3>2
  <2>3. claimed' \in [Procs -> SUBSET (1..committed')]
        /\ \A p \in Procs : claimed'[p] \cap pending' = {}
    <3>1. 1..committed \subseteq 1..(committed + 1) /\ committed + 1 \notin 1..committed
      BY DEF TypeOK
    <3> QED BY <2>1, <3>1 DEF TypeOK
  <2> QED BY <2>1, <2>2, <2>3 DEF TypeOK
<1>2. CASE DeleteOldest
  <2>1. earliest' = earliest + 1 /\ earliest < committed
        /\ UNCHANGED <<committed, pending, claimed, sub, wire, client, missed, faults, drops>>
    BY <1>2 DEF DeleteOldest
  <2>2. earliest' \in Seqs
    BY <2>1, MaxSeqType DEF TypeOK, Seqs
  <2> QED BY <2>1, <2>2 DEF TypeOK
<1> QED BY <1>1, <1>2

LEMMA ClaimTypes ==
  ASSUME TypeOK, NEW p \in Procs, Claim(p)
  PROVE  TypeOK'
<1>1. PICK locked \in SUBSET pending :
        /\ claimed' = [claimed EXCEPT ![p] = Oldest(pending \ locked)]
        /\ pending' = pending \ Oldest(pending \ locked)
        /\ UNCHANGED <<committed, earliest, sub, wire, client, missed, faults, drops>>
  BY DEF Claim
<1>2. pending \ locked \in SUBSET Seqs
  BY MaxSeqType DEF TypeOK, Seqs
<1>3. Oldest(pending \ locked) \subseteq pending
  BY <1>2, OldestProperties
<1>4. pending' \subseteq 1..committed
  BY <1>1 DEF TypeOK
<1>5. Oldest(pending \ locked) \subseteq 1..committed
  BY <1>3 DEF TypeOK
<1>6. claimed' \in [Procs -> SUBSET (1..committed)]
  BY <1>1, <1>5 DEF TypeOK
<1>7. \A q \in Procs : claimed'[q] \cap pending' = {}
  BY <1>1 DEF TypeOK
<1> QED BY <1>1, <1>4, <1>6, <1>7 DEF TypeOK

LEMMA QueueTypes ==
  ASSUME TypeOK
  PROVE  pending \subseteq Seqs /\ \A q \in Procs : claimed[q] \subseteq Seqs
<1>1. 1..committed \subseteq Seqs
  BY MaxSeqType DEF TypeOK, Seqs
<1> QED BY <1>1 DEF TypeOK

LEMMA DeliverTypes ==
  ASSUME TypeOK, NEW p \in Procs, Deliver(p)
  PROVE  TypeOK'
<1>1. /\ claimed' = [claimed EXCEPT ![p] = {}]
      /\ wire' = [c \in Clients |-> wire[c] \o Events(Sent(c, p))]
      /\ missed' = [c \in Clients |-> missed[c] \cup LetGo(c, p)]
      /\ UNCHANGED <<committed, earliest, pending, client, faults, drops>>
  BY DEF Deliver
<1>2. sub' = [c \in Clients |->
       CASE Attached(c, p) /\ sub[c].phase = "live" ->
              [sub[c] EXCEPT !.delivered = Reached(@, Sent(c, p))]
         [] Attached(c, p) /\ sub[c].phase # "live" ->
              [sub[c] EXCEPT !.buffer = Buffered(c, Batch(p))]
         [] OTHER -> sub[c]]
  BY DEF Deliver
<1>3. ASSUME NEW c \in Clients PROVE sub'[c] \in Subscriber /\ Len(sub'[c].buffer) <= MaxBuffer
  <2>1. sub[c] \in Subscriber /\ Len(sub[c].buffer) <= MaxBuffer
    BY FieldTypes
  <2>2. CASE Attached(c, p) /\ sub[c].phase = "live"
    <3>1. sub'[c] = [sub[c] EXCEPT !.delivered = Reached(sub[c].delivered, Sent(c, p))]
      BY <1>2, <2>2
    <3>2. Reached(sub[c].delivered, Sent(c, p)) \in 0..MaxSeq
      BY SentProperties, FieldTypes, ReachedType
    <3> QED BY <2>1, <3>1, <3>2 DEF Subscriber
  <2>3. CASE Attached(c, p) /\ sub[c].phase # "live"
    <3>1. sub'[c] = [sub[c] EXCEPT !.buffer = Buffered(c, Batch(p))]
      BY <1>2, <2>3
    <3>2. Buffered(c, Batch(p)) \in Seq(Seqs) /\ Len(Buffered(c, Batch(p))) <= MaxBuffer
      BY BufferedProperties
    <3> QED BY <2>1, <3>1, <3>2 DEF Subscriber
  <2>4. CASE ~Attached(c, p)
    BY <1>2, <2>1, <2>4
  <2> QED BY <2>2, <2>3, <2>4
<1>4. ASSUME NEW c \in Clients PROVE wire'[c] \in Seq(Message)
  <2>1. wire[c] \in Seq(Message) /\ Events(Sent(c, p)) \in Seq(Message)
    BY FieldTypes, SentProperties, EventsProperties
  <2> QED BY <1>1, <2>1, ConcatProperties
<1>5. sub' \in [Clients -> Subscriber]
  <2>1. sub' = [c \in Clients |-> sub'[c]]
    BY <1>2
  <2> QED BY <1>3, <2>1
<1>6. wire' \in [Clients -> Seq(Message)]
  BY <1>1, <1>4
<1>7. /\ claimed' \in [Procs -> SUBSET (1..committed)]
      /\ \A q \in Procs : claimed'[q] \cap pending = {}
  BY <1>1 DEF TypeOK
<1>8. missed' \in [Clients -> SUBSET Seqs]
  <2>1. \A q \in Procs : claimed[q] \subseteq Seqs
    BY QueueTypes
  <2>2. pending \subseteq Seqs
    BY QueueTypes
  <2>3. \A c \in Clients : LetGo(c, p) \subseteq Seqs
    BY <2>1, <2>2 DEF LetGo, QueuedBehind
  <2> QED BY <1>1, <2>3 DEF TypeOK
<1> QED BY <1>1, <1>3, <1>5, <1>6, <1>7, <1>8 DEF TypeOK

LEMMA DeliverFailsTypes ==
  ASSUME TypeOK, NEW p \in Procs, DeliverFails(p)
  PROVE  TypeOK'
<1>1. /\ faults' = faults + 1 /\ faults < MaxFaults
      /\ claimed' = [claimed EXCEPT ![p] = {}]
      /\ missed' = [c \in Clients |-> missed[c] \cup {s \in claimed[p] : Beyond(c, s)}]
      /\ UNCHANGED <<committed, earliest, pending, sub, wire, client, drops>>
  BY DEF DeliverFails
<1>2. faults' \in 0..MaxFaults
  BY <1>1, StreamConstants DEF TypeOK
<1>3. missed' \in [Clients -> SUBSET Seqs]
  <2>1. claimed[p] \subseteq Seqs
    BY QueueTypes
  <2> QED BY <1>1, <2>1 DEF TypeOK
<1>4. /\ claimed' \in [Procs -> SUBSET (1..committed)]
      /\ \A q \in Procs : claimed'[q] \cap pending = {}
  BY <1>1 DEF TypeOK
<1> QED BY <1>1, <1>2, <1>3, <1>4 DEF TypeOK

LEMMA CrashTypes ==
  ASSUME TypeOK, NEW p \in Procs, Crash(p)
  PROVE  TypeOK'
<1>1. /\ faults' = faults + 1 /\ faults < MaxFaults
      /\ claimed' = [claimed EXCEPT ![p] = {}]
      /\ sub' = [c \in Clients |-> IF sub[c].proc = p THEN Detached ELSE sub[c]]
      /\ wire' = [c \in Clients |-> IF sub[c].proc = p THEN <<>> ELSE wire[c]]
      /\ missed' = [c \in Clients |-> IF sub[c].proc = p THEN missed[c]
                                      ELSE missed[c] \cup {s \in claimed[p] : Beyond(c, s)}]
      /\ UNCHANGED <<committed, earliest, pending, client, drops>>
  BY DEF Crash
<1>2. faults' \in 0..MaxFaults
  BY <1>1, StreamConstants DEF TypeOK
<1>3. sub' \in [Clients -> Subscriber] /\ \A c \in Clients : Len(sub'[c].buffer) <= MaxBuffer
  BY <1>1, DetachedType, FieldTypes
<1>4. wire' \in [Clients -> Seq(Message)]
  BY <1>1, FieldTypes, EmptySeq
<1>5. /\ claimed' \in [Procs -> SUBSET (1..committed)]
      /\ \A q \in Procs : claimed'[q] \cap pending = {}
  BY <1>1 DEF TypeOK
<1>6. missed' \in [Clients -> SUBSET Seqs]
  <2>1. claimed[p] \subseteq Seqs
    BY QueueTypes
  <2> QED BY <1>1, <2>1 DEF TypeOK
<1> QED BY <1>1, <1>2, <1>3, <1>4, <1>5, <1>6 DEF TypeOK

(* The actions of one socket: what each makes of the subscriber and its wire. *)
LEMMA ConnectEffect ==
  ASSUME TypeOK, NEW c \in Clients, NEW p \in Procs, Connect(c, p)
  PROVE  LET u == [Detached EXCEPT !.phase = "asked", !.proc = p, !.asked = client[c].last] IN
         /\ u \in Subscriber /\ Len(u.buffer) <= MaxBuffer
         /\ sub' = [sub EXCEPT ![c] = u] /\ wire' = wire
<1>1. client[c].last \in 0..MaxSeq
  BY FieldTypes
<1> QED BY <1>1, DetachedType DEF Connect, Detached, Subscriber, Phases

LEMMA ReadPositionEffect ==
  ASSUME TypeOK, NEW c \in Clients, ReadPosition(c)
  PROVE  LET u == [sub[c] EXCEPT !.phase = "positioned", !.position = committed,
                                 !.window = IF committed = 0 THEN 0 ELSE earliest] IN
         /\ u \in Subscriber /\ Len(u.buffer) <= MaxBuffer
         /\ sub' = [sub EXCEPT ![c] = u] /\ wire' = wire
<1>1. sub' = [sub EXCEPT ![c] = [sub[c] EXCEPT !.phase = "positioned", !.position = committed,
                                              !.window = IF committed = 0 THEN 0 ELSE earliest]]
  BY DEF ReadPosition, TypeOK
<1>2. sub[c] \in Subscriber /\ Len(sub[c].buffer) <= MaxBuffer
  BY FieldTypes
<1>3. committed \in 0..MaxSeq /\ (IF committed = 0 THEN 0 ELSE earliest) \in 0..MaxSeq
  BY MaxSeqType DEF TypeOK
<1> QED BY <1>1, <1>2, <1>3 DEF ReadPosition, Subscriber, Phases

(* establish either tells the client to refresh, or reads history, or goes live. *)
LEMMA EstablishEffect ==
  ASSUME TypeOK, NEW c \in Clients, Establish(c)
  PROVE  \/ LET u == [sub[c] EXCEPT !.phase = "live", !.delivered = sub[c].position] IN
            /\ RefreshNeeded(sub[c])
            /\ u \in Subscriber /\ Len(u.buffer) <= MaxBuffer
            /\ sub' = [sub EXCEPT ![c] = u]
            /\ wire' = [wire EXCEPT ![c] = Append(@, Refresh(sub[c].position))]
         \/ LET u == [sub[c] EXCEPT !.phase = "replaying"] IN
            /\ ~RefreshNeeded(sub[c]) /\ sub[c].position > sub[c].asked
            /\ u \in Subscriber /\ Len(u.buffer) <= MaxBuffer
            /\ sub' = [sub EXCEPT ![c] = u] /\ wire' = wire
         \/ LET u == [sub[c] EXCEPT !.phase = "live",
                                    !.delivered = Larger(sub[c].delivered, sub[c].asked)] IN
            /\ ~RefreshNeeded(sub[c]) /\ sub[c].position = sub[c].asked
            /\ u \in Subscriber /\ Len(u.buffer) <= MaxBuffer
            /\ sub' = [sub EXCEPT ![c] = u] /\ wire' = wire
<1>1. sub[c] \in Subscriber /\ Len(sub[c].buffer) <= MaxBuffer
  BY FieldTypes
<1>2. sub \in [Clients -> Subscriber]
  BY DEF TypeOK
<1>3. CASE RefreshNeeded(sub[c])
  <2>1. /\ sub' = [sub EXCEPT ![c].phase = "live", ![c].delivered = sub[c].position]
        /\ wire' = [wire EXCEPT ![c] = Append(@, Refresh(sub[c].position))]
    BY <1>3 DEF Establish
  <2>2. sub' = [sub EXCEPT ![c] = [sub[c] EXCEPT !.phase = "live",
                                               !.delivered = sub[c].position]]
    BY <1>2, <2>1
  <2> QED BY <1>1, <1>3, <2>1, <2>2 DEF Subscriber, Phases
<1>4. CASE ~RefreshNeeded(sub[c]) /\ sub[c].position > sub[c].asked
  <2>1. sub' = [sub EXCEPT ![c].phase = "replaying"] /\ wire' = wire
    BY <1>4 DEF Establish
  <2>2. sub' = [sub EXCEPT ![c] = [sub[c] EXCEPT !.phase = "replaying"]]
    BY <1>2, <2>1
  <2> QED BY <1>1, <1>4, <2>1, <2>2 DEF Subscriber, Phases
<1>5. CASE ~RefreshNeeded(sub[c]) /\ ~(sub[c].position > sub[c].asked)
  <2>1. /\ sub' = [sub EXCEPT ![c].phase = "live", ![c].delivered = Larger(@, sub[c].asked)]
        /\ wire' = wire
    BY <1>5 DEF Establish
  <2>2. sub' = [sub EXCEPT ![c] = [sub[c] EXCEPT !.phase = "live",
                                    !.delivered = Larger(sub[c].delivered, sub[c].asked)]]
    BY <1>2, <2>1
  <2>3. Larger(sub[c].delivered, sub[c].asked) \in 0..MaxSeq
    BY FieldTypes DEF Larger
  <2>4. sub[c].position = sub[c].asked
    BY <1>5, FieldTypes, MaxSeqType DEF RefreshNeeded, AheadOfStream
  <2> QED BY <1>1, <1>5, <2>1, <2>2, <2>3, <2>4 DEF Subscriber, Phases
<1> QED BY <1>3, <1>4, <1>5

Stored(c) == {s \in earliest..committed : s > sub[c].asked}

LEMMA StoredProperties ==
  ASSUME TypeOK, NEW c \in Clients
  PROVE  LET h == Take(Ascending(Stored(c)), MaxReplay) IN
         /\ Stored(c) \in SUBSET Seqs
         /\ Ascending(Stored(c)) \in Seq(Seqs) /\ InOrder(Ascending(Stored(c)))
         /\ ToSet(Ascending(Stored(c))) = Stored(c)
         /\ h \in Seq(Seqs) /\ InOrder(h) /\ ToSet(h) \subseteq Stored(c)
<1>1. Stored(c) \in SUBSET (1..MaxSeq)
  <2>1. earliest..committed \subseteq 1..MaxSeq
    BY MaxSeqType DEF TypeOK, Seqs
  <2> QED BY <2>1 DEF Stored
<1>2. /\ Ascending(Stored(c)) \in Seq(Stored(c)) /\ InOrder(Ascending(Stored(c)))
      /\ ToSet(Ascending(Stored(c))) = Stored(c)
  BY <1>1, AscendingProperties, MaxSeqType
<1>3. Ascending(Stored(c)) \in Seq(Seqs)
  BY <1>1, <1>2, SeqMonotonic DEF Seqs
<1>4. MaxReplay \in Nat
  BY StreamConstants
<1> QED BY <1>1, <1>2, <1>3, <1>4, TakeProperties DEF Seqs

LEMMA ReplayReadEffect ==
  ASSUME TypeOK, NEW c \in Clients, ReplayRead(c)
  PROVE  LET u == [sub[c] EXCEPT !.phase = "replayed",
                                 !.history = Take(Ascending(Stored(c)), MaxReplay)] IN
         /\ u \in Subscriber /\ Len(u.buffer) <= MaxBuffer
         /\ sub' = [sub EXCEPT ![c] = u] /\ wire' = wire
<1>1. sub[c] \in Subscriber /\ Len(sub[c].buffer) <= MaxBuffer
  BY FieldTypes
<1>2. sub' = [sub EXCEPT ![c].phase = "replayed",
                         ![c].history = Take(Ascending(Stored(c)), MaxReplay)] /\ wire' = wire
  BY DEF ReplayRead, Stored
<1>3. sub' = [sub EXCEPT ![c] = [sub[c] EXCEPT !.phase = "replayed",
                                   !.history = Take(Ascending(Stored(c)), MaxReplay)]]
  BY <1>2 DEF TypeOK
<1> QED BY <1>1, <1>2, <1>3, StoredProperties DEF Subscriber, Phases

(* What the history leaves `delivered` at, and what the buffer adds. *)
High(c) == Reached(sub[c].delivered, sub[c].history)
Rest(c) == Drained(sub[c].buffer, High(c))

LEMMA RestProperties ==
  ASSUME TypeOK, NEW c \in Clients, InOrder(sub[c].history)
  PROVE  /\ High(c) \in 0..MaxSeq /\ High(c) \in Nat
         /\ Rest(c) \in Seq(Seqs) /\ InOrder(Rest(c))
         /\ ToSet(Rest(c)) \subseteq ToSet(sub[c].buffer)
         /\ \A s \in ToSet(Rest(c)) : High(c) < s
         /\ Reached(High(c), Rest(c)) \in 0..MaxSeq
<1>1. High(c) \in 0..MaxSeq /\ High(c) \in Int /\ High(c) \in Nat
  BY FieldTypes, ReachedType, MaxSeqType DEF High
<1>2. sub[c].buffer \in Seq(Seqs)
  BY FieldTypes
<1>3. /\ Rest(c) \in Seq(Seqs) /\ InOrder(Rest(c))
      /\ ToSet(Rest(c)) \subseteq ToSet(sub[c].buffer)
      /\ \A s \in ToSet(Rest(c)) : High(c) < s
  BY <1>1, <1>2, RisingProperties DEF Rest, Drained
<1> QED BY <1>1, <1>3, ReachedType

LEMMA ReplayDoneEffect ==
  ASSUME TypeOK, NEW c \in Clients, InOrder(sub[c].history), ReplayDone(c)
  PROVE  LET u == [sub[c] EXCEPT !.phase = "live", !.buffer = <<>>, !.history = <<>>,
                                 !.delivered = Reached(High(c), Rest(c))] IN
         /\ u \in Subscriber /\ Len(u.buffer) <= MaxBuffer
         /\ sub' = [sub EXCEPT ![c] = u]
         /\ wire' = [wire EXCEPT ![c] = @ \o Events(sub[c].history \o Rest(c))]
<1>1. sub[c] \in Subscriber
  BY FieldTypes
<1>2. /\ wire' = [wire EXCEPT ![c] = @ \o Events(sub[c].history \o Rest(c))]
      /\ sub' = [sub EXCEPT ![c].phase = "live", ![c].buffer = <<>>, ![c].history = <<>>,
                            ![c].delivered = Reached(High(c), Rest(c))]
  BY DEF ReplayDone, High, Rest
<1>3. sub' = [sub EXCEPT ![c] = [sub[c] EXCEPT !.phase = "live", !.buffer = <<>>,
                                  !.history = <<>>, !.delivered = Reached(High(c), Rest(c))]]
  BY <1>2 DEF TypeOK
<1>4. Reached(High(c), Rest(c)) \in 0..MaxSeq
  BY RestProperties
<1>5. <<>> \in Seq(Seqs) /\ Len(<<>>) = 0 /\ MaxBuffer \in Nat
  BY EmptySeq, StreamConstants
<1> DEFINE u == [sub[c] EXCEPT !.phase = "live", !.buffer = <<>>, !.history = <<>>,
                               !.delivered = Reached(High(c), Rest(c))]
<1>6. u \in Subscriber
  BY <1>1, <1>4, <1>5 DEF Subscriber, Phases
<1>7. u.buffer = <<>>
  BY <1>1 DEF Subscriber
<1>8. Len(u.buffer) <= MaxBuffer
  <2> HIDE DEF u
  <2>1. 0 <= MaxBuffer
    BY <1>5
  <2> QED BY <1>5, <1>7, <2>1
<1> QED BY <1>2, <1>3, <1>6, <1>8

LEMMA SocketTypes ==
  ASSUME TypeOK, NEW c \in Clients,
         \/ \E p \in Procs : Connect(c, p)
         \/ ReadPosition(c) \/ Establish(c) \/ ReplayRead(c) \/ Disconnect(c)
         \/ ReplayDone(c) /\ InOrder(sub[c].history)
  PROVE  TypeOK'
<1>1. ASSUME NEW u \in Subscriber, Len(u.buffer) <= MaxBuffer, sub' = [sub EXCEPT ![c] = u],
             wire' \in [Clients -> Seq(Message)], drops' \in 0..MaxDrops,
             UNCHANGED <<committed, earliest, pending, claimed, client, missed, faults>>
      PROVE  TypeOK'
  <2>1. sub' \in [Clients -> Subscriber] /\ \A d \in Clients : Len(sub'[d].buffer) <= MaxBuffer
    BY <1>1, SubscriberChanges
  <2> QED BY <1>1, <2>1 DEF TypeOK
<1>2. wire \in [Clients -> Seq(Message)] /\ drops \in 0..MaxDrops
  BY DEF TypeOK
<1>3. ASSUME NEW p \in Procs, Connect(c, p) PROVE TypeOK'
  <2>1. UNCHANGED <<committed, earliest, pending, claimed, client, missed, faults, drops>>
    BY <1>3 DEF Connect
  <2> QED BY <1>1, <1>2, <1>3, <2>1, ConnectEffect
<1>4. CASE ReadPosition(c)
  <2>1. UNCHANGED <<committed, earliest, pending, claimed, client, missed, faults, drops>>
    BY <1>4 DEF ReadPosition
  <2> QED BY <1>1, <1>2, <1>4, <2>1, ReadPositionEffect
<1>5. CASE Establish(c)
  <2>1. UNCHANGED <<committed, earliest, pending, claimed, client, missed, faults, drops>>
    BY <1>5 DEF Establish
  <2>2. PICK u \in Subscriber :
          /\ Len(u.buffer) <= MaxBuffer /\ sub' = [sub EXCEPT ![c] = u]
          /\ \/ wire' = [wire EXCEPT ![c] = Append(@, Refresh(sub[c].position))]
             \/ wire' = wire
    BY <1>5, EstablishEffect
  <2>3. Append(wire[c], Refresh(sub[c].position)) \in Seq(Message)
    BY FieldTypes, MessageType, AppendProperties
  <2>4. wire' \in [Clients -> Seq(Message)]
    BY <1>2, <2>2, <2>3
  <2> QED BY <1>1, <1>2, <2>1, <2>2, <2>4
<1>6. CASE ReplayRead(c)
  <2>1. UNCHANGED <<committed, earliest, pending, claimed, client, missed, faults, drops>>
    BY <1>6 DEF ReplayRead
  <2> QED BY <1>1, <1>2, <1>6, <2>1, ReplayReadEffect
<1>7. CASE Disconnect(c)
  <2>1. /\ drops < MaxDrops /\ drops' = drops + 1
        /\ sub' = [sub EXCEPT ![c] = Detached] /\ wire' = [wire EXCEPT ![c] = <<>>]
        /\ UNCHANGED <<committed, earliest, pending, claimed, client, missed, faults>>
    BY <1>7 DEF Disconnect
  <2>2. drops' \in 0..MaxDrops
    BY <1>2, <2>1, StreamConstants
  <2>3. wire' \in [Clients -> Seq(Message)]
    BY <1>2, <2>1, EmptySeq
  <2> QED BY <1>1, <2>1, <2>2, <2>3, DetachedType
<1>8. CASE ReplayDone(c) /\ InOrder(sub[c].history)
  <2>1. UNCHANGED <<committed, earliest, pending, claimed, client, missed, faults, drops>>
    BY <1>8 DEF ReplayDone
  <2>2. PICK u \in Subscriber :
          /\ Len(u.buffer) <= MaxBuffer /\ sub' = [sub EXCEPT ![c] = u]
          /\ wire' = [wire EXCEPT ![c] = @ \o Events(sub[c].history \o Rest(c))]
    BY <1>8, ReplayDoneEffect
  <2>3. wire[c] \o Events(sub[c].history \o Rest(c)) \in Seq(Message)
    <3>1. sub[c].history \o Rest(c) \in Seq(Seqs)
      BY <1>8, FieldTypes, RestProperties, ConcatMembers
    <3> QED BY <3>1, FieldTypes, EventsProperties, ConcatProperties
  <2>4. wire' \in [Clients -> Seq(Message)]
    BY <1>2, <2>2, <2>3
  <2> QED BY <1>1, <1>2, <2>1, <2>2, <2>4
<1> QED BY <1>3, <1>4, <1>5, <1>6, <1>7, <1>8

(* The client's actions. *)
LEMMA ReceiveEventEffect ==
  ASSUME TypeOK, NEW c \in Clients, ReceiveEvent(c)
  PROVE  /\ wire[c] # <<>> /\ Head(wire[c]).kind = "event" /\ Head(wire[c]).seq \in Seqs
         /\ Tail(wire[c]) \in Seq(Message) /\ wire' = [wire EXCEPT ![c] = Tail(wire[c])]
         /\ client' \in [Clients -> [last : 0..MaxSeq, known : SUBSET Seqs]]
         /\ \A d \in Clients : d # c => client'[d] = client[d]
         /\ Head(wire[c]).seq <= client[c].last => client'[c] = client[c]
         /\ ~(Head(wire[c]).seq <= client[c].last) =>
              /\ client'[c].last = Head(wire[c]).seq
              /\ client'[c].known = client[c].known \cup {Head(wire[c]).seq}
         /\ UNCHANGED <<committed, earliest, pending, claimed, sub, missed, faults, drops>>
<1>1. /\ wire[c] # <<>> /\ Head(wire[c]).kind = "event"
      /\ wire' = [wire EXCEPT ![c] = Tail(wire[c])]
      /\ UNCHANGED <<committed, earliest, pending, claimed, sub, missed, faults, drops>>
  BY DEF ReceiveEvent
<1>2. wire[c] \in Seq(Message)
  BY FieldTypes
<1>3. Tail(wire[c]) \in Seq(Message) /\ Head(wire[c]).seq \in Seqs
  BY <1>1, <1>2, HeadTailProperties, MessageType
<1>4. PICK s \in Seqs : s = Head(wire[c]).seq
  BY <1>3
<1>5. client' = IF s <= client[c].last THEN client
                ELSE [client EXCEPT ![c] = [last |-> s, known |-> client[c].known \cup {s}]]
  BY <1>4 DEF ReceiveEvent
<1>6. client \in [Clients -> [last : 0..MaxSeq, known : SUBSET Seqs]] /\ s \in 0..MaxSeq
  BY MaxSeqType DEF TypeOK
<1>7. client[c].known \cup {s} \in SUBSET Seqs
  BY FieldTypes
<1> QED BY <1>1, <1>3, <1>4, <1>5, <1>6, <1>7

LEMMA ReceiveRefreshEffect ==
  ASSUME TypeOK, NEW c \in Clients, ReceiveRefresh(c)
  PROVE  /\ wire[c] # <<>> /\ Head(wire[c]).kind = "refresh"
         /\ Tail(wire[c]) \in Seq(Message) /\ wire' = [wire EXCEPT ![c] = Tail(wire[c])]
         /\ client' \in [Clients -> [last : 0..MaxSeq, known : SUBSET Seqs]]
         /\ \A d \in Clients : d # c => client'[d] = client[d]
         /\ client'[c].last = Head(wire[c]).seq /\ client'[c].known = 1..committed
         /\ UNCHANGED <<committed, earliest, pending, claimed, sub, missed, faults, drops>>
<1>1. /\ wire[c] # <<>> /\ Head(wire[c]).kind = "refresh"
      /\ wire' = [wire EXCEPT ![c] = Tail(wire[c])]
      /\ client' = [client EXCEPT ![c] = [last |-> Head(wire[c]).seq, known |-> 1..committed]]
      /\ UNCHANGED <<committed, earliest, pending, claimed, sub, missed, faults, drops>>
  BY DEF ReceiveRefresh
<1>2. wire[c] \in Seq(Message)
  BY FieldTypes
<1>3. Tail(wire[c]) \in Seq(Message) /\ Head(wire[c]).seq \in 0..MaxSeq
  BY <1>1, <1>2, HeadTailProperties, MessageType
<1>4. 1..committed \in SUBSET Seqs
  BY MaxSeqType DEF TypeOK, Seqs
<1>5. client \in [Clients -> [last : 0..MaxSeq, known : SUBSET Seqs]]
  BY DEF TypeOK
<1> QED BY <1>1, <1>3, <1>4, <1>5

LEMMA ClientTypes ==
  ASSUME TypeOK, NEW c \in Clients, ReceiveEvent(c) \/ ReceiveRefresh(c)
  PROVE  TypeOK'
<1>1. /\ Tail(wire[c]) \in Seq(Message) /\ wire' = [wire EXCEPT ![c] = Tail(wire[c])]
      /\ client' \in [Clients -> [last : 0..MaxSeq, known : SUBSET Seqs]]
      /\ UNCHANGED <<committed, earliest, pending, claimed, sub, missed, faults, drops>>
  BY ReceiveEventEffect, ReceiveRefreshEffect
<1> QED BY <1>1 DEF TypeOK

-----------------------------------------------------------------------------
(* Sockets *)

(* The stream may grow, and lose its oldest events, around a client that does  *)
(* not change.                                                                 *)
LEMMA Frame ==
  ASSUME TypeOK, TypeOK', NEW c \in Clients, ClientInv(c),
         sub'[c] = sub[c], wire'[c] = wire[c], client'[c] = client[c],
         committed <= committed', earliest <= earliest'
  PROVE  ClientInv(c)'
<1> USE DEF ClientInv
<1>1. /\ committed \in Nat /\ committed' \in Nat /\ earliest \in Nat /\ earliest' \in Nat
  BY MaxSeqType DEF TypeOK
<1>2. sub[c].position \in Nat /\ sub[c].asked \in Nat /\ sub[c].delivered \in Nat
  BY FieldTypes
<1>3. PhaseInv(c)'
  BY <1>1, <1>2 DEF PhaseInv
<1>a. BufferStored(c)'
  <2>1. \A s \in ToSet(sub[c].buffer) : s \in Nat
    BY FieldTypes, MembersOf, MaxSeqType
  <2> QED BY <1>1, <2>1 DEF BufferStored
<1>4. HistoryInv(c)'
  <2> SUFFICES ASSUME sub[c].phase = "replayed" PROVE HistoryInv(c)'
    BY DEF HistoryInv
  <2>1. /\ sub[c].history # <<>> /\ InOrder(sub[c].history)
        /\ \A s \in ToSet(sub[c].history) : sub[c].asked < s /\ s <= committed
        /\ \A s \in earliest..committed :
             sub[c].asked < s /\ (s <= sub[c].position \/ s <= Last(sub[c].history)) =>
               s \in ToSet(sub[c].history)
    BY DEF HistoryInv
  <2>2. sub[c].position <= committed
    BY DEF PhaseInv
  <2>3. PICK z \in ToSet(sub[c].history) : z = Last(sub[c].history)
    BY <2>1, FieldTypes, LastIsGreatest, MaxSeqType
  <2>4. \A s \in ToSet(sub[c].history) : s \in Nat
    BY FieldTypes, MembersOf, MaxSeqType
  <2>5. ASSUME NEW s \in earliest'..committed', sub[c].asked < s,
               s <= sub[c].position \/ s <= z
        PROVE  s \in ToSet(sub[c].history)
    <3>1. s \in earliest..committed
      BY <1>1, <1>2, <2>1, <2>2, <2>4, <2>5
    <3> QED BY <2>1, <2>3, <2>5, <3>1
  <2>6. \A s \in ToSet(sub[c].history) : sub[c].asked < s /\ s <= committed'
    BY <1>1, <2>1, <2>4
  <2> QED BY <2>1, <2>3, <2>5, <2>6 DEF HistoryInv
<1>5. LiveInv(c)'
  <2>1. ASSUME sub[c].phase = "live" PROVE sub[c].delivered <= committed'
    BY <1>1, <1>2, <2>1 DEF LiveInv
  <2> QED BY <2>1 DEF LiveInv
<1>6. Replayed(c)'
  <2> SUFFICES ASSUME sub[c].phase = "live", ~RefreshNeeded(sub[c]),
                      NEW s \in (sub[c].asked + 1)..sub[c].position
               PROVE  s < earliest' \/ s \in client[c].known \/ Event(s) \in ToSet(wire[c])
    BY DEF Replayed
  <2>1. s < earliest \/ s \in client[c].known \/ Event(s) \in ToSet(wire[c])
    BY DEF Replayed
  <2>2. s < earliest => s < earliest'
    BY <1>1, <1>2
  <2> QED BY <2>1, <2>2
<1> QED BY <1>3, <1>a, <1>4, <1>5, <1>6

(* A client without a socket. *)
LEMMA DetachedKeeps ==
  ASSUME NEW c \in Clients, sub'[c] = Detached, wire'[c] = <<>>
  PROVE  ClientInv(c)'
BY DEF ClientInv, PhaseInv, BufferStored, HistoryInv, LiveInv, Replayed, Detached, ToSet

LEMMA ConnectKeeps ==
  ASSUME TypeOK, NEW c \in Clients, ClientInv(c), NEW p \in Procs, Connect(c, p)
  PROVE  ClientInv(c)'
<1> DEFINE u == [Detached EXCEPT !.phase = "asked", !.proc = p, !.asked = client[c].last]
<1>1. sub'[c] = u /\ wire'[c] = wire[c]
  <2>1. /\ u \in Subscriber /\ Len(u.buffer) <= MaxBuffer
        /\ sub' = [sub EXCEPT ![c] = u] /\ wire' = wire
    BY ConnectEffect
  <2> HIDE DEF u
  <2> QED BY <2>1, SubscriberChanges
<1>2. client' = client /\ sub[c].phase = "off"
  BY DEF Connect
<1>3. /\ u.phase = "asked" /\ u.proc = p /\ u.asked = client[c].last /\ u.delivered = 0
      /\ u.buffer = <<>>
  BY DEF Detached
<1>4. wire[c] = <<>>
  BY <1>2 DEF ClientInv, PhaseInv
<1> HIDE DEF u
<1>5. ToSet(<<>>) = {}
  BY DEF ToSet
<1> QED
  BY <1>1, <1>2, <1>3, <1>4, <1>5
  DEF ClientInv, PhaseInv, BufferStored, HistoryInv, LiveInv, Replayed

LEMMA ReadPositionKeeps ==
  ASSUME TypeOK, NEW c \in Clients, ClientInv(c), ReadPosition(c)
  PROVE  ClientInv(c)'
<1> DEFINE u == [sub[c] EXCEPT !.phase = "positioned", !.position = committed,
                               !.window = IF committed = 0 THEN 0 ELSE earliest]
<1>1. sub'[c] = u /\ wire'[c] = wire[c]
  <2>1. /\ u \in Subscriber /\ Len(u.buffer) <= MaxBuffer
        /\ sub' = [sub EXCEPT ![c] = u] /\ wire' = wire
    BY ReadPositionEffect
  <2> HIDE DEF u
  <2> QED BY <2>1, SubscriberChanges
<1>2. client' = client /\ committed' = committed /\ sub[c].phase = "asked"
  BY DEF ReadPosition
<1>3. /\ u.phase = "positioned" /\ u.proc = sub[c].proc /\ u.asked = sub[c].asked
      /\ u.delivered = sub[c].delivered /\ u.buffer = sub[c].buffer /\ u.position = committed
  BY FieldTypes DEF Subscriber
<1>4. committed <= committed
  BY MaxSeqType DEF TypeOK
<1> HIDE DEF u
<1>5. ToSet(<<>>) = {}
  BY DEF ToSet
<1> QED
  BY <1>1, <1>2, <1>3, <1>4, <1>5
  DEF ClientInv, PhaseInv, BufferStored, HistoryInv, LiveInv, Replayed

LEMMA EstablishKeeps ==
  ASSUME TypeOK, NEW c \in Clients, ClientInv(c), Establish(c)
  PROVE  ClientInv(c)'
<1>1. client' = client /\ committed' = committed /\ earliest' = earliest
      /\ sub[c].phase = "positioned"
  BY DEF Establish
<1>2. /\ wire[c] = <<>> /\ sub[c].delivered = 0 /\ sub[c].asked = client[c].last
      /\ sub[c].buffer = <<>> /\ sub[c].position <= committed /\ sub[c].proc \in Procs
  BY <1>1 DEF ClientInv, PhaseInv
<1>3. /\ sub[c].position \in 0..MaxSeq /\ sub[c].asked \in 0..MaxSeq /\ committed \in 0..MaxSeq
      /\ sub[c].position \in Nat /\ sub[c].asked \in Nat /\ wire \in [Clients -> Seq(Message)]
  BY FieldTypes DEF TypeOK
<1>4. \A u \in Subscriber :
        (u.asked = sub[c].asked /\ u.position = sub[c].position /\ u.window = sub[c].window) =>
          (RefreshNeeded(u) <=> RefreshNeeded(sub[c]))
  BY DEF RefreshNeeded, AheadOfStream, BelowWindow, OverLimit
<1>5. ASSUME NEW u \in Subscriber, Len(u.buffer) <= MaxBuffer, sub' = [sub EXCEPT ![c] = u],
             u = [sub[c] EXCEPT !.phase = "live", !.delivered = sub[c].position],
             wire' = [wire EXCEPT ![c] = Append(wire[c], Refresh(sub[c].position))],
             RefreshNeeded(sub[c])
      PROVE  ClientInv(c)'
  <2>1. sub'[c] = u
    BY <1>5, SubscriberChanges
  <2>2. /\ u.phase = "live" /\ u.proc = sub[c].proc /\ u.asked = sub[c].asked
        /\ u.position = sub[c].position /\ u.window = sub[c].window
        /\ u.buffer = sub[c].buffer /\ u.delivered = sub[c].position
    BY <1>5, FieldTypes DEF Subscriber
  <2>3. RefreshNeeded(u)
    BY <1>4, <1>5, <2>2
  <2>4. PICK w \in Seq(Message) : w = Append(<<>>, Refresh(sub[c].position))
    BY <1>3, RefreshWire
  <2>5. wire'[c] = w
    BY <1>2, <1>3, <1>5, <2>4
  <2>6. /\ Orderly(w, sub[c].position, sub[c].position) /\ Refreshes(w)
        /\ Head(w) = Refresh(sub[c].position)
    BY <1>3, <2>4, RefreshWire
  <2>7. Base(w, client[c].last) = sub[c].position
    BY <1>3, <2>6, MessageType DEF Base
  <2>8. \A m \in ToSet(w) : m.seq <= sub[c].position
    <3>1. Len(w) = 1 /\ w[1] = Refresh(sub[c].position)
      <4>1. <<>> \in Seq(Message) /\ Len(<<>>) = 0
        BY EmptySeq
      <4> QED BY <1>3, <2>4, <4>1, AppendProperties, MessageType
    <3>2. DOMAIN w = {1}
      BY <3>1, LenProperties
    <3>3. \A m \in ToSet(w) : m = Refresh(sub[c].position)
      BY <3>1, <3>2 DEF ToSet
    <3>4. Refresh(sub[c].position).seq = sub[c].position
      BY <1>3, MessageType
    <3> QED BY <1>3, <3>3, <3>4
  <2>9. sub[c].position <= sub[c].position
    BY <1>3
  <2> QED
    BY <1>1, <1>2, <2>1, <2>2, <2>3, <2>5, <2>6, <2>7, <2>8, <2>9
    DEF ClientInv, PhaseInv, BufferStored, HistoryInv, LiveInv, Replayed
<1>6. ASSUME NEW u \in Subscriber, Len(u.buffer) <= MaxBuffer, sub' = [sub EXCEPT ![c] = u],
             u = [sub[c] EXCEPT !.phase = "replaying"], wire' = wire,
             ~RefreshNeeded(sub[c]), sub[c].position > sub[c].asked
      PROVE  ClientInv(c)'
  <2>1. sub'[c] = u
    BY <1>6, SubscriberChanges
  <2>2. /\ u.phase = "replaying" /\ u.proc = sub[c].proc /\ u.asked = sub[c].asked
        /\ u.position = sub[c].position /\ u.window = sub[c].window
        /\ u.buffer = sub[c].buffer /\ u.delivered = sub[c].delivered
    BY <1>6, FieldTypes DEF Subscriber
  <2>3. ~RefreshNeeded(u)
    BY <1>4, <1>6, <2>2
  <2> QED
    BY <1>1, <1>2, <1>6, <2>1, <2>2, <2>3
    DEF ClientInv, PhaseInv, BufferStored, HistoryInv, LiveInv, Replayed
<1>7. ASSUME NEW u \in Subscriber, Len(u.buffer) <= MaxBuffer, sub' = [sub EXCEPT ![c] = u],
             u = [sub[c] EXCEPT !.phase = "live",
                                !.delivered = Larger(sub[c].delivered, sub[c].asked)],
             wire' = wire, sub[c].position = sub[c].asked
      PROVE  ClientInv(c)'
  <2>1. sub'[c] = u
    BY <1>7, SubscriberChanges
  <2>2. /\ u.phase = "live" /\ u.proc = sub[c].proc /\ u.asked = sub[c].asked
        /\ u.position = sub[c].position /\ u.buffer = sub[c].buffer
        /\ u.delivered = Larger(sub[c].delivered, sub[c].asked)
    BY <1>7, FieldTypes DEF Subscriber
  <2>3. u.delivered = sub[c].asked
    BY <1>2, <1>3, <2>2 DEF Larger
  <2>4. Base(<<>>, client[c].last) = client[c].last
    BY EmptyWire DEF Base
  <2>5. ToSet(<<>>) = {}
    BY DEF ToSet
  <2>6. (u.asked + 1)..u.position = {}
    BY <1>3, <1>7, <2>2
  <2>7. client[c].last <= client[c].last
    BY <1>2, <1>3
  <2> QED
    BY <1>1, <1>2, <1>7, <2>1, <2>2, <2>3, <2>4, <2>5, <2>6, <2>7, EmptyWire
    DEF ClientInv, PhaseInv, BufferStored, HistoryInv, LiveInv, Replayed
<1> QED BY <1>5, <1>6, <1>7, EstablishEffect

LEMMA ReplayReadKeeps ==
  ASSUME TypeOK, earliest = 1 \/ earliest <= committed, NEW c \in Clients, ClientInv(c),
         ReplayRead(c)
  PROVE  ClientInv(c)'
<1> DEFINE h == Take(Ascending(Stored(c)), MaxReplay)
           u == [sub[c] EXCEPT !.phase = "replayed", !.history = h]
<1>1. sub'[c] = u /\ wire'[c] = wire[c]
  <2>1. /\ u \in Subscriber /\ Len(u.buffer) <= MaxBuffer
        /\ sub' = [sub EXCEPT ![c] = u] /\ wire' = wire
    BY ReplayReadEffect
  <2> HIDE DEF u
  <2> QED BY <2>1, SubscriberChanges
<1>2. /\ client' = client /\ committed' = committed /\ earliest' = earliest
      /\ sub[c].phase = "replaying"
  BY DEF ReplayRead
<1>3. /\ u.phase = "replayed" /\ u.proc = sub[c].proc /\ u.asked = sub[c].asked
      /\ u.position = sub[c].position /\ u.window = sub[c].window
      /\ u.buffer = sub[c].buffer /\ u.delivered = sub[c].delivered /\ u.history = h
  BY FieldTypes DEF Subscriber
<1>4. RefreshNeeded(u) <=> RefreshNeeded(sub[c])
  BY <1>3 DEF RefreshNeeded, AheadOfStream, BelowWindow, OverLimit
<1>5. PhaseInv(c)'
  BY <1>1, <1>2, <1>3, <1>4 DEF ClientInv, PhaseInv
<1>6. /\ sub[c].asked \in Nat /\ sub[c].position \in Nat /\ committed \in Nat /\ earliest \in Nat
      /\ MaxReplay \in Nat
  BY FieldTypes, StreamConstants, MaxSeqType DEF TypeOK
<1>7. /\ sub[c].position > sub[c].asked /\ sub[c].position <= committed
      /\ sub[c].position - sub[c].asked <= MaxReplay
  BY <1>2, <1>6 DEF ClientInv, PhaseInv, RefreshNeeded, OverLimit
<1>8. /\ Stored(c) \in SUBSET Seqs
      /\ Ascending(Stored(c)) \in Seq(Seqs) /\ InOrder(Ascending(Stored(c)))
      /\ ToSet(Ascending(Stored(c))) = Stored(c)
      /\ h \in Seq(Seqs) /\ InOrder(h) /\ ToSet(h) \subseteq Stored(c)
  BY StoredProperties
<1>9. \A s \in Stored(c) : s \in Nat /\ sub[c].asked < s /\ s <= committed
  BY <1>6 DEF Stored
<1>10. ASSUME NEW s \in Stored(c), s \notin ToSet(h)
       PROVE  /\ Len(h) = MaxReplay /\ \A y \in ToSet(h) : y < s
              /\ ~(s <= sub[c].position)
  <2>1. Len(h) = MaxReplay /\ \A y \in ToSet(h) : y < s
    BY <1>6, <1>8, <1>10, MaxSeqType, TakeIsFirst
  <2>2. MaxReplay \in Nat /\ MaxReplay > 0
    BY <1>6, <1>7
  <2> HIDE DEF h
  <2>3. DOMAIN h = 1..MaxReplay
    BY <1>8, <2>1, LenProperties
  <2>4. h[MaxReplay] \in ToSet(h) /\ MaxReplay \in DOMAIN h
    BY <2>2, <2>3 DEF ToSet
  <2>5. h \in Seq(Nat)
    BY <1>8, MaxSeqType, SeqMonotonic
  <2>6. \A i \in DOMAIN h : sub[c].asked < h[i]
    BY <1>8, <1>9 DEF ToSet
  <2>7. sub[c].asked + MaxReplay <= h[MaxReplay]
    BY <1>6, <1>8, <2>4, <2>5, <2>6, OrderGrows
  <2>8. h[MaxReplay] < s /\ h[MaxReplay] \in Nat /\ s \in Nat
    BY <1>8, <1>9, <1>10, <2>1, <2>4
  <2> QED BY <1>6, <1>7, <2>1, <2>7, <2>8
<1>11. h # <<>>
  <2>1. committed \in Stored(c)
    BY <1>6, <1>7 DEF Stored
  <2>2. ASSUME ToSet(h) = {} PROVE Len(h) = MaxReplay /\ h = <<>>
    BY <1>8, <1>10, <2>1, <2>2, MembersOf
  <2>3. MaxReplay # 0
    BY <1>6, <1>7
  <2> HIDE DEF h
  <2>4. Len(<<>>) = 0
    BY EmptySeq
  <2>5. h = <<>> => ToSet(h) = {}
    BY DEF ToSet
  <2> QED BY <2>2, <2>3, <2>4, <2>5
<1>12. ASSUME NEW s \in earliest..committed, sub[c].asked < s,
              s <= sub[c].position \/ s <= Last(h)
       PROVE  s \in ToSet(h)
  <2>1. s \in Stored(c)
    BY <1>6, <1>12 DEF Stored
  <2>2. Last(h) \in ToSet(h) /\ Last(h) \in Nat
    BY <1>8, <1>11, LastIsGreatest, MaxSeqType
  <2>3. ASSUME s \notin ToSet(h) PROVE FALSE
    <3>1. Last(h) < s /\ ~(s <= sub[c].position)
      BY <1>10, <2>1, <2>2, <2>3
    <3> HIDE DEF h
    <3> QED BY <1>6, <1>9, <1>12, <2>1, <2>2, <3>1
  <2> QED BY <2>3
<1>13. \A s \in ToSet(h) : sub[c].asked < s /\ s <= committed
  BY <1>8, <1>9
<1> HIDE DEF h, u
<1>14. HistoryInv(c)'
  BY <1>1, <1>2, <1>3, <1>8, <1>11, <1>12, <1>13 DEF HistoryInv
<1> QED BY <1>1, <1>2, <1>3, <1>5, <1>14 DEF ClientInv, BufferStored, LiveInv, Replayed

(* What is sent when the history has been read is in order and all there is.   *)
LEMMA SendsAll ==
  ASSUME TypeOK, NEW c \in Clients, ClientInv(c), sub[c].phase = "replayed"
  PROVE  LET ss == sub[c].history \o Rest(c) IN
         /\ ss \in Seq(Seqs) /\ InOrder(ss)
         /\ ToSet(ss) = ToSet(sub[c].history) \cup ToSet(Rest(c))
         /\ \A s \in ToSet(ss) : sub[c].asked < s /\ s <= Reached(High(c), Rest(c))
         /\ sub[c].asked < High(c) /\ High(c) <= Reached(High(c), Rest(c))
         /\ High(c) = Last(sub[c].history)
         /\ Reached(High(c), Rest(c)) = High(c) \/ Reached(High(c), Rest(c)) \in ToSet(Rest(c))
<1>1. /\ sub[c].history # <<>> /\ InOrder(sub[c].history) /\ sub[c].history \in Seq(Seqs)
      /\ \A s \in ToSet(sub[c].history) : sub[c].asked < s
  BY FieldTypes DEF ClientInv, HistoryInv
<1>2. /\ High(c) \in Nat /\ Rest(c) \in Seq(Seqs) /\ InOrder(Rest(c))
      /\ \A s \in ToSet(Rest(c)) : High(c) < s
  BY <1>1, RestProperties
<1>3. sub[c].delivered = 0 /\ sub[c].asked \in Nat
  BY FieldTypes DEF ClientInv, PhaseInv
<1>4. PICK z \in ToSet(sub[c].history) :
        z = Last(sub[c].history) /\ z \in Nat /\ \A s \in ToSet(sub[c].history) : s <= z
  BY <1>1, LastIsGreatest, MaxSeqType
<1>5. High(c) = z
  BY <1>1, <1>3, <1>4 DEF High, Reached, Larger
<1>6. \A s \in ToSet(sub[c].history) \cup ToSet(Rest(c)) : s \in Nat
  BY <1>1, <1>2, MembersOf, MaxSeqType
<1>7. PICK d \in Nat : /\ d = Reached(High(c), Rest(c)) /\ High(c) <= d
                       /\ d = High(c) \/ d \in ToSet(Rest(c))
                       /\ \A s \in ToSet(Rest(c)) : s <= d
  BY <1>2, ReachedProperties
<1>8. ASSUME NEW x \in ToSet(sub[c].history), NEW y \in ToSet(Rest(c)) PROVE x < y
  <2>1. x \in Nat /\ y \in Nat /\ x <= z /\ z < y
    BY <1>2, <1>4, <1>5, <1>6
  <2> QED BY <1>4, <2>1
<1>9. /\ sub[c].history \o Rest(c) \in Seq(Seqs) /\ InOrder(sub[c].history \o Rest(c))
      /\ ToSet(sub[c].history \o Rest(c)) = ToSet(sub[c].history) \cup ToSet(Rest(c))
  <2>1. InOrder(sub[c].history \o Rest(c))
    BY <1>1, <1>2, <1>8, ConcatInOrder, MaxSeqType
  <2> QED BY <1>1, <1>2, <2>1, ConcatMembers
<1>10. sub[c].asked < z
  BY <1>1
<1>11. \A s \in ToSet(sub[c].history) \cup ToSet(Rest(c)) : sub[c].asked < s /\ s <= d
  BY <1>1, <1>2, <1>3, <1>4, <1>5, <1>6, <1>7, <1>10
<1> QED BY <1>4, <1>5, <1>7, <1>9, <1>10, <1>11

LEMMA ReplayDoneKeeps ==
  ASSUME TypeOK, NEW c \in Clients, ClientInv(c), ReplayDone(c)
  PROVE  /\ ClientInv(c)'
         /\ sub'[c].phase = "live" /\ sub'[c].buffer = <<>>
         /\ sub'[c].delivered = Reached(High(c), Rest(c))
         /\ Base(wire'[c], client'[c].last) = sub[c].asked
         /\ \A s : Event(s) \in ToSet(wire'[c])
                     <=> s \in ToSet(sub[c].history) \cup ToSet(Rest(c))
<1> DEFINE u == [sub[c] EXCEPT !.phase = "live", !.buffer = <<>>, !.history = <<>>,
                               !.delivered = Reached(High(c), Rest(c))]
           ss == sub[c].history \o Rest(c)
<1>1. /\ client' = client /\ committed' = committed /\ earliest' = earliest
      /\ sub[c].phase = "replayed"
  BY DEF ReplayDone
<1>2. InOrder(sub[c].history)
  BY <1>1 DEF ClientInv, HistoryInv
<1>3. sub'[c] = u /\ wire'[c] = wire[c] \o Events(ss)
  <2>1. /\ u \in Subscriber /\ Len(u.buffer) <= MaxBuffer
        /\ sub' = [sub EXCEPT ![c] = u]
        /\ wire' = [wire EXCEPT ![c] = wire[c] \o Events(ss)]
    BY <1>2, ReplayDoneEffect
  <2> HIDE DEF u, ss
  <2>2. sub'[c] = u
    BY <2>1, SubscriberChanges
  <2> QED BY <2>1, <2>2 DEF TypeOK
<1>4. /\ u.phase = "live" /\ u.proc = sub[c].proc /\ u.asked = sub[c].asked
      /\ u.position = sub[c].position /\ u.window = sub[c].window
      /\ u.buffer = <<>> /\ u.delivered = Reached(High(c), Rest(c))
  BY FieldTypes DEF Subscriber
<1>5. RefreshNeeded(u) <=> RefreshNeeded(sub[c])
  BY <1>4 DEF RefreshNeeded, AheadOfStream, BelowWindow, OverLimit
<1>6. /\ wire[c] = <<>> /\ sub[c].asked = client[c].last /\ ~RefreshNeeded(sub[c])
      /\ sub[c].proc \in Procs /\ sub[c].position <= committed
  BY <1>1 DEF ClientInv, PhaseInv
<1>7. PICK d \in 0..MaxSeq : d = Reached(High(c), Rest(c))
  BY <1>2, RestProperties
<1>8. PICK tt \in Seq(Seqs) : tt = ss
  BY <1>1, SendsAll
<1>9. /\ InOrder(tt) /\ ToSet(tt) = ToSet(sub[c].history) \cup ToSet(Rest(c))
      /\ \A s \in ToSet(tt) : sub[c].asked < s /\ s <= d
      /\ sub[c].asked < High(c) /\ High(c) <= d /\ (d = High(c) \/ d \in ToSet(Rest(c)))
      /\ High(c) = Last(sub[c].history)
  BY <1>1, <1>7, <1>8, SendsAll
<1>10. /\ d \in Nat /\ High(c) \in Nat /\ sub[c].asked \in Nat /\ committed \in Nat
       /\ sub[c].position \in Nat
  <2>1. d \in Nat /\ committed \in Nat
    BY MaxSeqType DEF TypeOK
  <2>2. High(c) \in Nat
    BY <1>2, RestProperties
  <2>3. sub[c].asked \in Nat /\ sub[c].position \in Nat
    BY FieldTypes, MaxSeqType
  <2> QED BY <2>1, <2>2, <2>3
<1>11. sub[c].asked <= d
  BY <1>9, <1>10
<1>a. d \in Nat
  BY <1>10
<1> HIDE DEF u, ss
<1>12. PICK w \in Seq(Message) : w = wire[c] \o Events(tt)
  BY FieldTypes, EventsProperties, ConcatProperties
<1>13. wire'[c] = w /\ w = <<>> \o Events(tt)
  BY <1>3, <1>6, <1>8, <1>12
<1>14. PICK a \in Nat : a = sub[c].asked
  BY <1>10
<1>15. a <= d /\ \A s \in ToSet(tt) : a < s /\ s <= d
  BY <1>9, <1>11, <1>14
<1>16. /\ Orderly(w, a, d) /\ (\A m \in ToSet(w) : m.seq <= d) /\ ~Refreshes(w)
       /\ (\A s : Event(s) \in ToSet(w) <=> s \in ToSet(tt))
  BY <1>9, <1>a, <1>13, <1>15, WireStarts
<1>17. Base(w, client[c].last) = sub[c].asked
  BY <1>6, <1>16 DEF Base
<1>18. d <= committed
  <2>1. \A s \in ToSet(sub[c].history) : s <= committed
    BY <1>1 DEF ClientInv, HistoryInv
  <2>2. High(c) <= committed
    <3>1. High(c) \in ToSet(sub[c].history)
      <4>1. sub[c].history # <<>> /\ sub[c].history \in Seq(Seqs)
        BY <1>1, FieldTypes DEF ClientInv, HistoryInv
      <4> QED BY <1>2, <1>9, <4>1, LastIsGreatest, MaxSeqType
    <3> QED BY <2>1, <3>1
  <2>3. CASE d = High(c)
    BY <2>2, <2>3
  <2>4. CASE d \in ToSet(Rest(c))
    <3>1. d \in ToSet(sub[c].buffer)
      BY <1>2, <2>4, RestProperties
    <3>2. BufferStored(c)
      BY DEF ClientInv
    <3> QED BY <1>1, <3>1, <3>2 DEF BufferStored
  <2> QED BY <1>9, <2>3, <2>4
<1>19. ASSUME NEW s \in (sub[c].asked + 1)..sub[c].position
       PROVE  s < earliest \/ Event(s) \in ToSet(w)
  <2>1. earliest \in Nat /\ s \in Nat
    BY <1>10, MaxSeqType DEF TypeOK
  <2>2. ASSUME ~(s < earliest) PROVE s \in ToSet(sub[c].history)
    <3>1. s \in earliest..committed /\ sub[c].asked < s /\ s <= sub[c].position
      BY <1>6, <1>10, <2>1, <2>2
    <3> QED BY <1>1, <3>1 DEF ClientInv, HistoryInv
  <2> QED BY <1>9, <1>16, <2>2
<1>20. BufferStored(c)'
  BY <1>3, <1>4 DEF BufferStored, ToSet
<1>21. PhaseInv(c)'
  BY <1>1, <1>3, <1>4, <1>6 DEF PhaseInv
<1>22. HistoryInv(c)' /\ Replayed(c)'
  BY <1>1, <1>3, <1>4, <1>13, <1>19 DEF HistoryInv, Replayed
<1>23. LiveInv(c)'
  BY <1>1, <1>3, <1>4, <1>6, <1>7, <1>11, <1>13, <1>14, <1>16, <1>17, <1>18 DEF LiveInv
<1>24. \A s : Event(s) \in ToSet(w) <=> s \in ToSet(sub[c].history) \cup ToSet(Rest(c))
  BY <1>9, <1>16
<1> QED BY <1>1, <1>3, <1>4, <1>13, <1>17, <1>20, <1>21, <1>22, <1>23, <1>24 DEF ClientInv

LEMMA ReceiveEventKeeps ==
  ASSUME TypeOK, NEW c \in Clients, ClientInv(c), ReceiveEvent(c)
  PROVE  /\ ClientInv(c)'
         /\ sub[c].phase = "live" /\ Base(wire[c], client[c].last) = client[c].last
         /\ client[c].last < Head(wire[c]).seq /\ Head(wire[c]).seq <= committed
         /\ client'[c].last = Head(wire[c]).seq
         /\ client'[c].known = client[c].known \cup {Head(wire[c]).seq}
         /\ Base(wire'[c], client'[c].last) = Head(wire[c]).seq
         /\ \A s : Event(s) \in ToSet(wire[c]) =>
              (s = Head(wire[c]).seq \/ Event(s) \in ToSet(wire'[c])) /\ Head(wire[c]).seq <= s
<1>1. PICK w \in Seq(Message) : w = wire[c] /\ w # <<>>
  BY FieldTypes, ReceiveEventEffect
<1>2. PICK z \in Seqs : z = Head(w).seq
  BY <1>1, ReceiveEventEffect
<1>3. /\ Head(w).kind = "event" /\ wire'[c] = Tail(w)
      /\ UNCHANGED <<committed, earliest, sub>>
  BY <1>1, ReceiveEventEffect DEF TypeOK
<1>4. sub[c].phase = "live"
  BY <1>1 DEF ClientInv, PhaseInv
<1>5. ~Refreshes(w) /\ Base(w, client[c].last) = client[c].last
  BY <1>3 DEF Refreshes, Base
<1>6. PICK l \in Nat : l = client[c].last
  BY FieldTypes
<1>7. PICK d \in Nat : d = sub[c].delivered
  BY FieldTypes
<1>8. Orderly(w, l, d) /\ d <= committed /\ \A m \in ToSet(w) : m.seq <= d
  BY <1>1, <1>4, <1>5, <1>6, <1>7 DEF ClientInv, LiveInv
<1>9. /\ ToSet(Tail(w)) \subseteq ToSet(w) /\ ~Refreshes(Tail(w))
      /\ \A m \in ToSet(w) : m = Head(w) \/ m \in ToSet(Tail(w))
      /\ l < z /\ z <= d /\ Orderly(Tail(w), z, d) /\ Tail(w) \in Seq(Message)
  BY <1>1, <1>2, <1>3, <1>8, WireShrinks
<1>10. z \in Nat /\ committed \in Nat
  BY MaxSeqType DEF TypeOK
<1>11. client'[c].last = z /\ client'[c].known = client[c].known \cup {z}
  <2>1. ~(z <= l)
    BY <1>9, <1>10
  <2> QED BY <1>1, <1>2, <1>6, <2>1, ReceiveEventEffect
<1>12. Base(Tail(w), z) = z
  BY <1>9 DEF Base
<1>13. z <= committed
  BY <1>8, <1>9, <1>10
<1>14. LiveInv(c)'
  BY <1>3, <1>4, <1>7, <1>8, <1>9, <1>11, <1>12 DEF LiveInv
<1>15. PhaseInv(c)' /\ BufferStored(c)' /\ HistoryInv(c)'
  BY <1>3, <1>4 DEF ClientInv, PhaseInv, BufferStored, HistoryInv
<1>16. \A s : Event(s) \in ToSet(w) => s = z \/ Event(s) \in ToSet(Tail(w))
  <2> SUFFICES ASSUME NEW s, Event(s) = Head(w) PROVE s = z
    BY <1>9
  <2>1. Event(s).seq = s
    BY DEF Event
  <2> QED BY <1>2, <2>1
<1>17. Replayed(c)'
  BY <1>1, <1>3, <1>11, <1>16 DEF ClientInv, Replayed
<1>18. ASSUME NEW s, Event(s) \in ToSet(Tail(w)) PROVE z < s
  <2>1. PICK i \in DOMAIN Tail(w) : Tail(w)[i] = Event(s)
    BY <1>18 DEF ToSet
  <2>2. Event(s).kind = "event" /\ Event(s).seq = s
    BY DEF Event
  <2> QED BY <1>9, <2>1, <2>2 DEF Orderly
<1>19. \A s : Event(s) \in ToSet(w) =>
         (s = z \/ Event(s) \in ToSet(Tail(w))) /\ z <= s
  <2> SUFFICES ASSUME NEW s, Event(s) \in ToSet(w)
               PROVE  (s = z \/ Event(s) \in ToSet(Tail(w))) /\ z <= s
    OBVIOUS
  <2>1. s = z \/ Event(s) \in ToSet(Tail(w))
    BY <1>16
  <2>2. s \in Nat
    <3>1. Event(s) \in Message /\ Event(s).seq = s
      BY MembersOf DEF Event
    <3> QED BY <3>1, MessageType
  <2> QED BY <1>10, <1>18, <2>1, <2>2
<1> QED
  BY <1>1, <1>2, <1>3, <1>4, <1>5, <1>6, <1>9, <1>11, <1>12, <1>13, <1>14, <1>15, <1>17, <1>19
  DEF ClientInv

LEMMA ReceiveRefreshKeeps ==
  ASSUME TypeOK, NEW c \in Clients, ClientInv(c), ReceiveRefresh(c)
  PROVE  /\ ClientInv(c)'
         /\ sub[c].phase = "live"
         /\ client'[c].last <= committed /\ client'[c].known = 1..committed
         /\ Base(wire'[c], client'[c].last) = Base(wire[c], client[c].last)
         /\ \A s : Event(s) \in ToSet(wire[c]) => Event(s) \in ToSet(wire'[c])
<1>1. PICK w \in Seq(Message) : w = wire[c] /\ w # <<>>
  BY FieldTypes, ReceiveRefreshEffect
<1>2. /\ Head(w).kind = "refresh" /\ wire'[c] = Tail(w)
      /\ client'[c].last = Head(w).seq /\ client'[c].known = 1..committed
      /\ UNCHANGED <<committed, earliest, sub>>
  BY <1>1, ReceiveRefreshEffect DEF TypeOK
<1>3. sub[c].phase = "live"
  BY <1>1 DEF ClientInv, PhaseInv
<1>4. Refreshes(w) /\ Base(w, client[c].last) = Head(w).seq
  BY <1>1, <1>2 DEF Refreshes, Base
<1>5. PICK z \in Nat : z = Head(w).seq
  BY <1>1, HeadIsFirst, MessageType
<1>6. PICK d \in Nat : d = sub[c].delivered
  BY FieldTypes
<1>7. Orderly(w, z, d) /\ z <= d /\ d <= committed /\ \A m \in ToSet(w) : m.seq <= d
  BY <1>1, <1>3, <1>4, <1>5, <1>6 DEF ClientInv, LiveInv
<1>8. /\ ToSet(Tail(w)) \subseteq ToSet(w) /\ ~Refreshes(Tail(w))
      /\ \A m \in ToSet(w) : m = Head(w) \/ m \in ToSet(Tail(w))
      /\ Orderly(Tail(w), z, d)
  BY <1>1, <1>2, <1>7, WireShrinks
<1>9. Base(Tail(w), z) = z
  BY <1>8 DEF Base
<1>10. RefreshNeeded(sub[c])
  BY <1>1, <1>3, <1>4 DEF ClientInv, LiveInv
<1>11. LiveInv(c)'
  BY <1>2, <1>3, <1>5, <1>6, <1>7, <1>8, <1>9 DEF LiveInv
<1>12. PhaseInv(c)' /\ BufferStored(c)' /\ HistoryInv(c)' /\ Replayed(c)'
  BY <1>2, <1>3, <1>10 DEF ClientInv, PhaseInv, BufferStored, HistoryInv, Replayed
<1>13. z <= committed
  <2>1. committed \in Nat
    BY MaxSeqType DEF TypeOK
  <2> QED BY <1>7, <2>1
<1>14. ASSUME NEW s, Event(s) \in ToSet(w) PROVE Event(s) \in ToSet(Tail(w))
  <2>1. Event(s) # Head(w)
    BY <1>2 DEF Event
  <2> QED BY <1>8, <1>14, <2>1
<1> QED BY <1>1, <1>2, <1>3, <1>4, <1>5, <1>9, <1>11, <1>12, <1>13, <1>14 DEF ClientInv

(* The bus reaches a live socket: what is new of the batch goes on the wire. *)
LEMMA LiveDeliveryKeeps ==
  ASSUME TypeOK, NEW c \in Clients, ClientInv(c), NEW p \in Procs, Deliver(p),
         Attached(c, p), sub[c].phase = "live"
  PROVE  /\ ClientInv(c)'
         /\ sub'[c].phase = "live" /\ sub'[c].buffer = sub[c].buffer
         /\ sub'[c].delivered \in Nat /\ sub[c].delivered <= sub'[c].delivered
         /\ sub'[c].delivered = sub[c].delivered \/ sub'[c].delivered \in claimed[p]
         /\ \A s \in claimed[p] : s >= earliest => s <= sub'[c].delivered
         /\ Base(wire'[c], client'[c].last) = Base(wire[c], client[c].last)
         /\ \A s : Event(s) \in ToSet(wire'[c]) <=>
              Event(s) \in ToSet(wire[c])
              \/ (s \in claimed[p] /\ s >= earliest /\ sub[c].delivered < s)
<1>1. /\ wire' = [d \in Clients |-> wire[d] \o Events(Sent(d, p))]
      /\ UNCHANGED <<committed, earliest, client>>
  BY DEF Deliver
<1>2. sub'[c] = [sub[c] EXCEPT !.delivered = Reached(sub[c].delivered, Sent(c, p))]
  BY DEF Deliver
<1>3. PICK w \in Seq(Message) : w = wire[c]
  BY FieldTypes
<1>4. PICK ss \in Seq(Seqs) : ss = Sent(c, p)
  BY SentProperties
<1>5. PICK h \in Nat : h = sub[c].delivered
  BY FieldTypes
<1>6. InOrder(ss) /\ ToSet(ss) = {s \in claimed[p] : s >= earliest /\ h < s}
  BY <1>4, <1>5, SentProperties
<1>7. PICK top \in Nat : top = Reached(h, ss)
  BY <1>6, ReachedProperties
<1>8. /\ h <= top /\ (top = h \/ top \in ToSet(ss)) /\ \A s \in ToSet(ss) : s <= top
  BY <1>6, <1>7, ReachedProperties
<1>9. PICK low \in Nat : low = Base(w, client[c].last)
  <2>1. Refreshes(w) => Head(w).seq \in Nat
    BY HeadIsFirst, MessageType DEF Refreshes
  <2> QED BY <2>1, FieldTypes DEF Base
<1>10. Orderly(w, low, h) /\ low <= h /\ h <= committed /\ \A m \in ToSet(w) : m.seq <= h
  BY <1>3, <1>5, <1>9 DEF ClientInv, LiveInv
<1>11. \A s \in ToSet(ss) : h < s /\ s <= top
  BY <1>6, <1>8
<1>12. PICK v : v = w \o Events(ss)
  OBVIOUS
<1>13. /\ Orderly(v, low, top) /\ (\A m \in ToSet(v) : m.seq <= top)
       /\ (\A last : Base(v, last) = Base(w, last)) /\ (Refreshes(v) <=> Refreshes(w))
       /\ (\A s : Event(s) \in ToSet(v) <=> Event(s) \in ToSet(w) \/ s \in ToSet(ss))
  BY <1>6, <1>8, <1>10, <1>11, <1>12, WireGrows
<1>14. wire'[c] = v
  BY <1>1, <1>3, <1>4, <1>12
<1>15. /\ sub'[c].phase = "live" /\ sub'[c].proc = sub[c].proc /\ sub'[c].asked = sub[c].asked
       /\ sub'[c].position = sub[c].position /\ sub'[c].window = sub[c].window
       /\ sub'[c].buffer = sub[c].buffer /\ sub'[c].delivered = top
  BY <1>2, <1>4, <1>5, <1>7, FieldTypes DEF Subscriber
<1>16. RefreshNeeded(sub'[c]) <=> RefreshNeeded(sub[c])
  BY <1>15 DEF RefreshNeeded, AheadOfStream, BelowWindow, OverLimit
<1>17. claimed[p] \subseteq 1..committed /\ committed \in Nat
  BY MaxSeqType DEF TypeOK
<1>18. low <= top /\ top <= committed
  BY <1>6, <1>8, <1>10, <1>17
<1>19. LiveInv(c)'
  BY <1>1, <1>3, <1>9, <1>10, <1>13, <1>14, <1>15, <1>16, <1>18 DEF ClientInv, LiveInv
<1>20. PhaseInv(c)' /\ BufferStored(c)' /\ HistoryInv(c)'
  BY <1>1, <1>15 DEF ClientInv, PhaseInv, BufferStored, HistoryInv
<1>21. Replayed(c)'
  BY <1>1, <1>3, <1>13, <1>14, <1>15, <1>16 DEF ClientInv, Replayed
<1>22. ASSUME NEW s \in claimed[p], s >= earliest PROVE s <= top
  <2>1. s \in Nat
    BY <1>17
  <2>2. s \in ToSet(ss) \/ s <= h
    BY <1>6, <1>22, <2>1
  <2> QED BY <1>8, <2>1, <2>2
<1> QED
  BY <1>1, <1>3, <1>5, <1>6, <1>8, <1>13, <1>14, <1>15, <1>19, <1>20, <1>21, <1>22 DEF ClientInv

(* The bus reaches a socket that is replaying: the batch is buffered. *)
LEMMA BufferedDeliveryKeeps ==
  ASSUME TypeOK, NEW c \in Clients, ClientInv(c), NEW p \in Procs, Deliver(p),
         Attached(c, p), sub[c].phase # "live"
  PROVE  /\ ClientInv(c)'
         /\ sub'[c] = [sub[c] EXCEPT !.buffer = Buffered(c, Batch(p))]
         /\ wire'[c] = wire[c]
<1>1. UNCHANGED <<committed, earliest, client>>
  BY DEF Deliver
<1>2. sub'[c] = [sub[c] EXCEPT !.buffer = Buffered(c, Batch(p))]
  BY DEF Deliver
<1>3. wire'[c] = wire[c]
  <2>1. wire'[c] = wire[c] \o Events(Sent(c, p)) /\ Sent(c, p) = <<>>
    BY SentProperties DEF Deliver
  <2>2. Events(<<>>) = <<>>
    BY DEF Events
  <2> QED BY <2>1, <2>2, FieldTypes, ConcatEmptySeq
<1>4. /\ sub'[c].phase = sub[c].phase /\ sub'[c].proc = sub[c].proc
      /\ sub'[c].asked = sub[c].asked /\ sub'[c].position = sub[c].position
      /\ sub'[c].window = sub[c].window /\ sub'[c].delivered = sub[c].delivered
      /\ sub'[c].history = sub[c].history /\ sub'[c].buffer = Buffered(c, Batch(p))
  BY <1>2, FieldTypes DEF Subscriber
<1>5. RefreshNeeded(sub'[c]) <=> RefreshNeeded(sub[c])
  BY <1>4 DEF RefreshNeeded, AheadOfStream, BelowWindow, OverLimit
<1>6. sub[c].phase \in {"replaying", "replayed"}
  BY DEF Attached
<1>7. PhaseInv(c)'
  BY <1>1, <1>3, <1>4, <1>5, <1>6 DEF ClientInv, PhaseInv
<1>8. HistoryInv(c)' /\ LiveInv(c)' /\ Replayed(c)'
  BY <1>1, <1>4, <1>6 DEF ClientInv, HistoryInv, LiveInv, Replayed
<1>9. BufferStored(c)'
  <2>1. /\ Batch(p) \in Seq(Seqs) /\ sub[c].buffer \in Seq(Seqs) /\ MaxBuffer \in Nat
        /\ ToSet(Batch(p)) = {s \in claimed[p] : s >= earliest}
    BY BatchProperties, FieldTypes, StreamConstants
  <2>2. /\ sub[c].buffer \o Batch(p) \in Seq(Seqs)
        /\ ToSet(sub[c].buffer \o Batch(p)) = ToSet(sub[c].buffer) \cup ToSet(Batch(p))
    BY <2>1, ConcatMembers
  <2>3. ToSet(Buffered(c, Batch(p))) \subseteq ToSet(sub[c].buffer) \cup ToSet(Batch(p))
    <3>1. PICK tt \in Seq(Seqs) : tt = sub[c].buffer \o Batch(p)
      BY <2>2
    <3>2. ToSet(Take(tt, MaxBuffer)) \subseteq ToSet(tt)
      BY <2>1, TakeProperties
    <3>3. Buffered(c, Batch(p)) = Take(tt, MaxBuffer)
      BY <3>1 DEF Buffered
    <3> QED BY <2>2, <3>1, <3>2, <3>3
  <2>4. \A s \in claimed[p] : s <= committed
    BY DEF TypeOK
  <2>5. \A s \in ToSet(sub[c].buffer) : s <= committed
    BY DEF ClientInv, BufferStored
  <2> QED BY <1>1, <1>4, <2>1, <2>3, <2>4, <2>5 DEF BufferStored
<1> QED BY <1>2, <1>3, <1>7, <1>8, <1>9 DEF ClientInv

LEMMA NoDelivery ==
  ASSUME TypeOK, NEW c \in Clients, NEW p \in Procs, Deliver(p), ~Attached(c, p)
  PROVE  sub'[c] = sub[c] /\ wire'[c] = wire[c]
<1>1. sub'[c] = sub[c]
  BY DEF Deliver
<1>2. wire'[c] = wire[c] \o Events(Sent(c, p)) /\ Sent(c, p) = <<>>
  BY SentProperties DEF Deliver
<1>3. Events(<<>>) = <<>>
  BY DEF Events
<1> QED BY <1>1, <1>2, <1>3, FieldTypes, ConcatEmptySeq

-----------------------------------------------------------------------------
(* Every step keeps the invariant *)

LEMMA InitEstablishes == Init => IInv
<1> SUFFICES ASSUME Init PROVE IInv
  OBVIOUS
<1>1. PICK start \in [Clients -> {0, 1}] :
        client = [c \in Clients |-> [last |-> start[c], known |-> 1..start[c]]]
  BY DEF Init
<1>2. ASSUME NEW c \in Clients
      PROVE  client[c] \in [last : 0..MaxSeq, known : SUBSET Seqs]
  <2>1. client[c] = [last |-> start[c], known |-> 1..start[c]] /\ start[c] \in {0, 1}
    BY <1>1
  <2>2. start[c] \in 0..MaxSeq /\ 1..start[c] \subseteq Seqs
    BY <2>1, MaxSeqType DEF Seqs
  <2> QED BY <2>1, <2>2
<1>3. client \in [Clients -> [last : 0..MaxSeq, known : SUBSET Seqs]]
  BY <1>1, <1>2
<1>4. /\ committed = 0 /\ earliest = 1 /\ pending = {} /\ claimed = [p \in Procs |-> {}]
      /\ sub = [c \in Clients |-> Detached] /\ wire = [c \in Clients |-> <<>>]
      /\ missed = [c \in Clients |-> {}] /\ faults = 0 /\ drops = 0
  BY DEF Init
<1>5. sub \in [Clients -> Subscriber] /\ \A c \in Clients : Len(sub[c].buffer) <= MaxBuffer
  BY <1>4, DetachedType
<1>6. wire \in [Clients -> Seq(Message)]
  BY <1>4, EmptySeq
<1>7. /\ committed \in 0..MaxSeq /\ earliest \in Seqs /\ faults \in 0..MaxFaults
      /\ drops \in 0..MaxDrops
  BY <1>4, StreamConstants DEF Seqs
<1>8. TypeOK
  BY <1>3, <1>4, <1>5, <1>6, <1>7 DEF TypeOK
<1>9. ASSUME NEW c \in Clients PROVE ClientInv(c)
  <2>1. sub[c] = Detached /\ wire[c] = <<>>
    BY <1>4
  <2> QED
    BY <2>1 DEF ClientInv, PhaseInv, BufferStored, HistoryInv, LiveInv, Replayed, Detached, ToSet
<1> QED BY <1>4, <1>8, <1>9 DEF IInv

LEMMA NextTypes == ASSUME IInv, Next PROVE TypeOK'
<1>1. TypeOK /\ \A c \in Clients : ReplayDone(c) => InOrder(sub[c].history)
  BY DEF IInv, ClientInv, HistoryInv, ReplayDone
<1> QED
  BY <1>1, StreamTypes, ClaimTypes, DeliverTypes, DeliverFailsTypes, CrashTypes, SocketTypes,
     ClientTypes DEF Next

(* The step of one socket. *)
SocketStep(c) ==
  \/ \E p \in Procs : Connect(c, p)
  \/ ReadPosition(c) \/ Establish(c) \/ ReplayRead(c) \/ ReplayDone(c)
  \/ Disconnect(c) \/ ReceiveEvent(c) \/ ReceiveRefresh(c)

LEMMA SocketStepKeeps ==
  ASSUME IInv, NEW c \in Clients, SocketStep(c)
  PROVE  ClientInv(c)'
<1>1. TypeOK /\ ClientInv(c) /\ (earliest = 1 \/ earliest <= committed)
  BY DEF IInv
<1>2. CASE Disconnect(c)
  <2>1. sub' = [sub EXCEPT ![c] = Detached] /\ wire' = [wire EXCEPT ![c] = <<>>]
    BY <1>2 DEF Disconnect
  <2>2. sub'[c] = Detached /\ wire'[c] = <<>>
    BY <1>1, <2>1 DEF TypeOK
  <2> QED BY <2>2, DetachedKeeps
<1> QED
  BY <1>1, <1>2, ConnectKeeps, ReadPositionKeeps, EstablishKeeps, ReplayReadKeeps,
     ReplayDoneKeeps, ReceiveEventKeeps, ReceiveRefreshKeeps DEF SocketStep

LEMMA SocketStepFrame ==
  ASSUME TypeOK, NEW c \in Clients, SocketStep(c), NEW d \in Clients, d # c
  PROVE  /\ sub'[d] = sub[d] /\ wire'[d] = wire[d] /\ client'[d] = client[d]
<1>1. client'[d] = client[d]
  <2>1. CASE ReceiveEvent(c) \/ ReceiveRefresh(c)
    BY <2>1, ReceiveEventEffect, ReceiveRefreshEffect
  <2>2. CASE client' = client
    BY <2>2
  <2> QED
    BY <2>1, <2>2 DEF SocketStep, Connect, ReadPosition, Establish, ReplayRead, ReplayDone,
                      Disconnect
<1>2. sub \in [Clients -> Subscriber] /\ wire \in [Clients -> Seq(Message)]
  BY DEF TypeOK
<1>3. ASSUME NEW p \in Procs, Connect(c, p) PROVE sub'[d] = sub[d] /\ wire'[d] = wire[d]
  BY <1>2, <1>3 DEF Connect
<1>4. CASE ReadPosition(c)
  BY <1>2, <1>4 DEF ReadPosition
<1>5. CASE Establish(c)
  <2>1. \E u : sub' = [sub EXCEPT ![c] = u]
    BY <1>5, EstablishEffect
  <2>2. wire' = wire \/ \E w : wire' = [wire EXCEPT ![c] = w]
    BY <1>5 DEF Establish
  <2> QED BY <1>1, <1>2, <2>1, <2>2
<1>6. CASE ReplayRead(c)
  BY <1>2, <1>6 DEF ReplayRead
<1>7. CASE ReplayDone(c)
  BY <1>2, <1>7 DEF ReplayDone
<1>8. CASE Disconnect(c)
  BY <1>2, <1>8 DEF Disconnect
<1>9. CASE ReceiveEvent(c) \/ ReceiveRefresh(c)
  <2>1. sub' = sub /\ wire' = [wire EXCEPT ![c] = Tail(wire[c])]
    BY <1>9, ReceiveEventEffect, ReceiveRefreshEffect
  <2> QED BY <1>1, <1>2, <2>1
<1> QED BY <1>1, <1>3, <1>4, <1>5, <1>6, <1>7, <1>8, <1>9 DEF SocketStep

LEMMA SocketStepGlobals ==
  ASSUME NEW c \in Clients, SocketStep(c)
  PROVE  UNCHANGED <<committed, earliest, pending, claimed, missed>>
BY DEF SocketStep, Connect, ReadPosition, Establish, ReplayRead, ReplayDone, Disconnect,
       ReceiveEvent, ReceiveRefresh

LEMMA NextKeeps == IInv /\ [Next]_vars => IInv'
<1> SUFFICES ASSUME IInv, [Next]_vars PROVE IInv'
  OBVIOUS
<1>1. CASE UNCHANGED vars
  BY <1>1 DEF vars, IInv, TypeOK, ClientInv, PhaseInv, BufferStored, HistoryInv, LiveInv, Replayed
<1>2. CASE Next
  <2>1. TypeOK /\ TypeOK'
    BY <1>2, NextTypes DEF IInv
  <2>2. committed \in Nat /\ earliest \in Nat /\ committed <= committed /\ earliest <= earliest
    BY <2>1, MaxSeqType DEF TypeOK
  <2>3. ASSUME \A c \in Clients : ClientInv(c)', earliest' = 1 \/ earliest' <= committed'
        PROVE  IInv'
    BY <2>1, <2>3 DEF IInv
  <2>4. CASE AppendEvent \/ DeleteOldest
    <3>1. /\ UNCHANGED <<sub, wire, client>> /\ committed <= committed' /\ earliest <= earliest'
          /\ earliest' = 1 \/ earliest' <= committed'
      <4>1. CASE AppendEvent
        <5>1. committed' = committed + 1 /\ UNCHANGED <<earliest, sub, wire, client>>
          BY <4>1 DEF AppendEvent
        <5>2. earliest <= committed' /\ committed <= committed'
          BY <2>2, <5>1 DEF IInv
        <5> QED BY <2>2, <5>1, <5>2
      <4>2. CASE DeleteOldest
        <5>1. /\ earliest' = earliest + 1 /\ UNCHANGED <<committed, sub, wire, client>>
              /\ earliest < committed
          BY <4>2 DEF DeleteOldest
        <5> QED BY <2>2, <5>1
      <4> QED BY <2>4, <4>1, <4>2
    <3>2. \A c \in Clients : ClientInv(c)'
      BY <2>1, <3>1, Frame DEF IInv
    <3> QED BY <2>3, <3>1, <3>2
  <2>5. ASSUME NEW p \in Procs, Claim(p) \/ DeliverFails(p) PROVE IInv'
    <3>1. UNCHANGED <<committed, earliest, sub, wire, client>>
      BY <2>5 DEF Claim, DeliverFails
    <3>2. \A c \in Clients : ClientInv(c)'
      BY <2>1, <2>2, <3>1, Frame DEF IInv
    <3> QED BY <2>3, <3>1, <3>2 DEF IInv
  <2>6. ASSUME NEW p \in Procs, Deliver(p) PROVE IInv'
    <3>1. UNCHANGED <<committed, earliest, client>>
      BY <2>6 DEF Deliver
    <3>2. ASSUME NEW c \in Clients PROVE ClientInv(c)'
      <4>1. ClientInv(c)
        BY DEF IInv
      <4>2. CASE ~Attached(c, p)
        BY <2>1, <2>2, <2>6, <3>1, <4>1, <4>2, NoDelivery, Frame
      <4> QED BY <2>1, <2>6, <4>1, <4>2, LiveDeliveryKeeps, BufferedDeliveryKeeps
    <3> QED BY <2>3, <3>1, <3>2 DEF IInv
  <2>7. ASSUME NEW p \in Procs, Crash(p) PROVE IInv'
    <3>1. UNCHANGED <<committed, earliest, client>>
      BY <2>7 DEF Crash
    <3>2. ASSUME NEW c \in Clients PROVE ClientInv(c)'
      <4>1. \/ sub'[c] = Detached /\ wire'[c] = <<>>
            \/ sub'[c] = sub[c] /\ wire'[c] = wire[c]
        BY <2>7 DEF Crash
      <4>2. ClientInv(c)
        BY DEF IInv
      <4> QED BY <2>1, <2>2, <3>1, <4>1, <4>2, DetachedKeeps, Frame
    <3> QED BY <2>3, <3>1, <3>2 DEF IInv
  <2>8. ASSUME NEW c \in Clients, SocketStep(c) PROVE IInv'
    <3>1. UNCHANGED <<committed, earliest>>
      BY <2>8, SocketStepGlobals
    <3>2. ASSUME NEW d \in Clients PROVE ClientInv(d)'
      <4>1. CASE d = c
        BY <2>8, <4>1, SocketStepKeeps
      <4>2. CASE d # c
        <5>1. sub'[d] = sub[d] /\ wire'[d] = wire[d] /\ client'[d] = client[d]
          BY <2>1, <2>8, <4>2, SocketStepFrame
        <5>2. ClientInv(d)
          BY DEF IInv
        <5> QED BY <2>1, <2>2, <3>1, <5>1, <5>2, Frame
      <4> QED BY <4>1, <4>2
    <3> QED BY <2>3, <3>1, <3>2 DEF IInv
  <2> QED BY <1>2, <2>4, <2>5, <2>6, <2>7, <2>8 DEF Next, SocketStep
<1> QED BY <1>1, <1>2

-----------------------------------------------------------------------------
(* Only a dispatcher loses an event *)

LEMMA Numbers ==
  ASSUME TypeOK
  PROVE  /\ committed \in Nat /\ earliest \in Nat /\ earliest >= 1 /\ committed <= MaxSeq
         /\ \A s : Queued(s) => s \in Nat /\ s <= committed
         /\ earliest..committed \subseteq Seqs
<1>1. /\ committed \in Nat /\ earliest \in Nat /\ earliest >= 1 /\ committed <= MaxSeq
      /\ earliest..committed \subseteq Seqs /\ 1..committed \subseteq Seqs
  BY MaxSeqType DEF TypeOK, Seqs
<1>2. pending \subseteq 1..committed /\ \A p \in Procs : claimed[p] \subseteq 1..committed
  BY DEF TypeOK
<1>3. \A s \in 1..committed : s \in Nat /\ s <= committed
  BY <1>1
<1>4. \A s : Queued(s) => s \in 1..committed
  BY <1>2 DEF Queued
<1> QED BY <1>1, <1>3, <1>4

(* A client whose socket a step leaves alone, though it may let rows go.        *)
LEMMA LossFrame ==
  ASSUME TypeOK, TypeOK', NEW c \in Clients, ClientInv(c), BufferOrder(c), Covered(c),
         sub'[c] = sub[c], wire'[c] = wire[c], client'[c] = client[c],
         committed <= committed', earliest <= earliest', missed[c] \subseteq missed'[c],
         \A s \in Seqs : Queued(s) /\ Beyond(c, s) => Queued(s)' \/ s \in missed'[c],
         \A s \in Seqs : Queued(s)' => Queued(s) \/ s > committed,
         \A s \in Seqs : s > committed /\ s <= committed' => Queued(s)'
  PROVE  BufferOrder(c)' /\ Covered(c)'
<1>1. committed \in Nat /\ earliest \in Nat /\ committed' \in Nat /\ earliest' \in Nat
  BY MaxSeqType DEF TypeOK, Seqs
<1>2. earliest'..committed' \subseteq Seqs
  BY MaxSeqType DEF TypeOK, Seqs
<1>3. /\ sub[c].position \in Nat /\ sub[c].delivered \in Nat
      /\ client[c].last \in Nat
  BY FieldTypes, MaxSeqType
<1>4. BufferOrder(c)'
  <2>1. ASSUME NEW s \in ToSet(sub[c].buffer), NEW t \in Seqs, Queued(t)',
               sub[c].position < t, t < s
        PROVE  t \in missed'[c]
    <3>1. CASE Queued(t)
      BY <2>1, <3>1 DEF BufferOrder
    <3>2. CASE t > committed
      <4>1. s <= committed
        BY DEF ClientInv, BufferStored
      <4>2. s \in Nat /\ t \in Nat
        BY FieldTypes, MembersOf, MaxSeqType
      <4> QED BY <1>1, <2>1, <3>2, <4>1, <4>2
    <3> QED BY <2>1, <3>1, <3>2
  <2>2. \A i, j \in DOMAIN sub[c].buffer :
          i < j /\ sub[c].position < sub[c].buffer[j] =>
            sub[c].buffer[i] <= sub[c].buffer[j] \/ sub[c].buffer[j] \in missed'[c]
    BY DEF BufferOrder
  <2> QED BY <2>1, <2>2 DEF BufferOrder
<1>5. Held(c)'
  BY <1>1, <1>3 DEF Covered, Held
<1>6. ASSUME NEW s \in earliest'..committed' PROVE Underway(c, s)'
  <2>1. s \in Nat /\ s \in Seqs /\ earliest <= s /\ s <= committed'
    BY <1>1, <1>2
  <2>2. CASE s <= committed
    <3>1. Underway(c, s)
      BY <1>1, <2>1, <2>2 DEF Covered
    <3>2. Queued(s) /\ Beyond(c, s) => Queued(s)' \/ s \in missed'[c]
      BY <2>1
    <3>3. /\ sub[c].phase = "live" /\ sub[c].delivered < s => Beyond(c, s)
          /\ sub[c].phase \in {"positioned", "replaying", "replayed"} /\ sub[c].position < s
               => Beyond(c, s)
      BY <1>3, <2>1 DEF Beyond
    <3> QED BY <3>1, <3>2, <3>3 DEF Underway
  <2>3. CASE s > committed
    <3>1. Queued(s)'
      BY <2>1, <2>3
    <3>2. sub[c].phase = "live" => sub[c].delivered <= committed
      BY DEF ClientInv, LiveInv
    <3>3. sub'[c].phase = "live" => ~(s <= sub'[c].delivered)
      BY <1>1, <1>3, <2>1, <2>3, <3>2
    <3> QED BY <3>1, <3>3 DEF Underway
  <2> QED BY <1>1, <2>1, <2>2, <2>3
<1> QED BY <1>4, <1>5, <1>6 DEF Covered

(* The same for a step that neither commits nor queues anything. *)
LEMMA LossFrameQueue ==
  ASSUME TypeOK, TypeOK', NEW c \in Clients, ClientInv(c), BufferOrder(c), Covered(c),
         sub'[c] = sub[c], wire'[c] = wire[c], client'[c] = client[c],
         UNCHANGED <<committed, earliest>>, missed[c] \subseteq missed'[c],
         \A s \in Seqs : Queued(s) /\ Beyond(c, s) => Queued(s)' \/ s \in missed'[c],
         \A s \in Seqs : Queued(s)' => Queued(s)
  PROVE  BufferOrder(c)' /\ Covered(c)'
<1>1. /\ committed <= committed' /\ earliest <= earliest'
      /\ \A s \in Seqs : ~(s > committed /\ s <= committed')
  BY Numbers, MaxSeqType
<1> QED BY <1>1, LossFrame

LEMMA AppendLoss ==
  ASSUME IInv, LossInv, TypeOK', AppendEvent
  PROVE  LossInv'
<1>1. TypeOK /\ \A c \in Clients : ClientInv(c) /\ BufferOrder(c) /\ Covered(c)
  BY DEF IInv, LossInv
<1>2. committed' = committed + 1 /\ pending' = pending \cup {committed + 1}
  BY DEF AppendEvent
<1>3. UNCHANGED <<earliest, claimed, sub, wire, client, missed>>
  BY DEF AppendEvent
<1>4. \A s : Queued(s)' <=> Queued(s) \/ s = committed + 1
  BY <1>2, <1>3 DEF Queued
<1>5. /\ committed <= committed' /\ earliest <= earliest'
      /\ \A s \in Seqs : s > committed /\ s <= committed' => s = committed + 1
      /\ committed + 1 > committed
  BY <1>1, <1>2, <1>3, Numbers, MaxSeqType
<1>6. ASSUME NEW c \in Clients PROVE BufferOrder(c)' /\ Covered(c)'
  <2>1. /\ \A s \in Seqs : Queued(s)' => Queued(s) \/ s > committed
        /\ \A s \in Seqs : s > committed /\ s <= committed' => Queued(s)'
        /\ \A s \in Seqs : Queued(s) /\ Beyond(c, s) => Queued(s)' \/ s \in missed'[c]
    BY <1>4, <1>5
  <2> QED BY <1>1, <1>3, <1>5, <2>1, LossFrame
<1> QED BY <1>6 DEF LossInv

LEMMA DeleteLoss ==
  ASSUME IInv, LossInv, TypeOK', DeleteOldest
  PROVE  LossInv'
<1>1. TypeOK /\ \A c \in Clients : ClientInv(c) /\ BufferOrder(c) /\ Covered(c)
  BY DEF IInv, LossInv
<1>2. /\ earliest' = earliest + 1
      /\ UNCHANGED <<committed, pending, claimed, sub, wire, client, missed>>
  BY DEF DeleteOldest
<1>3. \A s : Queued(s)' <=> Queued(s)
  BY <1>2 DEF Queued
<1>4. /\ committed <= committed' /\ earliest <= earliest'
      /\ \A s \in Seqs : ~(s > committed /\ s <= committed')
  BY <1>1, <1>2, Numbers, MaxSeqType
<1>5. ASSUME NEW c \in Clients PROVE BufferOrder(c)' /\ Covered(c)'
  BY <1>1, <1>2, <1>3, <1>4, LossFrame
<1> QED BY <1>5 DEF LossInv

LEMMA ClaimLoss ==
  ASSUME IInv, LossInv, TypeOK', NEW p \in Procs, Claim(p)
  PROVE  LossInv'
<1>1. TypeOK /\ \A c \in Clients : ClientInv(c) /\ BufferOrder(c) /\ Covered(c)
  BY DEF IInv, LossInv
<1>2. PICK locked \in SUBSET pending :
        /\ claimed[p] = {}
        /\ claimed' = [claimed EXCEPT ![p] = Oldest(pending \ locked)]
        /\ pending' = pending \ Oldest(pending \ locked)
        /\ UNCHANGED <<committed, earliest, sub, wire, client, missed>>
  BY DEF Claim
<1>3. pending \ locked \in SUBSET Seqs
  BY <1>1, QueueTypes
<1>4. Oldest(pending \ locked) \subseteq pending
  BY <1>3, OldestProperties
<1>5. claimed \in [Procs -> SUBSET (1..committed)]
  BY <1>1 DEF TypeOK
<1>6. \A s : Queued(s)' <=> Queued(s)
  BY <1>2, <1>4, <1>5 DEF Queued
<1>7. ASSUME NEW c \in Clients PROVE BufferOrder(c)' /\ Covered(c)'
  BY <1>1, <1>2, <1>6, LossFrameQueue
<1> QED BY <1>7 DEF LossInv

(* Without p's rows the queue is what was behind them. *)
LEMMA QueueWithout ==
  ASSUME TypeOK, NEW p \in Procs, claimed' = [claimed EXCEPT ![p] = {}], pending' = pending
  PROVE  /\ \A s : Queued(s)' <=> s \in QueuedBehind(p)
         /\ \A s : Queued(s) <=> s \in claimed[p] \/ s \in QueuedBehind(p)
BY DEF TypeOK, Queued, QueuedBehind

(* A client without a socket, or whose socket has not read a position yet. *)
LEMMA IdleLoss ==
  ASSUME NEW c \in Clients, sub'[c].phase \in {"off", "asked"}, sub'[c].buffer = <<>>,
         client'[c] = client[c], earliest' = earliest, missed'[c] = missed[c], Covered(c)
  PROVE  BufferOrder(c)' /\ Covered(c)'
<1>1. BufferOrder(c)'
  BY DEF BufferOrder, ToSet
<1>2. Held(c)'
  BY DEF Covered, Held
<1>3. \A s : Underway(c, s)'
  BY DEF Underway
<1> QED BY <1>1, <1>2, <1>3 DEF Covered

(* The rows of a dispatcher that dies, or whose read fails, are let go. *)
LEMMA FaultLoss ==
  ASSUME IInv, LossInv, TypeOK', NEW p \in Procs, DeliverFails(p) \/ Crash(p)
  PROVE  LossInv'
<1>1. TypeOK /\ \A c \in Clients : ClientInv(c) /\ BufferOrder(c) /\ Covered(c)
  BY DEF IInv, LossInv
<1>2. claimed' = [claimed EXCEPT ![p] = {}] /\ UNCHANGED <<committed, earliest, pending, client>>
  BY DEF DeliverFails, Crash
<1>3. /\ \A s : Queued(s)' <=> s \in QueuedBehind(p)
      /\ \A s : Queued(s) <=> s \in claimed[p] \/ s \in QueuedBehind(p)
  BY <1>1, <1>2, QueueWithout
<1>4. ASSUME NEW c \in Clients PROVE BufferOrder(c)' /\ Covered(c)'
  <2>1. \/ sub'[c] = Detached /\ missed'[c] = missed[c]
        \/ /\ sub'[c] = sub[c] /\ wire'[c] = wire[c]
           /\ missed'[c] = missed[c] \cup {s \in claimed[p] : Beyond(c, s)}
    BY DEF DeliverFails, Crash
  <2>2. CASE sub'[c] = Detached /\ missed'[c] = missed[c]
    <3>1. sub'[c].phase = "off" /\ sub'[c].buffer = <<>>
      BY <2>2 DEF Detached
    <3> QED BY <1>1, <1>2, <2>2, <3>1, IdleLoss
  <2>3. CASE /\ sub'[c] = sub[c] /\ wire'[c] = wire[c]
             /\ missed'[c] = missed[c] \cup {s \in claimed[p] : Beyond(c, s)}
    <3>1. \A s \in Seqs : Queued(s) /\ Beyond(c, s) => Queued(s)' \/ s \in missed'[c]
      BY <1>3, <2>3
    <3> QED BY <1>1, <1>2, <1>3, <2>3, <3>1, LossFrameQueue
  <2> QED BY <2>1, <2>2, <2>3
<1> QED BY <1>4 DEF LossInv

(* Delivery to a live listener. *)
LEMMA LiveDeliveryLoss ==
  ASSUME TypeOK, NEW c \in Clients, ClientInv(c), Covered(c),
         NEW p \in Procs, Deliver(p), Attached(c, p), sub[c].phase = "live"
  PROVE  Covered(c)'
<1>1. /\ UNCHANGED <<committed, earliest, client>>
      /\ missed'[c] = missed[c] \cup LetGo(c, p)
  BY DEF Deliver
<1>2. Held(c)'
  BY <1>1 DEF Covered, Held
<1>3. /\ \A s : Queued(s)' <=> s \in QueuedBehind(p)
      /\ \A s : Queued(s) <=> s \in claimed[p] \/ s \in QueuedBehind(p)
  BY QueueWithout DEF Deliver
<1>4. /\ sub'[c].phase = "live"
      /\ sub'[c].delivered \in Nat /\ sub[c].delivered <= sub'[c].delivered
      /\ sub'[c].delivered = sub[c].delivered \/ sub'[c].delivered \in claimed[p]
      /\ \A s \in claimed[p] : s >= earliest => s <= sub'[c].delivered
      /\ Base(wire'[c], client'[c].last) = Base(wire[c], client[c].last)
      /\ \A s : Event(s) \in ToSet(wire'[c]) <=>
           Event(s) \in ToSet(wire[c])
           \/ (s \in claimed[p] /\ s >= earliest /\ sub[c].delivered < s)
  BY LiveDeliveryKeeps
<1>5. sub[c].delivered \in Nat
  BY FieldTypes, MaxSeqType
<1>6. ASSUME NEW s \in earliest..committed PROVE Underway(c, s)'
  <2>1. Underway(c, s)
    BY DEF Covered
  <2>2. s \in Nat /\ s >= earliest
    BY Numbers
  <2>3. sub[c].delivered < s =>
          s \in claimed[p] \/ s \in QueuedBehind(p) \/ s \in missed[c]
    BY <1>3, <2>1 DEF Underway
  <2>4. ASSUME sub'[c].delivered < s PROVE Queued(s)' \/ s \in missed'[c]
    <3>1. sub[c].delivered < s /\ ~(s <= sub'[c].delivered)
      BY <1>4, <1>5, <2>2, <2>4
    <3> QED BY <1>1, <1>3, <1>4, <2>2, <2>3, <3>1
  <2>5. ASSUME Base(wire[c], client[c].last) < s, s <= sub'[c].delivered
        PROVE  Event(s) \in ToSet(wire'[c]) \/ s \in missed'[c]
    <3>1. CASE s <= sub[c].delivered
      BY <1>1, <1>4, <2>1, <2>5, <3>1 DEF Underway
    <3>2. CASE sub[c].delivered < s
      <4>1. sub'[c].delivered \in claimed[p]
        BY <1>4, <1>5, <2>2, <2>5, <3>2
      <4>2. CASE s \in claimed[p]
        BY <1>4, <2>2, <3>2, <4>2
      <4>3. CASE s \in QueuedBehind(p) /\ s \notin claimed[p]
        <5>1. s < sub'[c].delivered
          BY <1>4, <2>2, <2>5, <4>1, <4>3
        <5>2. Beyond(c, s)
          BY <1>5, <2>2, <3>2 DEF Beyond
        <5>3. s \in LetGo(c, p)
          BY <4>1, <4>3, <5>1, <5>2 DEF LetGo
        <5> QED BY <1>1, <5>3
      <4> QED BY <1>1, <2>3, <3>2, <4>2, <4>3
    <3> QED BY <1>5, <2>2, <3>1, <3>2
  <2> QED BY <1>4, <2>4, <2>5 DEF Underway
<1> QED BY <1>1, <1>2, <1>6 DEF Covered

(* What is in the buffer stays in it. *)
LEMMA TakeKeeps ==
  ASSUME NEW T, NEW a \in Seq(T), NEW b \in Seq(T), NEW n \in Nat, Len(a) <= n
  PROVE  ToSet(a) \subseteq ToSet(Take(a \o b, n))
<1>1. PICK k \in Nat : k = Len(a) /\ DOMAIN a = 1..k /\ k <= n
  BY AsFunction
<1>2. PICK e \in Nat : e = Len(b)
  BY AsFunction
<1>3. PICK r \in Seq(T) : r = a \o b
  BY ConcatProperties
<1>4. /\ Len(r) = k + e
      /\ \A i \in 1..(k + e) : r[i] = IF i <= k THEN a[i] ELSE b[i - k]
  BY <1>1, <1>2, <1>3, ConcatProperties
<1>5. PICK l, m \in Nat :
        /\ l = Len(r) /\ DOMAIN r = 1..l
        /\ m = Len(Take(r, n)) /\ DOMAIN Take(r, n) = 1..m
        /\ m <= n /\ m <= l /\ (m = n \/ m = l)
        /\ \A i \in 1..m : Take(r, n)[i] = r[i]
  BY TakeIsPrefix, Zenon
<1>6. \A i \in 1..k : i \in 1..m /\ Take(r, n)[i] = a[i]
  <2> SUFFICES ASSUME NEW i \in 1..k PROVE i \in 1..m /\ Take(r, n)[i] = a[i]
    OBVIOUS
  <2>1. l = k + e
    BY <1>4, <1>5
  <2>2. i \in 1..m /\ i \in 1..(k + e) /\ i <= k
    BY <1>1, <1>5, <2>1
  <2> QED BY <1>4, <1>5, <2>2
<1> QED BY <1>1, <1>3, <1>5, <1>6 DEF ToSet

(* Places of a concatenation: both in the first, both in the second, or across. *)
Spliced(a, b, r) ==
  \A i, j \in DOMAIN r :
    i < j => \/ i \in DOMAIN a /\ j \in DOMAIN a /\ r[i] = a[i] /\ r[j] = a[j]
             \/ r[i] \in ToSet(a) /\ r[j] \in ToSet(b)
             \/ \E x, y \in DOMAIN b : x < y /\ r[i] = b[x] /\ r[j] = b[y]

LEMMA ConcatPlaces ==
  ASSUME NEW T, NEW a \in Seq(T), NEW b \in Seq(T)
  PROVE  Spliced(a, b, a \o b)
<1>1. PICK l \in Nat : l = Len(a) /\ DOMAIN a = 1..l
  BY AsFunction
<1>2. PICK m \in Nat : m = Len(b) /\ DOMAIN b = 1..m
  BY AsFunction
<1>3. PICK r \in Seq(T) : r = a \o b
  BY ConcatProperties
<1> SUFFICES ASSUME NEW i \in DOMAIN r, NEW j \in DOMAIN r, i < j
             PROVE  \/ i \in DOMAIN a /\ j \in DOMAIN a /\ r[i] = a[i] /\ r[j] = a[j]
                    \/ r[i] \in ToSet(a) /\ r[j] \in ToSet(b)
                    \/ \E x, y \in DOMAIN b : x < y /\ r[i] = b[x] /\ r[j] = b[y]
  BY <1>3 DEF Spliced
<1>4. /\ Len(r) = l + m
      /\ \A k \in 1..(l + m) : r[k] = IF k <= l THEN a[k] ELSE b[k - l]
  BY <1>1, <1>2, <1>3, ConcatProperties
<1>5. i \in 1..(l + m) /\ j \in 1..(l + m)
  BY <1>4, LenProperties
<1>6. CASE j <= l
  <2>1. i \in 1..l /\ j \in 1..l /\ i <= l
    BY <1>5, <1>6
  <2> QED BY <1>1, <1>4, <1>5, <2>1
<1>7. CASE i <= l /\ ~(j <= l)
  <2>1. i \in 1..l /\ j - l \in 1..m
    BY <1>5, <1>7
  <2>2. r[i] = a[i] /\ r[j] = b[j - l]
    BY <1>4, <1>5, <1>7
  <2> QED BY <1>1, <1>2, <2>1, <2>2 DEF ToSet
<1>8. CASE ~(i <= l)
  <2>1. i - l \in 1..m /\ j - l \in 1..m /\ i - l < j - l /\ ~(j <= l)
    BY <1>5, <1>8
  <2>2. r[i] = b[i - l] /\ r[j] = b[j - l]
    BY <1>4, <1>5, <1>8, <2>1
  <2> QED BY <1>2, <2>1, <2>2
<1> QED BY <1>5, <1>6, <1>7, <1>8

(* Delivery to a listener that buffers. *)
LEMMA BufferedDeliveryLoss ==
  ASSUME TypeOK, NEW c \in Clients, ClientInv(c), BufferOrder(c), Covered(c),
         NEW p \in Procs, Deliver(p), Attached(c, p), sub[c].phase # "live"
  PROVE  BufferOrder(c)' /\ Covered(c)'
<1>1. /\ UNCHANGED <<committed, earliest, client>>
      /\ missed'[c] = missed[c] \cup LetGo(c, p)
  BY DEF Deliver
<1>2. /\ \A s : Queued(s)' <=> s \in QueuedBehind(p)
      /\ \A s : Queued(s) <=> s \in claimed[p] \/ s \in QueuedBehind(p)
  BY QueueWithout DEF Deliver
<1>3. sub'[c] = [sub[c] EXCEPT !.buffer = Buffered(c, Batch(p))]
  BY BufferedDeliveryKeeps
<1>4. /\ sub'[c].phase = sub[c].phase /\ sub'[c].position = sub[c].position
      /\ sub'[c].buffer = Buffered(c, Batch(p))
  BY <1>3, FieldTypes DEF Subscriber
<1>5. PICK bb \in Seq(Seqs) : bb = sub[c].buffer
  BY FieldTypes
<1>6. PICK ba \in Seq(Seqs) :
        ba = Batch(p) /\ InOrder(ba) /\ ToSet(ba) = {s \in claimed[p] : s >= earliest}
  BY BatchProperties
<1>7. PICK pos \in Nat : pos = sub[c].position
  BY FieldTypes, MaxSeqType
<1>8. claimed[p] \subseteq Seqs /\ Seqs \subseteq Nat
  BY QueueTypes, MaxSeqType
<1>9. PICK tt \in Seq(Seqs) : tt = bb \o ba /\ ToSet(tt) = ToSet(bb) \cup ToSet(ba)
  BY ConcatMembers
<1>10. PICK nb \in Seq(Seqs) :
         /\ nb = sub'[c].buffer /\ nb = Take(tt, MaxBuffer) /\ MaxBuffer \in Nat
         /\ ToSet(nb) = ToSet(Buffered(c, Batch(p)))
  BY <1>4, <1>5, <1>6, <1>9, BufferedProperties, StreamConstants DEF Buffered
<1>11. PICK l, m \in Nat :
         /\ DOMAIN tt = 1..l /\ DOMAIN nb = 1..m /\ m <= l
         /\ \A i \in 1..m : nb[i] = tt[i]
  <2>1. PICK l, m \in Nat :
          /\ l = Len(tt) /\ DOMAIN tt = 1..l
          /\ m = Len(Take(tt, MaxBuffer)) /\ DOMAIN Take(tt, MaxBuffer) = 1..m
          /\ m <= MaxBuffer /\ m <= l /\ (m = MaxBuffer \/ m = l)
          /\ \A i \in 1..m : Take(tt, MaxBuffer)[i] = tt[i]
    BY <1>10, TakeIsPrefix, Zenon
  <2> QED BY <1>10, <2>1
<1>12. sub[c].phase \in {"replaying", "replayed"}
  BY DEF Attached
<1>13. \A s \in Seqs : pos < s => Beyond(c, s)
  BY <1>7, <1>8, <1>12 DEF Beyond
<1>14. ASSUME NEW i \in 1..m, NEW j \in 1..m, i < j, pos < nb[j]
       PROVE  nb[i] <= nb[j] \/ nb[j] \in missed'[c]
  <2>1. i \in DOMAIN tt /\ j \in DOMAIN tt /\ nb[i] = tt[i] /\ nb[j] = tt[j]
    BY <1>11
  <2>2. CASE /\ i \in DOMAIN bb /\ j \in DOMAIN bb
             /\ nb[i] = bb[i] /\ nb[j] = bb[j]
    BY <1>1, <1>5, <1>7, <1>14, <2>2 DEF BufferOrder
  <2>3. CASE nb[i] \in ToSet(bb) /\ nb[j] \in ToSet(ba)
    <3>1. nb[i] \in Nat /\ nb[j] \in Seqs /\ nb[j] \in Nat /\ Queued(nb[j])
      BY <1>2, <1>6, <1>8, <2>3, MembersOf
    <3>2. nb[j] < nb[i] => nb[j] \in missed[c]
      BY <1>5, <1>7, <1>14, <2>3, <3>1 DEF BufferOrder
    <3> QED BY <1>1, <3>1, <3>2
  <2>4. CASE \E x, y \in DOMAIN ba : x < y /\ nb[i] = ba[x] /\ nb[j] = ba[y]
    <3>1. PICK x, y \in DOMAIN ba : x < y /\ nb[i] = ba[x] /\ nb[j] = ba[y]
      BY <2>4
    <3>2. ba[x] < ba[y] /\ ba[x] \in ToSet(ba) /\ ba[y] \in ToSet(ba)
      BY <1>6, <3>1 DEF InOrder, ToSet
    <3>3. ba[x] \in Nat /\ ba[y] \in Nat
      BY <1>6, <1>8, <3>2
    <3> QED BY <3>1, <3>2, <3>3
  <2>5. \/ i \in DOMAIN bb /\ j \in DOMAIN bb /\ tt[i] = bb[i] /\ tt[j] = bb[j]
        \/ tt[i] \in ToSet(bb) /\ tt[j] \in ToSet(ba)
        \/ \E x, y \in DOMAIN ba : x < y /\ tt[i] = ba[x] /\ tt[j] = ba[y]
    <3>1. Spliced(bb, ba, tt)
      BY <1>9, ConcatPlaces
    <3> QED BY <1>14, <2>1, <3>1 DEF Spliced
  <2> QED BY <2>1, <2>2, <2>3, <2>4, <2>5
<1>15. ASSUME NEW s \in ToSet(nb), NEW t \in Seqs, Queued(t)', pos < t, t < s
       PROVE  t \in missed'[c]
  <2>1. s \in ToSet(bb) \/ s \in ToSet(ba)
    BY <1>9, <1>10, TakeProperties
  <2>2. CASE s \in ToSet(bb)
    BY <1>1, <1>2, <1>5, <1>7, <1>15, <2>2 DEF BufferOrder
  <2>3. CASE s \in ToSet(ba)
    <3>1. t \in LetGo(c, p)
      BY <1>2, <1>6, <1>13, <1>15, <2>3 DEF LetGo
    <3> QED BY <1>1, <3>1
  <2> QED BY <2>1, <2>2, <2>3
<1>16. BufferOrder(c)'
  BY <1>4, <1>7, <1>10, <1>11, <1>14, <1>15 DEF BufferOrder
<1>17. Held(c)'
  BY <1>1 DEF Covered, Held
<1>18. ToSet(bb) \subseteq ToSet(nb)
  <2>1. Len(bb) <= MaxBuffer
    BY <1>5, FieldTypes
  <2> QED BY <1>9, <1>10, <2>1, TakeKeeps
<1>19. ASSUME NEW s \in earliest..committed PROVE Underway(c, s)'
  <2>1. Underway(c, s)
    BY DEF Covered
  <2>2. s \in Seqs
    BY Numbers
  <2>3. ASSUME pos < s PROVE Queued(s)' \/ s \in ToSet(nb) \/ s \in missed'[c]
    <3>1. s \in claimed[p] \/ s \in QueuedBehind(p) \/ s \in ToSet(bb) \/ s \in missed[c]
      BY <1>2, <1>5, <1>7, <1>12, <2>1, <2>3 DEF Underway
    <3>2. ASSUME s \in claimed[p], s \notin ToSet(nb) PROVE s \in LetGo(c, p)
      <4>1. Taken(c, p) = ToSet(nb)
        BY <1>10 DEF Taken
      <4> QED BY <1>13, <2>2, <2>3, <3>2, <4>1 DEF LetGo
    <3> QED BY <1>1, <1>2, <1>18, <3>1, <3>2
  <2> QED BY <1>4, <1>7, <1>10, <1>12, <2>3 DEF Underway
<1> QED BY <1>1, <1>16, <1>17, <1>19 DEF Covered

LEMMA DeliverLoss ==
  ASSUME IInv, LossInv, TypeOK', NEW p \in Procs, Deliver(p)
  PROVE  LossInv'
<1>1. TypeOK /\ \A c \in Clients : ClientInv(c) /\ BufferOrder(c) /\ Covered(c)
  BY DEF IInv, LossInv
<1>2. claimed' = [claimed EXCEPT ![p] = {}] /\ UNCHANGED <<committed, earliest, pending, client>>
  BY DEF Deliver
<1>3. /\ \A s : Queued(s)' <=> s \in QueuedBehind(p)
      /\ \A s : Queued(s) <=> s \in claimed[p] \/ s \in QueuedBehind(p)
  BY <1>1, <1>2, QueueWithout
<1>4. ASSUME NEW c \in Clients PROVE BufferOrder(c)' /\ Covered(c)'
  <2>1. CASE Attached(c, p) /\ sub[c].phase = "live"
    <3>1. sub'[c].buffer = <<>>
      BY <1>1, <2>1, LiveDeliveryKeeps DEF ClientInv, PhaseInv
    <3>2. BufferOrder(c)'
      BY <3>1 DEF BufferOrder, ToSet
    <3> QED BY <1>1, <2>1, <3>2, LiveDeliveryLoss
  <2>2. CASE Attached(c, p) /\ sub[c].phase # "live"
    BY <1>1, <2>2, BufferedDeliveryLoss
  <2>3. CASE ~Attached(c, p)
    <3>1. sub'[c] = sub[c] /\ wire'[c] = wire[c]
      BY <1>1, <2>3, NoDelivery
    <3>2. Taken(c, p) = {}
      BY <2>3 DEF Taken, Sent, ToSet
    <3>3. missed'[c] = missed[c] \cup LetGo(c, p)
      BY DEF Deliver
    <3>4. \A s \in Seqs : Queued(s) /\ Beyond(c, s) => Queued(s)' \/ s \in missed'[c]
      BY <1>3, <3>2, <3>3 DEF LetGo
    <3> QED BY <1>1, <1>2, <1>3, <3>1, <3>3, <3>4, LossFrameQueue
  <2> QED BY <2>1, <2>2, <2>3
<1> QED BY <1>4 DEF LossInv

(* The socket's own steps.  They leave the queue alone. *)
LEMMA EstablishLoss ==
  ASSUME TypeOK, NEW c \in Clients, ClientInv(c), Establish(c), Covered(c),
         UNCHANGED <<committed, earliest, pending, claimed, missed>>, client'[c] = client[c]
  PROVE  Covered(c)'
<1>1. /\ sub[c].phase = "positioned"
      /\ \A s \in earliest..committed : sub[c].position < s =>
           Queued(s) \/ s \in missed[c]
  BY DEF Establish, Covered, Underway
<1>2. \A s : Queued(s)' <=> Queued(s)
  BY DEF Queued
<1>3. Held(c)'
  BY DEF Covered, Held
<1>4. /\ wire[c] = <<>> /\ sub[c].delivered = 0 /\ sub[c].asked = client[c].last
      /\ sub \in [Clients -> Subscriber] /\ wire \in [Clients -> Seq(Message)]
  BY <1>1 DEF ClientInv, PhaseInv, TypeOK
<1>5. sub[c].position \in 0..MaxSeq /\ sub[c].position \in Nat /\ sub[c].asked \in Nat
  BY FieldTypes, MaxSeqType
<1>6. /\ sub'[c].phase \in {"replaying", "live"} /\ sub'[c].position = sub[c].position
      /\ sub'[c].phase = "live" =>
           sub'[c].delivered = sub[c].position
           /\ Base(wire'[c], client'[c].last) = sub[c].position
  <2>1. CASE RefreshNeeded(sub[c])
    <3>1. /\ sub' = [sub EXCEPT ![c].phase = "live", ![c].delivered = sub[c].position]
          /\ wire'[c] = Append(<<>>, Refresh(sub[c].position))
      BY <1>4, <2>1 DEF Establish
    <3>2. /\ Refreshes(wire'[c]) /\ Head(wire'[c]) = Refresh(sub[c].position)
          /\ Refresh(sub[c].position).seq = sub[c].position
      BY <1>5, <3>1, RefreshWire, MessageType
    <3>3. Base(wire'[c], client'[c].last) = sub[c].position
      BY <3>2 DEF Base
    <3> QED BY <1>4, <3>1, <3>3 DEF Subscriber
  <2>2. CASE ~RefreshNeeded(sub[c]) /\ sub[c].position > sub[c].asked
    <3>1. sub' = [sub EXCEPT ![c].phase = "replaying"]
      BY <2>2 DEF Establish
    <3> QED BY <1>4, <3>1 DEF Subscriber
  <2>3. CASE ~RefreshNeeded(sub[c]) /\ ~(sub[c].position > sub[c].asked)
    <3>1. /\ sub' = [sub EXCEPT ![c].phase = "live",
                                ![c].delivered = Larger(sub[c].delivered, sub[c].asked)]
          /\ wire' = wire
      BY <2>3 DEF Establish
    <3>2. sub[c].asked = sub[c].position
      BY <1>5, <2>3 DEF RefreshNeeded, AheadOfStream
    <3>3. Larger(sub[c].delivered, sub[c].asked) = sub[c].position
      BY <1>4, <1>5, <3>2 DEF Larger
    <3>4. Base(wire'[c], client'[c].last) = sub[c].position
      BY <1>4, <3>1, <3>2, EmptyWire DEF Base
    <3> QED BY <1>4, <3>1, <3>3, <3>4 DEF Subscriber
  <2> QED BY <2>1, <2>2, <2>3
<1>7. ASSUME NEW s \in earliest..committed PROVE Underway(c, s)'
  <2>1. s \in Nat
    BY Numbers
  <2>2. sub[c].position < s => Queued(s)' \/ s \in missed'[c]
    BY <1>1, <1>2
  <2>3. ~(sub[c].position < s /\ s <= sub[c].position)
    BY <1>5, <2>1
  <2> QED BY <1>6, <2>2, <2>3 DEF Underway
<1> QED BY <1>3, <1>7 DEF Covered

(* The drain sends what is new in the buffer, or it was let go. *)
LEMMA DrainedOrLetGo ==
  ASSUME TypeOK, NEW c \in Clients, BufferOrder(c), NEW h \in Nat, h = High(c),
         NEW s \in ToSet(sub[c].buffer), h < s, sub[c].position < s
  PROVE  s \in ToSet(Rest(c)) \/ s \in missed[c]
<1>1. PICK bb \in Seq(Seqs) : bb = sub[c].buffer
  BY FieldTypes
<1>2. PICK l \in Nat : l = Len(bb) /\ DOMAIN bb = 1..l /\ \A i \in 1..l : bb[i] \in Seqs
  BY AsFunction
<1> DEFINE At == {i \in 1..l : bb[i] = s}
<1>3. At # {} /\ At \subseteq Nat
  BY <1>1, <1>2 DEF ToSet
<1>4. PICK j \in At : \A i \in At : j <= i
  BY <1>3, Least
<1>5. j \in 1..l /\ bb[j] = s
  OBVIOUS
<1>6. ASSUME s \notin missed[c], NEW i \in 1..l, i < j PROVE bb[i] < bb[j]
  <2>1. i \notin At
    BY <1>4, <1>5, <1>6
  <2>2. bb[i] # s
    BY <2>1
  <2>3. bb[i] <= bb[j]
    BY <1>1, <1>2, <1>5, <1>6 DEF BufferOrder
  <2>4. bb[i] \in Nat /\ bb[j] \in Nat
    BY <1>2, <1>5, MaxSeqType
  <2> QED BY <1>5, <2>2, <2>3, <2>4
<1>7. ASSUME s \notin missed[c] PROVE bb[j] \in ToSet(Rising(bb, h))
  <2>1. h \in Int /\ h < bb[j] /\ j \in DOMAIN bb
    BY <1>2, <1>5
  <2>2. \A i \in DOMAIN bb : i < j => bb[i] < bb[j]
    BY <1>2, <1>6, <1>7
  <2> QED BY <2>1, <2>2, RisingProperties
<1>8. Rest(c) = Rising(bb, h)
  BY <1>1 DEF Rest, Drained
<1> QED BY <1>5, <1>7, <1>8

LEMMA ReplayDoneLoss ==
  ASSUME TypeOK, NEW c \in Clients, ClientInv(c), BufferOrder(c), ReplayDone(c), Covered(c),
         UNCHANGED <<committed, earliest, pending, claimed, missed>>, client'[c] = client[c]
  PROVE  Covered(c)'
<1>1. sub[c].phase = "replayed"
  BY DEF ReplayDone
<1>2. Held(c)'
  BY DEF Covered, Held
<1>3. \A s : Queued(s)' <=> Queued(s)
  BY DEF Queued
<1>4. /\ InOrder(sub[c].history) /\ sub[c].history # <<>>
      /\ \A s \in earliest..committed :
           sub[c].asked < s /\ (s <= sub[c].position \/ s <= Last(sub[c].history))
             => s \in ToSet(sub[c].history)
  BY <1>1 DEF ClientInv, HistoryInv
<1>5. PICK h \in Nat : h = High(c)
  BY <1>4, RestProperties
<1>6. PICK d \in Nat : d = Reached(High(c), Rest(c))
  BY <1>4, RestProperties, MaxSeqType
<1>7. /\ sub[c].asked < h /\ h <= d /\ h = Last(sub[c].history)
      /\ d = h \/ d \in ToSet(Rest(c))
  BY <1>1, <1>5, <1>6, SendsAll
<1>8. /\ ToSet(Rest(c)) \subseteq ToSet(sub[c].buffer)
      /\ \A s \in ToSet(sub[c].buffer) :
           h < s /\ sub[c].position < s => s \in ToSet(Rest(c)) \/ s \in missed[c]
      /\ \A s \in ToSet(Rest(c)) : s <= d
  <2>1. \A s \in ToSet(Rest(c)) : s <= d
    BY <1>4, <1>5, <1>6, RestProperties, ReachedProperties
  <2>2. ToSet(Rest(c)) \subseteq ToSet(sub[c].buffer)
    BY <1>4, RestProperties
  <2>3. \A s \in ToSet(sub[c].buffer) :
          h < s /\ sub[c].position < s => s \in ToSet(Rest(c)) \/ s \in missed[c]
    BY <1>5, DrainedOrLetGo
  <2> QED BY <2>1, <2>2, <2>3
<1>9. /\ sub'[c].phase = "live" /\ sub'[c].delivered = d
      /\ Base(wire'[c], client'[c].last) = sub[c].asked
      /\ \A s : Event(s) \in ToSet(wire'[c])
                  <=> s \in ToSet(sub[c].history) \cup ToSet(Rest(c))
  BY <1>6, ReplayDoneKeeps
<1>10. sub[c].asked \in Nat /\ sub[c].position \in Nat /\ sub[c].buffer \in Seq(Seqs)
  BY FieldTypes, MaxSeqType
<1>11. ASSUME NEW s \in earliest..committed PROVE Underway(c, s)'
  <2>1. s \in Nat /\ s \in Seqs
    BY Numbers
  <2>2. sub[c].position < s => Queued(s) \/ s \in ToSet(sub[c].buffer) \/ s \in missed[c]
    BY <1>1 DEF Covered, Underway
  <2>3. sub[c].asked < s /\ ~(sub[c].position < s /\ h < s) => s \in ToSet(sub[c].history)
    BY <1>4, <1>7, <1>10, <2>1
  <2>4. \A b \in ToSet(sub[c].buffer) :
          Queued(s) /\ sub[c].position < s /\ s < b => s \in missed[c]
    BY <2>1 DEF BufferOrder
  <2>5. ASSUME d < s PROVE Queued(s)' \/ s \in missed'[c]
    <3>1. sub[c].asked < s /\ h < s /\ ~(s <= d)
      BY <1>7, <1>10, <2>1, <2>5
    <3>2. s \notin ToSet(sub[c].history)
      <4>1. \A x \in ToSet(sub[c].history) : x <= h
        BY <1>4, <1>7, LastIsGreatest, FieldTypes, MaxSeqType
      <4> QED BY <2>1, <3>1, <4>1
    <3>3. /\ sub[c].position < s
          /\ Queued(s) \/ s \in ToSet(sub[c].buffer) \/ s \in missed[c]
      BY <2>2, <2>3, <3>1, <3>2
    <3> QED BY <1>3, <1>8, <3>1, <3>3
  <2>6. ASSUME sub[c].asked < s, s <= d
        PROVE  s \in ToSet(sub[c].history) \cup ToSet(Rest(c)) \cup missed'[c]
    <3>1. CASE sub[c].position < s /\ h < s
      <4>1. d # h
        BY <2>1, <2>6, <3>1
      <4>2. d \in ToSet(Rest(c)) /\ d \in ToSet(sub[c].buffer)
        BY <1>7, <1>8, <4>1
      <4>3. Queued(s) => s \in missed[c] \/ s = d
        <5>1. s < d \/ s = d
          BY <2>1, <2>6
        <5> QED BY <2>4, <3>1, <4>2, <5>1
      <4> QED BY <1>8, <2>2, <3>1, <4>2, <4>3
    <3> QED BY <2>3, <2>6, <3>1
  <2> QED BY <1>9, <2>5, <2>6 DEF Underway
<1> QED BY <1>2, <1>11 DEF Covered

LEMMA ReceiveLoss ==
  ASSUME TypeOK, NEW c \in Clients, ClientInv(c), Covered(c), ReceiveEvent(c) \/ ReceiveRefresh(c)
  PROVE  Covered(c)'
<1>1. UNCHANGED <<committed, earliest, pending, claimed, sub, missed>>
  BY ReceiveEventEffect, ReceiveRefreshEffect
<1>2. \A s : Queued(s)' <=> Queued(s)
  BY <1>1 DEF Queued
<1>3. CASE ReceiveEvent(c)
  <2>1. PICK z \in Nat : z = Head(wire[c]).seq
    BY <1>3, ReceiveEventEffect, MaxSeqType
  <2>2. /\ sub[c].phase = "live" /\ Base(wire[c], client[c].last) = client[c].last
        /\ client[c].last < z /\ z <= committed
        /\ client'[c].last = z /\ client'[c].known = client[c].known \cup {z}
        /\ Base(wire'[c], client'[c].last) = z
        /\ \A s : Event(s) \in ToSet(wire[c]) =>
             (s = z \/ Event(s) \in ToSet(wire'[c])) /\ z <= s
    BY <1>3, <2>1, ReceiveEventKeeps
  <2>3. client[c].last \in Nat /\ sub[c].delivered \in Nat
    BY FieldTypes, MaxSeqType
  <2>4. z <= sub[c].delivered
    <3>1. /\ wire[c] \in Seq(Message) /\ wire[c] # <<>>
          /\ \A m \in ToSet(wire[c]) : m.seq <= sub[c].delivered
      BY <1>3, <2>2, FieldTypes, ReceiveEventEffect DEF ClientInv, LiveInv
    <3> QED BY <2>1, <3>1, HeadIsFirst
  <2>5. ASSUME NEW s \in earliest..z PROVE s \in client[c].known \cup {z} \cup missed[c]
    <3>1. s \in Nat /\ s <= z /\ s \in earliest..committed
      BY <2>1, <2>2, Numbers
    <3>2. CASE s <= client[c].last
      <4>1. s \in earliest..client[c].last
        BY <2>3, <3>1, <3>2, Numbers
      <4> QED BY <4>1 DEF Covered, Held
    <3>3. CASE client[c].last < s
      <4>1. Event(s) \in ToSet(wire[c]) \/ s \in missed[c]
        <5>1. s <= sub[c].delivered
          BY <2>1, <2>3, <2>4, <3>1
        <5> QED BY <2>2, <3>1, <3>3, <5>1 DEF Covered, Underway
      <4>2. z <= s \/ s \in missed[c]
        BY <2>2, <4>1
      <4> QED BY <2>1, <3>1, <4>2
    <3> QED BY <2>3, <3>1, <3>2, <3>3
  <2>6. Held(c)'
    BY <1>1, <2>2, <2>5 DEF Held
  <2>7. ASSUME NEW s \in earliest..committed PROVE Underway(c, s)'
    <3>1. Underway(c, s) /\ s \in Nat
      BY Numbers DEF Covered
    <3>2. ASSUME z < s, s <= sub[c].delivered PROVE Event(s) \in ToSet(wire'[c]) \/ s \in missed'[c]
      <4>1. client[c].last < s /\ s # z
        BY <2>1, <2>2, <2>3, <3>1, <3>2
      <4> QED BY <1>1, <2>2, <3>1, <3>2, <4>1 DEF Underway
    <3>3. sub[c].delivered < s => Queued(s)' \/ s \in missed'[c]
      BY <1>1, <1>2, <2>2, <3>1 DEF Underway
    <3> QED BY <1>1, <2>2, <3>2, <3>3 DEF Underway
  <2> QED BY <1>1, <2>6, <2>7 DEF Covered
<1>4. CASE ReceiveRefresh(c)
  <2>1. /\ sub[c].phase = "live"
        /\ client'[c].last <= committed /\ client'[c].known = 1..committed
        /\ Base(wire'[c], client'[c].last) = Base(wire[c], client[c].last)
        /\ \A s : Event(s) \in ToSet(wire[c]) => Event(s) \in ToSet(wire'[c])
    BY <1>4, ReceiveRefreshKeeps
  <2>2. client'[c].last \in Nat
    BY <1>4, ReceiveRefreshEffect, MaxSeqType
  <2>3. Held(c)'
    BY <1>1, <2>1, <2>2, Numbers DEF Held
  <2>4. ASSUME NEW s \in earliest..committed PROVE Underway(c, s)'
    <3>1. Underway(c, s)
      BY DEF Covered
    <3> QED BY <1>1, <1>2, <2>1, <3>1 DEF Underway
  <2> QED BY <1>1, <2>3, <2>4 DEF Covered
<1> QED BY <1>3, <1>4

LEMMA SocketLoss ==
  ASSUME IInv, LossInv, TypeOK', NEW c \in Clients, SocketStep(c)
  PROVE  LossInv'
<1>1. TypeOK /\ ClientInv(c) /\ BufferOrder(c) /\ Covered(c)
  BY DEF IInv, LossInv
<1>2. UNCHANGED <<committed, earliest, pending, claimed, missed>>
  BY SocketStepGlobals
<1>3. sub[c].position \in Nat
  BY <1>1, FieldTypes, MaxSeqType
<1>4. \A s : Queued(s)' <=> Queued(s)
  BY <1>2 DEF Queued
<1>6. ASSUME NEW d \in Clients, d # c PROVE BufferOrder(d)' /\ Covered(d)'
  <2>1. ClientInv(d) /\ BufferOrder(d) /\ Covered(d)
    BY DEF IInv, LossInv
  <2>2. sub'[d] = sub[d] /\ wire'[d] = wire[d] /\ client'[d] = client[d]
    BY <1>1, <1>6, SocketStepFrame
  <2> QED BY <1>1, <1>2, <1>4, <2>1, <2>2, LossFrameQueue
<1>7. sub \in [Clients -> Subscriber] /\ sub[c] \in Subscriber
  BY <1>1 DEF TypeOK
<1>8. /\ sub'[c].buffer = <<>> => BufferOrder(c)'
      /\ sub'[c].buffer = sub[c].buffer /\ sub'[c].position = sub[c].position => BufferOrder(c)'
  BY <1>1, <1>2, <1>4 DEF BufferOrder, ToSet
<1>9. ASSUME NEW p \in Procs, Connect(c, p) PROVE BufferOrder(c)' /\ Covered(c)'
  <2>1. client' = client /\ sub'[c] = [Detached EXCEPT !.phase = "asked", !.proc = p,
                                                       !.asked = client[c].last]
    BY <1>7, <1>9 DEF Connect
  <2>2. sub'[c].phase = "asked" /\ sub'[c].buffer = <<>>
    BY <2>1 DEF Detached
  <2> QED BY <1>1, <1>2, <2>1, <2>2, IdleLoss
<1>10. CASE Disconnect(c)
  <2>1. client' = client /\ sub'[c] = Detached
    BY <1>7, <1>10 DEF Disconnect
  <2>2. sub'[c].phase = "off" /\ sub'[c].buffer = <<>>
    BY <2>1 DEF Detached
  <2>3. BufferOrder(c)' /\ Covered(c)'
    BY <1>1, <1>2, <2>1, <2>2, IdleLoss
  <2> QED BY <1>6, <2>3 DEF LossInv
<1>11. ASSUME ReadPosition(c) PROVE BufferOrder(c)' /\ Covered(c)'
  <2>1. /\ client' = client /\ sub'[c].phase = "positioned" /\ sub'[c].position = committed
        /\ sub'[c].buffer = <<>>
    BY <1>1, <1>7, <1>11 DEF ReadPosition, Subscriber, ClientInv, PhaseInv
  <2>2. \A s \in earliest..committed : ~(committed < s)
    BY <1>1, Numbers
  <2>3. \A s \in earliest..committed : Underway(c, s)'
    BY <2>1, <2>2 DEF Underway
  <2>4. Held(c)'
    BY <1>1, <1>2, <2>1 DEF Covered, Held
  <2> QED BY <1>2, <1>8, <2>1, <2>3, <2>4 DEF Covered
<1>12. ASSUME Establish(c) PROVE BufferOrder(c)' /\ Covered(c)'
  <2>1. client' = client
    BY <1>12 DEF Establish
  <2>2. sub'[c].buffer = sub[c].buffer /\ sub'[c].position = sub[c].position
    BY <1>7, <1>12 DEF Establish, Subscriber
  <2> QED BY <1>1, <1>2, <1>8, <1>12, <2>1, <2>2, EstablishLoss
<1>13. ASSUME ReplayRead(c) PROVE BufferOrder(c)' /\ Covered(c)'
  <2>1. /\ client' = client /\ wire' = wire
        /\ sub[c].phase = "replaying" /\ sub'[c].phase = "replayed"
        /\ sub'[c].position = sub[c].position /\ sub'[c].buffer = sub[c].buffer
    BY <1>7, <1>13 DEF ReplayRead, Subscriber
  <2>2. \A s : Underway(c, s) => Underway(c, s)'
    BY <1>2, <1>4, <2>1 DEF Underway
  <2>3. Held(c)'
    BY <1>1, <1>2, <2>1 DEF Covered, Held
  <2> QED BY <1>1, <1>2, <1>8, <2>1, <2>2, <2>3 DEF Covered
<1>14. ASSUME ReplayDone(c) PROVE BufferOrder(c)' /\ Covered(c)'
  <2>1. client' = client
    BY <1>14 DEF ReplayDone
  <2>2. sub'[c].buffer = <<>>
    BY <1>1, <1>14, ReplayDoneKeeps
  <2> QED BY <1>1, <1>2, <1>8, <1>14, <2>1, <2>2, ReplayDoneLoss
<1>15. ASSUME ReceiveEvent(c) \/ ReceiveRefresh(c)
       PROVE  BufferOrder(c)' /\ Covered(c)'
  <2>1. sub' = sub
    BY <1>1, <1>15, ReceiveEventEffect, ReceiveRefreshEffect
  <2> QED BY <1>1, <1>8, <1>15, <2>1, ReceiveLoss
<1>16. CASE BufferOrder(c)' /\ Covered(c)'
  BY <1>6, <1>16 DEF LossInv
<1> QED BY <1>9, <1>10, <1>11, <1>12, <1>13, <1>14, <1>15, <1>16 DEF SocketStep

LEMMA InitCovers == Init => LossInv
<1> SUFFICES ASSUME Init PROVE LossInv
  OBVIOUS
<1>1. /\ committed = 0 /\ earliest = 1 /\ pending = {} /\ claimed = [p \in Procs |-> {}]
      /\ sub = [c \in Clients |-> Detached] /\ missed = [c \in Clients |-> {}]
  BY DEF Init
<1>2. PICK start \in [Clients -> {0, 1}] :
        client = [c \in Clients |-> [last |-> start[c], known |-> 1..start[c]]]
  BY DEF Init
<1>3. ASSUME NEW c \in Clients PROVE BufferOrder(c) /\ Covered(c)
  <2>1. sub[c] = Detached /\ sub[c].phase = "off" /\ sub[c].buffer = <<>>
    BY <1>1 DEF Detached
  <2>2. BufferOrder(c)
    BY <2>1 DEF BufferOrder, ToSet
  <2>3. Held(c)
    BY <1>1, <1>2 DEF Held
  <2>4. \A s : Underway(c, s)
    BY <2>1 DEF Underway
  <2> QED BY <2>2, <2>3, <2>4 DEF Covered
<1> QED BY <1>3 DEF LossInv

LEMMA NextLoses == IInv /\ IInv' /\ LossInv /\ [Next]_vars => LossInv'
<1> SUFFICES ASSUME IInv, IInv', LossInv, [Next]_vars PROVE LossInv'
  OBVIOUS
<1>1. TypeOK'
  BY DEF IInv
<1>2. CASE UNCHANGED vars
  BY <1>2 DEF vars, LossInv, BufferOrder, Covered, Held, Underway, Queued
<1>3. CASE Next
  <2>1. CASE AppendEvent \/ DeleteOldest
    BY <1>1, <2>1, AppendLoss, DeleteLoss
  <2>2. ASSUME NEW p \in Procs, Claim(p) \/ Deliver(p) \/ DeliverFails(p) \/ Crash(p)
        PROVE  LossInv'
    BY <1>1, <2>2, ClaimLoss, DeliverLoss, FaultLoss
  <2>3. ASSUME NEW c \in Clients, SocketStep(c) PROVE LossInv'
    BY <1>1, <2>3, SocketLoss
  <2> QED BY <1>3, <2>1, <2>2, <2>3 DEF Next, SocketStep
<1> QED BY <1>2, <1>3

-----------------------------------------------------------------------------
(* The inductive invariant holds in every reachable state.                     *)
THEOREM StreamInvariance == Spec => []IInv
BY InitEstablishes, NextKeeps, PTL DEF Spec

(* The types: no row is dispatched twice, and no buffer outgrows MAX_LIVE_BUFFER, *)
(* for any number of processes whose claims skip each other's rows              *)
(* (events/outbox.ts, events/routes.ts).                                        *)
THEOREM StreamType == Spec => []TypeOK
<1>1. IInv => TypeOK BY DEF IInv
<1> QED BY <1>1, StreamInvariance, PTL

(* On a socket sequences only ever rise, whatever mixture of history, buffered *)
(* and live batches they came from (events/routes.ts).                         *)
THEOREM StreamRises == Spec => []NothingRepeated
<1>1. IInv => NothingRepeated
  <2> SUFFICES ASSUME IInv, NEW c \in Clients, NEW j \in DOMAIN wire[c],
                      wire[c][j].kind = "event"
               PROVE  /\ wire[c][j].seq <= sub[c].delivered
                      /\ \A i \in 1..(j - 1) :
                           wire[c][i].kind = "event" => wire[c][i].seq < wire[c][j].seq
    BY DEF NothingRepeated
  <2>1. TypeOK /\ PhaseInv(c) /\ LiveInv(c)
    BY DEF IInv, ClientInv
  <2>2. sub[c].phase = "live"
    BY <2>1 DEF PhaseInv
  <2>3. Orderly(wire[c], Base(wire[c], client[c].last), sub[c].delivered)
    BY <2>1, <2>2 DEF LiveInv
  <2>4. PICK l \in Nat : DOMAIN wire[c] = 1..l
    BY <2>1, FieldTypes, AsFunction
  <2>5. \A i \in 1..(j - 1) : i \in DOMAIN wire[c] /\ i < j
    BY <2>4
  <2> QED BY <2>3, <2>5 DEF Orderly
<1> QED BY <1>1, StreamInvariance, PTL

(* What the position read promised is sent: between the asked position and the *)
(* reported one nothing that is retained is missing (events/routes.ts).        *)
THEOREM ReplayLosesNothing == Spec => []ReplayIsComplete
<1>1. IInv => ReplayIsComplete
  BY DEF IInv, ClientInv, Replayed, ReplayIsComplete
<1> QED BY <1>1, StreamInvariance, PTL

(* Through crashes, failed reads, lost sockets, refreshes and deletions, and    *)
(* with any number of processes, every retained event up to a client's resume   *)
(* point is with its consumer or is one that a dispatcher let go past its open  *)
(* socket: replay, buffer, drain and reconnect lose nothing themselves          *)
(* (events/routes.ts).                                                          *)
THEOREM OnlyDispatchLoses == Spec => []LostOnlyInDispatch
<1>1. LossInv => LostOnlyInDispatch
  BY DEF LossInv, Covered, Held, LostOnlyInDispatch
<1>2. LossInv /\ IInv /\ IInv' /\ [Next]_vars => LossInv'
  BY NextLoses
<1> QED BY <1>1, <1>2, InitCovers, StreamInvariance, PTL DEF Spec

=============================================================================
