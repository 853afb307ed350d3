----------------------------- MODULE ListLemmas -----------------------------
(***************************************************************************)
(* Lists in which nothing is twice (the kernel's linked lists), and least  *)
(* elements of sets of numbers: what the operators of the models do with   *)
(* them.                                                                   *)
(***************************************************************************)
EXTENDS Integers, FiniteSets, Sequences, SequencesExt, FiniteSetsExt,
        FiniteSetTheorems, SequenceTheorems, TLAPS

\* A list_head is in one list at most, and there once.
Injective(s) == \A i, j \in DOMAIN s : s[i] = s[j] => i = j

\* A set of numbers has a least one.
LEMMA MinInSet ==
  ASSUME NEW S \in SUBSET Nat, S # {}
  PROVE  Min(S) \in S /\ \A x \in S : Min(S) <= x
  <1>1. PICK x \in S : \A y \in S : <<y, x>> \notin OpToRel(<, Nat)
    BY NatLessThanWellFounded, WFMin
  <1>2. \A y \in S : ~ (y < x)
    BY <1>1, Zenon DEF OpToRel
  <1>3. \A y \in S : x <= y
    BY <1>2
  <1> QED BY <1>3 DEF Min

\* The lower and the higher of two CPUs.
LEMMA MinPair ==
  ASSUME NEW a \in Nat, NEW b \in Nat
  PROVE  /\ Min({a, b}) = IF a <= b THEN a ELSE b
         /\ Max({a, b}) = IF a <= b THEN b ELSE a
  BY DEF Min, Max

\* What stays of a list without the element at place k.
LEMMA CutPlaces ==
  ASSUME NEW S, NEW s \in Seq(S), NEW k \in 1 .. Len(s)
  PROVE  LET r == SubSeq(s, 1, k - 1) \o SubSeq(s, k + 1, Len(s))
         IN  /\ r \in Seq(S)
             /\ Len(r) = Len(s) - 1
             /\ \A j \in 1 .. Len(s) - 1 : r[j] = IF j < k THEN s[j] ELSE s[j + 1]
  <1> DEFINE r == SubSeq(s, 1, k - 1) \o SubSeq(s, k + 1, Len(s))
  <1> DEFINE a == SubSeq(s, 1, k - 1)
             b == SubSeq(s, k + 1, Len(s))
  <1>1. a \in Seq(S) /\ Len(a) = k - 1 /\ \A j \in 1 .. k - 1 : a[j] = s[j]
    OBVIOUS
  <1>2. b \in Seq(S) /\ Len(b) = Len(s) - k /\ \A j \in 1 .. Len(s) - k : b[j] = s[k + j]
    OBVIOUS
  <1>3. r = a \o b
    OBVIOUS
  <1> HIDE DEF a, b, r
  <1>4. r \in Seq(S) /\ Len(r) = Len(s) - 1
    BY <1>1, <1>2, <1>3
  <1>5. ASSUME NEW j \in 1 .. Len(s) - 1 PROVE r[j] = IF j < k THEN s[j] ELSE s[j + 1]
    <2>1. CASE j < k
      BY <1>1, <1>2, <1>3, <2>1, ConcatProperties
    <2>2. CASE j >= k
      <3>1. j \in 1 .. Len(a) + Len(b) /\ j > Len(a)
        BY <1>1, <1>2, <2>2
      <3>2. (a \o b)[j] = b[j - Len(a)]
        BY <1>1, <1>2, <3>1, SMTT(30)
      <3>3. j - Len(a) \in 1 .. Len(s) - k /\ k + (j - Len(a)) = j + 1
        BY <1>1, <2>2
      <3>4. b[j - Len(a)] = s[k + (j - Len(a))]
        BY <1>2, <3>3
      <3>5. r[j] = s[j + 1]
        BY <1>3, <3>2, <3>3, <3>4
      <3> QED BY <2>2, <3>5
    <2> QED BY <2>1, <2>2
  <1> QED BY <1>4, <1>5 DEF r

\* list_del of the element at place k of the list.
LEMMA CutFacts ==
  ASSUME NEW S, NEW s \in Seq(S), NEW k \in 1 .. Len(s), Injective(s)
  PROVE  LET r == SubSeq(s, 1, k - 1) \o SubSeq(s, k + 1, Len(s))
         IN  r \in Seq(S) /\ ToSet(r) = ToSet(s) \ {s[k]} /\ Injective(r)
  <1> DEFINE r == SubSeq(s, 1, k - 1) \o SubSeq(s, k + 1, Len(s))
             t == s[k]
  <1>1. /\ r \in Seq(S)
        /\ Len(r) = Len(s) - 1
        /\ \A j \in 1 .. Len(s) - 1 : r[j] = IF j < k THEN s[j] ELSE s[j + 1]
    BY CutPlaces
  <1> HIDE DEF r
  <1>2. \A i \in 1 .. Len(s) : s[i] = t <=> i = k
    BY DEF Injective
  <1>3. Injective(r)
    <2> SUFFICES ASSUME NEW i \in 1 .. Len(s) - 1, NEW j \in 1 .. Len(s) - 1, r[i] = r[j] PROVE i = j
      BY <1>1 DEF Injective
    <2> DEFINE at(x) == IF x < k THEN x ELSE x + 1
    <2>1. at(i) \in 1 .. Len(s) /\ at(j) \in 1 .. Len(s) /\ s[at(i)] = s[at(j)]
      BY <1>1
    <2>2. at(i) = at(j)
      BY <2>1 DEF Injective
    <2> QED BY <2>2
  <1>4. ToSet(r) = ToSet(s) \ {t}
    <2>1. ASSUME NEW i \in 1 .. Len(s) - 1 PROVE r[i] \in ToSet(s) \ {t}
      BY <1>1, <1>2, SMTT(30) DEF ToSet
    <2>2. ASSUME NEW i \in 1 .. Len(s), s[i] # t PROVE s[i] \in ToSet(r)
      <3>1. CASE i < k
        BY <1>1, <3>1 DEF ToSet
      <3>2. CASE i > k
        <4>1. i - 1 \in 1 .. Len(s) - 1 /\ r[i - 1] = s[i]
          BY <1>1, <3>2
        <4> QED BY <1>1, <4>1 DEF ToSet
      <3> QED BY <2>2, <3>1, <3>2
    <2>3. DOMAIN r = 1 .. Len(s) - 1 /\ DOMAIN s = 1 .. Len(s)
      BY <1>1
    <2> QED BY <2>1, <2>2, <2>3 DEF ToSet
  <1> QED BY <1>1, <1>3, <1>4 DEF r

\* list_del cuts at the place of the element.
LEMMA RemoveFirstCuts ==
  ASSUME NEW S, NEW s \in Seq(S), NEW t \in ToSet(s)
  PROVE  \E k \in 1 .. Len(s) :
           s[k] = t /\ RemoveFirst(s, t) = SubSeq(s, 1, k - 1) \o SubSeq(s, k + 1, Len(s))
  <1> DEFINE I == {i \in 1 .. Len(s) : s[i] = t}
             k == Min(I)
  <1>1. I # {}
    BY DEF ToSet
  <1>2. k \in 1 .. Len(s) /\ s[k] = t
    <2>1. I \in SUBSET Nat
      OBVIOUS
    <2>2. k \in I
      BY <1>1, <2>1, MinInSet
    <2> QED BY <2>2
  <1>3. RemoveFirst(s, t) = SubSeq(s, 1, k - 1) \o SubSeq(s, k + 1, Len(s))
    BY <1>1 DEF RemoveFirst, RemoveAt, SelectInSeq
  <1> HIDE DEF k
  <1> QED BY <1>2, <1>3

\* list_del of an element that is in the list once.
LEMMA RemoveFirstFacts ==
  ASSUME NEW S, NEW s \in Seq(S), NEW t \in ToSet(s), Injective(s)
  PROVE  /\ RemoveFirst(s, t) \in Seq(S)
         /\ ToSet(RemoveFirst(s, t)) = ToSet(s) \ {t}
         /\ Injective(RemoveFirst(s, t))
  <1>1. PICK k \in 1 .. Len(s) :
          s[k] = t /\ RemoveFirst(s, t) = SubSeq(s, 1, k - 1) \o SubSeq(s, k + 1, Len(s))
    BY RemoveFirstCuts
  <1> QED BY <1>1, CutFacts

\* What is removed leaves the others in their order.
LEMMA RemoveFirstOrder ==
  ASSUME NEW S, NEW s \in Seq(S), NEW t \in ToSet(s), NEW i, NEW j,
         i \in DOMAIN RemoveFirst(s, t), j \in DOMAIN RemoveFirst(s, t), i < j
  PROVE  \E a, b \in DOMAIN s : a < b /\ RemoveFirst(s, t)[i] = s[a] /\ RemoveFirst(s, t)[j] = s[b]
  <1> DEFINE r == RemoveFirst(s, t)
  <1>0. PICK k \in 1 .. Len(s) :
          s[k] = t /\ RemoveFirst(s, t) = SubSeq(s, 1, k - 1) \o SubSeq(s, k + 1, Len(s))
    BY RemoveFirstCuts
  <1>1. /\ Len(r) = Len(s) - 1 /\ r \in Seq(S)
        /\ \A x \in 1 .. Len(s) - 1 : r[x] = IF x < k THEN s[x] ELSE s[x + 1]
    <2> DEFINE q == SubSeq(s, 1, k - 1) \o SubSeq(s, k + 1, Len(s))
    <2>1. /\ Len(q) = Len(s) - 1 /\ q \in Seq(S)
          /\ \A x \in 1 .. Len(s) - 1 : q[x] = IF x < k THEN s[x] ELSE s[x + 1]
      BY CutPlaces
    <2>2. r = q
      BY <1>0
    <2> HIDE DEF q, r
    <2> QED BY <2>1, <2>2
  <1> HIDE DEF r
  <1>2. i \in 1 .. Len(s) - 1 /\ j \in 1 .. Len(s) - 1
    BY <1>1 DEF r
  <1> DEFINE a == IF i < k THEN i ELSE i + 1
             b == IF j < k THEN j ELSE j + 1
  <1>3. a \in DOMAIN s /\ b \in DOMAIN s /\ a < b /\ r[i] = s[a] /\ r[j] = s[b]
    BY <1>1, <1>2, SMTT(60)
  <1> QED BY <1>3 DEF r

\* What is removed from behind the head leaves the head.
LEMMA RemoveFirstHead ==
  ASSUME NEW S, NEW s \in Seq(S), NEW t \in ToSet(s), t # s[1]
  PROVE  RemoveFirst(s, t) # <<>> /\ Head(RemoveFirst(s, t)) = s[1]
  <1>1. PICK k \in 1 .. Len(s) :
          s[k] = t /\ RemoveFirst(s, t) = SubSeq(s, 1, k - 1) \o SubSeq(s, k + 1, Len(s))
    BY RemoveFirstCuts
  <1> DEFINE q == SubSeq(s, 1, k - 1) \o SubSeq(s, k + 1, Len(s))
  <1>2. /\ Len(q) = Len(s) - 1 /\ q \in Seq(S)
        /\ \A x \in 1 .. Len(s) - 1 : q[x] = IF x < k THEN s[x] ELSE s[x + 1]
    BY CutPlaces
  <1> HIDE DEF q
  <1>3. k # 1 /\ 1 \in 1 .. Len(s) - 1
    BY <1>1
  <1>4. q # <<>> /\ Head(q) = s[1]
    BY <1>2, <1>3
  <1> QED BY <1>1, <1>4 DEF q

\* A set of places that holds whatever is before one of them is the beginning of the list.
LEMMA InitialSegment ==
  ASSUME NEW n \in Nat, NEW I \in SUBSET (1 .. n), \A i \in I, j \in 1 .. n : j < i => j \in I
  PROVE  Cardinality(I) \in 0 .. n /\ I = 1 .. Cardinality(I)
  <1> DEFINE C == (1 .. n + 1) \ I
             least == Min(C)
  <1>1. C # {} /\ C \in SUBSET Nat /\ n + 1 \in C
    <2>1. n + 1 \in C
      OBVIOUS
    <2> QED BY <2>1
  <1>2. least \in C /\ \A x \in C : least <= x
    BY <1>1, MinInSet
  <1> HIDE DEF least
  <1>3. I = 1 .. least - 1
    <2>0. least \in 1 .. n + 1 /\ least \notin I
      BY <1>2
    <2> HIDE DEF C
    <2>1. ASSUME NEW x \in I PROVE x \in 1 .. least - 1
      BY <2>0
    <2>2. ASSUME NEW x \in 1 .. least - 1 PROVE x \in I
      <3>1. x \notin C
        BY <1>2, <2>0
      <3> QED BY <2>0, <3>1 DEF C
    <2> QED BY <2>1, <2>2
  <1>4. Cardinality(I) = least - 1
    BY <1>2, <1>3, FS_Interval
  <1> QED BY <1>2, <1>3, <1>4

\* Insertion after the i-th element.
LEMMA InsertFacts ==
  ASSUME NEW S, NEW s \in Seq(S), NEW t \in S, NEW i \in 0 .. Len(s)
  PROVE  LET r == InsertAt(s, i + 1, t)
         IN  /\ r \in Seq(S) /\ Len(r) = Len(s) + 1
             /\ \A j \in 1 .. Len(s) + 1 :
                  r[j] = IF j <= i THEN s[j] ELSE IF j = i + 1 THEN t ELSE s[j - 1]
             /\ ToSet(r) = ToSet(s) \cup {t}
             /\ Injective(s) /\ t \notin ToSet(s) => Injective(r)
  <1> DEFINE r == InsertAt(s, i + 1, t)
             a == SubSeq(s, 1, i)
             b == SubSeq(s, i + 1, Len(s))
             q == a \o <<t>>
  <1>1. a \in Seq(S) /\ Len(a) = i /\ \A j \in 1 .. i : a[j] = s[j]
    OBVIOUS
  <1>2. b \in Seq(S) /\ Len(b) = Len(s) - i /\ \A j \in 1 .. Len(s) - i : b[j] = s[i + j]
    OBVIOUS
  <1>3. r = q \o b
    <2>1. (i + 1) - 1 = i
      OBVIOUS
    <2> QED BY <2>1 DEF InsertAt
  <1> HIDE DEF a, b, r
  <1>4. q \in Seq(S) /\ Len(q) = i + 1 /\ q[i + 1] = t /\ \A j \in 1 .. i : q[j] = s[j]
    <2> DEFINE u == <<t>>
    <2>1. u \in Seq(S) /\ Len(u) = 1 /\ u[1] = t
      OBVIOUS
    <2> HIDE DEF u
    <2>2. /\ a \o u \in Seq(S) /\ Len(a \o u) = i + 1
          /\ \A j \in 1 .. i + 1 : (a \o u)[j] = IF j <= i THEN a[j] ELSE u[j - i]
      <3>1. /\ a \o u \in Seq(S) /\ Len(a \o u) = Len(a) + Len(u)
            /\ \A j \in 1 .. Len(a) + Len(u) : (a \o u)[j] = IF j <= Len(a) THEN a[j] ELSE u[j - Len(a)]
        BY <1>1, <2>1, ConcatProperties
      <3> QED BY <1>1, <2>1, <3>1
    <2>3. (a \o u)[i + 1] = t
      BY <2>1, <2>2
    <2>4. q = a \o u
      BY DEF u
    <2> HIDE DEF q
    <2> QED BY <1>1, <2>2, <2>3, <2>4
  <1> HIDE DEF q
  <1>5. r \in Seq(S) /\ Len(r) = Len(s) + 1
    <2>1. r \in Seq(S) /\ Len(r) = Len(q) + Len(b)
      BY <1>2, <1>3, <1>4, ConcatProperties
    <2> QED BY <1>2, <1>4, <2>1
  <1>6. ASSUME NEW j \in 1 .. Len(s) + 1
        PROVE  r[j] = IF j <= i THEN s[j] ELSE IF j = i + 1 THEN t ELSE s[j - 1]
    <2>1. CASE j <= i + 1
      BY <1>2, <1>3, <1>4, <2>1, ConcatProperties
    <2>2. CASE j > i + 1
      <3>0. /\ Len(q) = i + 1 /\ Len(b) = Len(s) - i
            /\ Len(s) \in Nat /\ i \in Nat /\ i <= Len(s) /\ j \in Nat /\ j <= Len(s) + 1
        BY <1>2, <1>4
      <3>1. j - Len(q) \in 1 .. Len(s) - i /\ i + (j - Len(q)) = j - 1 /\ j \in 1 .. Len(q) + Len(b)
        <4> DEFINE n == Len(s)
                   m == Len(q)
                   o == Len(b)
        <4>1. /\ m = i + 1 /\ o = n - i /\ n \in Nat /\ i \in Nat /\ i <= n
              /\ j \in Nat /\ j <= n + 1 /\ j > i + 1
          BY <2>2, <3>0
        <4> HIDE DEF n, m, o
        <4>2. j - m \in 1 .. n - i /\ i + (j - m) = j - 1 /\ j \in 1 .. m + o
          BY <4>1
        <4> QED BY <4>2 DEF n, m, o
      <3>2. r[j] = b[j - Len(q)]
        BY <1>2, <1>3, <1>4, <2>2, <3>1, ConcatProperties, SMTT(30)
      <3>3. b[j - Len(q)] = s[i + (j - Len(q))]
        BY <1>2, <3>1
      <3> QED BY <2>2, <3>1, <3>2, <3>3
    <2> QED BY <2>1, <2>2
  <1>7. DOMAIN r = 1 .. Len(s) + 1 /\ DOMAIN s = 1 .. Len(s)
    BY <1>5
  <1>8. ToSet(r) = ToSet(s) \cup {t}
    <2>1. ASSUME NEW j \in 1 .. Len(s) + 1 PROVE r[j] \in ToSet(s) \cup {t}
      <3>1. r[j] = t \/ \E k \in 1 .. Len(s) : r[j] = s[k]
        BY <1>6
      <3> QED BY <1>7, <3>1 DEF ToSet
    <2>2. ASSUME NEW j \in 1 .. Len(s) PROVE s[j] \in ToSet(r)
      <3>1. CASE j <= i
        BY <1>6, <1>7, <3>1 DEF ToSet
      <3>2. CASE j > i
        <4>1. j + 1 \in 1 .. Len(s) + 1 /\ r[j + 1] = s[j]
          BY <1>6, <3>2
        <4> QED BY <1>7, <4>1 DEF ToSet
      <3> QED BY <3>1, <3>2
    <2>3. t \in ToSet(r)
      <3>1. i + 1 \in 1 .. Len(s) + 1 /\ r[i + 1] = t
        BY <1>6
      <3> QED BY <1>7, <3>1 DEF ToSet
    <2> QED BY <1>7, <2>1, <2>2, <2>3 DEF ToSet
  <1>9. ASSUME Injective(s), t \notin ToSet(s) PROVE Injective(r)
    <2> SUFFICES ASSUME NEW x \in 1 .. Len(s) + 1, NEW y \in 1 .. Len(s) + 1, r[x] = r[y] PROVE x = y
      BY <1>7 DEF Injective
    <2> DEFINE at(z) == IF z <= i THEN z ELSE z - 1
    <2>1. \A z \in 1 .. Len(s) + 1 : z # i + 1 => at(z) \in 1 .. Len(s) /\ r[z] = s[at(z)] /\ r[z] # t
      BY <1>6, <1>9 DEF ToSet
    <2>2. r[i + 1] = t
      BY <1>6
    <2>3. CASE x # i + 1 /\ y # i + 1
      <3>1. at(x) = at(y)
        BY <1>9, <2>1, <2>3 DEF Injective
      <3> QED BY <2>3, <3>1
    <2> QED BY <2>1, <2>2, <2>3
  <1> QED BY <1>5, <1>6, <1>8, <1>9 DEF r

\* list_add of an element that was in no list, and the splice of two lists.
LEMMA ConcatFacts ==
  ASSUME NEW S, NEW s \in Seq(S), NEW u \in Seq(S)
  PROVE  /\ s \o u \in Seq(S)
         /\ ToSet(s \o u) = ToSet(s) \cup ToSet(u)
         /\ Injective(s) /\ Injective(u) /\ ToSet(s) \cap ToSet(u) = {} => Injective(s \o u)
  <1>1. /\ s \o u \in Seq(S)
        /\ Len(s \o u) = Len(s) + Len(u)
        /\ \A i \in 1 .. Len(s) + Len(u) : (s \o u)[i] = IF i <= Len(s) THEN s[i] ELSE u[i - Len(s)]
    OBVIOUS
  <1>2. \A i \in 1 .. Len(s) : s[i] = (s \o u)[i] /\ i \in 1 .. Len(s \o u)
    BY <1>1
  <1>3. \A i \in 1 .. Len(u) : u[i] = (s \o u)[Len(s) + i] /\ Len(s) + i \in 1 .. Len(s \o u)
    BY <1>1
  <1>4. ToSet(s \o u) = ToSet(s) \cup ToSet(u)
    <2>1. ASSUME NEW i \in 1 .. Len(s \o u) PROVE (s \o u)[i] \in ToSet(s) \cup ToSet(u)
      <3>1. CASE i <= Len(s)
        BY <1>1, <3>1 DEF ToSet
      <3>2. CASE i > Len(s)
        <4>1. i - Len(s) \in 1 .. Len(u) /\ (s \o u)[i] = u[i - Len(s)]
          BY <1>1, <3>2
        <4> QED BY <4>1 DEF ToSet
      <3> QED BY <3>1, <3>2
    <2>2. DOMAIN (s \o u) = 1 .. Len(s \o u) /\ DOMAIN s = 1 .. Len(s) /\ DOMAIN u = 1 .. Len(u)
      BY <1>1
    <2>3. ASSUME NEW i \in 1 .. Len(u) PROVE u[i] \in ToSet(s \o u)
      BY <1>3, <2>2 DEF ToSet
    <2>4. ASSUME NEW i \in 1 .. Len(s) PROVE s[i] \in ToSet(s \o u)
      BY <1>2, <2>2 DEF ToSet
    <2> QED BY <2>1, <2>2, <2>3, <2>4 DEF ToSet
  <1>5. ASSUME Injective(s), Injective(u), ToSet(s) \cap ToSet(u) = {},
               NEW i \in 1 .. Len(s \o u), NEW j \in 1 .. Len(s \o u), (s \o u)[i] = (s \o u)[j]
        PROVE  i = j
    <2>1. CASE i <= Len(s) /\ j <= Len(s)
      BY <1>1, <1>5, <2>1 DEF Injective
    <2>2. CASE i > Len(s) /\ j > Len(s)
      <3>1. i - Len(s) \in 1 .. Len(u) /\ j - Len(s) \in 1 .. Len(u)
        BY <1>1, <2>2
      <3>2. u[i - Len(s)] = u[j - Len(s)]
        BY <1>1, <1>5, <2>2
      <3>3. i - Len(s) = j - Len(s)
        BY <3>1, <3>2, <1>5 DEF Injective
      <3> QED BY <3>3
    <2>3. ASSUME NEW x \in 1 .. Len(s), NEW y \in 1 .. Len(s \o u), y > Len(s)
          PROVE  (s \o u)[x] # (s \o u)[y]
      <3>1. (s \o u)[x] \in ToSet(s)
        BY <1>2 DEF ToSet
      <3>2. y - Len(s) \in 1 .. Len(u) /\ (s \o u)[y] = u[y - Len(s)]
        BY <1>1, <2>3
      <3>3. (s \o u)[y] \in ToSet(u)
        BY <3>2 DEF ToSet
      <3> QED BY <3>1, <3>3, <1>5
    <2> QED BY <1>5, <2>1, <2>2, <2>3
  <1> QED BY <1>1, <1>4, <1>5 DEF Injective

\* A list of one element.
LEMMA SingletonFacts ==
  ASSUME NEW S, NEW t \in S
  PROVE  <<t>> \in Seq(S) /\ ToSet(<<t>>) = {t} /\ Injective(<<t>>)
  BY DEF ToSet, Injective

\* The empty list.
LEMMA EmptyFacts ==
  ASSUME NEW S
  PROVE  <<>> \in Seq(S) /\ ToSet(<<>>) = {} /\ Injective(<<>>)
  BY DEF ToSet, Injective

\* list_add of one task.
LEMMA PrependFacts ==
  ASSUME NEW S, NEW t \in S, NEW u \in Seq(S), t \notin ToSet(u), Injective(u)
  PROVE  /\ <<t>> \o u \in Seq(S)
         /\ ToSet(<<t>> \o u) = {t} \cup ToSet(u)
         /\ Injective(<<t>> \o u)
  <1> DEFINE s == <<t>>
  <1>1. s \in Seq(S) /\ ToSet(s) = {t} /\ Injective(s)
    BY SingletonFacts
  <1> HIDE DEF s
  <1>2. ToSet(s) \cap ToSet(u) = {}
    BY <1>1
  <1>3. s \o u \in Seq(S) /\ ToSet(s \o u) = {t} \cup ToSet(u) /\ Injective(s \o u)
    BY <1>1, <1>2, ConcatFacts
  <1> QED BY <1>3 DEF s

\* list_move of the first element to the tail.
LEMMA RotateFacts ==
  ASSUME NEW S, NEW s \in Seq(S), s # <<>>
  PROVE  /\ Head(s) \in ToSet(s)
         /\ Append(Tail(s), Head(s)) \in Seq(S)
         /\ ToSet(Append(Tail(s), Head(s))) = ToSet(s)
         /\ Injective(s) => Injective(Append(Tail(s), Head(s)))
  <1> DEFINE r == Append(Tail(s), Head(s))
             n == Len(s)
  <1>1. /\ n \in Nat \ {0} /\ Head(s) = s[1]
        /\ r \in Seq(S) /\ Len(r) = n
        /\ \A i \in 1 .. n : r[i] = IF i = n THEN s[1] ELSE s[i + 1]
    OBVIOUS
  <1> HIDE DEF r
  <1>2. \A i \in 1 .. n : s[i] = IF i = 1 THEN r[n] ELSE r[i - 1]
    BY <1>1
  <1>3. DOMAIN r = 1 .. n /\ DOMAIN s = 1 .. n
    BY <1>1
  <1>4. ToSet(r) = ToSet(s)
    <2>1. ASSUME NEW i \in 1 .. n PROVE r[i] \in ToSet(s)
      <3>1. PICK j \in 1 .. n : r[i] = s[j]
        BY <1>1
      <3> QED BY <1>3, <3>1 DEF ToSet
    <2>2. ASSUME NEW i \in 1 .. n PROVE s[i] \in ToSet(r)
      <3>1. PICK j \in 1 .. n : s[i] = r[j]
        BY <1>1, <1>2
      <3> QED BY <1>3, <3>1 DEF ToSet
    <2> QED BY <1>3, <2>1, <2>2 DEF ToSet
  <1>5. Injective(s) => Injective(r)
    <2> SUFFICES ASSUME Injective(s), NEW i \in 1 .. n, NEW j \in 1 .. n, r[i] = r[j] PROVE i = j
      BY <1>3 DEF Injective
    <2> DEFINE at(x) == IF x = n THEN 1 ELSE x + 1
    <2>1. at(i) \in 1 .. n /\ at(j) \in 1 .. n /\ s[at(i)] = s[at(j)]
      BY <1>1
    <2>2. at(i) = at(j)
      BY <1>3, <2>1 DEF Injective
    <2> QED BY <1>1, <2>2
  <1>6. Head(s) \in ToSet(s)
    <2>1. Head(s) = s[1] /\ 1 \in DOMAIN s
      OBVIOUS
    <2> QED BY <2>1 DEF ToSet
  <1> QED BY <1>1, <1>4, <1>5, <1>6 DEF r

\* A list taken from its end.
LEMMA ReverseFacts ==
  ASSUME NEW S, NEW s \in Seq(S)
  PROVE  /\ Reverse(s) \in Seq(S)
         /\ ToSet(Reverse(s)) = ToSet(s)
         /\ Injective(s) => Injective(Reverse(s))
  <1> DEFINE n == Len(s)
             r == Reverse(s)
  <1>1. /\ n \in Nat /\ DOMAIN r = 1 .. n
        /\ \A i \in 1 .. n : r[i] = s[n - i + 1] /\ n - i + 1 \in 1 .. n
    BY DEF Reverse
  <1>2. r \in Seq(S) /\ Len(r) = n
    BY <1>1, IsASeq DEF Reverse
  <1> HIDE DEF r
  <1>3. \A i \in 1 .. n : s[i] = r[n - i + 1]
    BY <1>1
  <1>4. ToSet(r) = ToSet(s)
    BY <1>1, <1>3, SMTT(30) DEF ToSet
  <1>5. Injective(s) => Injective(r)
    <2> SUFFICES ASSUME Injective(s), NEW i \in 1 .. n, NEW j \in 1 .. n, r[i] = r[j] PROVE i = j
      BY <1>1 DEF Injective
    <2>1. s[n - i + 1] = s[n - j + 1] /\ n - i + 1 \in DOMAIN s /\ n - j + 1 \in DOMAIN s
      BY <1>1
    <2>2. n - i + 1 = n - j + 1
      BY <2>1 DEF Injective
    <2> QED BY <1>1, <2>2
  <1> QED BY <1>2, <1>4, <1>5 DEF r

\* Where nothing is twice, the length counts the elements.
LEMMA InjectiveCounts ==
  ASSUME NEW S, NEW s \in Seq(S), Injective(s)
  PROVE  Cardinality(ToSet(s)) = Len(s)
  <1>1. s \in Bijection(1 .. Len(s), ToSet(s))
    BY DEF Bijection, Injection, Surjection, IsInjective, ToSet, Injective
  <1> QED BY <1>1, FS_CountingElements DEF ExistsBijection
=============================================================================
