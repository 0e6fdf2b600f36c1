---------------------------- MODULE ListTheorems ----------------------------
(***************************************************************************)
(* Facts about the lists that the adapters keep, for the proofs about the  *)
(* task queue and the demo's API.                                          *)
(***************************************************************************)
EXTENDS Lists, SequencesExt, SequenceTheorems, FiniteSetTheorems, TLAPS

\* A set of numbers has a least element, and Min is it.
LEMMA MinIsLeast ==
  ASSUME NEW S \in SUBSET Nat, S # {}
  PROVE  Min(S) \in S /\ \A n \in S : Min(S) <= n
<1> DEFINE R == {ss \in Nat \X Nat : ss[1] < ss[2]}
<1>1. OpToRel(<, Nat) = R
  BY DEF OpToRel
<1>2. IsWellFoundedOn(R, Nat)
  BY <1>1, NatLessThanWellFounded
<1>3. PICK m \in S : \A n \in S : <<n, m>> \notin R
  <2> HIDE DEF R
  <2> QED
    BY <1>2, WFMin
<1>4. \A n \in S : m <= n
  <2> SUFFICES ASSUME NEW n \in S, n < m PROVE FALSE
    OBVIOUS
  <2>1. <<n, m>> \in R
    OBVIOUS
  <2> QED
    BY <1>3, <2>1
<1> QED
  BY <1>4 DEF Min

\* The numbers of a finite set are counted without a gap: Nth goes through all
\* of them, from the smallest to the largest.
LEMMA NthProperties ==
  ASSUME NEW N \in Nat, NEW stay \in SUBSET (1 .. N)
  PROVE  /\ Cardinality(stay) \in Nat
         /\ \A k \in 1 .. Cardinality(stay) : Nth(stay, k) \in stay
         /\ \A n \in stay : \E k \in 1 .. Cardinality(stay) : Nth(stay, k) = n
         /\ \A i, j \in 1 .. Cardinality(stay) : i < j => Nth(stay, i) < Nth(stay, j)
<1> DEFINE upto(n)  == {m \in stay : m <= n}
           rank(n)  == Cardinality(upto(n))
           C        == Cardinality(stay)
           f        == [n \in stay |-> rank(n)]
<1>0. \A n \in stay : n \in Nat
  OBVIOUS
<1>1. IsFiniteSet(stay) /\ C \in Nat
  <2>1. IsFiniteSet(1 .. N)
    BY FS_Interval
  <2> QED
    BY <2>1, FS_Subset, FS_CardinalityType
<1>2. ASSUME NEW n \in stay
      PROVE  rank(n) \in 1 .. C
  <2>1. upto(n) \in SUBSET stay /\ n \in upto(n)
    OBVIOUS
  <2>2. IsFiniteSet(upto(n)) /\ rank(n) <= C
    BY <1>1, <2>1, FS_Subset
  <2>3. rank(n) \in Nat /\ rank(n) # 0
    BY <2>1, <2>2, FS_CardinalityType, FS_EmptySet
  <2> QED
    BY <1>1, <2>2, <2>3
<1>3. ASSUME NEW m \in stay, NEW n \in stay, m < n
      PROVE  rank(m) < rank(n)
  <2>0. m \in Nat /\ n \in Nat /\ n <= n /\ ~(n <= m) /\ \A l \in stay : l <= m => l <= n
    BY <1>0, <1>3
  <2>1. upto(m) \subseteq upto(n) /\ n \in upto(n) /\ n \notin upto(m)
    BY <2>0
  <2>2. IsFiniteSet(upto(n))
    BY <1>1, FS_Subset
  <2>3. rank(m) <= rank(n) /\ rank(m) # rank(n)
    BY <2>1, <2>2, FS_Subset
  <2> QED
    BY <1>2, <2>3
<1>4. \A m, n \in stay : rank(m) = rank(n) => m = n
  <2> HIDE DEF rank
  <2> QED
    BY <1>2, <1>3
<1>5. \A k \in 1 .. C : \E n \in stay : rank(n) = k
  <2>1. f \in Injection(stay, 1 .. C)
    <3> HIDE DEF rank
    <3> QED
      BY <1>2, <1>4 DEF Injection, IsInjective
  <2>2. IsFiniteSet(1 .. C) /\ Cardinality(1 .. C) = C
    BY <1>1, FS_Interval
  <2>3. f \in Surjection(stay, 1 .. C)
    <3> HIDE DEF f
    <3> QED
      BY <2>1, <2>2, FS_Injection
  <2> QED
    <3> HIDE DEF rank
    <3> QED
      BY <2>3 DEF Surjection
<1>6. \A k \in 1 .. C : Nth(stay, k) \in stay /\ rank(Nth(stay, k)) = k
  BY <1>5 DEF Nth
<1> HIDE DEF rank, C
<1>7. \A n \in stay : rank(n) \in 1 .. C /\ Nth(stay, rank(n)) = n
  BY <1>2, <1>4, <1>6
<1>8. \A i, j \in 1 .. C : i < j => Nth(stay, i) < Nth(stay, j)
  <2> SUFFICES ASSUME NEW i \in 1 .. C, NEW j \in 1 .. C, i < j,
                      ~(Nth(stay, i) < Nth(stay, j))
               PROVE  FALSE
    OBVIOUS
  <2> DEFINE m == Nth(stay, i)
             n == Nth(stay, j)
  <2>1. m \in stay /\ n \in stay /\ rank(m) = i /\ rank(n) = j
    BY <1>6
  <2> HIDE DEF m, n
  <2>2. m \in Nat /\ n \in Nat /\ ~(m < n)
    BY <1>0, <2>1 DEF m, n
  <2>3. i \in Nat /\ j \in Nat
    BY <1>1
  <2>4. CASE m = n
    BY <2>1, <2>3, <2>4
  <2>5. CASE n < m
    <3>1. rank(n) < rank(m)
      BY <1>3, <2>1, <2>5
    <3> QED
      BY <2>1, <2>3, <3>1
  <2> QED
    BY <2>2, <2>4, <2>5
<1> QED
  BY <1>1, <1>6, <1>7, <1>8 DEF C

\* Nth is the only way to go through a set in increasing order.
LEMMA NthIsTheOrder ==
  ASSUME NEW N \in Nat, NEW L \in Nat, NEW f \in [1 .. L -> 1 .. N],
         \A i, j \in 1 .. L : i < j => f[i] < f[j]
  PROVE  /\ Cardinality({f[i] : i \in 1 .. L}) = L
         /\ \A k \in 1 .. L : Nth({f[i] : i \in 1 .. L}, k) = f[k]
<1> DEFINE stay    == {f[i] : i \in 1 .. L}
           upto(n) == {m \in stay : m <= n}
<1>1. \A i, j \in 1 .. L : f[i] = f[j] => i = j
  OBVIOUS
<1>2. ASSUME NEW k \in 0 .. L
      PROVE  Cardinality({f[i] : i \in 1 .. k}) = k
  <2> DEFINE g == [i \in 1 .. k |-> f[i]]
             T == {f[i] : i \in 1 .. k}
  <2>1. g \in Bijection(1 .. k, T)
    BY <1>1 DEF Bijection, Injection, Surjection, IsInjective
  <2>2. IsFiniteSet(1 .. k) /\ Cardinality(1 .. k) = k
    BY FS_Interval
  <2>3. ExistsBijection(1 .. k, T)
    BY <2>1 DEF ExistsBijection
  <2> QED
    BY <2>2, <2>3, FS_Bijection
<1>3. ASSUME NEW k \in 1 .. L
      PROVE  Cardinality(upto(f[k])) = k
  <2>1. upto(f[k]) = {f[i] : i \in 1 .. k}
    OBVIOUS
  <2>2. k \in 0 .. L
    OBVIOUS
  <2>3. Cardinality({f[i] : i \in 1 .. k}) = k
    BY <1>2, <2>2
  <2> HIDE DEF upto
  <2> QED
    BY <2>1, <2>3
<1>4. ASSUME NEW k \in 1 .. L
      PROVE  Nth(stay, k) = f[k]
  <2> HIDE DEF upto
  <2>1. f[k] \in stay /\ Cardinality(upto(f[k])) = k
    BY <1>3
  <2>2. \A n \in stay : Cardinality(upto(n)) = k => n = f[k]
    BY <1>3
  <2>3. Nth(stay, k) = CHOOSE n \in stay : Cardinality(upto(n)) = k
    BY DEF Nth, upto
  <2> HIDE DEF stay
  <2> QED
    BY <2>1, <2>2, <2>3
<1>5. Cardinality(stay) = L
  BY <1>2
<1> QED
  BY <1>4, <1>5

\* Keep leaves the elements at the places of stay, and leaves them in order.
LEMMA KeepProperties ==
  ASSUME NEW S, NEW list \in Seq(S), NEW stay \in SUBSET (DOMAIN list)
  PROVE  /\ Keep(list, stay) \in Seq(S)
         /\ ToSet(Keep(list, stay)) = {list[n] : n \in stay}
         /\ \A i, j \in DOMAIN Keep(list, stay) : i < j =>
              \E m, n \in stay : /\ m < n
                                 /\ Keep(list, stay)[i] = list[m]
                                 /\ Keep(list, stay)[j] = list[n]
<1> DEFINE C == Cardinality(stay)
           K == Keep(list, stay)
<1>1. stay \in SUBSET (1 .. Len(list)) /\ Len(list) \in Nat
  BY LenProperties
<1>2. /\ C \in Nat
      /\ \A k \in 1 .. C : Nth(stay, k) \in stay
      /\ \A n \in stay : \E k \in 1 .. C : Nth(stay, k) = n
      /\ \A i, j \in 1 .. C : i < j => Nth(stay, i) < Nth(stay, j)
  BY <1>1, NthProperties
<1>3. K = [k \in 1 .. C |-> list[Nth(stay, k)]]
  BY DEF Keep
<1> HIDE DEF C, K
<1>4. \A n \in stay : list[n] \in S
  BY <1>1, ElementOfSeq
<1>5. K \in Seq(S)
  BY <1>2, <1>3, <1>4, SeqDef
<1>6. ToSet(K) = {list[n] : n \in stay}
  BY <1>2, <1>3 DEF ToSet
<1>7. ASSUME NEW i \in DOMAIN K, NEW j \in DOMAIN K, i < j
      PROVE  \E m, n \in stay : m < n /\ K[i] = list[m] /\ K[j] = list[n]
  BY <1>2, <1>3, <1>7
<1> QED
  BY <1>5, <1>6, <1>7 DEF K

\* To keep the places that an increasing list names is to look them up in turn.
LEMMA KeepIsLookup ==
  ASSUME NEW list, NEW N \in Nat, NEW ids \in Seq(1 .. N),
         \A m, n \in DOMAIN ids : m < n => ids[m] < ids[n]
  PROVE  Keep(list, ToSet(ids)) = [k \in DOMAIN ids |-> list[ids[k]]]
<1>1. DOMAIN ids = 1 .. Len(ids) /\ Len(ids) \in Nat
  BY LenProperties
<1>2. ids \in [1 .. Len(ids) -> 1 .. N]
  BY <1>1, LenProperties, ElementOfSeq
<1>3. ToSet(ids) = {ids[i] : i \in 1 .. Len(ids)}
  BY <1>1 DEF ToSet
<1>4. \A i, j \in 1 .. Len(ids) : i < j => ids[i] < ids[j]
  BY <1>1
<1>5. Len(ids) \in Nat /\ N \in Nat
  BY <1>1
<1>6. /\ Cardinality({ids[i] : i \in 1 .. Len(ids)}) = Len(ids)
      /\ \A k \in 1 .. Len(ids) : Nth({ids[i] : i \in 1 .. Len(ids)}, k) = ids[k]
  BY ONLY <1>2, <1>4, <1>5, NthIsTheOrder
<1>7. /\ Cardinality(ToSet(ids)) = Len(ids)
      /\ \A k \in 1 .. Len(ids) : Nth(ToSet(ids), k) = ids[k]
  BY <1>3, <1>6
<1> QED
  BY <1>1, <1>7 DEF Keep

\* The members of two lists put together.
LEMMA ToSetConcat ==
  ASSUME NEW S, NEW a \in Seq(S), NEW b \in Seq(S)
  PROVE  a \o b \in Seq(S) /\ ToSet(a \o b) = ToSet(a) \cup ToSet(b)
<1> DEFINE m == Len(a)
           n == Len(b)
<1>1. /\ m \in Nat /\ DOMAIN a = 1 .. m
      /\ n \in Nat /\ DOMAIN b = 1 .. n
  BY LenProperties
<1>2. /\ a \o b \in Seq(S)
      /\ Len(a \o b) = m + n
      /\ \A i \in 1 .. m + n : (a \o b)[i] = IF i <= m THEN a[i] ELSE b[i - m]
  BY ConcatProperties
<1>3. DOMAIN (a \o b) = 1 .. m + n
  BY <1>2, LenProperties
<1> HIDE DEF m, n
<1>4. \A i \in 1 .. m + n : i \in 1 .. m \/ (i - m \in 1 .. n /\ ~(i <= m))
  BY <1>1
<1>5. ToSet(a \o b) \subseteq ToSet(a) \cup ToSet(b)
  BY <1>1, <1>2, <1>3, <1>4 DEF ToSet
<1>6. ASSUME NEW i \in 1 .. m
      PROVE  a[i] \in ToSet(a \o b)
  <2>1. i \in 1 .. m + n /\ i <= m
    BY <1>1
  <2> QED
    BY <1>2, <1>3, <2>1 DEF ToSet
<1>7. ASSUME NEW j \in 1 .. n
      PROVE  b[j] \in ToSet(a \o b)
  <2>1. m + j \in 1 .. m + n /\ ~(m + j <= m) /\ (m + j) - m = j
    BY <1>1
  <2>2. (a \o b)[m + j] = b[j]
    BY <1>2, <2>1
  <2> QED
    BY <1>3, <2>1, <2>2 DEF ToSet
<1>8. ToSet(a) \cup ToSet(b) \subseteq ToSet(a \o b)
  BY <1>1, <1>6, <1>7 DEF ToSet
<1> QED
  BY <1>2, <1>5, <1>8

\* Counting up from 1 reaches every number of the interval.
LEMMA CountUp ==
  ASSUME NEW N \in Nat, NEW K,
         N >= 1 => 1 \in K,
         \A k \in 1 .. N - 1 : k \in K => k + 1 \in K
  PROVE  1 .. N \subseteq K
<1> DEFINE gaps == (1 .. N) \ K
<1> SUFFICES ASSUME gaps # {} PROVE FALSE
  OBVIOUS
<1>1. gaps \in SUBSET Nat
  OBVIOUS
<1>2. Min(gaps) \in gaps /\ \A n \in gaps : Min(gaps) <= n
  <2> HIDE DEF gaps
  <2> QED
    BY <1>1, MinIsLeast
<1> DEFINE m == Min(gaps)
<1>3. m \in 1 .. N /\ m \notin K
  BY <1>2
<1>4. m # 1
  BY <1>3
<1> HIDE DEF m
<1>5. m - 1 \in 1 .. N - 1 /\ m = (m - 1) + 1 /\ ~(m <= m - 1)
  BY <1>3, <1>4
<1>6. m - 1 \notin K
  BY <1>3, <1>5
<1>7. m - 1 \in gaps
  BY <1>5, <1>6
<1> HIDE DEF gaps
<1> QED
  BY <1>2, <1>5, <1>7 DEF m

\* Two lists without a repetition and with nothing in common, put together.
LEMMA InjectiveConcat ==
  ASSUME NEW S, NEW a \in Seq(S), NEW b \in Seq(S),
         IsInjective(a), IsInjective(b), ToSet(a) \cap ToSet(b) = {}
  PROVE  IsInjective(a \o b)
<1> DEFINE m == Len(a)
           n == Len(b)
<1>1. /\ m \in Nat /\ DOMAIN a = 1 .. m
      /\ n \in Nat /\ DOMAIN b = 1 .. n
  BY LenProperties
<1>2. /\ DOMAIN (a \o b) = 1 .. m + n
      /\ \A i \in 1 .. m + n : (a \o b)[i] = IF i <= m THEN a[i] ELSE b[i - m]
  BY ConcatProperties, LenProperties
<1> DEFINE c == a \o b
<1> HIDE DEF m, n, c
<1>3. /\ \A i \in 1 .. m + n : i <= m => i \in 1 .. m
      /\ \A i \in 1 .. m + n : ~(i <= m) => i - m \in 1 .. n
      /\ \A i, j \in 1 .. m + n : i - m = j - m => i = j
  BY <1>1
<1>4. \A i \in 1 .. m, j \in 1 .. n : a[i] # b[j]
  BY <1>1 DEF ToSet
<1>5. ASSUME NEW i \in 1 .. m + n, NEW j \in 1 .. m + n, c[i] = c[j]
      PROVE  i = j
  <2>1. CASE i <= m /\ j <= m
    BY <1>1, <1>2, <1>3, <1>5, <2>1 DEF c, IsInjective
  <2>2. CASE ~(i <= m) /\ ~(j <= m)
    <3>1. b[i - m] = b[j - m] /\ i - m \in DOMAIN b /\ j - m \in DOMAIN b
      BY <1>1, <1>2, <1>3, <1>5, <2>2 DEF c
    <3> QED
      BY <1>3, <3>1 DEF IsInjective
  <2>3. CASE i <= m /\ ~(j <= m)
    BY <1>2, <1>3, <1>4, <1>5, <2>3 DEF c
  <2>4. CASE ~(i <= m) /\ j <= m
    BY <1>2, <1>3, <1>4, <1>5, <2>4 DEF c
  <2> QED
    BY <2>1, <2>2, <2>3, <2>4
<1> QED
  BY <1>2, <1>5 DEF c, IsInjective

\* What is kept of a list without a repetition has none.
LEMMA InjectiveKeep ==
  ASSUME NEW S, NEW list \in Seq(S), NEW stay \in SUBSET (DOMAIN list), IsInjective(list)
  PROVE  IsInjective(Keep(list, stay))
<1> DEFINE K == Keep(list, stay)
<1>1. K \in Seq(S)
  BY KeepProperties
<1>2. \A i, j \in DOMAIN K : i < j =>
        \E m, n \in stay : m < n /\ K[i] = list[m] /\ K[j] = list[n]
  BY KeepProperties
<1>3. DOMAIN K = 1 .. Len(K) /\ Len(K) \in Nat
  BY <1>1, LenProperties
<1> HIDE DEF K
<1>4. stay \subseteq Nat
  <2>1. DOMAIN list = 1 .. Len(list)
    BY LenProperties
  <2> QED
    BY <2>1
<1>5. ASSUME NEW i \in DOMAIN K, NEW j \in DOMAIN K, i < j
      PROVE  K[i] # K[j]
  <2>1. PICK m \in stay, n \in stay : m < n /\ K[i] = list[m] /\ K[j] = list[n]
    BY <1>2, <1>5
  <2>2. m # n
    BY <1>4, <2>1
  <2> QED
    BY <2>1, <2>2 DEF IsInjective
<1>6. \A i, j \in DOMAIN K : i = j \/ i < j \/ j < i
  BY <1>3
<1> QED
  BY <1>5, <1>6 DEF IsInjective, K

\* The lists in a list, put together: what is in the result, and that it has no
\* repetition if none of the lists has one and no two have anything in common.
LEMMA FlattenSeqProperties ==
  ASSUME NEW S, NEW ss \in Seq(Seq(S))
  PROVE  /\ FlattenSeq(ss) \in Seq(S)
         /\ ToSet(FlattenSeq(ss)) = UNION {ToSet(ss[i]) : i \in DOMAIN ss}
         /\ (/\ \A i \in DOMAIN ss : IsInjective(ss[i])
             /\ \A i, j \in DOMAIN ss : i # j => ToSet(ss[i]) \cap ToSet(ss[j]) = {})
            => IsInjective(FlattenSeq(ss))
<1> DEFINE N       == Len(ss)
           Fits(f, k) == f = [i \in 1 .. k |-> IF i = 1 THEN ss[i] ELSE f[i - 1] \o ss[i]]
           flatten == CHOOSE f : Fits(f, N)
           upto(k) == UNION {ToSet(ss[i]) : i \in 1 .. k}
<1>1. N \in Nat /\ DOMAIN ss = 1 .. N /\ \A i \in 1 .. N : ss[i] \in Seq(S)
  BY LenProperties, ElementOfSeq
<1>2. CASE N = 0
  <2>1. ss = <<>> /\ DOMAIN ss = {}
    BY <1>1, <1>2, EmptySeq
  <2>2. FlattenSeq(ss) = <<>>
    BY <1>2, <2>1 DEF FlattenSeq
  <2>3. <<>> \in Seq(S) /\ ToSet(<<>>) = {} /\ IsInjective(<<>>)
    BY EmptySeq DEF ToSet, IsInjective
  <2> QED
    BY <2>1, <2>2, <2>3
<1>3. CASE N # 0
  <2>0. N \in Nat \ {0}
    BY <1>1, <1>3
  <2>1. FlattenSeq(ss) = flatten[N]
    BY <1>3 DEF FlattenSeq
  <2> HIDE DEF N
\* The recursive function exists: it is written down up to 1, and then on.
  <2>2. \E f : Fits(f, N)
    <3> DEFINE K == {k \in Nat : \E f : Fits(f, k)}
    <3>1. 1 \in K
      <4> DEFINE f == [i \in 1 .. 1 |-> ss[i]]
      <4>1. Fits(f, 1)
        OBVIOUS
      <4> QED
        BY <4>1
    <3>2. ASSUME NEW k \in 1 .. N - 1, k \in K PROVE k + 1 \in K
      <4>1. PICK f : Fits(f, k)
        BY <3>2
      <4> DEFINE g == [i \in 1 .. k + 1 |-> IF i <= k THEN f[i] ELSE f[k] \o ss[k + 1]]
      <4>2. \A i \in 1 .. k : f[i] = IF i = 1 THEN ss[i] ELSE f[i - 1] \o ss[i]
        BY <4>1
      <4>3. ASSUME NEW i \in 1 .. k + 1
            PROVE  g[i] = IF i = 1 THEN ss[i] ELSE g[i - 1] \o ss[i]
        <5>1. CASE i = k + 1
          <6>1. ~(i <= k) /\ i # 1 /\ i - 1 = k /\ k \in 1 .. k + 1 /\ k <= k
            BY <2>0, <5>1
          <6>2. g[i] = f[k] \o ss[k + 1]
            BY <6>1
          <6>3. g[k] = f[k]
            BY <6>1
          <6> QED
            BY <5>1, <6>1, <6>2, <6>3
        <5>2. CASE i # k + 1
          <6>1. i <= k /\ i \in 1 .. k
            BY <2>0, <5>2
          <6>2. i # 1 => i - 1 \in 1 .. k + 1 /\ i - 1 <= k
            BY <2>0, <6>1
          <6>3. g[i] = f[i] /\ (i # 1 => g[i - 1] = f[i - 1])
            BY <6>1, <6>2
          <6> QED
            BY <4>2, <6>1, <6>3
        <5> QED
          BY <5>1, <5>2
      <4>4. g = [i \in 1 .. k + 1 |-> g[i]]
        OBVIOUS
      <4> HIDE DEF g
      <4>5. Fits(g, k + 1)
        BY <4>3, <4>4
      <4>6. k + 1 \in Nat
        BY <2>0
      <4> HIDE DEF Fits
      <4> QED
        BY <4>5, <4>6
    <3> HIDE DEF K
    <3>3. 1 .. N \subseteq K
      BY <2>0, <3>1, <3>2, CountUp
    <3>4. N \in K
      BY <2>0, <3>3
    <3> HIDE DEF Fits
    <3> QED
      BY <3>4 DEF K
  <2>3. \A i \in 1 .. N : flatten[i] = IF i = 1 THEN ss[i] ELSE flatten[i - 1] \o ss[i]
    <3>1. Fits(flatten, N)
      BY <2>2
    <3> HIDE DEF flatten
    <3> QED
      BY <3>1
  <2> HIDE DEF flatten
  <2> DEFINE F == {k \in 1 .. N : flatten[k] \in Seq(S) /\ ToSet(flatten[k]) = upto(k)}
  <2>4. 1 .. N \subseteq F
    <3>1. 1 \in F
      <4>1. 1 \in 1 .. N /\ 1 .. 1 = {1}
        BY <2>0
      <4>2. flatten[1] = ss[1] /\ ss[1] \in Seq(S)
        BY <1>1, <2>3, <4>1
      <4>3. upto(1) = ToSet(ss[1])
        BY <4>1
      <4> HIDE DEF upto
      <4> QED
        BY <4>1, <4>2, <4>3
    <3>2. ASSUME NEW k \in 1 .. N - 1, k \in F PROVE k + 1 \in F
      <4>1. k + 1 \in 1 .. N /\ k + 1 # 1 /\ (k + 1) - 1 = k
        BY <2>0
      <4>2. flatten[k + 1] = flatten[k] \o ss[k + 1]
        BY <2>3, <4>1
      <4>3. ss[k + 1] \in Seq(S) /\ flatten[k] \in Seq(S) /\ ToSet(flatten[k]) = upto(k)
        BY <1>1, <3>2, <4>1
      <4>4. upto(k + 1) = upto(k) \cup ToSet(ss[k + 1])
        <5>1. 1 .. k + 1 = (1 .. k) \cup {k + 1}
          BY <2>0
        <5> QED
          BY <5>1
      <4> HIDE DEF upto
      <4>5. /\ flatten[k] \o ss[k + 1] \in Seq(S)
            /\ ToSet(flatten[k] \o ss[k + 1]) = upto(k + 1)
        <5> DEFINE a == flatten[k]
                   b == ss[k + 1]
        <5>1. a \in Seq(S) /\ b \in Seq(S)
          BY <4>3
        <5> HIDE DEF a, b
        <5>2. a \o b \in Seq(S) /\ ToSet(a \o b) = ToSet(a) \cup ToSet(b)
          BY ONLY <5>1, ToSetConcat
        <5> QED
          BY <4>3, <4>4, <5>2 DEF a, b
      <4> QED
        BY <4>1, <4>2, <4>5
    <3> HIDE DEF F
    <3> QED
      BY <2>0, <3>1, <3>2, CountUp
  <2>5. N \in 1 .. N /\ flatten[N] \in Seq(S) /\ ToSet(flatten[N]) = upto(N)
    <3> HIDE DEF upto
    <3> QED
      BY <2>0, <2>4
  <2>6. ASSUME \A i \in 1 .. N : IsInjective(ss[i]),
               \A i, j \in 1 .. N : i # j => ToSet(ss[i]) \cap ToSet(ss[j]) = {}
        PROVE  IsInjective(flatten[N])
    <3> DEFINE I == {k \in 1 .. N : IsInjective(flatten[k])}
    <3>1. 1 \in I
      BY <2>0, <2>3, <2>6
    <3>2. ASSUME NEW k \in 1 .. N - 1, k \in I PROVE k + 1 \in I
      <4>1. k \in 1 .. N /\ k + 1 \in 1 .. N /\ k + 1 # 1 /\ (k + 1) - 1 = k
        BY <2>0
      <4>2. flatten[k + 1] = flatten[k] \o ss[k + 1]
        BY <2>3, <4>1
      <4>3. ss[k + 1] \in Seq(S) /\ flatten[k] \in Seq(S) /\ ToSet(flatten[k]) = upto(k)
        BY <1>1, <2>4, <4>1
      <4>4. upto(k) \cap ToSet(ss[k + 1]) = {}
        <5>1. \A i \in 1 .. k : i \in 1 .. N /\ i # k + 1
          BY <2>0
        <5>2. \A i \in 1 .. k : ToSet(ss[i]) \cap ToSet(ss[k + 1]) = {}
          BY <2>6, <4>1, <5>1
        <5> QED
          BY <5>2
      <4> HIDE DEF upto
      <4>5. IsInjective(flatten[k]) /\ IsInjective(ss[k + 1])
        BY <2>6, <3>2, <4>1
      <4>6. IsInjective(flatten[k] \o ss[k + 1])
        BY <4>3, <4>4, <4>5, InjectiveConcat
      <4> QED
        BY <4>1, <4>2, <4>6
    <3> HIDE DEF I
    <3>3. 1 .. N \subseteq I
      BY <2>0, <3>1, <3>2, CountUp
    <3> QED
      BY <2>5, <3>3 DEF I
  <2> QED
    BY <1>1, <2>1, <2>5, <2>6
<1> QED
  BY <1>2, <1>3
=============================================================================
