--------------------------- MODULE TaskQueueProofs ---------------------------
(***************************************************************************)
(* Theorems about TaskQueue, for any numbers of callers and tasks and any  *)
(* delays: what holds however calls overlap, and what holds in addition    *)
(* behind a filesystem adapter that never suspends, where the queue        *)
(* implements TaskContract.                                                *)
(***************************************************************************)
EXTENDS TaskQueue, ListTheorems

-----------------------------------------------------------------------------
(* Sets of numbers, and lists.                                             *)

\* A set of positive numbers without gaps is an interval.
LEMMA GaplessIsInterval ==
  ASSUME NEW N \in Nat, NEW S \in SUBSET (1 .. N),
         \A m, n \in 1 .. N : m < n /\ n \in S => m \in S
  PROVE  Cardinality(S) \in 0 .. N /\ S = 1 .. Cardinality(S)
<1>1. IsFiniteSet(1 .. N) /\ Cardinality(1 .. N) = N
  BY FS_Interval
<1>2. IsFiniteSet(S) /\ Cardinality(S) <= N
  BY <1>1, FS_Subset
<1>3. Cardinality(S) \in 0 .. N
  BY <1>2, FS_CardinalityType
<1>4. ASSUME NEW n \in S
      PROVE  n \in 1 .. Cardinality(S)
  <2>1. 1 .. n \in SUBSET S
    OBVIOUS
  <2>2. Cardinality(1 .. n) <= Cardinality(S)
    BY <1>2, <2>1, FS_Subset
  <2>3. Cardinality(1 .. n) = n
    BY FS_Interval
  <2> QED
    BY <1>3, <2>2, <2>3
<1>5. IsFiniteSet(1 .. Cardinality(S)) /\ Cardinality(1 .. Cardinality(S)) = Cardinality(S)
  BY <1>3, FS_Interval
<1>6. S \in SUBSET (1 .. Cardinality(S))
  BY <1>4
<1>7. S = 1 .. Cardinality(S)
  BY <1>5, <1>6, FS_Subset
<1> QED
  BY <1>3, <1>7

\* Two lists in order, the first before the second, make a list in order.
LEMMA ConcatLists ==
  ASSUME NEW a \in Seq(Nat), NEW b \in Seq(Nat)
  PROVE  /\ ToSet(a \o b) = ToSet(a) \cup ToSet(b)
         /\ InOrder(a) /\ InOrder(b) /\ AllBefore(ToSet(a), ToSet(b)) => InOrder(a \o b)
<1> DEFINE m == Len(a)
           n == Len(b)
<1>1. m \in Nat /\ n \in Nat /\ DOMAIN a = 1 .. m /\ DOMAIN b = 1 .. n
  BY LenProperties
<1>2. DOMAIN (a \o b) = 1 .. m + n
  BY ConcatProperties, LenProperties
<1>3. \A i \in 1 .. m : (a \o b)[i] = a[i]
  BY <1>1, ConcatProperties
<1>4. \A j \in 1 .. n : (a \o b)[m + j] = b[j]
  BY <1>1, ConcatProperties
<1>5. \A i \in 1 .. m + n : i \in 1 .. m \/ (i - m \in 1 .. n /\ i = m + (i - m))
  BY <1>1
<1> HIDE DEF m, n
<1>6. \A i \in 1 .. m : i \in 1 .. m + n
  BY <1>1
<1>7. \A j \in 1 .. n : m + j \in 1 .. m + n
  BY <1>1
<1>8. ToSet(a \o b) \subseteq ToSet(a) \cup ToSet(b)
  <2> SUFFICES ASSUME NEW i \in 1 .. m + n
               PROVE  (a \o b)[i] \in ToSet(a) \cup ToSet(b)
    BY <1>2 DEF ToSet
  <2>1. CASE i \in 1 .. m
    BY <1>1, <1>3, <2>1 DEF ToSet
  <2>2. CASE i - m \in 1 .. n /\ i = m + (i - m)
    BY <1>1, <1>4, <2>2 DEF ToSet
  <2> QED
    BY <1>5, <2>1, <2>2
<1>9. ToSet(a) \cup ToSet(b) \subseteq ToSet(a \o b)
  BY <1>1, <1>2, <1>3, <1>4, <1>6, <1>7 DEF ToSet
<1>10. ASSUME InOrder(a), InOrder(b), AllBefore(ToSet(a), ToSet(b))
       PROVE  InOrder(a \o b)
  <2> SUFFICES ASSUME NEW i \in 1 .. m + n, NEW j \in 1 .. m + n, i < j
               PROVE  (a \o b)[i] < (a \o b)[j]
    BY <1>2 DEF InOrder
  <2>1. CASE i \in 1 .. m /\ j \in 1 .. m
    BY <1>1, <1>3, <1>10, <2>1 DEF InOrder
  <2>2. CASE i \in 1 .. m /\ j - m \in 1 .. n /\ j = m + (j - m)
    <3>1. a[i] \in ToSet(a) /\ b[j - m] \in ToSet(b)
      BY <1>1, <2>2 DEF ToSet
    <3>2. (a \o b)[i] = a[i] /\ (a \o b)[j] = b[j - m]
      BY <1>3, <1>4, <2>2
    <3> QED
      BY <1>10, <3>1, <3>2 DEF AllBefore
  <2>3. CASE i - m \in 1 .. n /\ i = m + (i - m) /\ j - m \in 1 .. n /\ j = m + (j - m)
    <3>1. b[i - m] < b[j - m]
      BY <1>1, <1>10, <2>3 DEF InOrder
    <3>2. (a \o b)[i] = b[i - m] /\ (a \o b)[j] = b[j - m]
      BY <1>4, <2>3
    <3> QED
      BY <3>1, <3>2
  <2> QED
    BY <1>1, <1>5, <2>1, <2>2, <2>3
<1> QED
  BY <1>8, <1>9, <1>10

\* The same for a list and one more element.
LEMMA AppendToList ==
  ASSUME NEW a \in Seq(Nat), NEW e \in Nat
  PROVE  /\ ToSet(Append(a, e)) = ToSet(a) \cup {e}
         /\ InOrder(a) /\ (\A s \in ToSet(a) : s < e) => InOrder(Append(a, e))
<1>1. Append(a, e) = a \o <<e>> /\ <<e>> \in Seq(Nat)
  BY AppendIsConcat
<1>2. ToSet(<<e>>) = {e} /\ InOrder(<<e>>)
  BY DEF ToSet, InOrder
<1> QED
  BY <1>1, <1>2, ConcatLists DEF AllBefore

\* A part of a list in order.
LEMMA PartOfList ==
  ASSUME NEW s \in Seq(Objects), NEW m \in 1 .. Len(s) + 1, NEW n \in m - 1 .. Len(s)
  PROVE  /\ SubSeq(s, m, n) \in Seq(Objects)
         /\ Len(SubSeq(s, m, n)) = n - m + 1
         /\ ToSet(SubSeq(s, m, n)) = {s[i] : i \in m .. n}
         /\ m <= n => SubSeq(s, m, n) # <<>> /\ Head(SubSeq(s, m, n)) = s[m]
         /\ InOrder(s) => InOrder(SubSeq(s, m, n))
<1> DEFINE p == SubSeq(s, m, n)
<1>1. Len(s) \in Nat /\ DOMAIN s = 1 .. Len(s)
  BY LenProperties
<1>2. m \in Int /\ n \in Int /\ (\A i \in m .. n : i \in 1 .. Len(s))
  BY <1>1
<1>3. \A i \in m .. n : s[i] \in Objects
  BY <1>2, ElementOfSeq
<1>4. /\ p \in Seq(Objects)
      /\ Len(p) = n - m + 1
      /\ \A i \in 1 .. n - m + 1 : p[i] = s[m + i - 1]
  BY <1>1, <1>2, <1>3, SubSeqProperties
<1> HIDE DEF p
<1>5. DOMAIN p = 1 .. n - m + 1
  BY <1>4, LenProperties
<1>6. \A i \in 1 .. n - m + 1 : m + i - 1 \in m .. n
  BY <1>1
<1>7. \A i \in m .. n : i - m + 1 \in 1 .. n - m + 1 /\ p[i - m + 1] = s[i]
  <2> SUFFICES ASSUME NEW i \in m .. n
               PROVE  i - m + 1 \in 1 .. n - m + 1 /\ p[i - m + 1] = s[i]
    OBVIOUS
  <2>1. i - m + 1 \in 1 .. n - m + 1 /\ m + (i - m + 1) - 1 = i
    BY <1>1
  <2> QED
    BY <1>4, <2>1
<1>8. ToSet(p) = {s[i] : i \in m .. n}
  <2>1. ToSet(p) \subseteq {s[i] : i \in m .. n}
    BY <1>4, <1>5, <1>6 DEF ToSet
  <2>2. {s[i] : i \in m .. n} \subseteq ToSet(p)
    BY <1>5, <1>7 DEF ToSet
  <2> QED
    BY <2>1, <2>2
<1>9. ASSUME m <= n
      PROVE  p # <<>> /\ Head(p) = s[m]
  <2>1. Len(p) # 0 /\ 1 \in 1 .. n - m + 1
    BY <1>1, <1>4, <1>9
  <2>2. p # <<>>
    BY <2>1, EmptySeq
  <2>3. p[1] = s[m]
    BY <1>1, <1>4, <2>1
  <2> QED
    BY <1>4, <2>2, <2>3
<1>10. ASSUME InOrder(s)
       PROVE  InOrder(p)
  <2> SUFFICES ASSUME NEW i \in 1 .. n - m + 1, NEW j \in 1 .. n - m + 1, i < j
               PROVE  p[i] < p[j]
    BY <1>5 DEF InOrder
  <2>1. m + i - 1 \in 1 .. Len(s) /\ m + j - 1 \in 1 .. Len(s) /\ m + i - 1 < m + j - 1
    BY <1>1
  <2> QED
    BY <1>1, <1>4, <1>10, <2>1 DEF InOrder
<1> QED
  BY <1>4, <1>8, <1>9, <1>10 DEF p
LEMMA ObjectsAreNumbers ==
  ASSUME NEW s \in Seq(Objects)
  PROVE  s \in Seq(Nat) /\ ToSet(s) \subseteq Objects /\ DOMAIN s = 1 .. Len(s) /\ Len(s) \in Nat
<1>1. Objects \subseteq Nat
  BY DEF Objects
<1>2. s \in Seq(Nat)
  BY <1>1, SeqMonotonic
<1>3. DOMAIN s = 1 .. Len(s) /\ Len(s) \in Nat
  BY LenProperties
<1>4. \A i \in DOMAIN s : s[i] \in Objects
  BY <1>3, ElementOfSeq
<1> QED
  BY <1>2, <1>3, <1>4 DEF ToSet

\* The head of a list in order is its least element, and the tail the others.
LEMMA HeadIsFirst ==
  ASSUME NEW s \in Seq(Objects), s # <<>>, InOrder(s)
  PROVE  /\ Head(s) \in ToSet(s)
         /\ Tail(s) \in Seq(Objects) /\ InOrder(Tail(s))
         /\ ToSet(s) = {Head(s)} \cup ToSet(Tail(s))
         /\ \A t \in ToSet(Tail(s)) : Head(s) < t
<1>1. Len(s) \in Nat /\ 1 \in 1 .. Len(s) /\ DOMAIN s = 1 .. Len(s)
  BY EmptySeq, LenProperties
<1>2. Tail(s) = SubSeq(s, 2, Len(s)) /\ Head(s) = s[1]
  BY TailIsSubSeq
<1>3. 2 \in 1 .. Len(s) + 1 /\ Len(s) \in 2 - 1 .. Len(s)
  BY <1>1
<1>4. /\ Tail(s) \in Seq(Objects) /\ InOrder(Tail(s))
      /\ ToSet(Tail(s)) = {s[i] : i \in 2 .. Len(s)}
  <2> DEFINE p == SubSeq(s, 2, Len(s))
  <2>1. p \in Seq(Objects) /\ InOrder(p) /\ ToSet(p) = {s[i] : i \in 2 .. Len(s)}
    BY <1>3, PartOfList
  <2> HIDE DEF p
  <2>2. Tail(s) = p
    BY <1>2 DEF p
  <2> QED
    BY <2>1, <2>2
<1>5. \A i \in 1 .. Len(s) : i = 1 \/ i \in 2 .. Len(s)
  BY <1>1
<1>6. \A i \in 2 .. Len(s) : i \in 1 .. Len(s) /\ 1 < i
  BY <1>1
<1>7. \A t \in ToSet(Tail(s)) : s[1] < t
  BY <1>1, <1>4, <1>6 DEF InOrder
<1>8. ToSet(s) = {s[1]} \cup {s[i] : i \in 2 .. Len(s)}
  BY <1>1, <1>5, <1>6 DEF ToSet
<1> QED
  BY <1>1, <1>2, <1>4, <1>7, <1>8 DEF ToSet

-----------------------------------------------------------------------------
(* The walk, by what it does to the sets of tasks on its lists.            *)

\* past is what the walk goes past, after what it leaves for later.
WalkEffect(c, request, rest, kept, lag, table) ==
  \E walked, list \in Seq(Objects) :
    LET past  == ToSet(walked)
        swept == Activate(table, walked, lag)
    IN /\ past \subseteq ToSet(rest)
       /\ \A t \in past : ~Due(table[t], lag)
       /\ ToSet(list) = ToSet(kept) \cup {t \in past : ~Old(table[t], lag)}
       /\ InOrder(list)
       /\ \/ /\ past = ToSet(rest)
             /\ Finish(request, list, swept)
             /\ call' = [call EXCEPT ![c] = NoCall]
             /\ UNCHANGED runs
          \/ \E after \in Seq(Objects) :
               /\ after # <<>> /\ InOrder(after)
               /\ ToSet(rest) = past \cup ToSet(after)
               /\ AllBefore(past \cup ToSet(kept), ToSet(after))
               /\ Due(table[Head(after)], lag)
               /\ task' = swept
               /\ call' = [call EXCEPT ![c] = [request |-> request, lag |-> lag,
                                               kept |-> list, rest |-> after]]
               /\ runs' = [runs EXCEPT ![Head(after)] = Min({@ + 1, 2})]
               /\ UNCHANGED tasks

\* What a walk keeps of the tasks it goes past is a list in order.
LEMMA KeptInOrder ==
  ASSUME NEW walked \in Seq(Objects), InOrder(walked),
         NEW kept \in Seq(Objects), InOrder(kept), AllBefore(ToSet(kept), ToSet(walked)),
         NEW stay \in SUBSET (DOMAIN walked)
  PROVE  /\ kept \o Keep(walked, stay) \in Seq(Objects)
         /\ InOrder(kept \o Keep(walked, stay))
         /\ ToSet(kept \o Keep(walked, stay)) = ToSet(kept) \cup {walked[n] : n \in stay}
<1> DEFINE k == Keep(walked, stay)
<1>1. /\ k \in Seq(Objects)
      /\ ToSet(k) = {walked[n] : n \in stay}
      /\ \A i, j \in DOMAIN k : i < j =>
           \E m, n \in stay : m < n /\ k[i] = walked[m] /\ k[j] = walked[n]
  BY KeepProperties
<1> HIDE DEF k
<1>2. ToSet(k) \subseteq ToSet(walked)
  BY <1>1 DEF ToSet
<1>3. InOrder(k)
  BY <1>1 DEF InOrder
<1>4. AllBefore(ToSet(kept), ToSet(k))
  BY <1>2 DEF AllBefore
<1>5. kept \o k \in Seq(Objects)
  BY <1>1, ConcatProperties
<1>6. /\ ToSet(kept \o k) = ToSet(kept) \cup ToSet(k)
      /\ InOrder(kept \o k)
  BY <1>1, <1>3, <1>4, ConcatLists, ObjectsAreNumbers
<1> QED
  BY <1>1, <1>5, <1>6 DEF k

LEMMA WalkHasEffect ==
  ASSUME NEW c, NEW request, NEW lag, NEW table,
         NEW rest \in Seq(Objects), InOrder(rest),
         NEW kept \in Seq(Objects), InOrder(kept),
         AllBefore(ToSet(kept), ToSet(rest)),
         Walk(c, request, rest, kept, lag, table)
  PROVE  WalkEffect(c, request, rest, kept, lag, table)
<1> DEFINE N      == Len(rest)
           due    == {n \in DOMAIN rest : Due(table[rest[n]], lag)}
           ahead  == IF due = {} THEN N ELSE Min(due) - 1
           walked == SubSeq(rest, 1, ahead)
           stay   == {n \in DOMAIN walked : ~Old(table[walked[n]], lag)}
           list   == kept \o Keep(walked, stay)
           after  == SubSeq(rest, ahead + 1, N)
           swept  == Activate(table, walked, lag)
<1>1. DOMAIN rest = 1 .. N /\ N \in Nat
  BY LenProperties
<1>2. /\ \A n \in 1 .. ahead : ~Due(table[rest[n]], lag)
      /\ due = {} => ahead = N
      /\ due # {} => /\ ahead \in 0 .. N - 1
                     /\ Due(table[rest[ahead + 1]], lag)
  <2>1. CASE due = {}
    BY <1>1, <2>1
  <2>2. CASE due # {}
    <3>1. due \in SUBSET Nat
      BY <1>1
    <3>2. Min(due) \in due /\ \A n \in due : Min(due) <= n
      <4> HIDE DEF due
      <4> QED
        BY <2>2, <3>1, MinIsLeast
    <3>3. Min(due) \in 1 .. N /\ Due(table[rest[Min(due)]], lag)
      BY <1>1, <3>2
    <3>4. ahead = Min(due) - 1
      BY <2>2
    <3> HIDE DEF ahead
    <3>5. ahead \in 0 .. N - 1 /\ ahead + 1 = Min(due)
      BY <1>1, <3>3, <3>4
    <3>6. ASSUME NEW n \in 1 .. ahead
          PROVE  ~Due(table[rest[n]], lag)
      <4>1. n \in DOMAIN rest /\ ~(Min(due) <= n)
        BY <1>1, <3>3, <3>5
      <4> QED
        BY <3>2, <4>1
    <3> QED
      BY <2>2, <3>3, <3>5, <3>6
  <2> QED
    BY <2>1, <2>2
<1>3. ahead \in 0 .. N /\ 1 \in 1 .. N + 1 /\ ahead \in 1 - 1 .. N
  BY <1>1, <1>2
<1>4. /\ walked \in Seq(Objects) /\ InOrder(walked)
      /\ ToSet(walked) = {rest[n] : n \in 1 .. ahead}
  BY <1>3, PartOfList
<1>5. \A n \in 1 .. ahead : n \in 1 .. N
  BY <1>1, <1>3
<1>6. ToSet(walked) \subseteq ToSet(rest)
  BY <1>1, <1>4, <1>5 DEF ToSet
<1>7. \A t \in ToSet(walked) : ~Due(table[t], lag)
  BY <1>2, <1>4
<1>8. /\ list \in Seq(Objects) /\ InOrder(list)
      /\ ToSet(list) = ToSet(kept) \cup {t \in ToSet(walked) : ~Old(table[t], lag)}
  <2>1. AllBefore(ToSet(kept), ToSet(walked))
    BY <1>6 DEF AllBefore
  <2>2. stay \in SUBSET (DOMAIN walked)
    OBVIOUS
  <2>3. {walked[n] : n \in stay} = {t \in ToSet(walked) : ~Old(table[t], lag)}
    <3> HIDE DEF walked
    <3> QED
      BY DEF ToSet
  <2> HIDE DEF walked, stay
  <2>4. /\ list \in Seq(Objects) /\ InOrder(list)
        /\ ToSet(list) = ToSet(kept) \cup {walked[n] : n \in stay}
    BY <1>4, <2>1, <2>2, KeptInOrder, Zenon
  <2> QED
    BY <2>3, <2>4
<1>9. \/ /\ due = {}
         /\ Finish(request, list, swept)
         /\ call' = [call EXCEPT ![c] = NoCall]
         /\ UNCHANGED runs
      \/ /\ due # {}
         /\ task' = swept
         /\ call' = [call EXCEPT ![c] = [request |-> request, lag |-> lag, kept |-> list,
                                         rest |-> after]]
         /\ runs' = [runs EXCEPT ![rest[ahead + 1]] = Min({@ + 1, 2})]
         /\ UNCHANGED tasks
  BY Zenon DEF Walk
<1>10. due = {} => ToSet(walked) = ToSet(rest)
  BY <1>1, <1>2, <1>4 DEF ToSet
<1>11. ASSUME due # {}
       PROVE  /\ after \in Seq(Objects) /\ after # <<>> /\ InOrder(after)
              /\ Head(after) = rest[ahead + 1]
              /\ ToSet(rest) = ToSet(walked) \cup ToSet(after)
              /\ AllBefore(ToSet(walked) \cup ToSet(kept), ToSet(after))
  <2>1. ahead \in 0 .. N - 1
    BY <1>2, <1>11
  <2>2. ahead + 1 \in 1 .. N + 1 /\ N \in (ahead + 1) - 1 .. N /\ ahead + 1 <= N
    BY <1>1, <2>1
  <2>3. /\ after \in Seq(Objects) /\ after # <<>> /\ InOrder(after)
        /\ Head(after) = rest[ahead + 1]
        /\ ToSet(after) = {rest[n] : n \in ahead + 1 .. N}
    <3> HIDE DEF ahead
    <3> QED
      BY <2>2, PartOfList
  <2>4. \A n \in 1 .. N : n \in 1 .. ahead \/ n \in ahead + 1 .. N
    BY <1>1, <2>1
  <2>5. \A m \in 1 .. ahead, n \in ahead + 1 .. N : m \in 1 .. N /\ n \in 1 .. N /\ m < n
    BY <1>1, <2>1
  <2> HIDE DEF walked, after, ahead
  <2>6. \A n \in ahead + 1 .. N : n \in 1 .. N
    BY <1>1, <2>1
  <2>7. ToSet(rest) = ToSet(walked) \cup ToSet(after)
    BY <1>1, <1>4, <1>5, <2>3, <2>4, <2>6 DEF ToSet
  <2>8. AllBefore(ToSet(walked), ToSet(after))
    <3> SUFFICES ASSUME NEW m \in 1 .. ahead, NEW n \in ahead + 1 .. N
                 PROVE  rest[m] < rest[n]
      BY <1>4, <2>3 DEF AllBefore
    <3>1. m \in DOMAIN rest /\ n \in DOMAIN rest /\ m < n
      BY <1>1, <2>5
    <3> QED
      BY <3>1 DEF InOrder
  <2>9. AllBefore(ToSet(kept), ToSet(after))
    BY <2>7 DEF AllBefore
  <2> QED
    BY <2>3, <2>7, <2>8, <2>9 DEF AllBefore
<1> HIDE DEF due, ahead, walked, list, after, swept
<1>12. swept = Activate(table, walked, lag)
  BY DEF swept
<1>13. CASE due = {}
  BY <1>4, <1>6, <1>7, <1>8, <1>9, <1>10, <1>12, <1>13 DEF WalkEffect
<1>14. CASE due # {}
  BY <1>2, <1>4, <1>6, <1>7, <1>8, <1>9, <1>11, <1>12, <1>14 DEF WalkEffect
<1> QED
  BY <1>13, <1>14
-----------------------------------------------------------------------------
(* The table of tasks.                                                     *)

\* The tasks of a table have been created one after the other.
Gapless(table) ==
  \A s, t \in Objects : s < t /\ table[t].status # "unborn" => table[s].status # "unborn"

\* So they are the first ones, and Born says how many.
LEMMA BornAreFirst ==
  ASSUME NEW table, Gapless(table)
  PROVE  /\ Born(table) \in 0 .. MaxTasks
         /\ \A t \in Objects : table[t].status # "unborn" <=> t <= Born(table)
<1> DEFINE S == {t \in Objects : table[t].status # "unborn"}
<1>1. MaxTasks \in Nat /\ S \in SUBSET (1 .. MaxTasks)
  BY TaskQueueAssumption DEF Objects
<1>2. \A m, n \in 1 .. MaxTasks : m < n /\ n \in S => m \in S
  BY DEF Gapless, Objects
<1>3. Born(table) = Cardinality(S)
  BY DEF Born
<1>4. \A t \in Objects : table[t].status # "unborn" <=> t \in S
  OBVIOUS
<1> HIDE DEF S
<1>5. Cardinality(S) \in 0 .. MaxTasks /\ S = 1 .. Cardinality(S)
  BY <1>1, <1>2, GaplessIsInterval
<1>6. \A t \in Objects : t \in S <=> t <= Cardinality(S)
  BY <1>1, <1>5 DEF Objects
<1> QED
  BY <1>3, <1>4, <1>5, <1>6

LEMMA SameBorn ==
  ASSUME NEW a, NEW b,
         \A t \in Objects : a[t].status = "unborn" <=> b[t].status = "unborn"
  PROVE  Born(a) = Born(b)
<1>1. {t \in Objects : a[t].status # "unborn"} = {t \in Objects : b[t].status # "unborn"}
  OBVIOUS
<1> QED
  BY <1>1 DEF Born

LEMMA OneMoreBorn ==
  ASSUME NEW a, Gapless(a), Born(a) < MaxTasks, NEW b,
         \A t \in Objects : b[t].status # "unborn" <=> a[t].status # "unborn" \/ t = Born(a) + 1
  PROVE  Born(b) = Born(a) + 1
<1>1. /\ Born(a) \in 0 .. MaxTasks /\ MaxTasks \in Nat
      /\ \A t \in Objects : a[t].status # "unborn" <=> t <= Born(a)
  BY BornAreFirst, TaskQueueAssumption
<1>2. {t \in Objects : b[t].status # "unborn"} = 1 .. Born(a) + 1
  BY <1>1 DEF Objects
<1>3. Cardinality(1 .. Born(a) + 1) = Born(a) + 1
  BY <1>1, FS_Interval
<1> QED
  BY <1>2, <1>3 DEF Born

LEMMA AgesAreNumbers ==
  /\ OldAge \in Nat /\ MaxLag \in Nat /\ UpdateSecs \in Nat /\ PurgeSecs \in Nat
  /\ MaxTasks \in Nat /\ MaxLag < OldAge /\ UpdateSecs + MaxLag < OldAge
BY TaskQueueAssumption DEF OldAge

\* What a walk makes of the tasks it goes past.
LEMMA ActivateHasEffect ==
  ASSUME NEW table \in [Objects -> Task], NEW walked, NEW lag \in 0 .. MaxLag
  PROVE  LET swept == Activate(table, walked, lag)
         IN /\ swept \in [Objects -> Task]
            /\ \A t \in Objects :
                 IF t \in ToSet(walked) /\ Ripe(table[t], lag)
                   THEN swept[t].status = "active" /\ swept[t].age = lag
                   ELSE swept[t] = table[t]
<1> DEFINE swept == Activate(table, walked, lag)
<1>1. lag \in 0 .. OldAge
  BY AgesAreNumbers
<1>2. ASSUME NEW t \in Objects
      PROVE  /\ swept[t] \in Task
             /\ IF t \in ToSet(walked) /\ Ripe(table[t], lag)
                  THEN swept[t].status = "active" /\ swept[t].age = lag
                  ELSE swept[t] = table[t]
  <2>1. table[t] \in Task
    OBVIOUS
  <2>2. CASE t \in ToSet(walked) /\ Ripe(table[t], lag)
    <3>1. swept[t] = [table[t] EXCEPT !.status = "active", !.age = lag]
      BY <2>2 DEF Activate
    <3>2. "active" \in Statuses
      BY DEF Statuses
    <3> QED
      BY <1>1, <2>1, <2>2, <3>1, <3>2 DEF Task
  <2>3. CASE ~(t \in ToSet(walked) /\ Ripe(table[t], lag))
    BY <2>1, <2>3 DEF Activate
  <2> QED
    BY <2>2, <2>3
<1>3. swept = [t \in Objects |-> swept[t]]
  BY DEF Activate
<1> HIDE DEF swept
<1>4. swept \in [Objects -> Task]
  BY <1>2, <1>3
<1> QED
  BY <1>2, <1>4 DEF swept

\* delete_task cancels a task of the list, or none.
LEMMA LookupFindsListed ==
  ASSUME NEW list \in Seq(Objects), NEW table, NEW u, NEW i
  PROVE  Lookup(list, table, u, i) = 0 \/ Lookup(list, table, u, i) \in ToSet(list)
<1> DEFINE hits == {n \in DOMAIN list : table[list[n]].user = u /\ table[list[n]].id = i}
<1>1. Lookup(list, table, u, i) = IF hits = {} THEN 0 ELSE list[Min(hits)]
  BY DEF Lookup
<1>2. hits \in SUBSET Nat /\ hits \subseteq DOMAIN list
  BY ObjectsAreNumbers
<1> HIDE DEF hits
<1>3. hits # {} => Min(hits) \in DOMAIN list
  BY <1>2, MinIsLeast
<1> QED
  BY <1>1, <1>3 DEF ToSet

\* What a call does when its walk is over.
LEMMA FinishHasEffect ==
  ASSUME NEW request \in Request, NEW list \in Seq(Objects), NEW table \in [Objects -> Task],
         Gapless(table), request.kind = "put" => Born(table) < MaxTasks,
         Finish(request, list, table)
  PROVE  /\ task' \in [Objects -> Task]
         /\ \/ /\ request.kind = "put"
               /\ Born(table) + 1 \in Objects
               /\ table[Born(table) + 1].status = "unborn"
               /\ tasks' = Append(list, Born(table) + 1)
               /\ task'[Born(table) + 1].status = "pending" /\ task'[Born(table) + 1].age = 0
               /\ \A t \in Objects : t # Born(table) + 1 => task'[t] = table[t]
            \/ /\ request.kind # "put"
               /\ tasks' = list
               /\ \A t \in Objects : \/ task'[t] = table[t]
                                     \/ t \in ToSet(list) /\ task'[t].status = "canceled"
<1>1. CASE request.kind = "query"
  BY <1>1 DEF Finish
<1>2. CASE request.kind = "put"
  <2> DEFINE new == Born(table) + 1
             rec == [id |-> Len(list), user |-> request.user, status |-> "pending",
                     age |-> 0, result |-> FALSE]
  <2>1. tasks' = Append(list, new) /\ task' = [table EXCEPT ![new] = rec]
    BY <1>2 DEF Finish
  <2>2. new \in Objects /\ table[new].status = "unborn"
    <3>1. new \in Objects /\ ~(new <= Born(table))
      BY <1>2, BornAreFirst, TaskQueueAssumption DEF Objects
    <3> QED
      BY <3>1, BornAreFirst
  <2>3. rec \in Task
    <3>1. request.user \in Users
      BY DEF Request
    <3>2. Len(list) \in Nat /\ "pending" \in Statuses /\ 0 \in 0 .. OldAge
      BY LenProperties, AgesAreNumbers DEF Statuses
    <3> QED
      BY <3>1, <3>2 DEF Task
  <2>4. rec.status = "pending" /\ rec.age = 0
    OBVIOUS
  <2> HIDE DEF new, rec
  <2>5. /\ task' \in [Objects -> Task]
        /\ task'[new] = rec
        /\ \A t \in Objects : t # new => task'[t] = table[t]
    BY <2>1, <2>2, <2>3
  <2> QED
    BY <1>2, <2>1, <2>2, <2>4, <2>5 DEF new
<1>3. CASE request.kind = "delete"
  <2> DEFINE d == Lookup(list, table, request.user, request.id)
  <2>1. /\ tasks' = list
        /\ task' = IF d = 0 THEN table
                   ELSE [table EXCEPT ![d].status = "canceled", ![d].result = FALSE]
    BY <1>3 DEF Finish
  <2>2. d = 0 \/ (d \in ToSet(list) /\ d \in Objects)
    BY LookupFindsListed, ObjectsAreNumbers
  <2> HIDE DEF d
  <2>3. CASE d = 0
    BY <1>3, <2>1, <2>3
  <2>4. CASE d # 0
    <3>1. d \in ToSet(list) /\ d \in Objects /\ table[d] \in Task
      BY <2>2, <2>4
    <3>2. task' = [table EXCEPT ![d] = [table[d] EXCEPT !.status = "canceled", !.result = FALSE]]
      BY <2>1, <2>4, <3>1
    <3>3. "canceled" \in Statuses
      BY DEF Statuses, Terminal
    <3>4. /\ [table[d] EXCEPT !.status = "canceled", !.result = FALSE] \in Task
          /\ [table[d] EXCEPT !.status = "canceled", !.result = FALSE].status = "canceled"
      BY <3>1, <3>3 DEF Task
    <3>5. /\ task' \in [Objects -> Task]
          /\ task'[d].status = "canceled"
          /\ \A t \in Objects : t # d => task'[t] = table[t]
      BY <3>1, <3>2, <3>4
    <3> QED
      BY <1>3, <2>1, <3>1, <3>5
  <2> QED
    BY <2>3, <2>4
<1>4. request.kind \in {"query", "put", "delete"}
  BY DEF Request
<1> QED
  BY <1>1, <1>2, <1>3, <1>4
-----------------------------------------------------------------------------
(* The invariant, however calls overlap.                                   *)

\* A call is not the absence of one.
LEMMA CallsAreCalls == \A x \in Call : x # NoCall
<1> SUFFICES ASSUME NEW x \in Call, x = NoCall PROVE FALSE
  OBVIOUS
<1>1. DOMAIN x = {"request", "rest", "kept", "lag"}
  BY DEF Call
<1>2. DOMAIN NoCall = {"kind"}
  BY DEF NoCall
<1> QED
  BY <1>1, <1>2

LEMMA PuttingIsFinite ==
  ASSUME NEW c
  PROVE  /\ IsFiniteSet(Putting) /\ Cardinality(Putting) \in Nat
         /\ IsFiniteSet(Putting \ {c}) /\ Cardinality(Putting \ {c}) \in Nat
         /\ Cardinality((Putting \ {c}) \cup {c}) = Cardinality(Putting \ {c}) + 1
         /\ c \in Putting => Cardinality(Putting) = Cardinality(Putting \ {c}) + 1
<1>1. Putting \in SUBSET Callers /\ IsFiniteSet(Callers)
  BY TaskQueueAssumption DEF Putting
<1> HIDE DEF Putting
<1>2. IsFiniteSet(Putting) /\ Cardinality(Putting) \in Nat
  BY <1>1, FS_Subset, FS_CardinalityType
<1>3. IsFiniteSet(Putting \ {c}) /\ Cardinality(Putting \ {c}) \in Nat
  BY <1>2, FS_RemoveElement, FS_CardinalityType
<1>4. Cardinality((Putting \ {c}) \cup {c}) = Cardinality(Putting \ {c}) + 1
  BY <1>3, FS_AddElement
<1>5. c \in Putting => (Putting \ {c}) \cup {c} = Putting
  OBVIOUS
<1> QED
  BY <1>2, <1>3, <1>4, <1>5

LEMMA BornTasks ==
  ASSUME BornInOrder
  PROVE  /\ Born(task) \in 0 .. MaxTasks /\ Born(task) \in Nat /\ MaxTasks \in Nat
         /\ \A t \in Objects : IsBorn(t) <=> t <= Born(task)
<1>1. Gapless(task)
  BY DEF Gapless, BornInOrder, IsBorn
<1>2. MaxTasks \in Nat
  BY TaskQueueAssumption
<1> QED
  BY <1>1, <1>2, BornAreFirst DEF IsBorn

\* What process_tasks may start from, or go on with: the tasks of the table were
\* born as in the current state, the lists are in order, and there is room for
\* what is to be put.
WalkReady(c, request, rest, kept, lag, table) ==
  /\ c \in Callers /\ request \in Request /\ lag \in 0 .. MaxLag
  /\ table \in [Objects -> Task]
  /\ \A t \in Objects : table[t].status = "unborn" <=> ~IsBorn(t)
  /\ rest \in Seq(Objects) /\ InOrder(rest)
  /\ kept \in Seq(Objects) /\ InOrder(kept)
  /\ AllBefore(ToSet(kept), ToSet(rest))
  /\ \A t \in ToSet(kept) \cup ToSet(rest) : IsBorn(t)
  /\ Born(task) + Cardinality(Putting \ {c}) + (IF request.kind = "put" THEN 1 ELSE 0)
       <= MaxTasks

\* The tables that a walk goes through were born like the first one.
LEMMA SweptIsBornAlike ==
  ASSUME IInv, NEW c, NEW request, NEW rest, NEW kept, NEW lag, NEW table,
         WalkReady(c, request, rest, kept, lag, table), NEW walked
  PROVE  LET swept == Activate(table, walked, lag)
         IN /\ swept \in [Objects -> Task]
            /\ \A t \in Objects : swept[t].status = "unborn" <=> ~IsBorn(t)
            /\ Gapless(swept)
            /\ Born(swept) = Born(task)
<1> DEFINE swept == Activate(table, walked, lag)
<1>1. /\ swept \in [Objects -> Task]
      /\ \A t \in Objects :
           IF t \in ToSet(walked) /\ Ripe(table[t], lag)
             THEN swept[t].status = "active" /\ swept[t].age = lag
             ELSE swept[t] = table[t]
  BY ActivateHasEffect DEF WalkReady
<1> HIDE DEF swept
<1>2. \A t \in Objects : swept[t].status = "unborn" <=> ~IsBorn(t)
  BY <1>1 DEF WalkReady, Ripe
<1>3. Gapless(swept)
  BY <1>2 DEF Gapless, IInv, BornInOrder
<1>4. Born(swept) = Born(task)
  BY <1>2, SameBorn DEF IsBorn
<1> QED
  BY <1>1, <1>2, <1>3, <1>4 DEF swept

\* However the walk goes, and whatever the call does after it, the invariant holds.
LEMMA WalkKeepsInvariant ==
  ASSUME IInv, NEW c, NEW request, NEW rest, NEW kept, NEW lag, NEW table,
         WalkReady(c, request, rest, kept, lag, table),
         Walk(c, request, rest, kept, lag, table)
  PROVE  IInv'
<1>1. WalkEffect(c, request, rest, kept, lag, table)
  BY WalkHasEffect DEF WalkReady
<1>2. PICK walked \in Seq(Objects), list \in Seq(Objects) :
        /\ ToSet(walked) \subseteq ToSet(rest)
        /\ ToSet(list) = ToSet(kept) \cup {t \in ToSet(walked) : ~Old(table[t], lag)}
        /\ InOrder(list)
        /\ \/ /\ Finish(request, list, Activate(table, walked, lag))
              /\ call' = [call EXCEPT ![c] = NoCall]
              /\ UNCHANGED runs
           \/ \E after \in Seq(Objects) :
                /\ after # <<>> /\ InOrder(after)
                /\ ToSet(rest) = ToSet(walked) \cup ToSet(after)
                /\ AllBefore(ToSet(walked) \cup ToSet(kept), ToSet(after))
                /\ task' = Activate(table, walked, lag)
                /\ call' = [call EXCEPT ![c] = [request |-> request, lag |-> lag,
                                                kept |-> list, rest |-> after]]
                /\ runs' = [runs EXCEPT ![Head(after)] = Min({@ + 1, 2})]
                /\ UNCHANGED tasks
  BY <1>1 DEF WalkEffect
<1> DEFINE swept == Activate(table, walked, lag)
           new   == Born(task) + 1
<1>3. /\ swept \in [Objects -> Task]
      /\ \A t \in Objects : swept[t].status = "unborn" <=> ~IsBorn(t)
      /\ Gapless(swept)
      /\ Born(swept) = Born(task)
  BY SweptIsBornAlike
<1> HIDE DEF swept
<1>4. /\ c \in Callers /\ request \in Request /\ lag \in 0 .. MaxLag
      /\ call \in [Callers -> {NoCall} \cup Call]
      /\ tasks \in Seq(Objects) /\ runs \in [Objects -> 0 .. 2]
  BY DEF WalkReady, IInv, TypeOK
<1>5. \A t \in ToSet(list) : t \in Objects /\ IsBorn(t)
  BY <1>2, ObjectsAreNumbers DEF WalkReady
<1>6. /\ Born(task) \in 0 .. MaxTasks /\ MaxTasks \in Nat
      /\ \A t \in Objects : IsBorn(t) <=> t <= Born(task)
  BY BornTasks DEF IInv
<1>7. /\ Cardinality(Putting \ {c}) \in Nat
      /\ Cardinality((Putting \ {c}) \cup {c}) = Cardinality(Putting \ {c}) + 1
  BY PuttingIsFinite
<1>8. /\ request.kind # "put" => Born(task) + Cardinality(Putting \ {c}) <= MaxTasks
      /\ request.kind = "put" => Born(task) + Cardinality(Putting \ {c}) + 1 <= MaxTasks
  BY <1>6, <1>7 DEF WalkReady
<1>9. ASSUME Finish(request, list, swept), call' = [call EXCEPT ![c] = NoCall], UNCHANGED runs
      PROVE  IInv'
  <2>1. /\ task' \in [Objects -> Task]
        /\ \/ /\ request.kind = "put"
              /\ new \in Objects
              /\ swept[new].status = "unborn"
              /\ tasks' = Append(list, new)
              /\ task'[new].status = "pending"
              /\ \A t \in Objects : t # new => task'[t] = swept[t]
           \/ /\ request.kind # "put"
              /\ tasks' = list
              /\ \A t \in Objects : \/ task'[t] = swept[t]
                                    \/ t \in ToSet(list) /\ task'[t].status = "canceled"
    <3>1. request.kind = "put" => Born(swept) < MaxTasks
      BY <1>3, <1>6, <1>7, <1>8
    <3> QED
      BY <1>3, <1>4, <1>9, <3>1, FinishHasEffect
  <2>2. \A t \in Objects : IsBorn(t)' <=> IsBorn(t) \/ (request.kind = "put" /\ t = new)
    <3>1. CASE request.kind = "put"
      BY <1>3, <2>1, <3>1 DEF IsBorn
    <3>2. CASE request.kind # "put"
      BY <1>3, <1>5, <2>1, <3>2 DEF IsBorn
    <3> QED
      BY <3>1, <3>2
  <2>3. /\ call' \in [Callers -> {NoCall} \cup Call]
        /\ call'[c] = NoCall
        /\ \A d \in Callers : d # c => call'[d] = call[d]
    BY <1>4, <1>9
  <2>4. \A d \in Callers : InCall(d)' => d # c /\ InCall(d) /\ call'[d] = call[d]
    BY <2>3 DEF InCall
  <2>5. Putting' = Putting \ {c}
    BY <2>3 DEF Putting, InCall
  <2>6. tasks' \in Seq(Objects) /\ InOrder(tasks')
        /\ \A t \in ToSet(tasks') : t \in ToSet(list) \/ (request.kind = "put" /\ t = new)
    <3>1. CASE request.kind = "put"
      <4>1. tasks' = Append(list, new) /\ new \in Objects /\ new \in Nat
        BY <1>6, <2>1, <3>1 DEF Objects
      <4>2. \A t \in ToSet(list) : t < new
        BY <1>5, <1>6 DEF Objects
      <4> HIDE DEF new
      <4>3. Append(list, new) \in Seq(Objects)
        BY <4>1, AppendProperties
      <4>4. ToSet(tasks') = ToSet(list) \cup {new} /\ InOrder(tasks')
        BY <1>2, <4>1, <4>2, AppendToList, ObjectsAreNumbers
      <4> QED
        BY <3>1, <4>1, <4>3, <4>4
    <3>2. CASE request.kind # "put"
      BY <1>2, <2>1, <3>2
    <3> QED
      BY <3>1, <3>2
  <2>7. TypeOK'
    BY <1>4, <1>9, <2>1, <2>3, <2>4, <2>6 DEF IInv, TypeOK
  <2>8. BornInOrder'
    <3> SUFFICES ASSUME NEW s \in Objects, NEW t \in Objects, s < t, IsBorn(t)'
                 PROVE  IsBorn(s)'
      BY DEF BornInOrder
    <3>1. CASE IsBorn(t)
      BY <2>2, <3>1 DEF IInv, BornInOrder
    <3>2. CASE t = new
      BY <1>6, <2>2, <3>2 DEF Objects
    <3> QED
      BY <2>2, <3>1, <3>2
  <2>9. RoomForPuts'
    <3>1. CASE request.kind = "put"
      <4>1. Born(task)' = Born(swept) + 1
        <5>1. \A t \in Objects : task'[t].status # "unborn" <=> swept[t].status # "unborn" \/ t = Born(swept) + 1
          BY <1>3, <2>2, <3>1 DEF IsBorn
        <5>2. Born(swept) < MaxTasks
          BY <1>3, <1>6, <1>7, <1>8, <3>1
        <5>3. Born(task') = Born(swept) + 1
          BY <1>3, <5>1, <5>2, OneMoreBorn
        <5> QED
          BY <5>3 DEF Born
      <4> QED
        BY <1>3, <1>6, <1>7, <1>8, <2>5, <3>1, <4>1 DEF RoomForPuts
    <3>2. CASE request.kind # "put"
      <4>1. Born(task') = Born(task)
        BY <2>2, <3>2, SameBorn DEF IsBorn
      <4>2. Born(task)' = Born(task)
        BY <4>1 DEF Born
      <4> QED
        BY <1>8, <2>5, <3>2, <4>2 DEF RoomForPuts
    <3> QED
      BY <3>1, <3>2
  <2>10. ListsAreInOrder'
    BY <2>4, <2>6 DEF IInv, ListsAreInOrder, InOrder
  <2>11. ListedAreBorn'
    <3>1. \A t \in ToSet(tasks') : IsBorn(t)'
      BY <1>5, <2>1, <2>2, <2>6
    <3>2. ASSUME NEW d \in Callers, InCall(d)',
                 NEW t \in ToSet(call'[d].kept) \cup ToSet(call'[d].rest)
          PROVE  IsBorn(t)'
      <4>1. call'[d] = call[d] /\ InCall(d) /\ call[d] \in Call
        BY <1>4, <2>4, <3>2 DEF InCall
      <4>2. IsBorn(t) /\ t \in Objects
        BY <4>1, ObjectsAreNumbers DEF IInv, ListedAreBorn, Call
      <4> QED
        BY <2>2, <4>2
    <3> QED
      BY <3>1, <3>2 DEF ListedAreBorn
  <2> QED
    BY <2>7, <2>8, <2>9, <2>10, <2>11 DEF IInv
<1>10. ASSUME NEW after \in Seq(Objects),
              after # <<>>, InOrder(after),
              ToSet(rest) = ToSet(walked) \cup ToSet(after),
              AllBefore(ToSet(walked) \cup ToSet(kept), ToSet(after)),
              task' = swept,
              call' = [call EXCEPT ![c] = [request |-> request, lag |-> lag,
                                           kept |-> list, rest |-> after]],
              runs' = [runs EXCEPT ![Head(after)] = Min({@ + 1, 2})],
              UNCHANGED tasks
       PROVE  IInv'
  <2> DEFINE rec == [request |-> request, lag |-> lag, kept |-> list, rest |-> after]
  <2>1. /\ rec \in Call /\ rec.request = request /\ rec.lag = lag /\ rec.kept = list
        /\ rec.rest = after
    BY <1>4 DEF Call
  <2> HIDE DEF rec
  <2>2. /\ call' \in [Callers -> {NoCall} \cup Call]
        /\ call'[c] = rec
        /\ \A d \in Callers : d # c => call'[d] = call[d]
    BY <1>4, <1>10, <2>1 DEF rec
  <2>3. InCall(c)' /\ (\A d \in Callers : d # c => (InCall(d)' <=> InCall(d)))
    BY <2>1, <2>2, CallsAreCalls DEF InCall
  <2>4. Putting' = IF request.kind = "put" THEN (Putting \ {c}) \cup {c} ELSE Putting \ {c}
    <3>1. InCall(c)' /\ call'[c].request = request /\ c \in Callers
      BY <1>4, <2>1, <2>2, <2>3
    <3>2. \A d \in Callers : d # c => (InCall(d)' <=> InCall(d)) /\ call'[d] = call[d]
      BY <2>2, <2>3
    <3> QED
      BY <3>1, <3>2 DEF Putting
  <2>5. \A t \in Objects : IsBorn(t)' <=> IsBorn(t)
    BY <1>3, <1>10 DEF IsBorn
  <2>6. TypeOK'
    <3>1. runs' \in [Objects -> 0 .. 2]
      <4>1. Head(after) \in Objects
        BY <1>10, HeadTailProperties
      <4>2. runs[Head(after)] + 1 \in Nat
        BY <1>4, <4>1
      <4>3. Min({runs[Head(after)] + 1, 2}) \in 0 .. 2
        <5>1. {runs[Head(after)] + 1, 2} \in SUBSET Nat
          BY <4>2
        <5>2. /\ Min({runs[Head(after)] + 1, 2}) \in {runs[Head(after)] + 1, 2}
              /\ Min({runs[Head(after)] + 1, 2}) <= 2
          BY <5>1, MinIsLeast
        <5> QED
          BY <4>2, <5>2
      <4> QED
        BY <1>4, <1>10, <4>1, <4>3
    <3>2. \A d \in Callers : InCall(d)' => call'[d].rest # <<>>
      BY <1>10, <2>1, <2>2, <2>3 DEF IInv, TypeOK
    <3> QED
      BY <1>3, <1>4, <1>10, <2>2, <3>1, <3>2 DEF TypeOK
  <2>7. BornInOrder'
    BY <2>5 DEF IInv, BornInOrder
  <2>8. RoomForPuts'
    <3>1. Born(task') = Born(task)
      BY <2>5, SameBorn DEF IsBorn
    <3>2. Born(task)' = Born(task)
      BY <3>1 DEF Born
    <3> QED
      BY <1>6, <1>7, <1>8, <2>4, <3>2 DEF RoomForPuts
  <2>9. ListsAreInOrder'
    <3>1. AllBefore(ToSet(list), ToSet(after))
      BY <1>2, <1>10 DEF AllBefore
    <3>2. ASSUME NEW d \in Callers, InCall(d)'
          PROVE  /\ InOrder(call'[d].kept) /\ InOrder(call'[d].rest)
                 /\ AllBefore(ToSet(call'[d].kept), ToSet(call'[d].rest))
      <4>1. CASE d = c
        BY <1>2, <1>10, <2>1, <2>2, <3>1, <4>1
      <4>2. CASE d # c
        BY <2>2, <2>3, <3>2, <4>2 DEF IInv, ListsAreInOrder
      <4> QED
        BY <4>1, <4>2
    <3>3. InOrder(tasks')
      BY <1>10 DEF IInv, ListsAreInOrder
    <3> QED
      BY <3>2, <3>3 DEF ListsAreInOrder, InOrder, AllBefore
  <2>10. ListedAreBorn'
    <3>1. ASSUME NEW t \in ToSet(tasks')
          PROVE  IsBorn(t)'
      <4>1. t \in Objects /\ IsBorn(t)
        BY <1>4, <1>10, <3>1, ObjectsAreNumbers DEF IInv, ListedAreBorn
      <4> QED
        BY <2>5, <4>1
    <3>2. ASSUME NEW d \in Callers, InCall(d)',
                 NEW t \in ToSet(call'[d].kept) \cup ToSet(call'[d].rest)
          PROVE  IsBorn(t)'
      <4>1. CASE d = c
        <5>1. t \in ToSet(list) \cup ToSet(after)
          BY <2>1, <2>2, <3>2, <4>1
        <5>2. t \in Objects /\ IsBorn(t)
          BY <1>5, <1>10, <5>1, ObjectsAreNumbers DEF WalkReady
        <5> QED
          BY <2>5, <5>2
      <4>2. CASE d # c
        <5>1. call'[d] = call[d] /\ InCall(d) /\ call[d] \in Call
          BY <1>4, <2>2, <2>3, <3>2, <4>2 DEF InCall
        <5>2. IsBorn(t) /\ t \in Objects
          BY <3>2, <5>1, ObjectsAreNumbers DEF IInv, ListedAreBorn, Call
        <5> QED
          BY <2>5, <5>2
      <4> QED
        BY <4>1, <4>2
    <3> QED
      BY <3>1, <3>2 DEF ListedAreBorn
  <2> QED
    BY <2>6, <2>7, <2>8, <2>9, <2>10 DEF IInv
<1> QED
  BY <1>2, <1>9, <1>10 DEF swept

\* A call starts from the list and the table as they are.
LEMMA StartReady ==
  ASSUME IInv, NEW c \in Callers, ~InCall(c), NEW request \in Request,
         request.kind = "put" => Born(task) + Cardinality(Putting) < MaxTasks
  PROVE  WalkReady(c, request, tasks, <<>>, 0, task)
<1>1. Putting \ {c} = Putting
  BY DEF Putting
<1>2. Born(task) \in Nat /\ Cardinality(Putting) \in Nat /\ MaxTasks \in Nat
  BY BornTasks, PuttingIsFinite DEF IInv
<1>3. /\ <<>> \in Seq(Objects) /\ InOrder(<<>>)
      /\ AllBefore(ToSet(<<>>), ToSet(tasks)) /\ ToSet(<<>>) = {}
  BY DEF ToSet, InOrder, AllBefore
<1>4. 0 \in 0 .. MaxLag
  BY AgesAreNumbers
<1>5. Born(task) + Cardinality(Putting \ {c}) + (IF request.kind = "put" THEN 1 ELSE 0)
        <= MaxTasks
  <2> DEFINE b == Born(task)
             p == Cardinality(Putting)
  <2>1. p = Cardinality(Putting \ {c})
    BY <1>1
  <2>2. b \in Nat /\ p \in Nat /\ MaxTasks \in Nat
    BY <1>2
  <2>3. b + p <= MaxTasks /\ (request.kind = "put" => b + p < MaxTasks)
    BY DEF IInv, RoomForPuts
  <2> HIDE DEF b, p
  <2>4. b + p + (IF request.kind = "put" THEN 1 ELSE 0) <= MaxTasks
    BY <2>2, <2>3
  <2> QED
    BY <2>1, <2>4 DEF b
<1> QED
  BY <1>3, <1>4, <1>5
     DEF WalkReady, IInv, TypeOK, ListsAreInOrder, ListedAreBorn, IsBorn

\* The table that a call goes on with when on_task has answered.
Answered(c, status) ==
  [task EXCEPT ![Head(call[c].rest)].status = status, ![Head(call[c].rest)].result = TRUE]

LEMMA AnsweredHasEffect ==
  ASSUME IInv, NEW c \in Callers, InCall(c), NEW status \in {"completed", "failed"}
  PROVE  /\ call[c] \in Call
         /\ Head(call[c].rest) \in ToSet(call[c].rest) /\ Head(call[c].rest) \in Objects
         /\ Answered(c, status) \in [Objects -> Task]
         /\ Answered(c, status)[Head(call[c].rest)].status = status
         /\ \A t \in Objects : t # Head(call[c].rest) => Answered(c, status)[t] = task[t]
<1> DEFINE h == Head(call[c].rest)
<1>1. call[c] \in Call
  BY DEF IInv, TypeOK, InCall
<1>2. call[c].rest \in Seq(Objects) /\ call[c].rest # <<>> /\ InOrder(call[c].rest)
  BY <1>1 DEF Call, IInv, TypeOK, ListsAreInOrder
<1>3. h \in ToSet(call[c].rest) /\ h \in Objects
  BY <1>2, HeadIsFirst, ObjectsAreNumbers
<1> HIDE DEF h
<1>4. task \in [Objects -> Task] /\ task[h] \in Task
  BY <1>3 DEF IInv, TypeOK
<1>5. status \in Statuses
  BY DEF Statuses, Terminal
<1>6. /\ [task[h] EXCEPT !.status = status, !.result = TRUE] \in Task
      /\ [task[h] EXCEPT !.status = status, !.result = TRUE].status = status
  BY <1>4, <1>5 DEF Task
<1>7. Answered(c, status) = [task EXCEPT ![h] = [task[h] EXCEPT !.status = status, !.result = TRUE]]
  BY <1>3, <1>4 DEF Answered, h
<1> QED
  BY <1>1, <1>3, <1>4, <1>6, <1>7 DEF h

LEMMA ReturnReady ==
  ASSUME IInv, NEW c \in Callers, InCall(c), NEW status \in {"completed", "failed"}
  PROVE  WalkReady(c, call[c].request, Tail(call[c].rest),
                   Append(call[c].kept, Head(call[c].rest)), call[c].lag, Answered(c, status))
<1> DEFINE h    == Head(call[c].rest)
           kept == call[c].kept
           rest == call[c].rest
<1>1. /\ call[c] \in Call /\ h \in ToSet(rest) /\ h \in Objects
      /\ Answered(c, status) \in [Objects -> Task]
      /\ Answered(c, status)[h].status = status
      /\ \A t \in Objects : t # h => Answered(c, status)[t] = task[t]
  BY AnsweredHasEffect
<1>2. /\ call[c].request \in Request /\ call[c].lag \in 0 .. MaxLag
      /\ kept \in Seq(Objects) /\ rest \in Seq(Objects)
  BY <1>1 DEF Call
<1>3. /\ rest # <<>> /\ InOrder(kept) /\ InOrder(rest) /\ AllBefore(ToSet(kept), ToSet(rest))
      /\ \A t \in ToSet(kept) \cup ToSet(rest) : IsBorn(t)
  BY DEF IInv, TypeOK, ListsAreInOrder, ListedAreBorn
<1> HIDE DEF h, kept, rest
<1>4. \A t \in Objects : Answered(c, status)[t].status = "unborn" <=> ~IsBorn(t)
  BY <1>1, <1>3 DEF IsBorn
<1>5. /\ Tail(rest) \in Seq(Objects) /\ InOrder(Tail(rest))
      /\ ToSet(rest) = {h} \cup ToSet(Tail(rest))
      /\ \A t \in ToSet(Tail(rest)) : h < t
  BY <1>2, <1>3, HeadIsFirst DEF h, rest
<1>6. /\ Append(kept, h) \in Seq(Objects) /\ InOrder(Append(kept, h))
      /\ ToSet(Append(kept, h)) = ToSet(kept) \cup {h}
  <2>1. \A s \in ToSet(kept) : s < h
    BY <1>1, <1>3 DEF AllBefore
  <2>2. kept \in Seq(Nat) /\ h \in Nat
    BY <1>1, <1>2, ObjectsAreNumbers DEF Objects
  <2>3. Append(kept, h) \in Seq(Objects)
    BY <1>1, <1>2, AppendProperties
  <2> QED
    BY <1>3, <2>1, <2>2, <2>3, AppendToList
<1>7. AllBefore(ToSet(Append(kept, h)), ToSet(Tail(rest)))
  BY <1>3, <1>5, <1>6 DEF AllBefore
<1>8. \A t \in ToSet(Append(kept, h)) \cup ToSet(Tail(rest)) : IsBorn(t)
  BY <1>1, <1>3, <1>5, <1>6
<1>9. Born(task) + Cardinality(Putting \ {c}) + (IF call[c].request.kind = "put" THEN 1 ELSE 0)
        <= MaxTasks
  <2>1. Born(task) \in Nat /\ MaxTasks \in Nat
    BY BornTasks DEF IInv
  <2>2. c \in Putting <=> call[c].request.kind = "put"
    BY DEF Putting
  <2>3. CASE c \in Putting
    <3>1. Cardinality(Putting) = Cardinality(Putting \ {c}) + 1 /\ Cardinality(Putting \ {c}) \in Nat
      BY <2>3, PuttingIsFinite
    <3> QED
      BY <2>1, <2>2, <2>3, <3>1 DEF IInv, RoomForPuts
  <2>4. CASE c \notin Putting
    <3>1. Putting \ {c} = Putting /\ Cardinality(Putting) \in Nat
      BY <2>4, PuttingIsFinite
    <3> QED
      BY <2>1, <2>2, <2>4, <3>1 DEF IInv, RoomForPuts
  <2> QED
    BY <2>3, <2>4
<1> QED
  BY <1>1, <1>2, <1>4, <1>5, <1>6, <1>7, <1>8, <1>9 DEF WalkReady, h, kept, rest

\* What the clients can ask for.
LEMMA RequestsAreTyped ==
  ASSUME NEW u \in Users
  PROVE  /\ [kind |-> "query", user |-> u] \in Request
         /\ [kind |-> "put", user |-> u] \in Request
         /\ \A i \in 0 .. MaxTasks : [kind |-> "delete", user |-> u, id |-> i] \in Request
BY DEF Request

\* A step that walks does so from where a walk may start or go on.
LEMMA WalksAreReady ==
  ASSUME IInv, Next
  PROVE  \/ \E c, request :
              /\ LoopIsFree /\ ~InCall(c)
              /\ request.kind \in {"query", "put", "delete"}
              /\ WalkReady(c, request, tasks, <<>>, 0, task)
              /\ Walk(c, request, tasks, <<>>, 0, task)
         \/ \E c \in Callers, status \in {"completed", "failed"} :
              LET kept  == Append(call[c].kept, Head(call[c].rest))
                  table == Answered(c, status)
              IN /\ InCall(c)
                 /\ WalkReady(c, call[c].request, Tail(call[c].rest), kept, call[c].lag, table)
                 /\ Walk(c, call[c].request, Tail(call[c].rest), kept, call[c].lag, table)
         \/ \E c \in Callers : Cancelled(c)
         \/ Tick
<1>1. ASSUME NEW c \in Callers, NEW u \in Users, GetTasks(c, u)
      PROVE  \E request : /\ LoopIsFree /\ ~InCall(c)
                          /\ request.kind \in {"query", "put", "delete"}
                          /\ WalkReady(c, request, tasks, <<>>, 0, task)
                          /\ Walk(c, request, tasks, <<>>, 0, task)
  <2> DEFINE request == [kind |-> "query", user |-> u]
  <2>1. request \in Request /\ request.kind = "query"
    BY RequestsAreTyped
  <2>2. ~InCall(c) /\ LoopIsFree /\ Walk(c, request, tasks, <<>>, 0, task)
    BY <1>1 DEF GetTasks, Start
  <2> HIDE DEF request
  <2>3. WalkReady(c, request, tasks, <<>>, 0, task)
    BY <2>1, <2>2, StartReady
  <2> QED
    BY <2>1, <2>2, <2>3
<1>2. ASSUME NEW c \in Callers, NEW u \in Users, PutTask(c, u)
      PROVE  \E request : /\ LoopIsFree /\ ~InCall(c)
                          /\ request.kind \in {"query", "put", "delete"}
                          /\ WalkReady(c, request, tasks, <<>>, 0, task)
                          /\ Walk(c, request, tasks, <<>>, 0, task)
  <2> DEFINE request == [kind |-> "put", user |-> u]
  <2>1. request \in Request /\ request.kind = "put"
    BY RequestsAreTyped
  <2>2. /\ ~InCall(c) /\ LoopIsFree /\ Walk(c, request, tasks, <<>>, 0, task)
        /\ Born(task) + Cardinality(Putting) < MaxTasks
    BY <1>2 DEF PutTask, Start
  <2> HIDE DEF request
  <2>3. WalkReady(c, request, tasks, <<>>, 0, task)
    BY <2>1, <2>2, StartReady
  <2> QED
    BY <2>1, <2>2, <2>3
<1>3. ASSUME NEW c \in Callers, NEW u \in Users, NEW i \in 0 .. MaxTasks, DeleteTask(c, u, i)
      PROVE  \E request : /\ LoopIsFree /\ ~InCall(c)
                          /\ request.kind \in {"query", "put", "delete"}
                          /\ WalkReady(c, request, tasks, <<>>, 0, task)
                          /\ Walk(c, request, tasks, <<>>, 0, task)
  <2> DEFINE request == [kind |-> "delete", user |-> u, id |-> i]
  <2>1. request \in Request /\ request.kind = "delete"
    BY RequestsAreTyped
  <2>2. ~InCall(c) /\ LoopIsFree /\ Walk(c, request, tasks, <<>>, 0, task)
    BY <1>3 DEF DeleteTask, Start
  <2> HIDE DEF request
  <2>3. WalkReady(c, request, tasks, <<>>, 0, task)
    BY <2>1, <2>2, StartReady
  <2> QED
    BY <2>1, <2>2, <2>3
<1>4. ASSUME NEW c \in Callers, NEW status \in {"completed", "failed"}, OnTaskReturns(c, status)
      PROVE  LET kept  == Append(call[c].kept, Head(call[c].rest))
                 table == Answered(c, status)
             IN /\ InCall(c)
                /\ WalkReady(c, call[c].request, Tail(call[c].rest), kept, call[c].lag, table)
                /\ Walk(c, call[c].request, Tail(call[c].rest), kept, call[c].lag, table)
  <2>1. InCall(c)
    BY <1>4 DEF OnTaskReturns
  <2>2. Walk(c, call[c].request, Tail(call[c].rest), Append(call[c].kept, Head(call[c].rest)),
             call[c].lag, Answered(c, status))
    BY <1>4 DEF OnTaskReturns, Answered
  <2> QED
    BY <2>1, <2>2, ReturnReady
<1> QED
  BY <1>1, <1>2, <1>3, <1>4 DEF Next
\* Time changes ages and lags only.
LEMMA TickHasEffect ==
  ASSUME TypeOK, Tick
  PROVE  /\ tasks' = tasks /\ runs' = runs
         /\ task' \in [Objects -> Task]
         /\ \A t \in Objects :
              /\ task'[t].status = task[t].status
              /\ task[t].status # "unborn" =>
                   task'[t].age = IF task[t].age = OldAge THEN OldAge ELSE task[t].age + 1
         /\ call' \in [Callers -> {NoCall} \cup Call]
         /\ \A c \in Callers :
              /\ InCall(c)' <=> InCall(c)
              /\ InCall(c) => /\ call'[c].request = call[c].request
                              /\ call'[c].kept = call[c].kept
                              /\ call'[c].rest = call[c].rest
                              /\ call'[c].lag = call[c].lag + 1
<1>1. tasks' = tasks /\ runs' = runs
  BY DEF Tick
<1>2. ASSUME NEW t \in Objects
      PROVE  /\ task'[t] \in Task
             /\ task'[t].status = task[t].status
             /\ task[t].status # "unborn" =>
                  task'[t].age = IF task[t].age = OldAge THEN OldAge ELSE task[t].age + 1
  <2>1. task[t] \in Task /\ task[t].age \in 0 .. OldAge
    BY DEF TypeOK, Task
  <2>2. task'[t] = IF task[t].status = "unborn" \/ task[t].age = OldAge
                     THEN task[t] ELSE [task[t] EXCEPT !.age = task[t].age + 1]
    BY DEF Tick
  <2>3. CASE task[t].status = "unborn" \/ task[t].age = OldAge
    BY <2>1, <2>2, <2>3
  <2>4. CASE ~(task[t].status = "unborn" \/ task[t].age = OldAge)
    <3>1. task[t].age + 1 \in 0 .. OldAge
      BY <2>1, <2>4, AgesAreNumbers
    <3>2. task'[t] = [task[t] EXCEPT !.age = task[t].age + 1]
      BY <2>2, <2>4
    <3> QED
      BY <2>1, <2>4, <3>1, <3>2 DEF Task
  <2> QED
    BY <2>3, <2>4
<1>3. task' \in [Objects -> Task]
  <2>1. task' = [t \in Objects |-> task'[t]]
    BY DEF Tick
  <2> QED
    BY <1>2, <2>1
<1>4. ASSUME NEW c \in Callers
      PROVE  /\ call'[c] \in {NoCall} \cup Call
             /\ InCall(c)' <=> InCall(c)
             /\ InCall(c) => /\ call'[c].request = call[c].request
                             /\ call'[c].kept = call[c].kept
                             /\ call'[c].rest = call[c].rest
                             /\ call'[c].lag = call[c].lag + 1
  <2>1. call'[c] = IF InCall(c) THEN [call[c] EXCEPT !.lag = call[c].lag + 1] ELSE NoCall
    BY DEF Tick
  <2>2. CASE InCall(c)
    <3>1. call[c] \in Call /\ call[c].lag \in 0 .. MaxLag /\ call[c].lag < MaxLag
      BY <2>2 DEF TypeOK, InCall, Call, Tick
    <3>2. call[c].lag + 1 \in 0 .. MaxLag
      BY <3>1, AgesAreNumbers
    <3>3. call'[c] \in Call
      BY <2>1, <2>2, <3>1, <3>2 DEF Call
    <3>4. InCall(c)'
      BY <3>3, CallsAreCalls DEF InCall
    <3> QED
      BY <2>1, <2>2, <3>1, <3>3, <3>4 DEF Call
  <2>3. CASE ~InCall(c)
    BY <2>1, <2>3 DEF InCall
  <2> QED
    BY <2>2, <2>3
<1>5. call' \in [Callers -> {NoCall} \cup Call]
  <2>1. call' = [c \in Callers |-> call'[c]]
    BY DEF Tick
  <2> QED
    BY <1>4, <2>1
<1> QED
  BY <1>1, <1>2, <1>3, <1>4, <1>5

LEMMA TickKeepsInvariant ==
  ASSUME IInv, Tick
  PROVE  IInv'
<1>1. TypeOK
  BY DEF IInv
<1>2. /\ tasks' = tasks /\ runs' = runs
      /\ task' \in [Objects -> Task]
      /\ \A t \in Objects : task'[t].status = task[t].status
      /\ call' \in [Callers -> {NoCall} \cup Call]
      /\ \A c \in Callers :
           /\ InCall(c)' <=> InCall(c)
           /\ InCall(c) => /\ call'[c].request = call[c].request
                           /\ call'[c].kept = call[c].kept
                           /\ call'[c].rest = call[c].rest
  BY <1>1, TickHasEffect
<1>3. \A t \in Objects : IsBorn(t)' <=> IsBorn(t)
  BY <1>2 DEF IsBorn
<1>4. TypeOK'
  BY <1>1, <1>2 DEF TypeOK
<1>5. BornInOrder'
  BY <1>3 DEF IInv, BornInOrder
<1>6. RoomForPuts'
  <2>1. Born(task') = Born(task)
    BY <1>2, SameBorn
  <2>2. Born(task)' = Born(task)
    BY <2>1 DEF Born
  <2>3. Putting' = Putting
    BY <1>2 DEF Putting
  <2> QED
    BY <2>2, <2>3 DEF IInv, RoomForPuts
<1>7. ListsAreInOrder'
  BY <1>2 DEF IInv, ListsAreInOrder, InOrder, AllBefore
<1>8. ListedAreBorn'
  <2>1. ASSUME NEW t \in ToSet(tasks')
        PROVE  IsBorn(t)'
    <3>1. t \in Objects /\ IsBorn(t)
      BY <1>1, <1>2, <2>1, ObjectsAreNumbers DEF IInv, ListedAreBorn, TypeOK
    <3> QED
      BY <1>3, <3>1
  <2>2. ASSUME NEW d \in Callers, InCall(d)',
               NEW t \in ToSet(call'[d].kept) \cup ToSet(call'[d].rest)
        PROVE  IsBorn(t)'
    <3>1. InCall(d) /\ call[d] \in Call
      BY <1>1, <1>2, <2>2 DEF InCall, TypeOK
    <3>2. IsBorn(t) /\ t \in Objects
      BY <1>2, <2>2, <3>1, ObjectsAreNumbers DEF IInv, ListedAreBorn, Call
    <3> QED
      BY <1>3, <3>2
  <2> QED
    BY <2>1, <2>2 DEF ListedAreBorn
<1> QED
  BY <1>4, <1>5, <1>6, <1>7, <1>8 DEF IInv

LEMMA CancelKeepsInvariant ==
  ASSUME IInv, NEW c \in Callers, Cancelled(c)
  PROVE  IInv'
<1>1. /\ tasks' = tasks /\ runs' = runs /\ task' = task
      /\ call' = [call EXCEPT ![c] = NoCall]
      /\ call \in [Callers -> {NoCall} \cup Call]
  BY DEF Cancelled, IInv, TypeOK
<1>2. /\ call' \in [Callers -> {NoCall} \cup Call]
      /\ \A d \in Callers : InCall(d)' => InCall(d) /\ call'[d] = call[d]
  BY <1>1 DEF InCall
<1>3. TypeOK'
  BY <1>1, <1>2 DEF IInv, TypeOK
<1>4. RoomForPuts'
  <2>1. Putting' = Putting \ {c}
    BY <1>1 DEF Putting, InCall
  <2>2. Cardinality(Putting \ {c}) <= Cardinality(Putting)
    <3>1. Putting \ {c} \in SUBSET Putting
      OBVIOUS
    <3> QED
      BY <3>1, PuttingIsFinite, FS_Subset
  <2>3. Born(task)' = Born(task)
    BY <1>1 DEF Born
  <2> DEFINE b == Born(task)
             p == Cardinality(Putting)
             q == Cardinality(Putting \ {c})
  <2>4. b \in Nat /\ p \in Nat /\ q \in Nat /\ MaxTasks \in Nat
    BY BornTasks, PuttingIsFinite DEF IInv
  <2>5. b + p <= MaxTasks /\ q <= p
    BY <2>2 DEF IInv, RoomForPuts
  <2> HIDE DEF b, p, q
  <2>6. b + q <= MaxTasks
    BY <2>4, <2>5
  <2> QED
    BY <2>1, <2>3, <2>6 DEF RoomForPuts, b, q
<1>5. BornInOrder' /\ ListsAreInOrder' /\ ListedAreBorn'
  BY <1>1, <1>2 DEF IInv, BornInOrder, ListsAreInOrder, ListedAreBorn, IsBorn, InOrder, AllBefore
<1> QED
  BY <1>3, <1>4, <1>5 DEF IInv

LEMMA InvariantInitial == Init => IInv
<1> SUFFICES ASSUME Init PROVE IInv
  OBVIOUS
<1>1. \A c \in Callers : ~InCall(c)
  BY DEF Init, InCall
<1>2. tasks = <<>> /\ ToSet(tasks) = {} /\ InOrder(tasks)
  BY DEF Init, ToSet, InOrder
<1>3. \A t \in Objects : task[t] = Unborn /\ ~IsBorn(t)
  BY DEF Init, Unborn, IsBorn
<1>4. Unborn \in Task
  <2>1. (CHOOSE u \in Users : TRUE) \in Users
    BY TaskQueueAssumption
  <2>2. 0 \in 0 .. OldAge /\ "unborn" \in Statuses
    BY AgesAreNumbers DEF Statuses
  <2> QED
    BY <2>1, <2>2 DEF Unborn, Task
<1>5. TypeOK
  BY <1>1, <1>4, EmptySeq DEF Init, TypeOK
<1>6. BornInOrder
  BY <1>3 DEF BornInOrder
<1>7. RoomForPuts
  <2>1. Putting = {}
    BY <1>1 DEF Putting
  <2>2. {t \in Objects : task[t].status # "unborn"} = {}
    BY <1>3 DEF IsBorn
  <2>3. Born(task) = 0 /\ Cardinality(Putting) = 0
    BY <2>1, <2>2, FS_EmptySet DEF Born
  <2> QED
    BY <2>3, TaskQueueAssumption DEF RoomForPuts
<1> QED
  BY <1>1, <1>2, <1>5, <1>6, <1>7 DEF IInv, ListsAreInOrder, ListedAreBorn

LEMMA InvariantInductive ==
  ASSUME IInv, [Next]_vars
  PROVE  IInv'
<1>1. CASE Next
  BY <1>1, WalksAreReady, WalkKeepsInvariant, CancelKeepsInvariant, TickKeepsInvariant
<1>2. CASE UNCHANGED vars
  BY <1>2 DEF vars, IInv, TypeOK, BornInOrder, RoomForPuts, Born, Putting, InCall,
              ListsAreInOrder, ListedAreBorn, IsBorn, InOrder, AllBefore
<1> QED
  BY <1>1, <1>2

\* However calls overlap, tasks are created one after the other with room for the
\* puts under way, and the list and those that calls are building have the tasks
\* in the order of their creation, none twice and none that does not exist.
THEOREM InvariantCorrect == Spec => []IInv
<1>1. Init => IInv
  BY InvariantInitial
<1>2. IInv /\ [Next]_vars => IInv'
  BY InvariantInductive
<1> QED
  BY <1>1, <1>2, PTL DEF Spec

\* The type invariant holds in every reachable state, however calls overlap.
THEOREM TypeCorrect == Spec => []TypeOK
<1>1. IInv => TypeOK
  BY DEF IInv
<1> QED
  BY <1>1, InvariantCorrect, PTL

-----------------------------------------------------------------------------
(* What has ended.                                                         *)

\* A walk leaves the tasks that have ended alone, but for canceling one.
LEMMA WalkLeavesTheEnded ==
  ASSUME IInv, NEW c, NEW request, NEW rest, NEW kept, NEW lag, NEW table,
         WalkReady(c, request, rest, kept, lag, table),
         Walk(c, request, rest, kept, lag, table),
         NEW t \in Objects, table[t].status \in Terminal
  PROVE  /\ task'[t].status \in Terminal
         /\ runs'[t] = runs[t]
         /\ table[t].status = "canceled" => task'[t].status = "canceled"
<1>1. WalkEffect(c, request, rest, kept, lag, table)
  BY WalkHasEffect DEF WalkReady
<1>2. PICK walked \in Seq(Objects), list \in Seq(Objects) :
        \/ /\ Finish(request, list, Activate(table, walked, lag))
           /\ UNCHANGED runs
        \/ \E after \in Seq(Objects) :
             /\ after # <<>>
             /\ Due(table[Head(after)], lag)
             /\ task' = Activate(table, walked, lag)
             /\ runs' = [runs EXCEPT ![Head(after)] = Min({@ + 1, 2})]
  BY <1>1 DEF WalkEffect
<1> DEFINE swept == Activate(table, walked, lag)
<1>3. /\ swept \in [Objects -> Task]
      /\ Gapless(swept)
      /\ Born(swept) = Born(task)
  BY SweptIsBornAlike
<1>4. swept[t] = table[t]
  <2>1. ~Ripe(table[t], lag)
    BY DEF Ripe, Terminal
  <2>2. table \in [Objects -> Task] /\ lag \in 0 .. MaxLag
    BY DEF WalkReady
  <2>3. IF t \in ToSet(walked) /\ Ripe(table[t], lag)
          THEN swept[t].status = "active" /\ swept[t].age = lag
          ELSE swept[t] = table[t]
    BY <2>2, ActivateHasEffect
  <2> HIDE DEF swept
  <2> QED
    BY <2>1, <2>3
<1> HIDE DEF swept
<1>5. ASSUME Finish(request, list, swept), UNCHANGED runs
      PROVE  /\ task'[t].status \in Terminal /\ runs'[t] = runs[t]
             /\ table[t].status = "canceled" => task'[t].status = "canceled"
  <2>1. request \in Request /\ (request.kind = "put" => Born(swept) < MaxTasks)
    <3>1. Born(task) \in Nat /\ MaxTasks \in Nat /\ Cardinality(Putting \ {c}) \in Nat
      BY BornTasks, PuttingIsFinite DEF IInv
    <3> QED
      BY <1>3, <3>1 DEF WalkReady
  <2>2. \/ /\ swept[Born(swept) + 1].status = "unborn"
           /\ \A s \in Objects : s # Born(swept) + 1 => task'[s] = swept[s]
        \/ \A s \in Objects : task'[s] = swept[s] \/ task'[s].status = "canceled"
    BY <1>3, <1>5, <2>1, FinishHasEffect
  <2>3. task'[t] = swept[t] \/ task'[t].status = "canceled"
    BY <1>4, <2>2 DEF Terminal
  <2> QED
    BY <1>4, <1>5, <2>3 DEF Terminal
<1>6. ASSUME NEW after \in Seq(Objects), after # <<>>,
             Due(table[Head(after)], lag),
             task' = swept,
             runs' = [runs EXCEPT ![Head(after)] = Min({@ + 1, 2})]
      PROVE  /\ task'[t].status \in Terminal /\ runs'[t] = runs[t]
             /\ table[t].status = "canceled" => task'[t].status = "canceled"
  <2>1. Head(after) # t
    BY <1>6 DEF Due, Terminal
  <2> QED
    BY <1>4, <1>6, <2>1 DEF IInv, TypeOK
<1> QED
  BY <1>2, <1>5, <1>6 DEF swept

\* In whatever way calls overlap, a task that has ended never comes back, its
\* command never runs again, and only a command that was still running when its
\* task was canceled can give it another status.
THEOREM EndedIsFinalCorrect == Spec => EndedIsFinal
<1> DEFINE Kept == \A t \in Objects : task[t].status \in Terminal =>
                     /\ task'[t].status \in Terminal
                     /\ runs'[t] = runs[t]
                     /\ task[t].status = "canceled" /\ task'[t].status # "canceled"
                          => \E c \in Callers : InCall(c) /\ Head(call[c].rest) = t
<1>1. ASSUME IInv, Next
      PROVE  Kept
  <2> SUFFICES ASSUME NEW t \in Objects, task[t].status \in Terminal
               PROVE  /\ task'[t].status \in Terminal
                      /\ runs'[t] = runs[t]
                      /\ task[t].status = "canceled" /\ task'[t].status # "canceled"
                           => \E c \in Callers : InCall(c) /\ Head(call[c].rest) = t
    OBVIOUS
  <2>1. ASSUME NEW c, NEW request,
               WalkReady(c, request, tasks, <<>>, 0, task),
               Walk(c, request, tasks, <<>>, 0, task)
        PROVE  /\ task'[t].status \in Terminal /\ runs'[t] = runs[t]
               /\ task[t].status = "canceled" => task'[t].status = "canceled"
    BY <1>1, <2>1, WalkLeavesTheEnded
  <2>2. ASSUME NEW c \in Callers, NEW status \in {"completed", "failed"}, InCall(c),
               WalkReady(c, call[c].request, Tail(call[c].rest),
                         Append(call[c].kept, Head(call[c].rest)), call[c].lag,
                         Answered(c, status)),
               Walk(c, call[c].request, Tail(call[c].rest),
                    Append(call[c].kept, Head(call[c].rest)), call[c].lag,
                    Answered(c, status))
        PROVE  /\ task'[t].status \in Terminal /\ runs'[t] = runs[t]
               /\ t # Head(call[c].rest) =>
                    (task[t].status = "canceled" => task'[t].status = "canceled")
    <3> DEFINE table == Answered(c, status)
    <3>1. /\ table[Head(call[c].rest)].status = status
          /\ t # Head(call[c].rest) => table[t] = task[t]
      BY <1>1, <2>2, AnsweredHasEffect
    <3>2. table[t].status \in Terminal
      BY <3>1 DEF Terminal
    <3> HIDE DEF table
    <3>3. /\ task'[t].status \in Terminal /\ runs'[t] = runs[t]
          /\ table[t].status = "canceled" => task'[t].status = "canceled"
      BY <1>1, <2>2, <3>2, WalkLeavesTheEnded DEF table
    <3> QED
      BY <3>1, <3>3
  <2>3. ASSUME (\E c \in Callers : Cancelled(c)) \/ Tick
        PROVE  task'[t].status = task[t].status /\ runs'[t] = runs[t]
    BY <1>1, <2>3, TickHasEffect DEF Cancelled, IInv
  <2> QED
    BY <1>1, <2>1, <2>2, <2>3, WalksAreReady
<1>2. ASSUME UNCHANGED vars
      PROVE  Kept
  BY <1>2 DEF vars
<1>3. IInv /\ [Next]_vars => [Kept]_vars
  BY <1>1, <1>2
<1> QED
  BY <1>3, InvariantCorrect, PTL DEF Spec, EndedIsFinal

-----------------------------------------------------------------------------
(* Calls that do not overlap.                                              *)

OpenIn(table, t) == table[t].status \in {"pending", "active"}

\* OlderIsFurther, of a table that a walk has in hand.
InLine(table) ==
  \A s, t \in Objects : s < t /\ OpenIn(table, s) /\ OpenIn(table, t) =>
    /\ table[t].status = "active" => table[s].status = "active"
    /\ table[s].status = table[t].status => table[t].age <= table[s].age

\* What process_tasks starts from, or goes on with, if no other call is under
\* way: whatever is open is still to be walked, and has not run.
SerialReady(c, rest, kept, lag, table) ==
  /\ \A d \in Callers : InCall(d) => d = c
  /\ ToSet(kept) \cup ToSet(rest) \subseteq ToSet(tasks)
  /\ \A t \in Objects : OpenIn(table, t) => t \in ToSet(rest)
  /\ \A t \in Objects : runs[t] <= 1 /\ (table[t].status \notin Terminal => runs[t] = 0)
  /\ InLine(table)
  /\ \A t \in Objects : table[t].status = "active" => lag <= table[t].age

LEMMA StartSerially ==
  ASSUME ~Yields, IInv, SerialInv, NEW c, LoopIsFree
  PROVE  SerialReady(c, tasks, <<>>, 0, task)
<1>1. \A d \in Callers : ~InCall(d)
  BY DEF LoopIsFree
<1>2. ToSet(<<>>) = {}
  BY DEF ToSet
<1>3. \A t \in Objects : OpenIn(task, t) => t \in ToSet(tasks)
  BY DEF SerialInv, NothingIsLost, OpenIn
<1>4. \A t \in Objects : runs[t] <= 1 /\ (task[t].status \notin Terminal => runs[t] = 0)
  <2> SUFFICES ASSUME NEW t \in Objects
               PROVE  runs[t] <= 1 /\ (task[t].status \notin Terminal => runs[t] = 0)
    OBVIOUS
  <2>1. task[t].status \in {"unborn", "pending", "active"} \cup Terminal
    BY DEF IInv, TypeOK, Task, Statuses
  <2> QED
    BY <1>1, <2>1 DEF SerialInv, AtMostOnce, RunsHaveStarted
<1>5. InLine(task)
  BY DEF InLine, OpenIn, SerialInv, OlderIsFurther, IsOpen
<1>6. \A t \in Objects : 0 <= task[t].age
  BY AgesAreNumbers DEF IInv, TypeOK, Task
<1> QED
  BY <1>1, <1>2, <1>3, <1>4, <1>5, <1>6 DEF SerialReady

LEMMA ReturnSerially ==
  ASSUME IInv, SerialInv, NEW c \in Callers, InCall(c), NEW status \in {"completed", "failed"}
  PROVE  SerialReady(c, Tail(call[c].rest), Append(call[c].kept, Head(call[c].rest)),
                     call[c].lag, Answered(c, status))
<1> DEFINE h     == Head(call[c].rest)
           kept  == call[c].kept
           rest  == call[c].rest
           table == Answered(c, status)
<1>1. /\ call[c] \in Call /\ h \in ToSet(rest) /\ h \in Objects
      /\ table[h].status = status
      /\ \A t \in Objects : t # h => table[t] = task[t]
  BY AnsweredHasEffect
<1>2. /\ kept \in Seq(Objects) /\ rest \in Seq(Objects) /\ rest # <<>> /\ InOrder(rest)
  BY <1>1 DEF Call, IInv, TypeOK, ListsAreInOrder
<1>3. ToSet(rest) = {h} \cup ToSet(Tail(rest))
  BY <1>2, HeadIsFirst
<1>4. ToSet(Append(kept, h)) = ToSet(kept) \cup {h}
  <2>1. kept \in Seq(Nat) /\ h \in Nat
    BY <1>1, <1>2, ObjectsAreNumbers DEF Objects
  <2> HIDE DEF h, kept
  <2> QED
    BY <2>1, AppendToList
<1> HIDE DEF h, kept, rest, table
<1>5. \A t \in Objects : table[t].status \notin Terminal => t # h /\ table[t] = task[t]
  BY <1>1 DEF Terminal
<1>6. \A t \in Objects : OpenIn(table, t) => t # h /\ table[t] = task[t] /\ OpenIn(task, t)
  BY <1>5 DEF OpenIn, Terminal
<1>7. \A d \in Callers : InCall(d) => d = c
  BY DEF SerialInv, OneCallAtATime
<1>8. ToSet(Append(kept, h)) \cup ToSet(Tail(rest)) \subseteq ToSet(tasks)
  BY <1>1, <1>3, <1>4 DEF SerialInv, CallsLoseNothing, kept, rest
<1>9. \A t \in Objects : OpenIn(table, t) => t \in ToSet(Tail(rest))
  <2>1. \A t \in Objects : OpenIn(task, t) => t \in ToSet(rest)
    BY DEF SerialInv, CallsLoseNothing, IsOpen, OpenIn, rest
  <2> QED
    BY <1>3, <1>6, <2>1
<1>10. \A t \in Objects : runs[t] <= 1 /\ (table[t].status \notin Terminal => runs[t] = 0)
  <2> SUFFICES ASSUME NEW t \in Objects
               PROVE  runs[t] <= 1 /\ (table[t].status \notin Terminal => runs[t] = 0)
    OBVIOUS
  <2>1. runs[t] <= 1
    BY DEF SerialInv, AtMostOnce
  <2>2. ASSUME table[t].status \notin Terminal
        PROVE  runs[t] = 0
    <3>1. t # h /\ task[t].status \notin Terminal
      BY <1>5, <2>2
    <3>2. task[t].status \in {"unborn", "pending", "active"}
      BY <3>1 DEF IInv, TypeOK, Task, Statuses
    <3>3. CASE task[t].status = "active"
      BY <1>7, <3>1, <3>3 DEF SerialInv, RunsHaveStarted, h
    <3>4. CASE task[t].status # "active"
      BY <3>2, <3>4 DEF SerialInv, RunsHaveStarted
    <3> QED
      BY <3>3, <3>4
  <2> QED
    BY <2>1, <2>2
<1>11. InLine(table)
  <2>1. InLine(task)
    BY DEF InLine, OpenIn, SerialInv, OlderIsFurther, IsOpen
  <2> QED
    BY <1>6, <2>1 DEF InLine
<1>12. \A t \in Objects : table[t].status = "active" => call[c].lag <= table[t].age
  <2>1. \A t \in Objects : task[t].status = "active" => call[c].lag <= task[t].age
    BY DEF SerialInv, ActiveSinceTheWalk
  <2> QED
    BY <1>5, <2>1 DEF Terminal
<1> QED
  BY <1>7, <1>8, <1>9, <1>10, <1>11, <1>12 DEF SerialReady, h, kept, rest, table

\* Activating what a walk goes past keeps the tasks in line, as long as the walk
\* goes past all that is open before it.
LEMMA ActivateKeepsInLine ==
  ASSUME NEW table \in [Objects -> Task], NEW lag \in 0 .. MaxLag, NEW walked,
         InLine(table),
         \A t \in Objects : table[t].status = "active" => lag <= table[t].age,
         \A s, t \in Objects : s < t /\ OpenIn(table, s) /\ t \in ToSet(walked)
                                 => s \in ToSet(walked)
  PROVE  LET swept == Activate(table, walked, lag)
         IN /\ InLine(swept)
            /\ \A t \in Objects : swept[t].status = "active" => lag <= swept[t].age
            /\ \A t \in Objects : OpenIn(swept, t) <=> OpenIn(table, t)
            /\ \A t \in Objects : table[t].status # "pending" => swept[t] = table[t]
            /\ \A t \in Objects : swept[t].status \in Terminal <=> table[t].status \in Terminal
<1> DEFINE swept   == Activate(table, walked, lag)
           past    == ToSet(walked)
           ripe(t) == t \in past /\ Ripe(table[t], lag)
<1>1. \A t \in Objects :
        IF t \in past /\ Ripe(table[t], lag)
          THEN swept[t].status = "active" /\ swept[t].age = lag
          ELSE swept[t] = table[t]
  BY ActivateHasEffect
<1>2. /\ UpdateSecs \in Nat /\ lag \in Nat
      /\ \A t \in Objects : table[t].age \in Nat
  BY AgesAreNumbers DEF Task
<1>3. \A t \in Objects : ripe(t) => /\ table[t].status = "pending"
                                    /\ table[t].age > UpdateSecs + lag
  BY DEF Ripe
<1>4. \A t \in Objects : /\ ripe(t) => swept[t].status = "active" /\ swept[t].age = lag
                         /\ ~ripe(t) => swept[t] = table[t]
  BY <1>1
<1>5. \A t \in Objects : t \in past /\ table[t].status = "pending" /\ table[t].age > UpdateSecs + lag
                           => ripe(t)
  BY DEF Ripe
<1>6. \A s, t \in Objects : s < t /\ OpenIn(table, s) /\ t \in past => s \in past
  OBVIOUS
<1> HIDE DEF swept, past, ripe
<1>7. \A t \in Objects : OpenIn(swept, t) <=> OpenIn(table, t)
  BY <1>3, <1>4 DEF OpenIn
<1>8. \A t \in Objects : table[t].status # "pending" => swept[t] = table[t]
  BY <1>3, <1>4
<1>9. \A t \in Objects : swept[t].status \in Terminal <=> table[t].status \in Terminal
  BY <1>3, <1>4 DEF Terminal
<1>10. \A t \in Objects : swept[t].status = "active" => lag <= swept[t].age
  BY <1>2, <1>4
<1>11. ASSUME NEW s \in Objects, NEW t \in Objects, s < t, OpenIn(swept, s), OpenIn(swept, t)
       PROVE  /\ swept[t].status = "active" => swept[s].status = "active"
              /\ swept[s].status = swept[t].status => swept[t].age <= swept[s].age
  <2>1. /\ OpenIn(table, s) /\ OpenIn(table, t)
        /\ table[t].status = "active" => table[s].status = "active"
        /\ table[s].status = table[t].status => table[t].age <= table[s].age
    BY <1>7, <1>11 DEF InLine
  <2>2. table[s].status \in {"pending", "active"} /\ table[t].status \in {"pending", "active"}
    BY <2>1 DEF OpenIn
  <2>3. CASE ripe(t) /\ table[s].status = "pending"
    <3>1. s \in past /\ table[t].age <= table[s].age
      BY <1>3, <1>6, <1>11, <2>1, <2>3 DEF ripe
    <3>2. table[s].age > UpdateSecs + lag
      BY <1>2, <1>3, <2>3, <3>1
    <3>3. ripe(s)
      BY <1>5, <2>3, <3>1, <3>2
    <3> QED
      BY <1>2, <1>4, <2>3, <3>3
  <2>4. CASE ripe(t) /\ table[s].status = "active"
    <3>1. swept[s] = table[s] /\ lag <= table[s].age
      BY <1>8, <2>4
    <3> QED
      BY <1>4, <2>4, <3>1
  <2>5. CASE ~ripe(t) /\ table[t].status = "active"
    <3>1. swept[t] = table[t] /\ swept[s] = table[s] /\ table[s].status = "active"
      BY <1>4, <1>8, <2>1, <2>5
    <3> QED
      BY <2>1, <2>5, <3>1
  <2>6. CASE ~ripe(t) /\ table[t].status = "pending"
    <3>1. swept[t] = table[t]
      BY <1>4, <2>6
    <3>2. CASE ripe(s)
      BY <1>4, <2>6, <3>1, <3>2
    <3>3. CASE ~ripe(s)
      BY <1>4, <2>1, <2>6, <3>1, <3>3
    <3> QED
      BY <3>2, <3>3
  <2> QED
    BY <2>2, <2>3, <2>4, <2>5, <2>6
<1>12. InLine(swept)
  BY <1>11 DEF InLine
<1> QED
  BY <1>7, <1>8, <1>9, <1>10, <1>12 DEF swept

\* A walk meets the open tasks oldest first, so what it goes past it has
\* activated at most, and what it hands to on_task is the first open task.
LEMMA WalkKeepsSerial ==
  ASSUME IInv, NEW c, NEW request, NEW rest, NEW kept, NEW lag, NEW table,
         WalkReady(c, request, rest, kept, lag, table),
         SerialReady(c, rest, kept, lag, table),
         Walk(c, request, rest, kept, lag, table)
  PROVE  SerialInv'
<1>1. WalkEffect(c, request, rest, kept, lag, table)
  BY WalkHasEffect DEF WalkReady
<1>2. PICK walked \in Seq(Objects), list \in Seq(Objects) :
        /\ ToSet(walked) \subseteq ToSet(rest)
        /\ \A t \in ToSet(walked) : ~Due(table[t], lag)
        /\ ToSet(list) = ToSet(kept) \cup {t \in ToSet(walked) : ~Old(table[t], lag)}
        /\ \/ /\ ToSet(walked) = ToSet(rest)
              /\ Finish(request, list, Activate(table, walked, lag))
              /\ call' = [call EXCEPT ![c] = NoCall]
              /\ UNCHANGED runs
           \/ \E after \in Seq(Objects) :
                /\ after # <<>> /\ InOrder(after)
                /\ ToSet(rest) = ToSet(walked) \cup ToSet(after)
                /\ AllBefore(ToSet(walked) \cup ToSet(kept), ToSet(after))
                /\ Due(table[Head(after)], lag)
                /\ task' = Activate(table, walked, lag)
                /\ call' = [call EXCEPT ![c] = [request |-> request, lag |-> lag,
                                                kept |-> list, rest |-> after]]
                /\ runs' = [runs EXCEPT ![Head(after)] = Min({@ + 1, 2})]
                /\ UNCHANGED tasks
  BY <1>1 DEF WalkEffect
<1> DEFINE past  == ToSet(walked)
           swept == Activate(table, walked, lag)
<1>3. /\ swept \in [Objects -> Task]
      /\ \A t \in Objects : swept[t].status = "unborn" <=> ~IsBorn(t)
      /\ Gapless(swept)
      /\ Born(swept) = Born(task)
  BY SweptIsBornAlike
<1>4. /\ c \in Callers /\ request \in Request /\ lag \in 0 .. MaxLag
      /\ table \in [Objects -> Task] /\ rest \in Seq(Objects) /\ kept \in Seq(Objects)
      /\ call \in [Callers -> {NoCall} \cup Call]
      /\ tasks \in Seq(Objects) /\ runs \in [Objects -> 0 .. 2]
  BY DEF WalkReady, IInv, TypeOK
<1>5. /\ \A d \in Callers : d # c => ~InCall(d)
      /\ ToSet(kept) \cup ToSet(rest) \subseteq ToSet(tasks)
      /\ \A t \in Objects : OpenIn(table, t) => t \in ToSet(rest)
      /\ \A t \in Objects : runs[t] <= 1 /\ (table[t].status \notin Terminal => runs[t] = 0)
      /\ InLine(table)
      /\ \A t \in Objects : table[t].status = "active" => lag <= table[t].age
  BY DEF SerialReady
<1>6. /\ Born(task) \in 0 .. MaxTasks /\ MaxTasks \in Nat
      /\ \A t \in Objects : IsBorn(t) <=> t <= Born(task)
  BY BornTasks DEF IInv
<1>7. ASSUME \A s, t \in Objects : s < t /\ OpenIn(table, s) /\ t \in past => s \in past
      PROVE  /\ InLine(swept)
             /\ \A t \in Objects : swept[t].status = "active" => lag <= swept[t].age
             /\ \A t \in Objects : OpenIn(swept, t) <=> OpenIn(table, t)
             /\ \A t \in Objects : table[t].status # "pending" => swept[t] = table[t]
             /\ \A t \in Objects : swept[t].status \in Terminal <=> table[t].status \in Terminal
  BY <1>4, <1>5, <1>7, ActivateKeepsInLine
<1>8. \A t \in Objects : /\ table[t].status \in {"unborn", "pending", "active"} \cup Terminal
                         /\ table[t].status \in Terminal => ~OpenIn(table, t)
  BY <1>4 DEF Task, Statuses, OpenIn, Terminal
<1> HIDE DEF swept
<1>9. ASSUME past = ToSet(rest), Finish(request, list, swept),
             call' = [call EXCEPT ![c] = NoCall], UNCHANGED runs
      PROVE  SerialInv'
  <2> DEFINE new == Born(task) + 1
  <2>1. /\ InLine(swept)
        /\ \A t \in Objects : OpenIn(swept, t) <=> OpenIn(table, t)
        /\ \A t \in Objects : swept[t].status \in Terminal <=> table[t].status \in Terminal
    BY <1>5, <1>7, <1>9
  <2>2. /\ task' \in [Objects -> Task]
        /\ \/ /\ request.kind = "put"
              /\ new \in Objects
              /\ swept[new].status = "unborn"
              /\ tasks' = Append(list, new)
              /\ task'[new].status = "pending" /\ task'[new].age = 0
              /\ \A t \in Objects : t # new => task'[t] = swept[t]
           \/ /\ request.kind # "put"
              /\ tasks' = list
              /\ \A t \in Objects : \/ task'[t] = swept[t]
                                    \/ t \in ToSet(list) /\ task'[t].status = "canceled"
    <3>1. request.kind = "put" => Born(swept) < MaxTasks
      <4>1. Cardinality(Putting \ {c}) \in Nat /\ Born(task) \in Nat
        BY BornTasks, PuttingIsFinite DEF IInv
      <4> QED
        BY <1>3, <1>6, <4>1 DEF WalkReady
    <3> QED
      BY <1>3, <1>4, <1>9, <3>1, FinishHasEffect
  <2> HIDE DEF new
  <2>3. /\ \A t \in ToSet(list) : t \in ToSet(tasks')
        /\ request.kind = "put" => new \in ToSet(tasks')
    <3>1. CASE request.kind = "put"
      <4>1. list \in Seq(Nat) /\ new \in Nat
        BY <2>2, <3>1, ObjectsAreNumbers DEF Objects
      <4>2. ToSet(tasks') = ToSet(list) \cup {new}
        BY <2>2, <3>1, <4>1, AppendToList
      <4> QED
        BY <4>2
    <3>2. CASE request.kind # "put"
      BY <2>2, <3>2
    <3> QED
      BY <3>1, <3>2
  <2>4. \A d \in Callers : ~InCall(d)'
    BY <1>4, <1>5, <1>9 DEF InCall
  \* Every task is the new one, or as the walk left it, or canceled.
  <2>5. ASSUME NEW t \in Objects, ~(request.kind = "put" /\ t = new),
               task'[t].status \notin Terminal
        PROVE  task'[t] = swept[t]
    BY <2>2, <2>5 DEF Terminal
  <2>6. NothingIsLost'
    <3> SUFFICES ASSUME NEW t \in Objects, OpenIn(task', t)
                 PROVE  t \in ToSet(tasks')
      BY DEF NothingIsLost, OpenIn
    <3>1. CASE request.kind = "put" /\ t = new
      BY <2>3, <3>1
    <3>2. CASE ~(request.kind = "put" /\ t = new)
      <4>1. task'[t] = swept[t]
        BY <2>5, <3>2 DEF OpenIn, Terminal
      <4>2. OpenIn(table, t)
        BY <2>1, <4>1 DEF OpenIn
      <4>3. t \in past /\ ~Old(table[t], lag)
        BY <1>5, <1>8, <1>9, <4>2 DEF Old
      <4> QED
        BY <1>2, <2>3, <4>3
    <3> QED
      BY <3>1, <3>2
  <2>7. AtMostOnce'
    BY <1>5, <1>9 DEF AtMostOnce
  <2>8. RunsHaveStarted'
    <3> SUFFICES ASSUME NEW t \in Objects, task'[t].status \notin Terminal
                 PROVE  runs'[t] = 0
      BY DEF RunsHaveStarted, Terminal
    <3>1. CASE request.kind = "put" /\ t = new
      <4>1. swept[t].status \notin Terminal
        BY <2>2, <3>1 DEF Terminal
      <4> QED
        BY <1>5, <1>9, <2>1, <4>1
    <3>2. CASE ~(request.kind = "put" /\ t = new)
      BY <1>5, <1>9, <2>1, <2>5, <3>2
    <3> QED
      BY <3>1, <3>2
  <2>9. OlderIsFurther'
    <3> SUFFICES ASSUME NEW s \in Objects, NEW t \in Objects, s < t,
                        OpenIn(task', s), OpenIn(task', t)
                 PROVE  /\ task'[t].status = "active" => task'[s].status = "active"
                        /\ task'[s].status = task'[t].status => task'[t].age <= task'[s].age
      BY DEF OlderIsFurther, IsOpen, OpenIn
    <3>1. CASE request.kind = "put" /\ t = new
      <4>1. task'[s].age \in Nat
        BY <2>2, AgesAreNumbers DEF Task
      <4> QED
        BY <2>2, <3>1, <4>1
    <3>2. CASE request.kind = "put" /\ s = new
      <4>1. t # new /\ task'[t] = swept[t]
        BY <2>2, <3>2 DEF Objects
      <4>2. IsBorn(t)
        BY <1>3, <4>1 DEF OpenIn
      <4> QED
        BY <1>6, <3>2, <4>2 DEF new, Objects
    <3>3. CASE ~(request.kind = "put" /\ (t = new \/ s = new))
      <4>1. task'[t] = swept[t] /\ task'[s] = swept[s]
        BY <2>5, <3>3 DEF OpenIn, Terminal
      <4>2. OpenIn(swept, s) /\ OpenIn(swept, t)
        BY <4>1 DEF OpenIn
      <4> QED
        BY <2>1, <4>1, <4>2 DEF InLine
    <3> QED
      BY <3>1, <3>2, <3>3
  <2> QED
    BY <2>4, <2>6, <2>7, <2>8, <2>9
       DEF SerialInv, OneCallAtATime, CallsLoseNothing, RunningIsFirst, ActiveSinceTheWalk
<1>10. ASSUME NEW after \in Seq(Objects),
              after # <<>>, InOrder(after),
              ToSet(rest) = past \cup ToSet(after),
              AllBefore(past \cup ToSet(kept), ToSet(after)),
              Due(table[Head(after)], lag),
              task' = swept,
              call' = [call EXCEPT ![c] = [request |-> request, lag |-> lag,
                                           kept |-> list, rest |-> after]],
              runs' = [runs EXCEPT ![Head(after)] = Min({@ + 1, 2})],
              UNCHANGED tasks
       PROVE  SerialInv'
  <2> DEFINE h   == Head(after)
             rec == [request |-> request, lag |-> lag, kept |-> list, rest |-> after]
  <2>1. /\ h \in ToSet(after) /\ h \in Objects
        /\ \A t \in ToSet(after) : h = t \/ h < t
    BY <1>10, HeadIsFirst, ObjectsAreNumbers
  <2>2. /\ call'[c] = rec /\ rec.lag = lag /\ rec.kept = list /\ rec.rest = after
        /\ \A d \in Callers : d # c => call'[d] = call[d]
    BY <1>4, <1>10
  <2>3. \A d \in Callers : InCall(d)' => d = c
    BY <1>5, <2>2 DEF InCall
  <2> HIDE DEF h, rec
  \* The task to execute is active and due, so an open one before it is too.
  <2>4. \A t \in past : ~OpenIn(table, t)
    <3> SUFFICES ASSUME NEW t \in past, OpenIn(table, t) PROVE FALSE
      OBVIOUS
    <3>1. t \in Objects /\ t < h
      BY <1>2, <1>10, <2>1, ObjectsAreNumbers DEF AllBefore
    <3>2. table[h].status = "active" /\ table[h].age > UpdateSecs + lag
      BY <1>10 DEF Due, h
    <3>3. table[t].status = "active" /\ table[h].age <= table[t].age
      BY <1>5, <2>1, <3>1, <3>2 DEF InLine, OpenIn
    <3>4. /\ table[h].age \in Nat /\ table[t].age \in Nat
          /\ UpdateSecs \in Nat /\ lag \in Nat
      BY <1>4, <2>1, <3>1, AgesAreNumbers DEF Task
    <3>5. table[t].age > UpdateSecs + lag
      BY <3>2, <3>3, <3>4
    <3> QED
      BY <1>2, <3>3, <3>5 DEF Due
  <2>5. \A t \in Objects : task'[t] = table[t]
    <3> SUFFICES ASSUME NEW t \in Objects PROVE swept[t] = table[t]
      BY <1>10
    <3>1. IF t \in past /\ Ripe(table[t], lag)
            THEN swept[t].status = "active" /\ swept[t].age = lag
            ELSE swept[t] = table[t]
      BY <1>4, ActivateHasEffect DEF swept
    <3>2. ~(t \in past /\ Ripe(table[t], lag))
      BY <2>4 DEF Ripe, OpenIn
    <3> HIDE DEF past
    <3> QED
      BY <3>1, <3>2
  <2>6. \A t \in Objects : OpenIn(table, t) => t \in ToSet(after)
    BY <1>5, <1>10, <2>4
  <2>7. table[h].status = "active" /\ runs[h] = 0
    BY <1>5, <1>10, <2>1 DEF Due, Terminal, h
  <2>8. runs' = [runs EXCEPT ![h] = 1]
    <3>1. Min({runs[h] + 1, 2}) = 1
      <4>1. runs[h] + 1 = 1 /\ {runs[h] + 1, 2} \in SUBSET Nat
        BY <2>7
      <4>2. /\ Min({runs[h] + 1, 2}) \in {runs[h] + 1, 2}
            /\ Min({runs[h] + 1, 2}) <= runs[h] + 1
        BY <4>1, MinIsLeast
      <4> QED
        BY <4>1, <4>2
    <3> QED
      BY <1>10, <3>1 DEF h
  <2>9. OneCallAtATime'
    BY <2>3 DEF OneCallAtATime
  <2>10. NothingIsLost'
    BY <1>5, <1>10, <2>5 DEF NothingIsLost, OpenIn
  <2>11. CallsLoseNothing'
    <3>1. ToSet(list) \cup ToSet(after) \subseteq ToSet(tasks')
      BY <1>2, <1>5, <1>10
    <3>2. \A t \in Objects : IsOpen(t)' => t \in ToSet(after)
      BY <2>5, <2>6 DEF IsOpen, OpenIn
    <3> QED
      BY <2>2, <2>3, <3>1, <3>2 DEF CallsLoseNothing
  <2>12. RunningIsFirst'
    <3>1. task'[h].status = "active"
      BY <2>1, <2>5, <2>7
    <3>2. ASSUME NEW s \in Objects, s < h
          PROVE  task'[s].status \in Terminal
      <4>1. s \notin ToSet(after)
        BY <2>1, <3>2 DEF Objects
      <4>2. ~OpenIn(table, s)
        BY <2>6, <4>1
      <4>3. IsBorn(h)
        BY <2>1, <2>7 DEF WalkReady
      <4>4. table[s].status # "unborn"
        BY <2>1, <3>2, <4>3 DEF WalkReady, IInv, BornInOrder
      <4> QED
        BY <1>8, <2>5, <4>2, <4>4 DEF OpenIn
    <3> QED
      BY <2>2, <2>3, <3>1, <3>2 DEF RunningIsFirst, h
  <2>13. AtMostOnce'
    BY <1>4, <1>5, <2>1, <2>8 DEF AtMostOnce
  <2>14. RunsHaveStarted'
    <3>1. InCall(c)' /\ Head(call'[c].rest) = h
      <4>1. rec \in Call
        BY <1>4 DEF rec, Call
      <4> QED
        BY <2>2, <4>1, CallsAreCalls DEF InCall, h
    <3>2. ASSUME NEW t \in Objects, task'[t].status \notin Terminal
          PROVE  t = h \/ runs'[t] = 0
      BY <1>4, <1>5, <2>5, <2>8, <3>2
    <3>3. task'[h].status = "active"
      BY <2>1, <2>5, <2>7
    <3>4. \A t \in Objects : task'[t].status \in {"unborn", "pending"} => runs'[t] = 0
      BY <3>2, <3>3 DEF Terminal
    <3>5. \A t \in Objects : task'[t].status = "active" /\ runs'[t] # 0 => t = h
      BY <3>2 DEF Terminal
    <3> QED
      BY <1>4, <3>1, <3>4, <3>5 DEF RunsHaveStarted
  <2>15. OlderIsFurther'
    <3>1. \A t \in Objects : IsOpen(t)' <=> OpenIn(table, t)
      BY <2>5 DEF IsOpen, OpenIn
    <3> QED
      BY <1>5, <2>5, <3>1 DEF OlderIsFurther, InLine
  <2>16. ActiveSinceTheWalk'
    BY <1>5, <2>2, <2>3, <2>5 DEF ActiveSinceTheWalk
  <2> QED
    BY <2>9, <2>10, <2>11, <2>12, <2>13, <2>14, <2>15, <2>16 DEF SerialInv
<1> QED
  BY <1>2, <1>9, <1>10 DEF swept

\* Time passes for the tasks and for the call under way alike.
LEMMA TickKeepsSerial ==
  ASSUME IInv, SerialInv, Tick
  PROVE  SerialInv'
<1>1. /\ tasks' = tasks /\ runs' = runs
      /\ \A t \in Objects :
           /\ task'[t].status = task[t].status
           /\ task[t].status # "unborn" =>
                task'[t].age = IF task[t].age = OldAge THEN OldAge ELSE task[t].age + 1
      /\ \A c \in Callers :
           /\ InCall(c)' <=> InCall(c)
           /\ InCall(c) => /\ call'[c].kept = call[c].kept
                           /\ call'[c].rest = call[c].rest
                           /\ call'[c].lag = call[c].lag + 1
  BY TickHasEffect DEF IInv
<1>2. \A t \in Objects : IsOpen(t)' <=> IsOpen(t)
  BY <1>1 DEF IsOpen
<1>3. OldAge \in Nat /\ \A t \in Objects : task[t].age \in 0 .. OldAge
  BY AgesAreNumbers DEF IInv, TypeOK, Task
<1>4. OneCallAtATime'
  BY <1>1 DEF SerialInv, OneCallAtATime
<1>5. NothingIsLost'
  BY <1>1 DEF SerialInv, NothingIsLost
<1>6. CallsLoseNothing'
  BY <1>1, <1>2 DEF SerialInv, CallsLoseNothing
<1>7. RunningIsFirst'
  <2> SUFFICES ASSUME NEW c \in Callers, InCall(c)'
               PROVE  /\ task'[Head(call'[c].rest)].status = "active"
                      /\ \A s \in Objects : s < Head(call'[c].rest) => task'[s].status \in Terminal
    BY DEF RunningIsFirst
  <2>1. InCall(c) /\ call'[c].rest = call[c].rest
    BY <1>1
  <2>2. Head(call[c].rest) \in Objects
    BY <2>1, AnsweredHasEffect
  <2> QED
    BY <1>1, <2>1, <2>2 DEF SerialInv, RunningIsFirst
<1>8. AtMostOnce'
  BY <1>1 DEF SerialInv, AtMostOnce
<1>9. RunsHaveStarted'
  BY <1>1 DEF SerialInv, RunsHaveStarted
<1>10. OlderIsFurther'
  <2> SUFFICES ASSUME NEW s \in Objects, NEW t \in Objects, s < t, IsOpen(s), IsOpen(t)
               PROVE  /\ task'[t].status = "active" => task'[s].status = "active"
                      /\ task'[s].status = task'[t].status => task'[t].age <= task'[s].age
    BY <1>2 DEF OlderIsFurther
  <2>1. /\ task'[t].age = IF task[t].age = OldAge THEN OldAge ELSE task[t].age + 1
        /\ task'[s].age = IF task[s].age = OldAge THEN OldAge ELSE task[s].age + 1
        /\ task'[s].status = task[s].status /\ task'[t].status = task[t].status
    BY <1>1 DEF IsOpen
  <2>2. /\ task[t].status = "active" => task[s].status = "active"
        /\ task[s].status = task[t].status => task[t].age <= task[s].age
    BY DEF SerialInv, OlderIsFurther
  <2> QED
    BY <1>3, <2>1, <2>2
<1>11. ActiveSinceTheWalk'
  <2> SUFFICES ASSUME NEW c \in Callers, NEW t \in Objects, InCall(c), task[t].status = "active"
               PROVE  call'[c].lag <= task'[t].age
    BY <1>1 DEF ActiveSinceTheWalk
  <2>1. /\ call'[c].lag = call[c].lag + 1
        /\ task'[t].age = IF task[t].age = OldAge THEN OldAge ELSE task[t].age + 1
    BY <1>1
  <2>2. call[c].lag <= task[t].age
    BY DEF SerialInv, ActiveSinceTheWalk
  <2>3. call[c].lag \in 0 .. MaxLag /\ MaxLag \in Nat /\ MaxLag < OldAge
    BY AgesAreNumbers DEF IInv, TypeOK, InCall, Call
  <2> QED
    BY <1>3, <2>1, <2>2, <2>3
<1> QED
  BY <1>4, <1>5, <1>6, <1>7, <1>8, <1>9, <1>10, <1>11 DEF SerialInv

LEMMA SerialInitial == Init => SerialInv
<1> SUFFICES ASSUME Init PROVE SerialInv
  OBVIOUS
<1>1. \A c \in Callers : ~InCall(c)
  BY DEF Init, InCall
<1>2. \A t \in Objects : runs[t] = 0 /\ task[t].status = "unborn"
  BY DEF Init, Unborn
<1> QED
  BY <1>1, <1>2 DEF SerialInv, OneCallAtATime, NothingIsLost, CallsLoseNothing, RunningIsFirst,
                    AtMostOnce, RunsHaveStarted, OlderIsFurther, IsOpen, ActiveSinceTheWalk

\* No step breaks the serial invariant, if on_task never suspends.
LEMMA SerialInductive ==
  ASSUME ~Yields, IInv, SerialInv, [Next]_vars
  PROVE  SerialInv'
<1>1. ASSUME NEW c, NEW request, LoopIsFree,
             WalkReady(c, request, tasks, <<>>, 0, task),
             Walk(c, request, tasks, <<>>, 0, task)
      PROVE  SerialInv'
  <2>1. SerialReady(c, tasks, <<>>, 0, task)
    BY <1>1, StartSerially
  <2> QED
    BY <1>1, <2>1, WalkKeepsSerial
<1>2. ASSUME NEW c \in Callers, NEW status \in {"completed", "failed"}, InCall(c),
             WalkReady(c, call[c].request, Tail(call[c].rest),
                       Append(call[c].kept, Head(call[c].rest)), call[c].lag,
                       Answered(c, status)),
             Walk(c, call[c].request, Tail(call[c].rest),
                  Append(call[c].kept, Head(call[c].rest)), call[c].lag,
                  Answered(c, status))
      PROVE  SerialInv'
  <2>1. SerialReady(c, Tail(call[c].rest), Append(call[c].kept, Head(call[c].rest)),
                    call[c].lag, Answered(c, status))
    BY <1>2, ReturnSerially
  <2> QED
    BY <1>2, <2>1, WalkKeepsSerial
<1>3. \A c \in Callers : ~Cancelled(c)
  BY DEF Cancelled
<1>4. CASE Next
  BY <1>1, <1>2, <1>3, <1>4, WalksAreReady, TickKeepsSerial
<1>5. CASE UNCHANGED vars
  BY <1>5 DEF vars, SerialInv, OneCallAtATime, NothingIsLost, CallsLoseNothing, RunningIsFirst,
              AtMostOnce, RunsHaveStarted, OlderIsFurther, IsOpen, ActiveSinceTheWalk, InCall
<1> QED
  BY <1>4, <1>5

\* Behind a filesystem adapter that never suspends, calls keep the tasks in the
\* order of their creation: none is behind a later one, the one in on_task is the
\* first that has not ended, and the lists have everything that is open.
THEOREM SerialInvariantCorrect ==
  ASSUME ~Yields
  PROVE  Spec => []SerialInv
<1>1. Init => SerialInv
  BY SerialInitial
<1>2. IInv /\ SerialInv /\ [Next]_vars => SerialInv'
  BY SerialInductive
<1> QED
  BY <1>1, <1>2, InvariantCorrect, PTL DEF Spec

\* Then a command is executed at most once, however often the queue is walked.
THEOREM AtMostOnceCorrect ==
  ASSUME ~Yields
  PROVE  Spec => []AtMostOnce
<1>1. SerialInv => AtMostOnce
  BY DEF SerialInv
<1> QED
  BY <1>1, SerialInvariantCorrect, PTL

\* And a task that has not ended is in the list, though every call replaces it.
THEOREM NothingIsLostCorrect ==
  ASSUME ~Yields
  PROVE  Spec => []NothingIsLost
<1>1. SerialInv => NothingIsLost
  BY DEF SerialInv
<1> QED
  BY <1>1, SerialInvariantCorrect, PTL

-----------------------------------------------------------------------------
(* The refinement: behind a filesystem adapter that never suspends the     *)
(* queue implements TaskContract.  A task is "running" in the contract     *)
(* while a call is in on_task for it, and what can be looked up is the     *)
(* list.                                                                   *)

\* A call is in on_task for t.
Running(t) == \E c \in Callers : InCall(c) /\ Head(call[c].rest) = t

\* The stage of a task, from its status and from who runs it.
LEMMA StageOfTask ==
  ASSUME NEW t \in Objects
  PROVE  stage[t] = IF Running(t) THEN "running"
                    ELSE IF task[t].status \in {"pending", "active"} THEN "waiting"
                    ELSE task[t].status
BY DEF stage, Running

LEMMA StageOfTaskNext ==
  ASSUME NEW t \in Objects
  PROVE  stage'[t] = IF Running(t)' THEN "running"
                     ELSE IF task'[t].status \in {"pending", "active"} THEN "waiting"
                     ELSE task'[t].status
BY DEF stage, Running

\* The task in on_task is active, and it is the only one there.
LEMMA RunningIsActive ==
  ASSUME SerialInv
  PROVE  /\ \A t \in Objects : Running(t) => task[t].status = "active"
         /\ \A t \in Objects : Running(t) => \A s \in Objects : s < t => task[s].status \in Terminal
         /\ \A s, t \in Objects : Running(s) /\ Running(t) => s = t
BY DEF SerialInv, RunningIsFirst, OneCallAtATime, Running

LEMMA RunningIsActiveNext ==
  ASSUME SerialInv'
  PROVE  /\ \A t \in Objects : Running(t)' => task'[t].status = "active"
         /\ \A t \in Objects : Running(t)' => \A s \in Objects : s < t => task'[s].status \in Terminal
         /\ \A s, t \in Objects : Running(s)' /\ Running(t)' => s = t
BY DEF SerialInv, RunningIsFirst, OneCallAtATime, Running

LEMMA MovesOfStages ==
  /\ Contract!Moves["unborn"] = {"waiting"}
  /\ Contract!Moves["waiting"] = {"running", "canceled"}
  /\ Contract!Moves["running"] = {"completed", "failed", "canceled"}
  /\ Contract!Moves["completed"] = {"canceled"}
  /\ Contract!Moves["failed"] = {"canceled"}
  /\ Contract!Stages = {"unborn", "waiting", "running", "completed", "failed", "canceled"}
BY DEF Contract!Moves, Contract!Stages

-----------------------------------------------------------------------------

\* What the rest of a call may make of a task: it creates the next one, it
\* cancels one, and it leaves open what is open and ended what has ended.
MovesTo(table) ==
  /\ \A t \in Objects :
       \/ /\ table[t].status = "unborn"
          /\ \/ task'[t].status = "unborn"
             \/ task'[t].status = "pending" /\ t = Born(task) + 1
       \/ /\ OpenIn(table, t)
          /\ OpenIn(task', t) \/ task'[t].status = "canceled"
       \/ /\ table[t].status \in Terminal
          /\ task'[t].status = table[t].status \/ task'[t].status = "canceled"
  /\ \A t \in ToSet(tasks') :
       t \in ToSet(tasks) \/ (table[t].status = "unborn" /\ task'[t].status = "pending")

LEMMA WalkMoves ==
  ASSUME IInv, NEW c, NEW request, NEW rest, NEW kept, NEW lag, NEW table,
         WalkReady(c, request, rest, kept, lag, table),
         SerialReady(c, rest, kept, lag, table),
         Walk(c, request, rest, kept, lag, table)
  PROVE  MovesTo(table)
<1>1. WalkEffect(c, request, rest, kept, lag, table)
  BY WalkHasEffect DEF WalkReady
<1>2. PICK walked \in Seq(Objects), list \in Seq(Objects) :
        /\ ToSet(walked) \subseteq ToSet(rest)
        /\ ToSet(list) = ToSet(kept) \cup {t \in ToSet(walked) : ~Old(table[t], lag)}
        /\ \/ Finish(request, list, Activate(table, walked, lag))
           \/ (task' = Activate(table, walked, lag) /\ UNCHANGED tasks)
  BY <1>1 DEF WalkEffect
<1> DEFINE swept == Activate(table, walked, lag)
           new   == Born(task) + 1
<1>3. /\ swept \in [Objects -> Task] /\ Gapless(swept) /\ Born(swept) = Born(task)
      /\ \A t \in Objects : swept[t].status = "unborn" <=> ~IsBorn(t)
  BY SweptIsBornAlike
<1>4. /\ request \in Request /\ lag \in 0 .. MaxLag /\ table \in [Objects -> Task]
      /\ \A t \in Objects : table[t].status = "unborn" <=> ~IsBorn(t)
  BY DEF WalkReady
<1>5. \A t \in Objects :
        \/ swept[t] = table[t]
        \/ table[t].status = "pending" /\ swept[t].status = "active"
  <2>1. \A t \in Objects :
          IF t \in ToSet(walked) /\ Ripe(table[t], lag)
            THEN swept[t].status = "active" /\ swept[t].age = lag
            ELSE swept[t] = table[t]
    BY <1>4, ActivateHasEffect
  <2> HIDE DEF swept
  <2> QED
    BY <2>1 DEF Ripe
<1>6. ToSet(list) \subseteq ToSet(tasks)
  BY <1>2 DEF SerialReady
<1>7. \A t \in Objects : table[t].status \in {"unborn", "pending", "active"} \cup Terminal
  BY <1>4 DEF Task, Statuses
<1> HIDE DEF swept
<1>8. ASSUME task' = swept, UNCHANGED tasks
      PROVE  MovesTo(table)
  BY <1>5, <1>7, <1>8 DEF MovesTo, OpenIn
<1>9. ASSUME Finish(request, list, swept)
      PROVE  MovesTo(table)
  <2>1. \/ /\ new \in Objects
           /\ swept[new].status = "unborn"
           /\ tasks' = Append(list, new)
           /\ task'[new].status = "pending"
           /\ \A t \in Objects : t # new => task'[t] = swept[t]
        \/ /\ tasks' = list
           /\ \A t \in Objects : \/ task'[t] = swept[t]
                                 \/ t \in ToSet(list) /\ task'[t].status = "canceled"
    <3>1. request.kind = "put" => Born(swept) < MaxTasks
      <4>1. Cardinality(Putting \ {c}) \in Nat /\ Born(task) \in Nat /\ MaxTasks \in Nat
        BY BornTasks, PuttingIsFinite DEF IInv
      <4> QED
        BY <1>3, <4>1 DEF WalkReady
    <3> QED
      BY <1>3, <1>4, <1>9, <3>1, FinishHasEffect
  <2>2. ASSUME NEW t \in Objects
        PROVE  \/ /\ table[t].status = "unborn"
                  /\ \/ task'[t].status = "unborn"
                     \/ task'[t].status = "pending" /\ t = new
               \/ /\ OpenIn(table, t)
                  /\ OpenIn(task', t) \/ task'[t].status = "canceled"
               \/ /\ table[t].status \in Terminal
                  /\ task'[t].status = table[t].status \/ task'[t].status = "canceled"
    <3>1. CASE task'[t] = swept[t]
      BY <1>5, <1>7, <3>1 DEF OpenIn
    <3>2. CASE t = new /\ swept[t].status = "unborn" /\ task'[t].status = "pending"
      BY <1>3, <1>4, <3>2
    <3>3. CASE t \in ToSet(list) /\ task'[t].status = "canceled"
      <4>1. table[t].status # "unborn"
        BY <1>4, <1>6, <3>3 DEF IInv, ListedAreBorn
      <4> QED
        BY <1>7, <3>3, <4>1 DEF OpenIn
    <3> QED
      BY <2>1, <3>1, <3>2, <3>3
  <2>3. ASSUME NEW t \in ToSet(tasks')
        PROVE  t \in ToSet(tasks) \/ (table[t].status = "unborn" /\ task'[t].status = "pending")
    <3>1. CASE tasks' = list
      BY <1>6, <2>3, <3>1
    <3>2. CASE /\ new \in Objects /\ swept[new].status = "unborn"
               /\ tasks' = Append(list, new) /\ task'[new].status = "pending"
      <4> HIDE DEF new
      <4>1. list \in Seq(Nat) /\ new \in Nat
        BY <3>2, ObjectsAreNumbers DEF Objects
      <4>2. t \in ToSet(list) \/ t = new
        BY <2>3, <3>2, <4>1, AppendToList
      <4>3. table[new].status = "unborn"
        BY <1>3, <1>4, <3>2
      <4> QED
        BY <1>6, <3>2, <4>2, <4>3
    <3> QED
      BY <2>1, <3>1, <3>2
  <2> QED
    BY <2>2, <2>3 DEF MovesTo
<1> QED
  BY <1>2, <1>8, <1>9 DEF swept

-----------------------------------------------------------------------------

\* A call that does this to a table that differs from the current one only where
\* on_task has just answered takes a step of the contract.
LEMMA MovesAreContractSteps ==
  ASSUME IInv, SerialInv, IInv', SerialInv', NEW table, MovesTo(table),
         \A t \in Objects : IF Running(t) THEN table[t].status \in Terminal
                                          ELSE table[t] = task[t]
  PROVE  Contract!Next
<1>1. /\ \A t \in Objects : task[t].status \in {"unborn", "pending", "active"} \cup Terminal
      /\ \A t \in Objects : task'[t].status \in {"unborn", "pending", "active"} \cup Terminal
  BY DEF IInv, TypeOK, Task, Statuses
<1>2. /\ \A t \in Objects : Running(t) => task[t].status = "active"
      /\ \A t \in Objects : Running(t)' => task'[t].status = "active"
      /\ \A t \in Objects : Running(t)' => \A s \in Objects : s < t => task'[s].status \in Terminal
      /\ \A s, t \in Objects : Running(s)' /\ Running(t)' => s = t
  BY RunningIsActive, RunningIsActiveNext
<1>3. /\ Born(task) \in Nat
      /\ \A t \in Objects : task[t].status # "unborn" <=> t <= Born(task)
  BY BornTasks DEF IInv, IsBorn
<1>4. Contract!Tasks = Objects
  BY DEF Contract!Tasks, Objects
<1>5. \A t \in Objects : /\ stage[t] = "unborn" <=> task[t].status = "unborn"
                         /\ stage'[t] = "unborn" <=> task'[t].status = "unborn"
                         /\ stage'[t] = "running" <=> Running(t)'
  <2> SUFFICES ASSUME NEW t \in Objects
               PROVE  /\ stage[t] = "unborn" <=> task[t].status = "unborn"
                      /\ stage'[t] = "unborn" <=> task'[t].status = "unborn"
                      /\ stage'[t] = "running" <=> Running(t)'
    OBVIOUS
  <2> QED
    BY <1>1, <1>2, StageOfTask, StageOfTaskNext DEF Terminal
<1>6. Contract!TypeOK'
  <2>1. \A t \in Objects : stage'[t] \in Contract!Stages
    BY <1>1, StageOfTaskNext, MovesOfStages DEF Terminal
  <2>2. stage' = [t \in Objects |-> stage'[t]]
    BY DEF stage
  <2>3. ToSet(tasks') \subseteq Objects
    BY ObjectsAreNumbers DEF IInv, TypeOK
  <2> QED
    BY <1>4, <2>1, <2>2, <2>3 DEF Contract!TypeOK
<1>7. Contract!Advance
  <2> SUFFICES ASSUME NEW t \in Objects
               PROVE  stage'[t] \in {stage[t]} \cup Contract!Moves[stage[t]]
    BY <1>4 DEF Contract!Advance
  <2>1. CASE Running(t)
    BY <1>1, <1>2, <2>1, StageOfTask, StageOfTaskNext, MovesOfStages DEF MovesTo, OpenIn, Terminal
  <2>2. CASE ~Running(t) /\ task[t].status = "unborn"
    BY <1>2, <2>2, StageOfTask, StageOfTaskNext, MovesOfStages DEF MovesTo, OpenIn, Terminal
  <2>3. CASE ~Running(t) /\ OpenIn(task, t)
    BY <1>2, <2>3, StageOfTask, StageOfTaskNext, MovesOfStages DEF MovesTo, OpenIn, Terminal
  <2>4. CASE ~Running(t) /\ task[t].status \in Terminal
    BY <1>2, <2>4, StageOfTask, StageOfTaskNext, MovesOfStages DEF MovesTo, OpenIn, Terminal
  <2> QED
    BY <1>1, <2>1, <2>2, <2>3, <2>4 DEF OpenIn
<1>8. Contract!AcceptedInOrder
  <2> SUFFICES ASSUME NEW t \in Objects, stage[t] = "unborn", stage'[t] # "unborn",
                      NEW s \in Objects, s # t
               PROVE  stage[s] = "unborn" <=> s > t
    BY <1>4 DEF Contract!AcceptedInOrder, Contract!Submitted
  <2>1. t = Born(task) + 1
    BY <1>2, <1>5 DEF MovesTo, OpenIn, Terminal
  <2> QED
    BY <1>3, <1>5, <2>1 DEF Objects
<1>9. Contract!RunInOrder
  <2> SUFFICES ASSUME NEW t \in Objects, stage'[t] = "running", NEW s \in 1 .. t - 1
               PROVE  stage'[s] \in Contract!Over
    BY <1>4 DEF Contract!RunInOrder
  <2>1. s \in Objects /\ s < t
    BY TaskQueueAssumption DEF Objects
  <2>2. task'[s].status \in Terminal
    BY <1>2, <1>5, <2>1
  <2> QED
    BY <1>2, <2>1, <2>2, StageOfTaskNext DEF Terminal, Contract!Over
<1>10. Contract!OneAtATime
  BY <1>2, <1>4, <1>5 DEF Contract!OneAtATime
<1>11. Contract!FoundUntilOver
  <2>1. ASSUME NEW t \in ToSet(tasks')
        PROVE  t \in ToSet(tasks) \/ (stage[t] = "unborn" /\ stage'[t] # "unborn")
    <3>1. t \in Objects
      BY ObjectsAreNumbers DEF IInv, TypeOK
    <3> QED
      BY <1>5, <3>1 DEF MovesTo, Terminal
  <2>2. ASSUME NEW t \in Objects, stage'[t] \in {"waiting", "running"}
        PROVE  t \in ToSet(tasks')
    BY <1>1, <1>2, <2>2, StageOfTaskNext DEF SerialInv, NothingIsLost, Terminal
  <2>3. ToSet(tasks') \subseteq Objects
    BY ObjectsAreNumbers DEF IInv, TypeOK
  <2> QED
    BY <1>4, <2>1, <2>2, <2>3 DEF Contract!FoundUntilOver, Contract!Submitted, Contract!Open
<1> QED
  BY <1>6, <1>7, <1>8, <1>9, <1>10, <1>11 DEF Contract!Next

\* If no stage changes and the list stays, the contract stutters.
LEMMA SameStagesStutter ==
  ASSUME tasks' = tasks, \A t \in Objects : task'[t].status = task[t].status,
         \A t \in Objects : Running(t)' <=> Running(t)
  PROVE  UNCHANGED Contract!vars
<1>1. \A t \in Objects : stage'[t] = stage[t]
  BY StageOfTask, StageOfTaskNext
<1>2. stage = [t \in Objects |-> stage[t]] /\ stage' = [t \in Objects |-> stage'[t]]
  BY DEF stage
<1>3. stage' = stage
  BY <1>1, <1>2
<1> QED
  BY <1>3 DEF Contract!vars

LEMMA RefinesInit == Init => Contract!Init
<1> SUFFICES ASSUME Init PROVE Contract!Init
  OBVIOUS
<1>1. \A t \in Objects : ~Running(t) /\ task[t].status = "unborn"
  BY DEF Init, InCall, Running, Unborn
<1>2. stage = [t \in Objects |-> stage[t]]
  BY DEF stage
<1>3. stage = [t \in Objects |-> "unborn"]
  BY <1>1, <1>2, StageOfTask
<1>4. ToSet(tasks) = {}
  BY DEF Init, ToSet
<1> QED
  BY <1>3, <1>4 DEF Contract!Init, Contract!Tasks, Objects

\* Every step of the queue is a step of the contract or a stutter.
LEMMA RefinesNext ==
  ASSUME ~Yields, IInv, SerialInv, IInv', SerialInv', [Next]_vars
  PROVE  [Contract!Next]_Contract!vars
\* A call that starts finds no other, so nothing is running.
<1>1. ASSUME NEW c, NEW request, LoopIsFree,
             WalkReady(c, request, tasks, <<>>, 0, task),
             Walk(c, request, tasks, <<>>, 0, task)
      PROVE  Contract!Next
  <2>1. SerialReady(c, tasks, <<>>, 0, task)
    BY <1>1, StartSerially
  <2>2. MovesTo(task)
    BY <1>1, <2>1, WalkMoves
  <2>3. \A t \in Objects : ~Running(t)
    BY <1>1 DEF LoopIsFree, Running
  <2> QED
    BY <2>2, <2>3, MovesAreContractSteps
\* A call that goes on is the one under way, and on_task has ended its task.
<1>2. ASSUME NEW c \in Callers, NEW status \in {"completed", "failed"}, InCall(c),
             WalkReady(c, call[c].request, Tail(call[c].rest),
                       Append(call[c].kept, Head(call[c].rest)), call[c].lag,
                       Answered(c, status)),
             Walk(c, call[c].request, Tail(call[c].rest),
                  Append(call[c].kept, Head(call[c].rest)), call[c].lag,
                  Answered(c, status))
      PROVE  Contract!Next
  <2> DEFINE table == Answered(c, status)
  <2>1. SerialReady(c, Tail(call[c].rest), Append(call[c].kept, Head(call[c].rest)),
                    call[c].lag, table)
    BY <1>2, ReturnSerially
  <2>2. MovesTo(table)
    BY <1>2, <2>1, WalkMoves
  <2>3. /\ table[Head(call[c].rest)].status = status
        /\ \A t \in Objects : t # Head(call[c].rest) => table[t] = task[t]
    BY <1>2, AnsweredHasEffect
  <2>4. \A t \in Objects : Running(t) <=> t = Head(call[c].rest)
    BY <1>2 DEF Running, SerialInv, OneCallAtATime
  <2> HIDE DEF table
  <2>5. \A t \in Objects : IF Running(t) THEN table[t].status \in Terminal ELSE table[t] = task[t]
    BY <2>3, <2>4 DEF Terminal
  <2> QED
    BY <2>2, <2>5, MovesAreContractSteps
<1>3. CASE Tick
  <2>1. /\ tasks' = tasks /\ \A t \in Objects : task'[t].status = task[t].status
        /\ \A c \in Callers : /\ InCall(c)' <=> InCall(c)
                              /\ InCall(c) => call'[c].rest = call[c].rest
    BY <1>3, TickHasEffect DEF IInv
  <2>2. \A t \in Objects : Running(t)' <=> Running(t)
    BY <2>1 DEF Running
  <2> QED
    BY <2>1, <2>2, SameStagesStutter
<1>4. CASE UNCHANGED vars
  <2>1. tasks' = tasks /\ task' = task /\ \A t \in Objects : Running(t)' <=> Running(t)
    BY <1>4 DEF vars, Running, InCall
  <2> QED
    BY <2>1, SameStagesStutter
<1>5. \A c \in Callers : ~Cancelled(c)
  BY DEF Cancelled
<1> QED
  BY <1>1, <1>2, <1>3, <1>4, <1>5, WalksAreReady

\* Behind a filesystem adapter that never suspends the queue keeps the contract:
\* commands run one at a time, in the order of their submission, at most once, none
\* that was canceled before its turn, and a task is found until it has ended.
THEOREM RefinementCorrect ==
  ASSUME ~Yields
  PROVE  Spec => ContractSpec
<1>1. IInv /\ SerialInv /\ [Next]_vars => [Contract!Next]_Contract!vars
  BY RefinesNext, InvariantInductive, SerialInductive
<1> QED
  BY <1>1, RefinesInit, InvariantCorrect, SerialInvariantCorrect, PTL
     DEF Spec, ContractSpec, Contract!Spec
=============================================================================
