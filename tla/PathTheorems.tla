----------------------------- MODULE PathTheorems -----------------------------
(***************************************************************************)
(* Facts about paths, and about what realpath makes of them in a tree with *)
(* any finite number of links, among them links that lead nowhere, back to *)
(* themselves or through one another.                                      *)
(***************************************************************************)
EXTENDS Paths, ListTheorems

-----------------------------------------------------------------------------
(* Following links.                                                        *)

\* Where the links of a tree lead.
IsLinkMap(l) ==
  /\ l = [x \in DOMAIN l |-> l[x]]
  /\ DOMAIN l \subseteq Path
  /\ IsFiniteSet(DOMAIN l)
  /\ \A x \in DOMAIN l : l[x] \in Path

\* The first link of a path, and the rest of it.
LEMMA FirstLinkProperties ==
  ASSUME NEW l, NEW p \in Path, LinksIn(l, p) # {}
  PROVE  /\ Min(LinksIn(l, p)) \in LinksIn(l, p)
         /\ Min(LinksIn(l, p)) \in 1 .. Len(p)
         /\ FirstLink(l, p) \in DOMAIN l
         /\ Behind(l, p) \in Path
         /\ Len(Behind(l, p)) = Len(p) - Min(LinksIn(l, p))
<1>1. Len(p) \in Nat /\ \A i \in 1 .. Len(p) : p[i] \in Names \cup {SandboxName}
  BY LenProperties, ElementOfSeq DEF Path
<1>2. LinksIn(l, p) \in SUBSET Nat
  BY <1>1 DEF LinksIn
<1>3. Min(LinksIn(l, p)) \in LinksIn(l, p)
  BY <1>2, MinIsLeast
<1>4. Min(LinksIn(l, p)) \in 1 .. Len(p) /\ FirstLink(l, p) \in DOMAIN l
  BY <1>3 DEF LinksIn, FirstLink
<1> DEFINE n == Min(LinksIn(l, p))
<1>5. n \in 1 .. Len(p)
  BY <1>4
<1>6. SubSeq(p, n + 1, Len(p)) \in Path /\ Len(SubSeq(p, n + 1, Len(p))) = Len(p) - n
  <2> HIDE DEF n
  <2>1. n + 1 \in Int /\ \A i \in n + 1 .. Len(p) : p[i] \in Names \cup {SandboxName}
    BY <1>1, <1>5
  <2>2. /\ SubSeq(p, n + 1, Len(p)) \in Seq(Names \cup {SandboxName})
        /\ Len(SubSeq(p, n + 1, Len(p))) = IF n + 1 <= Len(p) THEN Len(p) - (n + 1) + 1 ELSE 0
    BY <1>1, <2>1, SubSeqProperties
  <2> QED
    BY <1>1, <1>5, <2>2 DEF Path
<1> QED
  BY <1>3, <1>4, <1>6 DEF Behind

\* Following a link leads to another walk, on which that link is open.
LEMMA FollowLinkProperties ==
  ASSUME NEW l, IsLinkMap(l), NEW w \in Walk, LinksIn(l, w.path) # {}
  PROVE  /\ FollowLink(l, w) \in Walk
         /\ Len(Behind(l, w.path)) \in Nat
         /\ FirstLink(l, w.path) \in DOMAIN l
<1>1. w.path \in Path /\ Len(w.path) \in Nat
  BY LenProperties DEF Walk, Path
<1>2. /\ FirstLink(l, w.path) \in DOMAIN l
      /\ Behind(l, w.path) \in Path
      /\ Len(Behind(l, w.path)) \in Nat
  BY <1>1, FirstLinkProperties, LenProperties DEF Path
<1>3. l[FirstLink(l, w.path)] \o Behind(l, w.path) \in Path
  BY <1>2, ConcatProperties DEF IsLinkMap, Path
<1>4. [link |-> FirstLink(l, w.path), left |-> Len(Behind(l, w.path))] \in [link : Path, left : Nat]
  BY <1>2 DEF IsLinkMap
<1>5. StillOpen(w, Len(Behind(l, w.path))) \in SUBSET [link : Path, left : Nat]
  BY DEF StillOpen, Walk
<1> QED
  BY <1>2, <1>3, <1>4, <1>5 DEF FollowLink, Walk

-----------------------------------------------------------------------------
(* What a walk leads to.  (Induction over walks is by sets that are closed *)
(* under following links.)                                                 *)

IsClosed(l, C) == \A w \in C : ~Ends(l, w) => FollowLink(l, w) \in C

LeadsTo(l, w, t) == \A C \in SUBSET Walk : w \in C /\ IsClosed(l, C) => t \in C

LEMMA LeadsToNext ==
  ASSUME NEW l, IsLinkMap(l), NEW w \in Walk, ~Ends(l, w)
  PROVE  /\ FollowLink(l, w) \in Walk
         /\ LeadsTo(l, w, FollowLink(l, w))
         /\ \A t : LeadsTo(l, FollowLink(l, w), t) => LeadsTo(l, w, t)
         /\ \A t : Ends(l, t) /\ LeadsTo(l, w, t) => LeadsTo(l, FollowLink(l, w), t)
<1>1. FollowLink(l, w) \in Walk
  BY FollowLinkProperties DEF Ends
<1>2. LeadsTo(l, w, FollowLink(l, w))
  BY DEF LeadsTo, IsClosed
<1>3. ASSUME NEW t, LeadsTo(l, FollowLink(l, w), t) PROVE LeadsTo(l, w, t)
  BY <1>3 DEF LeadsTo, IsClosed
<1>4. ASSUME NEW t, Ends(l, t), LeadsTo(l, w, t) PROVE LeadsTo(l, FollowLink(l, w), t)
  <2> SUFFICES ASSUME NEW C \in SUBSET Walk, FollowLink(l, w) \in C, IsClosed(l, C) PROVE t \in C
    BY DEF LeadsTo
  <2>1. C \cup {w} \in SUBSET Walk /\ w \in C \cup {w} /\ IsClosed(l, C \cup {w})
    BY DEF IsClosed
  <2>2. t \in C \cup {w}
    BY <1>4, <2>1 DEF LeadsTo
  <2> QED
    BY <1>4, <2>2
<1> QED
  BY <1>1, <1>2, <1>3, <1>4

LEMMA LeadsToFacts ==
  ASSUME NEW l, NEW w \in Walk
  PROVE  /\ LeadsTo(l, w, w)
         /\ \A t, u : LeadsTo(l, w, t) /\ LeadsTo(l, t, u) => LeadsTo(l, w, u)
         /\ Ends(l, w) => \A t : LeadsTo(l, w, t) => t = w
<1>1. LeadsTo(l, w, w)
  BY DEF LeadsTo
<1>2. ASSUME NEW t, NEW u, LeadsTo(l, w, t), LeadsTo(l, t, u) PROVE LeadsTo(l, w, u)
  BY <1>2 DEF LeadsTo
<1>3. ASSUME Ends(l, w), NEW t, LeadsTo(l, w, t) PROVE t = w
  <2>1. IsClosed(l, {w}) /\ {w} \in SUBSET Walk
    BY <1>3 DEF IsClosed
  <2> QED
    BY <1>3, <2>1 DEF LeadsTo
<1> QED
  BY <1>1, <1>2, <1>3

\* The recursive definition of Walks defines a function.
LEMMA WalksIsRecursive ==
  ASSUME NEW l, IsLinkMap(l)
  PROVE  Walks(l) = [w \in Walk |-> IF Ends(l, w) THEN w ELSE Walks(l)[FollowLink(l, w)]]
<1> DEFINE Ended(w) == {t \in Walk : Ends(l, t) /\ LeadsTo(l, w, t)}
           g        == [w \in Walk |-> CHOOSE t : IF Ended(w) = {} THEN t = 0 ELSE t \in Ended(w)]
           v        == Walks(l)
<1>1. ASSUME NEW w \in Walk, Ends(l, w)
      PROVE  g[w] = w
  <2>1. Ended(w) = {w}
    BY <1>1, LeadsToFacts
  <2> QED
    BY <2>1
<1>2. ASSUME NEW w \in Walk, ~Ends(l, w)
      PROVE  g[w] = g[FollowLink(l, w)]
  <2>1. Ended(w) = Ended(FollowLink(l, w)) /\ FollowLink(l, w) \in Walk
    BY <1>2, LeadsToNext
  <2> QED
    BY <2>1
<1>3. g = [w \in Walk |-> IF Ends(l, w) THEN w ELSE g[FollowLink(l, w)]]
  <2>1. \A w \in Walk : g[w] = IF Ends(l, w) THEN w ELSE g[FollowLink(l, w)]
    BY <1>1, <1>2
  <2>2. g = [w \in Walk |-> g[w]]
    OBVIOUS
  <2> HIDE DEF g
  <2> QED
    BY <2>1, <2>2
<1>4. \E h : h = [w \in Walk |-> IF Ends(l, w) THEN w ELSE h[FollowLink(l, w)]]
  BY <1>3
<1>5. v = CHOOSE h : h = [w \in Walk |-> IF Ends(l, w) THEN w ELSE h[FollowLink(l, w)]]
  BY DEF Walks
<1>6. v = [w \in Walk |-> IF Ends(l, w) THEN w ELSE v[FollowLink(l, w)]]
  <2> HIDE DEF v
  <2> QED
    BY <1>4, <1>5
<1> QED
  BY <1>6

-----------------------------------------------------------------------------
(* Resolution ends: a link that is followed is open until all that it leads *)
(* to has been resolved, no link is open twice, and there are finitely      *)
(* many.                                                                    *)

OpenLinks(w, n) == {o.link : o \in StillOpen(w, n)}

\* A step of a walk with n names or more behind its first link opens a link that
\* was not open, and closes none that is open when n names are left.
LEMMA FollowLinkOpens ==
  ASSUME NEW l, IsLinkMap(l), NEW w \in Walk, ~Ends(l, w),
         NEW n \in Nat, n <= Len(Behind(l, w.path))
  PROVE  LET next == FollowLink(l, w)
             k    == Len(Behind(l, w.path))
         IN  /\ StillOpen(w, n) \subseteq StillOpen(next, k)
             /\ IsFiniteSet(DOMAIN l \ OpenLinks(w, n))
             /\ Cardinality(DOMAIN l \ OpenLinks(next, k)) < Cardinality(DOMAIN l \ OpenLinks(w, n))
<1> DEFINE next == FollowLink(l, w)
           k    == Len(Behind(l, w.path))
           x    == FirstLink(l, w.path)
           old  == DOMAIN l \ OpenLinks(w, n)
           new  == DOMAIN l \ OpenLinks(next, k)
<1>1. k \in Nat /\ x \in DOMAIN l /\ n <= k
  BY FollowLinkProperties DEF Ends
<1>2. w.open \in SUBSET [link : Path, left : Nat]
  BY DEF Walk
<1>3. next.open = StillOpen(w, k) \cup {[link |-> x, left |-> k]}
  BY DEF FollowLink
<1>4. StillOpen(next, k) = StillOpen(w, k) \cup {[link |-> x, left |-> k]}
  BY <1>1, <1>3 DEF StillOpen
<1>5. StillOpen(w, n) \subseteq StillOpen(w, k)
  BY <1>1, <1>2 DEF StillOpen
<1>6. x \notin OpenLinks(w, k)
  BY DEF Ends, Loops, OpenLinks
<1>7. x \in OpenLinks(next, k) /\ OpenLinks(w, n) \subseteq OpenLinks(next, k)
  <2>1. [link |-> x, left |-> k].link = x
    OBVIOUS
  <2> QED
    BY <1>4, <1>5, <2>1 DEF OpenLinks
<1>8. x \in old /\ x \notin new /\ new \subseteq old
  BY <1>1, <1>5, <1>6, <1>7 DEF OpenLinks
<1>9. IsFiniteSet(old)
  BY FS_Subset DEF IsLinkMap
<1>10. Cardinality(new) < Cardinality(old)
  <2> HIDE DEF old, new
  <2>1. IsFiniteSet(new) /\ Cardinality(new) <= Cardinality(old) /\ Cardinality(new) # Cardinality(old)
    BY <1>8, <1>9, FS_Subset
  <2> QED
    BY <1>9, <2>1, FS_CardinalityType
<1> QED
  BY <1>4, <1>5, <1>9, <1>10

\* A walk on which c links are not open with n names left ends, or comes to have
\* fewer names behind its first link, with what was open still open.
Settles(l, w, n) ==
  \E t \in Walk :
    /\ LeadsTo(l, w, t)
    /\ Ends(l, t) \/ Len(Behind(l, t.path)) < n
    /\ StillOpen(w, n) \subseteq t.open

Unopened(l, w, n) == Cardinality(DOMAIN l \ OpenLinks(w, n))

SettlesFrom(l, c) == \A w \in Walk, n \in Nat : Unopened(l, w, n) <= c => Settles(l, w, n)

\* One step of the induction over c, by induction over the names behind the link.
LEMMA SettlesStep ==
  ASSUME NEW l, IsLinkMap(l), NEW c \in Nat, \A b \in 0 .. c - 1 : SettlesFrom(l, b)
  PROVE  SettlesFrom(l, c)
<1> DEFINE Fine(m) == \A w \in Walk, n \in Nat :
                        /\ Unopened(l, w, n) <= c
                        /\ Ends(l, w) \/ Len(Behind(l, w.path)) <= m
                        => Settles(l, w, n)
           bad     == {m \in Nat : ~Fine(m)}
<1>1. \A w \in Walk, n \in Nat : IsFiniteSet(DOMAIN l \ OpenLinks(w, n)) /\ Unopened(l, w, n) \in Nat
  BY FS_Subset, FS_CardinalityType DEF IsLinkMap, Unopened
<1>2. \A w \in Walk : ~Ends(l, w) => Len(Behind(l, w.path)) \in Nat
  BY FollowLinkProperties DEF Ends
<1>6. \A w \in Walk, n \in Nat : Unopened(l, w, n) \in Nat
  BY <1>1
<1>3. ASSUME NEW m \in Nat, \A j \in 0 .. m - 1 : Fine(j)
      PROVE  Fine(m)
  <2> SUFFICES ASSUME NEW w \in Walk, NEW n \in Nat, Unopened(l, w, n) <= c,
                      Ends(l, w) \/ Len(Behind(l, w.path)) <= m
               PROVE  Settles(l, w, n)
    OBVIOUS
  <2> DEFINE k    == Len(Behind(l, w.path))
             next == FollowLink(l, w)
  <2>1. CASE Ends(l, w) \/ k < n
    <3>1. StillOpen(w, n) \subseteq w.open
      BY DEF StillOpen
    <3> QED
      BY <2>1, <3>1, LeadsToFacts DEF Settles
  <2>2. CASE ~Ends(l, w) /\ ~(k < n)
    <3>1. k \in Nat /\ n <= k /\ k <= m
      BY <1>2, <2>2
    <3>2. next \in Walk /\ \A t : LeadsTo(l, next, t) => LeadsTo(l, w, t)
      BY <2>2, LeadsToNext
    <3>3. StillOpen(w, n) \subseteq StillOpen(next, k) /\ Unopened(l, next, k) < Unopened(l, w, n)
      BY <2>2, <3>1, FollowLinkOpens DEF Unopened
    <3>4. Settles(l, next, k)
      <4> DEFINE b == Unopened(l, next, k)
      <4>1. b \in Nat /\ Unopened(l, w, n) \in Nat
        <5> HIDE DEF next, k
        <5> QED
          BY <1>6, <3>1, <3>2
      <4>2. b \in 0 .. c - 1 /\ b <= b
        <5>1. b < Unopened(l, w, n)
          BY <3>3
        <5> HIDE DEF b
        <5> QED
          BY <4>1, <5>1
      <4>3. SettlesFrom(l, b)
        <5> HIDE DEF b
        <5> QED
          BY <4>2
      <4> HIDE DEF next, k
      <4> QED
        BY <3>1, <3>2, <4>2, <4>3 DEF SettlesFrom
    <3>5. PICK t \in Walk : /\ LeadsTo(l, next, t)
                            /\ Ends(l, t) \/ Len(Behind(l, t.path)) < k
                            /\ StillOpen(next, k) \subseteq t.open
      BY <3>4 DEF Settles
    <3>6. LeadsTo(l, w, t) /\ StillOpen(w, n) \subseteq t.open
      BY <3>2, <3>3, <3>5
    <3>7. StillOpen(w, n) \subseteq StillOpen(t, n)
      BY <3>6 DEF StillOpen
    <3>8. CASE Ends(l, t)
      BY <3>6, <3>8 DEF Settles
    <3>9. CASE ~Ends(l, t)
      <4> DEFINE j == Len(Behind(l, t.path))
      <4>1. j \in 0 .. m - 1
        <5>1. j \in Nat /\ j < k
          BY <1>2, <3>5, <3>9
        <5> HIDE DEF j, k
        <5> QED
          BY <3>1, <5>1
      <4>2. Unopened(l, t, n) <= c
        <5>1. DOMAIN l \ OpenLinks(t, n) \in SUBSET (DOMAIN l \ OpenLinks(w, n))
          BY <3>7 DEF OpenLinks
        <5>2. Unopened(l, t, n) <= Unopened(l, w, n)
          BY <1>1, <5>1, FS_Subset DEF Unopened
        <5>3. Unopened(l, t, n) \in Nat /\ Unopened(l, w, n) \in Nat
          BY <1>6
        <5> QED
          BY <5>2, <5>3
      <4>3. Settles(l, t, n)
        <5>1. Fine(j) /\ j <= j
          BY <1>3, <4>1
        <5> QED
          BY <4>2, <5>1
      <4>4. PICK u \in Walk : /\ LeadsTo(l, t, u)
                              /\ Ends(l, u) \/ Len(Behind(l, u.path)) < n
                              /\ StillOpen(t, n) \subseteq u.open
        BY <4>3 DEF Settles
      <4>5. LeadsTo(l, w, u) /\ StillOpen(w, n) \subseteq u.open
        BY <3>6, <3>7, <4>4, LeadsToFacts
      <4> QED
        BY <4>4, <4>5 DEF Settles
    <3> QED
      BY <3>8, <3>9
  <2> QED
    BY <2>1, <2>2
<1>4. bad = {}
  <2> SUFFICES ASSUME bad # {} PROVE FALSE
    OBVIOUS
  <2>1. Min(bad) \in bad /\ \A m \in bad : Min(bad) <= m
    <3> HIDE DEF Fine
    <3> QED
      BY MinIsLeast
  <2>2. \A j \in 0 .. Min(bad) - 1 : Fine(j)
    <3> HIDE DEF Fine
    <3> QED
      BY <2>1
  <2> HIDE DEF Fine
  <2> QED
    BY <1>3, <2>1, <2>2
<1>5. ASSUME NEW w \in Walk, NEW n \in Nat, Unopened(l, w, n) <= c
      PROVE  Settles(l, w, n)
  <2>1. CASE Ends(l, w)
    <3>1. Fine(0)
      <4> HIDE DEF Fine
      <4> QED
        BY <1>4
    <3> QED
      BY <1>5, <2>1, <3>1
  <2>2. CASE ~Ends(l, w)
    <3>1. Fine(Len(Behind(l, w.path)))
      <4> HIDE DEF Fine
      <4> QED
        BY <1>2, <1>4, <2>2
    <3>2. Len(Behind(l, w.path)) <= Len(Behind(l, w.path))
      BY <1>2, <2>2
    <3> QED
      BY <1>5, <3>1, <3>2
  <2> QED
    BY <2>1, <2>2
<1> QED
  BY <1>5 DEF SettlesFrom

LEMMA AllSettle ==
  ASSUME NEW l, IsLinkMap(l), NEW c \in Nat
  PROVE  SettlesFrom(l, c)
<1> DEFINE bad == {b \in Nat : ~SettlesFrom(l, b)}
<1>1. SUFFICES ASSUME bad # {} PROVE FALSE
  OBVIOUS
<1>2. Min(bad) \in bad /\ \A b \in bad : Min(bad) <= b
  BY <1>1, MinIsLeast
<1>3. \A b \in 0 .. Min(bad) - 1 : SettlesFrom(l, b)
  BY <1>2
<1> QED
  BY <1>2, <1>3, SettlesStep

\* Every walk ends, and Walks gives its end.
THEOREM ResolutionEnds ==
  ASSUME NEW l, IsLinkMap(l), NEW w \in Walk
  PROVE  /\ Walks(l)[w] \in Walk
         /\ Ends(l, Walks(l)[w])
         /\ LeadsTo(l, w, Walks(l)[w])
<1> DEFINE v == Walks(l)
<1>1. PICK t \in Walk : LeadsTo(l, w, t) /\ Ends(l, t)
  <2>1. Unopened(l, w, 0) \in Nat
    BY FS_Subset, FS_CardinalityType DEF IsLinkMap, Unopened
  <2>2. Settles(l, w, 0)
    BY <2>1, AllSettle DEF SettlesFrom
  <2>3. \A u \in Walk : ~Ends(l, u) => Len(Behind(l, u.path)) \in Nat
    BY FollowLinkProperties DEF Ends
  <2> QED
    BY <2>2, <2>3 DEF Settles
<1>2. \A u \in Walk : v[u] = IF Ends(l, u) THEN u ELSE v[FollowLink(l, u)]
  BY WalksIsRecursive
<1> DEFINE C == {u \in Walk : v[u] = v[w]}
<1>3. w \in C /\ IsClosed(l, C) /\ C \in SUBSET Walk
  <2> HIDE DEF v
  <2>1. \A u \in Walk : ~Ends(l, u) => FollowLink(l, u) \in Walk
    BY LeadsToNext
  <2> QED
    BY <1>2, <2>1 DEF IsClosed
<1>4. v[t] = v[w] /\ v[t] = t
  BY <1>1, <1>2, <1>3 DEF LeadsTo
<1> QED
  BY <1>1, <1>4

\* What realpath gives is a path, and a path in which no link is left is its own.
LEMMA realpathProperties ==
  ASSUME NEW l, IsLinkMap(l), NEW p \in Path
  PROVE  /\ realpath(l, p) \in Path
         /\ LinksIn(l, p) = {} => realpath(l, p) = p
<1> DEFINE w == [path |-> p, open |-> {}]
<1>1. w \in Walk /\ w.path = p
  BY DEF Walk
<1>2. Walks(l)[w] \in Walk /\ LeadsTo(l, w, Walks(l)[w])
  BY <1>1, ResolutionEnds
<1>3. realpath(l, p) \in Path
  BY <1>2 DEF realpath, Walk
<1>4. ASSUME LinksIn(l, p) = {} PROVE realpath(l, p) = p
  <2>1. Ends(l, w)
    BY <1>1, <1>4 DEF Ends
  <2>2. Walks(l)[w] = w
    BY <1>1, <1>2, <2>1, LeadsToFacts
  <2> QED
    BY <2>2 DEF realpath
<1> QED
  BY <1>3, <1>4

-----------------------------------------------------------------------------
(* The order of paths.                                                     *)

LEMMA PathElements ==
  ASSUME NEW p \in Path
  PROVE  Len(p) \in Nat /\ \A i \in 1 .. Len(p) : p[i] \in Names \cup {SandboxName}
BY LenProperties, ElementOfSeq DEF Path

LEMMA PathEqual ==
  ASSUME NEW p \in Path, NEW q \in Path, Len(p) = Len(q), \A i \in 1 .. Len(p) : p[i] = q[i]
  PROVE  p = q
BY SeqEqual DEF Path

\* The beginning of a path.
LEMMA BeginningProperties ==
  ASSUME NEW p \in Path, NEW n \in 0 .. Len(p)
  PROVE  /\ SubSeq(p, 1, n) \in Path
         /\ Len(SubSeq(p, 1, n)) = n
         /\ \A i \in 1 .. n : SubSeq(p, 1, n)[i] = p[i]
<1>1. Len(p) \in Nat /\ \A i \in 1 .. n : p[i] \in Names \cup {SandboxName}
  BY PathElements
<1>2. /\ SubSeq(p, 1, n) \in Path
      /\ Len(SubSeq(p, 1, n)) = IF 1 <= n THEN n - 1 + 1 ELSE 0
      /\ \A i \in 1 .. n - 1 + 1 : SubSeq(p, 1, n)[i] = p[1 + i - 1]
  BY <1>1, SubSeqProperties DEF Path
<1> QED
  BY <1>1, <1>2

\* p is an ancestor of x if x begins with p.
LEMMA AncestorBegins ==
  ASSUME NEW p \in Path, NEW x \in Path
  PROVE  /\ p \in Ancestors(x) <=> Len(p) <= Len(x) /\ \A i \in 1 .. Len(p) : p[i] = x[i]
         /\ p \in Ancestors(x) <=> AtOrUnder(p, x)
<1>1. Len(p) \in Nat /\ Len(x) \in Nat
  BY PathElements
<1>2. ASSUME p \in Ancestors(x)
      PROVE  Len(p) <= Len(x) /\ \A i \in 1 .. Len(p) : p[i] = x[i]
  <2>1. PICK n \in 0 .. Len(x) : p = SubSeq(x, 1, n)
    BY <1>2 DEF Ancestors
  <2> QED
    BY <1>1, <2>1, BeginningProperties
<1>3. ASSUME Len(p) <= Len(x), \A i \in 1 .. Len(p) : p[i] = x[i]
      PROVE  p = SubSeq(x, 1, Len(p)) /\ p \in Ancestors(x)
  <2>1. Len(p) \in 0 .. Len(x)
    BY <1>1, <1>3
  <2>2. /\ SubSeq(x, 1, Len(p)) \in Path
        /\ Len(SubSeq(x, 1, Len(p))) = Len(p)
        /\ \A i \in 1 .. Len(p) : SubSeq(x, 1, Len(p))[i] = p[i]
    BY <1>3, <2>1, BeginningProperties
  <2>3. p = SubSeq(x, 1, Len(p))
    BY <2>2, PathEqual
  <2> QED
    BY <2>1, <2>3 DEF Ancestors
<1>4. SubSeq(p, 1, Len(p)) = p
  BY SubSeqFull DEF Path
<1>5. ASSUME AtOrUnder(p, x)
      PROVE  p \in Ancestors(x)
  <2>1. Len(p) \in 0 .. Len(x) /\ p = SubSeq(x, 1, Len(p))
    BY <1>1, <1>4, <1>5 DEF AtOrUnder, IsPrefix
  <2> QED
    BY <2>1 DEF Ancestors
<1>6. ASSUME p \in Ancestors(x)
      PROVE  AtOrUnder(p, x)
  <2>1. Len(p) <= Len(x) /\ p = SubSeq(x, 1, Len(p))
    BY <1>2, <1>3, <1>6
  <2> QED
    BY <1>4, <2>1 DEF AtOrUnder, IsPrefix
<1> QED
  BY <1>2, <1>3, <1>5, <1>6

\* The values of a function on a finite set.
LEMMA FiniteImage ==
  ASSUME NEW S, IsFiniteSet(S), NEW f
  PROVE  IsFiniteSet({f[x] : x \in S})
<1> DEFINE T == {f[x] : x \in S}
           g == [x \in S |-> f[x]]
<1>1. g \in Surjection(S, T)
  BY DEF Surjection
<1> QED
  BY <1>1, FS_Surjection

\* The ancestors of a path.
LEMMA AncestorsProperties ==
  ASSUME NEW p \in Path
  PROVE  /\ Ancestors(p) \subseteq Path
         /\ IsFiniteSet(Ancestors(p))
         /\ p \in Ancestors(p)
         /\ <<>> \in Ancestors(p)
         /\ p = <<>> => Parents(p) = {}
<1>1. Len(p) \in Nat
  BY PathElements
<1>2. Ancestors(p) \subseteq Path
  BY BeginningProperties DEF Ancestors
<1>3. IsFiniteSet(Ancestors(p))
  <2>1. IsFiniteSet(0 .. Len(p))
    BY <1>1, FS_Interval
  <2> DEFINE f == [n \in 0 .. Len(p) |-> SubSeq(p, 1, n)]
  <2>2. Ancestors(p) = {f[n] : n \in 0 .. Len(p)}
    BY DEF Ancestors
  <2> HIDE DEF f
  <2>3. IsFiniteSet({f[n] : n \in 0 .. Len(p)})
    BY <2>1, FiniteImage
  <2> QED
    BY <2>2, <2>3
<1>4. p \in Ancestors(p)
  BY AncestorBegins, <1>1
<1>5. <<>> \in Ancestors(p) /\ <<>> \in Path
  <2>1. <<>> \in Path /\ Len(<<>>) = 0
    BY EmptySeq DEF Path
  <2> QED
    BY <1>1, <2>1, AncestorBegins
<1>6. ASSUME p = <<>>, NEW x \in Parents(p) PROVE FALSE
  <2>1. x \in Path /\ x \in Ancestors(p) /\ x # p
    BY <1>2, <1>6 DEF Parents
  <2>2. Len(p) = 0 /\ Len(x) <= Len(p)
    BY <1>6, <2>1, AncestorBegins, EmptySeq
  <2>3. Len(x) = 0
    BY <2>1, <2>2, PathElements
  <2> QED
    BY <2>1, <2>2, <2>3, PathEqual
<1> QED
  BY <1>2, <1>3, <1>4, <1>5, <1>6

LEMMA AncestorsAreOrdered ==
  ASSUME NEW x \in Path, NEW y \in Path, NEW z \in Path
  PROVE  /\ x \in Ancestors(y) /\ y \in Ancestors(z) => x \in Ancestors(z)
         /\ x \in Ancestors(y) /\ y \in Ancestors(x) => x = y
         /\ x \in Ancestors(z) /\ y \in Ancestors(z) => x \in Ancestors(y) \/ y \in Ancestors(x)
<1>1. Len(x) \in Nat /\ Len(y) \in Nat /\ Len(z) \in Nat
  BY PathElements
<1>2. ASSUME x \in Ancestors(y), y \in Ancestors(z) PROVE x \in Ancestors(z)
  BY <1>1, <1>2, AncestorBegins
<1>3. ASSUME x \in Ancestors(y), y \in Ancestors(x) PROVE x = y
  <2>1. Len(x) = Len(y)
    BY <1>1, <1>3, AncestorBegins
  <2> QED
    BY <1>3, <2>1, AncestorBegins, PathEqual
<1>4. ASSUME x \in Ancestors(z), y \in Ancestors(z), Len(x) <= Len(y) PROVE x \in Ancestors(y)
  <2>1. \A i \in 1 .. Len(x) : x[i] = z[i] /\ y[i] = z[i]
    BY <1>1, <1>4, AncestorBegins
  <2> QED
    BY <1>4, <2>1, AncestorBegins
<1>5. ASSUME x \in Ancestors(z), y \in Ancestors(z), Len(y) <= Len(x) PROVE y \in Ancestors(x)
  <2>1. \A i \in 1 .. Len(y) : x[i] = z[i] /\ y[i] = z[i]
    BY <1>1, <1>5, AncestorBegins
  <2> QED
    BY <1>5, <2>1, AncestorBegins
<1>6. Len(x) <= Len(y) \/ Len(y) <= Len(x)
  BY <1>1
<1> QED
  BY <1>2, <1>3, <1>4, <1>5, <1>6

\* The directory of a path.
LEMMA AboveProperties ==
  ASSUME NEW p \in Path, p # <<>>
  PROVE  /\ Above(p) \in Path
         /\ Above(p) # p
         /\ Parents(p) = Ancestors(Above(p))
<1>1. Len(p) \in Nat /\ Len(p) # 0
  BY EmptySeq DEF Path
<1>2. /\ Above(p) \in Path
      /\ Len(Above(p)) = Len(p) - 1
      /\ \A i \in 1 .. Len(p) - 1 : Above(p)[i] = p[i]
  <2>1. Len(p) - 1 \in 0 .. Len(p)
    BY <1>1
  <2> QED
    BY <2>1, BeginningProperties DEF Above
<1>3. Above(p) # p
  BY <1>1, <1>2
<1>4. ASSUME NEW x \in Path
      PROVE  x \in Parents(p) <=> x \in Ancestors(Above(p))
  <2>1. Len(x) \in Nat
    BY PathElements
  <2>2. ASSUME x \in Parents(p) PROVE x \in Ancestors(Above(p))
    <3>1. Len(x) <= Len(p) /\ (\A i \in 1 .. Len(x) : x[i] = p[i]) /\ x # p
      BY <2>2, AncestorBegins DEF Parents
    <3>2. Len(x) # Len(p)
      BY <3>1, PathEqual
    <3>3. Len(x) <= Len(Above(p))
      BY <1>1, <1>2, <2>1, <3>1, <3>2
    <3>4. \A i \in 1 .. Len(x) : x[i] = Above(p)[i]
      BY <1>1, <1>2, <2>1, <3>1, <3>3
    <3> QED
      BY <1>2, <3>3, <3>4, AncestorBegins
  <2>3. ASSUME x \in Ancestors(Above(p)) PROVE x \in Parents(p)
    <3>1. Len(x) <= Len(Above(p)) /\ \A i \in 1 .. Len(x) : x[i] = Above(p)[i]
      BY <1>2, <2>3, AncestorBegins
    <3>2. Len(x) < Len(p) /\ \A i \in 1 .. Len(x) : x[i] = p[i]
      BY <1>1, <1>2, <2>1, <3>1
    <3>3. x \in Ancestors(p)
      BY <1>1, <2>1, <3>2, AncestorBegins
    <3> QED
      BY <1>1, <3>2, <3>3 DEF Parents
  <2> QED
    BY <2>2, <2>3
<1>5. Parents(p) \subseteq Path /\ Ancestors(Above(p)) \subseteq Path
  BY <1>2, AncestorsProperties DEF Parents
<1> QED
  BY <1>2, <1>3, <1>4, <1>5

\* A path that is put below another one.
LEMMA BelowProperties ==
  ASSUME NEW s \in Path, NEW x \in Path
  PROVE  /\ s \o x \in Path
         /\ s \in Ancestors(s \o x)
         /\ From(s, s \o x) = x
         /\ \A y \in Ancestors(x) : s \o y \in Ancestors(s \o x)
         /\ \A y \in Path : s \o x \in Ancestors(s \o y) => x \in Ancestors(y)
<1>1. Len(s) \in Nat /\ Len(x) \in Nat
  BY PathElements
<1>2. \A y \in Path : /\ s \o y \in Path
                      /\ Len(s \o y) = Len(s) + Len(y)
                      /\ \A i \in 1 .. Len(s) + Len(y) :
                           (s \o y)[i] = IF i <= Len(s) THEN s[i] ELSE y[i - Len(s)]
  BY ConcatProperties DEF Path
<1>3. s \in Ancestors(s \o x)
  <2>1. Len(s) <= Len(s \o x) /\ \A i \in 1 .. Len(s) : s[i] = (s \o x)[i]
    BY <1>1, <1>2
  <2> QED
    BY <1>2, <2>1, AncestorBegins
<1>4. From(s, s \o x) = x
  <2> DEFINE t == s \o x
             r == SubSeq(t, Len(s) + 1, Len(t))
  <2>1. t \in Path /\ Len(t) = Len(s) + Len(x) /\ \A i \in 1 .. Len(x) : t[Len(s) + i] = x[i]
    <3>1. \A i \in 1 .. Len(x) : /\ Len(s) + i \in 1 .. Len(s) + Len(x)
                                 /\ ~(Len(s) + i <= Len(s))
                                 /\ Len(s) + i - Len(s) = i
      BY <1>1
    <3> QED
      BY <1>2, <3>1
  <2> HIDE DEF t
  <2>2. \A i \in Len(s) + 1 .. Len(t) : t[i] \in Names \cup {SandboxName}
    BY <1>1, <2>1, PathElements
  <2>3. /\ r \in Seq(Names \cup {SandboxName})
        /\ Len(r) = IF Len(s) + 1 <= Len(t) THEN Len(t) - (Len(s) + 1) + 1 ELSE 0
        /\ \A i \in 1 .. Len(t) - (Len(s) + 1) + 1 : r[i] = t[Len(s) + 1 + i - 1]
    BY <1>1, <2>1, <2>2, SubSeqProperties
  <2> HIDE DEF r
  <2>4. r \in Path /\ Len(r) = Len(x)
    BY <1>1, <2>1, <2>3 DEF Path
  <2>5. \A i \in 1 .. Len(r) : r[i] = x[i]
    <3> SUFFICES ASSUME NEW i \in 1 .. Len(x) PROVE r[i] = x[i]
      BY <2>4
    <3>1. i \in 1 .. Len(t) - (Len(s) + 1) + 1 /\ Len(s) + 1 + i - 1 = Len(s) + i
      BY <1>1, <2>1
    <3> QED
      BY <2>1, <2>3, <3>1
  <2>6. r = x
    BY <2>4, <2>5, PathEqual
  <2> QED
    BY <2>6 DEF From, r, t
<1>5. ASSUME NEW y \in Ancestors(x) PROVE s \o y \in Ancestors(s \o x)
  <2>1. y \in Path
    BY AncestorsProperties
  <2>2. Len(y) \in Nat /\ Len(y) <= Len(x) /\ \A i \in 1 .. Len(y) : y[i] = x[i]
    BY <2>1, AncestorBegins, PathElements
  <2>3. Len(s \o y) <= Len(s \o x)
    BY <1>1, <1>2, <2>1, <2>2
  <2>4. ASSUME NEW i \in 1 .. Len(s \o y) PROVE (s \o y)[i] = (s \o x)[i]
    <3>1. i \in 1 .. Len(s) + Len(y) /\ i \in 1 .. Len(s) + Len(x)
      BY <1>1, <1>2, <2>1, <2>2
    <3>2. CASE i <= Len(s)
      BY <1>2, <2>1, <3>1, <3>2
    <3>3. CASE ~(i <= Len(s))
      <4>1. i - Len(s) \in 1 .. Len(y)
        BY <1>1, <2>2, <3>1, <3>3
      <4> QED
        BY <1>2, <2>1, <2>2, <3>1, <3>3, <4>1
    <3> QED
      BY <3>2, <3>3
  <2> QED
    BY <1>2, <2>1, <2>3, <2>4, AncestorBegins
<1>6. ASSUME NEW y \in Path, s \o x \in Ancestors(s \o y) PROVE x \in Ancestors(y)
  <2>1. Len(y) \in Nat
    BY PathElements
  <2>2. Len(s \o x) <= Len(s \o y) /\ \A i \in 1 .. Len(s \o x) : (s \o x)[i] = (s \o y)[i]
    BY <1>2, <1>6, AncestorBegins
  <2>3. Len(x) <= Len(y)
    BY <1>1, <1>2, <2>1, <2>2
  <2>4. ASSUME NEW i \in 1 .. Len(x) PROVE x[i] = y[i]
    <3>1. /\ Len(s) + i \in 1 .. Len(s) + Len(x)
          /\ Len(s) + i \in 1 .. Len(s) + Len(y)
          /\ ~(Len(s) + i <= Len(s))
          /\ Len(s) + i - Len(s) = i
      BY <1>1, <2>1, <2>3
    <3>2. (s \o x)[Len(s) + i] = x[i] /\ (s \o y)[Len(s) + i] = y[i]
      BY <1>2, <3>1
    <3>3. (s \o x)[Len(s) + i] = (s \o y)[Len(s) + i]
      BY <1>2, <2>2, <3>1
    <3> QED
      BY <3>2, <3>3
  <2> QED
    BY <2>3, <2>4, AncestorBegins
<1> QED
  BY <1>2, <1>3, <1>4, <1>5, <1>6

\* A path at or under another one, as it is seen from there.
LEMMA FromProperties ==
  ASSUME NEW s \in Path, NEW x \in Path, s \in Ancestors(x)
  PROVE  From(s, x) \in Path /\ s \o From(s, x) = x
<1> DEFINE r == From(s, x)
<1>1. Len(s) \in Nat /\ Len(x) \in Nat /\ Len(s) <= Len(x) /\ \A i \in 1 .. Len(s) : s[i] = x[i]
  BY PathElements, AncestorBegins
<1>2. \A i \in Len(s) + 1 .. Len(x) : x[i] \in Names \cup {SandboxName}
  BY <1>1, PathElements
<1>3. /\ r \in Path
      /\ Len(r) = IF Len(s) + 1 <= Len(x) THEN Len(x) - (Len(s) + 1) + 1 ELSE 0
      /\ \A i \in 1 .. Len(x) - (Len(s) + 1) + 1 : r[i] = x[Len(s) + 1 + i - 1]
  BY <1>1, <1>2, SubSeqProperties DEF From, Path
<1> HIDE DEF r
<1>4. Len(r) = Len(x) - Len(s) /\ \A i \in 1 .. Len(x) - Len(s) : r[i] = x[Len(s) + i]
  <2>1. \A i \in 1 .. Len(x) - Len(s) : /\ i \in 1 .. Len(x) - (Len(s) + 1) + 1
                                        /\ Len(s) + 1 + i - 1 = Len(s) + i
    BY <1>1
  <2> QED
    BY <1>1, <1>3, <2>1
<1>5. /\ s \o r \in Path
      /\ Len(s \o r) = Len(s) + Len(r)
      /\ \A i \in 1 .. Len(s) + Len(r) : (s \o r)[i] = IF i <= Len(s) THEN s[i] ELSE r[i - Len(s)]
  BY <1>3, ConcatProperties DEF Path
<1>6. ASSUME NEW i \in 1 .. Len(s \o r) PROVE (s \o r)[i] = x[i]
  <2>1. i \in 1 .. Len(s) + Len(r)
    BY <1>5
  <2>2. CASE i <= Len(s)
    BY <1>1, <1>5, <2>1, <2>2
  <2>3. CASE ~(i <= Len(s))
    <3>1. i - Len(s) \in 1 .. Len(x) - Len(s) /\ Len(s) + (i - Len(s)) = i
      BY <1>1, <1>4, <2>1, <2>3
    <3>2. r[i - Len(s)] = x[i]
      BY <1>4, <3>1
    <3> QED
      BY <1>5, <2>1, <2>3, <3>2
  <2> QED
    BY <2>2, <2>3
<1>7. Len(s \o r) = Len(x)
  BY <1>1, <1>4, <1>5
<1>8. s \o r = x
  BY <1>5, <1>6, <1>7, PathEqual
<1> QED
  BY <1>3, <1>8 DEF r

\* What is above a path that was put below another one is above that one, or was
\* put below it in the same way.
LEMMA AncestorsBelow ==
  ASSUME NEW s \in Path, NEW x \in Path, NEW y \in Ancestors(s \o x)
  PROVE  y \in Ancestors(s) \/ (s \in Ancestors(y) /\ From(s, y) \in Ancestors(x))
<1>1. s \o x \in Path /\ s \in Ancestors(s \o x) /\ y \in Path
  BY BelowProperties, AncestorsProperties
<1>2. y \in Ancestors(s) \/ s \in Ancestors(y)
  BY <1>1, AncestorsAreOrdered
<1>3. ASSUME s \in Ancestors(y) PROVE From(s, y) \in Ancestors(x)
  <2>1. From(s, y) \in Path /\ s \o From(s, y) = y
    BY <1>1, <1>3, FromProperties
  <2>2. s \o From(s, y) \in Ancestors(s \o x)
    BY <2>1
  <2> QED
    BY <2>1, <2>2, BelowProperties
<1> QED
  BY <1>2, <1>3

-----------------------------------------------------------------------------
(* Paths above and below each other.                                       *)

\* Being at or under a path is an order, in which what is above a path is a
\* chain that begins with the sandbox.
LEMMA UnderProperties ==
  ASSUME NEW x \in Path, NEW y \in Path, NEW z \in Path
  PROVE  /\ <<>> \in Path
         /\ AtOrUnder(<<>>, x) /\ AtOrUnder(x, x)
         /\ AtOrUnder(x, <<>>) => x = <<>>
         /\ AtOrUnder(x, y) /\ AtOrUnder(y, z) => AtOrUnder(x, z)
         /\ AtOrUnder(x, y) /\ AtOrUnder(y, x) => x = y
         /\ AtOrUnder(x, z) /\ AtOrUnder(y, z) => AtOrUnder(x, y) \/ AtOrUnder(y, x)
         /\ x \in Ancestors(y) <=> AtOrUnder(x, y)
         /\ x \in Parents(y) <=> AtOrUnder(x, y) /\ x # y
<1>1. <<>> \in Path
  BY EmptySeq DEF Path
<1>2. \A a, b \in Path : a \in Ancestors(b) <=> AtOrUnder(a, b)
  BY AncestorBegins
<1>3. <<>> \in Ancestors(x) /\ x \in Ancestors(x) /\ <<>> \in Ancestors(<<>>)
  BY <1>1, AncestorsProperties
<1>4. /\ x \in Ancestors(y) /\ y \in Ancestors(z) => x \in Ancestors(z)
      /\ x \in Ancestors(y) /\ y \in Ancestors(x) => x = y
      /\ x \in Ancestors(z) /\ y \in Ancestors(z) => x \in Ancestors(y) \/ y \in Ancestors(x)
  BY AncestorsAreOrdered
<1>5. x \in Ancestors(<<>>) /\ <<>> \in Ancestors(x) => x = <<>>
  BY <1>1, AncestorsAreOrdered
<1> QED
  BY <1>1, <1>2, <1>3, <1>4, <1>5 DEF Parents

\* A path below s is s and the path as it is seen from there.
LEMMA JoinProperties ==
  ASSUME NEW s \in Path, NEW x \in Path
  PROVE  /\ s \o x \in Path
         /\ AtOrUnder(s, s \o x)
         /\ From(s, s \o x) = x
         /\ \A y \in Path : AtOrUnder(y, x) <=> AtOrUnder(s \o y, s \o x)
         /\ AtOrUnder(s, x) => From(s, x) \in Path /\ s \o From(s, x) = x
<1>1. /\ s \o x \in Path
      /\ s \in Ancestors(s \o x)
      /\ From(s, s \o x) = x
      /\ \A y \in Ancestors(x) : s \o y \in Ancestors(s \o x)
  BY BelowProperties
<1>2. \A y \in Path : s \o y \in Path /\ (s \o y \in Ancestors(s \o x) => y \in Ancestors(x))
  BY BelowProperties
<1>3. \A a, b \in Path : a \in Ancestors(b) <=> AtOrUnder(a, b)
  BY AncestorBegins
<1>4. s \in Ancestors(x) => From(s, x) \in Path /\ s \o From(s, x) = x
  BY FromProperties
<1> QED
  BY <1>1, <1>2, <1>3, <1>4

\* What is strictly above a path is what is above its directory.
LEMMA AboveIsUnder ==
  ASSUME NEW p \in Path, p # <<>>
  PROVE  /\ Above(p) \in Path
         /\ Above(p) # p /\ AtOrUnder(Above(p), p)
         /\ \A x \in Path : AtOrUnder(x, p) /\ x # p => AtOrUnder(x, Above(p))
<1>1. Above(p) \in Path /\ Above(p) # p /\ Parents(p) = Ancestors(Above(p))
  BY AboveProperties
<1>2. Above(p) \in Parents(p)
  BY <1>1, AncestorsProperties
<1>3. \A x \in Path : /\ x \in Parents(p) <=> AtOrUnder(x, p) /\ x # p
                      /\ x \in Ancestors(Above(p)) <=> AtOrUnder(x, Above(p))
  BY <1>1, UnderProperties
<1> QED
  BY <1>1, <1>2, <1>3

-----------------------------------------------------------------------------
(* Resolving again.                                                        *)

\* Joining is associative.
LEMMA JoinIsAssociative ==
  ASSUME NEW a \in Path, NEW b \in Path, NEW c \in Path
  PROVE  /\ (a \o b) \o c = a \o (b \o c)
         /\ a \o b \in Path /\ b \o c \in Path
BY ConcatAssociative, JoinProperties DEF Path

\* The same of all paths at once.
LEMMA PathsAssociate == \A a, b, c \in Path : (a \o b) \o c = a \o (b \o c)
BY Zenon, JoinIsAssociative

\* Two ways to divide a path, and the part between them.
IsJoin(p, a, b) == p = a \o b

SamePath(a, b, c, d) == a \o b = c \o d /\ Len(d) <= Len(b)

LEMMA Divided ==
  ASSUME NEW a \in Path, NEW b \in Path, NEW c \in Path, NEW d \in Path, SamePath(a, b, c, d)
  PROVE  From(a, c) \in Path /\ c = a \o From(a, c) /\ b = From(a, c) \o d
<1>1. /\ Len(a) \in Nat /\ Len(b) \in Nat /\ Len(c) \in Nat /\ Len(d) \in Nat
      /\ Len(a \o b) = Len(a) + Len(b) /\ Len(c \o d) = Len(c) + Len(d)
      /\ a \o b = c \o d /\ Len(d) <= Len(b)
  BY PathElements, ConcatProperties DEF Path, SamePath
<1>2. Len(a) <= Len(c)
  BY <1>1
<1>3. a \o b \in Path /\ AtOrUnder(a, a \o b) /\ AtOrUnder(c, a \o b)
  BY <1>1, JoinProperties
<1>4. AtOrUnder(a, c)
  <2>1. AtOrUnder(a, c) \/ AtOrUnder(c, a)
    BY <1>3, UnderProperties
  <2>2. ASSUME AtOrUnder(c, a) PROVE a = c
    <3>1. Len(c) <= Len(a) /\ \A i \in 1 .. Len(c) : c[i] = a[i]
      BY <2>2, AncestorBegins
    <3> QED
      BY <1>1, <1>2, <3>1, PathEqual
  <2> QED
    BY <2>1, <2>2, UnderProperties
<1>8. From(a, c) \in Path /\ a \o From(a, c) = c
  BY <1>4, JoinProperties
<1> DEFINE r == From(a, c)
<1>5. r \in Path /\ c = a \o r
  BY <1>8
<1> HIDE DEF r
<1>6. c \o d = a \o (r \o d) /\ r \o d \in Path
  <2>1. (a \o r) \o d = a \o (r \o d)
    BY <1>5, PathsAssociate
  <2>2. \A t \in Path : t \o d \in Path
    BY JoinProperties
  <2> QED
    BY <1>5, <2>1, <2>2
<1>7. From(a, a \o b) = b /\ From(a, a \o (r \o d)) = r \o d
  BY <1>6, JoinProperties
<1> QED
  BY <1>1, <1>5, <1>6, <1>7 DEF r

\* x is the first link of whatever begins with it.
IsFirst(l, x) ==
  /\ x \in Path /\ x # <<>> /\ x \in DOMAIN l
  /\ \A y \in Path : AtOrUnder(y, x) /\ y # <<>> /\ y \in DOMAIN l => y = x

\* The first link of a path is such a link.
LEMMA FirstLinkIsFirst ==
  ASSUME NEW l, NEW p \in Path, LinksIn(l, p) # {}
  PROVE  /\ IsFirst(l, FirstLink(l, p))
         /\ p = FirstLink(l, p) \o Behind(l, p)
<1> DEFINE n == Min(LinksIn(l, p))
           x == FirstLink(l, p)
<1>1. /\ n \in LinksIn(l, p) /\ n \in 1 .. Len(p) /\ x \in DOMAIN l /\ Len(p) \in Nat
      /\ Behind(l, p) \in Path
  BY FirstLinkProperties, PathElements
<1>2. x \in Path /\ Len(x) = n /\ \A i \in 1 .. n : x[i] = p[i]
  BY <1>1, BeginningProperties DEF FirstLink
<1>3. AtOrUnder(x, p)
  BY <1>1, <1>2, AncestorBegins
<1>4. Behind(l, p) = From(x, p)
  BY <1>2 DEF Behind, From
<1>5. p = x \o Behind(l, p)
  <2>1. x \o From(x, p) = p
    <3> HIDE DEF x
    <3> QED
      BY <1>2, <1>3, JoinProperties
  <2> QED
    BY <1>4, <2>1
<1>6. x # <<>>
  BY <1>1, <1>2, EmptySeq
<1>7. ASSUME NEW y \in Path, AtOrUnder(y, x), y # <<>>, y \in DOMAIN l
      PROVE  y = x
  <2>1. /\ Len(y) \in Nat /\ Len(y) <= Len(x) /\ \A i \in 1 .. Len(y) : y[i] = x[i]
    BY <1>2, <1>7, AncestorBegins, PathElements
  <2>2. Len(y) # 0
    BY <1>7, EmptySeq DEF Path
  <2>3. Len(y) \in 0 .. Len(p) /\ Len(y) \in 1 .. Len(p)
    BY <1>1, <1>2, <2>1, <2>2
  <2>4. SubSeq(p, 1, Len(y)) = y
    <3>1. AtOrUnder(y, p)
      BY <1>2, <1>3, <1>7, UnderProperties
    <3>2. y \in Ancestors(p)
      BY <3>1, AncestorBegins
    <3>3. /\ SubSeq(p, 1, Len(y)) \in Path /\ Len(SubSeq(p, 1, Len(y))) = Len(y)
          /\ \A i \in 1 .. Len(y) : SubSeq(p, 1, Len(y))[i] = p[i]
      BY <2>3, BeginningProperties
    <3>4. \A i \in 1 .. Len(y) : y[i] = p[i]
      BY <3>2, AncestorBegins
    <3> QED
      BY <3>3, <3>4, PathEqual
  <2>5. Len(y) \in LinksIn(l, p)
    BY <1>7, <2>3, <2>4 DEF LinksIn
  <2>6. n <= Len(y)
    <3>1. LinksIn(l, p) \in SUBSET Nat
      BY <1>1 DEF LinksIn
    <3> QED
      BY <2>5, <3>1, MinIsLeast
  <2> QED
    BY <1>1, <1>2, <2>1, <2>6, PathEqual
<1> QED
  BY <1>1, <1>2, <1>5, <1>6, <1>7 DEF IsFirst

\* A path that begins with such a link has it as its first.
LEMMA FirstLinkOf ==
  ASSUME NEW l, NEW x, IsFirst(l, x), NEW e \in Path
  PROVE  /\ x \o e \in Path
         /\ LinksIn(l, x \o e) # {}
         /\ FirstLink(l, x \o e) = x
         /\ Behind(l, x \o e) = e
<1> DEFINE p == x \o e
<1>1. x \in Path /\ x # <<>> /\ x \in DOMAIN l
  BY DEF IsFirst
<1>2. p \in Path /\ AtOrUnder(x, p) /\ From(x, p) = e
  BY <1>1, JoinProperties
<1> HIDE DEF p
<1>3. /\ Len(x) \in Nat /\ Len(p) \in Nat /\ Len(x) <= Len(p) /\ Len(x) # 0
      /\ \A i \in 1 .. Len(x) : x[i] = p[i]
  BY <1>1, <1>2, AncestorBegins, PathElements, EmptySeq DEF Path
<1>4. SubSeq(p, 1, Len(x)) = x
  <2>1. Len(x) \in 0 .. Len(p)
    BY <1>3
  <2>2. /\ SubSeq(p, 1, Len(x)) \in Path /\ Len(SubSeq(p, 1, Len(x))) = Len(x)
        /\ \A i \in 1 .. Len(x) : SubSeq(p, 1, Len(x))[i] = p[i]
    BY <1>2, <2>1, BeginningProperties
  <2> DEFINE y == SubSeq(p, 1, Len(x))
  <2>3. y \in Path /\ Len(y) = Len(x) /\ \A i \in 1 .. Len(y) : y[i] = x[i]
    BY <1>3, <2>2
  <2> HIDE DEF y
  <2>4. y = x
    BY <1>1, <2>3, PathEqual
  <2> QED
    BY <2>4 DEF y
<1>10. Len(x) \in 1 .. Len(p)
  BY <1>3
<1>5. Len(x) \in LinksIn(l, p)
  BY <1>1, <1>4, <1>10 DEF LinksIn
<1>6. LinksIn(l, p) # {}
  BY <1>5
<1>7. /\ IsFirst(l, FirstLink(l, p))
      /\ p = FirstLink(l, p) \o Behind(l, p)
      /\ Behind(l, p) \in Path
  BY <1>2, <1>6, FirstLinkIsFirst, FirstLinkProperties
<1>8. FirstLink(l, p) = x
  <2> DEFINE y == FirstLink(l, p)
  <2>1. y \in Path /\ y # <<>> /\ y \in DOMAIN l
    BY <1>7 DEF IsFirst
  <2>2. AtOrUnder(y, p)
    <3> HIDE DEF y
    <3>1. AtOrUnder(y, y \o Behind(l, p))
      BY <1>7, <2>1, JoinProperties
    <3> QED
      BY <1>7, <3>1 DEF y
  <2> HIDE DEF y
  <2>3. AtOrUnder(x, y) \/ AtOrUnder(y, x)
    BY <1>1, <1>2, <2>1, <2>2, UnderProperties
  <2> QED
    BY <1>1, <1>7, <2>1, <2>3 DEF IsFirst, y
<1>9. Behind(l, p) = e
  <2>1. From(x, x \o Behind(l, p)) = Behind(l, p)
    BY <1>1, <1>7, JoinProperties
  <2> QED
    BY <1>2, <1>7, <1>8, <2>1
<1> QED
  BY <1>2, <1>6, <1>8, <1>9 DEF p

\* What a walk makes of its path in one step.
Followed(l, p) == l[FirstLink(l, p)] \o Behind(l, p)

\* T has every path that leads into T.
IsBackward(l, T) == \A y \in Path : LinksIn(l, y) # {} /\ Followed(l, y) \in T => y \in T

\* What comes behind a path that has a link waits.
LEMMA FollowedProperties ==
  ASSUME NEW l, IsLinkMap(l), NEW p \in Path, LinksIn(l, p) # {}
  PROVE  /\ Followed(l, p) \in Path
         /\ \A e \in Path : LinksIn(l, p \o e) # {} /\ Followed(l, p \o e) = Followed(l, p) \o e
<1> DEFINE x == FirstLink(l, p)
           b == Behind(l, p)
<1>1. IsFirst(l, x) /\ p = x \o b /\ b \in Path
  BY FirstLinkIsFirst, FirstLinkProperties
<1>2. l[x] \in Path /\ x \in Path
  BY <1>1 DEF IsFirst, IsLinkMap
<1> HIDE DEF x, b
<1>3. l[x] \o b \in Path
  BY <1>1, <1>2, JoinProperties
<1>4. ASSUME NEW e \in Path
      PROVE  LinksIn(l, p \o e) # {} /\ Followed(l, p \o e) = (l[x] \o b) \o e
  <2>1. b \o e \in Path
    BY <1>1, JoinProperties
  <2>2. p \o e = x \o (b \o e)
    BY <1>1, <1>2, PathsAssociate
  <2>3. /\ LinksIn(l, x \o (b \o e)) # {}
        /\ FirstLink(l, x \o (b \o e)) = x
        /\ Behind(l, x \o (b \o e)) = b \o e
    <3>1. ASSUME NEW c \in Path
          PROVE  LinksIn(l, x \o c) # {} /\ FirstLink(l, x \o c) = x /\ Behind(l, x \o c) = c
      BY <1>1, FirstLinkOf
    <3> QED
      BY <2>1, <3>1
  <2>4. Followed(l, p \o e) = l[x] \o (b \o e)
    BY <2>2, <2>3 DEF Followed
  <2>5. l[x] \o (b \o e) = (l[x] \o b) \o e
    <3>1. ASSUME NEW y \in Path PROVE y \o (b \o e) = (y \o b) \o e
      BY <1>1, PathsAssociate
    <3> QED
      BY <1>2, <3>1
  <2> QED
    BY <2>2, <2>3, <2>4, <2>5
<1> QED
  BY <1>3, <1>4 DEF Followed, x, b

\* Where a path comes from that a step has made, and that is divided.
LEMMA FollowedBack ==
  ASSUME NEW l, NEW x, IsFirst(l, x), NEW b \in Path, l[x] \in Path,
         NEW p \in Path, NEW s \in Path, SamePath(l[x], b, p, s),
         NEW q, IsJoin(q, x, b),
         NEW y, IsJoin(y, x, From(l[x], p))
  PROVE  /\ y \in Path /\ IsJoin(q, y, s)
         /\ LinksIn(l, y) # {} /\ Followed(l, y) = p
         /\ (Len(s) = Len(b) => p = l[x])
<1>1. x \in Path
  BY DEF IsFirst
<1> DEFINE c == l[x]
           r == From(c, p)
<1>2. c \in Path /\ SamePath(c, b, p, s)
  OBVIOUS
<1> HIDE DEF c
<1>3. r \in Path /\ p = c \o r /\ b = r \o s
  BY <1>2, Divided
<1>4. y = x \o r
  BY DEF c, IsJoin
<1> HIDE DEF r
<1>5. /\ y \in Path /\ LinksIn(l, y) # {}
      /\ FirstLink(l, y) = x /\ Behind(l, y) = r
  <2>1. \A t \in Path : /\ x \o t \in Path /\ LinksIn(l, x \o t) # {}
                        /\ FirstLink(l, x \o t) = x /\ Behind(l, x \o t) = t
    BY FirstLinkOf
  <2> QED
    BY <1>3, <1>4, <2>1
<1>6. Followed(l, y) = p
  BY <1>3, <1>5 DEF Followed, c
<1>7. q = y \o s
  <2>1. \A t \in Path : x \o (t \o s) = (x \o t) \o s
    BY <1>1, JoinIsAssociative
  <2> QED
    BY <1>3, <1>4, <2>1 DEF IsJoin
<1>8. ASSUME Len(s) = Len(b) PROVE p = c
  <2>1. Len(b) = Len(r) + Len(s) /\ Len(r) \in Nat /\ Len(b) \in Nat
    BY <1>3, PathElements, ConcatProperties DEF Path
  <2>2. r = <<>> /\ c \o <<>> = c
    BY <1>2, <1>3, <1>8, <2>1, EmptySeq, ConcatEmptySeq DEF Path
  <2> QED
    BY <1>3, <2>2
<1> QED
  BY <1>5, <1>6, <1>7, <1>8 DEF c, IsJoin

\* On a walk, a link that is open has led to the path before the names that were
\* behind it.
IsTraced(l, w) ==
  \A o \in w.open : \A p, s \in Path : IsJoin(w.path, p, s) /\ Len(s) = o.left =>
      \A T \in SUBSET Path : IsBackward(l, T) /\ p \in T => l[o.link] \in T

\* A step keeps that.
LEMMA TracedNext ==
  ASSUME NEW l, IsLinkMap(l), NEW w \in Walk, ~Ends(l, w), IsTraced(l, w)
  PROVE  IsTraced(l, FollowLink(l, w))
<1> DEFINE x == FirstLink(l, w.path)
           b == Behind(l, w.path)
           v == FollowLink(l, w)
<1>1. w.path \in Path /\ LinksIn(l, w.path) # {} /\ w.open \in SUBSET [link : Path, left : Nat]
  BY DEF Walk, Ends
<1>2. IsFirst(l, x) /\ w.path = x \o b /\ b \in Path
  BY <1>1, FirstLinkIsFirst, FirstLinkProperties
<1>3. l[x] \in Path /\ x \in Path
  BY <1>2 DEF IsFirst, IsLinkMap
<1>4. v.path = l[x] \o b /\ v.open = StillOpen(w, Len(b)) \cup {[link |-> x, left |-> Len(b)]}
  BY DEF FollowLink
<1>8. ASSUME NEW p \in Path, NEW s \in Path, SamePath(l[x], b, p, s)
      PROVE  \E y \in Path : /\ IsJoin(w.path, y, s) /\ LinksIn(l, y) # {} /\ Followed(l, y) = p
                             /\ (Len(s) = Len(b) => p = l[x])
  <2> DEFINE y == x \o From(l[x], p)
             q == w.path
  <2> HIDE DEF x, b, v
  <2>1. IsJoin(q, x, b) /\ IsJoin(y, x, From(l[x], p))
    BY <1>2 DEF IsJoin
  <2> HIDE DEF y, q
  <2>2. /\ y \in Path /\ IsJoin(q, y, s)
        /\ LinksIn(l, y) # {} /\ Followed(l, y) = p
        /\ (Len(s) = Len(b) => p = l[x])
    BY <1>2, <1>3, <1>8, <2>1, FollowedBack
  <2> QED
    BY <2>2 DEF q
<1> SUFFICES ASSUME NEW o \in v.open, NEW p \in Path, NEW s \in Path, IsJoin(v.path, p, s), Len(s) = o.left,
                    NEW T \in SUBSET Path, IsBackward(l, T), p \in T
             PROVE  l[o.link] \in T
  BY DEF IsTraced
<1>7. ASSUME Len(s) <= Len(b)
      PROVE  SamePath(l[x], b, p, s)
  BY <1>4, <1>7 DEF SamePath, IsJoin
<1>5. CASE o = [link |-> x, left |-> Len(b)]
  <2>1. Len(b) \in Nat
    BY <1>2, PathElements
  <2> HIDE DEF x, b, v
  <2>2. Len(s) = Len(b) /\ o.link = x /\ Len(s) <= Len(b)
    BY <1>5, <2>1
  <2> QED
    BY <1>7, <1>8, <2>2
<1>6. CASE o \in StillOpen(w, Len(b))
  <2> HIDE DEF x, b, v
  <2>1. o \in w.open /\ Len(s) <= Len(b)
    BY <1>6 DEF StillOpen
  <2>2. PICK y \in Path : IsJoin(w.path, y, s) /\ LinksIn(l, y) # {} /\ Followed(l, y) = p
    BY <1>7, <1>8, <2>1
  <2>3. y \in T
    BY <2>2 DEF IsBackward
  <2> QED
    BY <2>1, <2>2, <2>3 DEF IsTraced
<1> QED
  BY <1>4, <1>5, <1>6

\* What lies on a walk that begins with no link open.
LEMMA WalksAreTraced ==
  ASSUME NEW l, IsLinkMap(l), NEW p \in Path, NEW w, w = [path |-> p, open |-> {}]
  PROVE  w \in Walk /\ IsTraced(l, Walks(l)[w])
<1>1. w \in Walk /\ w.open = {}
  BY DEF Walk
<1> DEFINE C == {u \in Walk : IsTraced(l, u)}
<1>2. w \in C /\ C \in SUBSET Walk
  BY <1>1 DEF IsTraced
<1>3. IsClosed(l, C)
  <2>1. \A u \in Walk : ~Ends(l, u) => FollowLink(l, u) \in Walk
    BY LeadsToNext
  <2> QED
    BY <2>1, TracedNext DEF IsClosed
<1>4. LeadsTo(l, w, Walks(l)[w])
  BY <1>1, ResolutionEnds
<1> HIDE DEF C
<1>5. Walks(l)[w] \in C
  BY <1>2, <1>3, <1>4 DEF LeadsTo
<1> QED
  BY <1>1, <1>5 DEF C

\* If what x leads to comes back to x, whatever begins with x has links for ever.
LEMMA Stuck ==
  ASSUME NEW l, IsLinkMap(l), NEW x, IsFirst(l, x), NEW e \in Path,
         \A T \in SUBSET Path : IsBackward(l, T) /\ x \o e \in T => l[x] \in T
  PROVE  \E R \in SUBSET Path :
            /\ \A d \in Path : x \o d \in R
            /\ \A y \in R : LinksIn(l, y) # {} /\ Followed(l, y) \in R
<1> DEFINE IsGoal(T) == IsBackward(l, T) /\ \A d \in Path : x \o d \in T
           R == {y \in Path : \A T \in SUBSET Path : IsGoal(T) => y \in T}
<1>1. x \in Path /\ \A d \in Path : x \o d \in Path
  BY JoinProperties DEF IsFirst
<1>2. \A d \in Path : x \o d \in R
  BY <1>1
<1>3. IsBackward(l, R)
  BY DEF IsBackward
<1>4. l[x] \in R /\ l[x] \in Path
  <2>1. R \in SUBSET Path
    OBVIOUS
  <2> HIDE DEF R
  <2> QED
    BY <1>2, <1>3, <2>1
<1>5. ASSUME NEW y \in R PROVE LinksIn(l, y) # {}
  <2> DEFINE T == {z \in Path : LinksIn(l, z) # {}}
  <2>1. T \in SUBSET Path /\ IsBackward(l, T)
    BY DEF IsBackward
  <2>2. \A d \in Path : x \o d \in T
    BY <1>1, FirstLinkOf
  <2> HIDE DEF T
  <2>3. y \in T
    BY <2>1, <2>2
  <2> QED
    BY <2>3 DEF T
<1>6. ASSUME NEW y \in R, NEW d \in Path PROVE y \o d \in R
  <2> DEFINE T == {z \in Path : \A c \in Path : z \o c \in R}
  <2>1. T \in SUBSET Path
    OBVIOUS
  <2>2. IsBackward(l, T)
    <3> SUFFICES ASSUME NEW z \in Path, LinksIn(l, z) # {}, Followed(l, z) \in T, NEW c \in Path
                 PROVE  z \o c \in R
      BY DEF IsBackward
    <3>1. z \o c \in Path
      BY JoinProperties
    <3>2. LinksIn(l, z \o c) # {} /\ Followed(l, z \o c) = Followed(l, z) \o c
      BY FollowedProperties
    <3>3. Followed(l, z) \o c \in R
      OBVIOUS
    <3> HIDE DEF R
    <3> QED
      BY <1>3, <3>1, <3>2, <3>3 DEF IsBackward
  <2>3. ASSUME NEW a \in Path PROVE x \o a \in T
    <3>1. ASSUME NEW c \in Path PROVE (x \o a) \o c \in R
      <4>1. a \o c \in Path
        BY JoinProperties
      <4>2. (x \o a) \o c = x \o (a \o c)
        BY <1>1, PathsAssociate
      <4> HIDE DEF R
      <4> QED
        BY <1>2, <4>1, <4>2
    <3> HIDE DEF R
    <3> QED
      BY <1>1, <3>1
  <2> HIDE DEF T
  <2>4. y \in T
    BY <2>1, <2>2, <2>3
  <2> HIDE DEF R
  <2> QED
    BY <2>4 DEF T
<1>7. ASSUME NEW y \in R PROVE Followed(l, y) \in R
  <2> DEFINE T == {z \in R : Followed(l, z) \in R}
  <2>1. T \in SUBSET Path
    OBVIOUS
  <2>2. ASSUME NEW z \in Path, LinksIn(l, z) # {}, Followed(l, z) \in T PROVE z \in T
    <3> HIDE DEF R
    <3>1. Followed(l, z) \in R
      BY <2>2
    <3>2. z \in R
      BY <1>3, <2>2, <3>1 DEF IsBackward
    <3> QED
      BY <3>1, <3>2
  <2>3. ASSUME NEW d \in Path PROVE x \o d \in T
    <3>1. FirstLink(l, x \o d) = x /\ Behind(l, x \o d) = d
      BY FirstLinkOf
    <3> HIDE DEF R
    <3>2. l[x] \o d \in R
      BY <1>4, <1>6
    <3>3. Followed(l, x \o d) = l[x] \o d
      BY <3>1 DEF Followed
    <3> QED
      BY <1>2, <3>2, <3>3
  <2> HIDE DEF T
  <2>4. y \in T
    BY <2>1, <2>2, <2>3 DEF IsBackward
  <2> HIDE DEF R
  <2> QED
    BY <2>4 DEF T
<1>8. R \in SUBSET Path
  OBVIOUS
<1> HIDE DEF R
<1> QED
  BY <1>2, <1>5, <1>7, <1>8

\* A path that leads into a loop keeps a link, however often it is resolved; and
\* one that does not is resolved at once.
THEOREM ResolvedAgain ==
  ASSUME NEW l, IsLinkMap(l), NEW p \in Path
  PROVE  /\ LinksIn(l, realpath(l, p)) = {} => realpath(l, realpath(l, p)) = realpath(l, p)
         /\ LinksIn(l, realpath(l, p)) # {} => LinksIn(l, realpath(l, realpath(l, p))) # {}
<1> DEFINE r == realpath(l, p)
           w == [path |-> p, open |-> {}]
           t == Walks(l)[w]
           u == [path |-> r, open |-> {}]
<1>1. r \in Path /\ (LinksIn(l, r) = {} => realpath(l, r) = r)
  BY realpathProperties
<1>2. w \in Walk /\ u \in Walk /\ u.path = r
  BY <1>1 DEF Walk
<1>3. t \in Walk /\ Ends(l, t) /\ IsTraced(l, t) /\ t.path = r
  BY <1>2, ResolutionEnds, WalksAreTraced DEF realpath
<1>4. Walks(l)[u] \in Walk /\ LeadsTo(l, u, Walks(l)[u]) /\ realpath(l, r) = Walks(l)[u].path
  BY <1>2, ResolutionEnds DEF realpath
<1> HIDE DEF r, w, t
<1>5. ASSUME LinksIn(l, r) # {} PROVE LinksIn(l, realpath(l, r)) # {}
  <2> DEFINE x == FirstLink(l, r)
             b == Behind(l, r)
  <2>1. IsFirst(l, x) /\ r = x \o b /\ b \in Path
    BY <1>1, <1>5, FirstLinkIsFirst, FirstLinkProperties
  <2>2. PICK o \in StillOpen(t, Len(b)) : o.link = x
    BY <1>3, <1>5 DEF Ends, Loops
  <2> HIDE DEF x, b
  <2>3. o \in t.open /\ o.left <= Len(b) /\ o.left \in Nat
    BY <1>3, <2>2 DEF StillOpen, Walk
  <2>4. PICK e \in Path, s \in Path : b = e \o s /\ Len(s) = o.left
    <3>1. Len(b) \in Nat /\ Len(b) - o.left \in 0 .. Len(b)
      BY <2>1, <2>3, PathElements
    <3> DEFINE e == SubSeq(b, 1, Len(b) - o.left)
    <3>2. e \in Path /\ Len(e) = Len(b) - o.left /\ \A i \in 1 .. Len(e) : e[i] = b[i]
      BY <2>1, <3>1, BeginningProperties
    <3> HIDE DEF e
    <3>3. AtOrUnder(e, b)
      BY <2>1, <2>3, <3>1, <3>2, AncestorBegins
    <3>4. From(e, b) \in Path /\ b = e \o From(e, b)
      BY <2>1, <3>2, <3>3, JoinProperties
    <3>5. Len(b) = Len(e) + Len(From(e, b)) /\ Len(From(e, b)) \in Nat
      BY <3>2, <3>4, PathElements, ConcatProperties DEF Path
    <3>6. Len(From(e, b)) = o.left
      BY <2>3, <3>1, <3>2, <3>5
    <3> QED
      BY <3>2, <3>4, <3>6
  <2>5. x \o e \in Path /\ t.path = (x \o e) \o s
    <3>1. x \in Path
      BY <2>1 DEF IsFirst
    <3>2. (x \o e) \o s = x \o (e \o s) /\ x \o e \in Path
      BY <2>4, <3>1, JoinIsAssociative
    <3> QED
      BY <1>3, <2>1, <2>4, <3>2
  <2>6. \A T \in SUBSET Path : IsBackward(l, T) /\ x \o e \in T => l[x] \in T
    BY <1>3, <2>2, <2>3, <2>4, <2>5 DEF IsTraced, IsJoin
  <2>7. PICK R \in SUBSET Path : /\ \A d \in Path : x \o d \in R
                                 /\ \A y \in R : LinksIn(l, y) # {} /\ Followed(l, y) \in R
    BY <2>1, <2>6, Stuck
  <2> DEFINE C == {c \in Walk : c.path \in R}
  <2>8. u \in C /\ C \in SUBSET Walk
    BY <1>2, <2>1, <2>7
  <2>9. IsClosed(l, C)
    <3>1. \A c \in Walk : ~Ends(l, c) => FollowLink(l, c) \in Walk
      BY LeadsToNext
    <3>2. \A c : FollowLink(l, c).path = Followed(l, c.path)
      BY DEF FollowLink, Followed
    <3> QED
      BY <2>7, <3>1, <3>2 DEF IsClosed
  <2> HIDE DEF C, u
  <2>10. Walks(l)[u] \in C
    BY <1>4, <2>8, <2>9 DEF LeadsTo
  <2> QED
    BY <1>4, <2>7, <2>10 DEF C
<1> QED
  BY <1>1, <1>5 DEF r

-----------------------------------------------------------------------------
(* Resolving after links have gone or come.                                *)

\* k has the links of l that are not at c or below, and perhaps others, in places that
\* no link of l is above or below.
IsCleared(l, k, c) ==
  /\ \A x \in DOMAIN l : ~AtOrUnder(c, x) => x \in DOMAIN k /\ k[x] = l[x]
  /\ \A x \in DOMAIN k :
        \/ x \in DOMAIN l /\ ~AtOrUnder(c, x)
        \/ x \notin DOMAIN l /\ \A y \in DOMAIN l : ~AtOrUnder(x, y) /\ ~AtOrUnder(y, x)

\* A first link that is kept is still the first.
LEMMA FirstLinkKept ==
  ASSUME NEW l, NEW k, NEW c, IsCleared(l, k, c), DOMAIN k \subseteq Path,
         NEW q \in Path, LinksIn(l, q) # {}, ~AtOrUnder(c, FirstLink(l, q))
  PROVE  /\ LinksIn(k, q) # {}
         /\ FirstLink(k, q) = FirstLink(l, q)
         /\ Behind(k, q) = Behind(l, q)
         /\ k[FirstLink(l, q)] = l[FirstLink(l, q)]
<1> DEFINE x == FirstLink(l, q)
           e == Behind(l, q)
<1>1. IsFirst(l, x) /\ q = x \o e /\ e \in Path
  BY FirstLinkIsFirst, FirstLinkProperties
<1> HIDE DEF x, e
<1>2. x \in DOMAIN k /\ k[x] = l[x]
  BY <1>1 DEF IsFirst, IsCleared, x
<1>3. ASSUME NEW y \in Path, AtOrUnder(y, x), y # <<>>, y \in DOMAIN k
      PROVE  y = x
  BY <1>1, <1>3 DEF IsFirst, IsCleared
<1>4. IsFirst(k, x)
  BY <1>1, <1>2, <1>3 DEF IsFirst
<1>5. LinksIn(k, q) # {} /\ FirstLink(k, q) = x /\ Behind(k, q) = e
  BY <1>1, <1>4, FirstLinkOf
<1> QED
  BY <1>2, <1>5 DEF x, e

\* A path whose first link is gone has no link left.
LEMMA FirstLinkGone ==
  ASSUME NEW l, NEW k, NEW c \in Path, IsCleared(l, k, c), DOMAIN k \subseteq Path,
         NEW q \in Path, LinksIn(l, q) # {}, AtOrUnder(c, FirstLink(l, q))
  PROVE  LinksIn(k, q) = {} /\ AtOrUnder(c, q)
<1> DEFINE x == FirstLink(l, q)
           e == Behind(l, q)
<1>1. IsFirst(l, x) /\ q = x \o e /\ e \in Path
  BY FirstLinkIsFirst, FirstLinkProperties
<1>2. AtOrUnder(c, x)
  OBVIOUS
<1> HIDE DEF x, e
<1>3. x \in Path /\ AtOrUnder(x, q)
  BY <1>1, JoinProperties DEF IsFirst
<1>4. ASSUME LinksIn(k, q) # {} PROVE FALSE
  <2> DEFINE y == FirstLink(k, q)
             d == Behind(k, q)
  <2>1. IsFirst(k, y) /\ q = y \o d /\ d \in Path
    BY <1>4, FirstLinkIsFirst, FirstLinkProperties
  <2> HIDE DEF y, d
  <2>2. y \in Path /\ y # <<>> /\ y \in DOMAIN k
    BY <2>1 DEF IsFirst
  <2>3. AtOrUnder(y, q)
    <3> HIDE <1>1
    <3> QED
      BY <2>1, <2>2, JoinProperties
  <2>4. AtOrUnder(x, y) \/ AtOrUnder(y, x)
    BY <1>3, <2>2, <2>3, UnderProperties
  <2>5. y \in DOMAIN l /\ ~AtOrUnder(c, y)
    BY <1>1, <2>2, <2>4 DEF IsCleared, IsFirst
  <2>6. ~AtOrUnder(x, y)
    BY <1>2, <1>3, <2>2, <2>5, UnderProperties
  <2> QED
    BY <1>1, <1>2, <2>2, <2>4, <2>5, <2>6 DEF IsFirst
<1> QED
  BY <1>2, <1>3, <1>4, UnderProperties

\* A path resolves to where it did, or to where links have gone.
THEOREM ResolvedWhenCleared ==
  ASSUME NEW l, IsLinkMap(l), NEW k, IsLinkMap(k), NEW p \in Path, NEW r, r = realpath(l, p),
         NEW c \in Path, IsCleared(l, k, c), \A x \in DOMAIN k \ DOMAIN l : ~AtOrUnder(x, r)
  PROVE  \/ realpath(k, p) = r
         \/ AtOrUnder(c, realpath(k, p)) /\ \E x \in DOMAIN l : AtOrUnder(c, x)
<1> DEFINE w == [path |-> p, open |-> {}]
           t == Walks(l)[w]
           s == Walks(k)[w]
           Diverted == AtOrUnder(c, s.path) /\ \E x \in DOMAIN l : AtOrUnder(c, x)
           C == {u \in Walk : LeadsTo(k, w, u) \/ Diverted}
<1>1. w \in Walk /\ w.path = p
  BY DEF Walk
<1>2. r \in Path
  BY realpathProperties
<1> HIDE DEF w
<1>3. t \in Walk /\ Ends(l, t) /\ LeadsTo(l, w, t) /\ t.path = r
  BY <1>1, ResolutionEnds DEF realpath, w
<1>4. s \in Walk /\ LeadsTo(k, w, s) /\ Ends(k, s) /\ s.path = realpath(k, p)
  BY <1>1, ResolutionEnds DEF realpath, w
<1>5. ASSUME NEW u \in Walk, LeadsTo(k, w, u), Ends(k, u)
      PROVE  s = u
  <2> DEFINE D == {v \in Walk : LeadsTo(k, v, u)}
  <2>1. IsClosed(k, D) /\ w \in D /\ D \in SUBSET Walk
    <3>1. ASSUME NEW v \in D, ~Ends(k, v) PROVE FollowLink(k, v) \in D
      BY <1>5, <3>1, LeadsToNext
    <3> QED
      BY <1>1, <1>5, <3>1 DEF IsClosed
  <2> HIDE DEF D, s
  <2>2. s \in D
    BY <1>4, <2>1 DEF LeadsTo
  <2>3. LeadsTo(k, s, u)
    BY <2>2 DEF D
  <2> QED
    BY <1>4, <2>3, LeadsToFacts
<1> HIDE DEF s, t
<1>6. DOMAIN k \subseteq Path
  BY DEF IsLinkMap
<1>7. ASSUME NEW u \in Walk, LinksIn(l, u.path) # {}, ~AtOrUnder(c, FirstLink(l, u.path))
      PROVE  /\ Ends(k, u) <=> Ends(l, u)
             /\ FollowLink(k, u) = FollowLink(l, u)
  <2>1. u.path \in Path
    BY DEF Walk
  <2>2. /\ LinksIn(k, u.path) # {}
        /\ FirstLink(k, u.path) = FirstLink(l, u.path)
        /\ Behind(k, u.path) = Behind(l, u.path)
        /\ k[FirstLink(l, u.path)] = l[FirstLink(l, u.path)]
    BY <1>6, <1>7, <2>1, FirstLinkKept
  <2> QED
    BY <1>7, <2>2 DEF Ends, Loops, FollowLink
<1>8. ASSUME NEW u \in Walk, LinksIn(l, u.path) # {}, AtOrUnder(c, FirstLink(l, u.path))
      PROVE  /\ Ends(k, u) /\ AtOrUnder(c, u.path)
             /\ \E x \in DOMAIN l : AtOrUnder(c, x)
  <2>1. u.path \in Path
    BY DEF Walk
  <2>2. LinksIn(k, u.path) = {} /\ AtOrUnder(c, u.path)
    BY <1>2, <1>6, <1>8, <2>1, FirstLinkGone
  <2>3. FirstLink(l, u.path) \in DOMAIN l
    BY <1>8, <2>1, FirstLinkProperties
  <2> QED
    BY <1>8, <2>2, <2>3 DEF Ends
<1>9. IsClosed(l, C)
  <2> SUFFICES ASSUME NEW u \in C, ~Ends(l, u) PROVE FollowLink(l, u) \in C
    BY DEF IsClosed
  <2>1. FollowLink(l, u) \in Walk /\ LinksIn(l, u.path) # {}
    BY LeadsToNext DEF Ends
  <2>2. CASE Diverted
    BY <2>1, <2>2
  <2>3. CASE LeadsTo(k, w, u) /\ ~AtOrUnder(c, FirstLink(l, u.path))
    <3>1. ~Ends(k, u) /\ FollowLink(k, u) = FollowLink(l, u)
      BY <1>7, <2>1, <2>3
    <3>2. LeadsTo(k, u, FollowLink(k, u))
      BY <3>1, LeadsToNext
    <3>3. LeadsTo(k, w, FollowLink(k, u))
      BY <1>1, <2>3, <3>2, LeadsToFacts
    <3> QED
      BY <2>1, <3>1, <3>3
  <2>4. CASE LeadsTo(k, w, u) /\ AtOrUnder(c, FirstLink(l, u.path))
    BY <1>5, <1>8, <2>1, <2>4
  <2> QED
    BY <2>2, <2>3, <2>4
<1>10. w \in C /\ C \in SUBSET Walk
  BY <1>1, LeadsToFacts
<1>11. t \in C
  <2> HIDE DEF C
  <2> QED
    BY <1>3, <1>9, <1>10 DEF LeadsTo
<1>13. CASE Diverted
  BY <1>4, <1>13
<1>14. CASE LeadsTo(k, w, t) /\ LinksIn(l, r) = {}
  <2>1. LinksIn(k, r) = {}
    <3> SUFFICES ASSUME NEW i \in 1 .. Len(r), SubSeq(r, 1, i) \in DOMAIN k PROVE FALSE
      BY DEF LinksIn
    <3>1. SubSeq(r, 1, i) \notin DOMAIN l
      BY <1>14 DEF LinksIn
    <3>2. SubSeq(r, 1, i) \in Ancestors(r)
      BY <1>2, PathElements DEF Ancestors
    <3>3. AtOrUnder(SubSeq(r, 1, i), r)
      BY <1>2, <1>6, <3>2, UnderProperties
    <3> QED
      BY <3>1, <3>3
  <2>2. Ends(k, t)
    BY <1>3, <2>1 DEF Ends
  <2> QED
    BY <1>3, <1>4, <1>5, <1>14, <2>2
<1>15. CASE LeadsTo(k, w, t) /\ LinksIn(l, r) # {}
  <2>1. Ends(k, t)
    BY <1>3, <1>7, <1>8, <1>15
  <2> QED
    BY <1>3, <1>4, <1>5, <1>15, <2>1
<1> QED
  BY <1>11, <1>13, <1>14, <1>15

-----------------------------------------------------------------------------
(* Resolving after a link has moved onto another one.                      *)

\* k is l after the link at s has moved onto the one at n.  Links are not below links.
IsRedirected(l, k, s, n) ==
  /\ s \in DOMAIN l /\ n \in DOMAIN l /\ s # n
  /\ DOMAIN k = DOMAIN l \ {s}
  /\ k[n] = l[s]
  /\ \A x \in DOMAIN k : x # n => k[x] = l[x]
  /\ \A x, y \in DOMAIN l : AtOrUnder(x, y) => x = y

\* Each link is the first of the paths that begin with it, before and after.
LEMMA RedirectedLinks ==
  ASSUME NEW l, IsLinkMap(l), NEW k, NEW s, NEW n, IsRedirected(l, k, s, n)
  PROVE  /\ \A x \in DOMAIN l : IsFirst(l, x) /\ l[x] \in Path
         /\ \A x \in DOMAIN k : IsFirst(k, x)
<1>1. \A x \in DOMAIN l : x \in Path /\ l[x] \in Path
  BY DEF IsLinkMap
<1>2. \A x \in DOMAIN l : x # <<>>
  <2> SUFFICES ASSUME <<>> \in DOMAIN l PROVE FALSE
    OBVIOUS
  <2>1. AtOrUnder(<<>>, s) /\ AtOrUnder(<<>>, n)
    BY <1>1, UnderProperties DEF IsRedirected
  <2> QED
    BY <2>1 DEF IsRedirected
<1> QED
  BY <1>1, <1>2 DEF IsFirst, IsRedirected

\* A path has the first link that it had, unless that was the one that moved.
LEMMA RedirectedPath ==
  ASSUME NEW l, IsLinkMap(l), NEW k, NEW s, NEW n, IsRedirected(l, k, s, n), NEW y \in Path
  PROVE  /\ LinksIn(k, y) # {} => /\ LinksIn(l, y) # {} /\ ~AtOrUnder(s, y)
                                  /\ FirstLink(l, y) # s
         /\ LinksIn(l, y) # {} /\ FirstLink(l, y) # s =>
                /\ LinksIn(k, y) # {}
                /\ FirstLink(k, y) = FirstLink(l, y)
                /\ Behind(k, y) = Behind(l, y)
<1>1. /\ \A x \in DOMAIN l : IsFirst(l, x)
      /\ \A x \in DOMAIN k : IsFirst(k, x) /\ x \in DOMAIN l /\ x # s
  BY RedirectedLinks DEF IsRedirected
<1>2. ASSUME LinksIn(k, y) # {}
      PROVE  LinksIn(l, y) # {} /\ FirstLink(l, y) # s
  <2> DEFINE x == FirstLink(k, y)
             b == Behind(k, y)
  <2>1. IsFirst(k, x) /\ y = x \o b /\ b \in Path
    BY <1>2, FirstLinkIsFirst, FirstLinkProperties
  <2> HIDE DEF x, b
  <2>2. IsFirst(l, x) /\ x # s
    BY <1>1, <2>1 DEF IsFirst
  <2> QED
    BY <2>1, <2>2, FirstLinkOf
<1>3. ASSUME LinksIn(l, y) # {}, FirstLink(l, y) # s
      PROVE  LinksIn(k, y) # {} /\ FirstLink(k, y) = FirstLink(l, y) /\ Behind(k, y) = Behind(l, y)
  <2> DEFINE x == FirstLink(l, y)
             b == Behind(l, y)
  <2>1. IsFirst(l, x) /\ y = x \o b /\ b \in Path
    BY <1>3, FirstLinkIsFirst, FirstLinkProperties
  <2>2. x # s
    BY <1>3
  <2> HIDE DEF x, b
  <2>3. IsFirst(k, x)
    BY <1>1, <2>1, <2>2 DEF IsFirst, IsRedirected
  <2>4. \A e \in Path : /\ LinksIn(k, x \o e) # {} /\ FirstLink(k, x \o e) = x
                        /\ Behind(k, x \o e) = e
    BY <2>3, FirstLinkOf
  <2>5. LinksIn(k, y) # {} /\ FirstLink(k, y) = x /\ Behind(k, y) = b
    BY <2>1, <2>4
  <2> QED
    BY <2>5 DEF x, b
<1>4. ASSUME AtOrUnder(s, y), LinksIn(l, y) # {} PROVE FirstLink(l, y) = s
  <2>1. IsFirst(l, s) /\ s \in Path
    BY <1>1 DEF IsRedirected, IsFirst
  <2>2. From(s, y) \in Path /\ y = s \o From(s, y)
    BY <1>4, <2>1, JoinProperties
  <2>3. \A e \in Path : FirstLink(l, s \o e) = s
    BY <2>1, FirstLinkOf
  <2> QED
    BY <2>2, <2>3
<1> QED
  BY <1>2, <1>3, <1>4

\* What a step makes of the path.
LEMMA RedirectedStep ==
  ASSUME NEW l, IsLinkMap(l), NEW k, NEW s, NEW n, IsRedirected(l, k, s, n),
         NEW y \in Path, LinksIn(l, y) # {}, FirstLink(l, y) # s
  PROVE  /\ LinksIn(k, y) # {}
         /\ FirstLink(l, y) = n => IsJoin(Followed(k, y), l[s], Behind(l, y))
         /\ FirstLink(l, y) # n => Followed(k, y) = Followed(l, y)
<1>1. /\ LinksIn(k, y) # {}
      /\ FirstLink(k, y) = FirstLink(l, y)
      /\ Behind(k, y) = Behind(l, y)
  BY RedirectedPath
<1>2. FirstLink(l, y) \in DOMAIN k
  BY FirstLinkProperties DEF IsRedirected
<1> QED
  BY <1>1, <1>2 DEF Followed, IsRedirected, IsJoin

\* The paths in R and what is behind them have links of l for ever, and s leads there.
IsStuck(l, R, s) ==
  /\ R \in SUBSET Path
  /\ \A d \in Path : s \o d \in R
  /\ \A y \in R : LinksIn(l, y) # {} /\ Followed(l, y) \in R

\* Paths that are missing once s has moved, or are below some link.
Beyond(R, s) ==
  {y \in Path : AtOrUnder(s, y) \/ \E z \in R, e \in Path : e # <<>> /\ IsJoin(y, z, e)}

\* No step leads out of them.
LEMMA BeyondIsClosed ==
  ASSUME NEW l, IsLinkMap(l), NEW k, NEW s, NEW n, IsRedirected(l, k, s, n), NEW R, IsStuck(l, R, s),
         NEW y \in Beyond(R, s), LinksIn(k, y) # {}
  PROVE  Followed(k, y) \in Beyond(R, s)
<1>1. y \in Path /\ LinksIn(l, y) # {} /\ FirstLink(l, y) # s /\ ~AtOrUnder(s, y)
  BY RedirectedPath DEF Beyond
<1>2. PICK z \in R, e \in Path : e # <<>> /\ IsJoin(y, z, e)
  BY <1>1 DEF Beyond
<1>3. z \in Path /\ LinksIn(l, z) # {} /\ Followed(l, z) \in R /\ R \in SUBSET Path
  BY DEF IsStuck
<1>4. y = z \o e
  BY <1>2 DEF IsJoin
<1> DEFINE x == FirstLink(l, z)
           b == Behind(l, z)
<1>5. IsFirst(l, x) /\ z = x \o b /\ b \in Path /\ x \in Path
  BY <1>3, FirstLinkIsFirst, FirstLinkProperties DEF IsFirst
<1> HIDE DEF x, b
<1>6. y = x \o (b \o e) /\ b \o e \in Path
  <2>1. (x \o b) \o e = x \o (b \o e) /\ b \o e \in Path
    BY <1>5, JoinIsAssociative
  <2> QED
    BY <1>4, <1>5, <2>1
<1>7. FirstLink(l, y) = x /\ Behind(l, y) = b \o e
  BY <1>5, <1>6, FirstLinkOf
<1>8. Followed(l, y) = Followed(l, z) \o e
  BY <1>3, <1>4, FollowedProperties
<1>9. ASSUME NEW v \in R PROVE v \o e \in Beyond(R, s)
  <2>1. v \o e \in Path
    BY <1>3, JoinProperties
  <2> QED
    BY <1>2, <2>1 DEF Beyond, IsJoin
<1>10. CASE x # n
  <2>1. Followed(k, y) = Followed(l, y)
    BY <1>1, <1>7, <1>10, RedirectedStep
  <2> QED
    BY <1>3, <1>8, <1>9, <2>1
<1>11. CASE x = n
  <2>1. Followed(k, y) = l[s] \o (b \o e)
    <3>1. IsJoin(Followed(k, y), l[s], Behind(l, y))
      BY <1>1, <1>7, <1>11, RedirectedStep
    <3> QED
      BY <1>7, <3>1 DEF IsJoin
  <2>2. l[s] \in Path /\ IsFirst(l, s)
    BY RedirectedLinks DEF IsRedirected
  <2>3. l[s] \o (b \o e) = (l[s] \o b) \o e
    <3>1. \A c, d \in Path : c \o (d \o e) = (c \o d) \o e
      BY JoinIsAssociative
    <3> QED
      BY <1>5, <2>2, <3>1
  <2>4. s \o b \in R
    BY <1>5 DEF IsStuck
  <2>5. Followed(l, s \o b) = l[s] \o b
    BY <1>5, <2>2, FirstLinkOf DEF Followed
  <2>6. l[s] \o b \in R
    BY <2>4, <2>5 DEF IsStuck
  <2> QED
    BY <1>9, <2>1, <2>3, <2>6
<1> QED
  BY <1>10, <1>11

\* They are at s or below it, or below a link that is there.
LEMMA BeyondIsMissing ==
  ASSUME NEW l, IsLinkMap(l), NEW k, NEW s, NEW n, IsRedirected(l, k, s, n), NEW R, IsStuck(l, R, s),
         NEW y \in Beyond(R, s)
  PROVE  AtOrUnder(s, y) \/ \E x \in DOMAIN k : AtOrUnder(x, y) /\ x # y
<1> SUFFICES ASSUME ~AtOrUnder(s, y)
             PROVE  \E x \in DOMAIN k : AtOrUnder(x, y) /\ x # y
  OBVIOUS
<1>1. PICK z \in R, e \in Path : e # <<>> /\ IsJoin(y, z, e)
  BY DEF Beyond
<1>2. z \in Path /\ LinksIn(l, z) # {} /\ y \in Path
  BY DEF IsStuck, Beyond
<1> DEFINE x == FirstLink(l, z)
           b == Behind(l, z)
<1>3. IsFirst(l, x) /\ z = x \o b /\ b \in Path /\ x \in Path /\ x \in DOMAIN l
  BY <1>2, FirstLinkIsFirst, FirstLinkProperties DEF IsFirst
<1> HIDE DEF x, b
<1>4. AtOrUnder(x, z)
  BY <1>3, JoinProperties
<1>5. AtOrUnder(z, y) /\ From(z, y) = e
  BY <1>1, <1>2, JoinProperties DEF IsJoin
<1>6. z # y
  <2>1. z \o <<>> = z /\ <<>> \in Path
    BY <1>2, ConcatEmptySeq, UnderProperties DEF Path
  <2>2. From(z, z \o <<>>) = <<>>
    BY <1>2, <2>1, JoinProperties
  <2> QED
    BY <1>1, <1>5, <2>1, <2>2
<1>7. AtOrUnder(x, y) /\ x # y
  <2>1. AtOrUnder(x, y)
    BY <1>2, <1>3, <1>4, <1>5, UnderProperties
  <2>2. x = y => z = y
    BY <1>2, <1>4, <1>5, UnderProperties
  <2> QED
    BY <1>6, <2>1, <2>2
<1> QED
  BY <1>3, <1>7 DEF IsRedirected

\* A path that does not lead into T can be taken away from it.
LEMMA BackwardWithout ==
  ASSUME NEW l, NEW T \in SUBSET Path, IsBackward(l, T), NEW y, Followed(l, y) \notin T
  PROVE  T \ {y} \in SUBSET Path /\ IsBackward(l, T \ {y})
BY DEF IsBackward

\* A walk at the link c, with no names behind it, has opened it, and ends there if it
\* comes back.
Opened(w, c) == [link |-> c, left |-> 0] \in w.open

\* A step opens no other link in this way.
LEMMA OpenedNext ==
  ASSUME NEW l, IsLinkMap(l), NEW w \in Walk, ~Ends(l, w), NEW c, IsFirst(l, c),
         NEW v, v = FollowLink(l, w)
  PROVE  /\ v \in Walk /\ v.path = Followed(l, w.path)
         /\ Opened(v, c) <=> Opened(w, c) \/ w.path = c
         /\ w.path = c => ~Opened(w, c) /\ Followed(l, w.path) = l[c]
<1> DEFINE x == FirstLink(l, w.path)
           b == Behind(l, w.path)
<1>1. w.path \in Path /\ LinksIn(l, w.path) # {} /\ ~Loops(l, w)
  BY DEF Walk, Ends
<1>2. IsFirst(l, x) /\ w.path = x \o b /\ b \in Path /\ x \in Path
  BY <1>1, FirstLinkIsFirst, FirstLinkProperties DEF IsFirst
<1>3. v \in Walk /\ v.path = l[x] \o b /\ v.open = StillOpen(w, Len(b)) \cup {[link |-> x, left |-> Len(b)]}
  BY LeadsToNext DEF FollowLink
<1>4. v.path = Followed(l, w.path)
  BY <1>3 DEF Followed
<1>5. Loops(l, w) <=> \E o \in StillOpen(w, Len(b)) : o.link = x
  BY DEF Loops
<1> HIDE DEF x, b
<1>6. Len(b) \in Nat /\ (Len(b) = 0 <=> b = <<>>)
  BY <1>2, PathElements, EmptySeq DEF Path
<1>7. x \o <<>> = x /\ c \in Path /\ c \o <<>> = c /\ <<>> \in Path /\ l[c] \in Path /\ l[c] \o <<>> = l[c]
  <2>1. c \in Path /\ l[c] \in Path
    BY DEF IsFirst, IsLinkMap
  <2> QED
    BY <1>2, <2>1, ConcatEmptySeq, UnderProperties DEF Path
<1>8. w.path = c <=> x = c /\ b = <<>>
  <2>1. ASSUME w.path = c PROVE x = c /\ b = <<>>
    <3>1. \A e \in Path : FirstLink(l, c \o e) = c /\ Behind(l, c \o e) = e
      BY FirstLinkOf
    <3>2. FirstLink(l, c) = c /\ Behind(l, c) = <<>>
      BY <1>7, <3>1
    <3> QED
      BY <2>1, <3>2 DEF x, b
  <2> QED
    BY <1>2, <1>7, <2>1
<1>9. Opened(w, c) => [link |-> c, left |-> 0] \in StillOpen(w, Len(b))
  BY <1>6 DEF Opened, StillOpen
<1>10. [link |-> c, left |-> 0] \in StillOpen(w, Len(b)) => Opened(w, c)
  BY DEF Opened, StillOpen
<1>11. [link |-> c, left |-> 0] = [link |-> x, left |-> Len(b)] <=> x = c /\ b = <<>>
  BY <1>6
<1>12. Opened(v, c) <=> Opened(w, c) \/ w.path = c
  BY <1>3, <1>8, <1>9, <1>10, <1>11 DEF Opened
<1>13. ASSUME w.path = c PROVE ~Opened(w, c) /\ Followed(l, w.path) = l[c]
  <2>1. [link |-> c, left |-> 0].link = x
    BY <1>8, <1>13
  <2>2. ~Opened(w, c)
    BY <1>1, <1>5, <1>9, <2>1
  <2>3. Followed(l, w.path) = l[c]
    BY <1>3, <1>4, <1>7, <1>8, <1>13
  <2> QED
    BY <2>2, <2>3
<1> QED
  BY <1>3, <1>4, <1>12, <1>13

\* y leads to n, and not through s.
IsAvoiding(l, s, U) ==
  \A y \in Path : LinksIn(l, y) # {} /\ y # s /\ Followed(l, y) \in U => y \in U
Avoiding(l, s, n) ==
  {y \in Path : \A U \in SUBSET Path : IsAvoiding(l, s, U) /\ n \in U => y \in U}

\* So does what it leads to, until n is reached; and s does not.
LEMMA AvoidingProperties ==
  ASSUME NEW l, IsLinkMap(l), NEW s, NEW n \in Path, s # n
  PROVE  /\ s \notin Avoiding(l, s, n)
         /\ \A y \in Avoiding(l, s, n) : LinksIn(l, y) # {} /\ y # n => Followed(l, y) \in Avoiding(l, s, n)
<1>1. s \notin Avoiding(l, s, n)
  <2> DEFINE U == Path \ {s}
  <2>1. U \in SUBSET Path /\ IsAvoiding(l, s, U) /\ n \in U
    BY DEF IsAvoiding
  <2> QED
    BY <2>1 DEF Avoiding
<1>2. ASSUME NEW y \in Avoiding(l, s, n), LinksIn(l, y) # {}, y # n
      PROVE  Followed(l, y) \in Avoiding(l, s, n)
  <2>1. y \in Path /\ Followed(l, y) \in Path
    BY <1>2, FollowedProperties DEF Avoiding
  <2>2. ASSUME NEW U \in SUBSET Path, IsAvoiding(l, s, U), n \in U, Followed(l, y) \notin U PROVE FALSE
    <3>1. U \ {y} \in SUBSET Path /\ n \in U \ {y}
      BY <1>2, <2>2
    <3>2. IsAvoiding(l, s, U \ {y})
      BY <2>2 DEF IsAvoiding
    <3>3. y \in U \ {y}
      BY <3>1, <3>2 DEF Avoiding
    <3> QED
      BY <3>3
  <2> QED
    BY <2>1, <2>2 DEF Avoiding
<1> QED
  BY <1>1, <1>2

\* A path that l resolves to the link s itself leads k there, or beyond.
LEMMA LeadsBeyond ==
  ASSUME NEW l, IsLinkMap(l), NEW k, NEW s, NEW n, IsRedirected(l, k, s, n), NEW R, IsStuck(l, R, s),
         NEW p \in Path, realpath(l, p) = s,
         \A T \in SUBSET Path : IsBackward(l, T) /\ s \in T => l[s] \in T,
         NEW T \in SUBSET Path, IsBackward(k, T), Beyond(R, s) \subseteq T
  PROVE  p \in T
<1> SUFFICES ASSUME p \notin T PROVE FALSE
  OBVIOUS
<1> DEFINE w == [path |-> p, open |-> {}]
           t == Walks(l)[w]
<1>1. w \in Walk /\ w.path = p /\ w.open = {}
  BY DEF Walk
<1>2. t \in Walk /\ Ends(l, t) /\ LeadsTo(l, w, t) /\ t.path = s
  BY <1>1, ResolutionEnds DEF realpath
<1> HIDE DEF w, t
<1>3. /\ IsFirst(l, s) /\ IsFirst(l, n) /\ s \in Path /\ n \in Path /\ s # n
      /\ l[s] \in Path /\ l[n] \in Path
  <2>1. IsFirst(l, s) /\ IsFirst(l, n) /\ s # n /\ l[s] \in Path /\ l[n] \in Path
    BY RedirectedLinks DEF IsRedirected
  <2> QED
    BY <2>1 DEF IsFirst
<1>4. /\ s \o <<>> = s /\ <<>> \in Path /\ l[s] \o <<>> = l[s] /\ n \o <<>> = n
  BY <1>3, ConcatEmptySeq, UnderProperties DEF Path
<1>5. s \in T
  BY <1>3, UnderProperties DEF Beyond
<1>6. Followed(l, s) = l[s] /\ l[s] \in R
  <2>1. \A e \in Path : FirstLink(l, s \o e) = s /\ Behind(l, s \o e) = e
    BY <1>3, FirstLinkOf
  <2>2. FirstLink(l, s) = s /\ Behind(l, s) = <<>>
    BY <1>4, <2>1
  <2>3. s \in R
    BY <1>4 DEF IsStuck
  <2> QED
    BY <1>4, <2>2, <2>3 DEF Followed, IsStuck
<1>7. ASSUME NEW y \in Path, LinksIn(l, y) # {}, Followed(l, y) \in T, y # n
      PROVE  y \in T
  <2> DEFINE x == FirstLink(l, y)
             b == Behind(l, y)
  <2>1. IsFirst(l, x) /\ y = x \o b /\ b \in Path
    BY <1>7, FirstLinkIsFirst, FirstLinkProperties
  <2>2. CASE x = s
    <3>1. AtOrUnder(s, s \o b)
      BY <1>3, <2>1, JoinProperties
    <3>2. y = s \o b
      BY <2>1, <2>2
    <3>3. AtOrUnder(s, y)
      BY <3>1, <3>2
    <3> QED
      BY <3>3 DEF Beyond
  <2>3. CASE x = n
    <3>1. LinksIn(k, y) # {} /\ IsJoin(Followed(k, y), l[s], b)
      BY <1>3, <1>7, <2>3, RedirectedStep
    <3> HIDE DEF x, b
    <3>2. b # <<>>
      BY <1>4, <1>7, <2>1, <2>3
    <3>3. l[s] \o b \in Path /\ Followed(k, y) = l[s] \o b
      BY <1>3, <2>1, <3>1, JoinProperties DEF IsJoin
    <3>4. Followed(k, y) \in Beyond(R, s)
      BY <1>6, <2>1, <3>1, <3>2, <3>3 DEF Beyond
    <3> QED
      BY <3>1, <3>4 DEF IsBackward
  <2>4. CASE x # s /\ x # n
    <3>1. LinksIn(k, y) # {} /\ Followed(k, y) = Followed(l, y)
      BY <1>7, <2>4, RedirectedStep
    <3> QED
      BY <1>7, <3>1 DEF IsBackward
  <2> QED
    BY <2>2, <2>3, <2>4
<1>8. CASE l[s] \in T
  <2>1. n \in T
    <3>1. \A e \in Path : /\ FirstLink(l, n \o e) = n /\ Behind(l, n \o e) = e
                          /\ LinksIn(l, n \o e) # {}
      BY <1>3, FirstLinkOf
    <3>2. FirstLink(l, n) = n /\ Behind(l, n) = <<>> /\ LinksIn(l, n) # {}
      BY <1>4, <3>1
    <3>3. LinksIn(k, n) # {} /\ IsJoin(Followed(k, n), l[s], Behind(l, n))
      BY <1>3, <3>2, RedirectedStep
    <3>4. Followed(k, n) \in T
      BY <1>4, <1>8, <3>2, <3>3 DEF IsJoin
    <3> QED
      BY <1>3, <3>3, <3>4 DEF IsBackward
  <2> DEFINE C == {u \in Walk : u.path \notin T}
  <2>2. w \in C /\ C \in SUBSET Walk
    BY <1>1
  <2>3. IsClosed(l, C)
    <3> SUFFICES ASSUME NEW u \in C, ~Ends(l, u) PROVE FollowLink(l, u) \in C
      BY DEF IsClosed
    <3>1. FollowLink(l, u) \in Walk /\ FollowLink(l, u).path = Followed(l, u.path)
      BY <1>3, OpenedNext
    <3>2. u.path \in Path /\ LinksIn(l, u.path) # {}
      BY DEF Walk, Ends
    <3>3. Followed(l, u.path) \notin T
      BY <1>7, <2>1, <3>2
    <3> QED
      BY <3>1, <3>3
  <2> HIDE DEF C
  <2>4. t \in C
    BY <1>2, <2>2, <2>3 DEF LeadsTo
  <2> QED
    BY <1>2, <1>5, <2>4 DEF C
<1>9. CASE l[s] \notin T
  <2> DEFINE A == Avoiding(l, s, n)
  <2>1. l[s] \in A
    <3> SUFFICES ASSUME NEW U \in SUBSET Path, IsAvoiding(l, s, U), n \in U PROVE l[s] \in U
      BY <1>3 DEF Avoiding
    <3>1. ASSUME NEW y \in Path, LinksIn(l, y) # {}, Followed(l, y) \in U \cup T
          PROVE  y \in U \cup T
      BY <1>5, <1>7, <3>1 DEF IsAvoiding
    <3>2. IsBackward(l, U \cup T)
      BY <3>1 DEF IsBackward
    <3>3. U \cup T \in SUBSET Path /\ s \in U \cup T
      BY <1>5
    <3>4. l[s] \in U \cup T
      BY <3>2, <3>3
    <3> QED
      BY <1>9, <3>4
  <2>2. /\ s \notin A
        /\ \A y \in A : LinksIn(l, y) # {} /\ y # n => Followed(l, y) \in A
    BY <1>3, AvoidingProperties
  <2> HIDE DEF A
  <2> DEFINE C == {u \in Walk : \/ ~Opened(u, s) /\ (Opened(u, n) \/ u.path \notin T)
                                \/ Opened(u, n) /\ u.path \in A}
  <2>3. w \in C /\ C \in SUBSET Walk
    BY <1>1 DEF Opened
  <2>4. IsClosed(l, C)
    <3> SUFFICES ASSUME NEW u \in C, ~Ends(l, u) PROVE FollowLink(l, u) \in C
      BY DEF IsClosed
    <3> DEFINE v == FollowLink(l, u)
    <3>1. /\ v \in Walk /\ v.path = Followed(l, u.path)
          /\ Opened(v, s) <=> Opened(u, s) \/ u.path = s
          /\ Opened(v, n) <=> Opened(u, n) \/ u.path = n
          /\ u.path = n => ~Opened(u, n)
      BY <1>3, OpenedNext
    <3>2. u.path \in Path /\ LinksIn(l, u.path) # {}
      BY DEF Walk, Ends
    <3> HIDE DEF v
    <3>3. CASE ~Opened(u, s) /\ Opened(u, n)
      BY <1>6, <2>1, <3>1, <3>3 DEF v
    <3>4. CASE ~Opened(u, s) /\ u.path \notin T
      <4>1. u.path # s
        BY <1>5, <3>4
      <4>2. u.path # n => v.path \notin T
        BY <1>7, <3>1, <3>2, <3>4
      <4> QED
        BY <3>1, <3>4, <4>1, <4>2 DEF v
    <3>5. CASE Opened(u, n) /\ u.path \in A
      BY <2>2, <3>1, <3>2, <3>5 DEF v
    <3> QED
      BY <3>3, <3>4, <3>5
  <2> HIDE DEF C
  <2>5. t \in C
    BY <1>2, <2>3, <2>4 DEF LeadsTo
  <2>6. Opened(t, s)
    <3>1. \A e \in Path : /\ FirstLink(l, s \o e) = s /\ Behind(l, s \o e) = e
                          /\ LinksIn(l, s \o e) # {}
      BY <1>3, FirstLinkOf
    <3>2. FirstLink(l, s) = s /\ Behind(l, s) = <<>> /\ LinksIn(l, s) # {}
      BY <1>4, <3>1
    <3>3. PICK o \in t.open : o.left <= Len(<<>>) /\ o.link = s
      BY <1>2, <3>2 DEF Ends, Loops, StillOpen
    <3>4. o \in [link : Path, left : Nat] /\ Len(<<>>) = 0
      BY <1>2 DEF Walk
    <3>5. o = [link |-> s, left |-> 0]
      BY <3>3, <3>4
    <3> QED
      BY <3>5 DEF Opened
  <2> QED
    BY <1>2, <2>2, <2>5, <2>6 DEF C
<1> QED
  BY <1>8, <1>9

\* Where a link has moved onto another one, a path that led to it, in a loop, leads to
\* where it was or to what cannot be there.
THEOREM ResolvedWhenRedirected ==
  ASSUME NEW l, IsLinkMap(l), NEW k, IsLinkMap(k), NEW s, NEW n, IsRedirected(l, k, s, n),
         NEW p \in Path, realpath(l, p) = s
  PROVE  \/ AtOrUnder(s, realpath(k, p))
         \/ \E x \in DOMAIN k : AtOrUnder(x, realpath(k, p)) /\ x # realpath(k, p)
<1> DEFINE w == [path |-> p, open |-> {}]
           t == Walks(l)[w]
           v == Walks(k)[w]
<1>1. w \in Walk /\ w.path = p
  BY DEF Walk
<1>2. t \in Walk /\ Ends(l, t) /\ IsTraced(l, t) /\ t.path = s
  BY <1>1, ResolutionEnds, WalksAreTraced DEF realpath
<1>3. v \in Walk /\ Ends(k, v) /\ LeadsTo(k, w, v) /\ IsTraced(k, v) /\ v.path = realpath(k, p)
  BY <1>1, ResolutionEnds, WalksAreTraced DEF realpath
<1>4. IsFirst(l, s) /\ s \in Path /\ s \o <<>> = s /\ <<>> \in Path /\ Len(<<>>) = 0
  <2>1. IsFirst(l, s)
    BY RedirectedLinks DEF IsRedirected
  <2>2. s \in Path
    BY <2>1 DEF IsFirst
  <2> QED
    BY <2>1, <2>2, ConcatEmptySeq, UnderProperties DEF Path
<1> HIDE DEF w, t, v
<1>5. \A T \in SUBSET Path : IsBackward(l, T) /\ s \in T => l[s] \in T
  <2>1. \A e \in Path : /\ FirstLink(l, s \o e) = s /\ Behind(l, s \o e) = e
                        /\ LinksIn(l, s \o e) # {}
    BY <1>4, FirstLinkOf
  <2>2. FirstLink(l, s) = s /\ Behind(l, s) = <<>> /\ LinksIn(l, s) # {}
    BY <1>4, <2>1
  <2>3. PICK o \in t.open : o.left <= Len(<<>>) /\ o.link = s
    BY <1>2, <2>2 DEF Ends, Loops, StillOpen
  <2>4. o.left = Len(<<>>)
    <3>1. o \in [link : Path, left : Nat]
      BY <1>2 DEF Walk
    <3> QED
      BY <1>4, <2>3, <3>1
  <2>5. IsJoin(t.path, s, <<>>)
    BY <1>2, <1>4 DEF IsJoin
  <2> QED
    BY <1>2, <1>4, <2>3, <2>4, <2>5 DEF IsTraced
<1>6. PICK R : IsStuck(l, R, s)
  <2>1. \A T \in SUBSET Path : IsBackward(l, T) /\ s \o <<>> \in T => l[s] \in T
    BY <1>4, <1>5
  <2>2. \E R \in SUBSET Path : /\ \A d \in Path : s \o d \in R
                               /\ \A y \in R : LinksIn(l, y) # {} /\ Followed(l, y) \in R
    BY <1>4, <2>1, Stuck
  <2> QED
    BY <2>2 DEF IsStuck
<1> DEFINE B == Beyond(R, s)
           M == {y \in Path : \A T \in SUBSET Path : IsBackward(k, T) /\ B \subseteq T => y \in T}
<1>7. B \subseteq Path /\ \A y \in B : LinksIn(k, y) # {} => Followed(k, y) \in B
  BY <1>6, BeyondIsClosed DEF Beyond
<1>8. \A y \in B : AtOrUnder(s, y) \/ \E x \in DOMAIN k : AtOrUnder(x, y) /\ x # y
  BY <1>6, BeyondIsMissing
<1>9. p \in M
  BY <1>5, <1>6, LeadsBeyond
<1> HIDE DEF B
<1>10. ASSUME NEW y \in M, y \notin B PROVE LinksIn(k, y) # {} /\ Followed(k, y) \in M
  <2>1. LinksIn(k, y) # {}
    <3> SUFFICES ASSUME LinksIn(k, y) = {} PROVE FALSE
      OBVIOUS
    <3>1. IsBackward(k, Path \ {y}) /\ Path \ {y} \in SUBSET Path /\ B \subseteq Path \ {y}
      BY <1>7, <1>10 DEF IsBackward
    <3>2. y \in Path \ {y}
      BY <3>1
    <3> QED
      BY <3>2
  <2>2. Followed(k, y) \in Path
    BY <2>1, FollowedProperties
  <2>3. ASSUME NEW T \in SUBSET Path, IsBackward(k, T), B \subseteq T, Followed(k, y) \notin T PROVE FALSE
    <3>1. T \ {y} \in SUBSET Path /\ IsBackward(k, T \ {y})
      BY <2>3, BackwardWithout
    <3>2. B \subseteq T \ {y}
      BY <1>10, <2>3
    <3>3. y \in T \ {y}
      BY <3>1, <3>2
    <3> QED
      BY <3>3
  <2> QED
    BY <2>1, <2>2, <2>3
<1>11. \A y \in M : y \in Path
  OBVIOUS
<1> HIDE DEF M
<1>12. v.path \in B \cup M
  <2> DEFINE C == {u \in Walk : u.path \in B \cup M}
  <2>1. w \in C /\ C \in SUBSET Walk
    BY <1>1, <1>9
  <2>2. IsClosed(k, C)
    <3> SUFFICES ASSUME NEW u \in C, ~Ends(k, u) PROVE FollowLink(k, u) \in C
      BY DEF IsClosed
    <3>1. FollowLink(k, u) \in Walk
      BY LeadsToNext
    <3>2. FollowLink(k, u).path = Followed(k, u.path) /\ LinksIn(k, u.path) # {}
      BY DEF FollowLink, Followed, Ends
    <3>3. Followed(k, u.path) \in B \cup M
      BY <1>7, <1>10, <3>2
    <3> QED
      BY <3>1, <3>2, <3>3
  <2> HIDE DEF C
  <2>3. v \in C
    BY <1>3, <2>1, <2>2 DEF LeadsTo
  <2> QED
    BY <2>3 DEF C
<1>13. CASE v.path \in B
  BY <1>3, <1>8, <1>13
<1>14. CASE v.path \in M /\ v.path \notin B
  <2> DEFINE r == v.path
             x == FirstLink(k, r)
             b == Behind(k, r)
  <2>1. r \in Path /\ LinksIn(k, r) # {}
    BY <1>10, <1>11, <1>14
  <2>2. IsFirst(k, x) /\ r = x \o b /\ b \in Path /\ x \in Path /\ x \in DOMAIN k
    BY <2>1, FirstLinkIsFirst, FirstLinkProperties DEF IsFirst
  <2>3. PICK o \in v.open : o.left <= Len(b) /\ o.link = x
    BY <1>3, <2>1 DEF Ends, Loops, StillOpen
  <2> HIDE DEF r, x, b
  <2>4. CASE b # <<>>
    <3>1. AtOrUnder(x, r) /\ From(x, r) = b
      BY <2>2, JoinProperties
    <3>2. x # r
      <4>1. x \o <<>> = x
        BY <2>2, ConcatEmptySeq DEF Path
      <4>2. From(x, x \o <<>>) = <<>>
        BY <1>4, <2>2, JoinProperties
      <4> QED
        BY <2>4, <3>1, <4>1, <4>2
    <3> QED
      BY <1>3, <2>2, <3>1, <3>2 DEF r
  <2>5. CASE b = <<>>
    <3>1. x = r /\ IsJoin(v.path, x, <<>>)
      <4>1. x \o <<>> = x
        BY <2>2, ConcatEmptySeq DEF Path
      <4> QED
        BY <2>2, <2>5, <4>1 DEF IsJoin, r
    <3>2. o.left = Len(<<>>)
      <4>1. o \in [link : Path, left : Nat]
        BY <1>3 DEF Walk
      <4> QED
        BY <1>4, <2>3, <2>5, <4>1
    <3>3. \A T \in SUBSET Path : IsBackward(k, T) /\ x \in T => k[x] \in T
      BY <1>3, <1>4, <2>2, <2>3, <3>1, <3>2 DEF IsTraced
    <3> DEFINE S == {y \in Path : \A T \in SUBSET Path : IsBackward(k, T) /\ x \in T => y \in T}
    <3>4. k[x] \in S /\ x \in S
      <4>1. k[x] \in Path
        BY <2>2 DEF IsLinkMap
      <4> QED
        BY <2>2, <3>3, <4>1
    <3>5. Followed(k, x) = k[x]
      <4>1. k[x] \o <<>> = k[x]
        BY <2>2, ConcatEmptySeq DEF IsLinkMap, Path
      <4> QED
        BY <2>5, <3>1, <4>1 DEF Followed, x, b
    <3>6. ASSUME NEW y \in S, LinksIn(k, y) # {} PROVE Followed(k, y) \in S
      <4>1. CASE y = x
        BY <3>4, <3>5, <4>1
      <4>2. CASE y # x
        <5>1. Followed(k, y) \in Path
          BY <3>6, FollowedProperties
        <5>2. ASSUME NEW T \in SUBSET Path, IsBackward(k, T), x \in T, Followed(k, y) \notin T PROVE FALSE
          <6>1. T \ {y} \in SUBSET Path /\ IsBackward(k, T \ {y})
            BY <5>2, BackwardWithout
          <6>2. y \in T \ {y}
            BY <4>2, <5>2, <6>1
          <6> QED
            BY <6>2
        <5> QED
          BY <5>1, <5>2
      <4> QED
        BY <4>1, <4>2
    <3>7. IsBackward(k, Path \ S) /\ Path \ S \in SUBSET Path
      <4> HIDE DEF S
      <4> QED
        BY <3>6 DEF IsBackward
    <3>8. B \subseteq Path \ S
      <4> SUFFICES ASSUME NEW y \in B, y \in S PROVE FALSE
        BY <1>7
      <4>1. IsBackward(k, Path \ B) /\ Path \ B \in SUBSET Path
        BY <1>7 DEF IsBackward
      <4>2. x \in Path \ B
        BY <1>14, <2>2, <3>1 DEF r
      <4>3. y \in Path \ B
        BY <4>1, <4>2
      <4> QED
        BY <4>3
    <3> HIDE DEF S
    <3>9. x \in Path \ S
      BY <1>14, <3>1, <3>7, <3>8 DEF M, r
    <3> QED
      BY <3>4, <3>9
  <2> QED
    BY <2>4, <2>5
<1> QED
  BY <1>12, <1>13, <1>14
===============================================================================
