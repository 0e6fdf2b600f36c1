--------------------------- MODULE FilesystemProofs ---------------------------
(***************************************************************************)
(* Theorems about Filesystem, for any names, requests, contents and        *)
(* formats, and trees of any size and depth.                               *)
(***************************************************************************)
EXTENDS Filesystem, PathTheorems

-----------------------------------------------------------------------------
(* Trees.  An archive has a tree in it, whose files may be archives again: *)
(* W is a set of trees that has the members of every archive in them.      *)

IsNode(n, W) ==
    /\ n.kind \in {"dir", "file", "link"}
    /\ n.to \in Path
    /\ n.body.members \in W
    /\ n.kind = "dir" => n = Dir

\* What has something below it is a directory.
IsTree(m, W) ==
    /\ m = [x \in DOMAIN m |-> m[x]]
    /\ DOMAIN m \subseteq Path
    /\ IsFiniteSet(DOMAIN m)
    /\ \A x \in DOMAIN m : IsNode(m[x], W)
    /\ \A x, y \in DOMAIN m : AtOrUnder(y, x) /\ y # x => m[y].kind = "dir"

\* Whatever is packed under the sandbox's own name is a directory.
HasTop(m) == <<>> \in DOMAIN m => m[<<>>].kind = "dir"

IsWorld(W) == NoMembers \in W /\ \A m \in W : IsTree(m, W) /\ HasTop(m)

\* The tree begins at the sandbox, and nothing above an entry is missing.
IsRooted(f) ==
    /\ Is(f, <<>>, "dir")
    /\ \A x \in DOMAIN f : \A y \in Path : AtOrUnder(y, x) => y \in DOMAIN f

IsSound(f, W) == IsWorld(W) /\ IsTree(f, W) /\ IsRooted(f)

\* The nodes that the operations make.
LEMMA NewNodes ==
  ASSUME NEW W, IsWorld(W)
  PROVE  /\ IsNode(Dir, W) /\ Dir.kind = "dir"
         /\ \A p \in Path : IsNode(Link(p), W) /\ Link(p).kind = "link"
         /\ \A b : b.members \in W => IsNode(File(b), W)
         /\ \A b : File(b).kind = "file" /\ File(b).body = b
         /\ \A t : Text(t).members \in W
         /\ \A z : \A m \in W : Archive(z, m).members \in W
         /\ Junk.members \in W
<1>1. <<>> \in Path
  BY EmptySeq DEF Path
<1> QED
  BY <1>1 DEF IsWorld, IsNode, Dir, Link, File, Text, Archive, Junk, Rest

\* More trees to pack leave a tree what it is.
LEMMA WorldGrows ==
  ASSUME NEW W, IsWorld(W), NEW S, \A m \in S : IsTree(m, W) /\ HasTop(m)
  PROVE  /\ IsWorld(W \cup S)
         /\ \A f : IsTree(f, W) => IsTree(f, W \cup S)
         /\ \A f : IsSound(f, W) => IsSound(f, W \cup S)
<1>1. \A n : IsNode(n, W) => IsNode(n, W \cup S)
  BY DEF IsNode
<1>2. \A f : IsTree(f, W) => IsTree(f, W \cup S)
  BY <1>1 DEF IsTree
<1>3. IsWorld(W \cup S)
  BY <1>2 DEF IsWorld
<1> QED
  BY <1>2, <1>3 DEF IsSound

\* Some entries of a tree.
LEMMA RestrictedTree ==
  ASSUME NEW W, NEW f, IsTree(f, W), NEW S \in SUBSET DOMAIN f
  PROVE  /\ DOMAIN Restrict(f, S) = S
         /\ \A x \in S : Restrict(f, S)[x] = f[x]
         /\ IsTree(Restrict(f, S), W)
<1>1. DOMAIN Restrict(f, S) = S /\ \A x \in S : Restrict(f, S)[x] = f[x]
  BY DEF Restrict
<1>2. Restrict(f, S) = [x \in DOMAIN Restrict(f, S) |-> Restrict(f, S)[x]]
  BY DEF Restrict
<1>3. IsFiniteSet(S)
  BY FS_Subset DEF IsTree
<1> QED
  BY <1>1, <1>2, <1>3 DEF IsTree

LEMMA RestrictedRoot ==
  ASSUME NEW W, NEW f, IsSound(f, W), NEW S \in SUBSET DOMAIN f, <<>> \in S,
         \A x \in S : \A y \in DOMAIN f : AtOrUnder(y, x) => y \in S
  PROVE  IsSound(Restrict(f, S), W)
<1>1. /\ DOMAIN Restrict(f, S) = S
      /\ \A x \in S : Restrict(f, S)[x] = f[x]
      /\ IsTree(Restrict(f, S), W)
  BY RestrictedTree DEF IsSound
<1> QED
  BY <1>1 DEF IsSound, IsRooted, Is

\* Two trees laid over each other are a tree if neither has a file or a link
\* above what is in the other.
LEMMA OverTrees ==
  ASSUME NEW W, NEW f, NEW g, IsTree(f, W), IsTree(g, W),
         \A x \in DOMAIN f : \A y \in DOMAIN g \ DOMAIN f :
            AtOrUnder(y, x) => g[y].kind = "dir",
         \A x \in DOMAIN g \ DOMAIN f : \A y \in DOMAIN f :
            AtOrUnder(y, x) => f[y].kind = "dir"
  PROVE  /\ DOMAIN Over(f, g) = DOMAIN f \cup DOMAIN g
         /\ \A x \in DOMAIN f : Over(f, g)[x] = f[x]
         /\ \A x \in DOMAIN g \ DOMAIN f : Over(f, g)[x] = g[x]
         /\ IsTree(Over(f, g), W)
<1> DEFINE h == Over(f, g)
<1>1. /\ DOMAIN h = DOMAIN f \cup DOMAIN g
      /\ \A x \in DOMAIN f : h[x] = f[x]
      /\ \A x \in DOMAIN g \ DOMAIN f : h[x] = g[x]
      /\ h = [x \in DOMAIN h |-> h[x]]
  BY DEF Over
<1>2. DOMAIN h \subseteq Path /\ IsFiniteSet(DOMAIN h)
  <2>1. IsFiniteSet(DOMAIN f) /\ IsFiniteSet(DOMAIN g)
    BY DEF IsTree
  <2>2. IsFiniteSet(DOMAIN f \cup DOMAIN g)
    BY ONLY <2>1, FS_Union
  <2> QED
    BY ONLY <1>1, <2>2, IsTree(f, W), IsTree(g, W) DEF IsTree
<1>3. \A x \in DOMAIN h : IsNode(h[x], W)
  BY <1>1 DEF IsTree
<1>4. ASSUME NEW x \in DOMAIN h, NEW y \in DOMAIN h, AtOrUnder(y, x), y # x
      PROVE  h[y].kind = "dir"
  BY <1>1, <1>4 DEF IsTree
<1> HIDE DEF h
<1>5. IsTree(h, W)
  BY <1>1, <1>2, <1>3, <1>4 DEF IsTree
<1> QED
  BY <1>1, <1>5 DEF h

\* One more entry, in a directory.
LEMMA SoundPut ==
  ASSUME NEW W, NEW f, IsSound(f, W), NEW p \in Path, p # <<>>, Is(f, Above(p), "dir"),
         NEW n, IsNode(n, W), n.kind = "dir" \/ ~Is(f, p, "dir")
  PROVE  /\ DOMAIN Put(f, p, n) = DOMAIN f \cup {p}
         /\ Put(f, p, n)[p] = n
         /\ \A x \in DOMAIN f \ {p} : Put(f, p, n)[x] = f[x]
         /\ IsSound(Put(f, p, n), W)
<1> DEFINE h == Put(f, p, n)
<1>1. /\ DOMAIN h = DOMAIN f \cup {p}
      /\ h[p] = n
      /\ \A x \in DOMAIN f \ {p} : h[x] = f[x]
      /\ h = [x \in DOMAIN h |-> h[x]]
  BY DEF Put
<1>2. DOMAIN h \subseteq Path /\ IsFiniteSet(DOMAIN h)
  BY <1>1, FS_AddElement DEF IsSound, IsTree
<1>3. \A x \in DOMAIN h : IsNode(h[x], W)
  BY <1>1 DEF IsSound, IsTree
<1>4. /\ Above(p) \in DOMAIN f /\ f[Above(p)].kind = "dir"
      /\ Above(p) \in Path /\ Above(p) # p
      /\ \A x \in Path : AtOrUnder(x, p) /\ x # p => AtOrUnder(x, Above(p))
  BY AboveIsUnder DEF Is
<1>5. \A y \in Path : AtOrUnder(y, p) /\ y # p => y \in DOMAIN f /\ f[y].kind = "dir"
  BY <1>4 DEF IsSound, IsTree, IsRooted
<1>6. \A x \in DOMAIN f : AtOrUnder(p, x) /\ p # x => n.kind = "dir"
  BY DEF IsSound, IsTree, IsRooted, Is
<1> HIDE DEF h
<1>7. \A x, y \in DOMAIN h : AtOrUnder(y, x) /\ y # x => h[y].kind = "dir"
  BY <1>1, <1>2, <1>5, <1>6 DEF IsSound, IsTree
<1>8. \A x \in DOMAIN h : \A y \in Path : AtOrUnder(y, x) => y \in DOMAIN h
  BY <1>1, <1>5 DEF IsSound, IsRooted
<1>9. Is(h, <<>>, "dir")
  BY <1>1 DEF IsSound, IsRooted, Is
<1>10. IsSound(h, W)
  BY <1>1, <1>2, <1>3, <1>7, <1>8, <1>9 DEF IsSound, IsTree, IsRooted
<1> QED
  BY <1>1, <1>10 DEF h

\* mkdir -p, where nothing but directories is in the way.
LEMMA SoundWithDirs ==
  ASSUME NEW W, NEW f, IsSound(f, W), NEW p \in Path, Creatable(f, p)
  PROVE  /\ DOMAIN WithDirs(f, p) = DOMAIN f \cup Ancestors(p)
         /\ \A x \in Ancestors(p) : WithDirs(f, p)[x] = Dir
         /\ \A x \in DOMAIN f : WithDirs(f, p)[x] = f[x]
         /\ IsSound(WithDirs(f, p), W)
<1> DEFINE g == [x \in Ancestors(p) |-> Dir]
<1>1. g = [x \in DOMAIN g |-> g[x]] /\ DOMAIN g = Ancestors(p) /\ \A x \in DOMAIN g : g[x] = Dir
  OBVIOUS
<1>2. Ancestors(p) \subseteq Path /\ IsFiniteSet(Ancestors(p))
  BY AncestorsProperties
<1>3. IsNode(Dir, W) /\ Dir.kind = "dir"
  BY NewNodes DEF IsSound
<1>4. \A x \in Ancestors(p) \cap DOMAIN f : f[x] = Dir
  BY <1>2 DEF Creatable, IsSound, IsTree, IsNode
<1>5. \A x \in DOMAIN f : \A y \in Path : AtOrUnder(y, x) => y \in DOMAIN f
  BY DEF IsSound, IsRooted
<1>6. \A x \in Ancestors(p) : \A y \in Path : AtOrUnder(y, x) => y \in Ancestors(p)
  BY <1>2, UnderProperties
<1> HIDE DEF g
<1>7. IsTree(g, W)
  BY <1>1, <1>2, <1>3 DEF IsTree
<1>8. ASSUME NEW x \in DOMAIN f \ DOMAIN g, NEW y \in DOMAIN g, AtOrUnder(y, x)
      PROVE  g[y].kind = "dir"
  BY <1>1, <1>3
<1>9. ASSUME NEW x \in DOMAIN g, NEW y \in DOMAIN f \ DOMAIN g, AtOrUnder(y, x)
      PROVE  f[y].kind = "dir"
  BY <1>1, <1>6, <1>9 DEF IsSound, IsTree
<1>10. /\ DOMAIN Over(g, f) = DOMAIN g \cup DOMAIN f
       /\ \A x \in DOMAIN g : Over(g, f)[x] = g[x]
       /\ \A x \in DOMAIN f \ DOMAIN g : Over(g, f)[x] = f[x]
       /\ IsTree(Over(g, f), W)
  <2>1. IsTree(f, W)
    BY DEF IsSound
  <2> QED
    BY ONLY <1>7, <1>8, <1>9, <2>1, OverTrees
<1>11. WithDirs(f, p) = Over(g, f)
  BY DEF WithDirs, g
<1> HIDE <1>11
<1>12. \A x \in DOMAIN f : Over(g, f)[x] = f[x]
  BY <1>1, <1>4, <1>10
<1>13. Is(Over(g, f), <<>>, "dir")
  BY <1>1, <1>3, <1>10, <1>12 DEF IsSound, IsRooted, Is
<1>14. IsSound(Over(g, f), W)
  BY <1>1, <1>2, <1>5, <1>6, <1>10, <1>13 DEF IsSound, IsRooted
<1> QED
  BY <1>1, <1>10, <1>11, <1>12, <1>14

\* Directories that are made keep what is there.
LEMMA WithDirsKeeps ==
  ASSUME NEW W, NEW f, IsSound(f, W), NEW r \in Path, Creatable(f, r)
  PROVE  \A x \in DOMAIN f : WithDirs(f, r)[x] = f[x]
<1> SUFFICES ASSUME NEW x \in DOMAIN f PROVE WithDirs(f, r)[x] = f[x]
  OBVIOUS
<1>1. CASE x \in Ancestors(r)
  <2>1. f[x] = Dir
    BY <1>1 DEF Creatable, IsSound, IsTree, IsNode
  <2> QED
    BY <1>1, <2>1 DEF WithDirs, Over
<1>2. CASE x \notin Ancestors(r)
  BY <1>2 DEF WithDirs, Over
<1> QED
  BY <1>1, <1>2

\* What is at s and below it, seen from another place.
LEMMA SubtreeProperties ==
  ASSUME NEW W, NEW f, IsTree(f, W), NEW s \in Path, NEW t \in Path
  PROVE  /\ \A y : y \in DOMAIN Subtree(f, s, t) <=>
                      y \in Path /\ AtOrUnder(t, y) /\ s \o From(t, y) \in DOMAIN f
         /\ \A y \in DOMAIN Subtree(f, s, t) : Subtree(f, s, t)[y] = f[s \o From(t, y)]
         /\ IsTree(Subtree(f, s, t), W)
<1> DEFINE part == {x \in DOMAIN f : AtOrUnder(s, x)}
           m    == Subtree(f, s, t)
           D    == {t \o From(s, x) : x \in part}
<1>1. m = [y \in D |-> f[s \o From(t, y)]]
  BY DEF Subtree
<1>2. DOMAIN f \subseteq Path /\ IsFiniteSet(DOMAIN f)
  BY DEF IsTree
<1>3. IsFiniteSet(D)
  <2>1. IsFiniteSet(part)
    BY <1>2, FS_Subset
  <2> DEFINE g == [x \in part |-> t \o From(s, x)]
  <2>2. {g[x] : x \in part} = D
    OBVIOUS
  <2> HIDE DEF g, part, D
  <2> QED
    BY <2>1, <2>2, FiniteImage
<1>4. \A x \in part : /\ From(s, x) \in Path /\ s \o From(s, x) = x
                      /\ t \o From(s, x) \in Path /\ AtOrUnder(t, t \o From(s, x))
                      /\ From(t, t \o From(s, x)) = From(s, x)
  BY <1>2, JoinProperties
<1>5. \A y : y \in D <=> y \in Path /\ AtOrUnder(t, y) /\ s \o From(t, y) \in DOMAIN f
  <2>1. ASSUME NEW y \in D
        PROVE  y \in Path /\ AtOrUnder(t, y) /\ s \o From(t, y) \in DOMAIN f
    BY <1>4
  <2>2. ASSUME NEW y \in Path, AtOrUnder(t, y), s \o From(t, y) \in DOMAIN f
        PROVE  y \in D
    <3>1. From(t, y) \in Path /\ t \o From(t, y) = y
      BY <2>2, JoinProperties
    <3>2. /\ AtOrUnder(s, s \o From(t, y)) /\ From(s, s \o From(t, y)) = From(t, y)
      BY <3>1, JoinProperties
    <3> QED
      BY <2>2, <3>1, <3>2
  <2> QED
    BY <2>1, <2>2
<1>6. \A y \in D : m[y] = f[s \o From(t, y)]
  BY <1>1
<1>7. m = [y \in DOMAIN m |-> m[y]] /\ DOMAIN m = D
  BY <1>1
<1> HIDE DEF D, m
<1>8. \A y \in D : IsNode(m[y], W)
  BY <1>5, <1>6 DEF IsTree
<1>9. ASSUME NEW x \in D, NEW y \in D, AtOrUnder(y, x), y # x
      PROVE  m[y].kind = "dir"
  <2> DEFINE a == From(t, x)
             b == From(t, y)
  <2>1. a \in Path /\ b \in Path /\ t \o a = x /\ t \o b = y
    BY <1>5, JoinProperties
  <2> HIDE DEF a, b
  <2>2. AtOrUnder(b, a) /\ b # a
    BY <1>9, <2>1, JoinProperties
  <2>3. /\ AtOrUnder(s \o b, s \o a)
        /\ From(s, s \o a) = a /\ From(s, s \o b) = b
    BY <2>1, <2>2, JoinProperties
  <2>4. s \o a \in DOMAIN f /\ s \o b \in DOMAIN f /\ m[y] = f[s \o b]
    BY <1>5, <1>6 DEF a, b
  <2> QED
    BY <2>2, <2>3, <2>4 DEF IsTree
<1>10. IsTree(m, W)
  BY <1>3, <1>5, <1>7, <1>8, <1>9 DEF IsTree
<1> QED
  BY <1>5, <1>6, <1>7, <1>10 DEF m

-----------------------------------------------------------------------------
(* Resolved paths, and what is found there.                                *)

LEMMA LinksOfATree ==
  ASSUME NEW W, NEW f, IsTree(f, W), NEW p \in Path
  PROVE  /\ IsLinkMap(LinksOf(f))
         /\ validate_path(f, p) \in Path
         /\ (\A x \in DOMAIN f : AtOrUnder(x, p) => f[x].kind # "link") => validate_path(f, p) = p
<1> DEFINE l == LinksOf(f)
<1>1. /\ DOMAIN l = {x \in DOMAIN f : f[x].kind = "link"}
      /\ \A x \in DOMAIN l : l[x] = f[x].to
      /\ l = [x \in DOMAIN l |-> l[x]]
  BY DEF LinksOf
<1>2. IsFiniteSet(DOMAIN l)
  <2>1. IsFiniteSet(DOMAIN f)
    BY DEF IsTree
  <2> HIDE DEF l
  <2> QED
    BY <1>1, <2>1, FS_Subset
<1> HIDE DEF l
<1>3. DOMAIN l \subseteq Path /\ \A x \in DOMAIN l : l[x] \in Path
  BY <1>1 DEF IsTree, IsNode
<1>4. IsLinkMap(l)
  BY <1>1, <1>2, <1>3 DEF IsLinkMap
<1>5. realpath(l, p) \in Path /\ (LinksIn(l, p) = {} => realpath(l, p) = p)
  BY <1>4, realpathProperties
<1>6. ASSUME \A x \in DOMAIN f : AtOrUnder(x, p) => f[x].kind # "link"
      PROVE  LinksIn(l, p) = {}
  <2>1. ASSUME NEW i \in 1 .. Len(p), SubSeq(p, 1, i) \in DOMAIN l
        PROVE  FALSE
    <3>1. SubSeq(p, 1, i) \in Ancestors(p)
      BY PathElements DEF Ancestors
    <3>2. SubSeq(p, 1, i) \in Path
      BY <3>1, AncestorsProperties
    <3>3. AtOrUnder(SubSeq(p, 1, i), p)
      BY <3>1, <3>2, UnderProperties
    <3> QED
      BY <1>1, <1>6, <2>1, <3>3
  <2> QED
    BY <2>1 DEF LinksIn
<1> QED
  BY <1>4, <1>5, <1>6 DEF validate_path, l

\* What a path leads to, if it leads to a file or a directory.
LEMMA StatProperties ==
  ASSUME NEW W, NEW f, IsTree(f, W), NEW p \in Path
  PROVE  LET r == validate_path(f, p)
         IN  /\ Stat(f, p) = "loop" <=> \E x \in DOMAIN f : AtOrUnder(x, r) /\ f[x].kind = "link"
             /\ Stat(f, p) # "loop" => Stat(f, p) = (IF r \in DOMAIN f THEN f[r].kind ELSE "missing")
             /\ Stat(f, p) = "file" => Is(f, r, "file") /\ Content(f, p).members \in W
<1> DEFINE r == validate_path(f, p)
<1>1. r \in Path /\ DOMAIN f \subseteq Path
  BY LinksOfATree DEF IsTree
<1>2. \A x \in DOMAIN f : x \in Ancestors(r) <=> AtOrUnder(x, r)
  BY <1>1, UnderProperties
<1>3. Stat(f, p) = IF \E x \in Ancestors(r) : Is(f, x, "link") THEN "loop"
                   ELSE IF r \in DOMAIN f THEN f[r].kind ELSE "missing"
  BY DEF Stat
<1>4. Content(f, p) = f[r].body
  BY DEF Content
<1>5. r \in DOMAIN f => f[r].kind \in {"dir", "file", "link"} /\ f[r].body.members \in W
  BY DEF IsTree, IsNode
<1>6. (\E x \in Ancestors(r) : Is(f, x, "link"))
        <=> \E x \in DOMAIN f : AtOrUnder(x, r) /\ f[x].kind = "link"
  BY <1>2 DEF Is
<1> HIDE DEF r
<1>7. "loop" \notin {"dir", "file", "link", "missing"} /\ "file" # "missing"
  OBVIOUS
<1>8. /\ Stat(f, p) = "loop" <=> \E x \in DOMAIN f : AtOrUnder(x, r) /\ f[x].kind = "link"
      /\ Stat(f, p) # "loop" => Stat(f, p) = (IF r \in DOMAIN f THEN f[r].kind ELSE "missing")
  BY <1>3, <1>5, <1>6, <1>7
<1>9. Stat(f, p) = "file" => Is(f, r, "file") /\ Content(f, p).members \in W
  BY <1>3, <1>4, <1>5, <1>7 DEF Is
<1> QED
  BY <1>8, <1>9 DEF r

\* An answer leaves the tree that the operation has made.
LEMMA AnswerProperties ==
  ASSUME NEW f, NEW p
  PROVE  /\ Raises(f).fs = f /\ ~Raises(f).ok
         /\ Answers(f).fs = f /\ Answers(f).ok
         /\ file_to_model(f, p).fs = f
<1>1. Raises(f).fs = f /\ ~Raises(f).ok /\ Answers(f).fs = f /\ Answers(f).ok
  BY DEF Raises, Answers
<1>2. [Answers(f) EXCEPT !.type = Stat(f, p)].fs = f
  BY DEF Answers
<1> QED
  BY <1>1, <1>2 DEF file_to_model

\* A path that can be opened for writing.
Writable(f, p) ==
    LET r == validate_path(f, p)
    IN  r # <<>> /\ Is(f, Above(r), "dir") /\ (r \in DOMAIN f => f[r].kind = "file")

LEMMA WriteIsOpen ==
  ASSUME NEW f, NEW p, NEW b
  PROVE  /\ Write(f, p, b).ok <=> Writable(f, p)
         /\ Writable(f, p) => /\ Write(f, p, b) = Answers(Put(f, validate_path(f, p), File(b)))
                              /\ Write(f, p, b).fs = Put(f, validate_path(f, p), File(b))
         /\ ~Writable(f, p) => Write(f, p, b) = Raises(f) /\ Write(f, p, b).fs = f
<1>1. Write(f, p, b) = IF Writable(f, p) THEN Answers(Put(f, validate_path(f, p), File(b)))
                       ELSE Raises(f)
  BY DEF Write, Writable
<1>2. \A h : ~Raises(h).ok /\ Answers(h).ok /\ Raises(h).fs = h /\ Answers(h).fs = h
  BY AnswerProperties
<1>3. CASE Writable(f, p)
  BY <1>1, <1>2, <1>3
<1>4. CASE ~Writable(f, p)
  BY <1>1, <1>2, <1>4
<1> QED
  BY <1>3, <1>4

LEMMA PutIsSound ==
  ASSUME NEW W, NEW f, IsSound(f, W), NEW p \in Path, Writable(f, p), NEW b, b.members \in W
  PROVE  IsSound(Put(f, validate_path(f, p), File(b)), W)
<1> DEFINE r == validate_path(f, p)
<1>1. r \in Path
  BY LinksOfATree DEF IsSound
<1>2. IsNode(File(b), W) /\ File(b).kind = "file"
  BY NewNodes DEF IsSound
<1>3. r # <<>> /\ Is(f, Above(r), "dir") /\ (r \in DOMAIN f => f[r].kind = "file")
  BY DEF Writable
<1> HIDE DEF r
<1>4. IsSound(Put(f, r, File(b)), W)
  BY <1>1, <1>2, <1>3, SoundPut DEF Is
<1> QED
  BY <1>4 DEF r

LEMMA WriteIsSound ==
  ASSUME NEW W, NEW f, IsSound(f, W), NEW p \in Path, NEW b, b.members \in W
  PROVE  IsSound(Write(f, p, b).fs, W)
BY WriteIsOpen, PutIsSound

\* There is no link in a path that can be opened for writing.
LEMMA WritableProperties ==
  ASSUME NEW W, NEW f, IsSound(f, W), NEW p \in Path, Writable(f, p)
  PROVE  /\ validate_path(f, p) \in Path /\ validate_path(f, p) # <<>>
         /\ \A x \in DOMAIN f : AtOrUnder(x, validate_path(f, p)) => f[x].kind # "link"
<1> DEFINE r == validate_path(f, p)
<1>1. r \in Path
  BY LinksOfATree DEF IsSound
<1>2. r # <<>> /\ Is(f, Above(r), "dir") /\ (r \in DOMAIN f => f[r].kind = "file")
  BY DEF Writable
<1> HIDE DEF r
<1>3. /\ Above(r) \in DOMAIN f /\ f[Above(r)].kind = "dir" /\ Above(r) \in Path
      /\ \A x \in Path : AtOrUnder(x, r) /\ x # r => AtOrUnder(x, Above(r))
  BY <1>1, <1>2, AboveIsUnder DEF Is
<1>4. \A x \in DOMAIN f : AtOrUnder(x, r) => f[x].kind # "link"
  BY <1>2, <1>3 DEF IsSound, IsTree
<1> QED
  BY <1>1, <1>2, <1>4 DEF r

\* A write leaves every link what it is, and so every path leads where it led.
LEMMA WriteKeepsLinks ==
  ASSUME NEW f, NEW p, Writable(f, p), NEW b
  PROVE  LinksOf(Put(f, validate_path(f, p), File(b))) = LinksOf(f)
<1> DEFINE r == validate_path(f, p)
           g == Put(f, r, File(b))
<1>1. r \in DOMAIN f => f[r].kind = "file"
  BY DEF Writable
<1>2. DOMAIN g = DOMAIN f \cup {r} /\ g[r] = File(b) /\ \A x \in DOMAIN f \ {r} : g[x] = f[x]
  BY DEF Put
<1> HIDE DEF g, r
<1>3. /\ {x \in DOMAIN g : g[x].kind = "link"} = {x \in DOMAIN f : f[x].kind = "link"}
      /\ \A x \in DOMAIN f : f[x].kind = "link" => g[x] = f[x]
  BY <1>1, <1>2 DEF File
<1>4. LinksOf(g) = LinksOf(f)
  BY <1>3 DEF LinksOf
<1> QED
  BY <1>4 DEF g, r

-----------------------------------------------------------------------------
(* What each operation makes of a sound tree is a sound tree.              *)

LEMMA LandingProperties ==
  ASSUME NEW W, NEW f, IsSound(f, W), NEW s \in Path, NEW d \in Path
  PROVE  Landing(f, s, d) \in Path /\ Landing(f, s, d) # <<>>
<1>1. BaseName(s) \in Names \cup {SandboxName}
  <2>1. CASE s = <<>>
    BY <2>1 DEF BaseName
  <2>2. CASE s # <<>>
    <3>1. Len(s) \in 1 .. Len(s)
      BY <2>2, PathElements, EmptySeq DEF Path
    <3> QED
      BY <2>2, <3>1, PathElements DEF BaseName, Last
  <2> QED
    BY <2>1, <2>2
<1>2. Append(d, BaseName(s)) \in Path /\ Append(d, BaseName(s)) # <<>>
  <2>1. /\ Append(d, BaseName(s)) \in Seq(Names \cup {SandboxName})
        /\ Len(Append(d, BaseName(s))) = Len(d) + 1
    BY <1>1, AppendProperties DEF Path
  <2> QED
    BY <2>1, PathElements, EmptySeq DEF Path
<1>3. d # <<>> \/ Is(f, d, "dir")
  BY DEF IsSound, IsRooted
<1> QED
  BY <1>2, <1>3 DEF Landing

LEMMA mkdirIsSound ==
  ASSUME NEW W, NEW f, IsSound(f, W), NEW p \in Path
  PROVE  /\ \A parent \in BOOLEAN : \A o \in mkdir(f, p, parent) : IsSound(o.fs, W)
         /\ \A g \in mkdirCut(f, p) : IsSound(g, W)
<1> DEFINE r == validate_path(f, p)
<1>1. r \in Path
  BY LinksOfATree DEF IsSound
<1>2. \A g, q : Raises(g).fs = g /\ file_to_model(g, q).fs = g
  BY AnswerProperties
<1>3. IsNode(Dir, W) /\ Dir.kind = "dir"
  BY NewNodes DEF IsSound
<1>4. ASSUME Creatable(f, r), NEW x \in Ancestors(r)
      PROVE  IsSound(WithDirs(f, x), W)
  <2>1. x \in Path /\ Ancestors(x) \subseteq Ancestors(r)
    <3>1. x \in Path
      BY <1>1, AncestorsProperties
    <3>2. \A y \in Ancestors(x) : y \in Path /\ y \in Ancestors(r)
      BY <1>1, <3>1, AncestorsProperties, AncestorsAreOrdered
    <3> QED
      BY <3>1, <3>2
  <2>2. Creatable(f, x)
    BY <1>4, <2>1 DEF Creatable
  <2> QED
    BY <2>1, <2>2, SoundWithDirs
<1>5. r \in Ancestors(r)
  BY <1>1, AncestorsProperties
<1>6. r \notin DOMAIN f /\ Is(f, Above(r), "dir") => IsSound(Put(f, r, Dir), W)
  <2>1. <<>> \in DOMAIN f
    BY DEF IsSound, IsRooted, Is
  <2> HIDE DEF r
  <2> QED
    BY <1>1, <1>3, <2>1, SoundPut
<1>7. ASSUME NEW parent \in BOOLEAN, NEW o \in mkdir(f, p, parent)
      PROVE  IsSound(o.fs, W)
  <2>1. \/ o.fs = f
        \/ Creatable(f, r) /\ o.fs = WithDirs(f, r)
        \/ r \notin DOMAIN f /\ Is(f, Above(r), "dir") /\ o.fs = Put(f, r, Dir)
    BY <1>2, <1>7 DEF mkdir
  <2> QED
    BY <1>4, <1>5, <1>6, <2>1
<1>8. ASSUME NEW g \in mkdirCut(f, p)
      PROVE  IsSound(g, W)
  <2>1. g = f \/ (Creatable(f, r) /\ \E x \in Ancestors(r) : g = WithDirs(f, x))
    BY <1>8 DEF mkdirCut
  <2> QED
    BY <1>4, <2>1
<1> QED
  BY <1>7, <1>8

LEMMA symlinkIsSound ==
  ASSUME NEW W, NEW f, IsSound(f, W), NEW p \in Path, NEW q \in Path
  PROVE  \A o \in symlink(f, p, q) : IsSound(o.fs, W)
<1> DEFINE src == validate_path(f, p)
           dst == validate_path(f, q)
           new == Landing(f, src, dst)
<1>1. src \in Path /\ dst \in Path
  BY LinksOfATree DEF IsSound
<1>2. new \in Path /\ new # <<>>
  BY <1>1, LandingProperties
<1>3. \A g, x : Raises(g).fs = g /\ file_to_model(g, x).fs = g
  BY AnswerProperties
<1>4. IsNode(Link(src), W)
  BY <1>1, NewNodes DEF IsSound
<1>5. ASSUME NEW o \in symlink(f, p, q)
      PROVE  \/ o.fs = f
             \/ new \notin DOMAIN f /\ Is(f, Above(new), "dir") /\ o.fs = Put(f, new, Link(src))
  BY <1>3, <1>5 DEF symlink
<1> HIDE DEF src, dst, new
<1>6. new \notin DOMAIN f /\ Is(f, Above(new), "dir") => IsSound(Put(f, new, Link(src)), W)
  BY <1>2, <1>4, SoundPut DEF Is
<1> QED
  BY <1>5, <1>6

\* A walk down a tree has come to directories before it has come to what is in them.
LEMMA PartsProperties ==
  ASSUME NEW W, NEW m, IsTree(m, W), NEW n \in Parts(m)
  PROVE  /\ IsTree(n, W)
         /\ DOMAIN n \subseteq DOMAIN m /\ \A x \in DOMAIN n : n[x] = m[x]
         /\ \A x \in DOMAIN n : \A y \in DOMAIN m : AtOrUnder(y, x) => y \in DOMAIN n
<1>1. PICK S \in SUBSET DOMAIN m :
         n = Restrict(m, S) /\ \A x \in S : Parents(x) \cap DOMAIN m \subseteq S
  BY DEF Parts
<1>2. IsTree(n, W) /\ DOMAIN n = S /\ \A x \in S : n[x] = m[x]
  BY <1>1, RestrictedTree
<1>3. ASSUME NEW x \in S, NEW y \in DOMAIN m, AtOrUnder(y, x)
      PROVE  y \in S
  <2>1. x \in Path /\ y \in Path
    BY DEF IsTree
  <2>2. y \in Parents(x) \/ y = x
    BY <1>3, <2>1, UnderProperties
  <2> QED
    BY <1>1, <1>3, <2>2
<1> QED
  BY <1>2, <1>3

LEMMA PartsHaveTop ==
  ASSUME NEW m, HasTop(m), NEW n \in Parts(m)
  PROVE  HasTop(n)
<1>1. DOMAIN n \subseteq DOMAIN m /\ \A x \in DOMAIN n : n[x] = m[x]
  BY DEF Parts, Restrict
<1> QED
  BY <1>1 DEF HasTop

\* What is not under a path.
LEMMA WithoutProperties ==
  ASSUME NEW W, NEW f, IsSound(f, W), NEW r \in Path, r # <<>>
  PROVE  /\ DOMAIN Without(f, r) = {x \in DOMAIN f : ~AtOrUnder(r, x)}
         /\ \A x \in DOMAIN Without(f, r) : Without(f, r)[x] = f[x]
         /\ IsSound(Without(f, r), W)
<1> DEFINE S == {x \in DOMAIN f : ~AtOrUnder(r, x)}
<1>1. DOMAIN f \subseteq Path /\ <<>> \in DOMAIN f
  BY DEF IsSound, IsTree, IsRooted, Is
<1>2. S \in SUBSET DOMAIN f /\ <<>> \in S
  BY <1>1, UnderProperties
<1>3. \A x \in S : \A y \in DOMAIN f : AtOrUnder(y, x) => y \in S
  BY <1>1, UnderProperties
<1>4. Without(f, r) = Restrict(f, S)
  BY DEF Without
<1> HIDE DEF S
<1>5. IsSound(Restrict(f, S), W) /\ DOMAIN Restrict(f, S) = S /\ \A x \in S : Restrict(f, S)[x] = f[x]
  BY <1>2, <1>3, RestrictedRoot, RestrictedTree DEF IsSound
<1> QED
  BY <1>4, <1>5 DEF S

LEMMA rmIsSound ==
  ASSUME NEW W, NEW f, IsSound(f, W), NEW p \in Path
  PROVE  /\ \A o \in rm(f, p) : IsSound(o.fs, W)
         /\ \A g \in rmCut(f, p) : IsSound(g, W)
<1> DEFINE r == validate_path(f, p)
<1>1. r \in Path
  BY LinksOfATree DEF IsSound
<1>2. \A g : Raises(g).fs = g /\ Answers(g).fs = g
  BY AnswerProperties
<1>3. \A g \in rmCut(f, p) :
        \/ g = f
        \/ r # <<>> /\ \E m \in Parts(Subtree(f, r, r)) : g = Over(m, Without(f, r))
  BY DEF rmCut
<1>4. \A o \in rm(f, p) :
        \/ o.fs = f
        \/ r # <<>> /\ o.fs = Without(f, r)
        \/ \E g \in rmCut(f, p) : o.fs = g
  BY <1>2 DEF rm
<1>5. IsTree(f, W) /\ IsWorld(W) /\ IsRooted(f)
  BY DEF IsSound
<1> HIDE DEF r
<1>6. ASSUME r # <<>>, NEW m \in Parts(Subtree(f, r, r))
      PROVE  IsSound(Over(m, Without(f, r)), W)
  <2> DEFINE g == Without(f, r)
             h == Over(m, g)
             S == Subtree(f, r, r)
  <2>1. /\ DOMAIN g = {x \in DOMAIN f : ~AtOrUnder(r, x)}
        /\ \A x \in DOMAIN g : g[x] = f[x]
        /\ IsSound(g, W)
    BY <1>1, <1>6, WithoutProperties
  <2>2. /\ IsTree(S, W)
        /\ \A x : x \in DOMAIN S <=> x \in DOMAIN f /\ AtOrUnder(r, x)
        /\ \A x \in DOMAIN S : S[x] = f[x]
    <3>1. /\ IsTree(S, W)
          /\ \A x : x \in DOMAIN S <=> x \in Path /\ AtOrUnder(r, x) /\ r \o From(r, x) \in DOMAIN f
          /\ \A x \in DOMAIN S : S[x] = f[r \o From(r, x)]
      BY <1>1, <1>5, SubtreeProperties
    <3>2. \A x \in Path : AtOrUnder(r, x) => r \o From(r, x) = x
      BY <1>1, JoinProperties
    <3>3. DOMAIN f \subseteq Path
      BY <1>5 DEF IsTree
    <3> QED
      BY <3>1, <3>2, <3>3
  <2>3. /\ IsTree(m, W)
        /\ DOMAIN m \subseteq DOMAIN S /\ \A x \in DOMAIN m : m[x] = S[x]
        /\ \A x \in DOMAIN m : \A y \in DOMAIN S : AtOrUnder(y, x) => y \in DOMAIN m
    BY <2>2, PartsProperties
  <2> HIDE DEF g, S
  <2>4. /\ DOMAIN m \subseteq {x \in DOMAIN f : AtOrUnder(r, x)} /\ \A x \in DOMAIN m : m[x] = f[x]
        /\ \A x \in DOMAIN m : \A y \in DOMAIN f : AtOrUnder(y, x) /\ AtOrUnder(r, y) => y \in DOMAIN m
    BY <2>2, <2>3
  <2>5. \A x \in DOMAIN m : \A y \in DOMAIN g \ DOMAIN m : AtOrUnder(y, x) => g[y].kind = "dir"
    BY <1>5, <2>1, <2>4 DEF IsTree
  <2>6. \A x \in DOMAIN g \ DOMAIN m : \A y \in DOMAIN m : AtOrUnder(y, x) => m[y].kind = "dir"
    BY <1>5, <2>1, <2>4 DEF IsTree
  <2>7. /\ DOMAIN h = DOMAIN m \cup DOMAIN g
        /\ \A x \in DOMAIN m : h[x] = m[x]
        /\ \A x \in DOMAIN g \ DOMAIN m : h[x] = g[x]
        /\ IsTree(h, W)
    <3>1. IsTree(g, W)
      BY <2>1 DEF IsSound
    <3> QED
      BY ONLY <2>3, <2>5, <2>6, <3>1, OverTrees
  <2> HIDE DEF h
  <2>8. \A x \in DOMAIN h : \A y \in Path : AtOrUnder(y, x) => y \in DOMAIN h
    BY <1>5, <2>1, <2>4, <2>7 DEF IsRooted, IsSound
  <2>9. Is(h, <<>>, "dir")
    BY <2>1, <2>4, <2>7 DEF IsRooted, IsSound, Is
  <2> QED
    BY <1>5, <2>7, <2>8, <2>9 DEF IsSound, IsRooted, h, g
<1>7. r # <<>> => IsSound(Without(f, r), W)
  BY <1>1, WithoutProperties
<1>8. \A g \in rmCut(f, p) : IsSound(g, W)
  BY <1>3, <1>6
<1> QED
  BY <1>4, <1>7, <1>8

\* A subtree put in another place, where a file or an empty directory may be.
LEMMA MoveProperties ==
  ASSUME NEW W, NEW f, IsSound(f, W), NEW src \in DOMAIN f, NEW new \in Path,
         ~AtOrUnder(src, new), new # <<>>, Is(f, Above(new), "dir"),
         \A x \in DOMAIN f : AtOrUnder(new, x) => x = new
  PROVE  LET g == Over(Subtree(f, src, new), Without(f, src))
         IN  /\ IsSound(g, W)
             /\ src \in Path /\ src # <<>> /\ new \in DOMAIN g /\ g[new] = f[src]
             /\ \A y : y \in DOMAIN g <=>
                    \/ y \in Path /\ AtOrUnder(new, y) /\ src \o From(new, y) \in DOMAIN f
                    \/ y \in DOMAIN f /\ ~AtOrUnder(src, y)
             /\ \A y \in DOMAIN g : AtOrUnder(new, y) =>
                    src \o From(new, y) \in DOMAIN f /\ g[y] = f[src \o From(new, y)]
             /\ \A y \in DOMAIN g : ~AtOrUnder(new, y) =>
                    y \in DOMAIN f /\ ~AtOrUnder(src, y) /\ g[y] = f[y]
<1> DEFINE m == Subtree(f, src, new)
           k == Without(f, src)
           g == Over(m, k)
<1>1. IsTree(f, W) /\ IsRooted(f) /\ IsWorld(W) /\ DOMAIN f \subseteq Path /\ src \in Path
  BY DEF IsSound, IsTree
<1>2. src # <<>>
  BY UnderProperties
<1>3. /\ \A y : y \in DOMAIN m <=>
              y \in Path /\ AtOrUnder(new, y) /\ src \o From(new, y) \in DOMAIN f
      /\ \A y \in DOMAIN m : m[y] = f[src \o From(new, y)]
      /\ IsTree(m, W)
  BY <1>1, SubtreeProperties
<1>4. /\ DOMAIN k = {x \in DOMAIN f : ~AtOrUnder(src, x)}
      /\ \A x \in DOMAIN k : k[x] = f[x]
      /\ IsTree(k, W) /\ IsRooted(k)
  BY <1>1, <1>2, WithoutProperties DEF IsSound
<1>5. /\ AtOrUnder(new, new) /\ src \o From(new, new) = src
  <2>1. <<>> \in Path /\ AtOrUnder(new, new)
    BY UnderProperties
  <2>2. /\ AtOrUnder(src, src)
        /\ new \o <<>> = new /\ src \o <<>> = src
    BY <1>1, <2>1, UnderProperties, ConcatEmptySeq DEF Path
  <2>3. From(new, new \o <<>>) = <<>>
    BY <2>1, JoinProperties
  <2> QED
    BY <2>1, <2>2, <2>3
<1>6. /\ Above(new) \in DOMAIN f /\ f[Above(new)].kind = "dir" /\ Above(new) \in Path
      /\ \A x \in Path : AtOrUnder(x, new) /\ x # new => AtOrUnder(x, Above(new))
  BY AboveIsUnder DEF Is
<1>7. \A x \in Path : AtOrUnder(x, new) /\ x # new =>
            x \in DOMAIN f /\ f[x].kind = "dir" /\ ~AtOrUnder(src, x)
  <2>1. \A x \in Path : AtOrUnder(x, new) => ~AtOrUnder(src, x)
    BY <1>1, UnderProperties
  <2> QED
    BY <1>1, <1>6, <2>1 DEF IsTree, IsRooted
<1>8. \A y \in DOMAIN k \ DOMAIN m : ~AtOrUnder(new, y)
  BY <1>1, <1>3, <1>4, <1>5
<1> HIDE DEF m, k
<1>9. ASSUME NEW x \in DOMAIN m, NEW y \in DOMAIN k \ DOMAIN m, AtOrUnder(y, x)
      PROVE  k[y].kind = "dir"
  <2>1. x \in Path /\ y \in Path /\ AtOrUnder(new, x) /\ ~AtOrUnder(new, y)
    BY <1>1, <1>3, <1>4, <1>8
  <2>2. AtOrUnder(y, new) /\ y # new
    BY <1>9, <2>1, UnderProperties
  <2> QED
    BY <1>4, <1>7, <2>1, <2>2
<1>10. ASSUME NEW x \in DOMAIN k \ DOMAIN m, NEW y \in DOMAIN m, AtOrUnder(y, x)
       PROVE  m[y].kind = "dir"
  <2>1. x \in Path /\ y \in Path /\ AtOrUnder(new, y) /\ ~AtOrUnder(new, x)
    BY <1>1, <1>3, <1>4, <1>8
  <2> QED
    BY <1>10, <2>1, UnderProperties
<1>11. /\ DOMAIN g = DOMAIN m \cup DOMAIN k
       /\ \A x \in DOMAIN m : g[x] = m[x]
       /\ \A x \in DOMAIN k \ DOMAIN m : g[x] = k[x]
       /\ IsTree(g, W)
  BY ONLY <1>3, <1>4, <1>9, <1>10, OverTrees
<1> HIDE DEF g
<1>12. ASSUME NEW x \in DOMAIN g, NEW y \in Path, AtOrUnder(y, x)
       PROVE  y \in DOMAIN g
  <2>1. CASE x \in DOMAIN k
    BY <1>4, <1>11, <1>12, <2>1 DEF IsRooted
  <2>2. CASE x \in DOMAIN m
    <3>1. x \in Path /\ AtOrUnder(new, x) /\ src \o From(new, x) \in DOMAIN f
      BY <1>3, <2>2
    <3>2. AtOrUnder(y, new) \/ AtOrUnder(new, y)
      BY <1>12, <3>1, UnderProperties
    <3>3. CASE AtOrUnder(y, new) /\ y # new
      BY <1>4, <1>7, <1>11, <3>3
    <3>4. CASE AtOrUnder(new, y)
      <4>1. /\ From(new, x) \in Path /\ From(new, y) \in Path
            /\ new \o From(new, x) = x /\ new \o From(new, y) = y
        BY <3>1, <3>4, JoinProperties
      <4>2. AtOrUnder(From(new, y), From(new, x))
        <5>1. ASSUME NEW a \in Path, NEW b \in Path, AtOrUnder(new \o a, new \o b)
              PROVE  AtOrUnder(a, b)
          BY <5>1, JoinProperties
        <5> QED
          BY <1>12, <4>1, <5>1
      <4>3. /\ src \o From(new, y) \in Path
            /\ AtOrUnder(src \o From(new, y), src \o From(new, x))
        BY <1>1, <4>1, <4>2, JoinProperties
      <4>4. src \o From(new, y) \in DOMAIN f
        BY <1>1, <3>1, <4>3 DEF IsRooted
      <4> QED
        BY <1>3, <1>11, <3>4, <4>4
    <3>5. y # new \/ AtOrUnder(new, y)
      BY <1>5
    <3> QED
      BY <3>2, <3>3, <3>4, <3>5
  <2> QED
    BY <1>11, <2>1, <2>2
<1>13. ~AtOrUnder(new, <<>>)
  BY UnderProperties
<1>14. Is(g, <<>>, "dir")
  BY <1>3, <1>4, <1>11, <1>13 DEF IsRooted, Is
<1>15. IsSound(g, W)
  BY <1>1, <1>11, <1>12, <1>14 DEF IsSound, IsRooted
<1>16. new \in DOMAIN g /\ g[new] = f[src]
  BY <1>3, <1>5, <1>11
<1>17. \A y : y \in DOMAIN g <=>
           \/ y \in Path /\ AtOrUnder(new, y) /\ src \o From(new, y) \in DOMAIN f
           \/ y \in DOMAIN f /\ ~AtOrUnder(src, y)
  BY <1>3, <1>4, <1>11
<1>18. \A y \in DOMAIN g : AtOrUnder(new, y) =>
           src \o From(new, y) \in DOMAIN f /\ g[y] = f[src \o From(new, y)]
  BY <1>3, <1>8, <1>11
<1>19. \A y \in DOMAIN g : ~AtOrUnder(new, y) =>
           y \in DOMAIN f /\ ~AtOrUnder(src, y) /\ g[y] = f[y]
  BY <1>3, <1>4, <1>11
<1> QED
  BY <1>1, <1>2, <1>15, <1>16, <1>17, <1>18, <1>19 DEF g, m, k

LEMMA mvIsSound ==
  ASSUME NEW W, NEW f, IsSound(f, W), NEW p \in Path, NEW q \in Path
  PROVE  \A o \in mv(f, p, q) : IsSound(o.fs, W)
<1> DEFINE src == validate_path(f, p)
           dst == validate_path(f, q)
           new == Landing(f, src, dst)
           g   == Over(Subtree(f, src, new), Without(f, src))
<1>1. src \in Path /\ dst \in Path
  BY LinksOfATree DEF IsSound
<1>2. new \in Path /\ new # <<>>
  BY <1>1, LandingProperties
<1>3. \A h, x : Raises(h).fs = h /\ file_to_model(h, x).fs = h
  BY AnswerProperties
<1>4. ASSUME NEW o \in mv(f, p, q)
      PROVE  \/ o.fs = f
             \/ /\ o.fs = g
                /\ src \in DOMAIN f /\ ~AtOrUnder(src, new) /\ Is(f, Above(new), "dir")
                /\ new \in DOMAIN f => \A x \in DOMAIN f : AtOrUnder(new, x) => x = new
  BY <1>3, <1>4 DEF mv
<1> HIDE DEF src, dst, new
<1>5. ASSUME src \in DOMAIN f, ~AtOrUnder(src, new), Is(f, Above(new), "dir"),
             new \in DOMAIN f => \A x \in DOMAIN f : AtOrUnder(new, x) => x = new
      PROVE  IsSound(g, W)
  <2>1. \A x \in DOMAIN f : AtOrUnder(new, x) => x = new
    BY <1>2, <1>5 DEF IsSound, IsRooted
  <2> QED
    BY <1>2, <1>5, <2>1, MoveProperties
<1> HIDE DEF g
<1> QED
  BY <1>4, <1>5

\* A sound tree, with the archives in it whatever they are.
IsWellFormed(f) == \E W : IsSound(f, W)

\* An archive of a tree.
LEMMA ArchiveIsSound ==
  ASSUME NEW W, NEW f, IsSound(f, W), NEW p \in Path, NEW m, IsTree(m, W), HasTop(m), NEW z
  PROVE  IsWellFormed(Write(f, p, Archive(z, m)).fs) /\ IsWellFormed(Write(f, p, Rest(m)).fs)
<1> DEFINE V == W \cup {m}
<1>1. IsSound(f, V)
  BY WorldGrows DEF IsSound
<1>2. \A y : Archive(y, m).members \in V
  BY DEF Archive
<1> HIDE DEF V
<1>3. \A y : IsSound(Write(f, p, Archive(y, m)).fs, V)
  BY <1>1, <1>2, WriteIsSound
<1> QED
  BY <1>3 DEF IsWellFormed, Rest

LEMMA cpIsSound ==
  ASSUME NEW W, NEW f, IsSound(f, W), NEW p \in Path, NEW q \in Path
  PROVE  /\ \A o \in cp(f, p, q) : IsSound(o.fs, W)
         /\ \A g \in cpCut(f, p, q) : IsWellFormed(g)
<1> DEFINE src  == validate_path(f, p)
           dst  == validate_path(f, q)
           new  == Landing(f, src, dst)
           copy == Write(f, new, Content(f, src))
<1>1. src \in Path /\ dst \in Path
  BY LinksOfATree DEF IsSound
<1>2. new \in Path
  BY <1>1, LandingProperties
<1>3. \A g, x : Raises(g).fs = g /\ ~Raises(g).ok /\ file_to_model(g, x).fs = g
  BY AnswerProperties
<1>4. ASSUME NEW o \in cp(f, p, q)
      PROVE  \/ o.fs = f /\ ~o.ok
             \/ Stat(f, src) = "file" /\ copy.ok /\ o.fs = copy.fs
  BY <1>3, <1>4 DEF cp
<1>5. \A g \in cpCut(f, p, q) : \E o \in cp(f, p, q) :
         o.ok /\ \E b \in CutShort(Content(o.fs, new)) : g = Write(f, new, b).fs
  BY DEF cpCut
<1> HIDE DEF src, dst, new
<1>6. Stat(f, src) = "file" => Content(f, src).members \in W
  BY <1>1, StatProperties DEF IsSound
<1>7. \A o \in cp(f, p, q) : IsSound(o.fs, W)
  <2>1. Stat(f, src) = "file" => IsSound(copy.fs, W)
    BY <1>2, <1>6, WriteIsSound
  <2> HIDE DEF copy
  <2> QED
    BY <1>4, <2>1
<1>8. ASSUME NEW g \in cpCut(f, p, q)
      PROVE  IsWellFormed(g)
  <2>0. PICK o \in cp(f, p, q) :
           o.ok /\ \E b \in CutShort(Content(o.fs, new)) : g = Write(f, new, b).fs
    BY <1>5
  <2>1. PICK b \in CutShort(Content(o.fs, new)) : g = Write(f, new, b).fs
    BY <2>0
  <2>2. Stat(f, src) = "file" /\ copy.ok /\ o.fs = copy.fs
    BY <1>4, <2>0
  <2> DEFINE c == Content(f, src)
             r == validate_path(f, new)
             h == Put(f, r, File(c))
  <2>3. c.members \in W
    BY <1>6, <2>2
  <2>4. h[r] = File(c) /\ LinksOf(h) = LinksOf(f) /\ copy.fs = h
    <3>1. Writable(f, new)
      BY <2>2, WriteIsOpen
    <3>2. copy.fs = h
      BY <3>1, WriteIsOpen
    <3>3. LinksOf(h) = LinksOf(f)
      BY <3>1, WriteKeepsLinks
    <3>4. h[r] = File(c)
      BY DEF Put
    <3> QED
      BY <3>2, <3>3, <3>4
  <2> HIDE DEF h, c
  <2>5. Content(h, new) = File(c).body
    BY <2>4 DEF Content, validate_path
  <2>6. b \in CutShort(c)
    BY <2>1, <2>2, <2>4, <2>5 DEF File
  <2>7. PICK m \in Parts(c.members) : b = Rest(m)
    BY <2>6 DEF CutShort
  <2>8. IsTree(m, W)
    BY <2>3, <2>7, PartsProperties DEF IsSound, IsWorld
  <2>9. HasTop(m)
    BY <2>3, <2>7, PartsHaveTop DEF IsSound, IsWorld
  <2> QED
    BY <1>2, <2>1, <2>7, <2>8, <2>9, ArchiveIsSound
<1> QED
  BY <1>7, <1>8

\* A tree that is packed under its own names.
LEMMA PackedHasTop ==
  ASSUME NEW W, NEW f, IsSound(f, W), NEW s \in Path
  PROVE  HasTop(Subtree(f, s, s))
<1> DEFINE m == Subtree(f, s, s)
<1>1. \A y \in DOMAIN m : y \in Path /\ AtOrUnder(s, y) /\ m[y] = f[s \o From(s, y)]
  BY SubtreeProperties DEF IsSound
<1>2. Is(f, <<>>, "dir")
  BY DEF IsSound, IsRooted
<1> HIDE DEF m
<1>3. ASSUME <<>> \in DOMAIN m PROVE m[<<>>].kind = "dir"
  <2>1. <<>> \in Path /\ AtOrUnder(s, <<>>)
    BY <1>1, <1>3
  <2>2. s \o From(s, <<>>) = <<>>
    BY <2>1, JoinProperties
  <2> QED
    BY <1>1, <1>2, <1>3, <2>2 DEF Is
<1> QED
  BY <1>3 DEF HasTop, m

\* What tar packs.
LEMMA ArchivedTrees ==
  ASSUME NEW W, NEW f, IsSound(f, W), NEW src \in Path, NEW dst \in Path,
         NEW m \in Archived(f, src, dst)
  PROVE  IsTree(m, W) /\ HasTop(m)
<1> DEFINE all     == Subtree(f, src, src)
           g       == Write(f, dst, Junk).fs
           writing == Subtree(g, src, src)
<1>1. m = all \/ m = Without(all, dst) \/ m = writing
  BY DEF Archived
<1>2. IsTree(all, W)
  BY SubtreeProperties DEF IsSound
<1>3. IsSound(g, W)
  BY NewNodes, WriteIsSound DEF IsSound
<1> HIDE DEF g
<1>4. IsTree(writing, W)
  BY <1>3, SubtreeProperties DEF IsSound
<1>6. HasTop(all) /\ HasTop(writing)
  BY <1>3, PackedHasTop
<1> HIDE DEF all
<1>7. HasTop(Without(all, dst))
  BY <1>6 DEF HasTop, Without, Restrict
<1>5. IsTree(Without(all, dst), W)
  <2> DEFINE S == {x \in DOMAIN all : ~AtOrUnder(dst, x)}
  <2>1. S \in SUBSET DOMAIN all /\ Without(all, dst) = Restrict(all, S)
    BY DEF Without
  <2> HIDE DEF S
  <2> QED
    BY <1>2, <2>1, RestrictedTree
<1> QED
  BY <1>1, <1>2, <1>4, <1>5, <1>6, <1>7

LEMMA compressIsSound ==
  ASSUME NEW W, NEW f, IsSound(f, W), NEW p \in Path, NEW q \in Path
  PROVE  /\ \A z : \A o \in compress(f, p, q, z) : IsWellFormed(o.fs)
         /\ \A g \in compressCut(f, p, q) : IsWellFormed(g)
<1> DEFINE src == validate_path(f, p)
           dst == validate_path(f, q)
<1>1. src \in Path /\ dst \in Path
  BY LinksOfATree DEF IsSound
<1>2. \A g, x : Raises(g).fs = g /\ file_to_model(g, x).fs = g
  BY AnswerProperties
<1>3. ASSUME NEW z, NEW o \in compress(f, p, q, z)
      PROVE  \/ o.fs = f
             \/ o.fs = Write(f, dst, Archive(z, NoMembers)).fs
             \/ \E m \in Archived(f, src, dst) : o.fs = Write(f, dst, Archive(z, m)).fs
  BY <1>2, <1>3 DEF compress
<1>4. ASSUME NEW g \in compressCut(f, p, q)
      PROVE  \/ g = Write(f, dst, Rest(NoMembers)).fs
             \/ \E all \in Archived(f, src, dst) : \E m \in Parts(all) : g = Write(f, dst, Rest(m)).fs
  BY <1>4 DEF compressCut
<1> HIDE DEF src, dst
<1>5. \A all \in Archived(f, src, dst) :
         /\ IsTree(all, W) /\ HasTop(all)
         /\ \A m \in Parts(all) : IsTree(m, W) /\ HasTop(m)
  <2>1. \A all \in Archived(f, src, dst) : IsTree(all, W) /\ HasTop(all)
    BY <1>1, ArchivedTrees
  <2> QED
    BY <2>1, PartsProperties, PartsHaveTop
<1>6. IsTree(NoMembers, W) /\ HasTop(NoMembers)
  BY DEF IsSound, IsWorld
<1>7. \A m, z : IsTree(m, W) /\ HasTop(m) => /\ IsWellFormed(Write(f, dst, Archive(z, m)).fs)
                                /\ IsWellFormed(Write(f, dst, Rest(m)).fs)
  BY <1>1, ArchiveIsSound
<1>8. IsWellFormed(f)
  BY DEF IsWellFormed
<1>9. \A z : \A o \in compress(f, p, q, z) : IsWellFormed(o.fs)
  BY <1>3, <1>5, <1>6, <1>7, <1>8
<1>10. \A g \in compressCut(f, p, q) : IsWellFormed(g)
  BY <1>4, <1>5, <1>6, <1>7
<1> QED
  BY <1>9, <1>10

\* The members of an archive, below a directory that is made for them.
LEMMA ExtractedProperties ==
  ASSUME NEW W, NEW f, IsSound(f, W), NEW m, IsTree(m, W), NEW dst \in Path,
         dst \notin DOMAIN f, Creatable(f, dst)
  PROVE  /\ IsSound(Over(Extracted(m, dst), WithDirs(f, dst)), W)
         /\ \A x \in DOMAIN m : /\ dst \o x \in DOMAIN Over(Extracted(m, dst), WithDirs(f, dst))
                                /\ Over(Extracted(m, dst), WithDirs(f, dst))[dst \o x] = m[x]
         /\ \A y \in Path : AtOrUnder(dst, y) /\ y # dst
                            /\ y \in DOMAIN Over(Extracted(m, dst), WithDirs(f, dst)) =>
              \E x \in DOMAIN m : AtOrUnder(y, dst \o x)
         /\ \A y \in DOMAIN f : /\ y \in DOMAIN Over(Extracted(m, dst), WithDirs(f, dst))
                                /\ Over(Extracted(m, dst), WithDirs(f, dst))[y] = f[y]
<1> DEFINE e == Extracted(m, dst)
           k == WithDirs(f, dst)
           g == Over(e, k)
           D == UNION {Ancestors(dst \o x) : x \in DOMAIN m}
           In(y) == AtOrUnder(dst, y) /\ From(dst, y) \in DOMAIN m
<1>1. IsTree(f, W) /\ IsRooted(f) /\ IsWorld(W) /\ DOMAIN f \subseteq Path /\ DOMAIN m \subseteq Path
  BY DEF IsSound, IsTree
<1>2. e = [y \in D |-> IF In(y) THEN m[From(dst, y)] ELSE Dir]
  BY DEF Extracted
<1>3. e = [y \in DOMAIN e |-> e[y]] /\ DOMAIN e = D /\ \A y \in D : e[y] = IF In(y) THEN m[From(dst, y)] ELSE Dir
  BY <1>2
<1>4. \A x \in DOMAIN m : /\ dst \o x \in Path
                          /\ Ancestors(dst \o x) \subseteq Path
                          /\ IsFiniteSet(Ancestors(dst \o x))
                          /\ dst \o x \in Ancestors(dst \o x)
                          /\ dst \in Ancestors(dst \o x)
                          /\ From(dst, dst \o x) = x
  BY <1>1, JoinProperties, AncestorsProperties, UnderProperties
<1>5. D \subseteq Path
  BY <1>4
<1>6. IsFiniteSet(D)
  <2> DEFINE above == [x \in DOMAIN m |-> Ancestors(dst \o x)]
  <2>1. IsFiniteSet(DOMAIN m)
    BY DEF IsTree
  <2>2. IsFiniteSet({above[x] : x \in DOMAIN m})
    <3> HIDE DEF above
    <3> QED
      BY <2>1, FiniteImage
  <2>3. \A A \in {above[x] : x \in DOMAIN m} : IsFiniteSet(A)
    BY <1>4
  <2>4. D = UNION {above[x] : x \in DOMAIN m}
    OBVIOUS
  <2> HIDE DEF above, D
  <2> QED
    BY <2>2, <2>3, <2>4, FS_UNION
<1>7. \A y : y \in D <=> y \in Path /\ \E x \in DOMAIN m : AtOrUnder(y, dst \o x)
  BY <1>4, UnderProperties
<1>8. \A x \in DOMAIN m : dst \o x \in D /\ e[dst \o x] = m[x] /\ In(dst \o x)
  <2>1. \A x \in DOMAIN m : dst \o x \in D /\ In(dst \o x) /\ From(dst, dst \o x) = x
    BY <1>1, <1>4, JoinProperties
  <2> QED
    BY <1>3, <2>1
<1>9. \A y \in D : In(y) => y = dst \o From(dst, y) /\ e[y] = m[From(dst, y)]
  BY <1>3, <1>5, JoinProperties
<1>10. \A y \in D : ~In(y) => e[y] = Dir
  BY <1>3
<1> HIDE DEF D, e
<1>11. ASSUME NEW x \in D, NEW y \in D, AtOrUnder(y, x), y # x
       PROVE  e[y].kind = "dir"
  <2>1. CASE ~In(y)
    BY <1>1, <1>10, <2>1, NewNodes
  <2>2. CASE In(y)
    <3>1. PICK z \in DOMAIN m : AtOrUnder(x, dst \o z)
      BY <1>7
    <3> DEFINE b == From(dst, y)
    <3>2. b \in DOMAIN m /\ b \in Path /\ z \in Path /\ y = dst \o b /\ e[y] = m[b]
      BY <1>1, <1>9, <2>2
    <3>3. x \in Path /\ y \in Path /\ dst \o z \in Path
      BY <1>4, <1>5
    <3>4. AtOrUnder(y, dst \o z) /\ y # dst \o z
      BY <1>11, <3>1, <3>3, UnderProperties
    <3> HIDE DEF b
    <3>5. AtOrUnder(b, z) /\ b # z
      BY <3>2, <3>4, JoinProperties
    <3> QED
      BY <3>2, <3>5 DEF IsTree
  <2> QED
    BY <2>1, <2>2
<1>12. IsTree(e, W)
  <2>1. \A y \in D : IsNode(e[y], W)
    BY <1>1, <1>9, <1>10, NewNodes DEF IsTree
  <2> QED
    BY <1>3, <1>5, <1>6, <1>11, <2>1 DEF IsTree
<1>13. /\ DOMAIN k = DOMAIN f \cup Ancestors(dst)
       /\ \A x \in Ancestors(dst) : k[x] = Dir
       /\ \A x \in DOMAIN f : k[x] = f[x]
       /\ IsSound(k, W)
  BY SoundWithDirs
<1> HIDE DEF k
<1>14. \A y \in DOMAIN f : ~AtOrUnder(dst, y)
  BY <1>1 DEF IsRooted
<1>15. /\ Ancestors(dst) \subseteq Path
       /\ \A y \in Path : y \in Ancestors(dst) <=> AtOrUnder(y, dst)
  BY AncestorsProperties, UnderProperties
<1>16. ASSUME NEW x \in DOMAIN k, NEW y \in D, AtOrUnder(y, x), x \notin D \/ y # x
       PROVE  e[y] = Dir
  <2>1. x \in Path /\ y \in Path
    BY <1>1, <1>5, <1>13, <1>15
  <2>2. CASE AtOrUnder(dst, y)
    <3>1. AtOrUnder(dst, x)
      BY <1>16, <2>1, <2>2, UnderProperties
    <3>2. x = dst
      BY <1>13, <1>14, <1>15, <2>1, <3>1, UnderProperties
    <3>3. y = x
      BY <1>16, <2>1, <2>2, <3>2, UnderProperties
    <3> QED
      BY <1>16, <3>3
  <2>3. CASE ~AtOrUnder(dst, y)
    BY <1>10, <2>3
  <2> QED
    BY <2>2, <2>3
<1>17. \A x \in D : \A y \in Path : AtOrUnder(y, x) => y \in D
  BY <1>4, <1>5, <1>7, UnderProperties
<1>18. IsNode(Dir, W) /\ Dir.kind = "dir"
  BY <1>1, NewNodes
<1>19. /\ DOMAIN g = DOMAIN e \cup DOMAIN k
       /\ \A x \in DOMAIN e : g[x] = e[x]
       /\ \A x \in DOMAIN k \ DOMAIN e : g[x] = k[x]
       /\ IsTree(g, W)
  <2>1. \A x \in DOMAIN e : \A y \in DOMAIN k \ DOMAIN e : AtOrUnder(y, x) => k[y].kind = "dir"
    BY <1>1, <1>3, <1>13, <1>15, <1>17
  <2>2. \A x \in DOMAIN k \ DOMAIN e : \A y \in DOMAIN e : AtOrUnder(y, x) => e[y].kind = "dir"
    BY <1>3, <1>16, <1>18
  <2>3. IsTree(k, W)
    BY <1>13 DEF IsSound
  <2> QED
    BY ONLY <1>12, <2>1, <2>2, <2>3, OverTrees
<1> HIDE DEF g
<1>20. \A x \in DOMAIN g : \A y \in Path : AtOrUnder(y, x) => y \in DOMAIN g
  BY <1>3, <1>13, <1>17, <1>19 DEF IsSound, IsRooted
<1>21. ASSUME NEW y \in DOMAIN f
       PROVE  y \in DOMAIN g /\ g[y] = f[y]
  <2>1. CASE y \in D
    <3>1. e[y] = Dir
      BY <1>10, <1>14, <2>1
    <3>2. PICK z \in DOMAIN m : AtOrUnder(y, dst \o z)
      BY <1>7, <2>1
    <3>3. AtOrUnder(y, dst)
      BY <1>1, <1>4, <1>14, <3>2, JoinProperties, UnderProperties
    <3>4. f[y] = Dir
      BY <1>1, <1>13, <1>15, <3>3
    <3> QED
      BY <1>3, <1>19, <2>1, <3>1, <3>4
  <2>2. CASE y \notin D
    BY <1>3, <1>13, <1>19, <2>2
  <2> QED
    BY <2>1, <2>2
<1>22. IsSound(g, W)
  <2>1. Is(g, <<>>, "dir")
    BY <1>1, <1>21 DEF IsRooted, Is
  <2> QED
    BY <1>1, <1>19, <1>20, <2>1 DEF IsSound, IsRooted
<1>23. ASSUME NEW y \in Path, AtOrUnder(dst, y), y # dst, y \in DOMAIN g
       PROVE  \E x \in DOMAIN m : AtOrUnder(y, dst \o x)
  <2>1. y \notin DOMAIN k
    BY <1>13, <1>14, <1>15, <1>23, UnderProperties
  <2> QED
    BY <1>3, <1>7, <1>19, <1>23, <2>1
<1>24. \A x \in DOMAIN m : dst \o x \in DOMAIN g /\ g[dst \o x] = m[x]
  BY <1>3, <1>8, <1>19
<1> QED
  BY <1>21, <1>22, <1>23, <1>24 DEF g, e, k

\* Members whose content is not there yet.
LEMMA TornProperties ==
  ASSUME NEW W, IsWorld(W), NEW m, IsTree(m, W)
  PROVE  /\ \A S : (\A x \in S \cap DOMAIN m : m[x].kind # "dir") => IsTree(Blank(m, S), W)
         /\ \A n \in Torn(m) : IsTree(n, W)
<1>1. ASSUME NEW S, \A x \in S \cap DOMAIN m : m[x].kind # "dir"
      PROVE  IsTree(Blank(m, S), W)
  <2> DEFINE n == Blank(m, S)
  <2>1. /\ n = [x \in DOMAIN n |-> n[x]] /\ DOMAIN n = DOMAIN m
        /\ \A x \in DOMAIN m \cap S : n[x] = File(Junk)
        /\ \A x \in DOMAIN m \ S : n[x] = m[x]
    BY DEF Blank
  <2> HIDE DEF n
  <2>2. IsNode(File(Junk), W)
    BY NewNodes
  <2>3. \A x \in DOMAIN n : IsNode(n[x], W)
    BY <2>1, <2>2 DEF IsTree
  <2>4. \A x, y \in DOMAIN n : AtOrUnder(y, x) /\ y # x => n[y].kind = "dir"
    BY <1>1, <2>1 DEF IsTree
  <2>5. IsTree(n, W)
    BY <2>1, <2>3, <2>4 DEF IsTree
  <2> QED
    BY <2>5 DEF n
<1>2. \A n \in Torn(m) : n = m \/ \E x \in DOMAIN m : m[x].kind = "file" /\ n = Blank(m, {x})
  BY DEF Torn
<1> QED
  BY <1>1, <1>2

\* Where extract makes a directory, there is nothing.
LEMMA FreeTarget ==
  ASSUME NEW W, NEW f, IsSound(f, W), NEW dst \in Path,
         Stat(f, dst) \notin {"dir", "file"}, Creatable(f, dst)
  PROVE  dst \notin DOMAIN f
<1> SUFFICES ASSUME dst \in DOMAIN f
             PROVE  FALSE
  OBVIOUS
<1>1. IsTree(f, W) /\ DOMAIN f \subseteq Path
  BY DEF IsSound, IsTree
<1>2. \A x \in DOMAIN f : AtOrUnder(x, dst) => f[x].kind = "dir"
  BY <1>1, UnderProperties DEF Creatable
<1>3. validate_path(f, dst) = dst
  BY <1>1, <1>2, LinksOfATree
<1>4. f[dst].kind = "dir"
  BY <1>1, <1>2, UnderProperties
<1>5. Stat(f, dst) # "loop"
  BY <1>1, <1>2, <1>3, StatProperties
<1>6. Stat(f, dst) = IF dst \in DOMAIN f THEN f[dst].kind ELSE "missing"
  BY <1>1, <1>3, <1>5, StatProperties
<1> QED
  BY <1>4, <1>6

LEMMA extractIsSound ==
  ASSUME NEW W, NEW f, IsSound(f, W), NEW p \in Path, NEW q \in Path
  PROVE  /\ \A z : \A o \in extract(f, p, q, z) : IsSound(o.fs, W)
         /\ \A g \in extractCut(f, p, q) : IsSound(g, W)
<1> DEFINE src     == validate_path(f, p)
           dst     == validate_path(f, q)
           k       == WithDirs(f, dst)
           members == Content(f, src).members
           Open    == Stat(f, dst) \notin {"dir", "file"} /\ Creatable(f, dst)
           Unpacked(m) == Over(Extracted(m, dst), k)
           Links(m)    == {x \in DOMAIN m : m[x].kind = "link"}
<1>1. src \in Path /\ dst \in Path
  BY LinksOfATree DEF IsSound
<1>2. IsWorld(W) /\ IsTree(f, W) /\ DOMAIN f \subseteq Path
  BY DEF IsSound, IsTree
<1>3. \A g, x : Raises(g).fs = g /\ file_to_model(g, x).fs = g
  BY AnswerProperties
<1>4. ASSUME NEW z, NEW o \in extract(f, p, q, z)
      PROVE  \/ o.fs = f
             \/ /\ Open
                /\ \/ o.fs = k
                   \/ /\ Stat(f, src) = "file"
                      /\ o.fs = Unpacked(members) \/ \E m \in Torn(members) : o.fs = Unpacked(m)
  BY <1>3, <1>4 DEF extract
<1>5. ASSUME NEW g \in extractCut(f, p, q)
      PROVE  \/ g = f
             \/ /\ Open
                /\ \/ \E x \in Ancestors(dst) : g = WithDirs(f, x)
                   \/ \E n \in Parts(IF Stat(f, src) = "file" THEN members ELSE NoMembers) :
                        \/ \E m \in Torn(n) : g = Unpacked(m)
                        \/ \E S \in SUBSET Links(n) : g = Unpacked(Blank(n, S))
  BY <1>5 DEF extractCut
<1>6. Open => dst \notin DOMAIN f
  <2> HIDE DEF dst
  <2> QED
    BY <1>1, FreeTarget
<1>7. Open => Creatable(f, dst)
  OBVIOUS
<1>8. Stat(f, src) = "file" => IsTree(members, W)
  BY <1>1, <1>2, StatProperties DEF IsWorld
<1>9. IsTree(NoMembers, W)
  BY <1>2 DEF IsWorld
<1> HIDE DEF src, dst, members, Open, Unpacked
<1>10. Open => IsSound(k, W) /\ \A x \in Ancestors(dst) : IsSound(WithDirs(f, x), W)
  <2>1. ASSUME Open, NEW x \in Ancestors(dst)
        PROVE  IsSound(WithDirs(f, x), W)
    <3>1. x \in Path /\ \A y \in Ancestors(x) : y \in Path /\ y \in Ancestors(dst)
      <4>1. x \in Path
        BY <1>1, AncestorsProperties
      <4> QED
        BY <1>1, <4>1, AncestorsProperties, AncestorsAreOrdered
    <3>2. Creatable(f, x)
      BY <1>7, <2>1, <3>1 DEF Creatable
    <3> QED
      BY <3>1, <3>2, SoundWithDirs
  <2> QED
    BY <1>1, <1>7, <2>1, SoundWithDirs
<1>11. \A m : Open /\ IsTree(m, W) => IsSound(Unpacked(m), W)
  BY <1>1, <1>6, <1>7, ExtractedProperties DEF Unpacked
<1>12. \A m : IsTree(m, W) => \A n \in Torn(m) : IsTree(n, W)
  BY <1>2, TornProperties
<1>13. \A z : \A o \in extract(f, p, q, z) : IsSound(o.fs, W)
  BY <1>4, <1>8, <1>10, <1>11, <1>12
<1>14. ASSUME NEW g \in extractCut(f, p, q)
       PROVE  IsSound(g, W)
  <2>1. \A n \in Parts(IF Stat(f, src) = "file" THEN members ELSE NoMembers) : IsTree(n, W)
    BY <1>8, <1>9, PartsProperties
  <2>2. \A n : IsTree(n, W) => \A S \in SUBSET Links(n) : IsTree(Blank(n, S), W)
    BY <1>2, TornProperties
  <2> HIDE DEF k, Links
  <2>3. \/ g = f
        \/ Open /\ \E x \in Ancestors(dst) : g = WithDirs(f, x)
        \/ Open /\ \E m : IsTree(m, W) /\ g = Unpacked(m)
    BY <1>5, <1>12, <2>1, <2>2
  <2> QED
    BY <1>10, <1>11, <2>3
<1> QED
  BY <1>13, <1>14

\* The operations that only look leave the tree alone.
LEMMA LookingChangesNothing ==
  ASSUME NEW f, NEW p
  PROVE  /\ chmod(f, p).fs = f /\ ls(f, p).fs = f
         /\ headtail(f, p).fs = f /\ checksum(f, p).fs = f /\ download(f, p).fs = f
         /\ view(f, p).fs = f
         /\ \A b \in BOOLEAN : stat(f, p, b).fs = f
<1>1. \A x : Raises(f).fs = f /\ Answers(f).fs = f /\ file_to_model(f, x).fs = f
  BY AnswerProperties
<1>2. headtail(f, p).fs = f
  <2>1. [Answers(f) EXCEPT !.body = Content(f, p)].fs = f
    BY DEF Answers
  <2> QED
    BY <1>1, <2>1 DEF headtail
<1>3. [headtail(f, p) EXCEPT !.ok = TRUE].fs = f
  <2>1. CASE Stat(f, p) = "file"
    BY <2>1 DEF headtail, Answers
  <2>2. CASE Stat(f, p) # "file"
    BY <2>2 DEF headtail, Raises
  <2> QED
    BY <2>1, <2>2
<1>4. [file_to_model(f, p) EXCEPT !.type = "none"].fs = f
  <2>1. CASE Stat(f, p) \in {"dir", "file"}
    BY <2>1 DEF file_to_model, Answers
  <2>2. CASE Stat(f, p) \notin {"dir", "file"}
    BY <2>2 DEF file_to_model, Raises
  <2> QED
    BY <2>1, <2>2
<1> QED
  BY <1>1, <1>2, <1>3, <1>4 DEF chmod, ls, checksum, download, view, stat

-----------------------------------------------------------------------------
(* The process.                                                            *)

Inv ==
    /\ IsWellFormed(fs)
    /\ ready \in BOOLEAN
    /\ steps \in 0 .. MaxSteps

LEMMA PathsAreKnown ==
  RequestPaths \subseteq Path /\ TestFile \in Path
<1>1. Seq(Names) \subseteq Path
  <2>1. ASSUME NEW s \in Seq(Names)
        PROVE  s \in Seq(Names \cup {SandboxName})
    OBVIOUS
  <2> QED
    BY <2>1 DEF Path
<1> QED
  BY <1>1, PathsAssumption

\* Everything that a request makes of a well-formed tree.
LEMMA OutcomesAreWellFormed ==
  ASSUME NEW f, IsWellFormed(f), NEW p \in RequestPaths, NEW q \in RequestPaths
  PROVE  /\ \A parent \in BOOLEAN : \A o \in mkdir(f, p, parent) : IsWellFormed(o.fs)
         /\ \A o \in symlink(f, p, q) \cup rm(f, p) \cup mv(f, p, q) \cup cp(f, p, q) : IsWellFormed(o.fs)
         /\ \A t : \A o \in upload(f, p, t) : IsWellFormed(o.fs)
         /\ \A z : \A o \in compress(f, p, q, z) \cup extract(f, p, q, z) : IsWellFormed(o.fs)
<1>1. PICK W : IsSound(f, W)
  BY DEF IsWellFormed
<1>2. p \in Path /\ q \in Path
  BY PathsAreKnown
<1>3. \A parent \in BOOLEAN : \A o \in mkdir(f, p, parent) : IsSound(o.fs, W)
  BY <1>1, <1>2, mkdirIsSound
<1>4. \A o \in symlink(f, p, q) \cup rm(f, p) \cup mv(f, p, q) \cup cp(f, p, q) : IsSound(o.fs, W)
  BY <1>1, <1>2, symlinkIsSound, rmIsSound, mvIsSound, cpIsSound
<1>5. ASSUME NEW t, NEW o \in upload(f, p, t)
      PROVE  IsSound(o.fs, W)
  <2>1. o = Write(f, p, Text(t))
    BY <1>5 DEF upload
  <2>2. Text(t).members \in W
    BY <1>1, NewNodes DEF IsSound
  <2>3. IsSound(Write(f, p, Text(t)).fs, W)
    BY <1>1, <1>2, <2>2, WriteIsSound
  <2> QED
    BY <2>1, <2>3
<1>6. \A z : \A o \in compress(f, p, q, z) : IsWellFormed(o.fs)
  BY <1>1, <1>2, compressIsSound
<1>7. \A z : \A o \in extract(f, p, q, z) : IsSound(o.fs, W)
  BY <1>1, <1>2, extractIsSound
<1>8. \A g : IsSound(g, W) => IsWellFormed(g)
  BY DEF IsWellFormed
<1> QED
  BY <1>3, <1>4, <1>5, <1>6, <1>7, <1>8

\* What a request leaves that was cut short.
LEMMA CutsAreWellFormed ==
  ASSUME NEW f, IsWellFormed(f), NEW p \in RequestPaths, NEW q \in RequestPaths, NEW op \in CutChanges
  PROVE  \A g \in Cut(op, f, p, q) : IsWellFormed(g)
<1>1. PICK W : IsSound(f, W)
  BY DEF IsWellFormed
<1>2. p \in Path /\ q \in Path
  BY PathsAreKnown
<1>3. \A g : IsSound(g, W) => IsWellFormed(g)
  BY DEF IsWellFormed
<1>4. \A g \in mkdirCut(f, p) \cup rmCut(f, p) \cup extractCut(f, p, q) : IsWellFormed(g)
  <2>1. /\ \A g \in mkdirCut(f, p) : IsSound(g, W)
        /\ \A g \in rmCut(f, p) : IsSound(g, W)
        /\ \A g \in extractCut(f, p, q) : IsSound(g, W)
    BY <1>1, <1>2, mkdirIsSound, rmIsSound, extractIsSound
  <2> QED
    BY <1>3, <2>1
<1>5. \A g \in cpCut(f, p, q) \cup compressCut(f, p, q) : IsWellFormed(g)
  BY <1>1, <1>2, cpIsSound, compressIsSound
<1>6. \A g \in uploadCut(f, p) : IsWellFormed(g)
  <2>1. Junk.members \in W
    BY <1>1, NewNodes DEF IsSound
  <2>2. IsSound(Write(f, p, Junk).fs, W)
    BY <1>1, <1>2, <2>1, WriteIsSound
  <2> QED
    BY <1>3, <2>2 DEF uploadCut
<1>7. CASE op = "mkdir"
  BY <1>4, <1>7 DEF Cut
<1>8. CASE op = "rm"
  BY <1>4, <1>8 DEF Cut
<1>9. CASE op = "upload"
  BY <1>6, <1>9 DEF Cut
<1>10. CASE op = "cp"
  BY <1>5, <1>10 DEF Cut
<1>11. CASE op = "compress"
  BY <1>5, <1>11 DEF Cut
<1>12. CASE op = "extract"
  BY <1>4, <1>12 DEF Cut
<1> QED
  BY <1>7, <1>8, <1>9, <1>10, <1>11, <1>12 DEF CutChanges

\* The tree that a request finds, with the test file in it.
LEMMA FoundTreeIsWellFormed ==
  ASSUME IsWellFormed(fs)
  PROVE  IsWellFormed(get_base_temp_dir.fs) /\ IsWellFormed(tree)
<1>1. PICK W : IsSound(fs, W)
  BY DEF IsWellFormed
<1>2. Hello.members \in W
  BY <1>1, NewNodes DEF IsSound, Hello
<1>3. IsSound(Write(fs, TestFile, Hello).fs, W)
  BY <1>1, <1>2, PathsAreKnown, WriteIsSound
<1>4. Answers(fs).fs = fs
  BY AnswerProperties
<1>5. get_base_temp_dir.fs = fs \/ get_base_temp_dir.fs = Write(fs, TestFile, Hello).fs
  BY <1>4 DEF get_base_temp_dir
<1>6. IsWellFormed(get_base_temp_dir.fs)
  BY <1>1, <1>3, <1>5 DEF IsWellFormed
<1> QED
  BY <1>6 DEF tree

LEMMA InitiallyInv == Init => Inv
<1> SUFFICES ASSUME Init PROVE Inv
  OBVIOUS
<1> DEFINE W == {NoMembers}
<1>1. <<>> \in Path /\ AtOrUnder(<<>>, <<>>)
  <2>1. <<>> \in Path
    BY EmptySeq DEF Path
  <2> QED
    BY <2>1, UnderProperties
<1>2. \A V : NoMembers = [x \in DOMAIN NoMembers |-> NoMembers[x]] /\ DOMAIN NoMembers = {}
  BY DEF NoMembers
<1>3. IsWorld(W)
  BY <1>2, FS_EmptySet DEF IsWorld, IsTree, HasTop
<1>4. fs = [x \in DOMAIN fs |-> fs[x]] /\ DOMAIN fs = {<<>>} /\ fs[<<>>] = Dir
  BY DEF Init
<1>5. IsNode(Dir, W) /\ Dir.kind = "dir"
  BY <1>3, NewNodes
<1>6. IsTree(fs, W)
  <2>1. IsFiniteSet(DOMAIN fs)
    BY <1>4, FS_Singleton
  <2> QED
    BY <1>1, <1>4, <1>5, <2>1 DEF IsTree
<1>7. IsRooted(fs)
  <2>1. \A y \in Path : AtOrUnder(y, <<>>) => y = <<>>
    BY UnderProperties
  <2> QED
    BY <1>1, <1>4, <1>5, <2>1 DEF IsRooted, Is
<1>8. IsWellFormed(fs)
  BY <1>3, <1>6, <1>7 DEF IsWellFormed, IsSound
<1> QED
  <2>1. MaxSteps \in Nat
    BY PathsAssumption
  <2> QED
    <3>1. ready = FALSE /\ steps = 0
      BY DEF Init
    <3>2. steps \in 0 .. MaxSteps
      BY <2>1, <3>1
    <3> QED
      BY <1>8, <3>1, <3>2 DEF Inv

\* A request leaves one of its outcomes.
LEMMA ServeStep ==
  ASSUME NEW STATE outcomes, Inv, Serve(outcomes), \A o \in outcomes : IsWellFormed(o.fs)
  PROVE  Inv'
<1>1. PICK o \in IF get_base_temp_dir.ok THEN outcomes ELSE {get_base_temp_dir} :
         steps < MaxSteps /\ fs' = o.fs /\ ready' = TRUE /\ steps' = steps + 1
  BY DEF Serve
<1>2. IsWellFormed(get_base_temp_dir.fs)
  BY FoundTreeIsWellFormed DEF Inv
<1>3. IsWellFormed(o.fs)
  BY <1>2
<1>4. IsWellFormed(fs')
  BY <1>1, <1>3
<1>5. steps' \in 0 .. MaxSteps /\ ready' \in BOOLEAN
  BY <1>1, PathsAssumption DEF Inv
<1> QED
  BY <1>4, <1>5 DEF Inv

LEMMA StepKeepsInv == Inv /\ [Next]_vars => Inv'
<1> SUFFICES ASSUME Inv, [Next]_vars
             PROVE  Inv'
  OBVIOUS
<1>1. IsWellFormed(tree) /\ MaxSteps \in Nat /\ steps \in 0 .. MaxSteps
  BY FoundTreeIsWellFormed, PathsAssumption DEF Inv
<1>2. ASSUME NEW p \in RequestPaths, Look(p)
      PROVE  Inv'
  <2> DEFINE S == {chmod(tree, p), ls(tree, p), headtail(tree, p), view(tree, p), checksum(tree, p),
                   download(tree, p)} \cup {stat(tree, p, b) : b \in BOOLEAN}
  <2>1. \A o \in S : o.fs = tree
    <3>1. /\ chmod(tree, p).fs = tree /\ ls(tree, p).fs = tree
          /\ headtail(tree, p).fs = tree /\ checksum(tree, p).fs = tree
          /\ download(tree, p).fs = tree /\ view(tree, p).fs = tree
          /\ \A b \in BOOLEAN : stat(tree, p, b).fs = tree
      BY LookingChangesNothing
    <3> QED
      BY <3>1
  <2>2. Serve(S)
    BY <1>2 DEF Look
  <2> HIDE DEF S
  <2>3. \A o \in S : IsWellFormed(o.fs)
    BY <1>1, <2>1
  <2> QED
    BY <2>2, <2>3, ServeStep
<1>3. ASSUME NEW p \in RequestPaths, NEW parent \in BOOLEAN, Mkdir(p, parent)
      PROVE  Inv'
  <2>1. \A o \in mkdir(tree, p, parent) : IsWellFormed(o.fs)
    BY <1>1, OutcomesAreWellFormed
  <2> QED
    BY <1>3, <2>1, ServeStep DEF Mkdir
<1>4. ASSUME NEW p \in RequestPaths, Rm(p)
      PROVE  Inv'
  <2>1. \A o \in rm(tree, p) : IsWellFormed(o.fs)
    BY <1>1, OutcomesAreWellFormed
  <2> QED
    BY <1>4, <2>1, ServeStep DEF Rm
<1>5. ASSUME NEW p \in RequestPaths, NEW t \in Texts, Upload(p, t)
      PROVE  Inv'
  <2>1. \A o \in upload(tree, p, t) : IsWellFormed(o.fs)
    BY <1>1, OutcomesAreWellFormed
  <2> QED
    BY <1>5, <2>1, ServeStep DEF Upload
<1>6. ASSUME NEW p \in RequestPaths, NEW q \in RequestPaths, Symlink(p, q) \/ Mv(p, q) \/ Cp(p, q)
      PROVE  Inv'
  <2>1. /\ \A o \in symlink(tree, p, q) : IsWellFormed(o.fs)
        /\ \A o \in mv(tree, p, q) : IsWellFormed(o.fs)
        /\ \A o \in cp(tree, p, q) : IsWellFormed(o.fs)
    BY <1>1, OutcomesAreWellFormed
  <2>2. CASE Symlink(p, q)
    BY <2>1, <2>2, ServeStep DEF Symlink
  <2>3. CASE Mv(p, q)
    BY <2>1, <2>3, ServeStep DEF Mv
  <2>4. CASE Cp(p, q)
    BY <2>1, <2>4, ServeStep DEF Cp
  <2> QED
    BY <1>6, <2>2, <2>3, <2>4
<1>7. ASSUME NEW p \in RequestPaths, NEW q \in RequestPaths, NEW z, Compress(p, q, z) \/ Extract(p, q, z)
      PROVE  Inv'
  <2>1. /\ \A o \in compress(tree, p, q, z) : IsWellFormed(o.fs)
        /\ \A o \in extract(tree, p, q, z) : IsWellFormed(o.fs)
    BY <1>1, OutcomesAreWellFormed
  <2>2. CASE Compress(p, q, z)
    BY <2>1, <2>2, ServeStep DEF Compress
  <2>3. CASE Extract(p, q, z)
    BY <2>1, <2>3, ServeStep DEF Extract
  <2> QED
    BY <1>7, <2>2, <2>3
<1>8. ASSUME NEW p \in RequestPaths, NEW op \in CutChanges, NEW q \in Seconds(op, p), Crash(op, p, q)
      PROVE  Inv'
  <2>1. q \in RequestPaths
    BY DEF Seconds
  <2>2. PICK g \in Cut(op, tree, p, q) : fs' = g
    BY <1>8 DEF Crash
  <2>3. IsWellFormed(g)
    BY <1>1, <2>1, CutsAreWellFormed
  <2>4. IsWellFormed(fs')
    BY <2>2, <2>3
  <2>5. ready' = FALSE /\ steps' \in 0 .. MaxSteps
    BY <1>1, <1>8 DEF Crash
  <2> QED
    BY <2>4, <2>5 DEF Inv
<1>9. CASE Restart
  <2>1. IsWellFormed(fs') /\ ready' = FALSE /\ steps' \in 0 .. MaxSteps
    BY <1>1, <1>9 DEF Restart, Inv
  <2> QED
    BY <2>1 DEF Inv
<1>10. CASE UNCHANGED vars
  BY <1>10 DEF vars, Inv
<1> QED
  BY <1>2, <1>3, <1>4, <1>5, <1>6, <1>7, <1>8, <1>9, <1>10 DEF Next

LEMMA InvHolds == Spec => []Inv
<1>1. Init => Inv
  BY InitiallyInv
<1>2. Inv /\ [Next]_vars => Inv'
  BY StepKeepsInv
<1> QED
  BY <1>1, <1>2, PTL DEF Spec

\* Every path and every link in the tree is made of known names, and every node
\* is of a known kind: links are absolute paths that were resolved.
THEOREM TypeCorrect == Spec => []TypeOK
<1>1. Inv => TypeOK
  <2> SUFFICES ASSUME Inv PROVE TypeOK
    OBVIOUS
  <2>1. PICK W : IsTree(fs, W)
    BY DEF Inv, IsWellFormed, IsSound
  <2>2. ASSUME NEW p \in DOMAIN fs
        PROVE  /\ fs[p].kind \in {"dir", "file", "link"}
               /\ \A x \in {p, fs[p].to} : \A i \in 1 .. Len(x) : x[i] \in Names \cup {SandboxName}
    <3>1. fs[p].kind \in {"dir", "file", "link"} /\ p \in Path /\ fs[p].to \in Path
      BY <2>1 DEF IsTree, IsNode
    <3> QED
      BY <3>1, PathElements
  <2> QED
    BY <2>2 DEF Inv, TypeOK
<1> QED
  BY <1>1, InvHolds, PTL

\* Whatever is created, moved, extracted, removed or cut short in the middle: the
\* sandbox is there, and whatever exists has directories above it.
THEOREM TreeIsWellFormedCorrect == Spec => []TreeIsWellFormed
<1>1. Inv => TreeIsWellFormed
  <2> SUFFICES ASSUME Inv PROVE TreeIsWellFormed
    OBVIOUS
  <2>1. PICK W : IsTree(fs, W) /\ IsRooted(fs)
    BY DEF Inv, IsWellFormed, IsSound
  <2>2. Is(fs, <<>>, "dir") /\ DOMAIN fs \subseteq Path
    BY <2>1 DEF IsRooted, IsTree
  <2>3. ASSUME NEW p \in DOMAIN fs \cup {<<>>}, NEW x \in Parents(p)
        PROVE  Is(fs, x, "dir")
    <3>1. p \in DOMAIN fs /\ p \in Path
      BY <2>2 DEF Is
    <3>2. x \in Path
      BY <3>1, AncestorsProperties DEF Parents
    <3>3. AtOrUnder(x, p) /\ x # p
      BY <3>1, <3>2, UnderProperties
    <3> QED
      BY <2>1, <3>1, <3>2, <3>3 DEF IsRooted, IsTree, Is
  <2> QED
    BY <2>2, <2>3 DEF TreeIsWellFormed
<1> QED
  BY <1>1, InvHolds, PTL

-----------------------------------------------------------------------------
(* Other names of what a request changes.                                  *)

\* One answer, on two trees.
Reads(f, b)   == [Answers(f) EXCEPT !.body = b]
OnTree(o, g)  == [o EXCEPT !.fs = g]

LEMMA SameAnswer ==
  ASSUME NEW f, NEW g, NEW b
  PROVE  OnTree(Raises(f), g) = Raises(g) /\ OnTree(Reads(f, b), g) = Reads(g, b)
<1> DEFINE yes  == TRUE
           no   == FALSE
           none == Text("")
<1>1. /\ Raises(f) = [fs |-> f, ok |-> no, type |-> "none", body |-> none]
      /\ Raises(g) = [fs |-> g, ok |-> no, type |-> "none", body |-> none]
  BY DEF Raises
<1>2. /\ Answers(f) = [fs |-> f, ok |-> yes, type |-> "none", body |-> none]
      /\ Answers(g) = [fs |-> g, ok |-> yes, type |-> "none", body |-> none]
  BY DEF Answers
<1> HIDE DEF yes, no, none
<1>3. OnTree(Raises(f), g) = Raises(g)
  BY <1>1 DEF OnTree
<1>4. OnTree(Reads(f, b), g) = Reads(g, b)
  <2>1. /\ Reads(f, b) = [fs |-> f, ok |-> yes, type |-> "none", body |-> b]
        /\ Reads(g, b) = [fs |-> g, ok |-> yes, type |-> "none", body |-> b]
    BY <1>2 DEF Reads
  <2> QED
    BY <2>1 DEF OnTree
<1> QED
  BY <1>3, <1>4

\* What is written through one name is what is read through every name of the
\* same file, and through no name of another.
LEMMA WrittenIsRead ==
  ASSUME NEW W, NEW f, IsSound(f, W), NEW p \in Path, NEW q \in Path, NEW b, b.members \in W,
         Writable(f, p)
  PROVE  download(Put(f, validate_path(f, p), File(b)), q) =
           IF validate_path(f, q) = validate_path(f, p)
           THEN Reads(Put(f, validate_path(f, p), File(b)), b)
           ELSE OnTree(download(f, q), Put(f, validate_path(f, p), File(b)))
<1> DEFINE r == validate_path(f, p)
           s == validate_path(f, q)
           g == Put(f, r, File(b))
<1>1. /\ LinksOf(g) = LinksOf(f) /\ r \in Path
      /\ \A x \in DOMAIN f : AtOrUnder(x, r) => f[x].kind # "link"
  BY WriteKeepsLinks, WritableProperties
<1>2. IsTree(f, W) /\ IsTree(g, W)
  BY PutIsSound DEF IsSound
<1>3. /\ DOMAIN g = DOMAIN f \cup {r} /\ g[r] = File(b)
      /\ \A x \in DOMAIN f \ {r} : g[x] = f[x]
  BY DEF Put
<1>4. File(b).kind = "file" /\ File(b).body = b
  BY DEF File
<1>5. validate_path(g, q) = s
  BY <1>1 DEF validate_path
<1> HIDE DEF g, r, s
<1>6. \A x \in DOMAIN g : g[x].kind = "link" => x \in DOMAIN f /\ x # r /\ g[x] = f[x]
  BY <1>3, <1>4
<1>7. \A x \in DOMAIN f : AtOrUnder(x, s) /\ f[x].kind = "link" =>
          x = r \/ (x \in DOMAIN g /\ g[x].kind = "link")
  BY <1>3
<1>8. \/ r \notin DOMAIN f
      \/ f[r].kind # "link"
  BY <1>1, UnderProperties
<1>9. Stat(g, q) = "loop" <=> Stat(f, q) = "loop"
  <2>1. Stat(f, q) = "loop" <=> \E x \in DOMAIN f : AtOrUnder(x, s) /\ f[x].kind = "link"
    BY <1>2, StatProperties DEF s
  <2>2. Stat(g, q) = "loop" <=> \E x \in DOMAIN g : AtOrUnder(x, s) /\ g[x].kind = "link"
    BY <1>2, <1>5, StatProperties
  <2> QED
    BY <1>6, <1>7, <1>8, <2>1, <2>2
<1>10. /\ Stat(f, q) # "loop" => Stat(f, q) = IF s \in DOMAIN f THEN f[s].kind ELSE "missing"
       /\ Stat(g, q) # "loop" => Stat(g, q) = IF s \in DOMAIN g THEN g[s].kind ELSE "missing"
  <2>1. Stat(f, q) # "loop" => Stat(f, q) = IF s \in DOMAIN f THEN f[s].kind ELSE "missing"
    BY <1>2, StatProperties DEF s
  <2>2. Stat(g, q) # "loop" => Stat(g, q) = IF s \in DOMAIN g THEN g[s].kind ELSE "missing"
    BY <1>2, <1>5, StatProperties
  <2> QED
    BY <2>1, <2>2
<1>11. Content(g, q) = g[s].body /\ Content(f, q) = f[s].body
  BY <1>5 DEF Content, s
<1>12. \A h : download(h, q) = IF Stat(h, q) = "file" THEN Reads(h, Content(h, q)) ELSE Raises(h)
  BY DEF download, headtail, Reads
<1>13. CASE s = r
  <2>1. Stat(f, q) # "loop"
    <3>1. Stat(f, q) = "loop" <=> \E x \in DOMAIN f : AtOrUnder(x, s) /\ f[x].kind = "link"
      BY <1>2, StatProperties DEF s
    <3> QED
      BY <1>1, <1>13, <3>1
  <2>2. Stat(g, q) = "file" /\ Content(g, q) = b
    BY <1>3, <1>4, <1>9, <1>10, <1>11, <1>13, <2>1
  <2>3. download(g, q) = Reads(g, b)
    BY <1>12, <2>2
  <2> QED
    BY <1>13, <2>3 DEF g, r, s
<1>14. CASE s # r
  <2>1. Stat(g, q) = Stat(f, q)
    BY <1>3, <1>9, <1>10, <1>14
  <2>2. CASE Stat(f, q) = "file"
    <3>1. s \in DOMAIN f
      BY <1>10, <2>2
    <3>2. Content(g, q) = Content(f, q)
      BY <1>3, <1>11, <1>14, <3>1
    <3>3. download(g, q) = Reads(g, Content(f, q)) /\ download(f, q) = Reads(f, Content(f, q))
      BY <1>12, <2>1, <2>2, <3>2
    <3>4. download(g, q) = OnTree(download(f, q), g)
      BY <3>3, SameAnswer
    <3> QED
      BY <1>14, <3>4 DEF g, r, s
  <2>3. CASE Stat(f, q) # "file"
    <3>1. download(g, q) = Raises(g) /\ download(f, q) = Raises(f)
      BY <1>12, <2>1, <2>3
    <3>2. download(g, q) = OnTree(download(f, q), g)
      BY <3>1, SameAnswer
    <3> QED
      BY <1>14, <3>2 DEF g, r, s
  <2> QED
    BY <2>2, <2>3
<1> QED
  BY <1>13, <1>14

\* An upload through one name is what every other name of the same file reads.
THEOREM AliasesAgreeCorrect == Spec => []AliasesAgree
<1>1. Inv => AliasesAgree
  <2> SUFFICES ASSUME Inv, NEW p \in RequestPaths, NEW q \in RequestPaths, NEW t \in Texts,
                      NEW o \in upload(fs, p, t), o.ok
               PROVE  download(o.fs, q) = IF validate_path(fs, q) = validate_path(fs, p)
                                     THEN Reads(o.fs, Text(t))
                                     ELSE OnTree(download(fs, q), o.fs)
    BY DEF AliasesAgree, Reads, OnTree
  <2>1. PICK W : IsSound(fs, W)
    BY DEF Inv, IsWellFormed
  <2>2. p \in Path /\ q \in Path
    BY PathsAreKnown
  <2>3. Text(t).members \in W
    BY <2>1, NewNodes DEF IsSound
  <2>4. o = Write(fs, p, Text(t))
    BY DEF upload
  <2>5. Writable(fs, p)
    BY <2>4, WriteIsOpen
  <2>6. o.fs = Put(fs, validate_path(fs, p), File(Text(t)))
    BY <2>4, <2>5, WriteIsOpen
  <2> QED
    BY <2>1, <2>2, <2>3, <2>5, <2>6, WrittenIsRead
<1> QED
  BY <1>1, InvHolds, PTL

\* A subtree that was put in another place, where nothing was, and is put back.
LEMMA MoveBack ==
  ASSUME NEW W, NEW f, IsSound(f, W), NEW src \in DOMAIN f, NEW new \in Path, new \notin DOMAIN f,
         ~AtOrUnder(src, new), new # <<>>, Is(f, Above(new), "dir"),
         \A x \in DOMAIN f : AtOrUnder(x, src) => f[x].kind # "link",
         NEW g, g = Over(Subtree(f, src, new), Without(f, src))
  PROVE  /\ IsSound(g, W) /\ src \in Path
         /\ src \notin DOMAIN g /\ new \in DOMAIN g /\ ~AtOrUnder(new, src)
         /\ Is(g, Above(src), "dir")
         /\ validate_path(g, new) = new /\ validate_path(g, src) = src
         /\ Over(Subtree(g, new, src), Without(g, new)) = f
<1>1. IsTree(f, W) /\ IsRooted(f) /\ DOMAIN f \subseteq Path /\ src \in Path
  BY DEF IsSound, IsTree
<1>2. \A x \in DOMAIN f : ~AtOrUnder(new, x)
  BY DEF IsSound, IsRooted
<1>3. /\ IsSound(g, W)
      /\ src # <<>> /\ new \in DOMAIN g /\ g[new] = f[src]
      /\ \A y : y \in DOMAIN g <=>
             \/ y \in Path /\ AtOrUnder(new, y) /\ src \o From(new, y) \in DOMAIN f
             \/ y \in DOMAIN f /\ ~AtOrUnder(src, y)
      /\ \A y \in DOMAIN g : AtOrUnder(new, y) =>
             src \o From(new, y) \in DOMAIN f /\ g[y] = f[src \o From(new, y)]
      /\ \A y \in DOMAIN g : ~AtOrUnder(new, y) =>
             y \in DOMAIN f /\ ~AtOrUnder(src, y) /\ g[y] = f[y]
  BY <1>2, MoveProperties
<1>4. IsTree(g, W) /\ DOMAIN g \subseteq Path
  BY <1>3 DEF IsSound, IsTree
<1>5. ~AtOrUnder(new, src) /\ AtOrUnder(src, src)
  BY <1>1, <1>2, UnderProperties
<1>6. src \notin DOMAIN g
  BY <1>3, <1>5
<1>7. /\ Above(src) \in Path /\ Above(src) # src /\ AtOrUnder(Above(src), src)
      /\ \A x \in Path : AtOrUnder(x, src) /\ x # src => AtOrUnder(x, Above(src))
  BY <1>1, <1>3, AboveIsUnder
<1>8. Is(g, Above(src), "dir")
  <2>1. Above(src) \in DOMAIN f /\ f[Above(src)].kind = "dir"
    BY <1>1, <1>7 DEF IsRooted, IsTree
  <2>2. ~AtOrUnder(src, Above(src))
    BY <1>1, <1>7, UnderProperties
  <2>3. Above(src) \in DOMAIN g /\ g[Above(src)] = f[Above(src)]
    BY <1>2, <1>3, <2>1, <2>2
  <2> QED
    BY <2>1, <2>3 DEF Is
<1>9. validate_path(g, new) = new
  <2>1. f[src].kind # "link"
    BY <1>5
  <2>2. \A x \in DOMAIN g : AtOrUnder(x, new) => g[x].kind # "link"
    BY <1>3, <1>4, <2>1 DEF IsTree
  <2> QED
    BY <1>4, <2>2, LinksOfATree
<1>10. validate_path(g, src) = src
  <2>1. \A x \in DOMAIN g : AtOrUnder(x, src) => ~AtOrUnder(new, x)
    BY <1>1, <1>4, <1>5, UnderProperties
  <2>2. \A x \in DOMAIN g : AtOrUnder(x, src) => g[x].kind # "link"
    BY <1>3, <2>1
  <2> QED
    BY <1>1, <1>4, <2>2, LinksOfATree
<1>11. \A x \in DOMAIN g : ~AtOrUnder(src, x)
  BY <1>3, <1>4, <1>6 DEF IsSound, IsRooted, IsTree
<1> DEFINE h == Over(Subtree(g, new, src), Without(g, new))
<1>12. /\ IsSound(h, W)
       /\ \A y : y \in DOMAIN h <=>
              \/ y \in Path /\ AtOrUnder(src, y) /\ new \o From(src, y) \in DOMAIN g
              \/ y \in DOMAIN g /\ ~AtOrUnder(new, y)
       /\ \A y \in DOMAIN h : AtOrUnder(src, y) =>
              new \o From(src, y) \in DOMAIN g /\ h[y] = g[new \o From(src, y)]
       /\ \A y \in DOMAIN h : ~AtOrUnder(src, y) =>
              y \in DOMAIN g /\ ~AtOrUnder(new, y) /\ h[y] = g[y]
  BY <1>1, <1>3, <1>5, <1>8, <1>11, MoveProperties
<1> HIDE DEF h
<1>13. ASSUME NEW y \in Path, AtOrUnder(src, y)
       PROVE  /\ y \in DOMAIN h <=> y \in DOMAIN f
              /\ y \in DOMAIN f => h[y] = f[y]
  <2> DEFINE c == From(src, y)
             z == new \o c
  <2>1. c \in Path /\ src \o c = y
    BY <1>1, <1>13, JoinProperties
  <2> HIDE DEF c
  <2>2. z \in Path /\ AtOrUnder(new, z) /\ From(new, z) = c
    BY <2>1, JoinProperties
  <2> HIDE DEF z
  <2>3. z \in DOMAIN g <=> y \in DOMAIN f
    BY <1>2, <1>3, <2>1, <2>2
  <2>4. z \in DOMAIN g => g[z] = f[y]
    BY <1>3, <2>1, <2>2
  <2>5. y \in DOMAIN h <=> z \in DOMAIN g
    BY <1>11, <1>12, <1>13 DEF z, c
  <2>6. y \in DOMAIN h => h[y] = g[z]
    BY <1>12, <1>13 DEF z, c
  <2> QED
    BY <2>3, <2>4, <2>5, <2>6
<1>14. ASSUME NEW y \in Path, ~AtOrUnder(src, y)
       PROVE  /\ y \in DOMAIN h <=> y \in DOMAIN f
              /\ y \in DOMAIN f => h[y] = f[y]
  BY <1>2, <1>3, <1>12, <1>14
<1>15. DOMAIN h \subseteq Path
  BY <1>12 DEF IsSound, IsTree
<1>16. DOMAIN h = DOMAIN f /\ \A y \in DOMAIN f : h[y] = f[y]
  BY <1>1, <1>13, <1>14, <1>15
<1>17. h = [x \in DOMAIN h |-> h[x]] /\ f = [x \in DOMAIN f |-> f[x]]
  BY <1>1, <1>12 DEF IsSound, IsTree
<1>18. h = f
  BY <1>16, <1>17
<1> QED
  BY <1>1, <1>3, <1>5, <1>6, <1>8, <1>9, <1>10, <1>18 DEF h

\* A move that replaced nothing is undone by the move back.
THEOREM MoveIsReversibleCorrect == Spec => []MoveIsReversible
<1>1. Inv => MoveIsReversible
  <2> SUFFICES ASSUME Inv, NEW p \in RequestPaths, NEW q \in RequestPaths,
                      Stat(fs, p) # "loop",
                      Landing(fs, validate_path(fs, p), validate_path(fs, q)) \notin DOMAIN fs,
                      NEW o \in mv(fs, p, q), o.ok,
                      NEW back \in mv(o.fs, Landing(fs, validate_path(fs, p), validate_path(fs, q)),
                                      validate_path(fs, p))
               PROVE  back.fs = fs
    BY DEF MoveIsReversible
  <2> DEFINE src == validate_path(fs, p)
             dst == validate_path(fs, q)
             new == Landing(fs, src, dst)
             g   == Over(Subtree(fs, src, new), Without(fs, src))
  <2>1. PICK W : IsSound(fs, W) /\ IsTree(fs, W)
    BY DEF Inv, IsWellFormed, IsSound
  <2>2. p \in Path /\ q \in Path
    BY PathsAreKnown
  <2>3. src \in Path /\ dst \in Path
    BY <2>1, <2>2, LinksOfATree
  <2>4. new \in Path /\ new # <<>>
    BY <2>1, <2>3, LandingProperties
  <2>5. \A h, x : Raises(h).fs = h /\ ~Raises(h).ok /\ file_to_model(h, x).fs = h
    BY AnswerProperties
  <2>6. /\ src \in DOMAIN fs /\ ~AtOrUnder(src, new) /\ Is(fs, Above(new), "dir")
        /\ o.fs = g
    <3>1. \/ o = Raises(fs)
          \/ /\ src \in DOMAIN fs /\ ~AtOrUnder(src, new) /\ Is(fs, Above(new), "dir")
             /\ o = file_to_model(g, dst)
      BY DEF mv
    <3> QED
      BY <2>5, <3>1
  <2>7. \A x \in DOMAIN fs : AtOrUnder(x, src) => fs[x].kind # "link"
    BY <2>1, <2>2, StatProperties
  <2> HIDE DEF src, dst, new
  <2>8. /\ src \notin DOMAIN g /\ new \in DOMAIN g /\ ~AtOrUnder(new, src)
        /\ Is(g, Above(src), "dir")
        /\ validate_path(g, new) = new /\ validate_path(g, src) = src
        /\ Over(Subtree(g, new, src), Without(g, new)) = fs
    <3>1. new \notin DOMAIN fs
      BY DEF new, src, dst
    <3> QED
      BY <2>1, <2>4, <2>6, <2>7, <3>1, MoveBack
  <2> HIDE DEF g
  <2>9. Landing(g, new, src) = src
    BY <2>8 DEF Landing, Is
  <2>10. back \in mv(g, new, src)
    BY <2>6 DEF new, src, dst
  <2>11. back = file_to_model(Over(Subtree(g, new, src), Without(g, new)), src)
    BY <2>8, <2>9, <2>10 DEF mv
  <2> QED
    BY <2>5, <2>8, <2>11
<1> QED
  BY <1>1, InvHolds, PTL

\* What was packed is found again where it is unpacked.
LEMMA UnpackedProperties ==
  ASSUME NEW V, NEW f, IsSound(f, V), NEW src \in Path, src \in DOMAIN f,
         NEW g, IsSound(g, V), NEW dst \in Path, dst \notin DOMAIN g, Creatable(g, dst),
         NEW m, m = Subtree(f, src, src),
         NEW h, h = Over(Extracted(m, dst), WithDirs(g, dst))
  PROVE  /\ Subtree(h, dst \o src, src) = m
         /\ \A y \in DOMAIN g : h[y] = g[y]
<1>1. IsTree(f, V) /\ IsRooted(f) /\ DOMAIN f \subseteq Path
  BY DEF IsSound, IsTree
<1>2. /\ IsTree(m, V)
      /\ \A y : y \in DOMAIN m <=> y \in DOMAIN f /\ AtOrUnder(src, y)
  <2>1. /\ IsTree(m, V)
        /\ \A y : y \in DOMAIN m <=> y \in Path /\ AtOrUnder(src, y) /\ src \o From(src, y) \in DOMAIN f
    BY <1>1, SubtreeProperties
  <2>2. \A y \in Path : AtOrUnder(src, y) => src \o From(src, y) = y
    BY JoinProperties
  <2> QED
    BY <1>1, <2>1, <2>2
<1>3. /\ IsSound(h, V)
      /\ \A x \in DOMAIN m : dst \o x \in DOMAIN h /\ h[dst \o x] = m[x]
      /\ \A y \in Path : AtOrUnder(dst, y) /\ y # dst /\ y \in DOMAIN h =>
            \E x \in DOMAIN m : AtOrUnder(y, dst \o x)
      /\ \A y \in DOMAIN g : h[y] = g[y]
  BY <1>2, ExtractedProperties
<1> DEFINE n == Subtree(h, dst \o src, src)
<1>4. /\ \A y : y \in DOMAIN n <=> y \in Path /\ AtOrUnder(src, y) /\ (dst \o src) \o From(src, y) \in DOMAIN h
      /\ \A y \in DOMAIN n : n[y] = h[(dst \o src) \o From(src, y)]
      /\ IsTree(n, V)
  <2>1. dst \o src \in Path /\ IsTree(h, V)
    BY <1>3, JoinProperties DEF IsSound
  <2>2. ASSUME NEW k \in Path, NEW t, IsTree(t, V)
        PROVE  /\ IsTree(Subtree(t, k, src), V)
               /\ \A y : y \in DOMAIN Subtree(t, k, src)
                           <=> y \in Path /\ AtOrUnder(src, y) /\ k \o From(src, y) \in DOMAIN t
               /\ \A y \in DOMAIN Subtree(t, k, src) : Subtree(t, k, src)[y] = t[k \o From(src, y)]
    <3> HIDE DEF n
    <3>1. src \in Path
      OBVIOUS
    <3>2. IsTree(Subtree(t, k, src), V)
      BY <2>2, <3>1, SubtreeProperties
    <3>3. \A y \in DOMAIN Subtree(t, k, src) : Subtree(t, k, src)[y] = t[k \o From(src, y)]
      BY <2>2, <3>1, SubtreeProperties
    <3>4. ASSUME NEW y
          PROVE  y \in DOMAIN Subtree(t, k, src)
                   <=> y \in Path /\ AtOrUnder(src, y) /\ k \o From(src, y) \in DOMAIN t
      BY <2>2, <3>1, SubtreeProperties
    <3> QED
      BY <3>2, <3>3, <3>4
  <2> QED
    BY <2>1, <2>2
<1> HIDE DEF n
<1>5. \A y \in Path : AtOrUnder(src, y) => (dst \o src) \o From(src, y) = dst \o y
  <2>1. ASSUME NEW c \in Path
        PROVE  (dst \o src) \o c = dst \o (src \o c)
    BY ConcatAssociative DEF Path
  <2>2. \A y \in Path : AtOrUnder(src, y) => From(src, y) \in Path /\ src \o From(src, y) = y
    BY JoinProperties
  <2> QED
    BY <2>1, <2>2
<1>6. \A y : y \in DOMAIN n <=> y \in Path /\ AtOrUnder(src, y) /\ dst \o y \in DOMAIN h
  BY <1>4, <1>5
<1>7. \A y \in DOMAIN n : n[y] = h[dst \o y]
  BY <1>4, <1>5
<1>8. ASSUME NEW y \in Path, AtOrUnder(src, y), dst \o y \in DOMAIN h
      PROVE  y \in DOMAIN m
  <2>1. dst \o y \in Path /\ AtOrUnder(dst, dst \o y) /\ From(dst, dst \o y) = y
    BY JoinProperties
  <2>2. CASE dst \o y = dst
    <3>1. From(dst, dst) = <<>>
      <4>1. <<>> \in Path /\ dst \o <<>> = dst
        BY UnderProperties, ConcatEmptySeq DEF Path
      <4>2. From(dst, dst \o <<>>) = <<>>
        BY <4>1, JoinProperties
      <4> QED
        BY <4>1, <4>2
    <3>2. y = <<>>
      BY <2>1, <2>2, <3>1
    <3> QED
      BY <1>1, <1>2, <1>8, <3>2 DEF IsRooted, Is
  <2>3. CASE dst \o y # dst
    <3>1. PICK x \in DOMAIN m : AtOrUnder(dst \o y, dst \o x)
      BY <1>3, <1>8, <2>1, <2>3
    <3>2. x \in DOMAIN f /\ x \in Path
      BY <1>1, <1>2
    <3>3. AtOrUnder(y, x)
      BY <3>1, <3>2, JoinProperties
    <3> QED
      BY <1>1, <1>2, <1>8, <3>2, <3>3 DEF IsRooted
  <2> QED
    BY <2>2, <2>3
<1>9. DOMAIN n = DOMAIN m /\ \A y \in DOMAIN m : n[y] = m[y]
  BY <1>1, <1>2, <1>3, <1>6, <1>7, <1>8
<1>10. n = [x \in DOMAIN n |-> n[x]] /\ m = [x \in DOMAIN m |-> m[x]]
  BY <1>2, <1>4 DEF IsTree
<1>11. n = m
  BY <1>9, <1>10
<1> QED
  BY <1>3, <1>11 DEF n

\* What compress packs, extract unpacks, below the target and under the names it
\* has below the sandbox; the archive and the source stay.
THEOREM RoundTripCorrect == Spec => []RoundTrip
<1>1. Inv => RoundTrip
  <2> SUFFICES ASSUME Inv, NEW p \in RequestPaths, NEW q \in RequestPaths, NEW e \in RequestPaths,
                      NEW z \in Formats, ~Overlap(fs, p, q),
                      NEW o \in compress(fs, p, q, z), NEW x \in extract(o.fs, q, e, z), o.ok, x.ok
               PROVE  /\ Subtree(x.fs, validate_path(fs, e) \o validate_path(fs, p), validate_path(fs, p))
                           = Subtree(fs, validate_path(fs, p), validate_path(fs, p))
                      /\ \A y \in DOMAIN o.fs : x.fs[y] = o.fs[y]
    BY DEF RoundTrip
  <2> DEFINE src == validate_path(fs, p)
             arc == validate_path(fs, q)
             dst == validate_path(fs, e)
             m   == Subtree(fs, src, src)
             b   == Archive(z, m)
             r   == validate_path(fs, arc)
             g   == Put(fs, r, File(b))
  <2>1. PICK W : IsSound(fs, W) /\ IsTree(fs, W) /\ IsWorld(W)
    BY DEF Inv, IsWellFormed, IsSound
  <2>2. p \in Path /\ q \in Path /\ e \in Path
    BY PathsAreKnown
  <2>3. src \in Path /\ arc \in Path /\ dst \in Path
    BY <2>1, <2>2, LinksOfATree
  <2>4. \A h, y : ~Raises(h).ok /\ Raises(h).fs = h /\ file_to_model(h, y).fs = h
    BY AnswerProperties
  <2>5. ~AtOrUnder(src, arc)
    BY DEF Overlap
  <2>6. Write(fs, arc, Junk).ok /\ src \in DOMAIN fs /\ o.fs = Write(fs, arc, b).fs
    <3>1. Archived(fs, src, arc) = {m}
      BY <2>5 DEF Archived
    <3>2. \/ ~o.ok
          \/ Write(fs, arc, Junk).ok /\ src \in DOMAIN fs
             /\ \E n \in Archived(fs, src, arc) : o.fs = Write(fs, arc, Archive(z, n)).fs
      BY <2>4, <2>5 DEF compress
    <3> QED
      BY <3>1, <3>2
  <2>7. Writable(fs, arc)
    BY <2>6, WriteIsOpen
  <2>8. o.fs = g
    BY <2>6, <2>7, WriteIsOpen
  <2>9. /\ validate_path(g, q) = arc /\ validate_path(g, e) = dst /\ validate_path(g, arc) = r
    <3>1. LinksOf(g) = LinksOf(fs)
      BY <2>7, WriteKeepsLinks
    <3> QED
      BY <3>1 DEF validate_path
  <2>10. g[r] = File(b)
    BY DEF Put
  <2> DEFINE V == W \cup {m}
  <2>11. IsSound(fs, V) /\ IsSound(g, V)
    <3>1. IsTree(m, W)
      BY <2>1, <2>3, SubtreeProperties
    <3>5. HasTop(m)
      BY <2>1, <2>3, PackedHasTop
    <3> HIDE DEF m
    <3>2. IsSound(fs, V)
      BY <2>1, <3>1, <3>5, WorldGrows
    <3>3. b.members \in V
      BY DEF Archive
    <3> HIDE DEF V, b, arc, r
    <3>4. IsSound(Put(fs, validate_path(fs, arc), File(b)), V)
      BY <2>3, <2>7, <3>2, <3>3, PutIsSound
    <3> QED
      BY <3>2, <3>4 DEF r
  <2> HIDE DEF g, V
  <2>12. Content(g, arc) = b /\ b.text = z /\ b.members = m
    BY <2>9, <2>10 DEF Content, File, Archive
  <2>13. /\ Stat(g, dst) \notin {"dir", "file"} /\ Creatable(g, dst)
         /\ x.fs = Over(Extracted(m, dst), WithDirs(g, dst))
    <3> HIDE DEF b, m, src, arc, dst
    <3>1. x \in extract(g, q, e, z)
      BY <2>8
    <3>2. \/ ~x.ok
          \/ /\ Stat(g, dst) \notin {"dir", "file"} /\ Creatable(g, dst)
             /\ x.fs = Over(Extracted(Content(g, arc).members, dst), WithDirs(g, dst))
      BY <2>4, <2>9, <3>1 DEF extract
    <3> QED
      BY <2>12, <3>2
  <2>14. dst \notin DOMAIN g
    <3> HIDE DEF dst
    <3> QED
      BY <2>3, <2>11, <2>13, FreeTarget
  <2>15. Subtree(x.fs, dst \o src, src) = m /\ \A y \in DOMAIN g : x.fs[y] = g[y]
    <3> HIDE DEF src, dst
    <3> QED
      BY <2>3, <2>6, <2>11, <2>13, <2>14, UnpackedProperties
  <2> QED
    BY <2>8, <2>15
<1> QED
  BY <1>1, InvHolds, PTL

-----------------------------------------------------------------------------
(* What a request has changed when it raises.                              *)

Same(f, g, x) == x \in DOMAIN f \cap DOMAIN g /\ f[x] = g[x]

\* A description is an answer.
LEMMA AnswersDescribe ==
  ASSUME NEW f, NEW k
  PROVE  [Answers(f) EXCEPT !.type = k].ok
<1> DEFINE yes  == TRUE
           none == Text("")
<1>1. Answers(f) = [fs |-> f, ok |-> yes, type |-> "none", body |-> none]
  BY DEF Answers
<1> HIDE DEF none
<1> HIDE DEF yes
<1>2. [Answers(f) EXCEPT !.type = k].ok = yes
  BY <1>1
<1> QED
  BY <1>2 DEF yes

\* An entry of a directory.
LEMMA EntryIsUnder ==
  ASSUME NEW d \in Path, NEW b, Append(d, b) \in Path
  PROVE  AtOrUnder(d, Append(d, b)) /\ d # Append(d, b)
<1> DEFINE e == Append(d, b)
<1>1. Len(d) \in Nat /\ d \in Seq(Names \cup {SandboxName})
  BY PathElements DEF Path
<1>2. Len(e) = Len(d) + 1 /\ \A i \in 1 .. Len(d) : e[i] = d[i]
  BY <1>1
<1> HIDE DEF e
<1>3. AtOrUnder(d, e)
  <2>1. Len(d) <= Len(e) /\ \A i \in 1 .. Len(d) : d[i] = e[i]
    BY <1>1, <1>2
  <2> QED
    BY <2>1, AncestorBegins DEF e
<1>4. d # e
  BY <1>1, <1>2
<1> QED
  BY <1>3, <1>4 DEF e

\* Without a link in it, a path that exists is described.
LEMMA PlainIsDescribed ==
  ASSUME NEW W, NEW f, IsSound(f, W), NEW p \in DOMAIN f, f[p].kind # "link"
  PROVE  Stat(f, p) = f[p].kind /\ file_to_model(f, p).ok
<1>1. IsTree(f, W) /\ p \in Path
  BY DEF IsSound, IsTree
<1>2. \A x \in DOMAIN f : AtOrUnder(x, p) => f[x].kind # "link"
  BY DEF IsSound, IsTree
<1>3. validate_path(f, p) = p
  BY <1>1, <1>2, LinksOfATree
<1>4. Stat(f, p) # "loop"
  BY <1>1, <1>2, <1>3, StatProperties
<1>5. Stat(f, p) = f[p].kind
  BY <1>1, <1>3, <1>4, StatProperties
<1>6. Stat(f, p) \in {"dir", "file"}
  BY <1>5 DEF IsSound, IsTree, IsNode
<1>7. file_to_model(f, p) = [Answers(f) EXCEPT !.type = Stat(f, p)]
  BY <1>6 DEF file_to_model
<1> QED
  BY <1>5, <1>7, AnswersDescribe

\* A path without links that another path has been resolved to.
LEMMA PlainIsResolved ==
  ASSUME NEW W, NEW f, IsSound(f, W), NEW p \in Path,
         Stat(f, validate_path(f, p)) # "loop"
  PROVE  validate_path(f, validate_path(f, p)) = validate_path(f, p)
<1> DEFINE l == LinksOf(f)
           d == validate_path(f, p)
           r == validate_path(f, d)
<1>1. IsTree(f, W)
  BY DEF IsSound
<1>2. IsLinkMap(l) /\ d \in Path
  BY <1>1, LinksOfATree
<1> HIDE DEF d
<1>3. r \in Path /\ \A x \in DOMAIN f : AtOrUnder(x, r) => f[x].kind # "link"
  BY <1>1, <1>2, LinksOfATree, StatProperties DEF d
<1>4. LinksIn(l, r) = {}
  <2> HIDE DEF r
  <2>1. ASSUME NEW i \in 1 .. Len(r), SubSeq(r, 1, i) \in DOMAIN l
        PROVE  FALSE
    <3>1. SubSeq(r, 1, i) \in Ancestors(r)
      BY <1>3, PathElements DEF Ancestors
    <3>2. SubSeq(r, 1, i) \in Path
      BY <1>3, <3>1, AncestorsProperties
    <3>3. AtOrUnder(SubSeq(r, 1, i), r)
      BY <1>3, <3>1, <3>2, UnderProperties
    <3>4. SubSeq(r, 1, i) \in DOMAIN f /\ f[SubSeq(r, 1, i)].kind = "link"
      BY <2>1 DEF LinksOf
    <3> QED
      BY <1>3, <3>3, <3>4
  <2> QED
    BY <2>1 DEF LinksIn
<1>5. d = realpath(l, p) /\ r = realpath(l, d)
  BY DEF validate_path, d
<1> HIDE DEF l, r
<1>6. LinksIn(l, d) = {}
  BY <1>2, <1>4, <1>5, ResolvedAgain
<1> QED
  BY <1>2, <1>5, <1>6, ResolvedAgain DEF d, r

\* A file that could be opened through a resolved path is there.
LEMMA WritableIsResolved ==
  ASSUME NEW W, NEW f, IsSound(f, W), NEW p \in Path, Writable(f, validate_path(f, p))
  PROVE  validate_path(f, validate_path(f, p)) = validate_path(f, p)
<1> DEFINE d == validate_path(f, p)
<1>1. IsTree(f, W) /\ d \in Path
  BY LinksOfATree DEF IsSound
<1> HIDE DEF d
<1>2. \A x \in DOMAIN f : AtOrUnder(x, validate_path(f, d)) => f[x].kind # "link"
  BY <1>1, WritableProperties DEF d
<1>3. Stat(f, d) # "loop"
  BY <1>1, <1>2, StatProperties
<1> QED
  BY <1>3, PlainIsResolved DEF d

\* A directory that mkdir made is always described.
LEMMA mkdirRaises ==
  ASSUME NEW W, NEW f, IsSound(f, W), NEW p \in Path, NEW parent \in BOOLEAN,
         NEW o \in mkdir(f, p, parent), ~o.ok
  PROVE  o.fs = f
<1> DEFINE r == validate_path(f, p)
<1>1. r \in Path
  BY LinksOfATree DEF IsSound
<1>2. Raises(f).fs = f
  BY AnswerProperties
<1>3. \/ o.fs = f
      \/ Creatable(f, r) /\ o = file_to_model(WithDirs(f, r), r)
      \/ r \notin DOMAIN f /\ Is(f, Above(r), "dir") /\ o = file_to_model(Put(f, r, Dir), r)
  BY <1>2 DEF mkdir
<1> HIDE DEF r
<1>4. ASSUME Creatable(f, r) PROVE file_to_model(WithDirs(f, r), r).ok
  <2>1. r \in Ancestors(r)
    BY <1>1, AncestorsProperties
  <2> DEFINE g == WithDirs(f, r)
  <2>2. IsSound(g, W)
    BY <1>1, <1>4, SoundWithDirs
  <2>3. r \in DOMAIN g /\ g[r] = Dir
    BY <2>1 DEF WithDirs, Over
  <2> HIDE DEF g
  <2>4. Dir.kind # "link"
    BY DEF Dir
  <2>5. file_to_model(g, r).ok
    BY <2>2, <2>3, <2>4, PlainIsDescribed
  <2> QED
    BY <2>5 DEF g
<1>5. ASSUME r \notin DOMAIN f, Is(f, Above(r), "dir") PROVE file_to_model(Put(f, r, Dir), r).ok
  <2> DEFINE g == Put(f, r, Dir)
  <2>1. r # <<>>
    BY <1>5 DEF IsSound, IsRooted, Is
  <2>2. IsNode(Dir, W) /\ Dir.kind = "dir"
    BY NewNodes DEF IsSound
  <2>3. IsSound(g, W)
    BY <1>1, <1>5, <2>1, <2>2, SoundPut
  <2>4. r \in DOMAIN g /\ g[r] = Dir
    BY DEF Put
  <2> HIDE DEF g
  <2>5. Dir.kind # "link"
    BY <2>2
  <2>6. file_to_model(g, r).ok
    BY <2>3, <2>4, <2>5, PlainIsDescribed
  <2> QED
    BY <2>6 DEF g
<1> QED
  BY <1>3, <1>4, <1>5

\* ln -s raises after it has made a link only where nothing was.
LEMMA symlinkRaises ==
  ASSUME NEW W, NEW f, IsSound(f, W), NEW p \in Path, NEW q \in Path,
         NEW o \in symlink(f, p, q), ~o.ok, NEW x \in DOMAIN f \cup DOMAIN o.fs
  PROVE  Same(f, o.fs, x) \/ (x = validate_path(f, q) /\ x \notin DOMAIN f)
<1> DEFINE src == validate_path(f, p)
           dst == validate_path(f, q)
           new == Landing(f, src, dst)
           g   == Put(f, new, Link(src))
<1>1. src \in Path /\ dst \in Path
  BY LinksOfATree DEF IsSound
<1>2. new \in Path /\ new # <<>>
  BY <1>1, LandingProperties
<1>3. Raises(f).fs = f /\ file_to_model(g, dst).fs = g
  BY AnswerProperties
<1>4. \/ o.fs = f
      \/ /\ new \notin DOMAIN f /\ Is(f, Above(new), "dir")
         /\ o.fs = g /\ ~file_to_model(g, dst).ok
  BY <1>3 DEF symlink
<1>5. new = dst \/ Is(f, dst, "dir")
  BY DEF Landing
<1> HIDE DEF src, dst, new
<1>6. ASSUME new \notin DOMAIN f, Is(f, Above(new), "dir"), ~file_to_model(g, dst).ok
      PROVE  DOMAIN g = DOMAIN f \cup {new} /\ (\A y \in DOMAIN f : g[y] = f[y]) /\ new = dst
  <2>1. IsNode(Link(src), W)
    BY <1>1, NewNodes DEF IsSound
  <2>2. IsSound(g, W)
    <3>1. ~Is(f, new, "dir")
      BY <1>6 DEF Is
    <3> QED
      BY <1>2, <1>6, <2>1, <3>1, SoundPut
  <2>3. DOMAIN g = DOMAIN f \cup {new} /\ \A y \in DOMAIN f \ {new} : g[y] = f[y]
    BY DEF Put
  <2> HIDE DEF g
  <2>4. ASSUME Is(f, dst, "dir") PROVE FALSE
    <3>1. dst \in DOMAIN g /\ g[dst].kind # "link"
      BY <1>6, <2>3, <2>4 DEF Is
    <3> QED
      BY <1>6, <2>2, <3>1, PlainIsDescribed
  <2> QED
    BY <1>5, <1>6, <2>3, <2>4
<1> HIDE DEF g
<1> QED
  BY <1>4, <1>6 DEF Same, dst

\* A rm that raises has touched nothing but what it was to remove.
LEMMA rmRaises ==
  ASSUME NEW W, NEW f, IsSound(f, W), NEW p \in Path,
         NEW o \in rm(f, p), ~o.ok, NEW x \in DOMAIN f \cup DOMAIN o.fs
  PROVE  Same(f, o.fs, x) \/ AtOrUnder(validate_path(f, p), x)
<1> DEFINE r == validate_path(f, p)
           m == Subtree(f, r, r)
           k == Without(f, r)
<1>1. r \in Path /\ IsTree(f, W)
  BY LinksOfATree DEF IsSound
<1>2. \A g : Raises(g).fs = g /\ Answers(g).ok
  BY AnswerProperties
<1>3. o.fs = f \/ (r # <<>> /\ \E n \in Parts(m) : o.fs = Over(n, k))
  BY <1>2 DEF rm, rmCut
<1> HIDE DEF r
<1>4. /\ IsTree(m, W)
      /\ \A y : y \in DOMAIN m => AtOrUnder(r, y)
  BY <1>1, SubtreeProperties
<1> HIDE DEF m
<1>5. ASSUME r # <<>>, NEW n \in Parts(m), o.fs = Over(n, k), ~AtOrUnder(r, x)
      PROVE  Same(f, o.fs, x)
  <2>1. DOMAIN n \subseteq DOMAIN m
    BY <1>4, PartsProperties
  <2>2. x \notin DOMAIN n
    BY <1>4, <1>5, <2>1
  <2>3. DOMAIN k = {y \in DOMAIN f : ~AtOrUnder(r, y)} /\ \A y \in DOMAIN k : k[y] = f[y]
    BY <1>1, <1>5, WithoutProperties
  <2> HIDE DEF k
  <2>4. x \in DOMAIN k
    BY <1>5, <2>2, <2>3 DEF Over
  <2>5. x \in DOMAIN o.fs /\ o.fs[x] = k[x]
    BY <1>5, <2>2, <2>4 DEF Over
  <2> QED
    BY <2>3, <2>4, <2>5 DEF Same
<1> QED
  BY <1>3, <1>5 DEF Same, r

\* An upload that raises has not opened its file.
LEMMA uploadRaises ==
  ASSUME NEW f, NEW p, NEW t, NEW o \in upload(f, p, t), ~o.ok
  PROVE  o.fs = f
<1>1. o = Write(f, p, Text(t))
  BY DEF upload
<1> QED
  BY <1>1, WriteIsOpen

\* A move of what can be described is described.
LEMMA mvRaises ==
  ASSUME NEW W, NEW f, IsSound(f, W), NEW p \in Path, NEW q \in Path,
         Stat(f, p) # "loop", NEW o \in mv(f, p, q), ~o.ok
  PROVE  o.fs = f
<1> DEFINE src == validate_path(f, p)
           dst == validate_path(f, q)
           new == Landing(f, src, dst)
           g   == Over(Subtree(f, src, new), Without(f, src))
<1>1. src \in Path /\ dst \in Path
  BY LinksOfATree DEF IsSound
<1>2. new \in Path /\ new # <<>>
  BY <1>1, LandingProperties
<1>3. Raises(f).fs = f
  BY AnswerProperties
<1>4. \/ o.fs = f
      \/ /\ src \in DOMAIN f /\ ~AtOrUnder(src, new) /\ Is(f, Above(new), "dir")
         /\ new \in DOMAIN f => \A x \in DOMAIN f : AtOrUnder(new, x) => x = new
         /\ o = file_to_model(g, dst)
  BY <1>3 DEF mv
<1>5. ASSUME src \in DOMAIN f PROVE f[src].kind # "link"
  <2>1. \A x \in DOMAIN f : AtOrUnder(x, src) => f[x].kind # "link"
    BY StatProperties DEF IsSound
  <2> HIDE DEF src
  <2> QED
    BY <1>1, <1>5, <2>1, UnderProperties
<1>6. new = dst \/ (Is(f, dst, "dir") /\ AtOrUnder(dst, new) /\ dst # new)
  <2> SUFFICES ASSUME Is(f, dst, "dir") PROVE AtOrUnder(dst, new) /\ dst # new
    BY DEF Landing
  <2>1. new = Append(dst, BaseName(src))
    BY DEF Landing
  <2> HIDE DEF src, dst, new
  <2> QED
    BY <1>1, <1>2, <2>1, EntryIsUnder
<1> HIDE DEF src, dst, new
<1>7. ASSUME src \in DOMAIN f, ~AtOrUnder(src, new), Is(f, Above(new), "dir"),
             new \in DOMAIN f => \A x \in DOMAIN f : AtOrUnder(new, x) => x = new
      PROVE  file_to_model(g, dst).ok
  <2>1. \A x \in DOMAIN f : AtOrUnder(new, x) => x = new
    BY <1>2, <1>7 DEF IsSound, IsRooted
  <2>2. /\ IsSound(g, W) /\ new \in DOMAIN g /\ g[new] = f[src]
        /\ \A y : y \in DOMAIN f /\ ~AtOrUnder(src, y) => y \in DOMAIN g
        /\ \A y \in DOMAIN g : ~AtOrUnder(new, y) => g[y] = f[y]
    BY <1>2, <1>7, <2>1, MoveProperties
  <2> HIDE DEF g
  <2>3. CASE new = dst
    BY <1>5, <1>7, <2>2, <2>3, PlainIsDescribed
  <2>4. CASE Is(f, dst, "dir") /\ AtOrUnder(dst, new) /\ dst # new
    <3>1. ~AtOrUnder(src, dst)
      BY <1>1, <1>2, <1>7, <2>4, UnderProperties
    <3>2. ~AtOrUnder(new, dst)
      BY <2>1, <2>4 DEF Is
    <3>3. dst \in DOMAIN g /\ g[dst].kind # "link"
      BY <2>2, <2>4, <3>1, <3>2 DEF Is
    <3> QED
      BY <2>2, <3>3, PlainIsDescribed
  <2> QED
    BY <1>6, <2>3, <2>4
<1> HIDE DEF g
<1> QED
  BY <1>4, <1>7

\* What has been written is described under the name it was written to.
LEMMA WrittenIsDescribed ==
  ASSUME NEW W, NEW f, IsSound(f, W), NEW p \in Path, Writable(f, p), NEW b, b.members \in W
  PROVE  file_to_model(Put(f, validate_path(f, p), File(b)), p).ok
<1> DEFINE r == validate_path(f, p)
           g == Put(f, r, File(b))
<1>1. r \in Path /\ \A x \in DOMAIN f : AtOrUnder(x, r) => f[x].kind # "link"
  BY WritableProperties
<1>2. IsTree(g, W)
  BY PutIsSound DEF IsSound
<1>3. validate_path(g, p) = r
  BY WriteKeepsLinks DEF validate_path
<1>4. DOMAIN g = DOMAIN f \cup {r} /\ g[r] = File(b) /\ \A x \in DOMAIN f \ {r} : g[x] = f[x]
  BY DEF Put
<1>5. File(b).kind = "file"
  BY DEF File
<1> HIDE DEF g, r
<1>6. Stat(g, p) # "loop"
  BY <1>1, <1>2, <1>3, <1>4, <1>5, StatProperties
<1>7. Stat(g, p) = "file"
  BY <1>2, <1>3, <1>4, <1>5, <1>6, StatProperties
<1>8. file_to_model(g, p) = [Answers(g) EXCEPT !.type = Stat(g, p)]
  BY <1>7 DEF file_to_model
<1> QED
  BY <1>8, AnswersDescribe DEF g, r

\* A copy that was made is described.
LEMMA cpRaises ==
  ASSUME NEW W, NEW f, IsSound(f, W), NEW p \in Path, NEW q \in Path,
         NEW o \in cp(f, p, q), ~o.ok
  PROVE  o.fs = f
<1> DEFINE src == validate_path(f, p)
           dst == validate_path(f, q)
           new == Landing(f, src, dst)
           end == validate_path(f, new)
           b   == Content(f, src)
           g   == Put(f, end, File(b))
<1>1. src \in Path /\ dst \in Path
  BY LinksOfATree DEF IsSound
<1>2. new \in Path
  BY <1>1, LandingProperties
<1>3. Raises(f).fs = f
  BY AnswerProperties
<1>4. \/ o.fs = f
      \/ /\ Stat(f, src) = "file" /\ Write(f, new, b).ok
         /\ o = file_to_model(Write(f, new, b).fs, dst)
  BY <1>3 DEF cp
<1>5. new = dst \/ Is(f, dst, "dir")
  BY DEF Landing
<1> HIDE DEF src, dst, new
<1>6. ASSUME Stat(f, src) = "file", Write(f, new, b).ok
      PROVE  file_to_model(Write(f, new, b).fs, dst).ok
  <2>1. b.members \in W
    BY <1>1, <1>6, StatProperties DEF IsSound
  <2>2. Writable(f, new) /\ Write(f, new, b).fs = g
    BY <1>6, WriteIsOpen
  <2>3. end \in DOMAIN f => f[end].kind = "file"
    BY <2>2 DEF Writable
  <2> HIDE DEF b
  <2>4. IsSound(g, W)
    BY <1>2, <2>1, <2>2, PutIsSound
  <2>5. ASSUME new = dst PROVE file_to_model(g, dst).ok
    BY <1>2, <2>1, <2>2, <2>5, WrittenIsDescribed
  <2>6. ASSUME Is(f, dst, "dir") PROVE file_to_model(g, dst).ok
    <3>1. dst # end
      BY <2>3, <2>6 DEF Is
    <3>2. dst \in DOMAIN g /\ g[dst] = f[dst]
      BY <2>6, <3>1 DEF Is, Put
    <3> HIDE DEF g
    <3>3. g[dst].kind # "link"
      BY <2>6, <3>2 DEF Is
    <3> QED
      BY <2>4, <3>2, <3>3, PlainIsDescribed
  <2> QED
    BY <1>5, <2>2, <2>5, <2>6
<1> QED
  BY <1>4, <1>6

\* compress touches one entry, whether it raises or not.
LEMMA compressRaises ==
  ASSUME NEW W, NEW f, IsSound(f, W), NEW p \in Path, NEW q \in Path, NEW z,
         NEW o \in compress(f, p, q, z), NEW x \in DOMAIN f \cup DOMAIN o.fs
  PROVE  Same(f, o.fs, x) \/ x = validate_path(f, q)
<1> DEFINE src == validate_path(f, p)
           dst == validate_path(f, q)
<1>1. \A g, y : Raises(g).fs = g /\ file_to_model(g, y).fs = g
  BY AnswerProperties
<1>2. \/ o.fs = f
      \/ Write(f, dst, Junk).ok /\ \E m : o.fs = Write(f, dst, Archive(z, m)).fs
  BY <1>1 DEF compress
<1>3. ASSUME Write(f, dst, Junk).ok, NEW m, o.fs = Write(f, dst, Archive(z, m)).fs, x # dst
      PROVE  Same(f, o.fs, x)
  <2>1. Writable(f, dst)
    BY <1>3, WriteIsOpen
  <2>2. validate_path(f, dst) = dst
    BY <2>1, WritableIsResolved
  <2>3. o.fs = Put(f, dst, File(Archive(z, m)))
    BY <1>3, <2>1, <2>2, WriteIsOpen
  <2> HIDE DEF dst
  <2> QED
    BY <1>3, <2>3 DEF Same, Put
<1> QED
  BY <1>2, <1>3 DEF Same

\* extract changes nothing that was there, whether it raises or not.
LEMMA extractRaises ==
  ASSUME NEW W, NEW f, IsSound(f, W), NEW p \in Path, NEW q \in Path, NEW z,
         NEW o \in extract(f, p, q, z), NEW x \in DOMAIN f \cup DOMAIN o.fs
  PROVE  \/ Same(f, o.fs, x)
         \/ x \notin DOMAIN f /\ (x \in Ancestors(validate_path(f, q)) \/ AtOrUnder(validate_path(f, q), x))
<1> DEFINE src == validate_path(f, p)
           dst == validate_path(f, q)
           g   == WithDirs(f, dst)
           n   == Content(f, src).members
<1>1. src \in Path /\ dst \in Path /\ IsTree(f, W) /\ IsWorld(W)
  BY LinksOfATree DEF IsSound
<1>2. \A h, y : Raises(h).fs = h /\ file_to_model(h, y).fs = h
  BY AnswerProperties
<1>3. n \in Torn(n)
  BY DEF Torn
<1>4. \/ o.fs = f
      \/ /\ Stat(f, dst) \notin {"dir", "file"} /\ Creatable(f, dst)
         /\ \/ o.fs = g
            \/ Stat(f, src) = "file" /\ \E m \in Torn(n) : o.fs = Over(Extracted(m, dst), g)
  BY <1>2, <1>3 DEF extract
<1> HIDE DEF src, dst
<1>5. ASSUME Stat(f, dst) \notin {"dir", "file"}, Creatable(f, dst)
      PROVE  /\ dst \notin DOMAIN f
             /\ DOMAIN g = DOMAIN f \cup Ancestors(dst)
             /\ \A y \in DOMAIN f : g[y] = f[y]
  <2>1. dst \notin DOMAIN f
    BY <1>1, <1>5, FreeTarget
  <2>2. DOMAIN g = DOMAIN f \cup Ancestors(dst)
    BY <1>1, <1>5, SoundWithDirs
  <2>3. \A y \in DOMAIN f : g[y] = f[y]
    BY <1>1, <1>5, WithDirsKeeps
  <2> QED
    BY <2>1, <2>2, <2>3
<1>6. ASSUME Stat(f, src) = "file", NEW m \in Torn(n)
      PROVE  IsTree(m, W)
  <2>1. IsTree(n, W)
    BY <1>1, <1>6, StatProperties DEF IsWorld
  <2> HIDE DEF n
  <2> QED
    BY <1>1, <1>6, <2>1, TornProperties
<1> HIDE DEF n
<1>7. ASSUME Stat(f, dst) \notin {"dir", "file"}, Creatable(f, dst), o.fs = g
      PROVE  Same(f, o.fs, x) \/ (x \notin DOMAIN f /\ x \in Ancestors(dst))
  <2> HIDE DEF g
  <2> QED
    BY <1>5, <1>7 DEF Same
<1>8. ASSUME Stat(f, dst) \notin {"dir", "file"}, Creatable(f, dst), Stat(f, src) = "file",
             NEW m \in Torn(n), o.fs = Over(Extracted(m, dst), g)
      PROVE  \/ Same(f, o.fs, x)
             \/ x \notin DOMAIN f /\ (x \in Ancestors(dst) \/ AtOrUnder(dst, x))
  <2>1. IsTree(m, W) /\ DOMAIN m \subseteq Path
    BY <1>6, <1>8 DEF IsTree
  <2>2. \A y \in DOMAIN f : y \in DOMAIN Over(Extracted(m, dst), g)
                            /\ Over(Extracted(m, dst), g)[y] = f[y]
    BY <1>1, <1>5, <1>8, <2>1, ExtractedProperties
  <2>3. DOMAIN g = DOMAIN f \cup Ancestors(dst)
    BY <1>5, <1>8
  <2> HIDE DEF g
  <2>4. CASE x \in DOMAIN f
    BY <1>8, <2>2, <2>4 DEF Same
  <2>5. CASE x \in DOMAIN Extracted(m, dst)
    <3>1. PICK y \in DOMAIN m : x \in Ancestors(dst \o y)
      BY <2>5 DEF Extracted
    <3>2. y \in Path /\ dst \o y \in Path
      BY <1>1, <2>1, JoinProperties
    <3>3. x \in Path
      BY <3>1, <3>2, AncestorsProperties
    <3>4. x \in Ancestors(dst) \/ dst \in Ancestors(x)
      BY <1>1, <3>1, <3>2, AncestorsBelow
    <3>5. dst \in Ancestors(x) => AtOrUnder(dst, x)
      BY <1>1, <3>3, AncestorBegins
    <3> QED
      BY <2>4, <3>4, <3>5
  <2>6. CASE x \in Ancestors(dst)
    BY <2>4, <2>6
  <2> QED
    BY <1>8, <2>3, <2>4, <2>5, <2>6 DEF Over
<1> QED
  BY <1>4, <1>7, <1>8 DEF Same, dst

\* A request that raises has changed nothing, but at its target, and for what an rm
\* that ran into its timeout had removed.
THEOREM ErrorsAreContainedCorrect == Spec => []ErrorsAreContained
<1>1. Inv => ErrorsAreContained
  <2> SUFFICES ASSUME Inv, NEW op \in Changes, NEW p \in RequestPaths, NEW q \in Seconds(op, p),
                      NEW a \in Options(op), op = "mv" => Stat(fs, p) # "loop",
                      NEW o \in Results(op, fs, p, q, a), ~o.ok, NEW x \in DOMAIN fs \cup DOMAIN o.fs
               PROVE  \/ Same(fs, o.fs, x)
                      \/ op = "compress" /\ x = validate_path(fs, q)
                      \/ op = "symlink" /\ x = validate_path(fs, q) /\ x \notin DOMAIN fs
                      \/ op = "extract" /\ x \notin DOMAIN fs
                         /\ (x \in Ancestors(validate_path(fs, q)) \/ AtOrUnder(validate_path(fs, q), x))
                      \/ op = "rm" /\ AtOrUnder(validate_path(fs, p), x)
    BY DEF ErrorsAreContained, Same
  <2>1. PICK W : IsSound(fs, W)
    BY DEF Inv, IsWellFormed
  <2>2. p \in Path /\ q \in Path
    BY PathsAreKnown DEF Seconds
  <2>3. o.fs = fs => Same(fs, o.fs, x)
    BY DEF Same
  <2>4. CASE op = "mkdir"
    <3>1. a \in BOOLEAN /\ o \in mkdir(fs, p, a)
      BY <2>4 DEF Results, Options
    <3> QED
      BY <2>1, <2>2, <2>3, <3>1, mkdirRaises
  <2>5. CASE op = "symlink"
    <3>1. o \in symlink(fs, p, q)
      BY <2>5 DEF Results
    <3> QED
      BY <2>1, <2>2, <2>5, <3>1, symlinkRaises
  <2>6. CASE op = "rm"
    <3>1. o \in rm(fs, p)
      BY <2>6 DEF Results
    <3> QED
      BY <2>1, <2>2, <2>6, <3>1, rmRaises
  <2>7. CASE op = "upload"
    <3>1. o \in upload(fs, p, a)
      BY <2>7 DEF Results
    <3> QED
      BY <2>3, <3>1, uploadRaises
  <2>8. CASE op = "mv"
    <3>1. o \in mv(fs, p, q)
      BY <2>8 DEF Results
    <3> QED
      BY <2>1, <2>2, <2>3, <2>8, <3>1, mvRaises
  <2>9. CASE op = "cp"
    <3>1. o \in cp(fs, p, q)
      BY <2>9 DEF Results
    <3> QED
      BY <2>1, <2>2, <2>3, <3>1, cpRaises
  <2>10. CASE op = "compress"
    <3>1. o \in compress(fs, p, q, a)
      BY <2>10 DEF Results
    <3> QED
      BY <2>1, <2>2, <2>10, <3>1, compressRaises
  <2>11. CASE op = "extract"
    <3>1. o \in extract(fs, p, q, a)
      BY <2>11 DEF Results
    <3> QED
      BY <2>1, <2>2, <2>11, <3>1, extractRaises
  <2> QED
    BY <2>4, <2>5, <2>6, <2>7, <2>8, <2>9, <2>10, <2>11 DEF Changes
<1> QED
  BY <1>1, InvHolds, PTL

-------------------------------------------------------------------------------
(* A request that is made again.                                           *)

\* A tree and a larger one, whose further entries are not links.
LEMMA SameLinks ==
  ASSUME NEW f, NEW g, DOMAIN f \subseteq DOMAIN g, \A x \in DOMAIN f : g[x] = f[x],
         \A x \in DOMAIN g \ DOMAIN f : g[x].kind # "link"
  PROVE  \A y : validate_path(g, y) = validate_path(f, y)
<1>1. {x \in DOMAIN g : g[x].kind = "link"} = {x \in DOMAIN f : f[x].kind = "link"}
  OBVIOUS
<1>2. LinksOf(g) = LinksOf(f)
  BY <1>1 DEF LinksOf
<1> QED
  BY <1>2 DEF validate_path

\* Directories that mkdir has made are there the next time.
LEMMA mkdirAgain ==
  ASSUME NEW W, NEW f, IsSound(f, W), NEW p \in Path, NEW parent \in BOOLEAN,
         NEW o \in mkdir(f, p, parent), NEW again \in mkdir(o.fs, p, parent)
  PROVE  again.fs = o.fs
<1> DEFINE r == validate_path(f, p)
           g == o.fs
<1>1. r \in Path
  BY LinksOfATree DEF IsSound
<1>2. \A h, y : Raises(h).fs = h /\ file_to_model(h, y).fs = h
  BY AnswerProperties
<1>3. \/ g = f
      \/ parent /\ Creatable(f, r) /\ g = WithDirs(f, r)
      \/ ~parent /\ r \notin DOMAIN f /\ g = Put(f, r, Dir)
  BY <1>2 DEF mkdir
<1>4. Dir.kind = "dir"
  BY DEF Dir
<1>5. ASSUME parent, Creatable(f, r), g = WithDirs(f, r)
      PROVE  validate_path(g, p) = r /\ WithDirs(g, r) = g
  <2> HIDE DEF r, g
  <2>1. DOMAIN g = DOMAIN f \cup Ancestors(r) /\ (\A x \in Ancestors(r) : g[x] = Dir)
    BY <1>5 DEF WithDirs, Over
  <2>2. \A x \in DOMAIN f : g[x] = f[x]
    <3>1. Creatable(f, r) /\ g = WithDirs(f, r)
      BY <1>5
    <3>2. \A x \in DOMAIN f : WithDirs(f, r)[x] = f[x]
      BY <1>1, <3>1, WithDirsKeeps
    <3> QED
      BY <3>1, <3>2
  <2>3. validate_path(g, p) = validate_path(f, p)
    BY <1>4, <2>1, <2>2, SameLinks
  <2>4. g = [x \in DOMAIN g |-> g[x]]
    BY <1>5 DEF WithDirs, Over
  <2>5. WithDirs(g, r) = [x \in DOMAIN g |-> g[x]]
    BY <2>1 DEF WithDirs, Over
  <2> QED
    BY <2>3, <2>4, <2>5 DEF r
<1>6. ASSUME ~parent, r \notin DOMAIN f, g = Put(f, r, Dir)
      PROVE  validate_path(g, p) = r /\ r \in DOMAIN g
  <2> HIDE DEF r, g
  <2>1. DOMAIN g = DOMAIN f \cup {r} /\ g[r] = Dir /\ \A x \in DOMAIN f : g[x] = f[x]
    BY <1>6 DEF Put
  <2>2. validate_path(g, p) = validate_path(f, p)
    BY <1>4, <2>1, SameLinks
  <2> QED
    BY <2>1, <2>2 DEF r
<1>7. CASE g = f /\ again.fs # g
  <2>1. \/ parent /\ Creatable(f, r) /\ again.fs = WithDirs(f, r)
        \/ ~parent /\ r \notin DOMAIN f /\ Is(f, Above(r), "dir") /\ again.fs = Put(f, r, Dir)
    BY <1>2, <1>7 DEF mkdir
  <2> QED
    BY <1>2, <1>7, <2>1 DEF mkdir
<1>8. CASE parent /\ Creatable(f, r) /\ g = WithDirs(f, r)
  BY <1>2, <1>5, <1>8 DEF mkdir
<1>9. CASE ~parent /\ r \notin DOMAIN f /\ g = Put(f, r, Dir)
  BY <1>2, <1>6, <1>9 DEF mkdir
<1> QED
  BY <1>3, <1>7, <1>8, <1>9

\* What has been written is where it would be written again.
LEMMA WrittenAgain ==
  ASSUME NEW f, NEW p, Writable(f, p), NEW b, NEW g, g = Put(f, validate_path(f, p), File(b))
  PROVE  /\ \A y : validate_path(g, y) = validate_path(f, y)
         /\ Write(g, p, b).fs = g
<1> DEFINE r == validate_path(f, p)
<1>1. LinksOf(g) = LinksOf(f)
  BY WriteKeepsLinks
<1>2. \A y : validate_path(g, y) = validate_path(f, y)
  BY <1>1 DEF validate_path
<1>3. validate_path(g, p) = r
  BY <1>2
<1> HIDE DEF r
<1>4. g = [x \in DOMAIN g |-> g[x]] /\ r \in DOMAIN g /\ g[r] = File(b)
  BY DEF Put, r
<1>5. Put(g, r, File(b)) = g
  BY <1>4 DEF Put
<1>6. Write(g, p, b).fs = g \/ Write(g, p, b).fs = Put(g, r, File(b))
  BY <1>3, WriteIsOpen
<1> QED
  BY <1>2, <1>5, <1>6

\* The same for an upload.
LEMMA uploadAgain ==
  ASSUME NEW f, NEW p, NEW t, NEW o \in upload(f, p, t), o.ok,
         NEW again \in upload(o.fs, p, t)
  PROVE  again.fs = o.fs
<1>1. o = Write(f, p, Text(t)) /\ again = Write(o.fs, p, Text(t))
  BY DEF upload
<1>2. Writable(f, p) /\ o.fs = Put(f, validate_path(f, p), File(Text(t)))
  BY <1>1, WriteIsOpen
<1> QED
  BY <1>1, <1>2, WrittenAgain

\* A second copy finds the source and the target that the first one found.
LEMMA cpAgain ==
  ASSUME NEW W, NEW f, IsSound(f, W), NEW p \in Path, NEW q \in Path,
         NEW o \in cp(f, p, q), o.ok, NEW again \in cp(o.fs, p, q)
  PROVE  again.fs = o.fs
<1> DEFINE src == validate_path(f, p)
           dst == validate_path(f, q)
           new == Landing(f, src, dst)
           end == validate_path(f, new)
           b   == Content(f, src)
           g   == o.fs
<1>1. src \in Path /\ dst \in Path
  BY LinksOfATree DEF IsSound
<1>2. new \in Path
  BY <1>1, LandingProperties
<1>3. \A h, y : Raises(h).fs = h /\ ~Raises(h).ok /\ file_to_model(h, y).fs = h
  BY AnswerProperties
<1>4. Stat(f, src) = "file" /\ end # src /\ Write(f, new, b).ok /\ g = Write(f, new, b).fs
  BY <1>3 DEF cp
<1>5. Writable(f, new) /\ g = Put(f, end, File(b))
  BY <1>4, WriteIsOpen
<1>6. /\ \A y : validate_path(g, y) = validate_path(f, y)
      /\ Write(g, new, b).fs = g
  <2> HIDE DEF b, g, new
  <2> QED
    BY <1>5, WrittenAgain
<1>7. validate_path(f, src) = src
  BY <1>4, PlainIsResolved
<1>8. Content(g, src) = b
  <2>1. src \in DOMAIN f
    BY <1>1, <1>4, <1>7, StatProperties DEF IsSound, Is
  <2> HIDE DEF src, end, g
  <2>2. g[src] = f[src]
    BY <1>4, <1>5, <2>1 DEF Put
  <2> QED
    BY <1>6, <1>7, <2>2 DEF Content
<1>9. Landing(g, src, dst) = new
  <2>1. end \in DOMAIN f => f[end].kind = "file"
    BY <1>5 DEF Writable
  <2>2. File(b).kind # "dir"
    BY DEF File
  <2>3. Is(g, dst, "dir") <=> Is(f, dst, "dir")
    <3> HIDE DEF src, dst, end, b, g
    <3> QED
      BY <1>5, <2>1, <2>2 DEF Is, Put
  <2> QED
    BY <2>3 DEF Landing
<1>10. again.fs = g \/ again.fs = Write(g, new, b).fs
  <2>1. validate_path(g, p) = src /\ validate_path(g, q) = dst
    BY <1>6
  <2> HIDE DEF src, dst, new, b, g
  <2>2. \/ again = Raises(g)
        \/ again = file_to_model(Write(g, new, b).fs, dst)
    BY <1>8, <1>9, <2>1 DEF cp, g
  <2> QED
    BY <1>3, <2>2
<1> QED
  BY <1>6, <1>10

\* A file that is not in a subtree is not in what is seen of it.
LEMMA SubtreeBeside ==
  ASSUME NEW W, NEW f, IsTree(f, W), NEW V, NEW g, IsTree(g, V),
         NEW src \in Path, NEW dst \in Path, ~AtOrUnder(src, dst), NEW n, g = Put(f, dst, n)
  PROVE  Subtree(g, src, src) = Subtree(f, src, src)
<1> DEFINE a == Subtree(f, src, src)
           c == Subtree(g, src, src)
<1>1. DOMAIN g = DOMAIN f \cup {dst} /\ \A x \in DOMAIN f : x # dst => g[x] = f[x]
  BY DEF Put
<1>2. /\ IsTree(c, V)
      /\ \A y : y \in DOMAIN c <=> y \in Path /\ AtOrUnder(src, y) /\ src \o From(src, y) \in DOMAIN g
      /\ \A y \in DOMAIN c : c[y] = g[src \o From(src, y)]
  <2>1. IsTree(g, V) /\ src \in Path
    OBVIOUS
  <2> QED
    BY ONLY <2>1, SubtreeProperties
<1>3. /\ IsTree(a, W)
      /\ \A y : y \in DOMAIN a <=> y \in Path /\ AtOrUnder(src, y) /\ src \o From(src, y) \in DOMAIN f
      /\ \A y \in DOMAIN a : a[y] = f[src \o From(src, y)]
  BY SubtreeProperties
<1>4. \A y \in Path : AtOrUnder(src, y) => src \o From(src, y) = y
  BY JoinProperties
<1> HIDE DEF a, c
<1>5. \A y \in Path : AtOrUnder(src, y) => (y \in DOMAIN g <=> y \in DOMAIN f) /\ y # dst
  BY <1>1
<1>6. DOMAIN c = DOMAIN a
  BY <1>2, <1>3, <1>4, <1>5
<1>7. \A y \in DOMAIN a : c[y] = a[y]
  <2> SUFFICES ASSUME NEW y \in DOMAIN a PROVE c[y] = a[y]
    OBVIOUS
  <2>1. y \in Path /\ AtOrUnder(src, y) /\ a[y] = f[src \o From(src, y)]
    BY <1>3
  <2>2. c[y] = g[src \o From(src, y)]
    BY <1>2, <1>6
  <2>3. src \o From(src, y) = y
    BY <1>4, <2>1
  <2> QED
    BY <1>1, <1>3, <1>5, <2>1, <2>2, <2>3
<1>8. c = [y \in DOMAIN c |-> c[y]] /\ a = [y \in DOMAIN a |-> a[y]]
  BY <1>2, <1>3 DEF IsTree
<1> QED
  BY <1>6, <1>7, <1>8 DEF a, c

\* A second archive has the members of the first.
LEMMA compressAgain ==
  ASSUME NEW W, NEW f, IsSound(f, W), NEW p \in Path, NEW q \in Path, NEW z,
         ~Overlap(f, p, q), NEW o \in compress(f, p, q, z), o.ok,
         NEW again \in compress(o.fs, p, q, z)
  PROVE  again.fs = o.fs
<1> DEFINE src == validate_path(f, p)
           dst == validate_path(f, q)
           m   == Subtree(f, src, src)
           b   == Archive(z, m)
           g   == o.fs
<1>1. src \in Path /\ dst \in Path /\ IsTree(f, W) /\ IsTree(m, W)
  BY LinksOfATree, SubtreeProperties DEF IsSound
<1>2. \A h, y : Raises(h).fs = h /\ ~Raises(h).ok /\ file_to_model(h, y).fs = h
  BY AnswerProperties
<1>3. ~AtOrUnder(src, dst)
  BY DEF Overlap
<1>4. Write(f, dst, Junk).ok /\ src \in DOMAIN f /\ g = Write(f, dst, b).fs
  BY <1>2, <1>3 DEF compress, Archived
<1> HIDE DEF src, dst, b
<1>5. Writable(f, dst) /\ dst # <<>> /\ validate_path(f, dst) = dst
  BY <1>1, <1>4, WriteIsOpen, WritableIsResolved, WritableProperties DEF dst
<1>6. g = Put(f, dst, File(b))
  BY <1>4, <1>5, WriteIsOpen
<1>7. /\ \A y : validate_path(g, y) = validate_path(f, y)
      /\ Write(g, dst, b).fs = g
  <2>1. g = Put(f, validate_path(f, dst), File(b))
    BY <1>5, <1>6
  <2> HIDE DEF g
  <2> QED
    BY <1>5, <2>1, WrittenAgain
<1>8. DOMAIN g = DOMAIN f \cup {dst} /\ \A x \in DOMAIN f : x # dst => g[x] = f[x]
  BY <1>6 DEF Put
<1>9. Subtree(g, src, src) = m
  <2>1. HasTop(m)
    BY <1>1, PackedHasTop
  <2>2. IsWellFormed(g)
    <3> HIDE DEF g, m
    <3> QED
      BY <1>1, <1>4, <2>1, ArchiveIsSound DEF b
  <2>3. PICK V : IsTree(g, V)
    BY <2>2 DEF IsWellFormed, IsSound
  <2> HIDE DEF g
  <2> QED
    BY <1>1, <1>3, <1>6, <2>3, SubtreeBeside
<1>10. Archived(g, src, dst) = {m}
  BY <1>3, <1>9 DEF Archived
<1>11. src \in DOMAIN g
  BY <1>4, <1>8
<1>12. validate_path(g, p) = src /\ validate_path(g, q) = dst
  BY <1>7 DEF src, dst
<1> HIDE DEF g, m
<1>13. again.fs = g \/ again.fs = Write(g, dst, b).fs
  <2>1. \/ again = Raises(g)
        \/ again = file_to_model(Write(g, dst, b).fs, dst)
    <3>1. again \in compress(g, p, q, z)
      BY DEF g
    <3> QED
      BY <1>3, <1>10, <1>11, <1>12, <3>1 DEF compress, b
  <2> QED
    BY <1>2, <2>1
<1> QED
  BY <1>7, <1>13 DEF g

\* What is removed leads nowhere the next time, or to what was removed.
LEMMA rmAgain ==
  ASSUME NEW W, NEW f, IsSound(f, W), NEW p \in Path,
         NEW o \in rm(f, p), o.ok, NEW again \in rm(o.fs, p)
  PROVE  again.fs = o.fs
<1> DEFINE r == validate_path(f, p)
           g == o.fs
           s == validate_path(g, p)
           l == LinksOf(f)
           k == LinksOf(g)
<1>1. r \in Path /\ IsTree(f, W) /\ IsLinkMap(l) /\ r = realpath(l, p)
  BY LinksOfATree DEF IsSound, validate_path
<1>2. \A h, y : Raises(h).fs = h /\ ~Raises(h).ok /\ Answers(h).fs = h
  BY AnswerProperties
<1>3. r # <<>> /\ g = Without(f, r)
  BY <1>2 DEF rm
<1> HIDE DEF r, g
<1>4. /\ DOMAIN g = {x \in DOMAIN f : ~AtOrUnder(r, x)}
      /\ \A x \in DOMAIN g : g[x] = f[x]
      /\ IsTree(g, W)
  <2>1. IsSound(Without(f, r), W)
    BY <1>1, <1>3, WithoutProperties
  <2>2. DOMAIN Without(f, r) = {x \in DOMAIN f : ~AtOrUnder(r, x)}
    BY DEF Without, Restrict
  <2>3. \A x \in DOMAIN Without(f, r) : Without(f, r)[x] = f[x]
    BY DEF Without, Restrict
  <2> QED
    BY <1>3, <2>1, <2>2, <2>3 DEF IsSound
<1>5. IsLinkMap(k) /\ s \in Path /\ s = realpath(k, p)
  BY <1>4, LinksOfATree DEF validate_path
<1>6. /\ DOMAIN k = {x \in DOMAIN l : ~AtOrUnder(r, x)}
      /\ \A x \in DOMAIN k : k[x] = l[x]
  BY <1>4 DEF LinksOf
<1> HIDE DEF l, k, s
<1>7. IsCleared(l, k, r)
  BY <1>6 DEF IsCleared
<1>8. AtOrUnder(r, s)
  <2>1. \A x \in DOMAIN k \ DOMAIN l : ~AtOrUnder(x, r)
    BY <1>6
  <2>2. s = r \/ AtOrUnder(r, s)
    BY <1>1, <1>5, <1>7, <2>1, ResolvedWhenCleared
  <2> QED
    BY <1>1, <2>2, UnderProperties
<1>9. ASSUME NEW x \in DOMAIN g PROVE ~AtOrUnder(s, x)
  <2>1. x \in Path /\ ~AtOrUnder(r, x)
    BY <1>4 DEF IsTree
  <2> QED
    BY <1>1, <1>5, <1>8, <2>1, UnderProperties
<1>10. Without(g, s) = g
  <2>1. {x \in DOMAIN g : ~AtOrUnder(s, x)} = DOMAIN g
    BY <1>9
  <2>2. g = [x \in DOMAIN g |-> g[x]]
    BY <1>4 DEF IsTree
  <2> QED
    BY <2>1, <2>2 DEF Without, Restrict
<1>11. ASSUME NEW n \in Parts(Subtree(g, s, s)) PROVE Over(n, g) = g
  <2> DEFINE m == Subtree(g, s, s)
  <2>1. /\ \A y : y \in DOMAIN m <=> y \in Path /\ AtOrUnder(s, y) /\ s \o From(s, y) \in DOMAIN g
        /\ IsTree(m, W)
    BY <1>4, <1>5, SubtreeProperties
  <2>2. DOMAIN n \subseteq DOMAIN m
    <3> HIDE DEF m
    <3> QED
      BY <2>1, PartsProperties DEF m
  <2> HIDE DEF m
  <2>3. ASSUME NEW y \in DOMAIN m PROVE FALSE
    <3>1. y \in Path /\ AtOrUnder(s, y) /\ s \o From(s, y) \in DOMAIN g
      BY <2>1
    <3>2. s \o From(s, y) = y
      BY <1>5, <3>1, JoinProperties
    <3> QED
      BY <1>9, <3>1, <3>2
  <2>4. DOMAIN n = {}
    BY <2>2, <2>3
  <2>5. g = [x \in DOMAIN g |-> g[x]]
    BY <1>4 DEF IsTree
  <2> QED
    BY <2>4, <2>5 DEF Over
<1>12. \/ again.fs = g
       \/ again.fs = Without(g, s)
       \/ \E n \in Parts(Subtree(g, s, s)) : again.fs = Over(n, Without(g, s))
  <2>1. again \in rm(g, p)
    BY DEF g
  <2> QED
    BY <1>2, <2>1 DEF rm, rmCut, s
<1> QED
  BY <1>10, <1>11, <1>12 DEF g

\* The directory that extract has made is in the way of the next one.
LEMMA extractAgain ==
  ASSUME NEW W, NEW f, IsSound(f, W), NEW p \in Path, NEW q \in Path, NEW z,
         NEW o \in extract(f, p, q, z), o.ok, NEW again \in extract(o.fs, p, q, z)
  PROVE  again.fs = o.fs
<1> DEFINE src == validate_path(f, p)
           dst == validate_path(f, q)
           m   == Content(f, src).members
           g   == o.fs
           l   == LinksOf(f)
           k   == LinksOf(g)
           t   == validate_path(g, q)
<1>1. src \in Path /\ dst \in Path /\ IsTree(f, W) /\ IsLinkMap(l) /\ dst = realpath(l, q)
  BY LinksOfATree DEF IsSound, validate_path
<1>2. \A h, y : Raises(h).fs = h /\ ~Raises(h).ok /\ file_to_model(h, y).fs = h
  BY AnswerProperties
<1>3. /\ Stat(f, dst) \notin {"dir", "file"} /\ Creatable(f, dst)
      /\ Stat(f, src) = "file" /\ g = Over(Extracted(m, dst), WithDirs(f, dst))
  BY <1>2 DEF extract
<1>4. IsTree(m, W) /\ HasTop(m)
  BY <1>1, <1>3, StatProperties DEF IsSound, IsWorld
<1> HIDE DEF src, dst, m, g
<1>5. dst \notin DOMAIN f
  BY <1>1, <1>3, FreeTarget
<1>6. /\ IsSound(g, W)
      /\ \A y \in Path : AtOrUnder(dst, y) /\ y # dst /\ y \in DOMAIN g => y \notin DOMAIN f
      /\ \A y \in DOMAIN f : y \in DOMAIN g /\ g[y] = f[y]
  <2>1. IsSound(g, W) /\ \A y \in DOMAIN f : y \in DOMAIN g /\ g[y] = f[y]
    BY <1>1, <1>3, <1>4, <1>5, ExtractedProperties
  <2>2. \A y \in Path : AtOrUnder(dst, y) => y \notin DOMAIN f
    BY <1>1, <1>5 DEF IsSound, IsRooted
  <2> QED
    BY <2>1, <2>2
<1>7. dst \in DOMAIN g /\ g[dst].kind = "dir"
  <2>1. dst \in Ancestors(dst) /\ From(dst, dst) = <<>> /\ AtOrUnder(dst, dst)
    <3>1. \A a \in Path : From(dst, dst \o a) = a
      BY <1>1, JoinProperties
    <3>2. dst \o <<>> = dst /\ <<>> \in Path
      BY <1>1, ConcatEmptySeq, UnderProperties DEF Path
    <3> QED
      BY <1>1, <3>1, <3>2, AncestorsProperties, UnderProperties
  <2>2. Dir.kind = "dir"
    BY DEF Dir
  <2>3. dst \in DOMAIN WithDirs(f, dst) /\ WithDirs(f, dst)[dst] = Dir
    BY <2>1 DEF WithDirs, Over
  <2>4. dst \in DOMAIN Extracted(m, dst) => Extracted(m, dst)[dst] = (IF <<>> \in DOMAIN m THEN m[<<>>] ELSE Dir)
    BY <2>1 DEF Extracted
  <2>5. <<>> \in DOMAIN m => m[<<>>].kind = "dir"
    BY <1>4 DEF HasTop
  <2> QED
    BY <1>3, <2>2, <2>3, <2>4, <2>5 DEF Over
<1>8. IsLinkMap(k) /\ t \in Path /\ t = realpath(k, q)
  BY <1>6, LinksOfATree DEF validate_path, IsSound
<1>9. /\ \A x : x \in DOMAIN l <=> x \in DOMAIN f /\ f[x].kind = "link"
      /\ \A x \in DOMAIN l : l[x] = f[x].to
      /\ \A x : x \in DOMAIN k <=> x \in DOMAIN g /\ g[x].kind = "link"
      /\ \A x \in DOMAIN k : k[x] = g[x].to
  BY DEF LinksOf
<1> HIDE DEF l, k, t
<1>10. ASSUME NEW x \in DOMAIN k, x \notin DOMAIN l
       PROVE  x \in Path /\ AtOrUnder(dst, x) /\ x # dst
  <2>1. x \in DOMAIN g /\ g[x].kind = "link" /\ x \notin DOMAIN f /\ x # dst
    BY <1>6, <1>7, <1>9, <1>10
  <2>2. x \in Path
    BY <1>6, <2>1 DEF IsSound, IsTree
  <2>3. x \in DOMAIN Extracted(m, dst) \/ x \in Ancestors(dst)
    BY <1>3, <2>1 DEF WithDirs, Over
  <2>4. CASE x \in Ancestors(dst)
    <3>1. AtOrUnder(x, dst)
      BY <1>1, <2>2, <2>4, UnderProperties
    <3> QED
      BY <1>6, <1>7, <2>1, <2>2, <3>1 DEF IsSound, IsTree
  <2>5. CASE x \in DOMAIN Extracted(m, dst)
    <3>1. PICK y \in DOMAIN m : x \in Ancestors(dst \o y)
      BY <2>5 DEF Extracted
    <3>2. y \in Path
      BY <1>4, <3>1 DEF IsTree
    <3>3. x \in Ancestors(dst) \/ dst \in Ancestors(x)
      BY <1>1, <3>1, <3>2, AncestorsBelow
    <3> QED
      BY <1>1, <2>1, <2>2, <2>4, <3>3, UnderProperties
  <2> QED
    BY <2>3, <2>4, <2>5
<1>11. ASSUME NEW y \in DOMAIN l PROVE y \in Path /\ ~AtOrUnder(dst, y) /\ ~AtOrUnder(y, dst)
  <2>1. y \in DOMAIN f /\ f[y].kind = "link" /\ y \in Path
    BY <1>1, <1>9 DEF IsTree
  <2>2. ~AtOrUnder(dst, y)
    BY <1>1, <1>5, <2>1 DEF IsSound, IsRooted
  <2>3. ~AtOrUnder(y, dst)
    <3>1. y \notin Ancestors(dst)
      BY <1>3, <2>1 DEF Creatable
    <3> QED
      BY <1>1, <2>1, <3>1, UnderProperties
  <2> QED
    BY <2>1, <2>2, <2>3
<1>12. IsCleared(l, k, dst)
  <2>1. ASSUME NEW x \in DOMAIN l PROVE x \in DOMAIN k /\ k[x] = l[x]
    BY <1>6, <1>9
  <2>2. ASSUME NEW x \in DOMAIN k, x \notin DOMAIN l, NEW y \in DOMAIN l
        PROVE  ~AtOrUnder(x, y) /\ ~AtOrUnder(y, x)
    <3>1. x \in Path /\ AtOrUnder(dst, x) /\ y \in Path /\ ~AtOrUnder(dst, y) /\ ~AtOrUnder(y, dst)
      BY <1>10, <1>11, <2>2
    <3> QED
      BY <1>1, <3>1, UnderProperties
  <2> QED
    BY <1>11, <2>1, <2>2 DEF IsCleared
<1>13. t = dst
  <2>1. \A x \in DOMAIN k \ DOMAIN l : ~AtOrUnder(x, dst)
    BY <1>1, <1>10, UnderProperties
  <2> QED
    BY <1>1, <1>8, <1>11, <1>12, <2>1, ResolvedWhenCleared
<1>14. Stat(g, dst) = "dir"
  BY <1>6, <1>7, PlainIsDescribed
<1>15. again = Raises(g)
  <2>1. again \in extract(g, p, q, z)
    BY DEF g
  <2> QED
    BY <1>13, <1>14, <2>1 DEF extract, t
<1> QED
  BY <1>2, <1>15 DEF g

\* What has moved is not found again: the path leads to where it was, or on to what
\* is not there, or the move would be onto itself.
LEMMA mvAgain ==
  ASSUME NEW W, NEW f, IsSound(f, W), NEW p \in Path, NEW q \in Path,
         NEW o \in mv(f, p, q), o.ok, NEW again \in mv(o.fs, p, q)
  PROVE  again.fs = o.fs
<1> DEFINE src == validate_path(f, p)
           dst == validate_path(f, q)
           new == Landing(f, src, dst)
           g   == o.fs
           s   == validate_path(g, p)
           d   == validate_path(g, q)
           l   == LinksOf(f)
           k   == LinksOf(g)
<1>1. src \in Path /\ dst \in Path /\ IsTree(f, W) /\ IsLinkMap(l)
      /\ src = realpath(l, p) /\ dst = realpath(l, q)
  BY LinksOfATree DEF IsSound, validate_path
<1>2. new \in Path /\ new # <<>>
  BY <1>1, LandingProperties
<1>3. \A h, y : Raises(h).fs = h /\ ~Raises(h).ok /\ file_to_model(h, y).fs = h
  BY AnswerProperties
<1>4. /\ src \in DOMAIN f /\ ~AtOrUnder(src, new) /\ Is(f, Above(new), "dir")
      /\ new \in DOMAIN f => /\ Is(f, new, "dir") <=> Is(f, src, "dir")
                             /\ \A x \in DOMAIN f : AtOrUnder(new, x) => x = new
      /\ g = Over(Subtree(f, src, new), Without(f, src))
  BY <1>3 DEF mv
<1>5. \/ new = dst /\ ~Is(f, dst, "dir")
      \/ Is(f, dst, "dir") /\ new = Append(dst, BaseName(src))
  BY DEF Landing
<1> HIDE DEF src, dst, new, g
<1>6. \A x \in DOMAIN f : AtOrUnder(new, x) => x = new
  BY <1>2, <1>4 DEF IsSound, IsRooted
<1>7. /\ IsSound(g, W)
      /\ new \in DOMAIN g /\ g[new] = f[src]
      /\ \A y : y \in DOMAIN g <=>
             \/ y \in Path /\ AtOrUnder(new, y) /\ src \o From(new, y) \in DOMAIN f
             \/ y \in DOMAIN f /\ ~AtOrUnder(src, y)
      /\ \A y \in DOMAIN g : ~AtOrUnder(new, y) =>
             y \in DOMAIN f /\ ~AtOrUnder(src, y) /\ g[y] = f[y]
  BY <1>1, <1>2, <1>4, <1>6, MoveProperties
<1>8. IsTree(g, W) /\ \A y \in DOMAIN g : y \in Path
  BY <1>7 DEF IsSound, IsTree
<1>9. /\ IsLinkMap(k) /\ s \in Path /\ s = realpath(k, p) /\ d \in Path /\ d = realpath(k, q)
  BY <1>8, LinksOfATree DEF validate_path
<1>10. /\ \A x : x \in DOMAIN l <=> x \in DOMAIN f /\ f[x].kind = "link"
       /\ \A x \in DOMAIN l : l[x] = f[x].to
       /\ \A x : x \in DOMAIN k <=> x \in DOMAIN g /\ g[x].kind = "link"
       /\ \A x \in DOMAIN k : k[x] = g[x].to
  BY DEF LinksOf
<1>11. \/ again.fs = g
       \/ s \in DOMAIN g /\ ~AtOrUnder(s, Landing(g, s, d))
  <2>1. again \in mv(g, p, q)
    BY DEF g
  <2> QED
    BY <1>3, <2>1 DEF mv
<1> HIDE DEF l, k, s, d
<1>12. \A y \in DOMAIN f : y \in Path
  BY <1>1 DEF IsTree
<1>13. ASSUME AtOrUnder(src, s) PROVE s \notin DOMAIN g
  <2> SUFFICES ASSUME s \in DOMAIN g PROVE FALSE
    OBVIOUS
  <2>1. AtOrUnder(new, s)
    BY <1>7, <1>13
  <2>2. AtOrUnder(new, src)
    BY <1>1, <1>2, <1>4, <1>9, <1>13, <2>1, UnderProperties
  <2>3. src = new
    BY <1>4, <1>6, <2>2
  <2> QED
    BY <1>2, <1>4, <2>3, UnderProperties
<1>14. CASE new \in DOMAIN f => f[new].kind # "link"
  <2>1. ASSUME NEW x \in DOMAIN l PROVE x \in Path /\ x \in DOMAIN f /\ ~AtOrUnder(new, x) /\ ~AtOrUnder(x, new)
    <3>1. x \in Path /\ x \in DOMAIN f /\ f[x].kind = "link"
      BY <1>10, <1>12
    <3>2. x # new
      BY <1>14, <3>1
    <3>3. ~AtOrUnder(new, x)
      BY <1>6, <3>1, <3>2
    <3>4. ASSUME AtOrUnder(x, new) PROVE FALSE
      <4>1. Above(new) \in Path /\ AtOrUnder(x, Above(new))
        BY <1>2, <3>1, <3>2, <3>4, AboveIsUnder
      <4>2. Above(new) \in DOMAIN f /\ f[Above(new)].kind = "dir"
        BY <1>4 DEF Is
      <4> QED
        BY <1>1, <3>1, <4>1, <4>2 DEF IsTree
    <3> QED
      BY <3>1, <3>3, <3>4
  <2>2. ASSUME NEW x \in DOMAIN l, ~AtOrUnder(src, x) PROVE x \in DOMAIN k /\ k[x] = l[x]
    <3>1. x \in DOMAIN f /\ x \in DOMAIN g /\ ~AtOrUnder(new, x) /\ f[x].kind = "link"
      BY <1>7, <1>10, <2>1, <2>2
    <3>2. g[x] = f[x]
      BY <1>7, <3>1
    <3> QED
      BY <1>10, <3>1, <3>2
  <2>3. ASSUME NEW x \in DOMAIN k
        PROVE  (x \in DOMAIN l /\ ~AtOrUnder(src, x)) \/ (x \notin DOMAIN l /\ AtOrUnder(new, x))
    BY <1>7, <1>10, <2>1
  <2>4. ASSUME NEW x \in DOMAIN k, AtOrUnder(new, x), NEW y \in DOMAIN l
        PROVE  ~AtOrUnder(x, y) /\ ~AtOrUnder(y, x)
    <3>1. x \in Path /\ y \in Path /\ ~AtOrUnder(new, y) /\ ~AtOrUnder(y, new)
      BY <1>8, <1>10, <2>1
    <3> QED
      BY <1>2, <2>4, <3>1, UnderProperties
  <2>5. IsCleared(l, k, src)
    BY <2>2, <2>3, <2>4 DEF IsCleared
  <2>6. \A x \in DOMAIN k \ DOMAIN l : ~AtOrUnder(x, src)
    <3> SUFFICES ASSUME NEW x \in DOMAIN k, x \notin DOMAIN l, AtOrUnder(x, src) PROVE FALSE
      OBVIOUS
    <3>1. x \in Path /\ AtOrUnder(new, x)
      BY <1>8, <1>10, <2>3
    <3>2. AtOrUnder(new, src)
      BY <1>1, <1>2, <3>1, UnderProperties
    <3>3. src = new
      BY <1>4, <1>6, <3>2
    <3> QED
      BY <1>2, <1>4, <3>3, UnderProperties
  <2>7. AtOrUnder(src, s)
    <3>1. s = src \/ AtOrUnder(src, s)
      BY <1>1, <1>9, <2>5, <2>6, ResolvedWhenCleared
    <3> QED
      BY <1>1, <3>1, UnderProperties
  <2> QED
    BY <1>11, <1>13, <2>7 DEF g
<1>15. CASE new \in DOMAIN f /\ f[new].kind = "link"
  <2>1. f[src].kind # "dir" /\ src # new /\ ~AtOrUnder(new, src)
    <3>1. ~Is(f, new, "dir")
      BY <1>15 DEF Is
    <3>2. f[src].kind # "dir"
      BY <1>4, <1>15, <3>1 DEF Is
    <3>3. src # new
      BY <1>2, <1>4, UnderProperties
    <3> QED
      BY <1>4, <1>6, <3>2, <3>3
  <2>2. ASSUME NEW y \in DOMAIN f, AtOrUnder(src, y) PROVE y = src
    BY <1>1, <1>4, <1>12, <2>1, <2>2 DEF IsTree
  <2>3. \A y : y \in DOMAIN g <=> y \in DOMAIN f /\ y # src
    <3>1. ASSUME NEW y \in DOMAIN g PROVE y \in DOMAIN f /\ y # src
      <4>1. CASE AtOrUnder(new, y)
        <5>1. y \in Path
          BY <1>8
        <5>2. y = new
          <6>1. y # new => g[new].kind = "dir"
            BY <1>7, <1>8, <4>1, <5>1 DEF IsTree
          <6> QED
            BY <1>7, <2>1, <6>1
        <5> QED
          BY <1>15, <2>1, <5>2
      <4>2. CASE ~AtOrUnder(new, y)
        <5>1. y \in DOMAIN f /\ ~AtOrUnder(src, y)
          BY <1>7, <4>2
        <5> QED
          BY <1>1, <5>1, UnderProperties
      <4> QED
        BY <4>1, <4>2
    <3>2. ASSUME NEW y \in DOMAIN f, y # src PROVE y \in DOMAIN g
      BY <1>7, <2>2, <3>2
    <3> QED
      BY <3>1, <3>2
  <2>4. \A y \in DOMAIN g : y # new => g[y] = f[y] /\ ~AtOrUnder(new, y)
    <3> SUFFICES ASSUME NEW y \in DOMAIN g, y # new PROVE g[y] = f[y] /\ ~AtOrUnder(new, y)
      OBVIOUS
    <3>1. ~AtOrUnder(new, y)
      BY <1>6, <2>3
    <3> QED
      BY <1>7, <3>1
  <2>5. CASE f[src].kind = "link"
    <3>1. /\ src \in DOMAIN l /\ new \in DOMAIN l
          /\ k[new] = l[src]
      BY <1>4, <1>7, <1>10, <1>15, <2>5
    <3>2. \A y : y \in DOMAIN k <=> y \in DOMAIN l /\ y # src
      <4>1. g[new].kind = "link"
        BY <1>7, <2>5
      <4> QED
        BY <1>10, <1>15, <2>3, <2>4, <4>1
    <3>3. \A y \in DOMAIN k : y # new => k[y] = l[y]
      BY <1>10, <2>4, <3>2
    <3>4. \A x, y \in DOMAIN l : AtOrUnder(x, y) => x = y
      <4> SUFFICES ASSUME NEW x \in DOMAIN l, NEW y \in DOMAIN l, AtOrUnder(x, y) PROVE x = y
        OBVIOUS
      <4>1. x \in DOMAIN f /\ y \in DOMAIN f /\ f[x].kind = "link"
        BY <1>10
      <4> QED
        BY <1>1, <4>1 DEF IsTree
    <3>5. DOMAIN k = DOMAIN l \ {src}
      BY <3>2
    <3>6. IsRedirected(l, k, src, new)
      BY <2>1, <3>1, <3>3, <3>4, <3>5 DEF IsRedirected
    <3>7. \/ AtOrUnder(src, s)
          \/ \E x \in DOMAIN k : AtOrUnder(x, s) /\ x # s
      BY <1>1, <1>9, <3>6, ResolvedWhenRedirected
    <3>8. ASSUME NEW x \in DOMAIN k, AtOrUnder(x, s), x # s PROVE s \notin DOMAIN g
      <4>1. x \in DOMAIN g /\ g[x].kind = "link"
        BY <1>10
      <4> QED
        BY <1>8, <3>8, <4>1 DEF IsTree
    <3> QED
      BY <1>11, <1>13, <3>7, <3>8 DEF g
  <2>6. CASE f[src].kind # "link"
    <3>1. \A y : y \in DOMAIN k <=> y \in DOMAIN l /\ y # new
      <4>1. g[new].kind # "link"
        BY <1>7, <2>6
      <4> QED
        BY <1>10, <1>4, <2>3, <2>4, <2>6, <4>1
    <3>2. \A y \in DOMAIN k : k[y] = l[y]
      BY <1>10, <2>4, <3>1
    <3>3. IsCleared(l, k, new)
      <4>1. ASSUME NEW y \in DOMAIN l PROVE AtOrUnder(new, y) <=> y = new
        BY <1>2, <1>6, <1>10, UnderProperties
      <4> QED
        BY <3>1, <3>2, <4>1 DEF IsCleared
    <3>4. DOMAIN k \ DOMAIN l = {}
      BY <3>1
    <3>5. s = src \/ AtOrUnder(new, s)
      BY <1>1, <1>2, <1>9, <3>3, <3>4, ResolvedWhenCleared
    <3>6. d = dst \/ AtOrUnder(new, d)
      BY <1>1, <1>2, <1>9, <3>3, <3>4, ResolvedWhenCleared
    <3>7. s \in DOMAIN g => s = new
      <4>1. \A y \in DOMAIN g : AtOrUnder(new, y) => y = new
        BY <2>4
      <4> QED
        BY <2>3, <3>5, <4>1
    <3>8. AtOrUnder(new, Landing(g, new, d))
      <4>1. ~Is(g, new, "dir") /\ \A y \in DOMAIN g : AtOrUnder(new, y) => y = new
        BY <1>7, <2>1, <2>4 DEF Is
      <4>2. CASE AtOrUnder(new, d)
        <5>1. ~Is(g, d, "dir")
          BY <4>1, <4>2 DEF Is
        <5> QED
          BY <4>2, <5>1 DEF Landing
      <4>3. CASE d = dst /\ new = dst
        BY <1>2, <4>1, <4>3, UnderProperties DEF Landing
      <4>4. CASE d = dst /\ Is(f, dst, "dir") /\ new = Append(dst, BaseName(src))
        <5>1. BaseName(new) = BaseName(src)
          <6> DEFINE c == BaseName(src)
          <6>1. new = Append(dst, c)
            BY <4>4
          <6> HIDE DEF c
          <6>2. Last(new) = c
            BY <1>1, <6>1 DEF Last, Path
          <6> QED
            BY <1>2, <6>2 DEF BaseName, c
        <5>2. dst # src /\ dst # new
          BY <1>15, <2>1, <4>4 DEF Is
        <5>3. Is(g, dst, "dir")
          BY <2>3, <2>4, <4>4, <5>2 DEF Is
        <5>4. Landing(g, new, d) = new
          BY <4>4, <5>1, <5>3 DEF Landing
        <5> QED
          BY <1>2, <5>4, UnderProperties
      <4> QED
        BY <1>5, <3>6, <4>2, <4>3, <4>4
    <3> QED
      BY <1>11, <3>7, <3>8 DEF g
  <2> QED
    BY <2>5, <2>6
<1> QED
  BY <1>14, <1>15

\* A request that has succeeded may be made again.
THEOREM RetryIsHarmlessCorrect == Spec => []RetryIsHarmless
<1>1. Inv => RetryIsHarmless
  <2> SUFFICES ASSUME Inv, NEW op \in Changes \ {"symlink"}, NEW p \in RequestPaths,
                      NEW q \in Seconds(op, p), NEW a \in Options(op),
                      op = "compress" => ~Overlap(fs, p, q),
                      NEW o \in Results(op, fs, p, q, a), o.ok,
                      NEW again \in Results(op, o.fs, p, q, a)
               PROVE  again.fs = o.fs
    BY DEF RetryIsHarmless
  <2>1. PICK W : IsSound(fs, W)
    BY DEF Inv, IsWellFormed
  <2>2. p \in Path /\ q \in Path
    BY PathsAreKnown DEF Seconds
  <2>3. CASE op = "mkdir"
    <3>1. a \in BOOLEAN /\ o \in mkdir(fs, p, a) /\ again \in mkdir(o.fs, p, a)
      BY <2>3 DEF Results, Options
    <3> QED
      BY <2>1, <2>2, <3>1, mkdirAgain
  <2>4. CASE op = "rm"
    <3>1. o \in rm(fs, p) /\ again \in rm(o.fs, p)
      BY <2>4 DEF Results
    <3> QED
      BY <2>1, <2>2, <3>1, rmAgain
  <2>5. CASE op = "upload"
    <3>1. o \in upload(fs, p, a) /\ again \in upload(o.fs, p, a)
      BY <2>5 DEF Results
    <3> QED
      BY <3>1, uploadAgain
  <2>6. CASE op = "mv"
    <3>1. o \in mv(fs, p, q) /\ again \in mv(o.fs, p, q)
      BY <2>6 DEF Results
    <3> QED
      BY <2>1, <2>2, <3>1, mvAgain
  <2>7. CASE op = "cp"
    <3>1. o \in cp(fs, p, q) /\ again \in cp(o.fs, p, q)
      BY <2>7 DEF Results
    <3> QED
      BY <2>1, <2>2, <3>1, cpAgain
  <2>8. CASE op = "compress"
    <3>1. o \in compress(fs, p, q, a) /\ again \in compress(o.fs, p, q, a)
      BY <2>8 DEF Results
    <3> QED
      BY <2>1, <2>2, <2>8, <3>1, compressAgain
  <2>9. CASE op = "extract"
    <3>1. o \in extract(fs, p, q, a) /\ again \in extract(o.fs, p, q, a)
      BY <2>9 DEF Results
    <3> QED
      BY <2>1, <2>2, <3>1, extractAgain
  <2> QED
    BY <2>3, <2>4, <2>5, <2>6, <2>7, <2>8, <2>9 DEF Changes
<1> QED
  BY <1>1, InvHolds, PTL
-------------------------------------------------------------------------------
(* A request that was cut short, and is made again.  Between the two, a    *)
(* process that is started again writes the test file.                     *)

\* The test file is directly in the sandbox.
LEMMA TestFileIsAtTheTop ==
  /\ TestFile \in Path /\ TestFile # <<>> /\ Above(TestFile) = <<>>
  /\ \A x \in Path : AtOrUnder(x, TestFile) => x = <<>> \/ x = TestFile
<1>1. TestFile \in Path /\ TestFile \in Seq(Names) /\ Len(TestFile) = 1
  BY PathsAreKnown, PathsAssumption
<1>2. TestFile # <<>> /\ Above(TestFile) = <<>>
  <2>1. SubSeq(TestFile, 1, 0) = <<>>
    BY <1>1
  <2> QED
    BY <1>1, <2>1 DEF Above
<1>3. ASSUME NEW x \in Path, AtOrUnder(x, TestFile), x # TestFile
      PROVE  x = <<>>
  <2>1. AtOrUnder(x, <<>>)
    BY <1>1, <1>2, <1>3, AboveIsUnder
  <2>2. <<>> \in Path /\ AtOrUnder(<<>>, x)
    BY UnderProperties
  <2> QED
    BY <2>1, <2>2, UnderProperties
<1> QED
  BY <1>1, <1>2, <1>3

\* What the first request of a process finds: the test file, unless a directory
\* has taken its name, and every path leading where it led.
LEMMA TestFileIsWritten ==
  ASSUME NEW W, NEW f, IsSound(f, W), ~Is(f, TestFile, "link"),
         NEW s, s = Write(f, TestFile, Hello).fs
  PROVE  /\ IsSound(s, W)
         /\ \A y : validate_path(s, y) = validate_path(f, y)
         /\ Is(f, TestFile, "dir") => s = f
         /\ ~Is(f, TestFile, "dir") => s = Put(f, TestFile, File(Hello))
<1> DEFINE T == TestFile
<1>1. T \in Path /\ T # <<>> /\ Above(T) = <<>> /\ \A x \in Path : AtOrUnder(x, T) => x = <<>> \/ x = T
  BY TestFileIsAtTheTop
<1> HIDE DEF T
<1>2. /\ IsTree(f, W) /\ DOMAIN f \subseteq Path /\ Is(f, <<>>, "dir")
      /\ \A x \in DOMAIN f : f[x].kind \in {"dir", "file", "link"}
  BY DEF IsSound, IsTree, IsNode, IsRooted
<1>3. \A x \in DOMAIN f : AtOrUnder(x, T) => f[x].kind # "link"
  BY <1>1, <1>2 DEF Is, T
<1>4. validate_path(f, T) = T
  BY <1>1, <1>2, <1>3, LinksOfATree
<1>5. Writable(f, T) <=> ~Is(f, T, "dir")
  BY <1>1, <1>2, <1>3, <1>4, UnderProperties DEF Writable, Is
<1>6. s = Write(f, T, Hello).fs /\ Hello.members \in W
  BY NewNodes DEF IsSound, Hello, T
<1>7. IsSound(s, W)
  BY <1>1, <1>6, WriteIsSound
<1>8. CASE Is(f, T, "dir")
  BY <1>5, <1>6, <1>7, <1>8, WriteIsOpen DEF T
<1>9. CASE ~Is(f, T, "dir")
  <2>1. Writable(f, T)
    BY <1>5, <1>9
  <2>2. s = Put(f, T, File(Hello)) /\ s = Put(f, validate_path(f, T), File(Hello))
    BY <1>4, <1>6, <2>1, WriteIsOpen
  <2>3. \A y : validate_path(s, y) = validate_path(f, y)
    BY <2>1, <2>2, WrittenAgain
  <2> QED
    BY <1>7, <1>9, <2>2, <2>3 DEF T
<1> QED
  BY <1>8, <1>9

\* A file that was written before the restart is found by the next request, or
\* it is the test file, and is found as if it had not been written.
LEMMA WrittenBeforeRestart ==
  ASSUME NEW W, NEW f, IsSound(f, W), ~Is(f, TestFile, "link"), NEW p \in Path, Writable(f, p),
         NEW b, NEW V, NEW g, g = Put(f, validate_path(f, p), File(b)), IsSound(g, V),
         NEW s, s = Write(f, TestFile, Hello).fs, NEW t, t = Write(g, TestFile, Hello).fs
  PROVE  /\ IsSound(s, W) /\ IsSound(t, V)
         /\ \A y : validate_path(s, y) = validate_path(f, y)
         /\ \A y : validate_path(t, y) = validate_path(f, y)
         /\ t = s \/ t = Put(s, validate_path(f, p), File(b))
<1> DEFINE r == validate_path(f, p)
<1>1. r \in DOMAIN f => f[r].kind = "file"
  BY DEF Writable
<1>2. \A y : validate_path(g, y) = validate_path(f, y)
  BY WrittenAgain
<1>3. g = Put(f, r, File(b)) /\ File(b).kind = "file"
  BY DEF File
<1> HIDE DEF r
<1>4. DOMAIN g = DOMAIN f \cup {r} /\ g[r] = File(b) /\ \A x \in DOMAIN f \ {r} : g[x] = f[x]
  BY <1>3 DEF Put
<1>5. ~Is(g, TestFile, "link") /\ (Is(g, TestFile, "dir") <=> Is(f, TestFile, "dir"))
  BY <1>1, <1>3, <1>4 DEF Is
<1>6. /\ IsSound(s, W)
      /\ \A y : validate_path(s, y) = validate_path(f, y)
      /\ Is(f, TestFile, "dir") => s = f
      /\ ~Is(f, TestFile, "dir") => s = Put(f, TestFile, File(Hello))
  BY TestFileIsWritten
<1>7. /\ IsSound(t, V)
      /\ \A y : validate_path(t, y) = validate_path(g, y)
      /\ Is(f, TestFile, "dir") => t = g
      /\ ~Is(f, TestFile, "dir") => t = Put(g, TestFile, File(Hello))
  BY <1>5, TestFileIsWritten
<1>8. t = s \/ t = Put(s, r, File(b))
  <2>1. CASE Is(f, TestFile, "dir")
    BY <1>3, <1>6, <1>7, <2>1
  <2>2. CASE ~Is(f, TestFile, "dir") /\ r = TestFile
    <3>1. Put(Put(f, r, File(b)), r, File(Hello)) = Put(f, r, File(Hello))
      BY DEF Put
    <3> QED
      BY <1>3, <1>6, <1>7, <2>2, <3>1
  <2>3. CASE ~Is(f, TestFile, "dir") /\ r # TestFile
    <3>1. Put(Put(f, r, File(b)), TestFile, File(Hello)) = Put(Put(f, TestFile, File(Hello)), r, File(b))
      BY <2>3 DEF Put
    <3> QED
      BY <1>3, <1>6, <1>7, <2>3, <3>1
  <2> QED
    BY <2>1, <2>2, <2>3
<1> QED
  BY <1>2, <1>6, <1>7, <1>8 DEF r

\* What a cut write has left is written over.
LEMMA WrittenOver ==
  ASSUME NEW f, NEW p, Writable(f, p), NEW b, NEW c, NEW g, g = Put(f, validate_path(f, p), File(b))
  PROVE  Write(g, p, c) = Write(f, p, c)
<1> DEFINE r == validate_path(f, p)
<1>1. \A y : validate_path(g, y) = validate_path(f, y)
  BY WrittenAgain
<1>2. r # <<>> /\ Is(f, Above(r), "dir") /\ (r \in DOMAIN f => f[r].kind = "file")
  BY DEF Writable
<1>3. validate_path(g, p) = r /\ g = Put(f, r, File(b)) /\ File(b).kind = "file"
  BY <1>1 DEF File
<1>4. Write(f, p, c) = Answers(Put(f, r, File(c)))
  BY WriteIsOpen
<1> HIDE DEF r
<1>5. DOMAIN g = DOMAIN f \cup {r} /\ g[r] = File(b) /\ \A x \in DOMAIN f \ {r} : g[x] = f[x]
  BY <1>3 DEF Put
<1>6. Writable(g, p)
  <2>1. Is(g, Above(r), "dir")
    BY <1>2, <1>5 DEF Is
  <2>2. g[r].kind = "file"
    BY <1>3, <1>5
  <2> QED
    BY <1>2, <1>3, <2>1, <2>2 DEF Writable
<1>7. Put(Put(f, r, File(b)), r, File(c)) = Put(f, r, File(c))
  BY DEF Put
<1> QED
  BY <1>3, <1>4, <1>6, <1>7, WriteIsOpen

\* An upload.
LEMMA uploadFinishes ==
  ASSUME NEW W, NEW f, IsSound(f, W), ~Is(f, TestFile, "link"), NEW p \in Path, NEW c,
         NEW g \in uploadCut(f, p), g # f,
         NEW o \in upload(Write(f, TestFile, Hello).fs, p, c), o.ok
  PROVE  o \in upload(Write(g, TestFile, Hello).fs, p, c)
<1> DEFINE r == validate_path(f, p)
           s == Write(f, TestFile, Hello).fs
           t == Write(g, TestFile, Hello).fs
<1>1. g = Write(f, p, Junk).fs
  BY DEF uploadCut
<1>2. Writable(f, p) /\ g = Put(f, r, File(Junk))
  BY <1>1, WriteIsOpen
<1>3. IsSound(g, W)
  BY <1>1, NewNodes, WriteIsSound DEF IsSound
<1>4. (\A y : validate_path(s, y) = validate_path(f, y)) /\ (t = s \/ t = Put(s, r, File(Junk)))
  BY <1>2, <1>3, WrittenBeforeRestart
<1>5. o = Write(s, p, Text(c)) /\ upload(t, p, c) = {Write(t, p, Text(c))}
  BY DEF upload
<1> HIDE DEF r, s, t
<1>6. Writable(s, p) /\ validate_path(s, p) = r
  BY <1>4, <1>5, WriteIsOpen DEF r
<1>7. Write(t, p, Text(c)) = Write(s, p, Text(c))
  BY <1>4, <1>6, WrittenOver
<1> QED
  BY <1>5, <1>7 DEF t

\* A copy finds its source, and writes over what a cut one has left.
LEMMA cpWritesOver ==
  ASSUME NEW W, NEW f, IsSound(f, W), NEW p \in Path, NEW q \in Path,
         NEW o \in cp(f, p, q), o.ok, NEW b, NEW V, NEW g, IsSound(g, V),
         g = Put(f, validate_path(f, Landing(f, validate_path(f, p), validate_path(f, q))), File(b))
  PROVE  o \in cp(g, p, q)
<1> DEFINE src == validate_path(f, p)
           dst == validate_path(f, q)
           new == Landing(f, src, dst)
           end == validate_path(f, new)
           c   == Content(f, src)
<1>1. src \in Path /\ dst \in Path
  BY LinksOfATree DEF IsSound
<1>2. new \in Path
  BY <1>1, LandingProperties
<1>3. \A h : ~Raises(h).ok
  BY AnswerProperties
<1>4. /\ Stat(f, src) = "file" /\ end # src /\ Write(f, new, c).ok
      /\ new \in DOMAIN f => Stat(f, new) = "file"
      /\ o = file_to_model(Write(f, new, c).fs, dst)
  BY <1>3 DEF cp
<1>5. Writable(f, new) /\ g = Put(f, end, File(b)) /\ File(b).kind = "file"
  BY <1>4, WriteIsOpen DEF File
<1>6. \A y : validate_path(g, y) = validate_path(f, y)
  <2> HIDE DEF new
  <2> QED
    BY <1>5, WrittenAgain
<1>7. Write(g, new, c) = Write(f, new, c)
  <2> HIDE DEF new, c
  <2> QED
    BY <1>5, WrittenOver
<1>8. validate_path(f, src) = src
  BY <1>4, PlainIsResolved
<1>9. src \in DOMAIN f /\ f[src].kind = "file"
  BY <1>1, <1>4, <1>8, StatProperties DEF IsSound, Is
<1>10. end \in DOMAIN f => f[end].kind = "file"
  BY <1>5 DEF Writable
<1>11. end \in Path
  BY <1>2, LinksOfATree DEF IsSound
<1> HIDE DEF src, dst, end, new, c
<1>12. DOMAIN g = DOMAIN f \cup {end} /\ g[end] = File(b) /\ \A x \in DOMAIN f \ {end} : g[x] = f[x]
  BY <1>5 DEF Put
<1>13. Stat(g, src) = "file" /\ Content(g, src) = c
  <2>1. src \in DOMAIN g /\ g[src] = f[src]
    BY <1>4, <1>9, <1>12
  <2>2. Stat(g, src) = "file"
    BY <1>9, <2>1, PlainIsDescribed
  <2> QED
    BY <1>6, <1>8, <2>1, <2>2 DEF Content, c
<1>14. Landing(g, src, dst) = new
  <2>1. Is(g, dst, "dir") <=> Is(f, dst, "dir")
    BY <1>5, <1>10, <1>12 DEF Is
  <2> QED
    BY <2>1 DEF Landing, new
<1>15. new \in DOMAIN g => Stat(g, new) = "file"
  <2> SUFFICES ASSUME new \in DOMAIN g PROVE Stat(g, new) = "file"
    OBVIOUS
  <2>1. end \in DOMAIN g /\ g[end].kind = "file" /\ validate_path(g, new) = end
    BY <1>5, <1>6, <1>12 DEF end
  <2>2. \A x \in DOMAIN g : AtOrUnder(x, end) => g[x].kind # "link"
    BY <2>1 DEF IsSound, IsTree
  <2>3. IsTree(g, V)
    BY DEF IsSound
  <2>4. Stat(g, new) # "loop"
    BY <1>2, <2>1, <2>2, <2>3, StatProperties
  <2> QED
    BY <1>2, <2>1, <2>3, <2>4, StatProperties
<1>16. validate_path(g, p) = src /\ validate_path(g, q) = dst /\ validate_path(g, new) = end
  BY <1>6 DEF src, dst, end
<1>17. cp(g, p, q) = {file_to_model(Write(g, new, c).fs, dst)}
  BY <1>4, <1>7, <1>13, <1>14, <1>15, <1>16 DEF cp
<1> QED
  BY <1>4, <1>7, <1>17

\* A copy.
LEMMA cpFinishes ==
  ASSUME NEW W, NEW f, IsSound(f, W), ~Is(f, TestFile, "link"), NEW p \in Path, NEW q \in Path,
         NEW g \in cpCut(f, p, q), g # f,
         NEW o \in cp(Write(f, TestFile, Hello).fs, p, q), o.ok
  PROVE  o \in cp(Write(g, TestFile, Hello).fs, p, q)
<1> DEFINE src == validate_path(f, p)
           dst == validate_path(f, q)
           new == Landing(f, src, dst)
           end == validate_path(f, new)
           s   == Write(f, TestFile, Hello).fs
           t   == Write(g, TestFile, Hello).fs
<1>1. src \in Path /\ dst \in Path
  BY LinksOfATree DEF IsSound
<1>2. new \in Path
  BY <1>1, LandingProperties
<1>3. PICK b : g = Write(f, new, b).fs
  BY DEF cpCut
<1>4. IsWellFormed(g)
  BY cpIsSound
<1>5. PICK V : IsSound(g, V)
  BY <1>4 DEF IsWellFormed
<1> HIDE DEF new
<1>6. Writable(f, new) /\ g = Put(f, end, File(b))
  BY <1>3, WriteIsOpen
<1>7. /\ IsSound(s, W) /\ IsSound(t, V)
      /\ \A y : validate_path(s, y) = validate_path(f, y)
      /\ t = s \/ t = Put(s, end, File(b))
  BY <1>2, <1>5, <1>6, WrittenBeforeRestart
<1>8. Landing(s, src, dst) = new
  <2>1. /\ Is(f, TestFile, "dir") => s = f
        /\ ~Is(f, TestFile, "dir") => s = Put(f, TestFile, File(Hello))
    BY TestFileIsWritten
  <2>2. File(Hello).kind = "file"
    BY DEF File
  <2> HIDE DEF src, dst, s
  <2>3. Is(s, dst, "dir") <=> Is(f, dst, "dir")
    BY <2>1, <2>2 DEF Is, Put
  <2> QED
    BY <2>3 DEF Landing, new
<1> HIDE DEF s, t
<1>9. validate_path(s, Landing(s, validate_path(s, p), validate_path(s, q))) = end
  BY <1>7, <1>8
<1>10. o \in cp(s, p, q)
  BY DEF s
<1> HIDE DEF src, dst, end
<1>11. CASE t = s
  BY <1>10, <1>11 DEF t
<1>12. CASE t = Put(s, end, File(b))
  BY <1>7, <1>9, <1>10, <1>12, cpWritesOver DEF t
<1> QED
  BY <1>7, <1>11, <1>12

\* An archive is written over what a cut compress has left.
LEMMA compressWritesOver ==
  ASSUME NEW W, NEW f, IsSound(f, W), NEW p \in Path, NEW q \in Path, NEW z,
         ~Overlap(f, p, q), NEW o \in compress(f, p, q, z), o.ok, NEW b, NEW V, NEW g, IsSound(g, V),
         g = Put(f, validate_path(f, validate_path(f, q)), File(b))
  PROVE  o \in compress(g, p, q, z)
<1> DEFINE src == validate_path(f, p)
           dst == validate_path(f, q)
           m   == Subtree(f, src, src)
<1>1. src \in Path /\ dst \in Path /\ IsTree(f, W) /\ IsTree(g, V)
  BY LinksOfATree DEF IsSound
<1>2. \A h : ~Raises(h).ok
  BY AnswerProperties
<1>3. ~AtOrUnder(src, dst)
  BY DEF Overlap
<1>4. /\ z # "none" /\ Write(f, dst, Junk).ok /\ src \in DOMAIN f
      /\ o = file_to_model(Write(f, dst, Archive(z, m)).fs, dst)
  BY <1>2, <1>3 DEF compress, Archived
<1> HIDE DEF src, dst, m
<1>5. Writable(f, dst) /\ validate_path(f, dst) = dst
  BY <1>4, WriteIsOpen, WritableIsResolved DEF dst
<1>6. g = Put(f, dst, File(b))
  BY <1>5 DEF dst
<1>7. /\ \A y : validate_path(g, y) = validate_path(f, y)
      /\ \A c : Write(g, dst, c) = Write(f, dst, c)
  BY <1>5, <1>6, WrittenAgain, WrittenOver
<1>8. src \in DOMAIN g
  BY <1>4, <1>6 DEF Put
<1>9. Archived(g, src, dst) = {m}
  BY <1>1, <1>3, <1>6, SubtreeBeside DEF Archived, m
<1>10. validate_path(g, p) = src /\ validate_path(g, q) = dst
  BY <1>7 DEF src, dst
<1>11. compress(g, p, q, z) = {file_to_model(Write(g, dst, Archive(z, m)).fs, dst)}
  <2>1. Write(g, dst, Junk).ok
    BY <1>4, <1>7
  <2> QED
    BY <1>3, <1>4, <1>8, <1>9, <1>10, <2>1 DEF compress
<1> QED
  BY <1>4, <1>7, <1>11

\* An archive.
LEMMA compressFinishes ==
  ASSUME NEW W, NEW f, IsSound(f, W), ~Is(f, TestFile, "link"), NEW p \in Path, NEW q \in Path,
         NEW z, ~Overlap(f, p, q), NEW g \in compressCut(f, p, q), g # f,
         NEW o \in compress(Write(f, TestFile, Hello).fs, p, q, z), o.ok
  PROVE  o \in compress(Write(g, TestFile, Hello).fs, p, q, z)
<1> DEFINE dst == validate_path(f, q)
           end == validate_path(f, dst)
           s   == Write(f, TestFile, Hello).fs
           t   == Write(g, TestFile, Hello).fs
<1>1. dst \in Path
  BY LinksOfATree DEF IsSound
<1>2. PICK b : g = Write(f, dst, b).fs
  BY DEF compressCut
<1>3. IsWellFormed(g)
  BY compressIsSound
<1>4. PICK V : IsSound(g, V)
  BY <1>3 DEF IsWellFormed
<1>5. Writable(f, dst) /\ g = Put(f, end, File(b))
  BY <1>2, WriteIsOpen
<1>6. /\ IsSound(s, W) /\ IsSound(t, V)
      /\ \A y : validate_path(s, y) = validate_path(f, y)
      /\ t = s \/ t = Put(s, end, File(b))
  BY <1>1, <1>4, <1>5, WrittenBeforeRestart
<1> HIDE DEF s, t
<1>7. validate_path(s, validate_path(s, q)) = end /\ ~Overlap(s, p, q)
  BY <1>6 DEF Overlap
<1>8. o \in compress(s, p, q, z)
  BY DEF s
<1> HIDE DEF dst, end
<1>9. CASE t = s
  BY <1>8, <1>9 DEF t
<1>10. CASE t = Put(s, end, File(b))
  BY <1>6, <1>7, <1>8, <1>10, compressWritesOver DEF t
<1> QED
  BY <1>6, <1>9, <1>10

\* mkdir -p goes on where a cut one has stopped.
LEMMA mkdirFinishes ==
  ASSUME NEW W, NEW f, IsSound(f, W), ~Is(f, TestFile, "link"), NEW p \in Path,
         NEW g \in mkdirCut(f, p), NEW o \in mkdir(Write(f, TestFile, Hello).fs, p, TRUE), o.ok
  PROVE  o \in mkdir(Write(g, TestFile, Hello).fs, p, TRUE)
<1> DEFINE r == validate_path(f, p)
           s == Write(f, TestFile, Hello).fs
           t == Write(g, TestFile, Hello).fs
<1>1. r \in Path
  BY LinksOfATree DEF IsSound
<1>2. /\ IsSound(s, W)
      /\ \A y : validate_path(s, y) = validate_path(f, y)
      /\ Is(f, TestFile, "dir") => s = f
      /\ ~Is(f, TestFile, "dir") => s = Put(f, TestFile, File(Hello))
  BY TestFileIsWritten
<1>3. \A h : ~Raises(h).ok
  BY AnswerProperties
<1> HIDE DEF s, t
<1>4. Creatable(s, r) /\ o = file_to_model(WithDirs(s, r), r)
  BY <1>2, <1>3 DEF mkdir, s
<1>5. g = f \/ (Creatable(f, r) /\ \E x \in Ancestors(r) : g = WithDirs(f, x))
  BY DEF mkdirCut
<1>6. CASE g = f
  BY <1>6
<1>7. ASSUME Creatable(f, r), NEW x \in Ancestors(r), g = WithDirs(f, x)
      PROVE  o \in mkdir(t, p, TRUE)
  <2> HIDE DEF r
  <2>1. x \in Path /\ Ancestors(x) \subseteq Ancestors(r) /\ x \in Ancestors(x) /\ r \in Ancestors(r)
    BY <1>1, <1>7, AncestorsProperties, UnderProperties
  <2>2. Creatable(f, x)
    BY <1>7, <2>1 DEF Creatable
  <2>3. DOMAIN g = DOMAIN f \cup Ancestors(x) /\ \A y \in Ancestors(x) : g[y] = Dir
    BY <1>7 DEF WithDirs, Over
  <2>4. \A y \in DOMAIN f : g[y] = f[y]
    BY <1>7, <2>1, <2>2, WithDirsKeeps
  <2>5. Dir.kind = "dir" /\ File(Hello).kind = "file"
    BY DEF Dir, File
  <2>6. \A y : validate_path(g, y) = validate_path(f, y)
    BY <2>3, <2>4, <2>5, SameLinks
  <2>7. IsSound(g, W)
    BY <1>7, <2>1, <2>2, SoundWithDirs
  <2>8. ~Is(f, TestFile, "dir") => TestFile \notin Ancestors(r)
    BY <1>2, <1>4, <2>5 DEF Creatable, Put
  <2>9. ~Is(g, TestFile, "link") /\ (Is(g, TestFile, "dir") <=> Is(f, TestFile, "dir"))
    BY <2>1, <2>3, <2>4, <2>5, <2>8 DEF Is
  <2>10. /\ \A y : validate_path(t, y) = validate_path(g, y)
         /\ Is(g, TestFile, "dir") => t = g
         /\ ~Is(g, TestFile, "dir") => t = Put(g, TestFile, File(Hello))
    BY <2>7, <2>9, TestFileIsWritten DEF t
  <2>11. t = WithDirs(s, x)
    <3>1. CASE Is(f, TestFile, "dir")
      BY <1>2, <1>7, <2>9, <2>10, <3>1
    <3>2. CASE ~Is(f, TestFile, "dir")
      <4>1. t = Put(WithDirs(f, x), TestFile, File(Hello)) /\ s = Put(f, TestFile, File(Hello))
        BY <1>2, <1>7, <2>9, <2>10, <3>2
      <4>2. TestFile \notin Ancestors(x)
        BY <2>1, <2>8, <3>2
      <4> QED
        BY <4>1, <4>2 DEF WithDirs, Put, Over
    <3> QED
      BY <3>1, <3>2
  <2>12. Creatable(t, r)
    <3> SUFFICES ASSUME NEW y \in Ancestors(r), y \in DOMAIN t PROVE t[y].kind = "dir"
      BY DEF Creatable
    <3>1. CASE y \in Ancestors(x)
      BY <2>5, <2>11, <3>1 DEF WithDirs, Over
    <3>2. CASE y \notin Ancestors(x)
      BY <1>4, <2>11, <3>2 DEF WithDirs, Over, Creatable
    <3> QED
      BY <3>1, <3>2
  <2>13. WithDirs(t, r) = WithDirs(s, r)
    <3>1. DOMAIN WithDirs(t, r) = DOMAIN WithDirs(s, r)
      BY <2>1, <2>11 DEF WithDirs, Over
    <3>2. ASSUME NEW y \in DOMAIN WithDirs(s, r) PROVE WithDirs(t, r)[y] = WithDirs(s, r)[y]
      BY <2>1, <2>11 DEF WithDirs, Over
    <3>3. \A h : WithDirs(h, r) = [y \in DOMAIN WithDirs(h, r) |-> WithDirs(h, r)[y]]
      BY DEF WithDirs, Over
    <3> HIDE <2>11
    <3> QED
      BY <3>1, <3>2, <3>3
  <2>14. validate_path(t, p) = r
    BY <2>6, <2>10 DEF r
  <2>15. mkdir(t, p, TRUE) = {file_to_model(WithDirs(t, r), r)}
    BY <2>12, <2>14 DEF mkdir
  <2> QED
    BY <1>4, <2>13, <2>15
<1> QED
  BY <1>5, <1>6, <1>7 DEF s, t

\* Two trees that differ only in what rm removes.
SameBeside(f, g, r) ==
    \A x \in DOMAIN f \cup DOMAIN g : AtOrUnder(r, x) \/ Same(f, g, x)

\* An rm that succeeds on one of them leaves the same tree on the other.
LEMMA rmGoesOn ==
  ASSUME NEW W, NEW f, IsSound(f, W), NEW V, NEW g, IsSound(g, V), NEW p \in Path,
         validate_path(g, p) = validate_path(f, p), SameBeside(f, g, validate_path(f, p)),
         NEW o \in rm(f, p), o.ok
  PROVE  o \in rm(g, p)
<1> DEFINE r == validate_path(f, p)
<1>1. r \in Path /\ DOMAIN f \subseteq Path /\ DOMAIN g \subseteq Path
  BY LinksOfATree DEF IsSound, IsTree
<1>2. \A h : ~Raises(h).ok
  BY AnswerProperties
<1>3. r # <<>> /\ (\A x \in Parents(r) : ~Is(f, x, "link")) /\ o = Answers(Without(f, r))
  BY <1>2 DEF rm
<1>4. SameBeside(f, g, r) /\ validate_path(g, p) = r
  OBVIOUS
<1> HIDE DEF r
<1>5. ASSUME NEW x \in Parents(r), Is(g, x, "link")
      PROVE  FALSE
  <2>1. x \in Path /\ x # r /\ AtOrUnder(x, r)
    BY <1>1, <1>5, UnderProperties, AncestorsProperties DEF Parents
  <2>2. ~AtOrUnder(r, x)
    BY <1>1, <2>1, UnderProperties
  <2> QED
    BY <1>3, <1>4, <1>5, <2>2 DEF SameBeside, Same, Is
<1>6. Without(g, r) = Without(f, r)
  <2>1. {x \in DOMAIN g : ~AtOrUnder(r, x)} = {x \in DOMAIN f : ~AtOrUnder(r, x)}
    BY <1>4 DEF SameBeside, Same
  <2>2. \A x \in DOMAIN f : ~AtOrUnder(r, x) => g[x] = f[x]
    BY <1>4 DEF SameBeside, Same
  <2> QED
    BY <2>1, <2>2 DEF Without, Restrict
<1> QED
  BY <1>3, <1>4, <1>5, <1>6 DEF rm

\* A cut rm has removed some of what is to be removed.
LEMMA rmCutProperties ==
  ASSUME NEW W, NEW f, IsSound(f, W), NEW p \in Path, NEW g \in rmCut(f, p)
  PROVE  /\ IsSound(g, W)
         /\ DOMAIN g \subseteq DOMAIN f /\ \A x \in DOMAIN g : g[x] = f[x]
         /\ SameBeside(f, g, validate_path(f, p))
<1> DEFINE r == validate_path(f, p)
           m == Subtree(f, r, r)
<1>1. r \in Path /\ IsTree(f, W)
  BY LinksOfATree DEF IsSound
<1>2. IsSound(g, W)
  BY rmIsSound
<1>3. g = f \/ \E n \in Parts(m) : g = Over(n, Without(f, r))
  BY DEF rmCut
<1>4. CASE g = f
  BY <1>2, <1>4 DEF SameBeside, Same
<1>5. ASSUME NEW n \in Parts(m), g = Over(n, Without(f, r))
      PROVE  /\ DOMAIN g \subseteq DOMAIN f /\ \A x \in DOMAIN g : g[x] = f[x]
             /\ SameBeside(f, g, r)
  <2> HIDE DEF r
  <2>1. /\ \A y : y \in DOMAIN m <=> y \in Path /\ AtOrUnder(r, y) /\ r \o From(r, y) \in DOMAIN f
        /\ \A y \in DOMAIN m : m[y] = f[r \o From(r, y)]
        /\ IsTree(m, W)
    BY <1>1, SubtreeProperties
  <2> HIDE DEF m
  <2>2. DOMAIN n \subseteq DOMAIN m /\ \A y \in DOMAIN n : n[y] = m[y]
    BY <2>1, PartsProperties
  <2>3. ASSUME NEW y \in DOMAIN n PROVE AtOrUnder(r, y) /\ y \in DOMAIN f /\ n[y] = f[y]
    <3>1. y \in Path /\ AtOrUnder(r, y) /\ r \o From(r, y) \in DOMAIN f /\ n[y] = f[r \o From(r, y)]
      BY <2>1, <2>2
    <3>2. r \o From(r, y) = y
      BY <1>1, <3>1, JoinProperties
    <3> QED
      BY <3>1, <3>2
  <2>4. /\ DOMAIN g = DOMAIN n \cup {x \in DOMAIN f : ~AtOrUnder(r, x)}
        /\ \A x \in DOMAIN g : g[x] = IF x \in DOMAIN n THEN n[x] ELSE f[x]
    BY <1>5 DEF Over, Without, Restrict
  <2> QED
    BY <2>3, <2>4 DEF SameBeside, Same
<1> QED
  BY <1>2, <1>3, <1>4, <1>5

\* An rm, with a restart before it is made again or without one.
LEMMA rmFinishes ==
  ASSUME NEW W, NEW f, IsSound(f, W), NEW p \in Path,
         NEW g \in rmCut(f, p), validate_path(g, p) = validate_path(f, p)
  PROVE  /\ \A o \in rm(f, p) : o.ok => o \in rm(g, p)
         /\ ~Is(f, TestFile, "link") =>
                \A o \in rm(Write(f, TestFile, Hello).fs, p) :
                    o.ok => o \in rm(Write(g, TestFile, Hello).fs, p)
<1> DEFINE r == validate_path(f, p)
           s == Write(f, TestFile, Hello).fs
           t == Write(g, TestFile, Hello).fs
<1>1. IsSound(g, W) /\ SameBeside(f, g, r)
  BY rmCutProperties
<1>2. DOMAIN g \subseteq DOMAIN f
  BY rmCutProperties
<1>3. \A x \in DOMAIN g : g[x] = f[x]
  BY rmCutProperties
<1>4. \A o \in rm(f, p) : o.ok => o \in rm(g, p)
  BY <1>1, rmGoesOn
<1>5. ASSUME ~Is(f, TestFile, "link")
      PROVE  \A o \in rm(s, p) : o.ok => o \in rm(t, p)
  <2>1. /\ IsSound(s, W)
        /\ \A y : validate_path(s, y) = validate_path(f, y)
        /\ Is(f, TestFile, "dir") => s = f
        /\ ~Is(f, TestFile, "dir") => s = Put(f, TestFile, File(Hello))
    BY <1>5, TestFileIsWritten
  <2>2. ~Is(g, TestFile, "link")
    BY <1>2, <1>3, <1>5 DEF Is
  <2>3. /\ IsSound(t, W)
        /\ \A y : validate_path(t, y) = validate_path(g, y)
        /\ Is(g, TestFile, "dir") => t = g
        /\ ~Is(g, TestFile, "dir") => t = Put(g, TestFile, File(Hello))
    BY <1>1, <2>2, TestFileIsWritten
  <2>4. validate_path(s, p) = r /\ validate_path(t, p) = r
    BY <2>1, <2>3
  <2> HIDE DEF r, s, t
  <2>5. SameBeside(s, t, r)
    <3>1. CASE AtOrUnder(r, TestFile)
      <4>1. \A x : ~AtOrUnder(r, x) => Same(f, s, x) \/ (x \notin DOMAIN f /\ x \notin DOMAIN s)
        BY <2>1, <3>1 DEF Put, Same
      <4>2. \A x : ~AtOrUnder(r, x) => Same(g, t, x) \/ (x \notin DOMAIN g /\ x \notin DOMAIN t)
        BY <2>3, <3>1 DEF Put, Same
      <4> QED
        BY <1>1, <4>1, <4>2 DEF SameBeside, Same
    <3>2. CASE ~AtOrUnder(r, TestFile)
      <4>1. Is(g, TestFile, "dir") <=> Is(f, TestFile, "dir")
        BY <1>1, <3>2 DEF SameBeside, Same, Is
      <4>2. CASE Is(f, TestFile, "dir")
        BY <1>1, <2>1, <2>3, <4>1, <4>2
      <4>3. CASE ~Is(f, TestFile, "dir")
        <5>1. s = Put(f, TestFile, File(Hello)) /\ t = Put(g, TestFile, File(Hello))
          BY <2>1, <2>3, <4>1, <4>3
        <5> QED
          BY <1>1, <5>1 DEF SameBeside, Same, Put
      <4> QED
        BY <4>2, <4>3
    <3> QED
      BY <3>1, <3>2
  <2> QED
    BY <2>1, <2>3, <2>4, <2>5, rmGoesOn
<1> QED
  BY <1>4, <1>5

\* A request that was cut short, and is made again, finishes the job.
THEOREM RetryFinishesTheJobCorrect == Spec => []RetryFinishesTheJob
<1>1. Inv => RetryFinishesTheJob
  <2> DEFINE Found(f, restarted) == IF restarted THEN Write(f, TestFile, Hello).fs ELSE f
  <2> SUFFICES ASSUME Inv PROVE RetryFinishesTheJob
    OBVIOUS
  <2> SUFFICES ASSUME NEW op \in CutChanges \ {"extract"}, NEW p \in RequestPaths,
                      NEW q \in Seconds(op, p),
                      NEW restarted \in IF op = "rm" THEN BOOLEAN ELSE {TRUE},
                      NEW a \in IF op = "mkdir" THEN {TRUE} ELSE Options(op)
               PROVE  (op = "compress" => ~Overlap(fs, p, q)) /\ ~(restarted /\ Is(fs, TestFile, "link"))
                        => \A g \in Cut(op, fs, p, q) \ {fs} :
                              validate_path(g, p) = validate_path(fs, p) =>
                                  {o \in Results(op, Found(fs, restarted), p, q, a) : o.ok}
                                      \subseteq Results(op, Found(g, restarted), p, q, a)
    BY DEF RetryFinishesTheJob
  <2> SUFFICES ASSUME op = "compress" => ~Overlap(fs, p, q), ~(restarted /\ Is(fs, TestFile, "link")),
                      NEW g \in Cut(op, fs, p, q) \ {fs}, validate_path(g, p) = validate_path(fs, p)
               PROVE  {o \in Results(op, Found(fs, restarted), p, q, a) : o.ok}
                          \subseteq Results(op, Found(g, restarted), p, q, a)
    OBVIOUS
  <2> SUFFICES ASSUME NEW o \in Results(op, Found(fs, restarted), p, q, a), o.ok
               PROVE  o \in Results(op, Found(g, restarted), p, q, a)
    OBVIOUS
  <2>1. PICK W : IsSound(fs, W)
    BY DEF Inv, IsWellFormed
  <2>2. p \in Path /\ q \in Path
    BY PathsAreKnown DEF Seconds
  <2>3. restarted \in BOOLEAN /\ (restarted => ~Is(fs, TestFile, "link")) /\ g # fs
    OBVIOUS
  <2>4. CASE op = "mkdir"
    <3>1. /\ g \in mkdirCut(fs, p)
          /\ o \in mkdir(Write(fs, TestFile, Hello).fs, p, TRUE)
      BY <2>4 DEF Cut, Results
    <3>2. o \in mkdir(Write(g, TestFile, Hello).fs, p, TRUE)
      BY <2>1, <2>2, <2>3, <2>4, <3>1, mkdirFinishes
    <3> QED
      BY <2>4, <3>2 DEF Results
  <2>5. CASE op = "upload"
    <3>1. g \in uploadCut(fs, p) /\ o \in upload(Write(fs, TestFile, Hello).fs, p, a)
      BY <2>5 DEF Cut, Results
    <3>2. o \in upload(Write(g, TestFile, Hello).fs, p, a)
      BY <2>1, <2>2, <2>3, <2>5, <3>1, uploadFinishes
    <3> QED
      BY <2>5, <3>2 DEF Results
  <2>6. CASE op = "cp"
    <3>1. g \in cpCut(fs, p, q) /\ o \in cp(Write(fs, TestFile, Hello).fs, p, q)
      BY <2>6 DEF Cut, Results
    <3>2. o \in cp(Write(g, TestFile, Hello).fs, p, q)
      BY <2>1, <2>2, <2>3, <2>6, <3>1, cpFinishes
    <3> QED
      BY <2>6, <3>2 DEF Results
  <2>7. CASE op = "compress"
    <3>1. g \in compressCut(fs, p, q) /\ o \in compress(Write(fs, TestFile, Hello).fs, p, q, a)
      BY <2>7 DEF Cut, Results
    <3>2. o \in compress(Write(g, TestFile, Hello).fs, p, q, a)
      BY <2>1, <2>2, <2>3, <2>7, <3>1, compressFinishes
    <3> QED
      BY <2>7, <3>2 DEF Results
  <2>8. CASE op = "rm"
    <3>1. g \in rmCut(fs, p)
      BY <2>8 DEF Cut
    <3>2. /\ \A e \in rm(fs, p) : e.ok => e \in rm(g, p)
          /\ ~Is(fs, TestFile, "link") =>
                 \A e \in rm(Write(fs, TestFile, Hello).fs, p) :
                     e.ok => e \in rm(Write(g, TestFile, Hello).fs, p)
      BY <2>1, <2>2, <3>1, rmFinishes
    <3>3. CASE restarted
      BY <2>3, <2>8, <3>2, <3>3 DEF Results
    <3>4. CASE ~restarted
      BY <2>8, <3>2, <3>4 DEF Results
    <3> QED
      BY <3>3, <3>4
  <2> QED
    BY <2>4, <2>5, <2>6, <2>7, <2>8 DEF CutChanges
<1> QED
  BY <1>1, InvHolds, PTL
===============================================================================
