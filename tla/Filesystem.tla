------------------------------ MODULE Filesystem ------------------------------
(***************************************************************************)
(* The sandboxed filesystem adapter (filesystem/adapter.py, sandbox.py): a *)
(* tree of directories, files and symbolic links, and what each operation, *)
(* with the command it runs, makes of it.  An operator named as a method   *)
(* gives the set of its outcomes on a tree: the tree it leaves, whether it *)
(* answers or raises, and, for the methods that return a File, its type.   *)
(* Methods never await, so one request is one step of the process.         *)
(*                                                                         *)
(* Paths are sequences of names below the sandbox, and the sandbox is      *)
(* <<>>.  Modes, owners and sizes are left out, and so are the glob        *)
(* characters of ls.  Commands find their disk with room.  A command may   *)
(* be cut short: the operators that end in Cut give the trees it leaves.   *)
(* Only rm -rf is given up by run_command while the process lives on; the  *)
(* others end when the process and its children die.  rename, symlink and  *)
(* one mkdir are atomic.                                                   *)
(***************************************************************************)
EXTENDS Paths

CONSTANTS
    RequestPaths,   \* the paths that requests name
    Texts,          \* contents that a client uploads
    Formats,        \* compressions but "none"
    TestFile,       \* the file that the process writes itself, directly in the sandbox
    MaxDepth,       \* bound: the depth of the trees that are explored
    MaxSteps        \* bound: the number of requests and restarts

ASSUME PathsAssumption ==
    /\ RequestPaths \subseteq Seq(Names)
    /\ TestFile \in Seq(Names) /\ Len(TestFile) = 1
    /\ SandboxName \notin Names
    /\ MaxSteps \in Nat

VARIABLES
    fs,             \* the tree: a function from the existing paths to nodes
    ready,          \* _base_temp_dir is set in this process
    steps           \* requests and restarts so far

vars == <<fs, ready, steps>>

-------------------------------------------------------------------------------
(* Nodes.  A body is a text, or an archive of some tree in some format.    *)

NoMembers   == <<>>
Text(t)     == [text |-> t, members |-> NoMembers]
Archive(z, m) == [text |-> z, members |-> m]
Hello       == Text("hello world")

\* What is left of a text or an archive whose writing was cut short: the members
\* that can still be read, and nothing of a text.
Rest(m)     == Archive("cut", m)
Junk        == Rest(NoMembers)

Dir         == [kind |-> "dir",  body |-> Text(""), to |-> <<>>]
File(b)     == [kind |-> "file", body |-> b,        to |-> <<>>]
Link(p)     == [kind |-> "link", body |-> Text(""), to |-> p]

Is(f, p, k)     == p \in DOMAIN f /\ f[p].kind = k
Without(f, p)   == Restrict(f, {x \in DOMAIN f : ~AtOrUnder(p, x)})

\* The tree g with the entries of f in it, and with the one entry n at p.
Over(f, g)      == [x \in DOMAIN f \cup DOMAIN g |-> IF x \in DOMAIN f THEN f[x] ELSE g[x]]
Put(f, p, n)    == [x \in DOMAIN f \cup {p} |-> IF x = p THEN n ELSE f[x]]

\* Every existing ancestor of p, p included, is a directory.
Creatable(f, p) == \A x \in Ancestors(p) \cap DOMAIN f : f[x].kind = "dir"
WithDirs(f, p)  == Over([x \in Ancestors(p) |-> Dir], f)

\* What has been done, or is left to do, when a walk down the tree m stops: a
\* directory comes before what is in it.
Parts(m) ==
    {Restrict(m, n) : n \in {n \in SUBSET DOMAIN m :
                                \A x \in n : Parents(x) \cap DOMAIN m \subseteq n}}

CutShort(b) == {Rest(m) : m \in Parts(b.members)}

\* The subtree at s, with s moved to t.
Subtree(f, s, t) ==
    LET part == {x \in DOMAIN f : AtOrUnder(s, x)}
    IN  [y \in {t \o From(s, x) : x \in part} |-> f[s \o From(t, y)]]

-------------------------------------------------------------------------------
\* validate_path: every path is resolved before it is used.
LinksOf(f) == [x \in {x \in DOMAIN f : f[x].kind = "link"} |-> f[x].to]
validate_path(f, p) == realpath(LinksOf(f), p)

\* What os.stat finds: it follows links, and fails on a loop.
Stat(f, p) ==
    LET r == validate_path(f, p)
    IN  IF \E x \in Ancestors(r) : Is(f, x, "link") THEN "loop"
        ELSE IF r \in DOMAIN f THEN f[r].kind ELSE "missing"

\* What is read from an open file.
Content(f, p) == f[validate_path(f, p)].body

Raises(f)  == [fs |-> f, ok |-> FALSE, type |-> "none", body |-> Text("")]
Answers(f) == [fs |-> f, ok |-> TRUE,  type |-> "none", body |-> Text("")]

\* file_to_model: describes what a path leads to, and raises if it leads nowhere.
file_to_model(f, p) ==
    IF Stat(f, p) \in {"dir", "file"}
    THEN [Answers(f) EXCEPT !.type = Stat(f, p)] ELSE Raises(f)

\* Where ln, mv and cp put a source: into the target if that is a directory.
BaseName(p)      == IF p = <<>> THEN SandboxName ELSE Last(p)
Landing(f, s, d) == IF Is(f, d, "dir") THEN Append(d, BaseName(s)) ELSE d

\* open(..., "wb") and write.
Write(f, p, b) ==
    LET r == validate_path(f, p)
    IN  IF r # <<>> /\ Is(f, Above(r), "dir") /\ (r \in DOMAIN f => f[r].kind = "file")
        THEN Answers(Put(f, r, File(b)))
        ELSE Raises(f)

-------------------------------------------------------------------------------
(* The operations that only look.                                          *)

chmod(f, p) == file_to_model(f, validate_path(f, p))     \* also chown

\* ls names the path itself, and answers nothing for a missing one.
ls(f, p) ==
    IF validate_path(f, p) \in DOMAIN f THEN file_to_model(f, p) ELSE Answers(f)

stat(f, p, dereference) ==
    IF dereference \/ validate_path(f, p) \notin DOMAIN f
    THEN [file_to_model(f, p) EXCEPT !.type = "none"]
    ELSE Answers(f)

\* head and tail; checksum and download need a file in the same way.
headtail(f, p) ==
    IF Stat(f, p) = "file"
    THEN [Answers(f) EXCEPT !.body = Content(f, p)] ELSE Raises(f)
checksum(f, p) == headtail(f, p)
download(f, p) == headtail(f, p)

\* view ends in a pipe to head, and succeeds whatever tail says of the file.
view(f, p) == [headtail(f, p) EXCEPT !.ok = TRUE]

-------------------------------------------------------------------------------
(* The operations that change the tree.                                    *)

mkdir(f, p, parent) ==
    LET r == validate_path(f, p)
    IN  IF parent
        THEN IF Creatable(f, r) THEN {file_to_model(WithDirs(f, r), r)} ELSE {Raises(f)}
        ELSE IF r \notin DOMAIN f /\ Is(f, Above(r), "dir")
             THEN {file_to_model(Put(f, r, Dir), r)} ELSE {Raises(f)}

\* mkdir -p makes one directory after the other.
mkdirCut(f, p) ==
    LET r == validate_path(f, p)
    IN  IF Creatable(f, r) THEN {WithDirs(f, x) : x \in Ancestors(r)} ELSE {f}

\* Mutant of symlink: a link relative to the directory that holds it.
symlinkRelative(f, path, link_path) ==
    LET src == validate_path(f, path)
        dst == validate_path(f, link_path)
        new == Landing(f, src, dst)
    IN  IF new \notin DOMAIN f /\ Is(f, Above(new), "dir")
        THEN {Answers(Put(f, new, Link(<<"..">> \o src)))} ELSE {Raises(f)}

symlink(f, path, link_path) ==
    LET src == validate_path(f, path)
        dst == validate_path(f, link_path)
        new == Landing(f, src, dst)
    IN  IF new \notin DOMAIN f /\ Is(f, Above(new), "dir")
        THEN {file_to_model(Put(f, new, Link(src)), dst)}
        ELSE {Raises(f)}

\* Mutant of rm: compares the name that was given with the sandbox.
rmUnresolved(f, p) ==
    IF p = <<>> THEN {Raises(f)} ELSE {Answers(Without(f, validate_path(f, p)))}

\* Mutant of rm: takes a link that leads nowhere away.
rmDangling(f, p) ==
    LET r == validate_path(f, p)
    IN  IF r = <<>> THEN {Raises(f)}
        ELSE IF r \in DOMAIN f THEN {Answers(Without(f, r))} ELSE {Answers(Without(f, p))}

\* rm -rf of what the path leads to: the link that led there stays.  Directories
\* go after what is in them.
rmCut(f, p) ==
    LET r == validate_path(f, p)
    IN  IF r = <<>> \/ \E x \in Parents(r) : Is(f, x, "link")
        THEN {f} ELSE {Over(m, Without(f, r)) : m \in Parts(Subtree(f, r, r))}

\* It is killed, and the request raises, when it takes longer than the timeout.
rm(f, p) ==
    LET r == validate_path(f, p)
    IN  IF r = <<>> \/ \E x \in Parents(r) : Is(f, x, "link")
        THEN {Raises(f)}
        ELSE {Answers(Without(f, r))} \cup {Raises(g) : g \in rmCut(f, p)}

\* Mutant of upload: replaces the path by a file, link or not.
uploadInPlace(f, p, t) ==
    IF Is(f, Above(p), "dir") /\ ~Is(f, p, "dir")
    THEN {Answers(Put(f, p, File(Text(t))))} ELSE {Raises(f)}

upload(f, p, t) == {Write(f, p, Text(t))}

\* open truncates the file before anything is written.
uploadCut(f, p) == {Write(f, p, Junk).fs}

\* Mutant of mv: makes room at the target before it moves.
mvMakingRoom(f, path, target_path) ==
    LET src == validate_path(f, path)
        dst == validate_path(f, target_path)
        g   == IF Is(f, dst, "file") THEN Without(f, dst) ELSE f
    IN  IF \/ src \notin DOMAIN g \/ AtOrUnder(src, dst) \/ ~Is(g, Above(dst), "dir")
           \/ dst \in DOMAIN g
        THEN {Raises(g)}
        ELSE {file_to_model(Over(Subtree(g, src, dst), Without(g, src)), dst)}

\* Mutant of mv: leaves links behind, as a copy that cannot handle them would.
mvWithoutLinks(f, path, target_path) ==
    LET src == validate_path(f, path)
        dst == validate_path(f, target_path)
        new == Landing(f, src, dst)
        all == Subtree(f, src, new)
    IN  IF \/ src \notin DOMAIN f \/ AtOrUnder(src, new) \/ ~Is(f, Above(new), "dir")
           \/ new \in DOMAIN f
        THEN {Raises(f)}
        ELSE {file_to_model(Over(Restrict(all, {x \in DOMAIN all : all[x].kind # "link"}),
                                 Without(f, src)), dst)}

\* rename, after mv's own checks: a directory replaces only an empty one,
\* and nothing moves onto or into itself.
mv(f, path, target_path) ==
    LET src   == validate_path(f, path)
        dst   == validate_path(f, target_path)
        new   == Landing(f, src, dst)
        Empty == \A x \in DOMAIN f : AtOrUnder(new, x) => x = new
    IN  IF /\ src \in DOMAIN f
           /\ ~AtOrUnder(src, new)
           /\ Is(f, Above(new), "dir")
           /\ new \in DOMAIN f => (Is(f, new, "dir") <=> Is(f, src, "dir")) /\ Empty
        THEN {file_to_model(Over(Subtree(f, src, new), Without(f, src)), dst)}
        ELSE {Raises(f)}

\* Mutant of cp: does not overwrite.
cpNoClobber(f, path, target_path) ==
    LET src == validate_path(f, path)
        dst == validate_path(f, target_path)
        end == validate_path(f, Landing(f, src, dst))
    IN  IF Stat(f, src) = "file" /\ end \notin DOMAIN f /\ Is(f, Above(end), "dir")
        THEN {file_to_model(Put(f, end, f[src]), dst)}
        ELSE {Raises(f)}

\* A plain cp: files only, written through a link that it finds in its way.
cp(f, path, target_path) ==
    LET src  == validate_path(f, path)
        dst  == validate_path(f, target_path)
        new  == Landing(f, src, dst)
        copy == Write(f, new, Content(f, src))
    IN  IF /\ Stat(f, src) = "file"
           /\ new \in DOMAIN f => Stat(f, new) = "file"
           /\ validate_path(f, new) # src
           /\ copy.ok
        THEN {file_to_model(copy.fs, dst)}
        ELSE {Raises(f)}

cpCut(f, path, target_path) ==
    LET new == Landing(f, validate_path(f, path), validate_path(f, target_path))
    IN  {Write(f, new, b).fs : b \in UNION {CutShort(Content(o.fs, new)) :
                                    o \in {o \in cp(f, path, target_path) : o.ok}}}

\* What tar puts in an archive at dst: the tree at src.  If dst is itself in
\* that tree, tar reads while it writes: dst may be missed, read as it was
\* before or cut short, and tar may or may not call that an error.
Archived(f, src, dst) ==
    LET all     == Subtree(f, src, src)
        writing == Subtree(Write(f, dst, Junk).fs, src, src)
    IN  IF ~AtOrUnder(src, dst) THEN {all}
        ELSE {m \in {Without(all, dst), writing, all} : src \in DOMAIN m}

\* Mutant of compress: leaves the directories above src out of the names.
compressFromParent(f, path, target_path, z) ==
    LET src == validate_path(f, path)
        dst == validate_path(f, target_path)
    IN  IF z = "none" \/ ~Write(f, dst, Junk).ok \/ src \notin DOMAIN f THEN {Raises(f)}
        ELSE LET m == Subtree(f, src, <<BaseName(src)>>)
             IN  {file_to_model(Put(f, dst, File(Archive(z, m))), dst)}

\* tar -c, with names relative to the sandbox.  Without a compression there is
\* no -c, and tar refuses; a missing source is an error after dst is written.
compress(f, path, target_path, z) ==
    LET src == validate_path(f, path)
        dst == validate_path(f, target_path)
        Made(m) == Write(f, dst, Archive(z, m)).fs
    IN  IF z = "none" \/ ~Write(f, dst, Junk).ok THEN {Raises(f)}
        ELSE IF src \notin DOMAIN f THEN {Raises(Made(NoMembers))}
        ELSE UNION {{file_to_model(Made(m), dst)}
                        \cup (IF AtOrUnder(src, dst) THEN {Raises(Made(m))} ELSE {})
                    : m \in Archived(f, src, dst)}

\* tar opens dst first, and then writes one member after the other.
compressCut(f, path, target_path) ==
    LET src == validate_path(f, path)
        dst == validate_path(f, target_path)
    IN  {Write(f, dst, Rest(m)).fs :
            m \in {NoMembers} \cup UNION {Parts(all) : all \in Archived(f, src, dst)}}

\* The members of an archive below dst, with the directories above them.
Extracted(m, dst) ==
    [y \in UNION {Ancestors(dst \o x) : x \in DOMAIN m} |->
        IF AtOrUnder(dst, y) /\ From(dst, y) \in DOMAIN m THEN m[From(dst, y)] ELSE Dir]

\* The members in S are there as files without their content.
Blank(m, S) == [x \in DOMAIN m |-> IF x \in S THEN File(Junk) ELSE m[x]]
Torn(m)     == {m} \cup {Blank(m, {x}) : x \in {x \in DOMAIN m : m[x].kind = "file"}}

\* makedirs, then tar -x: the new directory stays if tar fails, with what could
\* be read of an archive that is cut short.
extract(f, path, target_path, z) ==
    LET src == validate_path(f, path)
        dst == validate_path(f, target_path)
        g   == WithDirs(f, dst)
        Readable == /\ Stat(f, src) = "file"
                    /\ Content(f, src).text \in (IF z = "none" THEN Formats ELSE {z})
    IN  IF Stat(f, dst) \in {"dir", "file"} \/ ~Creatable(f, dst) THEN {Raises(f)}
        ELSE IF Readable THEN {file_to_model(Over(Extracted(Content(f, src).members, dst), g), dst)}
        ELSE IF Stat(f, src) = "file" /\ Content(f, src).text = "cut"
        THEN {Raises(Over(Extracted(m, dst), g)) : m \in Torn(Content(f, src).members)}
        ELSE {Raises(g)}

\* tar extracts one member after the other; links out of its directory are
\* empty files until the end.
extractCut(f, path, target_path) ==
    LET src == validate_path(f, path)
        dst == validate_path(f, target_path)
        Links(m) == {x \in DOMAIN m : m[x].kind = "link"}
        Members  == IF Stat(f, src) = "file" THEN Content(f, src).members ELSE NoMembers
    IN  IF Stat(f, dst) \in {"dir", "file"} \/ ~Creatable(f, dst) THEN {f}
        ELSE {WithDirs(f, x) : x \in Ancestors(dst)}
             \cup {Over(Extracted(m, dst), WithDirs(f, dst)) :
                       m \in UNION {Torn(n) \cup {Blank(n, S) : S \in SUBSET Links(n)} :
                                    n \in Parts(Members)}}

-------------------------------------------------------------------------------
(* The process.  Its first call of validate_path makes sure of the sandbox *)
(* and writes the test file; the sandbox outlives the process.             *)

Init ==
    /\ fs = [x \in {<<>>} |-> Dir]
    /\ ready = FALSE
    /\ steps = 0

get_base_temp_dir == IF ready THEN Answers(fs) ELSE Write(fs, TestFile, Hello)

\* The tree that a request finds.
tree == get_base_temp_dir.fs

\* A request ends in one of its outcomes on that tree, or raises at once.
Serve(outcomes) ==
    \E o \in IF get_base_temp_dir.ok THEN outcomes ELSE {get_base_temp_dir} :
        /\ steps < MaxSteps
        /\ \A p \in DOMAIN o.fs : Len(p) <= MaxDepth
        /\ fs' = o.fs
        /\ ready' = TRUE
        /\ steps' = steps + 1

Look(p) ==
    Serve({chmod(tree, p), ls(tree, p), headtail(tree, p), view(tree, p), checksum(tree, p),
           download(tree, p)} \cup {stat(tree, p, b) : b \in BOOLEAN})
Mkdir(p, parent)    == Serve(mkdir(tree, p, parent))
Symlink(p, q)       == Serve(symlink(tree, p, q))
Rm(p)               == Serve(rm(tree, p))
Upload(p, t)        == Serve(upload(tree, p, t))
Mv(p, q)            == Serve(mv(tree, p, q))
Cp(p, q)            == Serve(cp(tree, p, q))
Compress(p, q, z)   == Serve(compress(tree, p, q, z))
Extract(p, q, z)    == Serve(extract(tree, p, q, z))

\* What a command that runs when the process dies has done by then.  A command
\* that is atomic, or that had ended, is the request followed by a restart.
Cut(op, f, p, q) ==
    CASE op = "mkdir"    -> mkdirCut(f, p)
      [] op = "rm"       -> rmCut(f, p)
      [] op = "upload"   -> uploadCut(f, p)
      [] op = "cp"       -> cpCut(f, p, q)
      [] op = "compress" -> compressCut(f, p, q)
      [] op = "extract"  -> extractCut(f, p, q)

\* Only some requests name a second path.
Seconds(op, p) == IF op \in {"mkdir", "rm", "upload"} THEN {p} ELSE RequestPaths

CutChanges == {"mkdir", "rm", "upload", "cp", "compress", "extract"}

\* tar reads while it writes: its outcome is left open.
Overlap(f, p, q) == AtOrUnder(validate_path(f, p), validate_path(f, q))

\* The process and its command die together, and the process is started again.
Crash(op, p, q) ==
    /\ steps + 1 < MaxSteps                         \* bound: one more request follows
    /\ op = "compress" => ~Overlap(tree, p, q)      \* bound: its trees are many
    /\ get_base_temp_dir.ok
    /\ \E g \in Cut(op, tree, p, q) :
        /\ \A x \in DOMAIN g : Len(x) <= MaxDepth
        /\ fs' = g
    /\ ready' = FALSE
    /\ steps' = steps + 1

\* The process is started again.
Restart ==
    /\ ready /\ steps < MaxSteps
    /\ ready' = FALSE /\ steps' = steps + 1
    /\ UNCHANGED fs

Next ==
    \/ \E p \in RequestPaths :
        \/ Look(p)
        \/ \E parent \in BOOLEAN : Mkdir(p, parent)
        \/ Rm(p)
        \/ \E t \in Texts : Upload(p, t)
        \/ \E q \in RequestPaths :
            \/ Symlink(p, q) \/ Mv(p, q) \/ Cp(p, q)
            \/ \E z \in Formats \cup {"none"} : Compress(p, q, z) \/ Extract(p, q, z)
        \/ \E op \in CutChanges : \E q \in Seconds(op, p) : Crash(op, p, q)
    \/ Restart

Spec == Init /\ [][Next]_vars

-------------------------------------------------------------------------------
(* Properties.  All but the first two are about what any request would do  *)
(* to the trees that are reached, not only about the request made next.    *)

Changes  == {"mkdir", "symlink", "rm", "upload", "mv", "cp", "compress", "extract"}

\* What a request names besides its paths.
Options(op) ==
    CASE op = "mkdir"                   -> BOOLEAN
      [] op = "upload"                  -> Texts
      [] op \in {"compress", "extract"} -> Formats \cup {"none"}
      [] OTHER                          -> {"none"}

\* Everything that a request can do.
Results(op, f, p, q, a) ==
    CASE op = "mkdir"    -> mkdir(f, p, a)
      [] op = "symlink"  -> symlink(f, p, q)
      [] op = "rm"       -> rm(f, p)
      [] op = "upload"   -> upload(f, p, a)
      [] op = "mv"       -> mv(f, p, q)
      [] op = "cp"       -> cp(f, p, q)
      [] op = "compress" -> compress(f, p, q, a)
      [] op = "extract"  -> extract(f, p, q, a)

\* Types: paths of known names, nodes of the three kinds, links to paths.
TypeOK ==
    /\ \A p \in DOMAIN fs :
        /\ fs[p].kind \in {"dir", "file", "link"}
        /\ \A x \in {p, fs[p].to} : \A i \in 1..Len(x) : x[i] \in Names \cup {SandboxName}
    /\ ready \in BOOLEAN
    /\ steps \in 0..MaxSteps

\* The sandbox is there, whatever was removed or moved under whatever name,
\* and whatever exists has directories above it.
TreeIsWellFormed ==
    \A p \in DOMAIN fs \cup {<<>>} : \A x \in Parents(p) \cup {<<>>} : Is(fs, x, "dir")

\* A request that succeeded and is made again, because its answer was lost,
\* changes nothing more.  ln -s is the exception: it puts a second link into
\* the directory, or on the missing path, that the first link leads to.
RetryIsHarmless ==
    \A op \in Changes \ {"symlink"}, p \in RequestPaths :
    \A q \in Seconds(op, p), a \in Options(op) :
        (op = "compress" => ~Overlap(fs, p, q)) =>
            \A o \in Results(op, fs, p, q, a) :
                o.ok => \A again \in Results(op, o.fs, p, q, a) : again.fs = o.fs

\* A request that was cut short, by its timeout or with the process, and is made
\* again succeeds as if it had not been made before, although a process that was
\* started again writes the test file.  extract is the exception: it refuses the
\* directory it left; and the path must not have led through a link that was
\* removed first.
RetryFinishesTheJob ==
    \A op \in CutChanges \ {"extract"}, p \in RequestPaths :
    \A q \in Seconds(op, p), restarted \in (IF op = "rm" THEN BOOLEAN ELSE {TRUE}),
       a \in (IF op = "mkdir" THEN {TRUE} ELSE Options(op)) :
        LET Served(f) == IF restarted THEN Write(f, TestFile, Hello).fs ELSE f
            Done      == {o \in Results(op, Served(fs), p, q, a) : o.ok}
        IN  (op = "compress" => ~Overlap(fs, p, q)) /\ ~(restarted /\ Is(fs, TestFile, "link")) =>
            \A g \in Cut(op, fs, p, q) \ {fs} :
                validate_path(g, p) = validate_path(fs, p) => Done \subseteq Results(op, Served(g), p, q, a)

\* A request that raises has changed nothing, but for a link that it made to
\* a missing path, an archive without members and the new directory of an
\* extract, all of them at the target of the request, and for what an rm that
\* ran into its timeout had removed.  A loop is the exception of mv: the link
\* moves, and cannot be described.
ErrorsAreContained ==
    \A op \in Changes, p \in RequestPaths : \A q \in Seconds(op, p), a \in Options(op) :
        LET target == validate_path(fs, q) IN
        (op = "mv" => Stat(fs, p) # "loop") =>
        \A o \in Results(op, fs, p, q, a) : ~o.ok =>
            \A x \in DOMAIN fs \cup DOMAIN o.fs :
                \/ x \in DOMAIN fs \cap DOMAIN o.fs /\ fs[x] = o.fs[x]
                \/ op = "compress" /\ x = target
                \/ op = "symlink" /\ x = target /\ x \notin DOMAIN fs
                \/ op = "extract" /\ x \notin DOMAIN fs /\ (x \in Ancestors(target) \/ AtOrUnder(target, x))
                \/ op = "rm" /\ AtOrUnder(validate_path(fs, p), x)

\* An upload through one name is what every other name of the same file
\* reads, and what no name of another file reads.
AliasesAgree ==
    \A p, q \in RequestPaths, t \in Texts : \A o \in upload(fs, p, t) : o.ok =>
        download(o.fs, q) = IF validate_path(fs, q) = validate_path(fs, p)
                            THEN [Answers(o.fs) EXCEPT !.body = Text(t)]
                            ELSE [download(fs, q) EXCEPT !.fs = o.fs]

\* A move that replaced nothing is undone by the move back, with everything
\* below and every link.
MoveIsReversible ==
    \A p, q \in RequestPaths :
        LET src == validate_path(fs, p)
            new == Landing(fs, src, validate_path(fs, q))
        IN  Stat(fs, p) # "loop" /\ new \notin DOMAIN fs => \A o \in mv(fs, p, q) :
                o.ok => \A back \in mv(o.fs, new, src) : back.fs = fs

\* What compress packs, extract unpacks: the same tree, below the target, with
\* the names it has below the sandbox; the archive and the source stay.
RoundTrip ==
    \A p, q, e \in RequestPaths, z \in Formats :
        LET src == validate_path(fs, p)  dst == validate_path(fs, e) IN
        Overlap(fs, p, q) \/
        \A o \in compress(fs, p, q, z) : \A x \in extract(o.fs, q, e, z) : o.ok /\ x.ok =>
            /\ Subtree(x.fs, dst \o src, src) = Subtree(fs, src, src)
            /\ \A y \in DOMAIN o.fs : x.fs[y] = o.fs[y]

\* sandbox.py:93 says that a File is described without following links; then
\* the answer to a symlink request would describe the link.
SymlinkIsDescribedAsLink ==
    ready => \A p, q \in RequestPaths : \A o \in symlink(fs, p, q) :
        o.ok /\ Stat(fs, q) = "missing" => o.type = "link"
===============================================================================
