-------------------------------- MODULE Paths --------------------------------
(***************************************************************************)
(* Paths below the sandbox, and how links in them are followed             *)
(* (os.path.realpath, as validate_path of filesystem/sandbox.py calls it). *)
(* A path is a sequence of names, and the sandbox is <<>>.                 *)
(***************************************************************************)
EXTENDS Integers, SequencesExt

CONSTANTS
    Names,          \* names a client gives to files and directories
    SandboxName     \* the last component of the sandbox directory

Path == Seq(Names \cup {SandboxName})

AtOrUnder(p, x) == IsPrefix(p, x)
Ancestors(p)    == {SubSeq(p, 1, i) : i \in 0..Len(p)}
Parents(p)      == Ancestors(p) \ {p}
Above(p)        == SubSeq(p, 1, Len(p) - 1)
From(p, x)      == SubSeq(x, Len(p) + 1, Len(x))    \* x as it is seen from p

-----------------------------------------------------------------------------
(* Below, l maps each link to the path that it leads to.                   *)

\* A walk is the path that is left to be resolved, and the links that have been
\* followed on the way: each with the length of the path behind it.
Walk == [path : Path, open : SUBSET [link : Path, left : Nat]]

\* The first link in a path, and what is behind it.
LinksIn(l, p)   == {i \in 1..Len(p) : SubSeq(p, 1, i) \in DOMAIN l}
FirstLink(l, p) == SubSeq(p, 1, Min(LinksIn(l, p)))
Behind(l, p)    == SubSeq(p, Min(LinksIn(l, p)) + 1, Len(p))

\* The links of a walk that still are being followed when n names are left.
StillOpen(w, n) == {o \in w.open : o.left <= n}

\* A link that leads back to itself stays in the path, with all behind it.
Loops(l, w) ==
    \E o \in StillOpen(w, Len(Behind(l, w.path))) : o.link = FirstLink(l, w.path)

Ends(l, w) == LinksIn(l, w.path) = {} \/ Loops(l, w)

FollowLink(l, w) ==
    LET rest == Behind(l, w.path)
        link == FirstLink(l, w.path)
    IN  [path |-> l[link] \o rest,
         open |-> StillOpen(w, Len(rest)) \cup {[link |-> link, left |-> Len(rest)]}]

Walks(l) == LET walk[w \in Walk] == IF Ends(l, w) THEN w ELSE walk[FollowLink(l, w)]
            IN  walk

realpath(l, p) == Walks(l)[[path |-> p, open |-> {}]].path
==============================================================================
