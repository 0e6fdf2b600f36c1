---------------------------- MODULE DemoApiProofs ----------------------------
(***************************************************************************)
(* Theorems about DemoApi, for any number of iterations of the generator,  *)
(* any draws of resources and any page sizes.                              *)
(***************************************************************************)
EXTENDS DemoApi, ListTheorems

SeedProofs == INSTANCE DemoSeedProofs
                WITH Resources <- Reporting, Iterations <- Iterations, MaxGap <- 1,
                     statuses <- statuses, last_incidents <- last_incidents,
                     events <- events, incidents <- incidents, d <- d

-----------------------------------------------------------------------------
(* The world, as the generator leaves it.                                  *)

\* The sessions of clients leave the world alone: what DemoApi does to it is what
\* DemoSeed does.
THEOREM SeedCorrect == Spec => SeedProofs!Spec
<1>1. Init => SeedProofs!Init
  BY DEF Init, Seed!Init, SeedProofs!Init, Seed!NoIncident, SeedProofs!NoIncident
<1>2. [Next]_vars => [SeedProofs!Next]_(SeedProofs!vars)
  <2> SUFFICES ASSUME [Next]_vars PROVE SeedProofs!Next \/ UNCHANGED SeedProofs!vars
    OBVIOUS
  <2>1. ASSUME NEW r \in Reporting, Seed!Iterate(r) PROVE SeedProofs!Iterate(r)
    BY <2>1 DEF Seed!Iterate, Seed!NewEvent, Seed!Keep, Seed!Flip, Seed!Filed, Seed!StillOpen,
       Seed!NewIncident, Seed!NoIncident, SeedProofs!Iterate, SeedProofs!NewEvent, SeedProofs!Keep,
       SeedProofs!Flip, SeedProofs!Filed, SeedProofs!StillOpen, SeedProofs!NewIncident, SeedProofs!NoIncident
  <2>2. CASE Generate
    BY <2>1, <2>2 DEF Generate, SeedProofs!Next
  <2>3. CASE UNCHANGED seed
    BY <2>3 DEF seed, SeedProofs!vars
  <2>4. Generate \/ UNCHANGED seed
    BY DEF Next, vars, Open, OpenListed, Follow, Ask, NextPage, Locate, Leave
  <2> QED
    BY <2>2, <2>3, <2>4
<1>3. QED
  BY <1>1, <1>2, PTL DEF Spec, SeedProofs!Spec

\* So the invariants of the generator are invariants here.
SeedInv == SeedProofs!IInv /\ SeedProofs!OrderInv

LEMMA SeedInvariant == Spec => []SeedInv
<1>1. SeedProofs!DemoSeedAssumption
  BY DemoApiAssumption DEF SeedProofs!DemoSeedAssumption
<1>2. SeedProofs!Spec => []SeedProofs!IInv
  BY <1>1, SeedProofs!InvariantCorrect
<1>3. SeedProofs!Spec => []SeedProofs!OrderInv
  BY <1>1, SeedProofs!OrderCorrect
<1> QED
  BY <1>2, <1>3, SeedCorrect, PTL DEF SeedInv

\* What the lists of the world hold.
LEMMA WorldProperties ==
  ASSUME SeedInv
  PROVE  /\ Len(events) \in Nat /\ DOMAIN events = 1 .. Len(events)
         /\ Len(incidents) \in Nat /\ DOMAIN incidents = 1 .. Len(incidents)
         /\ \A e \in 1 .. Len(events) : events[e].incident \in 0 .. Len(incidents)
         /\ \A i \in 1 .. Len(incidents) : incidents[i].event_ids \in Seq(1 .. Len(events))
<1>1. /\ SeedProofs!TypeOK
      /\ Len(events) \in Nat /\ DOMAIN events = 1 .. Len(events)
      /\ Len(incidents) \in Nat /\ DOMAIN incidents = 1 .. Len(incidents)
  BY LenProperties DEF SeedInv, SeedProofs!IInv, SeedProofs!TypeOK
<1>2. \A e \in 1 .. Len(events) : events[e].incident \in 0 .. Len(incidents)
  BY <1>1 DEF SeedProofs!TypeOK, SeedProofs!ToSet
<1>3. ASSUME NEW i \in 1 .. Len(incidents)
      PROVE  incidents[i].event_ids \in Seq(1 .. Len(events))
  <2> DEFINE ids == incidents[i].event_ids
  <2>1. incidents[i] \in SeedProofs!Incident
    BY <1>1, ElementOfSeq DEF SeedProofs!TypeOK
  <2>2. ids \in Seq(Nat) /\ \A n \in DOMAIN ids : ids[n] \in 1 .. Len(events)
    <3>1. ids \in Seq(Nat)
      BY <2>1 DEF SeedProofs!Incident
    <3>2. SeedProofs!ToSet(ids) \subseteq DOMAIN events
      BY <1>1 DEF SeedProofs!TypeOK, SeedProofs!ToSet
    <3> QED
      BY <1>1, <3>1, <3>2 DEF SeedProofs!ToSet
  <2> HIDE DEF ids
  <2>3. /\ ids = [n \in 1 .. Len(ids) |-> ids[n]]
        /\ Len(ids) \in Nat /\ DOMAIN ids = 1 .. Len(ids)
    BY <2>2, LenProperties
  <2> QED
    <3>1. ids \in [1 .. Len(ids) -> 1 .. Len(events)]
      BY <2>2, <2>3
    <3> QED
      BY <2>3, <3>1, SeqDef DEF ids
<1> QED
  BY <1>1, <1>2, <1>3
\* The lists of ids that clients read are as long as those of the objects, and
\* an id is found where it is.
LEMMA CollectionProperties ==
  ASSUME SeedInv
  PROVE  /\ event_ids \in Seq({"event"} \X (Reporting \X Nat)) /\ DOMAIN event_ids = 1 .. Len(events)
         /\ incident_ids \in Seq({"incident"} \X (Reporting \X Nat))
         /\ DOMAIN incident_ids = 1 .. Len(incidents)
         /\ \A e, f \in 1 .. Len(events) : event_ids[e] = event_ids[f] => e = f
         /\ \A i, j \in 1 .. Len(incidents) : incident_ids[i] = incident_ids[j] => i = j
<1>1. /\ SeedProofs!TypeOK /\ SeedProofs!IdsAreUnique
      /\ Len(events) \in Nat /\ DOMAIN events = 1 .. Len(events)
      /\ Len(incidents) \in Nat /\ DOMAIN incidents = 1 .. Len(incidents)
  BY WorldProperties DEF SeedInv, SeedProofs!IInv, SeedProofs!OrderInv
<1>2. ASSUME NEW e \in 1 .. Len(events)
      PROVE  events[e].id \in Reporting \X Nat
  <2>1. events[e] \in SeedProofs!Event
    BY <1>1, ElementOfSeq DEF SeedProofs!TypeOK
  <2> QED
    BY <2>1 DEF SeedProofs!Event
<1>3. ASSUME NEW i \in 1 .. Len(incidents)
      PROVE  incidents[i].id \in Reporting \X Nat
  <2>1. incidents[i] \in SeedProofs!Incident
    BY <1>1, ElementOfSeq DEF SeedProofs!TypeOK
  <2> QED
    BY <2>1 DEF SeedProofs!Incident
<1>4. /\ event_ids = [e \in 1 .. Len(events) |-> <<"event", events[e].id>>]
      /\ incident_ids = [i \in 1 .. Len(incidents) |-> <<"incident", incidents[i].id>>]
  BY <1>1 DEF event_ids, incident_ids, demo_uuid
<1>5. /\ event_ids \in Seq({"event"} \X (Reporting \X Nat))
      /\ DOMAIN event_ids = 1 .. Len(events)
  BY <1>1, <1>2, <1>4, SeqDef
<1>6. /\ incident_ids \in Seq({"incident"} \X (Reporting \X Nat))
      /\ DOMAIN incident_ids = 1 .. Len(incidents)
  BY <1>1, <1>3, <1>4, SeqDef
<1>7. ASSUME NEW e \in 1 .. Len(events), NEW f \in 1 .. Len(events), event_ids[e] = event_ids[f]
      PROVE  e = f
  BY <1>1, <1>4, <1>7 DEF SeedProofs!IdsAreUnique
<1>8. ASSUME NEW i \in 1 .. Len(incidents), NEW j \in 1 .. Len(incidents),
             incident_ids[i] = incident_ids[j]
      PROVE  i = j
  BY <1>1, <1>4, <1>8 DEF SeedProofs!IdsAreUnique
<1> QED
  BY <1>5, <1>6, <1>7, <1>8

\* An id that is only once in its collection is found at its place.
LEMMA PlaceIsFound ==
  ASSUME NEW id, NEW N \in Nat, NEW n \in 1 .. N,
         Len(Collection(Kind(id))) = N,
         \A m \in 1 .. N : Collection(Kind(id))[m] = id <=> m = n
  PROVE  Place(id) = n
<1> DEFINE hits == {m \in 1 .. N : Collection(Kind(id))[m] = id}
<1>1. hits = {n}
  OBVIOUS
<1>2. {n} \in SUBSET Nat /\ {n} # {}
  OBVIOUS
<1>3. Min({n}) = n
  BY <1>2, MinIsLeast
<1>4. Place(id) = IF hits # {} THEN Min(hits) ELSE 0
  BY DEF Place, SelectInSeq
<1> HIDE DEF hits
<1> QED
  BY <1>1, <1>3, <1>4
\* Nothing that a client can ask for changes while the world does not.
LEMMA AnswersAreFrozen ==
  ASSUME UNCHANGED seed
  PROVE  /\ Queries' = Queries /\ Served' = Served
         /\ event_ids' = event_ids /\ incident_ids' = incident_ids
         /\ \A id : Named(id)' = Named(id)
         /\ \A query : Whole(query)' = Whole(query)
<1>1. /\ event_ids' = event_ids /\ incident_ids' = incident_ids
      /\ Served' = Served
  BY DEF seed, event_ids, incident_ids, Served
<1>2. Queries' = Queries
  BY <1>1 DEF Queries
<1>3. \A kind : Collection(kind)' = Collection(kind)
  BY <1>1 DEF Collection
<1>4. \A id : Place(id)' = Place(id)
  BY <1>3 DEF Place, SelectInSeq
<1>5. \A id : Named(id)' = Named(id)
  <2>1. \A id : get_site(id)' = get_site(id) /\ get_resource(id)' = get_resource(id)
    BY <1>4 DEF get_site, get_resource
  <2>2. \A id : get_event(id)' = get_event(id) /\ get_incident(id)' = get_incident(id)
    BY <1>1, <1>4 DEF get_event, get_incident, seed, Seed!NoIncident
  <2> QED
    BY <1>4, <2>1, <2>2 DEF Named
<1>6. \A list, filter : find(list, filter)' = find(list, filter)
  BY <1>5 DEF find
<1>7. \A query : Whole(query)' = Whole(query)
  BY <1>3, <1>6 DEF Whole
<1> QED
  BY <1>1, <1>2, <1>5, <1>7

-----------------------------------------------------------------------------
(* Pages.                                                                  *)

\* The collections are lists, whatever the filter leaves of them.
LEMMA WholeIsList ==
  ASSUME SeedInv, NEW query \in Queries
  PROVE  /\ Whole(query) \in Seq(ToSet(Collection(query.kind)))
         /\ query.kind \in {"site", "resource", "event", "incident"}
         /\ query.kind = "site" => Whole(query) = Ids(sites) /\ Len(sites) = Len(Ids(sites))
<1>1. query.kind \in {"site", "resource", "event", "incident"}
      /\ (query.kind = "site" => query.filter = NoId)
  BY DEF Queries
<1>2. /\ Collection("site") = Ids(sites)
      /\ Collection("resource") = Ids(resources)
      /\ Collection("event") = event_ids
      /\ Collection("incident") = incident_ids
  BY DEF Collection
<1>3. ASSUME NEW list, NEW N \in Nat, list = [n \in 1 .. N |-> list[n]]
      PROVE  list \in Seq(ToSet(list)) /\ Len(list) = N
  <2>1. list \in [1 .. N -> ToSet(list)]
    BY <1>3 DEF ToSet
  <2> QED
    BY <2>1, SeqDef, LenProperties
<1>4. Ids(sites) \in Seq(ToSet(Ids(sites))) /\ Len(sites) = Len(Ids(sites))
  <2>1. DOMAIN SiteNames = 1 .. 2
    BY DEF SiteNames
  <2>2. sites = [n \in 1 .. 2 |-> sites[n]]
    BY <2>1 DEF sites
  <2>3. Ids(sites) = [n \in 1 .. 2 |-> Ids(sites)[n]]
    BY <2>2 DEF Ids
  <2>4. Len(sites) = 2
    BY <1>3, <2>2
  <2>5. Ids(sites) \in Seq(ToSet(Ids(sites))) /\ Len(Ids(sites)) = 2
    BY <1>3, <2>3
  <2> QED
    BY <2>4, <2>5
<1>5. Ids(resources) \in Seq(ToSet(Ids(resources)))
  <2>1. DOMAIN resources = 1 .. 6
    BY DEF resources
  <2>2. Ids(resources) = [n \in 1 .. 6 |-> Ids(resources)[n]]
    BY <2>1 DEF Ids
  <2> QED
    BY <1>3, <2>2
<1>6. event_ids \in Seq(ToSet(event_ids))
  <2>1. Len(events) \in Nat
    BY WorldProperties
  <2>2. event_ids = [n \in 1 .. Len(events) |-> event_ids[n]]
    BY CollectionProperties DEF event_ids
  <2> QED
    BY <1>3, <2>1, <2>2
<1>7. incident_ids \in Seq(ToSet(incident_ids))
  <2>1. Len(incidents) \in Nat
    BY WorldProperties
  <2>2. incident_ids = [n \in 1 .. Len(incidents) |-> incident_ids[n]]
    BY CollectionProperties DEF incident_ids
  <2> QED
    BY <1>3, <2>1, <2>2
<1>8. Collection(query.kind) \in Seq(ToSet(Collection(query.kind)))
  BY <1>1, <1>2, <1>4, <1>5, <1>6, <1>7
<1>9. Whole(query) \in Seq(ToSet(Collection(query.kind)))
  <2> DEFINE all  == Collection(query.kind)
             stay == {n \in DOMAIN all : query.filter \in ToSet(Named(all[n]))}
  <2>1. Whole(query) = IF query.filter = NoId THEN all ELSE Keep(all, stay)
    BY DEF Whole, find
  <2>2. stay \in SUBSET (DOMAIN all)
    OBVIOUS
  <2> HIDE DEF all, stay
  <2>3. all \in Seq(ToSet(all))
    BY <1>8 DEF all
  <2>4. Keep(all, stay) \in Seq(ToSet(all))
    BY <2>2, <2>3, KeepProperties
  <2> QED
    BY <2>1, <2>3, <2>4 DEF all
<1>10. query.kind = "site" => Whole(query) = Ids(sites)
  BY <1>1, <1>2 DEF Whole, find
<1> QED
  BY <1>1, <1>4, <1>9, <1>10

\* A page goes from the offset to some later place, and does not go on only if
\* there is nothing left.
IsPageOf(page, list, offset) ==
  \E k \in offset .. Len(list) : /\ page = SubSeq(list, offset + 1, k)
                                 /\ k = offset => offset = Len(list)

LEMMA paginate_listProperties ==
  ASSUME NEW S, NEW list \in Seq(S), NEW offset \in 0 .. Len(list), NEW limit \in Int \ {0}
  PROVE  IsPageOf(paginate_list(list, offset, limit), list, offset)
<1> DEFINE N    == Len(list)
           rest == SubSeq(list, offset + 1, N)
<1>1. N \in Nat /\ offset \in 0 .. N
  BY LenProperties
<1>2. paginate_list(list, offset, limit) =
        IF limit >= 0 THEN SubSeq(rest, 1, IF limit < Len(rest) THEN limit ELSE Len(rest)) ELSE rest
  BY DEF paginate_list, Slice
<1>3. Len(rest) = N - offset
  <2>1. \A i \in offset + 1 .. N : list[i] \in S
    BY <1>1, ElementOfSeq
  <2> QED
    BY <1>1, <2>1, SubSeqProperties
<1> HIDE DEF rest, N
<1>4. CASE offset = N
  <2>1. rest = <<>> /\ Len(rest) = 0
    BY <1>1, <1>3, <1>4, SubSeqEmpty DEF rest
  <2>2. limit >= 0 => SubSeq(rest, 1, 0) = <<>>
    BY SubSeqEmpty
  <2>3. paginate_list(list, offset, limit) = <<>>
    BY <1>2, <2>1, <2>2
  <2>4. SubSeq(list, offset + 1, offset) = <<>>
    BY <1>1, <1>4, SubSeqEmpty
  <2> QED
    BY <1>1, <1>4, <2>3, <2>4 DEF IsPageOf, N
<1>5. CASE offset # N /\ limit < 0
  BY <1>1, <1>2, <1>5 DEF IsPageOf, N, rest
<1>6. CASE offset # N /\ limit >= 0
  <2> DEFINE q == IF limit < Len(rest) THEN limit ELSE Len(rest)
  <2>1. q \in 1 .. N - offset
    BY <1>1, <1>3, <1>6
  <2>2. paginate_list(list, offset, limit) = SubSeq(rest, 1, q)
    BY <1>2, <1>6
  <2> HIDE DEF q
  <2>3. SubSeq(rest, 1, q) = SubSeq(list, offset + 1 + 1 - 1, offset + 1 + q - 1)
    <3>1. offset + 1 \in 1 .. N /\ N \in 1 .. N
      BY <1>1, <1>6
    <3>2. 1 \in 1 .. N - (offset + 1) + 1 /\ q \in 1 .. N - (offset + 1) + 1
      BY <1>1, <1>6, <2>1
    <3> QED
      BY <3>1, <3>2, SubSeqOfSubSeq DEF rest, N
  <2>4. offset + 1 + 1 - 1 = offset + 1 /\ offset + 1 + q - 1 = offset + q
    BY <1>1, <2>1
  <2>5. offset + q \in offset .. N /\ offset + q # offset
    BY <1>1, <2>1
  <2> QED
    BY <2>2, <2>3, <2>4, <2>5 DEF IsPageOf, N
<1> QED
  BY <1>1, <1>4, <1>5, <1>6

LEMMA list_sitesProperties ==
  ASSUME NEW S, Ids(sites) \in Seq(S), Len(sites) = Len(Ids(sites)),
         NEW offset \in 0 .. Len(Ids(sites)), NEW limit \in Int \ {0}
  PROVE  IsPageOf(list_sites(offset, limit), Ids(sites), offset)
<1> DEFINE N  == Len(Ids(sites))
           to == offset + IF limit >= 1 THEN limit ELSE N
           k  == IF to < N THEN to ELSE N
<1>1. N \in Nat
  BY LenProperties
<1>2. list_sites(offset, limit) = SubSeq(Ids(sites), offset + 1, k)
  BY DEF list_sites, Slice
<1>3. k \in offset .. N /\ (k = offset => offset = N)
  BY <1>1
<1> QED
  BY <1>2, <1>3 DEF IsPageOf

LEMMA PageProperties ==
  ASSUME SeedInv, NEW query \in Queries, NEW limit \in Limits,
         NEW offset \in 0 .. Len(Whole(query))
  PROVE  IsPageOf(Page(query, offset, limit), Whole(query), offset)
<1> DEFINE S == ToSet(Collection(query.kind))
<1>1. limit \in Int \ {0}
  BY DemoApiAssumption
<1>2. /\ Whole(query) \in Seq(S)
      /\ query.kind \in {"site", "resource", "event", "incident"}
      /\ query.kind = "site" => Whole(query) = Ids(sites) /\ Len(sites) = Len(Ids(sites))
  BY WholeIsList
<1> HIDE DEF S
<1>3. CASE query.kind = "site"
  <2>1. Page(query, offset, limit) = list_sites(offset, limit)
    BY <1>3 DEF Page
  <2> QED
    BY <1>1, <1>2, <1>3, <2>1, list_sitesProperties
<1>4. CASE query.kind # "site"
  <2>1. Page(query, offset, limit) = paginate_list(Whole(query), offset, limit)
    BY <1>2, <1>4 DEF Page, get_resources, get_events, get_incidents, Whole
  <2> QED
    BY <1>1, <1>2, <2>1, paginate_listProperties
<1> QED
  BY <1>3, <1>4

\* What a client has read, with the page after it, is again a beginning of the list.
LEMMA PagesConnect ==
  ASSUME NEW S, NEW list \in Seq(S), NEW offset \in 0 .. Len(list),
         NEW page, IsPageOf(page, list, offset)
  PROVE  LET seen == SubSeq(list, 1, offset) \o page
         IN /\ Len(seen) \in 0 .. Len(list)
            /\ seen = SubSeq(list, 1, Len(seen))
            /\ page = <<>> => Len(seen) = Len(list)
<1>1. PICK k \in offset .. Len(list) : /\ page = SubSeq(list, offset + 1, k)
                                       /\ k = offset => offset = Len(list)
  BY DEF IsPageOf
<1>2. Len(list) \in Nat /\ \A i \in 1 .. Len(list) : list[i] \in S
  BY LenProperties, ElementOfSeq
<1>3. SubSeq(list, 1, offset) \o page = SubSeq(list, 1, k)
  BY <1>1, <1>2, ConcatAdjacentSubSeq
<1>4. Len(SubSeq(list, 1, k)) = k
  <2>1. k \in Nat /\ \A i \in 1 .. k : list[i] \in S
    BY <1>2
  <2> QED
    BY <2>1, SubSeqProperties
<1>5. page = <<>> => k = offset
  <2>1. offset + 1 \in Int /\ k \in Int /\ \A i \in offset + 1 .. k : list[i] \in S
    BY <1>2
  <2>2. Len(page) = IF offset + 1 <= k THEN k - (offset + 1) + 1 ELSE 0
    BY <1>1, <2>1, SubSeqProperties
  <2>3. page = <<>> => Len(page) = 0
    BY EmptySeq
  <2> QED
    BY <1>2, <2>2, <2>3
<1> DEFINE seen == SubSeq(list, 1, offset) \o page
<1>6. Len(seen) = k
  BY <1>3, <1>4
<1>7. seen = SubSeq(list, 1, Len(seen))
  BY <1>3, <1>6
<1> HIDE DEF seen
<1>8. Len(seen) \in 0 .. Len(list) /\ (page = <<>> => Len(seen) = Len(list))
  <2>1. Len(list) \in Nat /\ k \in 0 .. Len(list)
    BY <1>2
  <2>2. page = <<>> => k = Len(list)
    BY <1>1, <1>5
  <2> QED
    BY <1>6, <2>1, <2>2
<1> QED
  BY <1>7, <1>8 DEF seen

\* A client that reads pages, for the query and the limit that it has.
Reading(query, limit, seen, over) ==
  /\ query \in Queries /\ limit \in Limits /\ over \in BOOLEAN
  /\ Len(seen) \in 0 .. Len(Whole(query))
  /\ seen = SubSeq(Whole(query), 1, Len(seen))
  /\ over => Len(seen) = Len(Whole(query))

\* A client that begins to read.
LEMMA AskReads ==
  ASSUME SeedInv, NEW query \in Queries, NEW limit \in Limits
  PROVE  LET page == Page(query, 0, limit) IN Reading(query, limit, page, page = <<>>)
<1> DEFINE page  == Page(query, 0, limit)
           whole == Whole(query)
           S     == ToSet(Collection(query.kind))
<1>1. whole \in Seq(S) /\ 0 \in 0 .. Len(whole)
  BY WholeIsList, LenProperties
<1>2. IsPageOf(page, whole, 0)
  BY <1>1, PageProperties
<1>3. SubSeq(whole, 1, 0) = <<>>
  BY SubSeqEmpty
<1>4. <<>> \o page = page
  <2>1. PICK k \in 0 .. Len(whole) : page = SubSeq(whole, 1, k)
    BY <1>2 DEF IsPageOf
  <2>2. \A i \in 1 .. k : whole[i] \in S
    BY <1>1, LenProperties, ElementOfSeq
  <2>3. page \in Seq(S)
    BY <2>1, <2>2, SubSeqProperties
  <2> QED
    BY <2>3, ConcatEmptySeq
<1> HIDE DEF page, whole, S
<1>5. /\ Len(page) \in 0 .. Len(whole)
      /\ page = SubSeq(whole, 1, Len(page))
      /\ page = <<>> => Len(page) = Len(whole)
  <2> DEFINE seen == SubSeq(whole, 1, 0) \o page
  <2>1. /\ Len(seen) \in 0 .. Len(whole)
        /\ seen = SubSeq(whole, 1, Len(seen))
        /\ page = <<>> => Len(seen) = Len(whole)
    BY <1>1, <1>2, PagesConnect
  <2>2. seen = page
    BY <1>3, <1>4
  <2> QED
    BY <2>1, <2>2
<1> QED
  BY <1>5 DEF Reading, page, whole

\* A client that reads on.
LEMMA NextPageReads ==
  ASSUME SeedInv, NEW query, NEW limit, NEW seen, Reading(query, limit, seen, FALSE)
  PROVE  LET page == Page(query, Len(seen), limit)
         IN Reading(query, limit, seen \o page, page = <<>>)
<1> DEFINE page  == Page(query, Len(seen), limit)
           whole == Whole(query)
           S     == ToSet(Collection(query.kind))
<1>1. /\ query \in Queries /\ limit \in Limits
      /\ Len(seen) \in 0 .. Len(whole)
      /\ seen = SubSeq(whole, 1, Len(seen))
  BY DEF Reading
<1>2. whole \in Seq(S)
  BY <1>1, WholeIsList
<1>3. IsPageOf(page, whole, Len(seen))
  BY <1>1, PageProperties
<1> HIDE DEF page, whole, S
<1>4. /\ Len(seen \o page) \in 0 .. Len(whole)
      /\ seen \o page = SubSeq(whole, 1, Len(seen \o page))
      /\ page = <<>> => Len(seen \o page) = Len(whole)
  BY <1>1, <1>2, <1>3, PagesConnect
<1> QED
  BY <1>1, <1>4 DEF Reading, page, whole
-----------------------------------------------------------------------------
(* The session.                                                            *)

\* The session's invariant is preserved: a page continues what the client has
\* read, and the world does not change once there is a client.
LEMMA SessionInductive == SeedInv /\ SessionInv /\ [Next]_vars => SessionInv'
<1> SUFFICES ASSUME SeedInv, SessionInv, [Next]_vars PROVE SessionInv'
  OBVIOUS
<1>1. /\ client.does \in {"nothing", "read", "list", "locate"}
      /\ client.does # "nothing" => Served
  BY DEF SessionInv
<1>2. client.does = "list" =>
        /\ client = [does |-> "list", query |-> client.query, limit |-> client.limit,
                     seen |-> client.seen, over |-> client.over]
        /\ Reading(client.query, client.limit, client.seen, client.over)
  BY DEF SessionInv, Reading
\* A client that does not read pages, and the one who does.
<1>3. ASSUME Served', client'.does \in {"read", "locate"}
      PROVE  SessionInv'
  BY <1>3 DEF SessionInv
<1>4. ASSUME UNCHANGED seed, Served, NEW query, NEW limit, NEW seen, NEW over,
             Reading(query, limit, seen, over),
             client' = [does |-> "list", query |-> query, limit |-> limit, seen |-> seen, over |-> over]
      PROVE  SessionInv'
  <2>1. Queries' = Queries /\ Served' = Served /\ Whole(query)' = Whole(query)
    BY <1>4, AnswersAreFrozen
  <2>2. Whole(client.query)' = Whole(query)
    BY <1>4, <2>1
  <2> QED
    BY <1>4, <2>1, <2>2 DEF SessionInv, Reading
<1>5. CASE Generate
  <2>1. client' = client /\ ~Served
    BY <1>5, DemoApiAssumption DEF Generate, Seed!Iterate, Served
  <2>2. client.does = "nothing"
    BY <1>1, <2>1
  <2> QED
    BY <2>1, <2>2 DEF SessionInv
<1>6. ASSUME NEW id, Open(id) PROVE SessionInv'
  <2>1. Served' /\ client'.does = "read"
    BY <1>6, AnswersAreFrozen DEF Open
  <2> QED
    BY <1>3, <2>1
<1>7. ASSUME NEW id, OpenListed(id) \/ Follow(id) PROVE SessionInv'
  <2>1. Served' /\ client'.does = "read"
    BY <1>1, <1>7, AnswersAreFrozen DEF OpenListed, Follow
  <2> QED
    BY <1>3, <2>1
<1>8. ASSUME NEW query \in Queries, NEW limit \in Limits, Ask(query, limit) PROVE SessionInv'
  <2>1. Reading(query, limit, Page(query, 0, limit), Page(query, 0, limit) = <<>>)
    BY AskReads
  <2> QED
    BY <1>4, <1>8, <2>1 DEF Ask
<1>9. CASE NextPage
  <2> DEFINE page == Page(client.query, Len(client.seen), client.limit)
  <2>1. client.does = "list" /\ client.over = FALSE /\ Served /\ UNCHANGED seed
    BY <1>1, <1>2, <1>9 DEF NextPage, Reading
  <2>2. Reading(client.query, client.limit, client.seen \o page, page = <<>>)
    BY <1>2, <2>1, NextPageReads
  <2> HIDE DEF page
  <2>3. client' = [client EXCEPT !.seen = @ \o page, !.over = page = <<>>]
    BY <1>9 DEF NextPage, page
  <2>4. client' = [does |-> "list", query |-> client.query, limit |-> client.limit,
                   seen |-> client.seen \o page, over |-> page = <<>>]
    BY <1>2, <2>1, <2>3
  <2> QED
    BY <1>4, <2>1, <2>2, <2>4
<1>10. ASSUME NEW q, Locate(q) PROVE SessionInv'
  <2>1. Served' /\ client'.does = "locate"
    BY <1>10, AnswersAreFrozen DEF Locate
  <2> QED
    BY <1>3, <2>1
<1>11. CASE Leave
  BY <1>11 DEF Leave, Idle, SessionInv
<1>12. CASE UNCHANGED vars
  <2>1. UNCHANGED seed /\ client' = client
    BY <1>12 DEF vars
  <2>2. CASE client.does = "list"
    BY <1>1, <1>2, <1>4, <2>1, <2>2
  <2>3. CASE client.does # "list"
    BY <1>1, <2>1, <2>3, AnswersAreFrozen DEF SessionInv
  <2> QED
    BY <2>2, <2>3
<1> QED
  BY <1>5, <1>6, <1>7, <1>8, <1>9, <1>10, <1>11, <1>12 DEF Next

\* The invariant of the session holds in every reachable state.
THEOREM SessionCorrect == Spec => []SessionInv
<1>1. Init => SessionInv
  BY DEF Init, Idle, SessionInv
<1>2. QED
  BY <1>1, SessionInductive, SeedInvariant, PTL DEF Spec

\* Pages of any length add up to the whole collection, of any size.
THEOREM PagesAddUpCorrect == Spec => []PagesAddUp
<1>1. SeedInv /\ SessionInv => PagesAddUp
  <2> SUFFICES ASSUME SeedInv, SessionInv, client.does = "list"
               PROVE  /\ IsPrefix(client.seen, Whole(client.query))
                      /\ client.over => client.seen = Whole(client.query)
    BY DEF PagesAddUp
  <2> DEFINE whole == Whole(client.query)
             n     == Len(client.seen)
  <2>1. /\ client.query \in Queries
        /\ n \in 0 .. Len(whole)
        /\ client.seen = SubSeq(whole, 1, n)
        /\ client.over => n = Len(whole)
    BY DEF SessionInv
  <2>2. PICK S : whole \in Seq(S)
    BY <2>1, WholeIsList
  <2>3. SubSeq(whole, 1, Len(whole)) = whole
    BY <2>2, SubSeqFull
  <2>4. SubSeq(client.seen, 1, n) = client.seen
    <3>1. \A i \in 1 .. n : whole[i] \in S
      BY <2>1, <2>2, LenProperties, ElementOfSeq
    <3>2. client.seen \in Seq(S)
      BY <2>1, <3>1, SubSeqProperties
    <3> QED
      BY <3>2, SubSeqFull
  <2> HIDE DEF whole
  <2>5. n <= Len(whole)
    BY <2>1, <2>2, LenProperties
  <2> QED
    BY <2>1, <2>3, <2>4, <2>5 DEF whole, IsPrefix
<1>2. QED
  BY <1>1, SeedInvariant, SessionCorrect, PTL

-----------------------------------------------------------------------------
(* Links and answers.                                                      *)

\* An incident and an event are found by their ids, and an event names the
\* incident that it was filed under.
LEMMA EventNames ==
  ASSUME SeedInv
  PROVE  /\ \A i \in 1 .. Len(incidents) : Place(incident_ids[i]) = i /\ incident_ids[i] # NoId
         /\ \A n \in 1 .. Len(events) :
              ToSet(Named(event_ids[n])) = {demo_uuid("resource", events[n].resource)}
                                             \cup {incident_ids[j] : j \in {events[n].incident} \ {0}}
         /\ \A n \in 1 .. Len(events), i \in 1 .. Len(incidents) :
              incident_ids[i] \in ToSet(Named(event_ids[n])) <=> events[n].incident = i
<1>1. /\ Len(events) \in Nat /\ Len(incidents) \in Nat
      /\ \A n \in 1 .. Len(events) : events[n].incident \in 0 .. Len(incidents)
  BY WorldProperties
<1>2. /\ Len(event_ids) = Len(events) /\ Len(incident_ids) = Len(incidents)
      /\ \A n \in 1 .. Len(events) : event_ids[n][1] = "event"
      /\ \A i \in 1 .. Len(incidents) : incident_ids[i][1] = "incident" /\ incident_ids[i] # NoId
  <2>1. /\ event_ids \in Seq({"event"} \X (Reporting \X Nat)) /\ DOMAIN event_ids = 1 .. Len(events)
        /\ incident_ids \in Seq({"incident"} \X (Reporting \X Nat))
        /\ DOMAIN incident_ids = 1 .. Len(incidents)
    BY CollectionProperties
  <2>2. Len(event_ids) = Len(events) /\ Len(incident_ids) = Len(incidents)
    BY <1>1, <2>1, LenProperties
  <2>3. ASSUME NEW n \in 1 .. Len(events) PROVE event_ids[n][1] = "event"
    <3>1. event_ids[n] \in {"event"} \X (Reporting \X Nat)
      BY <2>1, <2>2, ElementOfSeq
    <3> QED
      BY <3>1
  <2>4. ASSUME NEW i \in 1 .. Len(incidents)
        PROVE  incident_ids[i][1] = "incident" /\ incident_ids[i] # NoId
    <3>1. incident_ids[i] \in {"incident"} \X (Reporting \X Nat)
      BY <2>1, <2>2, ElementOfSeq
    <3> QED
      BY <3>1 DEF NoId
  <2> QED
    BY <2>2, <2>3, <2>4
<1>3. ASSUME NEW i \in 1 .. Len(incidents) PROVE Place(incident_ids[i]) = i
  <2>1. Collection(Kind(incident_ids[i])) = incident_ids
    BY <1>2 DEF Kind, Collection
  <2>2. \A m \in 1 .. Len(incidents) : incident_ids[m] = incident_ids[i] <=> m = i
    BY CollectionProperties
  <2> QED
    BY <1>1, <1>2, <2>1, <2>2, PlaceIsFound
<1>4. ASSUME NEW n \in 1 .. Len(events) PROVE Place(event_ids[n]) = n
  <2>1. Collection(Kind(event_ids[n])) = event_ids
    BY <1>2 DEF Kind, Collection
  <2>2. \A m \in 1 .. Len(events) : event_ids[m] = event_ids[n] <=> m = n
    BY CollectionProperties
  <2> QED
    BY <1>1, <1>2, <2>1, <2>2, PlaceIsFound
<1>5. ASSUME NEW n \in 1 .. Len(events)
      PROVE  ToSet(Named(event_ids[n])) = {demo_uuid("resource", events[n].resource)}
                                            \cup {incident_ids[j] : j \in {events[n].incident} \ {0}}
  <2> DEFINE e  == get_event(event_ids[n])
             rr == demo_uuid("resource", events[n].resource)
  <2>1. e = [resource_id |-> rr,
             incident_id |-> IF events[n].incident = 0 THEN NoId
                             ELSE incident_ids[events[n].incident]]
    BY <1>4 DEF get_event, Seed!NoIncident
  <2>2. Named(event_ids[n]) = IF e.incident_id = NoId THEN <<e.resource_id>>
                              ELSE <<e.resource_id, e.incident_id>>
    BY <1>2 DEF Named, Kind
  <2> HIDE DEF e, rr
  <2>3. CASE events[n].incident = 0
    <3>1. Named(event_ids[n]) = <<rr>>
      BY <2>1, <2>2, <2>3
    <3>2. ToSet(Named(event_ids[n])) = {rr}
      BY <3>1 DEF ToSet
    <3> QED
      BY <2>3, <3>2 DEF rr
  <2>4. CASE events[n].incident # 0
    <3> DEFINE j == events[n].incident
    <3>1. j \in 1 .. Len(incidents)
      BY <1>1, <2>4
    <3>2. Named(event_ids[n]) = <<rr, incident_ids[j]>>
      BY <1>2, <2>1, <2>2, <2>4, <3>1
    <3>3. ToSet(Named(event_ids[n])) = {rr, incident_ids[j]}
      BY <3>2 DEF ToSet
    <3> QED
      BY <2>4, <3>3 DEF rr
  <2> QED
    BY <2>3, <2>4
<1>6. ASSUME NEW n \in 1 .. Len(events), NEW i \in 1 .. Len(incidents)
      PROVE  incident_ids[i] \in ToSet(Named(event_ids[n])) <=> events[n].incident = i
  <2>1. incident_ids[i] # demo_uuid("resource", events[n].resource)
    BY <1>2 DEF demo_uuid
  <2>2. i # 0
    BY <1>1
  <2>3. \A j \in {events[n].incident} \ {0} : incident_ids[i] = incident_ids[j] <=> j = i
    <3>1. \A j \in {events[n].incident} \ {0} : j \in 1 .. Len(incidents)
      BY <1>1
    <3> QED
      BY <3>1, CollectionProperties
  <2> QED
    BY <1>5, <2>1, <2>2, <2>3
<1> QED
  BY <1>2, <1>3, <1>5, <1>6

\* The events that name an incident are those that it lists, in its order.
LEMMA EventsOfIncident ==
  ASSUME SeedInv, NEW i \in 1 .. Len(incidents)
  PROVE  find(event_ids, incident_ids[i]) = get_incident(incident_ids[i]).event_ids
<1> DEFINE ids  == incidents[i].event_ids
           stay == {n \in DOMAIN event_ids : incident_ids[i] \in ToSet(Named(event_ids[n]))}
<1>1. /\ Len(events) \in Nat /\ DOMAIN events = 1 .. Len(events)
      /\ DOMAIN incidents = 1 .. Len(incidents)
      /\ ids \in Seq(1 .. Len(events))
  BY WorldProperties
<1>2. DOMAIN event_ids = 1 .. Len(events)
  BY CollectionProperties
<1>3. stay = ToSet(ids)
  <2>1. \A n \in 1 .. Len(events) : events[n].incident = i <=> n \in SeedProofs!ToSet(ids)
    BY <1>1 DEF SeedInv, SeedProofs!IInv, SeedProofs!LinksAgree
  <2>2. SeedProofs!ToSet(ids) = ToSet(ids)
    BY DEF SeedProofs!ToSet, ToSet
  <2>3. \A n \in 1 .. Len(events) : n \in stay <=> n \in ToSet(ids)
    BY <1>2, <2>1, <2>2, EventNames
  <2>4. ToSet(ids) \subseteq 1 .. Len(events)
    BY <1>1, LenProperties, ElementOfSeq DEF ToSet
  <2> QED
    BY <1>2, <2>3, <2>4
<1>4. \A m, n \in DOMAIN ids : m < n => ids[m] < ids[n]
  BY <1>1 DEF SeedInv, SeedProofs!OrderInv, SeedProofs!EventsAreInOrder
<1>5. incident_ids[i] # NoId
  BY EventNames
<1>6. find(event_ids, incident_ids[i]) = Keep(event_ids, stay)
  BY <1>5 DEF find
<1>7. get_incident(incident_ids[i]).event_ids = [m \in DOMAIN ids |-> event_ids[ids[m]]]
  BY EventNames DEF get_incident
<1> HIDE DEF ids, stay
<1>8. Keep(event_ids, ToSet(ids)) = [m \in DOMAIN ids |-> event_ids[ids[m]]]
  BY <1>1, <1>4, KeepIsLookup
<1> QED
  BY <1>3, <1>6, <1>7, <1>8

\* A resource is found by its id.
LEMMA ResourceIsFound ==
  ASSUME NEW n \in DOMAIN resources
  PROVE  Place(resources[n].id) = n
<1> DEFINE names == <<"perlmutter", "hpss", "cfs", "login", "iris", "sfapi">>
           r     == resources[n]
<1>1. DOMAIN resources = 1 .. 6 /\ Len(resources) = 6
  BY DEF resources
<1>2. \A m \in 1 .. 6 : /\ resources[m].id = <<"resource", names[m]>>
                        /\ resources[m].name = names[m]
  BY DEF resources, Resource, demo_uuid
<1>3. \A l, m \in 1 .. 6 : names[l] = names[m] => l = m
  OBVIOUS
<1> HIDE DEF names
<1>4. Kind(r.id) = "resource" /\ Collection("resource") = Ids(resources)
  BY <1>1, <1>2 DEF Kind, Collection
<1>5. Ids(resources) = [m \in 1 .. 6 |-> resources[m].id] /\ Len(Ids(resources)) = 6
  BY <1>1, LenProperties DEF Ids
<1>6. \A m \in 1 .. 6 : Ids(resources)[m] = r.id <=> m = n
  BY <1>1, <1>2, <1>3, <1>5
<1>7. Collection(Kind(r.id)) = Ids(resources)
  BY <1>4
<1>8. /\ Len(Collection(Kind(r.id))) = 6
      /\ \A m \in 1 .. 6 : Collection(Kind(r.id))[m] = r.id <=> m = n
  BY <1>5, <1>6, <1>7
<1>9. n \in 1 .. 6 /\ 6 \in Nat
  BY <1>1
<1> HIDE DEF r
<1> QED
  BY <1>8, <1>9, PlaceIsFound DEF r

-----------------------------------------------------------------------------
(* Links of what is generated.                                             *)

\* Every incident is given the resources of one draw.
THEOREM DrawsCorrect == Spec => []DrawsInv
<1>1. Init => DrawsInv
  BY EmptySeq DEF Init, Seed!Init, DrawsInv
<1>2. SeedInv /\ DrawsInv /\ [Next]_vars => DrawsInv'
  <2> SUFFICES ASSUME SeedInv, DrawsInv, [Next]_vars PROVE DrawsInv'
    OBVIOUS
  <2>1. CASE UNCHANGED seed
    BY <2>1 DEF seed, DrawsInv
  <2>2. CASE Generate
    <3>1. Len(incidents') \in {Len(incidents), Len(incidents) + 1}
      <4>1. PICK r \in Reporting : Seed!Iterate(r)
        BY <2>2 DEF Generate
      <4>2. SeedProofs!Iterate(r)
        BY <4>1 DEF Seed!Iterate, Seed!NewEvent, Seed!Keep, Seed!Flip, Seed!Filed, Seed!StillOpen,
           Seed!NewIncident, Seed!NoIncident, SeedProofs!Iterate, SeedProofs!NewEvent, SeedProofs!Keep,
           SeedProofs!Flip, SeedProofs!Filed, SeedProofs!StillOpen, SeedProofs!NewIncident, SeedProofs!NoIncident
      <4>3. SeedProofs!DemoSeedAssumption /\ SeedProofs!TypeOK
        BY DemoApiAssumption DEF SeedProofs!DemoSeedAssumption, SeedInv, SeedProofs!IInv
      <4>4. SeedProofs!IterateEffect(r)
        BY <4>2, <4>3, SeedProofs!IterateHasEffect
      <4> QED
        BY <4>4 DEF SeedProofs!IterateEffect
    <3>2. CASE Len(incidents') = Len(incidents)
      BY <2>2, <3>2 DEF Generate, DrawsInv
    <3>3. CASE Len(incidents') # Len(incidents)
      <4>1. PICK draw \in Draws : resource_ids' = Append(resource_ids, draw)
        BY <2>2, <3>3 DEF Generate
      <4> QED
        BY <3>1, <3>3, <4>1, AppendProperties DEF DrawsInv
    <3> QED
      BY <3>2, <3>3
  <2>3. Generate \/ UNCHANGED seed
    BY DEF Next, vars, Open, OpenListed, Follow, Ask, NextPage, Locate, Leave
  <2> QED
    BY <2>1, <2>2, <2>3
<1>3. QED
  BY <1>1, <1>2, SeedInvariant, PTL DEF Spec

\* The ids in the world lead to one object each.
LEMMA WorldIsFoundOnce ==
  ASSUME SeedInv
  PROVE  /\ \A id \in ToSet(event_ids) : Kind(id) = "event" /\ FoundOnce(id)
         /\ \A id \in ToSet(incident_ids) : Kind(id) = "incident" /\ FoundOnce(id)
         /\ \A id \in ToSet(Ids(resources)) : Kind(id) = "resource" /\ FoundOnce(id)
<1>1. ASSUME NEW id \in ToSet(event_ids) PROVE Kind(id) = "event" /\ FoundOnce(id)
  <2>1. PICK n \in 1 .. Len(events) : id = event_ids[n]
    BY CollectionProperties DEF ToSet
  <2>2. Kind(id) = "event"
    <3>1. id \in {"event"} \X (Reporting \X Nat)
      BY <2>1, CollectionProperties, ElementOfSeq, LenProperties
    <3> QED
      BY <3>1 DEF Kind
  <2> QED
    BY <2>1, <2>2, CollectionProperties DEF FoundOnce, Collection
<1>2. ASSUME NEW id \in ToSet(incident_ids) PROVE Kind(id) = "incident" /\ FoundOnce(id)
  <2>1. PICK n \in 1 .. Len(incidents) : id = incident_ids[n]
    BY CollectionProperties DEF ToSet
  <2>2. Kind(id) = "incident"
    <3>1. id \in {"incident"} \X (Reporting \X Nat)
      BY <2>1, CollectionProperties, ElementOfSeq, LenProperties
    <3> QED
      BY <3>1 DEF Kind
  <2> QED
    BY <2>1, <2>2, CollectionProperties DEF FoundOnce, Collection
<1>3. ASSUME NEW id \in ToSet(Ids(resources)) PROVE Kind(id) = "resource" /\ FoundOnce(id)
  <2>1. PICK n \in DOMAIN resources : id = resources[n].id
    BY DEF ToSet, Ids
  <2>2. Kind(id) = "resource"
    <3>1. DOMAIN resources = 1 .. 6
      BY DEF resources
    <3> QED
      BY <2>1, <3>1 DEF resources, Resource, demo_uuid, Kind
  <2>3. Place(id) = n /\ \A m \in DOMAIN resources : resources[m].id = id => m = n
    BY <2>1, ResourceIsFound
  <2>4. DOMAIN Ids(resources) = DOMAIN resources /\ \A m \in DOMAIN resources : Ids(resources)[m] = resources[m].id
    BY DEF Ids
  <2> QED
    BY <2>1, <2>2, <2>3, <2>4 DEF FoundOnce, Collection
<1> QED
  BY <1>1, <1>2, <1>3
\* An incident names its events and the resources of its draw.
LEMMA IncidentNames ==
  ASSUME SeedInv, DrawsInv, NEW i \in 1 .. Len(incidents)
  PROVE  /\ ToSet(resource_ids[i]) \subseteq ToSet(Ids(resources))
         /\ ToSet(Named(incident_ids[i]))
              = {event_ids[e] : e \in ToSet(incidents[i].event_ids)} \cup ToSet(resource_ids[i])
<1> DEFINE ids  == incidents[i].event_ids
           own  == [m \in DOMAIN ids |-> event_ids[ids[m]]]
           draw == resource_ids[i]
           S    == ToSet(event_ids) \cup ToSet(Ids(resources))
<1>1. ids \in Seq(1 .. Len(events))
  BY WorldProperties
<1>2. DOMAIN ids = 1 .. Len(ids) /\ Len(ids) \in Nat /\ \A m \in 1 .. Len(ids) : ids[m] \in 1 .. Len(events)
  BY <1>1, LenProperties, ElementOfSeq
<1>3. draw \in Seq(ToSet(Ids(resources)))
  <2>1. draw \in Draws
    BY ElementOfSeq DEF DrawsInv
  <2> QED
    BY <2>1, DemoApiAssumption
<1>4. Named(incident_ids[i]) = own \o draw
  <2>1. Kind(incident_ids[i]) = "incident"
    <3>1. incident_ids[i] \in ToSet(incident_ids)
      BY CollectionProperties DEF ToSet
    <3> QED
      BY <3>1, WorldIsFoundOnce
  <2>2. get_incident(incident_ids[i]) = [event_ids |-> own, resource_ids |-> draw]
    BY EventNames DEF get_incident
  <2> HIDE DEF own, draw
  <2> QED
    BY <2>1, <2>2 DEF Named
<1>5. own \in Seq(S) /\ ToSet(own) = {event_ids[e] : e \in ToSet(ids)}
  <2>1. own = [m \in 1 .. Len(ids) |-> event_ids[ids[m]]]
    BY <1>2
  <2>2. \A m \in 1 .. Len(ids) : event_ids[ids[m]] \in S
    BY <1>2, CollectionProperties DEF ToSet
  <2> HIDE DEF S
  <2>3. own \in Seq(S)
    BY <1>2, <2>1, <2>2, SeqDef
  <2>4. DOMAIN own = DOMAIN ids /\ \A m \in DOMAIN ids : own[m] = event_ids[ids[m]]
    OBVIOUS
  <2> HIDE DEF own, ids
  <2>5. ToSet(own) = {event_ids[e] : e \in ToSet(ids)}
    BY <2>4 DEF ToSet
  <2> QED
    BY <2>3, <2>5
<1>6. draw \in Seq(S) /\ ToSet(draw) \subseteq ToSet(Ids(resources))
  <2>1. /\ draw \in [1 .. Len(draw) -> ToSet(Ids(resources))]
        /\ Len(draw) \in Nat /\ DOMAIN draw = 1 .. Len(draw)
    BY <1>3, LenProperties, ElementOfSeq
  <2> HIDE DEF draw
  <2>2. draw \in [1 .. Len(draw) -> S]
    BY <2>1
  <2> HIDE DEF S
  <2> QED
    BY <2>1, <2>2, SeqDef DEF ToSet
<1> HIDE DEF own, draw, S
<1>7. ToSet(own \o draw) = ToSet(own) \cup ToSet(draw)
  BY <1>5, <1>6, ToSetConcat
<1> QED
  BY <1>4, <1>5, <1>6, <1>7 DEF draw

\* What an event or an incident names is in the world, and an incident and its
\* events name each other.
LEMMA GeneratedNames ==
  ASSUME SeedInv, DrawsInv, NEW id \in ToSet(event_ids) \cup ToSet(incident_ids),
         NEW named \in ToSet(Named(id))
  PROVE  /\ named \in ToSet(event_ids) \cup ToSet(incident_ids) \cup ToSet(Ids(resources))
         /\ {Kind(id), Kind(named)} = {"event", "incident"} => id \in ToSet(Named(named))
<1>1. \A e \in 1 .. Len(events), i \in 1 .. Len(incidents) :
        events[e].incident = i <=> e \in ToSet(incidents[i].event_ids)
  BY WorldProperties DEF SeedInv, SeedProofs!IInv, SeedProofs!LinksAgree, SeedProofs!ToSet, ToSet
<1>2. CASE id \in ToSet(event_ids)
  <2>1. PICK n \in 1 .. Len(events) : id = event_ids[n]
    BY <1>2, CollectionProperties DEF ToSet
  <2>2. \/ named = demo_uuid("resource", events[n].resource)
        \/ events[n].incident # 0 /\ named = incident_ids[events[n].incident]
    <3>1. named \in {demo_uuid("resource", events[n].resource)}
                      \cup {incident_ids[j] : j \in {events[n].incident} \ {0}}
      BY <2>1, EventNames
    <3> QED
      BY ONLY <3>1
  <2>3. CASE named = demo_uuid("resource", events[n].resource)
    <3>1. events[n].resource \in Reporting
      <4>1. events[n] \in SeedProofs!Event
        BY WorldProperties, ElementOfSeq DEF SeedInv, SeedProofs!IInv, SeedProofs!TypeOK
      <4> QED
        BY <4>1 DEF SeedProofs!Event
    <3>2. PICK m \in DOMAIN resources : resources[m].name = events[n].resource
      BY <3>1, DemoApiAssumption DEF ToSet
    <3>3. resources[m].id = named
      <4>1. DOMAIN resources = 1 .. 6
        BY DEF resources
      <4>2. \A l \in 1 .. 6 : resources[l].id = demo_uuid("resource", resources[l].name)
        BY DEF resources, Resource
      <4> QED
        BY <2>3, <3>2, <4>1, <4>2
    <3>4. named \in ToSet(Ids(resources))
      BY <3>3 DEF Ids, ToSet
    <3> QED
      BY <1>2, <3>4, WorldIsFoundOnce
  <2>4. CASE events[n].incident # 0 /\ named = incident_ids[events[n].incident]
    <3> DEFINE i == events[n].incident
    <3>1. i \in 1 .. Len(incidents)
      BY <2>4, WorldProperties
    <3>2. named \in ToSet(incident_ids)
      BY <2>4, <3>1, CollectionProperties DEF ToSet
    <3>3. n \in ToSet(incidents[i].event_ids)
      BY <1>1, <3>1
    <3>4. id \in ToSet(Named(named))
      BY <2>1, <2>4, <3>1, <3>3, IncidentNames
    <3> QED
      BY <3>2, <3>4
  <2> QED
    BY <2>2, <2>3, <2>4
<1>3. CASE id \in ToSet(incident_ids)
  <2>1. PICK i \in 1 .. Len(incidents) : id = incident_ids[i]
    BY <1>3, CollectionProperties DEF ToSet
  <2>2. \/ \E e \in ToSet(incidents[i].event_ids) : named = event_ids[e]
        \/ named \in ToSet(Ids(resources))
    BY <2>1, IncidentNames
  <2>3. CASE named \in ToSet(Ids(resources))
    BY <1>3, <2>3, WorldIsFoundOnce
  <2>4. ASSUME NEW e \in ToSet(incidents[i].event_ids), named = event_ids[e]
        PROVE  named \in ToSet(event_ids) /\ id \in ToSet(Named(named))
    <3>1. e \in 1 .. Len(events)
      BY WorldProperties, LenProperties, ElementOfSeq DEF ToSet
    <3>2. named \in ToSet(event_ids)
      BY <2>4, <3>1, CollectionProperties DEF ToSet
    <3>3. events[e].incident = i
      BY <1>1, <3>1
    <3>4. id \in ToSet(Named(named))
      BY <2>1, <2>4, <3>1, <3>3, EventNames
    <3> QED
      BY <3>2, <3>4
  <2> QED
    BY <2>2, <2>3, <2>4
<1> QED
  BY <1>2, <1>3

\* Whatever an event or an incident names is found once, and an incident and its
\* events name each other.
THEOREM GeneratedLinksResolveCorrect == Spec => []GeneratedLinksResolve
<1>1. SeedInv /\ DrawsInv => GeneratedLinksResolve
  BY GeneratedNames, WorldIsFoundOnce DEF GeneratedLinksResolve
<1>2. QED
  BY <1>1, SeedInvariant, DrawsCorrect, PTL

-----------------------------------------------------------------------------
(* The world that is written down.                                         *)

\* The endpoints of all resources.
endpoints == FlattenSeq([n \in DOMAIN resources |-> EndpointsOf(resources[n].name)])

\* A list is a list of its members.
LEMMA ListOfItsMembers ==
  ASSUME NEW S, NEW list \in Seq(S)
  PROVE  list \in Seq(ToSet(list))
<1>1. Len(list) \in Nat /\ list \in [1 .. Len(list) -> S] /\ DOMAIN list = 1 .. Len(list)
  BY LenProperties
<1>2. list \in [1 .. Len(list) -> ToSet(list)]
  BY <1>1 DEF ToSet
<1> QED
  BY <1>1, <1>2, SeqDef

\* Two lists of different things, put together.
LEMMA ToSetConcatOf ==
  ASSUME NEW a, NEW b, a \in Seq(ToSet(a)), b \in Seq(ToSet(b))
  PROVE  a \o b \in Seq(ToSet(a \o b)) /\ ToSet(a \o b) = ToSet(a) \cup ToSet(b)
<1> DEFINE S == ToSet(a) \cup ToSet(b)
<1>1. a \in Seq(S) /\ b \in Seq(S)
  <2>1. /\ Len(a) \in Nat /\ a \in [1 .. Len(a) -> ToSet(a)]
        /\ Len(b) \in Nat /\ b \in [1 .. Len(b) -> ToSet(b)]
    BY LenProperties, ElementOfSeq
  <2>2. a \in [1 .. Len(a) -> S] /\ b \in [1 .. Len(b) -> S]
    BY <2>1
  <2> HIDE DEF S
  <2> QED
    BY <2>1, <2>2, SeqDef
<1> HIDE DEF S
<1>2. a \o b \in Seq(S) /\ ToSet(a \o b) = S
  BY <1>1, ToSetConcat DEF S
<1> QED
  BY <1>2 DEF S

\* The ids of a list of objects that are told apart by their ids.
LEMMA IdsProperties ==
  ASSUME NEW S, NEW list \in Seq(S), IsInjective(list),
         \A x, y \in ToSet(list) : x.id = y.id => x = y
  PROVE  /\ Ids(list) \in Seq(ToSet(Ids(list)))
         /\ DOMAIN Ids(list) = DOMAIN list
         /\ ToSet(Ids(list)) = {x.id : x \in ToSet(list)}
         /\ IsInjective(Ids(list))
<1>1. DOMAIN list = 1 .. Len(list) /\ Len(list) \in Nat
  BY LenProperties
<1>2. Ids(list) = [n \in DOMAIN list |-> list[n].id]
  BY DEF Ids
<1>3. \A n \in DOMAIN list : list[n] \in ToSet(list)
  BY DEF ToSet
<1>4. ToSet(Ids(list)) = {x.id : x \in ToSet(list)}
  BY <1>2 DEF ToSet
<1>5. Ids(list) \in Seq(ToSet(Ids(list)))
  <2>1. Ids(list) \in [1 .. Len(list) -> ToSet(Ids(list))]
    BY <1>1, <1>2 DEF ToSet
  <2> QED
    BY <1>1, <2>1, SeqDef
<1>6. IsInjective(Ids(list))
  BY <1>2, <1>3 DEF IsInjective
<1> QED
  BY <1>2, <1>4, <1>5, <1>6

\* The resources, and what each one says of itself.
LEMMA ResourceProperties ==
  /\ DOMAIN resources = 1 .. 6 /\ Len(resources) = 6
  /\ resources \in Seq(ToSet(resources)) /\ IsInjective(resources)
  /\ \A r \in ToSet(resources) :
       /\ r.id = <<"resource", r.name>>
       /\ r.site_id \in ToSet(Ids(sites))
       /\ r.capability_ids \in Seq(ToSet(capabilities))
<1> DEFINE names == <<"perlmutter", "hpss", "cfs", "login", "iris", "sfapi">>
<1>1. DOMAIN resources = 1 .. 6 /\ Len(resources) = 6
  BY DEF resources
<1>2. \A m \in 1 .. 6 : resources[m].id = <<"resource", names[m]>> /\ resources[m].name = names[m]
  BY DEF resources, Resource, demo_uuid
<1>3. \A l, m \in 1 .. 6 : names[l] = names[m] => l = m
  OBVIOUS
<1>4. IsInjective(resources)
  <2> HIDE DEF names
  <2> QED
    BY <1>1, <1>2, <1>3 DEF IsInjective
<1>5. resources \in Seq(ToSet(resources))
  <2>1. resources = [m \in 1 .. 6 |-> resources[m]]
    BY DEF resources
  <2>2. resources \in [1 .. 6 -> ToSet(resources)]
    BY <1>1, <2>1 DEF ToSet
  <2> QED
    BY <2>2, SeqDef
<1>6. \A r \in ToSet(resources) : r.id = <<"resource", r.name>>
  BY <1>1, <1>2 DEF ToSet
<1>7. \A m \in 1 .. 6 : resources[m].site_id \in ToSet(Ids(sites))
  <2>1. DOMAIN SiteNames = 1 .. 2 /\ SiteNames[1] = "demo_site_1" /\ SiteNames[2] = "demo_site_2"
    BY DEF SiteNames
  <2>2. Ids(sites) = [n \in 1 .. 2 |-> demo_uuid("site", SiteNames[n])]
    BY <2>1 DEF sites, Ids
  <2>3. ToSet(Ids(sites)) = {demo_uuid("site", "demo_site_1"), demo_uuid("site", "demo_site_2")}
    BY <2>1, <2>2 DEF ToSet
  <2> QED
    BY <2>3 DEF resources, Resource
<1>8. \A m \in 1 .. 6 : resources[m].capability_ids \in Seq(ToSet(capabilities))
  <2>1. DOMAIN CapabilityNames = 1 .. 4
    BY DEF CapabilityNames
  <2>2. capabilities = [n \in 1 .. 4 |-> demo_uuid("capability", CapabilityNames[n])]
    BY <2>1 DEF capabilities
  <2>3. ToSet(capabilities) = {demo_uuid("capability", w) : w \in {"cpu", "gpu", "hpss", "gpfs"}}
    BY <2>2 DEF ToSet, CapabilityNames
  <2> TAKE m \in 1 .. 6
  <2>4. PICK caps \in {<<"cpu", "gpu">>, <<"hpss">>, <<"gpfs">>, <<>>} :
          resources[m].capability_ids = [k \in DOMAIN caps |-> demo_uuid("capability", caps[k])]
    BY DEF resources, Resource
  <2>5. caps \in Seq({"cpu", "gpu", "hpss", "gpfs"})
    <3> DEFINE Word == {"cpu", "gpu", "hpss", "gpfs"}
    <3>1. <<"cpu", "gpu">> \in Seq(Word) /\ <<"hpss">> \in Seq(Word) /\ <<"gpfs">> \in Seq(Word)
      OBVIOUS
    <3>2. <<>> \in Seq(Word)
      BY EmptySeq
    <3> HIDE DEF Word
    <3> QED
      BY <3>1, <3>2 DEF Word
  <2>6. /\ DOMAIN caps = 1 .. Len(caps) /\ Len(caps) \in Nat
        /\ \A k \in 1 .. Len(caps) : demo_uuid("capability", caps[k]) \in ToSet(capabilities)
    BY <2>3, <2>5, LenProperties, ElementOfSeq
  <2> QED
    BY <2>4, <2>6, SeqDef
<1> QED
  BY <1>1, <1>4, <1>5, <1>6, <1>7, <1>8 DEF ToSet

\* The endpoints of a resource name it, and all endpoints have different ids.
LEMMA EndpointProperties ==
  /\ endpoints \in Seq(ToSet(endpoints)) /\ IsInjective(endpoints)
  /\ \A x, y \in ToSet(endpoints) : x.id = y.id => x = y
  /\ \A e \in ToSet(endpoints) : Kind(e.id) = "endpoint" /\ e.id # NoId
  /\ \A e : e \in ToSet(endpoints) <=>
       \E r \in ToSet(resources) : e \in ToSet(EndpointsOf(r.name))
  /\ \A r \in ToSet(resources) : /\ EndpointsOf(r.name) \in Seq(ToSet(endpoints))
                                 /\ IsInjective(EndpointsOf(r.name))
                                 /\ \A e \in ToSet(EndpointsOf(r.name)) : e.resource_id = r.id
<1> DEFINE a  == AccessEndpoint("globus-cfs-demo", "cfs", "globus")
           b  == AccessEndpoint("xrootd-cfs-demo", "cfs", "xrootd")
           c  == AccessEndpoint("s3-cfs-demo",     "cfs", "s3")
           h  == AccessEndpoint("globus-hpss-demo", "hpss", "globus")
           E  == {a, b, c, h}
           ss == [n \in DOMAIN resources |-> EndpointsOf(resources[n].name)]
<1>1. \A x, y \in E : x.id = y.id => x = y
  BY DEF AccessEndpoint
<1>2. \A x \in E : Kind(x.id) = "endpoint" /\ x.id # NoId
  BY DEF AccessEndpoint, Kind, NoId
<1>3. /\ a.resource_id = <<"resource", "cfs">> /\ b.resource_id = <<"resource", "cfs">>
      /\ c.resource_id = <<"resource", "cfs">> /\ h.resource_id = <<"resource", "hpss">>
      /\ a # b /\ a # c /\ b # c
  BY DEF AccessEndpoint, demo_uuid
<1>4. /\ EndpointsOf("cfs") = <<a, b, c>> /\ EndpointsOf("hpss") = <<h>>
      /\ \A name : name \notin {"cfs", "hpss"} => EndpointsOf(name) = <<>>
  BY DEF EndpointsOf, access_endpoints
<1> HIDE DEF a, b, c, h
<1>5. ASSUME NEW name
      PROVE  /\ EndpointsOf(name) \in Seq(E)
             /\ IsInjective(EndpointsOf(name))
             /\ \A e \in ToSet(EndpointsOf(name)) : e.resource_id = <<"resource", name>>
  <2>1. CASE name = "cfs"
    <3>1. ToSet(<<a, b, c>>) = {a, b, c} /\ <<a, b, c>> \in Seq(E)
      BY DEF ToSet
    <3>2. IsInjective(<<a, b, c>>)
      BY <1>3 DEF IsInjective
    <3> HIDE DEF E
    <3> QED
      BY <1>3, <1>4, <2>1, <3>1, <3>2
  <2>2. CASE name = "hpss"
    <3>1. ToSet(<<h>>) = {h} /\ <<h>> \in Seq(E)
      BY DEF ToSet
    <3>2. IsInjective(<<h>>)
      BY DEF IsInjective
    <3> HIDE DEF E
    <3> QED
      BY <1>3, <1>4, <2>2, <3>1, <3>2
  <2>3. CASE name \notin {"cfs", "hpss"}
    <3>1. ToSet(<<>>) = {} /\ IsInjective(<<>>)
      BY EmptySeq DEF ToSet, IsInjective
    <3> HIDE DEF E
    <3> QED
      BY <1>4, <2>3, <3>1, EmptySeq
  <2> QED
    BY <2>1, <2>2, <2>3
<1> HIDE DEF E
<1>6. ss \in Seq(Seq(E)) /\ DOMAIN ss = 1 .. 6
  BY <1>5, ResourceProperties, SeqDef
<1>7. \A n \in DOMAIN ss : ss[n] = EndpointsOf(resources[n].name)
  OBVIOUS
<1>8. \A m, n \in DOMAIN ss : m # n => ToSet(ss[m]) \cap ToSet(ss[n]) = {}
  <2>1. \A n \in 1 .. 6 : resources[n].id = <<"resource", resources[n].name>> /\ resources[n] \in ToSet(resources)
    BY ResourceProperties DEF ToSet
  <2>2. \A m, n \in 1 .. 6 : resources[m].id = resources[n].id => m = n
    <3>1. DOMAIN Ids(resources) = 1 .. 6 /\ \A m \in 1 .. 6 : Ids(resources)[m] = resources[m].id
      BY ResourceProperties DEF Ids
    <3>2. \A m, n \in 1 .. 6 : Place(resources[m].id) = m
      BY ResourceProperties, ResourceIsFound
    <3> QED
      BY <3>2
  <2>3. \A n \in 1 .. 6 : \A e \in ToSet(ss[n]) : e.resource_id = resources[n].id
    BY <1>5, <1>6, <1>7, <2>1
  <2> HIDE DEF ss
  <2> QED
    BY <1>6, <2>2, <2>3
<1>9. endpoints = FlattenSeq(ss)
  BY DEF endpoints
<1> HIDE DEF ss
<1>10. /\ endpoints \in Seq(E)
       /\ ToSet(endpoints) = UNION {ToSet(ss[n]) : n \in DOMAIN ss}
       /\ IsInjective(endpoints)
  <2>1. \A n \in DOMAIN ss : IsInjective(ss[n])
    BY <1>5, <1>7
  <2> QED
    BY <1>6, <1>8, <1>9, <2>1, FlattenSeqProperties
<1>11. \A e : e \in ToSet(endpoints) <=>
         \E r \in ToSet(resources) : e \in ToSet(EndpointsOf(r.name))
  <2>1. \A e : e \in ToSet(endpoints) <=> \E n \in 1 .. 6 : e \in ToSet(EndpointsOf(resources[n].name))
    BY <1>6, <1>7, <1>10
  <2>2. ToSet(resources) = {resources[n] : n \in 1 .. 6}
    BY ResourceProperties DEF ToSet
  <2> QED
    BY <2>1, <2>2
<1>12. ASSUME NEW list \in Seq(E), ToSet(list) \subseteq ToSet(endpoints)
       PROVE  list \in Seq(ToSet(endpoints))
  <2>1. Len(list) \in Nat /\ list \in [1 .. Len(list) -> ToSet(endpoints)]
    BY <1>12, LenProperties, ElementOfSeq DEF ToSet
  <2> QED
    BY <2>1, SeqDef
<1>13. endpoints \in Seq(ToSet(endpoints))
  BY <1>10, ListOfItsMembers
<1>14. ASSUME NEW r \in ToSet(resources)
       PROVE  /\ EndpointsOf(r.name) \in Seq(ToSet(endpoints))
              /\ IsInjective(EndpointsOf(r.name))
              /\ \A e \in ToSet(EndpointsOf(r.name)) : e.resource_id = r.id
  <2>1. ToSet(EndpointsOf(r.name)) \subseteq ToSet(endpoints)
    BY <1>11
  <2>2. EndpointsOf(r.name) \in Seq(ToSet(endpoints))
    BY <1>5, <1>12, <2>1
  <2> QED
    BY <1>5, <2>2, ResourceProperties
<1>15. \A e \in ToSet(endpoints) : e \in E
  BY <1>10, LenProperties, ElementOfSeq DEF ToSet
<1> HIDE DEF ss
<1> QED
  BY <1>1, <1>2, <1>10, <1>11, <1>13, <1>14, <1>15

\* The allocations: one for each project and capability, with one of the user
\* in it, and all with different ids.
LEMMA AllocationProperties ==
  /\ project_allocations \in Seq(ToSet(project_allocations)) /\ IsInjective(project_allocations)
  /\ \A x, y \in ToSet(project_allocations) : x.id = y.id => x = y
  /\ \A pa \in ToSet(project_allocations) : /\ Kind(pa.id) = "project_allocation" /\ pa.id # NoId
                                            /\ pa.project_id \in ToSet(Ids(projects))
                                            /\ pa.capability_id \in ToSet(capabilities)
  /\ user_allocations \in Seq(ToSet(user_allocations)) /\ IsInjective(user_allocations)
  /\ \A x, y \in ToSet(user_allocations) : x.id = y.id => x = y
  /\ \A ua \in ToSet(user_allocations) :
       /\ Kind(ua.id) = "user_allocation" /\ ua.id # NoId
       /\ \E pa \in ToSet(project_allocations) :
            ua.project_allocation_id = pa.id /\ ua.project_id = pa.project_id
<1> DEFINE S     == {ProjectAllocation(p, c) : p \in ToSet(Ids(projects)), c \in ToSet(capabilities)}
           of(p) == [m \in DOMAIN capabilities |-> ProjectAllocation(p, capabilities[m])]
           ss    == [n \in DOMAIN projects |-> of(projects[n].id)]
<1>1. /\ DOMAIN projects = 1 .. 2 /\ projects[1].id # projects[2].id
      /\ DOMAIN capabilities = 1 .. 4
      /\ \A m, n \in 1 .. 4 : capabilities[m] = capabilities[n] => m = n
  <2>1. DOMAIN projects = 1 .. 2 /\ projects[1].id # projects[2].id
    <3>1. DOMAIN projects = 1 .. 2
      BY DEF projects
    <3>2. projects[1].id = <<"project", "staff_research">>
      BY DEF projects, demo_uuid
    <3>3. projects[2].id = <<"project", "test_project">>
      BY DEF projects, demo_uuid
    <3> QED
      BY <3>1, <3>2, <3>3
  <2>2. DOMAIN CapabilityNames = 1 .. 4 /\ \A m, n \in 1 .. 4 : CapabilityNames[m] = CapabilityNames[n] => m = n
    BY DEF CapabilityNames
  <2> QED
    BY <2>1, <2>2 DEF capabilities, demo_uuid
<1>2. \A n \in 1 .. 2 : projects[n].id \in ToSet(Ids(projects))
  BY <1>1 DEF Ids, ToSet
<1>3. \A p, c, p2, c2 : ProjectAllocation(p, c).id = ProjectAllocation(p2, c2).id => p = p2 /\ c = c2
  BY DEF ProjectAllocation, demo_uuid
<1>4. \A p, c : /\ ProjectAllocation(p, c).project_id = p
                /\ ProjectAllocation(p, c).capability_id = c
                /\ Kind(ProjectAllocation(p, c).id) = "project_allocation"
                /\ ProjectAllocation(p, c).id # NoId
  BY DEF ProjectAllocation, demo_uuid, Kind, NoId
<1>5. \A n \in 1 .. 2 : /\ ss[n] \in Seq(S)
                        /\ IsInjective(ss[n])
                        /\ \A x \in ToSet(ss[n]) : x.project_id = projects[n].id
  <2> TAKE n \in 1 .. 2
  <2>1. ss[n] = [m \in 1 .. 4 |-> ProjectAllocation(projects[n].id, capabilities[m])]
    BY <1>1
  <2>2. \A m \in 1 .. 4 : ProjectAllocation(projects[n].id, capabilities[m]) \in S
    BY <1>1, <1>2 DEF ToSet
  <2> HIDE DEF S, ss
  <2>3. ss[n] \in Seq(S)
    BY <2>1, <2>2, SeqDef
  <2>4. IsInjective(ss[n])
    BY <1>1, <1>3, <2>1 DEF IsInjective
  <2>5. \A x \in ToSet(ss[n]) : x.project_id = projects[n].id
    BY <1>4, <2>1 DEF ToSet
  <2> QED
    BY <2>3, <2>4, <2>5
<1>6. ss \in Seq(Seq(S)) /\ DOMAIN ss = 1 .. 2
  <2>1. DOMAIN ss = 1 .. 2
    BY <1>1
  <2>2. ss = [n \in 1 .. 2 |-> ss[n]]
    BY <1>1
  <2> HIDE DEF S, ss
  <2> QED
    BY <1>5, <2>1, <2>2, SeqDef
<1>7. project_allocations = FlattenSeq(ss)
  BY DEF project_allocations
<1> HIDE DEF S, ss
<1>8. \A m, n \in DOMAIN ss : m # n => ToSet(ss[m]) \cap ToSet(ss[n]) = {}
  <2>1. \A m, n \in 1 .. 2 : m # n => projects[m].id # projects[n].id
    BY <1>1
  <2> QED
    BY <1>5, <1>6, <2>1
<1>9. project_allocations \in Seq(S) /\ IsInjective(project_allocations)
  BY <1>5, <1>6, <1>7, <1>8, FlattenSeqProperties
<1>10. /\ DOMAIN project_allocations = 1 .. Len(project_allocations)
       /\ Len(project_allocations) \in Nat
       /\ \A n \in DOMAIN project_allocations : project_allocations[n] \in S
  BY <1>9, LenProperties, ElementOfSeq
<1>11. ToSet(project_allocations) \subseteq S
  BY <1>10 DEF ToSet
<1>12. project_allocations \in Seq(ToSet(project_allocations))
  BY <1>9, ListOfItsMembers
<1>13. \A x, y \in ToSet(project_allocations) : x.id = y.id => x = y
  BY <1>3, <1>11 DEF S
<1>14. \A pa \in ToSet(project_allocations) : /\ Kind(pa.id) = "project_allocation" /\ pa.id # NoId
                                              /\ pa.project_id \in ToSet(Ids(projects))
                                              /\ pa.capability_id \in ToSet(capabilities)
  BY <1>4, <1>11 DEF S
<1> DEFINE UA(pa) == [id |-> demo_uuid("user_allocation", <<pa.id, DEMO_USER>>),
                      project_id |-> pa.project_id, project_allocation_id |-> pa.id, user_id |-> DEMO_USER]
<1>15. user_allocations = [n \in DOMAIN project_allocations |-> UA(project_allocations[n])]
  BY DEF user_allocations
<1>16. /\ \A x, y : UA(x).id = UA(y).id => x.id = y.id
       /\ \A x : /\ Kind(UA(x).id) = "user_allocation" /\ UA(x).id # NoId
                 /\ UA(x).project_allocation_id = x.id /\ UA(x).project_id = x.project_id
  BY DEF demo_uuid, Kind, NoId
<1> HIDE DEF UA
<1>17. \A n \in DOMAIN project_allocations : project_allocations[n] \in ToSet(project_allocations)
  BY DEF ToSet
<1>18. ToSet(user_allocations) = {UA(pa) : pa \in ToSet(project_allocations)}
  BY <1>15 DEF ToSet
<1>19. user_allocations \in Seq(ToSet(user_allocations))
  <2>1. user_allocations \in [1 .. Len(project_allocations) -> ToSet(user_allocations)]
    BY <1>10, <1>15, <1>17, <1>18
  <2> QED
    BY <1>10, <2>1, SeqDef
<1>20. \A x, y \in ToSet(user_allocations) : x.id = y.id => x = y
  BY <1>13, <1>16, <1>18
<1>21. IsInjective(user_allocations)
  BY <1>9, <1>13, <1>15, <1>16, <1>17 DEF IsInjective
<1>22. \A ua \in ToSet(user_allocations) :
         /\ Kind(ua.id) = "user_allocation" /\ ua.id # NoId
         /\ \E pa \in ToSet(project_allocations) :
              ua.project_allocation_id = pa.id /\ ua.project_id = pa.project_id
  BY <1>16, <1>18
<1> QED
  BY <1>9, <1>12, <1>13, <1>14, <1>19, <1>20, <1>21, <1>22

\* Every collection is a list of ids of its kind, without a repetition.
LEMMA CollectionsAreLists ==
  ASSUME SeedInv, NEW kind \in Kinds
  PROVE  /\ Collection(kind) \in Seq(ToSet(Collection(kind)))
         /\ IsInjective(Collection(kind))
         /\ \A id \in ToSet(Collection(kind)) : Kind(id) = kind /\ id # NoId
<1> DEFINE Good(list, k) == /\ list \in Seq(ToSet(list))
                            /\ IsInjective(list)
                            /\ \A id \in ToSet(list) : Kind(id) = k /\ id # NoId
<1>1. ASSUME NEW list, NEW N \in Nat, NEW k, list = [n \in 1 .. N |-> list[n]],
             \A n \in 1 .. N : Kind(list[n]) = k /\ list[n] # NoId,
             \A m, n \in 1 .. N : list[m] = list[n] => m = n
      PROVE  Good(list, k)
  <2>0. DOMAIN list = 1 .. N
    BY <1>1
  <2>1. list \in [1 .. N -> ToSet(list)]
    BY <1>1, <2>0 DEF ToSet
  <2>2. list \in Seq(ToSet(list))
    BY <2>1, SeqDef
  <2>3. \A id \in ToSet(list) : Kind(id) = k /\ id # NoId
    BY <1>1, <2>0 DEF ToSet
  <2> QED
    BY <1>1, <2>0, <2>2, <2>3 DEF IsInjective
<1>0. \A k, x : Kind(<<k, x>>) = k /\ <<k, x>> # NoId
  BY DEF Kind, NoId
<1>2. Good(Collection("facility"), "facility")
  <2> DEFINE list == <<facility.id>>
  <2>1. /\ list = [n \in 1 .. 1 |-> list[n]]
        /\ \A n \in 1 .. 1 : list[n] = <<"facility", "demo_facility">>
        /\ \A m, n \in 1 .. 1 : list[m] = list[n] => m = n
    BY DEF facility, demo_uuid
  <2> HIDE DEF Good, list
  <2>2. \A n \in 1 .. 1 : Kind(list[n]) = "facility" /\ list[n] # NoId
    BY <1>0, <2>1
  <2>3. Good(list, "facility")
    BY <1>1, <2>1, <2>2
  <2> QED
    BY <2>3 DEF Collection, list
<1>3. Good(Collection("site"), "site")
  <2>1. DOMAIN SiteNames = 1 .. 2 /\ \A m, n \in 1 .. 2 : SiteNames[m] = SiteNames[n] => m = n
    BY DEF SiteNames
  <2>2. Ids(sites) = [n \in 1 .. 2 |-> <<"site", SiteNames[n]>>]
    BY <2>1 DEF sites, Ids, demo_uuid
  <2>3. Ids(sites) = [n \in 1 .. 2 |-> Ids(sites)[n]] /\ \A n \in 1 .. 2 : Ids(sites)[n] = <<"site", SiteNames[n]>>
    BY <2>2
  <2>4. \A m, n \in 1 .. 2 : Ids(sites)[m] = Ids(sites)[n] => m = n
    BY <2>1, <2>3
  <2> HIDE DEF Good
  <2>5. \A n \in 1 .. 2 : Kind(Ids(sites)[n]) = "site" /\ Ids(sites)[n] # NoId
    BY <1>0, <2>3
  <2>6. Good(Ids(sites), "site")
    <3> 2 \in Nat
      OBVIOUS
    <3> QED
      BY <1>1, <2>3, <2>4, <2>5, Zenon
  <2> QED
    BY <2>6 DEF Collection
<1>4. Good(Collection("capability"), "capability")
  <2>1. DOMAIN CapabilityNames = 1 .. 4 /\ \A m, n \in 1 .. 4 : CapabilityNames[m] = CapabilityNames[n] => m = n
    BY DEF CapabilityNames
  <2>2. capabilities = [n \in 1 .. 4 |-> <<"capability", CapabilityNames[n]>>]
    BY <2>1 DEF capabilities, demo_uuid
  <2>3. capabilities = [n \in 1 .. 4 |-> capabilities[n]] /\ \A n \in 1 .. 4 : capabilities[n] = <<"capability", CapabilityNames[n]>>
    BY <2>2
  <2>4. \A m, n \in 1 .. 4 : capabilities[m] = capabilities[n] => m = n
    BY <2>1, <2>3
  <2> HIDE DEF Good
  <2>5. \A n \in 1 .. 4 : Kind(capabilities[n]) = "capability" /\ capabilities[n] # NoId
    BY <1>0, <2>3
  <2>6. Good(capabilities, "capability")
    <3> 4 \in Nat
      OBVIOUS
    <3> QED
      BY <1>1, <2>3, <2>4, <2>5, Zenon
  <2> QED
    BY <2>6 DEF Collection
<1>5. Good(Collection("project"), "project")
  <2> DEFINE w == <<"staff_research", "test_project">>
  <2>1. \A m, n \in 1 .. 2 : w[m] = w[n] => m = n
    OBVIOUS
  <2>2. /\ DOMAIN projects = 1 .. 2
        /\ projects[1].id = <<"project", w[1]>>
        /\ projects[2].id = <<"project", w[2]>>
    <3>1. DOMAIN projects = 1 .. 2
      BY DEF projects
    <3>2. projects[1].id = <<"project", "staff_research">>
      BY DEF projects, demo_uuid
    <3>3. projects[2].id = <<"project", "test_project">>
      BY DEF projects, demo_uuid
    <3> QED
      BY <3>1, <3>2, <3>3
  <2>3. \A n \in 1 .. 2 : n = 1 \/ n = 2
    OBVIOUS
  <2> HIDE DEF Good, w
  <2>4. Ids(projects) = [n \in 1 .. 2 |-> Ids(projects)[n]] /\ \A n \in 1 .. 2 : Ids(projects)[n] = projects[n].id
    BY <2>2 DEF Ids
  <2>5. \A n \in 1 .. 2 : Ids(projects)[n] = <<"project", w[n]>>
    BY <2>2, <2>3, <2>4
  <2>6. \A m, n \in 1 .. 2 : Ids(projects)[m] = Ids(projects)[n] => m = n
    BY <2>1, <2>5
  <2>7. \A n \in 1 .. 2 : Kind(Ids(projects)[n]) = "project" /\ Ids(projects)[n] # NoId
    BY <1>0, <2>5
  <2>8. Good(Ids(projects), "project")
    <3> 2 \in Nat
      OBVIOUS
    <3> QED
      BY <1>1, <2>4, <2>6, <2>7, Zenon
  <2> QED
    BY <2>8 DEF Collection
<1>6. ASSUME NEW list, list \in Seq(ToSet(list)), IsInjective(list), NEW k,
             \A x, y \in ToSet(list) : x.id = y.id => x = y,
             \A x \in ToSet(list) : Kind(x.id) = k /\ x.id # NoId
      PROVE  Good(Ids(list), k)
  <2>1. /\ Ids(list) \in Seq(ToSet(Ids(list)))
        /\ ToSet(Ids(list)) = {x.id : x \in ToSet(list)}
        /\ IsInjective(Ids(list))
    BY <1>6, IdsProperties
  <2> QED
    BY <1>6, <2>1
<1>7. Good(Collection("resource"), "resource")
  <2>1. \A r \in ToSet(resources) : Kind(r.id) = "resource" /\ r.id # NoId
    BY <1>0, ResourceProperties
  <2>2. \A x, y \in ToSet(resources) : x.id = y.id => x = y
    <3>1. \A n \in DOMAIN resources : Place(resources[n].id) = n
      BY ResourceIsFound
    <3> QED
      BY <3>1 DEF ToSet
  <2> HIDE DEF Good
  <2>3. Good(Ids(resources), "resource")
    BY <1>6, <2>1, <2>2, ResourceProperties
  <2> QED
    BY <2>3 DEF Collection
<1>8. Good(Collection("endpoint"), "endpoint")
  <2> HIDE DEF Good
  <2>1. Good(Ids(endpoints), "endpoint")
    BY <1>6, EndpointProperties
  <2> QED
    BY <2>1 DEF Collection, endpoints
<1>9. Good(Collection("project_allocation"), "project_allocation")
  <2> HIDE DEF Good
  <2>1. Good(Ids(project_allocations), "project_allocation")
    BY <1>6, AllocationProperties
  <2> QED
    BY <2>1 DEF Collection
<1>10. Good(Collection("user_allocation"), "user_allocation")
  <2> HIDE DEF Good
  <2>1. Good(Ids(user_allocations), "user_allocation")
    BY <1>6, AllocationProperties
  <2> QED
    BY <2>1 DEF Collection
<1>11. ASSUME NEW list, NEW N \in Nat, NEW k, NEW R, list \in Seq({k} \X R), DOMAIN list = 1 .. N,
              \A m, n \in 1 .. N : list[m] = list[n] => m = n
       PROVE  Good(list, k)
  <2>1. \A n \in 1 .. N : list[n] \in {k} \X R
    BY <1>11, LenProperties, ElementOfSeq
  <2>2. list = [n \in 1 .. N |-> list[n]]
    BY <1>11, LenProperties
  <2>3. \A x \in {k} \X R : Kind(x) = k /\ x # NoId
    BY <1>0
  <2> HIDE DEF Good
  <2> QED
    BY <1>1, <1>11, <2>1, <2>2, <2>3
<1>12. Good(Collection("event"), "event")
  <2> HIDE DEF Good
  <2>1. Good(event_ids, "event")
    BY <1>11, WorldProperties, CollectionProperties
  <2> QED
    BY <2>1 DEF Collection
<1>13. Good(Collection("incident"), "incident")
  <2> HIDE DEF Good
  <2>1. Good(incident_ids, "incident")
    BY <1>11, WorldProperties, CollectionProperties
  <2> QED
    BY <2>1 DEF Collection
<1>14. Good(Collection(kind), kind)
  <2> HIDE DEF Good
  <2> QED
    BY <1>2, <1>3, <1>4, <1>5, <1>7, <1>8, <1>9, <1>10, <1>12, <1>13 DEF Kinds
<1> QED
  BY <1>14

\* What is in a collection leads to one object, and is found at its place.
LEMMA KnownIsFound ==
  ASSUME SeedInv, NEW kind \in Kinds, NEW n \in DOMAIN Collection(kind)
  PROVE  /\ Kind(Collection(kind)[n]) = kind
         /\ FoundOnce(Collection(kind)[n])
         /\ Place(Collection(kind)[n]) = n
<1> DEFINE all == Collection(kind)
           id  == all[n]
<1>1. all \in Seq(ToSet(all)) /\ IsInjective(all) /\ \A x \in ToSet(all) : Kind(x) = kind
  BY CollectionsAreLists
<1>2. DOMAIN all = 1 .. Len(all) /\ Len(all) \in Nat
  BY <1>1, LenProperties
<1>3. id \in ToSet(all)
  BY DEF ToSet
<1>4. Kind(id) = kind /\ \A m \in DOMAIN all : all[m] = id <=> m = n
  BY <1>1, <1>3 DEF IsInjective
<1>5. FoundOnce(id)
  BY <1>4 DEF FoundOnce
<1>6. /\ Len(Collection(Kind(id))) = Len(all)
      /\ \A m \in 1 .. Len(all) : Collection(Kind(id))[m] = id <=> m = n
  BY <1>2, <1>4
<1> HIDE DEF id, all
<1>7. Place(id) = n
  BY <1>2, <1>6, PlaceIsFound DEF all
<1> QED
  BY <1>4, <1>5, <1>7 DEF id, all

\* What the answers about the world that is written down name.
LEMMA WorldNames ==
  ASSUME SeedInv
  PROVE  /\ ToSet(Named(facility.id)) = ToSet(Ids(sites))
         /\ \A s \in ToSet(sites) :
              ToSet(Named(s.id)) = {r.id : r \in {r \in ToSet(resources) : r.site_id = s.id}}
         /\ \A r \in ToSet(resources) :
              ToSet(Named(r.id)) = {r.site_id} \cup ToSet(r.capability_ids)
                                     \cup {e.id : e \in ToSet(EndpointsOf(r.name))}
         /\ \A c \in ToSet(capabilities) : ToSet(Named(c)) = {}
         /\ \A e \in ToSet(endpoints) : ToSet(Named(e.id)) = {e.resource_id}
         /\ \A p \in ToSet(projects) :
              ToSet(Named(p.id)) = {pa.id : pa \in {pa \in ToSet(project_allocations) : pa.project_id = p.id}}
         /\ \A pa \in ToSet(project_allocations) :
              ToSet(Named(pa.id)) = {pa.project_id, pa.capability_id}
                 \cup {ua.id : ua \in {ua \in ToSet(user_allocations) : ua.project_allocation_id = pa.id}}
         /\ \A ua \in ToSet(user_allocations) :
              ToSet(Named(ua.id)) = {ua.project_id, ua.project_allocation_id}
<1>0. \A x, y : ToSet(<<x>>) = {x} /\ ToSet(<<x, y>>) = {x, y} /\ <<x, y>> \in Seq({x, y}) /\ <<x>> \in Seq({x})
  BY DEF ToSet
\* What a loop over a list finds, by a test.
<1>1. ASSUME NEW S, NEW list \in Seq(S), NEW stay \in SUBSET (DOMAIN list)
      PROVE  /\ Ids(Keep(list, stay)) \in Seq(ToSet(Ids(Keep(list, stay))))
             /\ ToSet(Ids(Keep(list, stay))) = {list[n].id : n \in stay}
  <2> DEFINE kept == Keep(list, stay)
  <2>1. kept \in Seq(S) /\ ToSet(kept) = {list[n] : n \in stay}
    BY KeepProperties
  <2> HIDE DEF kept
  <2>2. DOMAIN kept = 1 .. Len(kept) /\ Len(kept) \in Nat
    BY <2>1, LenProperties
  <2>3. Ids(kept) = [k \in 1 .. Len(kept) |-> kept[k].id]
    BY <2>2 DEF Ids
  <2>4. \A k \in 1 .. Len(kept) : kept[k].id \in ToSet(Ids(kept))
    BY <2>3 DEF ToSet
  <2>5. Ids(kept) \in Seq(ToSet(Ids(kept)))
    BY <2>2, <2>3, <2>4, SeqDef
  <2>6. ToSet(Ids(kept)) = {x.id : x \in ToSet(kept)}
    BY <2>2, <2>3 DEF ToSet
  <2> QED
    BY <2>1, <2>5, <2>6 DEF kept
<1>2. ToSet(Named(facility.id)) = ToSet(Ids(sites))
  <2>1. Kind(facility.id) = "facility" /\ facility.site_ids = Ids(sites)
    BY DEF Kind, facility, demo_uuid
  <2> QED
    BY <2>1 DEF Named
<1>3. ASSUME NEW s \in ToSet(sites)
      PROVE  ToSet(Named(s.id)) = {r.id : r \in {r \in ToSet(resources) : r.site_id = s.id}}
  <2>1. PICK n \in DOMAIN sites : s = sites[n]
    BY DEF ToSet
  <2>2. DOMAIN Ids(sites) = DOMAIN sites /\ Ids(sites)[n] = s.id
    BY <2>1 DEF Ids
  <2>3. Kind(s.id) = "site" /\ Place(s.id) = n
    BY <2>2, KnownIsFound DEF Kinds, Collection
  <2>4. s.resource_ids = SiteResources(s.id)
    BY <2>1 DEF sites
  <2>5. Named(s.id) = SiteResources(s.id)
    BY <2>1, <2>3, <2>4 DEF Named, get_site
  <2> DEFINE stay == {m \in DOMAIN resources : resources[m].site_id = s.id}
  <2>6. ToSet(SiteResources(s.id)) = {resources[m].id : m \in stay}
    BY <1>1, ResourceProperties DEF SiteResources
  <2> QED
    BY <2>5, <2>6 DEF ToSet
<1>4. ASSUME NEW r \in ToSet(resources)
      PROVE  ToSet(Named(r.id)) = {r.site_id} \cup ToSet(r.capability_ids)
                                     \cup {e.id : e \in ToSet(EndpointsOf(r.name))}
  <2>1. PICK n \in DOMAIN resources : r = resources[n]
    BY DEF ToSet
  <2>2. DOMAIN Ids(resources) = DOMAIN resources /\ Ids(resources)[n] = r.id
    BY <2>1 DEF Ids
  <2>3. Kind(r.id) = "resource" /\ Place(r.id) = n
    BY <2>2, KnownIsFound DEF Kinds, Collection
  <2> DEFINE all  == EndpointsOf(r.name)
             eps  == Ids(get_access_endpoints(r.name, None, NoId))
  <2>4. Named(r.id) = <<r.site_id>> \o r.capability_ids \o eps
    BY <2>1, <2>3 DEF Named, get_resource
  <2>5. all \in Seq(ToSet(endpoints))
    BY EndpointProperties
  <2>6. get_access_endpoints(r.name, None, NoId) = Keep(all, DOMAIN all)
    BY DEF get_access_endpoints
  <2> HIDE DEF all
  <2>7. eps \in Seq(ToSet(eps)) /\ ToSet(eps) = {all[m].id : m \in DOMAIN all}
    BY <1>1, <2>5, <2>6
  <2> HIDE DEF eps
  <2> DEFINE caps == r.capability_ids
             one  == <<r.site_id>>
             two  == one \o caps
  <2>8. caps \in Seq(ToSet(caps)) /\ one \in Seq(ToSet(one)) /\ ToSet(one) = {r.site_id}
    BY <1>0, ResourceProperties, ListOfItsMembers
  <2> HIDE DEF caps, one
  <2>9. two \in Seq(ToSet(two)) /\ ToSet(two) = {r.site_id} \cup ToSet(caps)
    BY <2>8, ToSetConcatOf
  <2> HIDE DEF two
  <2>10. ToSet(two \o eps) = {r.site_id} \cup ToSet(caps) \cup ToSet(eps)
    BY <2>7, <2>9, ToSetConcatOf
  <2>11. {all[m].id : m \in DOMAIN all} = {e.id : e \in ToSet(all)}
    BY DEF ToSet
  <2> QED
    BY <2>4, <2>7, <2>10, <2>11 DEF two, one, caps, all
<1>5. ASSUME NEW c \in ToSet(capabilities) PROVE ToSet(Named(c)) = {}
  <2>1. Kind(c) = "capability"
    BY CollectionsAreLists DEF Kinds, Collection
  <2>2. Named(c) = <<>>
    BY <2>1 DEF Named
  <2> QED
    BY <2>2, EmptySeq DEF ToSet
<1>6. ASSUME NEW e \in ToSet(endpoints) PROVE ToSet(Named(e.id)) = {e.resource_id}
  <2> DEFINE hits(n) == get_access_endpoints(resources[n].name, None, e.id)
             ss      == [n \in DOMAIN resources |-> hits(n)]
  <2>1. Kind(e.id) = "endpoint" /\ e.id # NoId
    BY EndpointProperties
  <2>2. \A n \in 1 .. 6 : /\ hits(n) \in Seq(ToSet(endpoints))
                          /\ ToSet(hits(n)) = {x \in ToSet(EndpointsOf(resources[n].name)) : x.id = e.id}
    <3> TAKE n \in 1 .. 6
    <3> DEFINE all  == EndpointsOf(resources[n].name)
               stay == {m \in DOMAIN all : e.id = all[m].id}
    <3>1. hits(n) = Keep(all, stay)
      BY <2>1 DEF get_access_endpoints
    <3>2. all \in Seq(ToSet(endpoints))
      BY ResourceProperties, EndpointProperties DEF ToSet
    <3>3. stay \in SUBSET (DOMAIN all)
      OBVIOUS
    <3> HIDE DEF all, hits
    <3>4. hits(n) \in Seq(ToSet(endpoints)) /\ ToSet(hits(n)) = {all[m] : m \in stay}
      BY <3>1, <3>2, <3>3, KeepProperties
    <3> QED
      BY <3>4 DEF all, ToSet
  <2> HIDE DEF hits
  <2>3. ss \in Seq(Seq(ToSet(endpoints))) /\ DOMAIN ss = 1 .. 6
    BY <2>2, ResourceProperties, SeqDef
  <2>4. \A n \in DOMAIN ss : ss[n] = hits(n)
    OBVIOUS
  <2> HIDE DEF ss
  <2>5. /\ FlattenSeq(ss) \in Seq(ToSet(endpoints))
        /\ ToSet(FlattenSeq(ss)) = UNION {ToSet(ss[n]) : n \in DOMAIN ss}
    BY <2>3, FlattenSeqProperties
  <2>6. ToSet(FlattenSeq(ss)) = {e}
    <3>1. \A x : x \in ToSet(FlattenSeq(ss)) <=>
            \E n \in 1 .. 6 : x \in ToSet(EndpointsOf(resources[n].name)) /\ x.id = e.id
      BY <2>2, <2>3, <2>4, <2>5
    <3>2. \A x : x \in ToSet(endpoints) <=> \E n \in 1 .. 6 : x \in ToSet(EndpointsOf(resources[n].name))
      <4>1. ToSet(resources) = {resources[n] : n \in 1 .. 6}
        BY ResourceProperties DEF ToSet
      <4>2. \A x : x \in ToSet(endpoints) <=> \E r \in ToSet(resources) : x \in ToSet(EndpointsOf(r.name))
        BY EndpointProperties
      <4> QED
        BY <4>1, <4>2
    <3>3. \A x \in ToSet(endpoints) : x.id = e.id <=> x = e
      BY EndpointProperties
    <3> QED
      BY <3>1, <3>2, <3>3
  <2>7. FlattenSeq(ss)[1] = e
    <3> DEFINE list == FlattenSeq(ss)
    <3>1. DOMAIN list = 1 .. Len(list) /\ Len(list) \in Nat
      BY <2>5, LenProperties
    <3> HIDE DEF list
    <3>2. \E n \in DOMAIN list : list[n] = e
      BY <2>6 DEF list, ToSet
    <3>3. 1 \in DOMAIN list
      BY <3>1, <3>2
    <3> QED
      BY <2>6, <3>3 DEF list, ToSet
  <2>8. get_endpoint(e.id) = e
    BY <2>7 DEF get_endpoint, ss, hits
  <2>9. Named(e.id) = <<e.resource_id>>
    BY <2>1, <2>8 DEF Named
  <2> QED
    BY <1>0, <2>9
<1>7. ASSUME NEW p \in ToSet(projects)
      PROVE  ToSet(Named(p.id)) = {pa.id : pa \in {pa \in ToSet(project_allocations) : pa.project_id = p.id}}
  <2>1. p.id \in ToSet(Ids(projects))
    BY DEF ToSet, Ids
  <2>2. Kind(p.id) = "project"
    BY <2>1, CollectionsAreLists DEF Kinds, Collection
  <2>3. Named(p.id) = Ids(get_project_allocations(p.id))
    BY <2>2 DEF Named
  <2> DEFINE stay == {m \in DOMAIN project_allocations : project_allocations[m].project_id = p.id}
  <2>4. ToSet(Named(p.id)) = {project_allocations[m].id : m \in stay}
    <3>1. stay \in SUBSET (DOMAIN project_allocations)
      OBVIOUS
    <3>2. Named(p.id) = Ids(Keep(project_allocations, stay))
      BY <2>3 DEF get_project_allocations
    <3>3. project_allocations \in Seq(ToSet(project_allocations))
      BY AllocationProperties
    <3> HIDE DEF stay
    <3> QED
      BY <1>1, <3>1, <3>2, <3>3
  <2> QED
    BY <2>4 DEF ToSet
<1>8. ASSUME NEW pa \in ToSet(project_allocations)
      PROVE  ToSet(Named(pa.id)) = {pa.project_id, pa.capability_id}
                 \cup {ua.id : ua \in {ua \in ToSet(user_allocations) : ua.project_allocation_id = pa.id}}
  <2>1. PICK n \in DOMAIN project_allocations : pa = project_allocations[n]
    BY DEF ToSet
  <2>2. DOMAIN Ids(project_allocations) = DOMAIN project_allocations /\ Ids(project_allocations)[n] = pa.id
    BY <2>1 DEF Ids
  <2>3. Kind(pa.id) = "project_allocation" /\ Place(pa.id) = n
    BY <2>2, KnownIsFound DEF Kinds, Collection
  <2> DEFINE two  == <<pa.project_id, pa.capability_id>>
             own  == Ids(get_user_allocations(pa.id))
             stay == {m \in DOMAIN user_allocations : user_allocations[m].project_allocation_id = pa.id}
  <2>4. Named(pa.id) = two \o own
    BY <2>1, <2>3 DEF Named
  <2>5. own \in Seq(ToSet(own)) /\ ToSet(own) = {user_allocations[m].id : m \in stay}
    <3>1. stay \in SUBSET (DOMAIN user_allocations)
      OBVIOUS
    <3>2. own = Ids(Keep(user_allocations, stay))
      BY DEF get_user_allocations
    <3>3. user_allocations \in Seq(ToSet(user_allocations))
      BY AllocationProperties
    <3> HIDE DEF stay, own
    <3> QED
      BY <1>1, <3>1, <3>2, <3>3
  <2>6. two \in Seq(ToSet(two)) /\ ToSet(two) = {pa.project_id, pa.capability_id}
    BY <1>0
  <2> HIDE DEF two, own, stay
  <2>7. ToSet(two \o own) = ToSet(two) \cup ToSet(own)
    BY <2>5, <2>6, ToSetConcatOf
  <2>8. {user_allocations[m].id : m \in stay}
          = {ua.id : ua \in {ua \in ToSet(user_allocations) : ua.project_allocation_id = pa.id}}
    BY DEF ToSet, stay
  <2> QED
    BY <2>4, <2>5, <2>6, <2>7, <2>8
<1>9. ASSUME NEW ua \in ToSet(user_allocations)
      PROVE  ToSet(Named(ua.id)) = {ua.project_id, ua.project_allocation_id}
  <2>1. PICK n \in DOMAIN user_allocations : ua = user_allocations[n]
    BY DEF ToSet
  <2>2. DOMAIN Ids(user_allocations) = DOMAIN user_allocations /\ Ids(user_allocations)[n] = ua.id
    BY <2>1 DEF Ids
  <2>3. Kind(ua.id) = "user_allocation" /\ Place(ua.id) = n
    BY <2>2, KnownIsFound DEF Kinds, Collection
  <2>4. Named(ua.id) = <<ua.project_id, ua.project_allocation_id>>
    BY <2>1, <2>3 DEF Named
  <2> QED
    BY <1>0, <2>4
<1> QED
  BY <1>2, <1>3, <1>4, <1>5, <1>6, <1>7, <1>8, <1>9

-----------------------------------------------------------------------------
(* Answers to filters.                                                     *)

\* The resources that name a site are those that it lists, in its order.
LEMMA ResourcesOfSite ==
  ASSUME SeedInv, NEW s \in DOMAIN sites
  PROVE  find(Ids(resources), sites[s].id) = get_site(sites[s].id).resource_ids
<1> DEFINE id   == sites[s].id
           here == {n \in DOMAIN resources : resources[n].site_id = id}
           stay == {n \in DOMAIN Ids(resources) : id \in ToSet(Named(Ids(resources)[n]))}
<1>1. Collection("site") = Ids(sites) /\ DOMAIN Ids(sites) = DOMAIN sites /\ Ids(sites)[s] = id
  BY DEF Collection, Ids
<1>2. sites[s].resource_ids = SiteResources(id)
  BY DEF sites
<1> HIDE DEF id
<1>3. Kind(id) = "site" /\ Place(id) = s /\ id # NoId
  <2>1. Kind(id) = "site" /\ Place(id) = s
    BY <1>1, KnownIsFound DEF Kinds
  <2>2. id \in ToSet(Collection("site"))
    BY <1>1 DEF ToSet
  <2> QED
    BY <2>1, <2>2, CollectionsAreLists DEF Kinds
<1>4. get_site(id).resource_ids = Ids(Keep(resources, here))
  BY <1>2, <1>3 DEF get_site, SiteResources
<1>5. stay = here /\ here \in SUBSET (1 .. 6)
  <2>1. DOMAIN resources = 1 .. 6
    BY DEF resources
  <2>2. Ids(resources) = [n \in 1 .. 6 |-> resources[n].id]
    BY <2>1 DEF Ids
  <2>3. ASSUME NEW n \in 1 .. 6
        PROVE  id \in ToSet(Named(resources[n].id)) <=> id = resources[n].site_id
    <3> DEFINE r == resources[n]
    <3>1. r \in ToSet(resources)
      BY <2>1 DEF ToSet
    <3>2. \A c \in ToSet(r.capability_ids) : Kind(c) = "capability"
      <4>1. r.capability_ids \in Seq(ToSet(capabilities))
        BY <3>1, ResourceProperties
      <4>2. \A c \in ToSet(r.capability_ids) : c \in ToSet(Collection("capability"))
        BY <4>1, LenProperties, ElementOfSeq DEF ToSet, Collection
      <4> QED
        BY <4>2, CollectionsAreLists DEF Kinds
    <3>3. \A e \in ToSet(EndpointsOf(r.name)) : Kind(e.id) = "endpoint"
      BY <3>1, EndpointProperties
    <3> HIDE DEF r
    <3>4. ToSet(Named(r.id)) = {r.site_id} \cup ToSet(r.capability_ids)
                                 \cup {e.id : e \in ToSet(EndpointsOf(r.name))}
      BY <3>1, WorldNames
    <3> QED
      BY <1>3, <3>2, <3>3, <3>4 DEF r
  <2> QED
    BY <2>1, <2>2, <2>3
<1>6. find(Ids(resources), id) = Keep(Ids(resources), stay)
  BY <1>3 DEF find
\* The same places of both lists are kept.
<1>7. Ids(Keep(resources, here)) = Keep(Ids(resources), here)
  <2>1. \A n \in here : Ids(resources)[n] = resources[n].id
    BY DEF Ids
  <2>2. here \in SUBSET (1 .. 6) /\ 6 \in Nat
    BY <1>5
  <2> HIDE DEF here
  <2>3. \A k \in 1 .. Cardinality(here) : Nth(here, k) \in here
    BY <2>2, NthProperties
  <2>4. /\ Ids(Keep(resources, here)) = [k \in 1 .. Cardinality(here) |-> resources[Nth(here, k)].id]
        /\ Keep(Ids(resources), here) = [k \in 1 .. Cardinality(here) |-> Ids(resources)[Nth(here, k)]]
    BY DEF Keep, Ids
  <2> QED
    BY <2>1, <2>3, <2>4
<1> HIDE DEF here, stay
<1> QED
  BY <1>4, <1>5, <1>6, <1>7 DEF id

\* A filter by incident or by site gives what the incident or the site lists.
THEOREM AnswersMatchLinksCorrect == Spec => []AnswersMatchLinks
<1>1. SeedInv /\ SessionInv /\ PagesAddUp => AnswersMatchLinks
  <2> SUFFICES ASSUME SeedInv, SessionInv, PagesAddUp, client.does = "list", client.over
               PROVE  LET asked == client.query IN
                      /\ asked.kind = "event" /\ asked.filter \in ToSet(incident_ids)
                           => client.seen = get_incident(asked.filter).event_ids
                      /\ asked.kind = "resource" /\ asked.filter \in ToSet(Ids(sites))
                           => client.seen = get_site(asked.filter).resource_ids
    BY DEF AnswersMatchLinks
  <2> DEFINE asked == client.query
  <2>1. client.seen = find(Collection(asked.kind), asked.filter)
    BY DEF PagesAddUp, Whole
  <2>2. ASSUME asked.kind = "event", asked.filter \in ToSet(incident_ids)
        PROVE  client.seen = get_incident(asked.filter).event_ids
    <3>1. PICK i \in 1 .. Len(incidents) : asked.filter = incident_ids[i]
      BY <2>2, CollectionProperties DEF ToSet
    <3>2. client.seen = find(event_ids, incident_ids[i])
      BY <2>1, <2>2, <3>1 DEF Collection
    <3> QED
      BY <3>1, <3>2, EventsOfIncident
  <2>3. ASSUME asked.kind = "resource", asked.filter \in ToSet(Ids(sites))
        PROVE  client.seen = get_site(asked.filter).resource_ids
    <3>1. PICK s \in DOMAIN sites : asked.filter = sites[s].id
      BY <2>3 DEF ToSet, Ids
    <3>2. client.seen = find(Ids(resources), sites[s].id)
      BY <2>1, <2>3, <3>1 DEF Collection
    <3> QED
      BY <3>1, <3>2, ResourcesOfSite
  <2> QED
    BY <2>2, <2>3
<1>2. QED
  BY <1>1, SeedInvariant, SessionCorrect, PagesAddUpCorrect, PTL

-----------------------------------------------------------------------------
(* Links of the whole world.                                               *)

\* What is known of an id that is in a collection.
LEMMA KnownIds ==
  ASSUME SeedInv
  PROVE  /\ \A kind \in Kinds : \A id \in ToSet(Collection(kind)) : Known(id) /\ Kind(id) = kind /\ id # NoId
         /\ \A id : Known(id) => FoundOnce(id)
         /\ \A list : ToSet(Ids(list)) = {x.id : x \in ToSet(list)}
<1>1. \A kind \in Kinds : \A id \in ToSet(Collection(kind)) : Known(id) /\ Kind(id) = kind /\ id # NoId
  BY CollectionsAreLists DEF Known
<1>2. ASSUME NEW id, Known(id) PROVE FoundOnce(id)
  <2>1. PICK n \in DOMAIN Collection(Kind(id)) : id = Collection(Kind(id))[n]
    BY <1>2 DEF Known, ToSet
  <2> QED
    BY <1>2, <2>1, KnownIsFound DEF Known
<1>3. \A list : ToSet(Ids(list)) = {x.id : x \in ToSet(list)}
  BY DEF Ids, ToSet
<1> QED
  BY <1>1, <1>2, <1>3

\* The kinds between which links are recorded on both sides.
LEMMA TwoSidedKinds ==
  ASSUME NEW j, NEW k, {j, k} \in TwoSided
  PROVE  \/ j = "site" /\ k = "resource"
         \/ j = "resource" /\ k \in {"site", "endpoint"}
         \/ j = "endpoint" /\ k = "resource"
         \/ j = "event" /\ k = "incident"
         \/ j = "incident" /\ k = "event"
         \/ j = "project" /\ k = "project_allocation"
         \/ j = "project_allocation" /\ k \in {"project", "user_allocation"}
         \/ j = "user_allocation" /\ k = "project_allocation"
<1>1. \A a, b : {j, k} = {a, b} => (j = a /\ k = b) \/ (j = b /\ k = a)
  OBVIOUS
<1>2. \/ {j, k} = {"site", "resource"} \/ {j, k} = {"resource", "endpoint"}
      \/ {j, k} = {"event", "incident"} \/ {j, k} = {"project", "project_allocation"}
      \/ {j, k} = {"project_allocation", "user_allocation"}
  BY DEF TwoSided
<1> QED
  BY <1>1, <1>2

\* Whatever an object names is known, and what is recorded on both sides of a
\* relation is named back.
LEMMA NamedAreKnown ==
  ASSUME SeedInv, DrawsInv, NEW id, Known(id), NEW named \in ToSet(Named(id))
  PROVE  /\ Known(named)
         /\ {Kind(id), Kind(named)} \in TwoSided => id \in ToSet(Named(named))
<1> DEFINE Answered == /\ Known(named)
                       /\ {Kind(id), Kind(named)} \in TwoSided => id \in ToSet(Named(named))
<1>1. /\ ToSet(Collection("facility")) = {facility.id}
      /\ ToSet(Collection("site")) = {x.id : x \in ToSet(sites)}
      /\ ToSet(Collection("resource")) = {x.id : x \in ToSet(resources)}
      /\ ToSet(Collection("capability")) = ToSet(capabilities)
      /\ ToSet(Collection("endpoint")) = {x.id : x \in ToSet(endpoints)}
      /\ ToSet(Collection("event")) = ToSet(event_ids)
      /\ ToSet(Collection("incident")) = ToSet(incident_ids)
      /\ ToSet(Collection("project")) = {x.id : x \in ToSet(projects)}
      /\ ToSet(Collection("project_allocation")) = {x.id : x \in ToSet(project_allocations)}
      /\ ToSet(Collection("user_allocation")) = {x.id : x \in ToSet(user_allocations)}
  <2>1. ToSet(<<facility.id>>) = {facility.id}
    BY DEF ToSet
  <2> QED
    BY <2>1, KnownIds DEF Collection, endpoints
<1>2. \A kind \in Kinds : \A x \in ToSet(Collection(kind)) : Known(x) /\ Kind(x) = kind
  BY KnownIds
<1>3. ToSet(Ids(sites)) = ToSet(Collection("site")) /\ ToSet(Ids(projects)) = ToSet(Collection("project"))
  BY DEF Collection
<1>4. CASE Kind(id) = "facility"
  <2>1. named \in ToSet(Collection("site"))
    BY <1>1, <1>3, <1>4, WorldNames DEF Known
  <2>2. Known(named) /\ Kind(named) = "site"
    BY <1>2, <2>1 DEF Kinds
  <2> QED
    BY <1>4, <2>2, TwoSidedKinds
<1>5. CASE Kind(id) = "site"
  <2>1. PICK s \in ToSet(sites) : id = s.id
    BY <1>1, <1>5 DEF Known
  <2>2. PICK r \in ToSet(resources) : named = r.id /\ r.site_id = s.id
    BY <2>1, WorldNames
  <2>3. Known(named)
    BY <1>1, <1>2, <2>2 DEF Kinds
  <2>4. id \in ToSet(Named(named))
    BY <2>1, <2>2, WorldNames
  <2> QED
    BY <2>3, <2>4
<1>6. CASE Kind(id) = "resource"
  <2>1. PICK r \in ToSet(resources) : id = r.id
    BY <1>1, <1>6 DEF Known
  <2>2. \/ named = r.site_id
        \/ named \in ToSet(r.capability_ids)
        \/ \E e \in ToSet(EndpointsOf(r.name)) : named = e.id
    BY <2>1, WorldNames
  <2>3. CASE named = r.site_id
    <3>1. PICK s \in ToSet(sites) : named = s.id
      BY <1>1, <1>3, <2>3, ResourceProperties
    <3>2. Known(named)
      BY <1>1, <1>2, <3>1 DEF Kinds
    <3>3. id \in ToSet(Named(named))
      <4>1. r \in {x \in ToSet(resources) : x.site_id = s.id}
        BY <2>3, <3>1
      <4>2. ToSet(Named(s.id)) = {x.id : x \in {x \in ToSet(resources) : x.site_id = s.id}}
        BY WorldNames
      <4> QED
        BY <2>1, <3>1, <4>1, <4>2
    <3> QED
      BY <3>2, <3>3
  <2>4. CASE named \in ToSet(r.capability_ids)
    <3>1. named \in ToSet(capabilities)
      <4>1. r.capability_ids \in Seq(ToSet(capabilities))
        BY ResourceProperties
      <4> QED
        BY <2>4, <4>1, LenProperties, ElementOfSeq DEF ToSet
    <3>2. Known(named) /\ Kind(named) = "capability"
      BY <1>1, <1>2, <3>1 DEF Kinds
    <3> QED
      BY <1>6, <3>2, TwoSidedKinds
  <2>5. CASE \E e \in ToSet(EndpointsOf(r.name)) : named = e.id
    <3>1. PICK e \in ToSet(EndpointsOf(r.name)) : named = e.id
      BY <2>5
    <3>2. e \in ToSet(endpoints) /\ e.resource_id = id
      BY <2>1, <3>1, EndpointProperties
    <3>3. Known(named)
      BY <1>1, <1>2, <3>1, <3>2 DEF Kinds
    <3>4. id \in ToSet(Named(named))
      BY <3>1, <3>2, WorldNames
    <3> QED
      BY <3>3, <3>4
  <2> QED
    BY <2>2, <2>3, <2>4, <2>5
<1>7. CASE Kind(id) = "capability"
  <2>1. id \in ToSet(capabilities)
    BY <1>1, <1>7 DEF Known
  <2> QED
    BY <2>1, WorldNames
<1>8. CASE Kind(id) = "endpoint"
  <2>1. PICK e \in ToSet(endpoints) : id = e.id
    BY <1>1, <1>8 DEF Known
  <2>2. PICK r \in ToSet(resources) : e \in ToSet(EndpointsOf(r.name)) /\ e.resource_id = r.id
    BY EndpointProperties
  <2>3. named = r.id
    BY <2>1, <2>2, WorldNames
  <2>4. Known(named)
    BY <1>1, <1>2, <2>3 DEF Kinds
  <2>5. id \in ToSet(Named(named))
    BY <2>1, <2>2, <2>3, WorldNames
  <2> QED
    BY <2>4, <2>5
<1>9. CASE Kind(id) \in {"event", "incident"}
  <2>1. id \in ToSet(event_ids) \/ id \in ToSet(incident_ids)
    BY <1>1, <1>9 DEF Known
  <2>2. /\ Known(named) /\ Kind(named) \in {"event", "incident", "resource"}
        /\ {Kind(id), Kind(named)} = {"event", "incident"} => id \in ToSet(Named(named))
    <3>1. /\ \/ named \in ToSet(Collection("event"))
             \/ named \in ToSet(Collection("incident"))
             \/ named \in ToSet(Collection("resource"))
          /\ {Kind(id), Kind(named)} = {"event", "incident"} => id \in ToSet(Named(named))
      BY <2>1, GeneratedNames DEF Collection
    <3> QED
      BY <1>2, <3>1 DEF Kinds
  <2>3. {Kind(id), Kind(named)} \in TwoSided => {Kind(id), Kind(named)} = {"event", "incident"}
    BY <1>9, <2>2, TwoSidedKinds
  <2> QED
    BY <2>2, <2>3
<1>10. CASE Kind(id) = "project"
  <2>1. PICK p \in ToSet(projects) : id = p.id
    BY <1>1, <1>10 DEF Known
  <2>2. PICK pa \in ToSet(project_allocations) : named = pa.id /\ pa.project_id = id
    BY <2>1, WorldNames
  <2>3. Known(named)
    BY <1>1, <1>2, <2>2 DEF Kinds
  <2>4. id \in ToSet(Named(named))
    BY <2>2, WorldNames
  <2> QED
    BY <2>3, <2>4
<1>11. CASE Kind(id) = "project_allocation"
  <2>1. PICK pa \in ToSet(project_allocations) : id = pa.id
    BY <1>1, <1>11 DEF Known
  <2>2. \/ named = pa.project_id
        \/ named = pa.capability_id
        \/ \E ua \in ToSet(user_allocations) : named = ua.id /\ ua.project_allocation_id = id
    BY <2>1, WorldNames
  <2>3. CASE named = pa.project_id
    <3>1. PICK p \in ToSet(projects) : named = p.id
      BY <1>1, <1>3, <2>3, AllocationProperties
    <3>2. Known(named)
      BY <1>1, <1>2, <3>1 DEF Kinds
    <3>3. id \in ToSet(Named(named))
      <4>1. pa \in {x \in ToSet(project_allocations) : x.project_id = p.id}
        BY <2>3, <3>1
      <4>2. ToSet(Named(p.id)) = {x.id : x \in {x \in ToSet(project_allocations) : x.project_id = p.id}}
        BY WorldNames
      <4> QED
        BY <2>1, <3>1, <4>1, <4>2
    <3> QED
      BY <3>2, <3>3
  <2>4. CASE named = pa.capability_id
    <3>1. named \in ToSet(capabilities)
      BY <2>4, AllocationProperties
    <3>2. Known(named) /\ Kind(named) = "capability"
      BY <1>1, <1>2, <3>1 DEF Kinds
    <3> QED
      BY <1>11, <3>2, TwoSidedKinds
  <2>5. CASE \E ua \in ToSet(user_allocations) : named = ua.id /\ ua.project_allocation_id = id
    <3>1. PICK ua \in ToSet(user_allocations) : named = ua.id /\ ua.project_allocation_id = id
      BY <2>5
    <3>2. Known(named)
      BY <1>1, <1>2, <3>1 DEF Kinds
    <3>3. id \in ToSet(Named(named))
      BY <3>1, WorldNames
    <3> QED
      BY <3>2, <3>3
  <2> QED
    BY <2>2, <2>3, <2>4, <2>5
<1>12. CASE Kind(id) = "user_allocation"
  <2>1. PICK ua \in ToSet(user_allocations) : id = ua.id
    BY <1>1, <1>12 DEF Known
  <2>2. PICK pa \in ToSet(project_allocations) : ua.project_allocation_id = pa.id /\ ua.project_id = pa.project_id
    BY AllocationProperties
  <2>3. named = pa.id \/ named = pa.project_id
    BY <2>1, <2>2, WorldNames
  <2>4. CASE named = pa.id
    <3>1. Known(named)
      BY <1>1, <1>2, <2>4 DEF Kinds
    <3>2. id \in ToSet(Named(named))
      BY <2>1, <2>2, <2>4, WorldNames
    <3> QED
      BY <3>1, <3>2
  <2>5. CASE named = pa.project_id
    <3>1. named \in ToSet(Collection("project"))
      BY <1>3, <2>5, AllocationProperties
    <3>2. Known(named) /\ Kind(named) = "project"
      BY <1>2, <3>1 DEF Kinds
    <3> QED
      BY <1>12, <3>2, TwoSidedKinds
  <2> QED
    BY <2>3, <2>4, <2>5
<1> QED
  BY <1>4, <1>5, <1>6, <1>7, <1>8, <1>9, <1>10, <1>11, <1>12 DEF Known, Kinds

\* The client is always somewhere in the world.
THEOREM ReachCorrect == Spec => []ReachInv
<1>1. Init => ReachInv
  BY DEF Init, Idle, ReachInv
<1>2. SeedInv /\ DrawsInv /\ SessionInv /\ ReachInv /\ [Next]_vars => ReachInv'
  <2> SUFFICES ASSUME SeedInv, DrawsInv, SessionInv, ReachInv, [Next]_vars PROVE ReachInv'
    OBVIOUS
  <2>1. ASSUME UNCHANGED seed, NEW id PROVE Known(id)' = Known(id) /\ Named(id)' = Named(id)
    <3>1. Named(id)' = Named(id) /\ event_ids' = event_ids /\ incident_ids' = incident_ids
      BY <2>1, AnswersAreFrozen
    <3>2. \A kind : Collection(kind)' = Collection(kind)
      BY <3>1 DEF Collection
    <3> QED
      BY <3>1, <3>2 DEF Known
\* A client that goes to a known id, by itself or by a link from where it is.
  <2>2. ASSUME UNCHANGED seed, NEW id, Known(id), client' = [does |-> "read", from |-> NoId, at |-> id]
        PROVE  ReachInv'
    <3>1. Known(id)'
      BY <2>1, <2>2
    <3>2. client'.at = id /\ client'.from = NoId
      BY <2>2
    <3>3. Known(client.at)'
      BY <3>1, <3>2
    <3> QED
      BY <3>2, <3>3 DEF ReachInv
  <2>3. ASSUME client'.does # "read" PROVE ReachInv'
    BY <2>3 DEF ReachInv
  <2>4. CASE Generate
    <3>1. client.does = "nothing" /\ client' = client
      BY <2>4, DemoApiAssumption DEF Generate, Seed!Iterate, Served, SessionInv
    <3> QED
      BY <2>3, <3>1
  <2>5. ASSUME NEW id \in {get_facility} \cup ToSet(get_projects), Open(id) PROVE ReachInv'
    <3>1. id \in ToSet(Collection("facility")) \/ id \in ToSet(Collection("project"))
      BY DEF get_facility, get_projects, Collection, ToSet
    <3>2. Known(id)
      BY <3>1, KnownIds DEF Kinds
    <3> QED
      BY <2>2, <2>5, <3>2 DEF Open
  <2>6. ASSUME NEW id, OpenListed(id) PROVE ReachInv'
    <3> DEFINE query == client.query
               whole == Whole(query)
               n     == Len(client.seen)
    <3>1. /\ id \in ToSet(client.seen) /\ query \in Queries
          /\ n \in 0 .. Len(whole) /\ client.seen = SubSeq(whole, 1, n)
      BY <2>6 DEF OpenListed, SessionInv
    <3>2. whole \in Seq(ToSet(Collection(query.kind))) /\ query.kind \in Kinds
      BY <3>1, WholeIsList DEF Kinds
    <3>3. id \in ToSet(Collection(query.kind))
      <4> DEFINE S == ToSet(Collection(query.kind))
      <4> HIDE DEF S, whole, n
      <4>1. \A i \in 1 .. n : whole[i] \in S
        BY <3>1, <3>2, LenProperties, ElementOfSeq DEF S
      <4>2. n \in Nat
        BY <3>1, <3>2, LenProperties
      <4>3. client.seen \in Seq(S)
        BY <3>1, <4>1, <4>2, SubSeqProperties
      <4>4. \A i \in DOMAIN client.seen : client.seen[i] \in S
        BY <4>3, LenProperties, ElementOfSeq
      <4> QED
        BY <3>1, <4>4 DEF ToSet, S
    <3>4. Known(id)
      BY <3>2, <3>3, KnownIds
    <3> QED
      BY <2>2, <2>6, <3>4 DEF OpenListed
  <2>7. ASSUME NEW id, Follow(id) PROVE ReachInv'
    <3>1. PICK from : from = client.at
      OBVIOUS
    <3>2. /\ UNCHANGED seed /\ id \in ToSet(Named(from))
          /\ client' = [does |-> "read", from |-> from, at |-> id]
          /\ Known(from)
      BY <2>7, <3>1 DEF Follow, ReachInv
    <3>3. Known(id)
      BY <3>2, NamedAreKnown
    <3>4. Known(id)' /\ Known(from)' /\ Named(from)' = Named(from)
      BY <2>1, <3>2, <3>3
    <3>5. client'.at = id /\ client'.from = from
      BY <3>2
    <3>6. Known(client.at)' /\ Known(client.from)' /\ Named(client.from)' = Named(from)
      BY <3>4, <3>5
    <3> QED
      BY <3>2, <3>5, <3>6 DEF ReachInv
  <2>8. ASSUME NEW query, NEW limit, Ask(query, limit) PROVE ReachInv'
    BY <2>3, <2>8 DEF Ask
  <2>9. CASE NextPage
    <3>1. client.does = "list"
      BY <2>9 DEF NextPage
    <3>2. client = [does |-> "list", query |-> client.query, limit |-> client.limit,
                    seen |-> client.seen, over |-> client.over]
      BY <3>1 DEF SessionInv
    <3>3. client'.does = "list"
      BY <2>9, <3>2 DEF NextPage
    <3> QED
      BY <2>3, <3>3
  <2>10. ASSUME NEW q, Locate(q) PROVE ReachInv'
    BY <2>3, <2>10 DEF Locate
  <2>11. CASE Leave
    BY <2>3, <2>11 DEF Leave, Idle
  <2>12. CASE UNCHANGED vars
    <3>1. UNCHANGED seed /\ client' = client
      BY <2>12 DEF vars
    <3>2. ASSUME NEW at, at = client.at, NEW from, from = client.from, client.does = "read"
          PROVE  ReachInv'
      <4>1. Known(at) /\ (from = NoId \/ (Known(from) /\ at \in ToSet(Named(from))))
        BY <3>2 DEF ReachInv
      <4>2. Known(at)' /\ (from = NoId \/ (Known(from)' /\ at \in ToSet(Named(from)')))
        BY <2>1, <3>1, <4>1
      <4> QED
        BY <3>1, <3>2, <4>2 DEF ReachInv
    <3> QED
      BY <2>3, <3>1, <3>2
  <2> QED
    BY <2>4, <2>5, <2>6, <2>7, <2>8, <2>9, <2>10, <2>11, <2>12 DEF Next
<1>3. QED
  BY <1>1, <1>2, SeedInvariant, DrawsCorrect, SessionCorrect, PTL DEF Spec

\* Wherever a client goes by links, it finds one object, and one that names the
\* object it came from if their relation is recorded on both sides.
THEOREM LinksResolveCorrect == Spec => []LinksResolve
<1>1. SeedInv /\ DrawsInv /\ ReachInv => LinksResolve
  <2> SUFFICES ASSUME SeedInv, DrawsInv, ReachInv, client.does = "read"
               PROVE  /\ FoundOnce(client.at)
                      /\ client.from # NoId /\ {Kind(client.from), Kind(client.at)} \in TwoSided
                           => client.from \in ToSet(Named(client.at))
    BY DEF LinksResolve
  <2>1. FoundOnce(client.at)
    BY KnownIds DEF ReachInv
  <2>2. ASSUME client.from # NoId, {Kind(client.from), Kind(client.at)} \in TwoSided
        PROVE  client.from \in ToSet(Named(client.at))
    BY <2>2, NamedAreKnown DEF ReachInv
  <2> QED
    BY <2>1, <2>2
<1>2. QED
  BY <1>1, SeedInvariant, DrawsCorrect, ReachCorrect, PTL

-----------------------------------------------------------------------------
(* Locations.                                                              *)

\* What a resource offers, nothing if it has no storage.
Templates(resource) == IF resource \in DOMAIN locations THEN locations[resource] ELSE <<>>

\* The project that a question is about, which an allocation may stand for.
AskedProject(q) == IF q.project # None THEN q.project ELSE q.allocation

\* A template passes the filters of a question ...
Passes(q, m) == q.logicalpath \in {None, m.logical_name} /\ apply_intent_filter(m, q.intent)

\* ... and is given once for each of these codes ...
Over(q, m) == IF m.scoped THEN project_codes(AskedProject(q)) ELSE <<None>>

\* ... as this location.
Location(m, code) ==
  [logical_name |-> m.logical_name, path |-> <<m.path, DEMO_USER, code>>, write |-> m.write]

\* The user is in both projects.
LEMMA UserProjectCodes ==
  user_project_codes = <<"staff_research_project", "test_project">>
<1> DEFINE mine == {n \in DOMAIN projects : DEMO_USER \in projects[n].user_ids}
           f    == [n \in 1 .. 2 |-> n]
<1>1. DOMAIN projects = 1 .. 2
  BY DEF projects
<1>2. /\ projects[1].name = "Staff research project"
      /\ projects[2].name = "Test project"
      /\ DEMO_USER \in projects[1].user_ids
      /\ DEMO_USER \in projects[2].user_ids
  BY DEF projects
<1>3. mine = {f[i] : i \in 1 .. 2}
  <2>1. \A n \in 1 .. 2 : n = 1 \/ n = 2
    OBVIOUS
  <2>2. \A n \in 1 .. 2 : DEMO_USER \in projects[n].user_ids
    BY <1>2, <2>1
  <2>3. mine = 1 .. 2
    BY <1>1, <2>2
  <2>4. {f[i] : i \in 1 .. 2} = 1 .. 2
    OBVIOUS
  <2> QED
    BY <2>3, <2>4
<1>4. /\ Cardinality({f[i] : i \in 1 .. 2}) = 2
      /\ \A k \in 1 .. 2 : Nth({f[i] : i \in 1 .. 2}, k) = f[k]
  <2>1. f \in [1 .. 2 -> 1 .. 2] /\ \A i, j \in 1 .. 2 : i < j => f[i] < f[j]
    OBVIOUS
  <2> HIDE DEF f
  <2> QED
    BY <2>1, NthIsTheOrder
<1>5. Cardinality(mine) = 2 /\ Nth(mine, 1) = 1 /\ Nth(mine, 2) = 2
  <2>1. f[1] = 1 /\ f[2] = 2
    OBVIOUS
  <2> HIDE DEF mine, f
  <2> QED
    BY <1>3, <1>4, <2>1
<1>6. Keep(projects, mine) = [k \in 1 .. 2 |-> projects[k]]
  <2> HIDE DEF mine
  <2> QED
    BY <1>5 DEF Keep
<1> HIDE DEF mine
<1>7. ProjectCodes(Keep(projects, mine)) = [k \in 1 .. 2 |-> slugify_project(projects[k].name)]
  BY <1>6 DEF ProjectCodes
<1>8. /\ slugify_project(projects[1].name) = "staff_research_project"
      /\ slugify_project(projects[2].name) = "test_project"
  BY <1>2 DEF slugify_project
<1> QED
  BY <1>7, <1>8 DEF user_project_codes, mine

\* The templates of a resource have different paths.
LEMMA TemplateProperties ==
  ASSUME NEW resource
  PROVE  \E S : /\ Templates(resource) \in Seq(S)
                /\ \A m \in ToSet(Templates(resource)) :
                      m.logical_name \in LogicalNames /\ m.scoped \in BOOLEAN
                /\ \A i, j \in DOMAIN Templates(resource) :
                      Templates(resource)[i].path = Templates(resource)[j].path => i = j
<1> DEFINE S  == [logical_name : LogicalNames, scoped : BOOLEAN, write : BOOLEAN,
                  path : {"homes", "pscratch", "projectdirs", "campaign", "hpss_home", "shared", "tmp"}]
           Good(list) == /\ list \in Seq(S)
                         /\ \A i, j \in DOMAIN list : list[i].path = list[j].path => i = j
<1>1. ASSUME NEW home \in BOOLEAN
      PROVE  Good(Everywhere(home))
  BY DEF Everywhere, Template, LogicalNames, rw
<1>2. Good(OnTape)
  BY DEF OnTape, Template, LogicalNames, rw
<1>3. Good(OnDisk)
  BY DEF OnDisk, Everywhere, Template, LogicalNames, rw, ro
<1>4. Good(<<>>)
  BY EmptySeq
<1>5. Templates(resource) \in {InJob, OnTape, OnDisk, <<>>}
  BY DEF Templates, locations
<1>6. Good(Templates(resource))
  <2> HIDE DEF Good
  <2> QED
    BY <1>1, <1>2, <1>3, <1>4, <1>5 DEF InJob, ro
<1>7. \A m \in ToSet(Templates(resource)) : m \in S
  <2>1. Templates(resource) \in Seq(S)
    BY <1>6
  <2> HIDE DEF S
  <2> QED
    BY <2>1, LenProperties, ElementOfSeq DEF ToSet
<1> QED
  BY <1>6, <1>7

\* What is asked with is one project's code, all of the user's, or none, and none
\* of them twice.
LEMMA OverProperties ==
  ASSUME NEW q, NEW m
  PROVE  /\ \E S : Over(q, m) \in Seq(S)
         /\ IsInjective(Over(q, m))
         /\ ToSet(Over(q, m)) = IF ~m.scoped THEN {None}
                                ELSE IF AskedProject(q) # None THEN {AskedProject(q)}
                                ELSE ToSet(user_project_codes)
<1> DEFINE codes == <<"staff_research_project", "test_project">>
<1>1. /\ \A x : /\ <<x>> \in Seq({x}) /\ ToSet(<<x>>) = {x} /\ IsInjective(<<x>>)
  BY DEF ToSet, IsInjective
<1>2. /\ codes \in Seq({"staff_research_project", "test_project"})
      /\ IsInjective(codes)
  BY DEF IsInjective
<1>3. /\ Over(q, m) = IF ~m.scoped THEN <<None>>
                      ELSE IF AskedProject(q) # None THEN <<AskedProject(q)>> ELSE codes
  BY UserProjectCodes DEF Over, project_codes
<1> HIDE DEF codes
<1> QED
  BY <1>1, <1>2, <1>3, UserProjectCodes DEF codes

\* Without a project that is not the user's, the answer has one location for each
\* template that passes the filters and each project that is asked with.
LEMMA LocationsProperties ==
  ASSUME NEW q
  PROVE  LET refused == AskedProject(q) # None /\ ~user_member_of(AskedProject(q))
             list    == get_locations(q).list
         IN /\ get_locations(q).code = 403 <=> refused
            /\ IsInjective(list)
            /\ \A l : l \in ToSet(list) <=>
                 ~refused /\ \E m \in ToSet(Templates(q.resource)) :
                               Passes(q, m) /\ \E code \in ToSet(Over(q, m)) : l = Location(m, code)
<1> DEFINE refused == AskedProject(q) # None /\ ~user_member_of(AskedProject(q))
           all     == Templates(q.resource)
           stay    == {n \in DOMAIN all : Passes(q, all[n])}
           wanted  == Keep(all, stay)
           Expanded(m) == [n \in DOMAIN Over(q, m) |-> Location(m, Over(q, m)[n])]
           ss      == [n \in DOMAIN wanted |-> Expanded(wanted[n])]
           list    == FlattenSeq(ss)
<1>1. get_locations(q) = IF refused THEN [code |-> 403, list |-> <<>>] ELSE [code |-> 200, list |-> list]
  BY DEF get_locations, Templates, AskedProject, Passes, Over, Location
<1>2. PICK S : /\ all \in Seq(S)
               /\ \A i, j \in DOMAIN all : all[i].path = all[j].path => i = j
  BY TemplateProperties
<1> HIDE DEF all
<1>3. stay \in SUBSET (DOMAIN all)
  OBVIOUS
<1> HIDE DEF stay
<1>4. /\ wanted \in Seq(S)
      /\ ToSet(wanted) = {all[n] : n \in stay}
      /\ \A i, j \in DOMAIN wanted : i < j =>
           \E m, n \in stay : m < n /\ wanted[i] = all[m] /\ wanted[j] = all[n]
  BY <1>2, <1>3, KeepProperties
<1> HIDE DEF wanted
<1>5. DOMAIN wanted = 1 .. Len(wanted) /\ Len(wanted) \in Nat
  BY <1>4, LenProperties
<1>6. \A i, j \in DOMAIN wanted : i # j => wanted[i].path # wanted[j].path
  <2>1. DOMAIN all \subseteq Nat
    <3>1. DOMAIN all = 1 .. Len(all)
      BY <1>2, LenProperties
    <3> QED
      BY <3>1
  <2>2. \A m, n \in stay : m < n => all[m].path # all[n].path
    BY <1>2, <1>3, <2>1
  <2>3. \A i, j \in DOMAIN wanted : i < j => wanted[i].path # wanted[j].path
    BY <1>4, <2>2
  <2>4. \A i, j \in DOMAIN wanted : i = j \/ i < j \/ j < i
    BY <1>5
  <2> QED
    BY <2>3, <2>4
<1> DEFINE T == {Location(m, code) : m \in ToSet(wanted), code \in UNION {ToSet(Over(q, m)) : m \in ToSet(wanted)}}
\* One template written out.
<1>7. ASSUME NEW m \in ToSet(wanted)
      PROVE  /\ Expanded(m) \in Seq(T)
             /\ IsInjective(Expanded(m))
             /\ ToSet(Expanded(m)) = {Location(m, code) : code \in ToSet(Over(q, m))}
  <2> DEFINE over == Over(q, m)
  <2>1. DOMAIN over = 1 .. Len(over) /\ Len(over) \in Nat /\ IsInjective(over)
    BY OverProperties, LenProperties
  <2>2. \A c1, c2 : Location(m, c1) = Location(m, c2) => c1 = c2
    BY DEF Location
  <2>3. \A n \in DOMAIN over : Location(m, over[n]) \in T
    BY DEF ToSet
  <2> HIDE DEF T, over
  <2>4. Expanded(m) = [n \in DOMAIN over |-> Location(m, over[n])]
    BY DEF over
  <2> HIDE DEF Expanded
  <2>5. Expanded(m) \in Seq(T)
    BY <2>1, <2>3, <2>4, SeqDef
  <2>6. IsInjective(Expanded(m))
    BY <2>1, <2>2, <2>4 DEF IsInjective
  <2>7. ToSet(Expanded(m)) = {Location(m, code) : code \in ToSet(over)}
    BY <2>4 DEF ToSet
  <2> QED
    BY <2>5, <2>6, <2>7 DEF over
<1> HIDE DEF T, Expanded
<1>8. \A i \in DOMAIN wanted : wanted[i] \in ToSet(wanted)
  BY DEF ToSet
<1>9. ss \in Seq(Seq(T)) /\ DOMAIN ss = DOMAIN wanted
  <2>1. \A i \in DOMAIN wanted : Expanded(wanted[i]) \in Seq(T)
    BY <1>7, <1>8
  <2> QED
    BY <1>5, <2>1, SeqDef
<1>10. \A i \in DOMAIN ss : /\ ss[i] = Expanded(wanted[i])
                            /\ IsInjective(ss[i])
                            /\ ToSet(ss[i]) = {Location(wanted[i], code) : code \in ToSet(Over(q, wanted[i]))}
  BY <1>7, <1>8, <1>9
<1>11. ASSUME NEW i \in DOMAIN ss, NEW j \in DOMAIN ss, i # j
       PROVE  ToSet(ss[i]) \cap ToSet(ss[j]) = {}
  <2>1. wanted[i].path # wanted[j].path
    BY <1>6, <1>9, <1>11
  <2>2. \A c1, c2 : Location(wanted[i], c1) # Location(wanted[j], c2)
    BY <2>1 DEF Location
  <2> QED
    BY <1>10, <2>2
<1> HIDE DEF ss
<1>12. /\ ToSet(list) = UNION {ToSet(ss[i]) : i \in DOMAIN ss}
       /\ IsInjective(list)
  <2>1. \A i \in DOMAIN ss : IsInjective(ss[i])
    BY <1>10
  <2> QED
    BY <1>9, <1>11, <2>1, FlattenSeqProperties
<1> HIDE DEF list
<1>13. \A l : l \in ToSet(list) <=>
         \E m \in ToSet(all) : Passes(q, m) /\ \E code \in ToSet(Over(q, m)) : l = Location(m, code)
  <2>1. \A l : l \in ToSet(list) <=>
          \E i \in DOMAIN wanted : \E code \in ToSet(Over(q, wanted[i])) : l = Location(wanted[i], code)
    BY <1>9, <1>10, <1>12
  <2>2. \A m : m \in ToSet(wanted) <=> \E i \in DOMAIN wanted : m = wanted[i]
    BY DEF ToSet
  <2>3. \A m : m \in ToSet(wanted) <=> m \in ToSet(all) /\ Passes(q, m)
    BY <1>4 DEF stay, ToSet
  <2> QED
    BY <2>1, <2>2, <2>3
<1>14. IsInjective(<<>>) /\ ToSet(<<>>) = {}
  BY EmptySeq DEF IsInjective, ToSet
<1> QED
  BY <1>1, <1>12, <1>13, <1>14 DEF all

\* Whatever is asked for, the answers add up.
LEMMA LocationsOfAnyQueryAddUp ==
  ASSUME LocateInv
  PROVE  LocationsAddUp
<1> SUFFICES ASSUME client.does = "locate"
             PROVE  LET q        == client.query
                        asked    == IF q.project # None THEN q.project ELSE q.allocation
                        Given(p) == ToSet(get_locations(p).list)
                        given    == ToSet(client.answer.list)
                    IN /\ IsInjective(client.answer.list)
                       /\ client.answer.code = 403 <=> asked \notin {None} \cup ToSet(user_project_codes)
                       /\ asked # None => \A l \in given : l.path[3] \in {None, asked}
                       /\ asked = None => given = UNION {Given([q EXCEPT !.project = code]) : code \in ToSet(user_project_codes)}
                       /\ q.logicalpath = None => given = UNION {Given([q EXCEPT !.logicalpath = name]) : name \in LogicalNames}
                       /\ q.intent = None =>
                            LET staging == Given([q EXCEPT !.intent = "staging"])
                                tape    == Given([q EXCEPT !.intent = "long_term_storage"])
                            IN given = staging \cup tape /\ staging \cap tape = {}
  BY DEF LocationsAddUp
<1> DEFINE q     == client.query
           asked == AskedProject(q)
           Given(p) == ToSet(get_locations(p).list)
           Refused(p) == AskedProject(p) # None /\ ~user_member_of(AskedProject(p))
           Gives(p, l) == \E m \in ToSet(Templates(p.resource)) :
                            Passes(p, m) /\ \E code \in ToSet(Over(p, m)) : l = Location(m, code)
           codes == ToSet(user_project_codes)
<1>1. q \in LocationQuery /\ client.answer = get_locations(q)
  BY DEF LocateInv
<1> HIDE DEF q
<1>2. q = [resource |-> q.resource, logicalpath |-> q.logicalpath, project |-> q.project,
           allocation |-> q.allocation, intent |-> q.intent]
  BY <1>1 DEF LocationQuery
<1>3. \A p : /\ get_locations(p).code = 403 <=> Refused(p)
             /\ IsInjective(get_locations(p).list)
             /\ \A l : l \in Given(p) <=> ~Refused(p) /\ Gives(p, l)
  BY LocationsProperties
<1>4. \A p : Refused(p) <=> AskedProject(p) \notin {None} \cup codes
  BY DEF user_member_of
<1>5. \A p, m : ToSet(Over(p, m)) = IF ~m.scoped THEN {None}
                                    ELSE IF AskedProject(p) # None THEN {AskedProject(p)} ELSE codes
  BY OverProperties
<1>6. codes = {"staff_research_project", "test_project"} /\ None \notin codes
  BY UserProjectCodes DEF ToSet, None
<1> HIDE DEF Given, Refused, Gives, codes, asked
\* Nothing of another project.
<1>7. asked # None => \A l \in Given(q) : l.path[3] \in {None, asked}
  <2> SUFFICES ASSUME asked # None, NEW l \in Given(q) PROVE l.path[3] \in {None, asked}
    OBVIOUS
  <2>1. PICK m : \E code \in ToSet(Over(q, m)) : l = Location(m, code)
    BY <1>3 DEF Gives
  <2>2. ToSet(Over(q, m)) \subseteq {None, asked}
    BY <1>5 DEF asked
  <2> QED
    BY <2>1, <2>2 DEF Location
\* All projects together.
<1>8. asked = None => Given(q) = UNION {Given([q EXCEPT !.project = code]) : code \in codes}
  <2> SUFFICES ASSUME asked = None PROVE Given(q) = UNION {Given([q EXCEPT !.project = code]) : code \in codes}
    OBVIOUS
  <2> DEFINE of(code) == [q EXCEPT !.project = code]
  <2>1. \A code \in codes : /\ of(code).resource = q.resource
                            /\ AskedProject(of(code)) = code
                            /\ \A m : Passes(of(code), m) = Passes(q, m)
    BY <1>2, <1>6 DEF AskedProject, Passes
  <2>2. ~Refused(q) /\ \A code \in codes : ~Refused(of(code))
    BY <1>4, <2>1 DEF asked
  <2>3. \A m : ToSet(Over(q, m)) = UNION {ToSet(Over(of(code), m)) : code \in codes}
    <3> TAKE m
    <3>1. CASE ~m.scoped
      <4>1. ToSet(Over(q, m)) = {None} /\ \A code \in codes : ToSet(Over(of(code), m)) = {None}
        BY <1>5, <3>1
      <4>2. codes # {}
        BY <1>6
      <4> HIDE DEF of
      <4> QED
        BY <4>1, <4>2
    <3>2. CASE m.scoped
      <4>1. ToSet(Over(q, m)) = codes
        BY <1>5, <3>2 DEF asked
      <4>2. \A code \in codes : ToSet(Over(of(code), m)) = {code}
        <5> HIDE DEF of
        <5> QED
          BY <1>5, <1>6, <2>1, <3>2
      <4> HIDE DEF of
      <4> QED
        BY <4>1, <4>2
    <3> QED
      BY <3>1, <3>2
  <2> HIDE DEF of
  <2>4. \A l : Gives(q, l) <=> \E code \in codes : Gives(of(code), l)
    BY <2>1, <2>3 DEF Gives
  <2>5. Given(q) = UNION {Given(of(code)) : code \in codes}
    BY <1>3, <2>2, <2>4
  <2> QED
    BY <2>5 DEF of
\* All logical paths together.
<1>9. q.logicalpath = None => Given(q) = UNION {Given([q EXCEPT !.logicalpath = name]) : name \in LogicalNames}
  <2> SUFFICES ASSUME q.logicalpath = None
               PROVE  Given(q) = UNION {Given([q EXCEPT !.logicalpath = name]) : name \in LogicalNames}
    OBVIOUS
  <2> DEFINE of(name) == [q EXCEPT !.logicalpath = name]
  <2>1. \A name \in LogicalNames : /\ of(name).resource = q.resource
                                   /\ of(name).logicalpath = name
                                   /\ of(name).intent = q.intent
                                   /\ AskedProject(of(name)) = AskedProject(q)
    BY <1>2 DEF AskedProject
  <2> HIDE DEF of
  <2>2. \A name \in LogicalNames : Refused(of(name)) <=> Refused(q)
    BY <2>1 DEF Refused
  <2>3. \A name \in LogicalNames : \A m : ToSet(Over(of(name), m)) = ToSet(Over(q, m))
    BY <1>5, <2>1
  <2>4. \A m \in ToSet(Templates(q.resource)) :
          Passes(q, m) <=> \E name \in LogicalNames : Passes(of(name), m)
    <3> TAKE m \in ToSet(Templates(q.resource))
    <3>1. m.logical_name \in LogicalNames /\ None \notin LogicalNames
      BY TemplateProperties DEF LogicalNames, None
    <3>2. Passes(q, m) <=> apply_intent_filter(m, q.intent)
      BY DEF Passes
    <3>3. \A name \in LogicalNames :
            Passes(of(name), m) <=> m.logical_name = name /\ apply_intent_filter(m, q.intent)
      BY <2>1, <3>1 DEF Passes
    <3> QED
      BY <3>1, <3>2, <3>3
  <2>5. \A l : Gives(q, l) <=> \E name \in LogicalNames : Gives(of(name), l)
    BY <2>1, <2>3, <2>4 DEF Gives
  <2>6. LogicalNames # {}
    BY DEF LogicalNames
  <2>7. Given(q) = UNION {Given(of(name)) : name \in LogicalNames}
    BY <1>3, <2>2, <2>5, <2>6
  <2> QED
    BY <2>7 DEF of
\* What is for staging and what is for long term storage.
<1>10. ASSUME q.intent = None
       PROVE  /\ Given(q) = Given([q EXCEPT !.intent = "staging"]) \cup Given([q EXCEPT !.intent = "long_term_storage"])
              /\ Given([q EXCEPT !.intent = "staging"]) \cap Given([q EXCEPT !.intent = "long_term_storage"]) = {}
  <2> DEFINE of(intent) == [q EXCEPT !.intent = intent]
             I == {"staging", "long_term_storage"}
  <2>1. \A i \in I : /\ of(i).resource = q.resource
                     /\ of(i).logicalpath = q.logicalpath
                     /\ of(i).intent = i
                     /\ AskedProject(of(i)) = AskedProject(q)
    BY <1>2 DEF AskedProject
  <2> HIDE DEF of
  <2>2. \A i \in I : Refused(of(i)) <=> Refused(q)
    BY <2>1 DEF Refused
  <2>3. \A i \in I : \A m : ToSet(Over(of(i), m)) = ToSet(Over(q, m))
    BY <1>5, <2>1
  <2>4. \A m : /\ Passes(q, m) <=> q.logicalpath \in {None, m.logical_name}
               /\ Passes(of("staging"), m) <=> Passes(q, m) /\ m.logical_name # "archive"
               /\ Passes(of("long_term_storage"), m) <=> Passes(q, m) /\ m.logical_name = "archive"
    BY <1>10, <2>1 DEF Passes, apply_intent_filter, None
  <2>5. \A l : Gives(q, l) <=> Gives(of("staging"), l) \/ Gives(of("long_term_storage"), l)
    BY <2>1, <2>3, <2>4 DEF Gives
  <2>6. \A l : ~(Gives(of("staging"), l) /\ Gives(of("long_term_storage"), l))
    <3> SUFFICES ASSUME NEW l, Gives(of("staging"), l), Gives(of("long_term_storage"), l) PROVE FALSE
      OBVIOUS
    <3>1. l.logical_name # "archive"
      BY <2>4 DEF Gives, Location
    <3>2. l.logical_name = "archive"
      BY <2>4 DEF Gives, Location
    <3> QED
      BY <3>1, <3>2
  <2>7. Given(q) = Given(of("staging")) \cup Given(of("long_term_storage"))
    BY <1>3, <2>2, <2>5
  <2>8. Given(of("staging")) \cap Given(of("long_term_storage")) = {}
    BY <1>3, <2>6
  <2> QED
    BY <2>7, <2>8 DEF of
<1>11. /\ IsInjective(client.answer.list)
       /\ client.answer.code = 403 <=> asked \notin {None} \cup codes
  BY <1>1, <1>3, <1>4 DEF asked
<1>12. asked = IF q.project # None THEN q.project ELSE q.allocation
  BY DEF asked, AskedProject
<1>13. ToSet(client.answer.list) = Given(q)
  BY <1>1 DEF Given
<1> QED
  BY <1>7, <1>8, <1>9, <1>10, <1>11, <1>12, <1>13 DEF q, Given, codes

\* Every answer about locations adds up, for every question.
THEOREM LocationsAddUpCorrect == Spec => []LocationsAddUp
<1>1. Init => LocateInv
  BY DEF Init, Idle, LocateInv
<1>2. LocateInv /\ [Next]_vars => LocateInv'
  <2> SUFFICES ASSUME LocateInv, [Next]_vars PROVE LocateInv'
    OBVIOUS
  <2>1. ASSUME NEW q \in Questions, Locate(q) PROVE LocateInv'
    BY <2>1 DEF Locate, LocateInv, Questions
  <2>2. CASE client' = client
    BY <2>2 DEF LocateInv
  <2>3. ASSUME client'.does # "locate" PROVE LocateInv'
    BY <2>3 DEF LocateInv
  <2>4. ASSUME NEW id, Open(id) \/ OpenListed(id) \/ Follow(id) PROVE LocateInv'
    BY <2>3, <2>4 DEF Open, OpenListed, Follow
  <2>5. ASSUME NEW query, NEW limit, Ask(query, limit) PROVE LocateInv'
    BY <2>3, <2>5 DEF Ask
  <2>6. CASE NextPage
    <3>1. client'.does = client.does \/ client'.does # "locate"
      BY <2>6 DEF NextPage
    <3> QED
      BY <2>3, <2>6, <3>1 DEF NextPage
  <2>7. CASE Leave
    BY <2>3, <2>7 DEF Leave, Idle
  <2> QED
    BY <2>1, <2>2, <2>4, <2>5, <2>6, <2>7 DEF Next, Generate, vars
<1>3. LocateInv => LocationsAddUp
  BY LocationsOfAnyQueryAddUp
<1>4. QED
  BY <1>1, <1>2, <1>3, PTL DEF Spec

-----------------------------------------------------------------------------
(* Allocations.                                                            *)

\* Some resource has the capability, and a template there that can be written and
\* is no project's.
LEMMA CapabilityIsServed ==
  ASSUME NEW c \in ToSet(capabilities)
  PROVE  \E r \in ToSet(resources) :
           /\ c \in ToSet(r.capability_ids)
           /\ \E m \in ToSet(Templates(r.name)) : m.write = TRUE /\ m.scoped = FALSE
<1>1. DOMAIN CapabilityNames = 1 .. 4
  BY DEF CapabilityNames
<1>2. PICK n \in 1 .. 4 : c = <<"capability", CapabilityNames[n]>>
  BY <1>1 DEF capabilities, ToSet, demo_uuid
<1>3. \A i \in 1 .. 3 : resources[i] \in ToSet(resources)
  BY ResourceProperties DEF ToSet
<1>4. /\ resources[1].name = "perlmutter" /\ resources[2].name = "hpss" /\ resources[3].name = "cfs"
      /\ resources[1].capability_ids = [k \in DOMAIN <<"cpu", "gpu">> |-> demo_uuid("capability", <<"cpu", "gpu">>[k])]
      /\ resources[2].capability_ids = [k \in DOMAIN <<"hpss">> |-> demo_uuid("capability", <<"hpss">>[k])]
      /\ resources[3].capability_ids = [k \in DOMAIN <<"gpfs">> |-> demo_uuid("capability", <<"gpfs">>[k])]
  BY DEF resources, Resource
<1>5. /\ ToSet(resources[1].capability_ids) = {<<"capability", "cpu">>, <<"capability", "gpu">>}
      /\ ToSet(resources[2].capability_ids) = {<<"capability", "hpss">>}
      /\ ToSet(resources[3].capability_ids) = {<<"capability", "gpfs">>}
  <2>1. ToSet([k \in DOMAIN <<"cpu", "gpu">> |-> demo_uuid("capability", <<"cpu", "gpu">>[k])])
          = {<<"capability", "cpu">>, <<"capability", "gpu">>}
    BY DEF ToSet, demo_uuid
  <2>2. \A w : ToSet([k \in DOMAIN <<w>> |-> demo_uuid("capability", <<w>>[k])]) = {<<"capability", w>>}
    BY DEF ToSet, demo_uuid
  <2> QED
    BY <1>4, <2>1, <2>2
<1>6. \E i \in 1 .. 3 : c \in ToSet(resources[i].capability_ids)
  <2>1. CapabilityNames[n] \in {"cpu", "gpu", "hpss", "gpfs"}
    BY DEF CapabilityNames
  <2> QED
    BY <1>2, <1>5, <2>1
<1>7. \A i \in 1 .. 3 : \E m \in ToSet(Templates(resources[i].name)) : m.write = TRUE /\ m.scoped = FALSE
  <2> DEFINE usable(list) == \E m \in ToSet(list) : m.write = TRUE /\ m.scoped = FALSE
  <2>1. usable(InJob)
    <3>1. 2 \in DOMAIN InJob /\ InJob[2] = Template("scratch", "pscratch", FALSE, TRUE)
      BY DEF InJob, Everywhere, rw
    <3>2. InJob[2] \in ToSet(InJob)
      BY <3>1 DEF ToSet
    <3> QED
      BY <3>1, <3>2 DEF Template
  <2>2. usable(OnTape)
    <3>1. 1 \in DOMAIN OnTape /\ OnTape[1] = Template("archive", "hpss_home", FALSE, TRUE)
      BY DEF OnTape, rw
    <3>2. OnTape[1] \in ToSet(OnTape)
      BY <3>1 DEF ToSet
    <3> QED
      BY <3>1, <3>2 DEF Template
  <2>3. usable(OnDisk)
    <3>1. 2 \in DOMAIN OnDisk /\ OnDisk[2] = Template("scratch", "pscratch", FALSE, TRUE)
      BY DEF OnDisk, Everywhere, rw
    <3>2. OnDisk[2] \in ToSet(OnDisk)
      BY <3>1 DEF ToSet
    <3> QED
      BY <3>1, <3>2 DEF Template
  <2>4. /\ Templates("perlmutter") = InJob /\ Templates("hpss") = OnTape /\ Templates("cfs") = OnDisk
    BY DEF Templates, locations
  <2>5. usable(Templates(resources[1].name)) /\ usable(Templates(resources[2].name)) /\ usable(Templates(resources[3].name))
    <3> HIDE DEF usable
    <3> QED
      BY <1>4, <2>1, <2>2, <2>3, <2>4
  <2>6. \A i \in 1 .. 3 : i = 1 \/ i = 2 \/ i = 3
    OBVIOUS
  <2> HIDE DEF usable
  <2>7. \A i \in 1 .. 3 : usable(Templates(resources[i].name))
    BY <2>5, <2>6
  <2> QED
    BY <2>7 DEF usable
<1> QED
  BY <1>3, <1>6, <1>7

\* What is allocated can be written to, by the code of its project.
THEOREM AllocationsAreUsableCorrect == Spec => []AllocationsAreUsable
<1>1. SeedInv /\ ReachInv => AllocationsAreUsable
  <2> SUFFICES ASSUME SeedInv, ReachInv, client.does = "read", Kind(client.at) = "project_allocation"
               PROVE  LET pa      == project_allocations[Place(client.at)]
                          project == CHOOSE p \in ToSet(projects) : p.id = pa.project_id
                      IN \E r \in ToSet(resources) :
                           /\ pa.capability_id \in ToSet(r.capability_ids)
                           /\ \E l \in ToSet(get_locations([resource |-> r.name, logicalpath |-> None, allocation |-> None,
                                                            project |-> slugify_project(project.name), intent |-> "write"]).list) : l.write
    BY DEF AllocationsAreUsable
  <2> DEFINE pa      == project_allocations[Place(client.at)]
             project == CHOOSE p \in ToSet(projects) : p.id = pa.project_id
             code    == slugify_project(project.name)
             q(r)    == [resource |-> r.name, logicalpath |-> None, allocation |-> None,
                         project |-> code, intent |-> "write"]
  <2>1. pa \in ToSet(project_allocations)
    <3>1. PICK n \in DOMAIN Ids(project_allocations) : client.at = Ids(project_allocations)[n]
      BY DEF ReachInv, Known, Collection, ToSet
    <3>2. Place(client.at) = n
      BY <3>1, KnownIsFound DEF Kinds, Collection
    <3>3. n \in DOMAIN project_allocations
      BY DEF Ids
    <3> QED
      BY <3>2, <3>3 DEF ToSet
  <2> HIDE DEF pa
  <2>2. pa.project_id \in ToSet(Ids(projects)) /\ pa.capability_id \in ToSet(capabilities)
    BY <2>1, AllocationProperties
  <2>3. project \in ToSet(projects)
    <3>1. \E p \in ToSet(projects) : p.id = pa.project_id
      BY <2>2, KnownIds
    <3> QED
      BY <3>1
  <2> HIDE DEF project
  <2>4. code \in ToSet(user_project_codes) /\ code # None
    <3>1. DOMAIN projects = 1 .. 2
      BY DEF projects
    <3>2. projects[1].name = "Staff research project"
      BY DEF projects
    <3>3. projects[2].name = "Test project"
      BY DEF projects
    <3>4. project.name \in {"Staff research project", "Test project"}
      <4>1. \A n \in 1 .. 2 : n = 1 \/ n = 2
        OBVIOUS
      <4>2. PICK n \in 1 .. 2 : project = projects[n]
        BY <2>3, <3>1 DEF ToSet
      <4> QED
        BY <3>2, <3>3, <4>1, <4>2
    <3>5. code \in {"staff_research_project", "test_project"}
      BY <3>4 DEF slugify_project
    <3>6. ToSet(user_project_codes) = {"staff_research_project", "test_project"}
      BY UserProjectCodes DEF ToSet
    <3> QED
      BY <3>5, <3>6 DEF None
  <2> HIDE DEF code
  <2>5. PICK r \in ToSet(resources) :
          /\ pa.capability_id \in ToSet(r.capability_ids)
          /\ \E m \in ToSet(Templates(r.name)) : m.write = TRUE /\ m.scoped = FALSE
    BY <2>2, CapabilityIsServed
  <2>6. PICK m \in ToSet(Templates(r.name)) : m.write = TRUE /\ m.scoped = FALSE
    BY <2>5
  <2>7. AskedProject(q(r)) = code /\ q(r).resource = r.name /\ Passes(q(r), m)
    BY <2>4, <2>6 DEF AskedProject, Passes, apply_intent_filter, None
  <2>8. None \in ToSet(Over(q(r), m))
    BY <2>6, OverProperties
  <2> HIDE DEF q
  <2>9. Location(m, None) \in ToSet(get_locations(q(r)).list)
    <3>1. ~(AskedProject(q(r)) # None /\ ~user_member_of(AskedProject(q(r))))
      BY <2>4, <2>7 DEF user_member_of
    <3> QED
      BY <2>6, <2>7, <2>8, <3>1, LocationsProperties
  <2>10. Location(m, None).write
    BY <2>6 DEF Location
  <2> QED
    BY <2>5, <2>9, <2>10 DEF pa, project, code, q
<1>2. QED
  BY <1>1, SeedInvariant, ReachCorrect, PTL
==============================================================================
